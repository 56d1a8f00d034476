--------------------------- MODULE Issuance_proofs ---------------------------
(***************************************************************************)
(* Proofs about the issuance of packages, for every set of packages,        *)
(* requests and member lists, on top of what is proved of the content store *)
(* that the issuances read and the writers change.                          *)
(***************************************************************************)
EXTENDS Issuance, SpecStore_proofs, FiniteSetTheorems, SequenceTheorems

-----------------------------------------------------------------------------
(* What an open call has read and written. *)

(* A tree hangs every row below one that was drawn before it.               *)
TreeRows == {tree \in UNION {[rows -> ParaRow] : rows \in SUBSET Paras} :
                \A p \in DOMAIN tree : tree[p].parent < p}
SeenRow == [members : Seq(Specs), trees : [Specs -> TreeRows]]
FrozenRow == [spec : Specs, tree : TreeRows]
RevisionRow == [package : Packages, request : Requests, order : Nat, gated : Flag,
                frozen : Seq(FrozenRow)]
ViewRow == [members : Seq(Specs), trees : [Specs -> TreeRows], rows : [Specs -> SpecRow],
            revisions : SUBSET RevisionRow]
OpenPhases == {"locking", "numbering", "freezing", "marking"}
OpenRow == [phase : OpenPhases, package : Packages, snapshot : ViewRow, seen : SUBSET SeenRow,
            gated : Flag, asked : Nat, order : Nat, members : Seq(Specs),
            frozen : Seq(FrozenRow), scan : Seq(Specs), marked : Nat]
Closed(t) == t.phase \in {"new", "failed", "issued"}
HasBound(revs) == \E bound \in Nat : \A n \in revs : n.order <= bound

(* Transaction t froze, in order, the members its snapshot lists; it holds   *)
(* no number the snapshot has taken; and it marks the drafts of the snapshot *)
(* that it froze, once the gate has let it.                                  *)
FrozenOf(t) == {t.frozen[i] : i \in 1..Len(t.frozen)}
DraftsOf(t) == {s \in {e.spec : e \in FrozenOf(t)} : t.snapshot.rows[s].lifecycle = "draft"}
MarkedOf(t) == IF t.phase = "marking" THEN {t.scan[i] : i \in 1..t.marked} ELSE {}
Numbers(t) ==
    /\ t.members = t.snapshot.members
    /\ t.asked = Default => \A n \in t.snapshot.revisions : n.order < t.order
Freezes(t) ==
    /\ Len(t.frozen) <= Len(t.members)
    /\ \A i \in 1..Len(t.frozen) :
          t.frozen[i] = [spec |-> t.members[i], tree |-> t.snapshot.trees[t.members[i]]]
Marks(t) ==
    /\ Len(t.frozen) = Len(t.members)
    /\ t.gated => \A e \in FrozenOf(t) : Findings(e.tree) = {}
    /\ t.marked <= Len(t.scan)
    /\ DraftsOf(t) = {t.scan[i] : i \in 1..Len(t.scan)}
Reads(t) ==
    /\ t \in OpenRow
    /\ [members |-> t.snapshot.members, trees |-> t.snapshot.trees] \in t.seen
    /\ HasBound(t.snapshot.revisions)
    /\ t.phase \in {"locking", "numbering"} => t.frozen = <<>>
    /\ t.phase # "marking" => t.marked = 0
    /\ t.phase \in {"freezing", "marking"} => Numbers(t) /\ Freezes(t)
    /\ t.phase = "marking" => Marks(t)

(* Where the tables stand against what t read: never behind it, the same     *)
(* while content_version is, past draft if they were; and what t has marked  *)
(* nobody has touched.                                                       *)
Stands(t) ==
    /\ \A s \in Specs :
          /\ t.snapshot.rows[s].contentVersion <= spec[s].contentVersion
          /\ t.snapshot.rows[s].contentVersion = spec[s].contentVersion
                => t.snapshot.trees[s] = Tree(s)
          /\ t.snapshot.rows[s].lifecycle # "draft" => spec[s].lifecycle # "draft"
    /\ \A s \in MarkedOf(t) : spec[s] = t.snapshot.rows[s]

ParentsComeFirst == \A p \in Paras : Live(p) => para[p].parent < p
StoreInv == TypeOK /\ ParentsComeFirst
TreesOK == Trees \in [Specs -> TreeRows]
InOrder(r) == Closed(tx[r]) \/ (Reads(tx[r]) /\ Stands(tx[r]))
TxInv ==
    /\ DOMAIN tx = Requests /\ tx = [r \in Requests |-> tx[r]]
    /\ \A r \in Requests : InOrder(r)
    /\ \A r, q \in Requests : r # q => MarkedOf(tx[r]) \cap MarkedOf(tx[q]) = {}
RevisionFine(n) ==
    /\ tx[n.request].phase = "issued"
    /\ \A i \in 1..Len(n.frozen) : /\ spec[n.frozen[i].spec].lifecycle # "draft"
                                   /\ n.gated => Findings(n.frozen[i].tree) = {}
RevisionsInv ==
    /\ revisions \subseteq RevisionRow
    /\ HasBound(revisions)
    /\ \A n \in revisions : RevisionFine(n)
IssueInv ==
    /\ StoreInv
    /\ package \in [Packages -> [exists : Flag, members : Seq(Specs)]]
    /\ TxInv /\ RevisionsInv

-----------------------------------------------------------------------------
(* The writers. *)

(* What the tables may do under an open call.                                *)
Advances ==
    \A x \in Specs :
       /\ spec[x].contentVersion <= spec'[x].contentVersion
       /\ spec'[x].contentVersion = spec[x].contentVersion => Tree(x)' = Tree(x)
       /\ spec[x].lifecycle # "draft" => spec'[x].lifecycle # "draft"

(* A writer is a request of the content store, or archives.                  *)
LEMMA WriterWrites ==
    ASSUME NEW s \in Specs, Writer(s)
    PROVE  /\ Write(s) \/ SetLifecycle(s, "archived")
           /\ s \notin Updated \/ s \notin KeyShared
           /\ UNCHANGED <<package, lock, revisions>>
    BY DEF Writer, Write

(* No row is ever moved below another parent, and a new one comes after its  *)
(* parent.                                                                   *)
LEMMA ParentsStayFirst ==
    ASSUME StoreInv, NEW s \in Specs, Write(s)
    PROVE  ParentsComeFirst'
  <1>0. /\ para \in [Paras -> ParaRow \cup {NoRow}] /\ Paras \subseteq Nat
        /\ \A p \in Paras : InSpec(p, s) => Live(p) /\ para[p] \in ParaRow
        /\ \A p \in Paras : Live(p) => para[p].parent < p
    BY RowFacts DEF StoreInv, ParentsComeFirst, Paras
  <1>1. CASE \E title \in Titles : UpdateSpec(s, title)
    BY <1>0, <1>1 DEF UpdateSpec, ParentsComeFirst, Live
  <1>2. ASSUME NEW p \in Paras, EditsRow(s, p)  PROVE ParentsComeFirst'
    BY <1>0, <1>2 DEF EditsRow, SamePlace, ParentsComeFirst, Live
  <1>4. ASSUME NEW doc \in Documents, PersistParsedSpec(s, doc)  PROVE ParentsComeFirst'
    <2> DEFINE fresh == drawn + 1 .. drawn + Len(doc.nodes)
    <2>1. /\ Len(doc.nodes) \in Nat /\ drawn \in Nat
          /\ \A i \in 1..Len(doc.nodes) : doc.nodes[i].parent \in Nat /\ doc.nodes[i].parent < i
      <3>1. doc.nodes \in Seq(Node) /\ \A i \in 1..Len(doc.nodes) : doc.nodes[i].parent < i
        BY DocumentsAssumption
      <3>2. \A i \in 1..Len(doc.nodes) : doc.nodes[i] \in Node
        BY <3>1
      <3> QED
        BY <3>1, <3>2 DEF StoreInv, TypeOK, Node
    <2>2. ASSUME NEW p \in Paras, p \in fresh  PROVE para'[p].parent < p
      <3>1. p - drawn \in 1..Len(doc.nodes) /\ p > 0
        BY <1>0, <2>1, <2>2
      <3>2. para'[p] = ImportedRow(s, doc, drawn, p - drawn)
        BY <1>4, <2>2 DEF PersistParsedSpec
      <3>3. /\ doc.nodes[p - drawn].parent < p - drawn /\ doc.nodes[p - drawn].parent \in Nat
        BY <2>1, <3>1
      <3>4. para'[p].parent = IF doc.nodes[p - drawn].parent = 0 THEN NoPara
                              ELSE drawn + doc.nodes[p - drawn].parent
        BY <3>2 DEF ImportedRow
      <3> QED
        BY <1>0, <2>1, <3>1, <3>3, <3>4 DEF NoPara
    <2>3. ASSUME NEW p \in Paras, p \notin fresh
          PROVE  para'[p] = IF InSpec(p, s) THEN NoRow ELSE para[p]
      BY <1>4, <2>3 DEF PersistParsedSpec
    <2> QED
      BY <1>0, <2>2, <2>3 DEF ParentsComeFirst, Live
  <1>5. ASSUME NEW a \in Paras, NEW n \in Paras, InsertsRow(s, a, n), n > a
        PROVE  ParentsComeFirst'
    <2>1. /\ InSpec(a, s) /\ para[a] \in ParaRow /\ para[a].parent < a /\ para[a].parent \in Nat
      BY <1>0, <1>5 DEF InsertsRow, ParaRow, Paras, NoPara
    <2>2. para'[a].parent = para[a].parent /\ para'[n].parent = para[a].parent
      BY <1>5 DEF InsertsRow, SamePlace
    <2>3. ASSUME NEW q \in Paras \ {a, n}, Live(q)'  PROVE para'[q].parent < q
      <3>1. para'[q] = ShiftedAfter(para, para[a])[q]
        BY <1>5 DEF InsertsRow
      <3>2. /\ para[q] # NoRow
            /\ para'[q].parent = para[q].parent
        BY <1>0, <2>1, <2>3, <3>1, ShiftedPlace DEF Live
      <3> QED
        BY <1>0, <3>2 DEF Live
    <2> QED
      BY <1>0, <1>5, <2>1, <2>2, <2>3 DEF ParentsComeFirst
  <1>6. ASSUME EditorWrites(s)  PROVE ParentsComeFirst'
    <2>1. CASE \E p \in Paras : EditsRow(s, p)
      BY <1>2, <2>1
    <2>2. ASSUME NEW a \in Paras, NEW n \in Paras, InsertsRow(s, a, n), n = drawn + 1
          PROVE  n > a
      BY <1>0, <2>2 DEF InsertsRow, Live, StoreInv, TypeOK
    <2> QED
      BY <1>5, <1>6, <2>1, <2>2 DEF EditorWrites
  <1> QED
    BY <1>1, <1>4, <1>6, WriteShapes DEF StoreInv, ImportWrites

(* A request moves the token of its spec, an archive none; neither makes a   *)
(* draft.                                                                    *)
LEMMA WriterAdvances ==
    ASSUME StoreInv, NEW s \in Specs, Writer(s)
    PROVE  /\ StoreInv' /\ Advances
           /\ \A x \in Specs \ {s} : spec'[x] = spec[x]
           /\ spec'[s].lifecycle \in {spec[s].lifecycle, "archived"}
  <1>0. TypeOK /\ spec \in [Specs -> SpecRow] /\ \A x \in Specs : spec[x] \in SpecRow
    BY DEF StoreInv, TypeOK
  <1>1. \A x \in Specs : Tree(x) = Body(x)
    BY DEF Tree, Body
  <1>2. \A x \in Specs : Tree(x)' = Body(x)'
    BY DEF Tree, Body
  <1>3. CASE Write(s)
    <2>1. TypeOK'
      BY <1>0, <1>3, NextType DEF Next
    <2>2. spec'[s].lifecycle = spec[s].lifecycle
      <3>1. Bumped(spec[s]).lifecycle = spec[s].lifecycle
        BY <1>0 DEF Bumped, SpecRow
      <3>3. ASSUME NEW title
            PROVE  Bumped(Retitled(spec[s], title)).lifecycle = spec[s].lifecycle
        BY <1>0 DEF Bumped, Retitled, SpecRow
      <3>2. \/ spec'[s] = Bumped(spec[s])
            \/ \E title \in Titles : spec'[s] = Bumped(Retitled(spec[s], title))
        <4>1. CASE \E title \in Titles : UpdateSpec(s, title)
          BY <1>0, <4>1 DEF UpdateSpec
        <4>2. CASE ImportWrites(s)
          BY <1>0, <4>2, DocumentsAssumption DEF ImportWrites, PersistParsedSpec
        <4>3. CASE EditorWrites(s)
          BY <1>0, <4>3 DEF EditorWrites, BumpSpecContentVersion
        <4> QED
          BY <1>0, <1>3, <4>1, <4>2, <4>3, WriteShapes
      <3>4. CASE spec'[s] = Bumped(spec[s])
        BY <3>1, <3>4
      <3>5. CASE \E title \in Titles : spec'[s] = Bumped(Retitled(spec[s], title))
        BY <3>3, <3>5
      <3> QED
        BY <3>2, <3>4, <3>5
    <2>3. /\ spec'[s].contentVersion = spec[s].contentVersion + 1
          /\ \A x \in Specs \ {s} : spec'[x] = spec[x]
      BY <1>0, <1>3, RequestAdvances
    <2>4. \A x \in Specs \ {s} : Tree(x)' = Tree(x)
      BY <1>0, <1>1, <1>2, <1>3, OtherBodiesStay
    <2>5. \A x \in Specs : spec[x].contentVersion \in Nat
      BY <1>0 DEF SpecRow
    <2>6. Advances
      BY <2>2, <2>3, <2>4, <2>5 DEF Advances
    <2> QED
      BY <1>3, <2>1, <2>2, <2>3, <2>6, ParentsStayFirst DEF StoreInv
  <1>4. CASE SetLifecycle(s, "archived")
    <2>1. /\ spec' = [spec EXCEPT ![s].lifecycle = "archived"]
          /\ UNCHANGED <<para, drawn, hist, sealed>>
      BY <1>4 DEF SetLifecycle
    <2>2. [spec[s] EXCEPT !.lifecycle = "archived"] \in SpecRow
      BY <1>0 DEF SpecRow, Lifecycles
    <2>3. spec' \in [Specs -> SpecRow]
      BY <1>0, <2>1, <2>2
    <2>4. StoreInv'
      BY <2>1, <2>3 DEF StoreInv, TypeOK, ParentsComeFirst, Live
    <2>5. \A x \in Specs : /\ spec'[x].contentVersion = spec[x].contentVersion
                           /\ x # s => spec'[x] = spec[x]
      BY <1>0, <2>1 DEF SpecRow
    <2>6. spec'[s].lifecycle = "archived"
      BY <1>0, <2>1 DEF SpecRow
    <2>7. \A x \in Specs : Tree(x)' = Tree(x)
      BY <2>1 DEF Tree, Rows, InSpec, Live
    <2>8. \A x \in Specs : spec[x].contentVersion <= spec'[x].contentVersion
      BY <1>0, <2>5 DEF SpecRow
    <2> QED
      BY <2>4, <2>5, <2>6, <2>7, <2>8 DEF Advances
  <1> QED
    BY <1>3, <1>4, WriterWrites

-----------------------------------------------------------------------------
(* The transactions. *)

(* What t read stays as true as it was when the tables only advance and      *)
(* nobody touches what it has marked.                                        *)
LEMMA StandsAfter ==
    ASSUME NEW t, NEW n, TypeOK, TypeOK', t.snapshot.rows \in [Specs -> SpecRow],
           MarkedOf(t) \subseteq Specs,
           Stands(t), Advances, n.snapshot = t.snapshot, MarkedOf(n) = MarkedOf(t),
           \A s \in MarkedOf(t) : spec'[s] = spec[s]
    PROVE  Stands(n)'
  <1>1. \A s \in Specs : /\ t.snapshot.rows[s].contentVersion \in Nat
                         /\ spec[s].contentVersion \in Nat
                         /\ spec'[s].contentVersion \in Nat
    BY DEF TypeOK, SpecRow
  <1>2. ASSUME NEW s \in Specs
        PROVE  /\ t.snapshot.rows[s].contentVersion <= spec'[s].contentVersion
               /\ t.snapshot.rows[s].contentVersion = spec'[s].contentVersion
                     => t.snapshot.trees[s] = Tree(s)'
               /\ t.snapshot.rows[s].lifecycle # "draft" => spec'[s].lifecycle # "draft"
    <2>1. /\ t.snapshot.rows[s].contentVersion <= spec[s].contentVersion
          /\ t.snapshot.rows[s].contentVersion = spec[s].contentVersion
                => t.snapshot.trees[s] = Tree(s)
          /\ t.snapshot.rows[s].lifecycle # "draft" => spec[s].lifecycle # "draft"
      BY DEF Stands
    <2>2. /\ spec[s].contentVersion <= spec'[s].contentVersion
          /\ spec'[s].contentVersion = spec[s].contentVersion => Tree(s)' = Tree(s)
          /\ spec[s].lifecycle # "draft" => spec'[s].lifecycle # "draft"
      BY DEF Advances
    <2> DEFINE v0 == t.snapshot.rows[s].contentVersion
               v1 == spec[s].contentVersion
               v2 == spec'[s].contentVersion
    <2>3. v0 \in Nat /\ v1 \in Nat /\ v2 \in Nat /\ v0 <= v1 /\ v1 <= v2
      BY <1>1, <2>1, <2>2
    <2>4. v0 <= v2
      <3> HIDE DEF v0, v1, v2
      <3> QED
        BY <2>3
    <2>5. v0 = v2 => v0 = v1 /\ v1 = v2
      <3> HIDE DEF v0, v1, v2
      <3> QED
        BY <2>3
    <2>6. ASSUME v0 = v2  PROVE t.snapshot.trees[s] = Tree(s)'
      <3>1. t.snapshot.trees[s] = Tree(s) /\ Tree(s)' = Tree(s)
        BY <2>1, <2>2, <2>5, <2>6
      <3> QED
        BY <3>1
    <2> QED
      BY <2>1, <2>2, <2>4, <2>6
  <1>3. \A s \in MarkedOf(t) : spec'[s] = t.snapshot.rows[s]
    BY DEF Stands
  <1> DEFINE View0(x) == x.snapshot
             Taken(x) == MarkedOf(x)
  <1>4. /\ \A s \in Specs :
              /\ View0(n).rows[s].contentVersion <= spec'[s].contentVersion
              /\ View0(n).rows[s].contentVersion = spec'[s].contentVersion
                    => View0(n).trees[s] = Tree(s)'
              /\ View0(n).rows[s].lifecycle # "draft" => spec'[s].lifecycle # "draft"
        /\ \A s \in Taken(n) : spec'[s] = View0(n).rows[s]
    <2>1. View0(n) = t.snapshot /\ Taken(n) = MarkedOf(t)
      OBVIOUS
    <2> HIDE DEF View0, Taken
    <2> QED
      BY <1>2, <1>3, <2>1
  <1> QED
    BY <1>4 DEF Stands

(* The rows a transaction has updated are those of its record.               *)
LEMMA MarkedRows ==
    ASSUME TxInv, NEW r \in Requests
    PROVE  /\ Marked(r) = MarkedOf(tx[r])
           /\ MarkedOf(tx[r]) \subseteq Specs
           /\ tx[r].phase = "marking" => MarkedOf(tx[r]) \subseteq FrozenSpecs(r)
  <1> DEFINE t == tx[r]
  <1>1. CASE t.phase = "marking"
    <2>1. Reads(t)
      BY <1>1 DEF TxInv, InOrder, Closed
    <2>2. /\ t.scan \in Seq(Specs) /\ t.marked \in Nat /\ t.marked <= Len(t.scan)
          /\ DraftsOf(t) = {t.scan[i] : i \in 1..Len(t.scan)}
      BY <1>1, <2>1 DEF Reads, OpenRow, Marks
    <2>3. \A i \in 1..t.marked : t.scan[i] \in Specs
      BY <2>2
    <2>4. ToSet(SubSeq(t.scan, 1, t.marked)) = {t.scan[i] : i \in 1..t.marked}
      <3> DEFINE prefix == SubSeq(t.scan, 1, t.marked)
      <3>1. Len(prefix) = t.marked /\ prefix \in Seq(Specs)
        BY <2>2, <2>3, SubSeqProperties
      <3>2. \A i \in 1..t.marked : prefix[i] = t.scan[i]
        BY <2>2, <2>3, SubSeqProperties
      <3>3. DOMAIN prefix = 1..t.marked
        BY <3>1
      <3> HIDE DEF prefix
      <3> QED
        BY <3>2, <3>3 DEF ToSet, prefix
    <2>5. DraftsOf(t) \subseteq FrozenSpecs(r)
      BY DEF DraftsOf, FrozenSpecs, FrozenOf, Frozen
    <2> QED
      BY <1>1, <2>2, <2>3, <2>4, <2>5 DEF Marked, MarkedOf
  <1>2. CASE t.phase # "marking"
    BY <1>2 DEF Marked, MarkedOf
  <1> QED
    BY <1>1, <1>2

(* The trees of the tables, and what they say together.                      *)
LEMMA TreesTyped == StoreInv => TreesOK
  <1> SUFFICES ASSUME StoreInv  PROVE Trees \in [Specs -> TreeRows]
    BY DEF TreesOK
  <1>1. ASSUME NEW s \in Specs  PROVE Tree(s) \in TreeRows
    <2>1. \A p \in Rows(s) : p \in Paras /\ Live(p) /\ para[p] \in ParaRow /\ para[p].parent < p
      BY DEF StoreInv, TypeOK, ParentsComeFirst, Rows, InSpec, Live
    <2>2. /\ Rows(s) \in SUBSET Paras
          /\ Tree(s) \in [Rows(s) -> ParaRow]
          /\ DOMAIN Tree(s) = Rows(s)
          /\ \A p \in Rows(s) : Tree(s)[p] = para[p]
      BY <2>1 DEF Tree
    <2>3. Tree(s) \in UNION {[rows -> ParaRow] : rows \in SUBSET Paras}
      BY <2>2
    <2>4. \A p \in DOMAIN Tree(s) : Tree(s)[p].parent < p
      BY <2>1, <2>2
    <2> QED
      BY <2>3, <2>4 DEF TreeRows
  <1> QED
    BY <1>1 DEF Trees

(* To have seen more changes nothing else.                                   *)
LEMMA SeeingMore ==
    ASSUME NEW t, NEW more \in SUBSET SeenRow, Reads(t),
           NEW n, n = [t EXCEPT !.seen = @ \cup more]
    PROVE  /\ Reads(n)
           /\ n.snapshot = t.snapshot /\ n.phase = t.phase
           /\ MarkedOf(n) = MarkedOf(t)
  <1>1. t \in OpenRow
    BY DEF Reads
  <1>2. /\ n \in OpenRow
        /\ n.snapshot = t.snapshot /\ n.phase = t.phase /\ n.members = t.members
        /\ n.asked = t.asked /\ n.order = t.order /\ n.frozen = t.frozen
        /\ n.gated = t.gated /\ n.marked = t.marked /\ n.scan = t.scan
        /\ t.seen \subseteq n.seen
    BY <1>1 DEF OpenRow
  <1>3. FrozenOf(n) = FrozenOf(t)
    BY <1>2 DEF FrozenOf
  <1>4. DraftsOf(n) = DraftsOf(t) /\ MarkedOf(n) = MarkedOf(t)
    BY <1>2, <1>3 DEF DraftsOf, MarkedOf
  <1>5. (Numbers(t) => Numbers(n)) /\ (Freezes(t) => Freezes(n))
    BY <1>2 DEF Numbers, Freezes
  <1>6. ASSUME Marks(t)  PROVE Marks(n)
    <2>1. Len(n.frozen) = Len(n.members) /\ n.marked <= Len(n.scan)
      BY <1>2, <1>6 DEF Marks
    <2>2. n.gated => \A e \in FrozenOf(n) : Findings(e.tree) = {}
      BY <1>2, <1>3, <1>6 DEF Marks
    <2>3. DraftsOf(n) = {n.scan[i] : i \in 1..Len(n.scan)}
      <3>1. n.scan = t.scan /\ DraftsOf(n) = DraftsOf(t)
        BY <1>2, <1>4
      <3>2. DraftsOf(t) = {t.scan[i] : i \in 1..Len(t.scan)}
        BY <1>6 DEF Marks
      <3>3. DraftsOf(n) = {t.scan[i] : i \in 1..Len(t.scan)}
        BY <3>1, <3>2, Zenon
      <3> QED
        BY <3>1, <3>3, Zenon
    <2> QED
      BY <2>1, <2>2, <2>3 DEF Marks
  <1> QED
    BY <1>2, <1>4, <1>5, <1>6 DEF Reads

(* A commit of anyone else.                                                  *)
LEMMA ObservingStep ==
    ASSUME IssueInv, StoreInv', Advances,
           package' \in [Packages -> [exists : Flag, members : Seq(Specs)]],
           revisions' \subseteq revisions,
           \A q \in Requests : \A s \in MarkedOf(tx[q]) : spec'[s] = spec[s],
           tx' = [r \in Requests |->
                    IF tx[r].phase \in {"locking", "numbering", "freezing", "marking"}
                    THEN [tx[r] EXCEPT !.seen = @ \cup
                             {[members |-> package'[tx[r].package].members, trees |-> Trees']}]
                    ELSE tx[r]]
    PROVE  IssueInv'
  <1>0. TxInv /\ RevisionsInv /\ TypeOK /\ TypeOK'
    BY DEF IssueInv, StoreInv
  <1>1. Trees' \in [Specs -> TreeRows]
    <2>1. StoreInv' => TreesOK'
      BY TreesTyped, PTL
    <2> QED
      BY <2>1 DEF TreesOK
  <1>2. ASSUME NEW r \in Requests
        PROVE  \E n : /\ n = tx'[r] /\ n.phase = tx[r].phase /\ MarkedOf(n) = MarkedOf(tx[r])
                      /\ Closed(n) \/ (Reads(n) /\ Stands(n)')
    <2>1. PICK t : t = tx[r]
      OBVIOUS
    <2>2. PICK n : n = tx'[r]
      OBVIOUS
    <2>3. CASE Closed(t)
      <3>1. n = t
        BY <2>1, <2>2, <2>3 DEF Closed
      <3> QED
        BY <2>1, <2>2, <2>3, <3>1
    <2>4. CASE ~Closed(t)
      <3>1. Reads(t) /\ Stands(t) /\ t \in OpenRow
        BY <1>0, <2>1, <2>4 DEF TxInv, InOrder, Reads
      <3>2. t.package \in Packages /\ t.phase \in {"locking", "numbering", "freezing", "marking"}
        BY <3>1 DEF OpenRow, OpenPhases
      <3>3. PICK more : more = {[members |-> package'[t.package].members, trees |-> Trees']}
        OBVIOUS
      <3>4. more \in SUBSET SeenRow
        <4>1. package'[t.package].members \in Seq(Specs)
          BY <3>2
        <4> QED
          BY <1>1, <3>3, <4>1 DEF SeenRow
      <3>5. n = [t EXCEPT !.seen = @ \cup more]
        BY <2>1, <2>2, <3>2, <3>3
      <3>6. /\ Reads(n) /\ n.snapshot = t.snapshot /\ n.phase = t.phase
            /\ MarkedOf(n) = MarkedOf(t)
        BY <3>1, <3>4, <3>5, SeeingMore
      <3>7. t.snapshot.rows \in [Specs -> SpecRow]
        BY <3>1 DEF OpenRow, ViewRow
      <3>8. MarkedOf(t) \subseteq Specs
        BY <1>0, <2>1, MarkedRows
      <3>9. Stands(n)'
        BY <1>0, <2>1, <3>1, <3>6, <3>7, <3>8, StandsAfter
      <3> QED
        BY <2>1, <2>2, <3>6, <3>9
    <2> QED
      BY <2>3, <2>4
  <1>3. TxInv'
    <2>1. DOMAIN tx' = Requests /\ tx' = [r \in Requests |-> tx'[r]]
      OBVIOUS
    <2>2. ASSUME NEW r \in Requests  PROVE InOrder(r)'
      <3>1. PICK n : n = tx'[r] /\ (Closed(n) \/ (Reads(n) /\ Stands(n)'))
        BY <1>2
      <3>2. CASE Closed(n)
        BY <3>1, <3>2 DEF InOrder, Closed
      <3>3. CASE Reads(n) /\ Stands(n)'
        BY <3>1, <3>3 DEF InOrder, Stands
      <3> QED
        BY <3>1, <3>2, <3>3
    <2>3. \A r \in Requests : MarkedOf(tx'[r]) = MarkedOf(tx[r])
      BY <1>2
    <2>4. \A r, q \in Requests : r # q => MarkedOf(tx'[r]) \cap MarkedOf(tx'[q]) = {}
      BY <1>0, <2>3 DEF TxInv
    <2> QED
      BY <2>1, <2>2, <2>4 DEF TxInv
  <1>4. RevisionsInv'
    <2>1. ASSUME NEW n \in revisions'  PROVE RevisionFine(n)'
      <3>1. n \in revisions /\ RevisionFine(n) /\ n.request \in Requests
            /\ n.frozen \in Seq(FrozenRow)
        BY <1>0, <2>1 DEF RevisionsInv, RevisionRow
      <3>2. ASSUME NEW i \in 1..Len(n.frozen)  PROVE n.frozen[i].spec \in Specs
        <4>1. n.frozen[i] \in FrozenRow
          BY <3>1
        <4> QED
          BY <4>1 DEF FrozenRow
      <3> QED
        BY <1>2, <3>1, <3>2 DEF RevisionFine, Advances
    <2>2. HasBound(revisions')
      BY <1>0 DEF RevisionsInv, HasBound
    <2> QED
      BY <1>0, <2>1, <2>2 DEF RevisionsInv, HasBound
  <1> QED
    BY <1>3, <1>4 DEF IssueInv

(* A step of one transaction that writes nothing others can see.             *)
LEMMA RequestMoves ==
    ASSUME IssueInv, NEW r \in Requests, NEW n, UNCHANGED <<vars, package, revisions>>,
           tx' = [tx EXCEPT ![r] = n], tx[r].phase # "issued",
           Closed(n) \/ (Reads(n) /\ Stands(n)),
           \A q \in Requests \ {r} : MarkedOf(n) \cap MarkedOf(tx[q]) = {}
    PROVE  IssueInv'
  <1>0. TxInv /\ RevisionsInv /\ StoreInv
    BY DEF IssueInv
  <1>1. /\ tx'[r] = n
        /\ \A q \in Requests \ {r} : tx'[q] = tx[q]
        /\ DOMAIN tx' = Requests /\ tx' = [q \in Requests |-> tx'[q]]
    BY <1>0 DEF TxInv
  <1>2. UNCHANGED vars /\ UNCHANGED <<spec, para, drawn, hist, sealed>>
    BY DEF vars
  <1>3. StoreInv'
    BY <1>0, <1>2 DEF StoreInv, TypeOK, ParentsComeFirst, Live
  <1>4. \A s \in Specs : Tree(s)' = Tree(s)
    BY <1>2 DEF Tree, Rows, InSpec, Live
  <1>5. ASSUME NEW t, Stands(t)  PROVE Stands(t)'
    BY <1>2, <1>4, <1>5 DEF Stands
  <1>6. ASSUME NEW q \in Requests  PROVE InOrder(q)'
    <2>1. PICK t : t = tx'[q]
      OBVIOUS
    <2>2. Closed(t) \/ (Reads(t) /\ Stands(t))
      <3>1. CASE q = r
        BY <1>1, <2>1, <3>1
      <3>2. CASE q # r
        BY <1>0, <1>1, <2>1, <3>2 DEF TxInv, InOrder
      <3> QED
        BY <3>1, <3>2
    <2>3. CASE Closed(t)
      BY <2>1, <2>3 DEF InOrder, Closed
    <2>4. CASE Reads(t) /\ Stands(t)
      <3>1. Stands(t)'
        BY <1>5, <2>4
      <3> QED
        BY <2>1, <2>4, <3>1 DEF InOrder, Stands
    <2> QED
      BY <2>2, <2>3, <2>4
  <1>7. \A q, o \in Requests : q # o => MarkedOf(tx'[q]) \cap MarkedOf(tx'[o]) = {}
    BY <1>0, <1>1 DEF TxInv
  <1>8. TxInv'
    BY <1>1, <1>6, <1>7 DEF TxInv
  <1>9. RevisionsInv'
    <2>1. ASSUME NEW v \in revisions  PROVE RevisionFine(v)'
      <3>1. RevisionFine(v) /\ v.request \in Requests
        BY <1>0, <2>1 DEF RevisionsInv, RevisionRow
      <3>2. tx'[v.request] = tx[v.request]
        BY <1>1, <3>1 DEF RevisionFine
      <3> QED
        BY <1>2, <3>1, <3>2 DEF RevisionFine
    <2> QED
      BY <1>0, <2>1 DEF RevisionsInv
  <1> QED
    BY <1>3, <1>8, <1>9 DEF IssueInv

(* A rollback is one of them.                                                *)
LEMMA RollbackStep ==
    ASSUME IssueInv, NEW r \in Requests, Rollback(r), UNCHANGED <<vars, package, revisions>>,
           tx[r].phase # "issued"
    PROVE  IssueInv'
  <1> DEFINE n == [phase |-> "failed"]
  <1>1. tx' = [tx EXCEPT ![r] = n]
    BY DEF Rollback
  <1>2. Closed(n) /\ MarkedOf(n) = {}
    BY DEF Closed, MarkedOf
  <1> HIDE DEF n
  <1> QED
    BY <1>1, <1>2, RequestMoves

(* What is known of a call under way.                                        *)
LEMMA UnderWay ==
    ASSUME IssueInv, NEW r \in Requests, ~Closed(tx[r])
    PROVE  /\ Reads(tx[r]) /\ Stands(tx[r]) /\ tx[r] \in OpenRow
           /\ tx[r].snapshot \in ViewRow /\ tx[r].phase # "issued"
           /\ \A q \in Requests \ {r} : MarkedOf(tx[r]) \cap MarkedOf(tx[q]) = {}
  <1>1. Reads(tx[r]) /\ Stands(tx[r])
    BY DEF IssueInv, TxInv, InOrder
  <1> QED
    BY <1>1 DEF Reads, OpenRow, Closed, IssueInv, TxInv

(* A call goes on while it has marked nothing.                               *)
LEMMA GoesOn ==
    ASSUME IssueInv, NEW r \in Requests, ~Closed(tx[r]), UNCHANGED <<vars, package, revisions>>,
           NEW n, tx' = [tx EXCEPT ![r] = n], n.snapshot = tx[r].snapshot,
           Reads(n), MarkedOf(n) = {}
    PROVE  IssueInv'
  <1>1. Stands(tx[r]) /\ tx[r].phase # "issued"
    BY UnderWay
  <1>2. PICK v : v = tx[r].snapshot
    OBVIOUS
  <1>3. \A s \in Specs : /\ v.rows[s].contentVersion <= spec[s].contentVersion
                         /\ v.rows[s].contentVersion = spec[s].contentVersion
                               => v.trees[s] = Tree(s)
                         /\ v.rows[s].lifecycle # "draft" => spec[s].lifecycle # "draft"
    BY <1>1, <1>2 DEF Stands
  <1>4. Stands(n)
    BY <1>2, <1>3 DEF Stands
  <1> QED
    BY <1>1, <1>4, RequestMoves

LEMMA BeginStep ==
    ASSUME IssueInv, NEW r \in Requests, IssueBegin(r)
    PROVE  IssueInv'
  <1>0. StoreInv /\ TypeOK /\ TreesOK /\ RevisionsInv
    BY TreesTyped DEF IssueInv, StoreInv
  <1>1. PICK k \in Packages, gated \in Flag, order \in Orders \cup {Default} :
          tx' = [tx EXCEPT ![r] =
                    [phase |-> "locking", package |-> k,
                     snapshot |-> Committed(k), seen |-> {[members |-> package[k].members, trees |-> Trees]},
                     gated |-> gated, asked |-> order, order |-> order,
                     members |-> <<>>, frozen |-> <<>>, scan |-> <<>>, marked |-> 0]]
    BY DEF IssueBegin
  <1>2. PICK now : now = [members |-> package[k].members, trees |-> Trees]
    OBVIOUS
  <1>3. PICK v : v = Committed(k)
    OBVIOUS
  <1>4. PICK n : n = [phase |-> "locking", package |-> k, snapshot |-> v, seen |-> {now},
                      gated |-> gated, asked |-> order, order |-> order,
                      members |-> <<>>, frozen |-> <<>>, scan |-> <<>>, marked |-> 0]
    OBVIOUS
  <1>5. tx' = [tx EXCEPT ![r] = n]
    BY <1>1, <1>2, <1>3, <1>4
  <1>6. package[k].members \in Seq(Specs) /\ Trees \in [Specs -> TreeRows]
    BY <1>0 DEF IssueInv, TreesOK
  <1>7. now \in SeenRow
    BY <1>2, <1>6 DEF SeenRow
  <1>8. /\ v.members = package[k].members /\ v.trees = Trees /\ v.rows = spec
        /\ v.revisions \subseteq revisions
        /\ v \in ViewRow
    <2>1. v = [members |-> package[k].members, trees |-> Trees, rows |-> spec,
               revisions |-> {x \in revisions : x.package = k}]
      BY <1>3 DEF Committed
    <2>2. {x \in revisions : x.package = k} \in SUBSET RevisionRow
      BY <1>0 DEF RevisionsInv
    <2>3. spec \in [Specs -> SpecRow]
      BY <1>0 DEF TypeOK
    <2> QED
      BY <1>6, <2>1, <2>2, <2>3 DEF ViewRow
  <1>9. order \in Nat
    BY OrdersAssumption DEF Default
  <1>10. n \in OpenRow
    BY <1>4, <1>7, <1>8, <1>9 DEF OpenRow, OpenPhases
  <1>11. Reads(n)
    <2>1. [members |-> n.snapshot.members, trees |-> n.snapshot.trees] \in n.seen
      BY <1>2, <1>4, <1>8
    <2>2. HasBound(v.revisions)
      BY <1>0, <1>8 DEF RevisionsInv, HasBound
    <2> QED
      BY <1>4, <1>10, <2>1, <2>2 DEF Reads
  <1>12. MarkedOf(n) = {}
    BY <1>4 DEF MarkedOf
  <1>13. Stands(n)
    <2>1. \A s \in Specs : v.trees[s] = Tree(s) /\ v.rows[s].contentVersion \in Nat
      BY <1>0, <1>8 DEF Trees, TypeOK, SpecRow
    <2>2. n.snapshot = v
      BY <1>4
    <2> QED
      BY <1>8, <1>12, <2>1, <2>2 DEF Stands
  <1>14. tx[r].phase # "issued" /\ UNCHANGED <<vars, package, revisions>>
    BY DEF IssueBegin, Idle
  <1> QED
    BY <1>5, <1>11, <1>12, <1>13, <1>14, RequestMoves

LEMMA LockStep ==
    ASSUME IssueInv, NEW r \in Requests, IssueLock(r)
    PROVE  IssueInv'
  <1>0. UNCHANGED <<vars, package, revisions>> /\ tx[r].phase = "locking" /\ ~Closed(tx[r])
    BY DEF IssueLock, Closed
  <1>1. CASE Rollback(r)
    BY <1>0, <1>1, RollbackStep
  <1>2. CASE tx' = [tx EXCEPT ![r].phase = "numbering"]
    <2>1. PICK t : t = tx[r]
      OBVIOUS
    <2>2. PICK n : n = [t EXCEPT !.phase = "numbering"]
      OBVIOUS
    <2>3. Reads(t) /\ t \in OpenRow
      BY <1>0, <2>1, UnderWay
    <2>4. /\ n \in OpenRow /\ n.snapshot = t.snapshot /\ n.seen = t.seen
          /\ n.frozen = t.frozen /\ n.marked = t.marked /\ n.phase = "numbering"
      BY <2>2, <2>3 DEF OpenRow, OpenPhases
    <2>5. Reads(n) /\ MarkedOf(n) = {}
      BY <1>0, <2>1, <2>3, <2>4 DEF Reads, MarkedOf
    <2> QED
      BY <1>0, <1>2, <2>1, <2>2, <2>4, <2>5, GoesOn
  <1> QED
    BY <1>1, <1>2 DEF IssueLock

(* MAX of a column, which is bounded, then one more: above them all.         *)
LEMMA NextOrderIsLast ==
    ASSUME NEW revs, \A n \in revs : n.order \in Nat, HasBound(revs)
    PROVE  NextSortOrder(revs) \in Nat /\ \A n \in revs : n.order < NextSortOrder(revs)
  <1> DEFINE S == {0} \cup {n.order : n \in revs}
  <1>1. PICK bound \in Nat : \A n \in revs : n.order <= bound
    BY DEF HasBound
  <1>2. S \in SUBSET Nat /\ S # {} /\ \A m \in S : m <= bound
    BY <1>1
  <1>3. \E m \in S : \A k \in S : k <= m
    BY <1>1, <1>2, GreatestOf
  <1>4. \E m \in S : \A k \in S : m >= k
    BY <1>2, <1>3
  <1>5. Max(S) \in S /\ \A k \in S : Max(S) >= k
    <2> HIDE DEF S
    <2> QED
      BY <1>4 DEF Max
  <1>6. NextSortOrder(revs) = Max(S) + 1
    BY DEF NextSortOrder
  <1>7. \A n \in revs : n.order \in S
    OBVIOUS
  <1>8. PICK top : top = Max(S)
    OBVIOUS
  <1> HIDE DEF S
  <1>9. top \in Nat /\ \A n \in revs : n.order <= top
    BY <1>2, <1>5, <1>7, <1>8
  <1>10. NextSortOrder(revs) = top + 1
    BY <1>6, <1>8
  <1> QED
    BY <1>9, <1>10

LEMMA NumberStep ==
    ASSUME IssueInv, NEW r \in Requests, IssueNumber(r)
    PROVE  IssueInv'
  <1>0. UNCHANGED <<vars, package, revisions>> /\ tx[r].phase = "numbering" /\ ~Closed(tx[r])
    BY DEF IssueNumber, Closed
  <1>1. CASE Rollback(r)
    BY <1>0, <1>1, RollbackStep
  <1>2. CASE ~Rollback(r)
    <2>1. PICK t : t = tx[r]
      OBVIOUS
    <2>2. PICK order : order = IF t.asked # Default THEN t.asked
                               ELSE NextSortOrder(t.snapshot.revisions)
      OBVIOUS
    <2>3. PICK n : n = [t EXCEPT !.phase = "freezing", !.order = order,
                                 !.members = t.snapshot.members]
      OBVIOUS
    <2>4. tx' = [tx EXCEPT ![r] = n]
      <3>1. tx' = [tx EXCEPT ![r].phase = "freezing", ![r].order = order,
                             ![r].members = t.snapshot.members]
        BY <1>2, <2>1, <2>2 DEF IssueNumber, View
      <3> QED
        BY <2>1, <2>3, <3>1
    <2>5. Reads(t) /\ t \in OpenRow /\ t.snapshot \in ViewRow
      BY <1>0, <2>1, UnderWay
    <2>6. t.snapshot.members \in Seq(Specs) /\ t.snapshot.revisions \subseteq RevisionRow
      BY <2>5 DEF ViewRow
    <2>7. \A x \in t.snapshot.revisions : x.order \in Nat
      BY <2>6 DEF RevisionRow
    <2>8. NextSortOrder(t.snapshot.revisions) \in Nat
          /\ \A x \in t.snapshot.revisions : x.order < NextSortOrder(t.snapshot.revisions)
      BY <2>5, <2>7, NextOrderIsLast DEF Reads
    <2>9. order \in Nat /\ t.asked \in Nat
      BY <2>2, <2>5, <2>8 DEF OpenRow
    <2>10. /\ n \in OpenRow /\ n.snapshot = t.snapshot /\ n.seen = t.seen
           /\ n.frozen = t.frozen /\ n.marked = t.marked /\ n.phase = "freezing"
           /\ n.members = t.snapshot.members /\ n.asked = t.asked /\ n.order = order
      BY <2>3, <2>5, <2>6, <2>9 DEF OpenRow, OpenPhases
    <2>11. t.frozen = <<>> /\ t.marked = 0
      BY <1>0, <2>1, <2>5 DEF Reads
    <2>12. Numbers(n)
      BY <2>2, <2>8, <2>10 DEF Numbers
    <2>13. Freezes(n)
      <3>1. Len(n.frozen) = 0 /\ n.members \in Seq(Specs)
        BY <2>6, <2>10, <2>11
      <3> QED
        BY <3>1 DEF Freezes
    <2>14. Reads(n) /\ MarkedOf(n) = {}
      BY <2>5, <2>10, <2>11, <2>12, <2>13 DEF Reads, MarkedOf
    <2> QED
      BY <1>0, <2>1, <2>4, <2>10, <2>14, GoesOn
  <1> QED
    BY <1>1, <1>2

LEMMA FreezeStep ==
    ASSUME IssueInv, NEW r \in Requests, FreezeMember(r)
    PROVE  IssueInv'
  <1>0. UNCHANGED <<vars, package, revisions>> /\ tx[r].phase = "freezing" /\ ~Closed(tx[r])
    BY DEF FreezeMember, Closed
  <1>1. PICK t : t = tx[r]
    OBVIOUS
  <1>2. Reads(t) /\ t \in OpenRow /\ t.snapshot \in ViewRow
    BY <1>0, <1>1, UnderWay
  <1>3. /\ t.frozen \in Seq(FrozenRow) /\ t.members \in Seq(Specs)
        /\ t.snapshot.trees \in [Specs -> TreeRows]
        /\ Len(t.frozen) < Len(t.members) /\ Len(t.frozen) \in Nat
    BY <1>1, <1>2 DEF OpenRow, ViewRow, FreezeMember
  <1>4. PICK s : s = t.members[Len(t.frozen) + 1]
    OBVIOUS
  <1>5. s \in Specs
    BY <1>3, <1>4
  <1>6. PICK e : e = [spec |-> s, tree |-> t.snapshot.trees[s]]
    OBVIOUS
  <1>7. e \in FrozenRow
    BY <1>3, <1>5, <1>6 DEF FrozenRow
  <1>8. PICK n : n = [t EXCEPT !.frozen = Append(@, e)]
    OBVIOUS
  <1>9. tx' = [tx EXCEPT ![r] = n]
    <2>1. tx' = [tx EXCEPT ![r].frozen = Append(@, e)]
      BY <1>1, <1>4, <1>6 DEF FreezeMember, View
    <2> QED
      BY <1>1, <1>8, <2>1
  <1>10. PICK frozen : frozen = Append(t.frozen, e)
    OBVIOUS
  <1>11. /\ frozen \in Seq(FrozenRow) /\ Len(frozen) = Len(t.frozen) + 1
         /\ \A i \in 1..Len(t.frozen) : frozen[i] = t.frozen[i]
         /\ frozen[Len(t.frozen) + 1] = e
    BY <1>3, <1>7, <1>10
  <1>12. /\ n \in OpenRow /\ n.snapshot = t.snapshot /\ n.seen = t.seen
         /\ n.frozen = frozen /\ n.marked = t.marked /\ n.phase = "freezing"
         /\ n.members = t.members /\ n.asked = t.asked /\ n.order = t.order
    BY <1>0, <1>1, <1>2, <1>8, <1>10, <1>11 DEF OpenRow
  <1>13. t.marked = 0 /\ Numbers(t) /\ Freezes(t)
    BY <1>0, <1>1, <1>2 DEF Reads
  <1>14. Numbers(n)
    BY <1>12, <1>13 DEF Numbers
  <1>15. Freezes(n)
    <2>1. Len(n.frozen) <= Len(n.members)
      BY <1>3, <1>11, <1>12
    <2>2. ASSUME NEW i \in 1..Len(n.frozen)
          PROVE  n.frozen[i] = [spec |-> n.members[i], tree |-> n.snapshot.trees[n.members[i]]]
      <3>1. CASE i \in 1..Len(t.frozen)
        BY <1>11, <1>12, <1>13, <3>1 DEF Freezes
      <3>2. CASE i = Len(t.frozen) + 1
        BY <1>4, <1>6, <1>11, <1>12, <3>2
      <3> QED
        BY <1>3, <1>11, <1>12, <3>1, <3>2
    <2> QED
      BY <2>1, <2>2 DEF Freezes
  <1>16. Reads(n) /\ MarkedOf(n) = {}
    BY <1>2, <1>12, <1>13, <1>14, <1>15 DEF Reads, MarkedOf
  <1> QED
    BY <1>0, <1>1, <1>9, <1>12, <1>16, GoesOn

(* A scan of a finite set meets all of it.                                   *)
LEMMA ScansAreOnto ==
    ASSUME NEW S, IsFiniteSet(S), NEW scan \in SetToSeqs(S)
    PROVE  scan \in Seq(S) /\ S = {scan[i] : i \in 1..Len(scan)}
  <1>1. PICK N : N = Cardinality(S)
    OBVIOUS
  <1>2. N \in Nat
    BY <1>1, FS_CardinalityType
  <1>3. /\ scan \in [1..N -> S]
        /\ \A i, j \in 1..N : i # j => scan[i] # scan[j]
    BY <1>1 DEF SetToSeqs
  <1>4. scan \in Injection(1..N, S)
    BY <1>3 DEF Injection, IsInjective
  <1>5. IsFiniteSet(1..N) /\ Cardinality(1..N) = N
    BY <1>2, FS_Interval
  <1>6. scan \in Surjection(1..N, S)
    BY <1>1, <1>4, <1>5, FS_Injection
  <1>7. scan \in Seq(S) /\ Len(scan) = N
    BY <1>2, <1>3
  <1> QED
    BY <1>3, <1>6, <1>7 DEF Surjection

(* What the UPDATE of a call is over.                                        *)
LEMMA RowsToMark ==
    ASSUME IssueInv, NEW r \in Requests, ~Closed(tx[r])
    PROVE  /\ ToMark(r) = DraftsOf(tx[r]) /\ ToMark(r) \subseteq Specs
           /\ IsFiniteSet(ToMark(r))
  <1>1. PICK t : t = tx[r]
    OBVIOUS
  <1>2. t.frozen \in Seq(FrozenRow)
    BY <1>1, UnderWay DEF OpenRow
  <1>3. PICK N : N = Len(t.frozen)
    OBVIOUS
  <1>4. N \in Nat /\ \A i \in 1..N : t.frozen[i] \in FrozenRow
    BY <1>2, <1>3
  <1>5. PICK f : f = [i \in 1..N |-> t.frozen[i].spec]
    OBVIOUS
  <1>6. FrozenSpecs(r) = {f[i] : i \in 1..N}
    BY <1>1, <1>3, <1>5 DEF FrozenSpecs, Frozen
  <1>7. f \in Surjection(1..N, FrozenSpecs(r))
    <2>1. f \in [1..N -> FrozenSpecs(r)]
      BY <1>5, <1>6
    <2> QED
      BY <1>6, <2>1 DEF Surjection
  <1>8. IsFiniteSet(FrozenSpecs(r))
    BY <1>4, <1>7, FS_Interval, FS_Surjection
  <1>9. ToMark(r) \subseteq FrozenSpecs(r) /\ FrozenSpecs(r) \subseteq Specs
    BY <1>4, <1>5, <1>6 DEF ToMark, FrozenRow
  <1>10. ToMark(r) = DraftsOf(t)
    BY <1>1 DEF ToMark, DraftsOf, FrozenSpecs, Frozen, FrozenOf, View
  <1> QED
    BY <1>1, <1>8, <1>9, <1>10, FS_Subset

LEMMA GateStep ==
    ASSUME IssueInv, NEW r \in Requests, IssueGate(r)
    PROVE  IssueInv'
  <1>0. UNCHANGED <<vars, package, revisions>> /\ tx[r].phase = "freezing" /\ ~Closed(tx[r])
    BY DEF IssueGate, Closed
  <1>1. CASE Rollback(r)
    BY <1>0, <1>1, RollbackStep
  <1>2. CASE ~Rollback(r)
    <2>1. PICK t : t = tx[r]
      OBVIOUS
    <2>2. ~Blocked(r) /\ Len(t.frozen) = Len(t.members)
      BY <1>2, <2>1 DEF IssueGate
    <2>3. PICK scan \in SetToSeqs(ToMark(r)) :
             tx' = [tx EXCEPT ![r].phase = "marking", ![r].scan = scan]
      BY <1>2 DEF IssueGate
    <2>4. /\ ToMark(r) = DraftsOf(t) /\ ToMark(r) \subseteq Specs
          /\ IsFiniteSet(ToMark(r))
      BY <1>0, <2>1, RowsToMark
    <2>5. scan \in Seq(ToMark(r)) /\ DraftsOf(t) = {scan[i] : i \in 1..Len(scan)}
      BY <2>4, ScansAreOnto
    <2>6. scan \in Seq(Specs)
      BY <2>4, <2>5
    <2>7. PICK n : n = [t EXCEPT !.phase = "marking", !.scan = scan]
      OBVIOUS
    <2>8. tx' = [tx EXCEPT ![r] = n]
      BY <2>1, <2>3, <2>7
    <2>9. Reads(t) /\ t \in OpenRow
      BY <1>0, <2>1, UnderWay
    <2>10. /\ n \in OpenRow /\ n.snapshot = t.snapshot /\ n.seen = t.seen
           /\ n.frozen = t.frozen /\ n.marked = t.marked /\ n.phase = "marking"
           /\ n.members = t.members /\ n.asked = t.asked /\ n.order = t.order
           /\ n.gated = t.gated /\ n.scan = scan
      BY <2>6, <2>7, <2>9 DEF OpenRow, OpenPhases
    <2>11. t.marked = 0 /\ Numbers(t) /\ Freezes(t)
      BY <1>0, <2>1, <2>9 DEF Reads
    <2>12. Numbers(n) /\ Freezes(n)
      BY <2>10, <2>11 DEF Numbers, Freezes
    <2>13. FrozenOf(n) = FrozenOf(t) /\ DraftsOf(n) = DraftsOf(t)
      <3>1. FrozenOf(n) = FrozenOf(t)
        BY <2>10 DEF FrozenOf
      <3> QED
        BY <2>10, <3>1 DEF DraftsOf
    <2>14. t.gated => \A e \in FrozenOf(t) : Findings(e.tree) = {}
      BY <2>1, <2>2 DEF Blocked, Frozen, FrozenOf
    <2>15. Marks(n)
      <3>1. n.marked <= Len(n.scan)
        BY <2>6, <2>10, <2>11
      <3> QED
        BY <2>2, <2>5, <2>10, <2>13, <2>14, <3>1 DEF Marks
    <2>16. Reads(n)
      BY <2>9, <2>10, <2>12, <2>15 DEF Reads
    <2>17. MarkedOf(n) = {}
      BY <2>10, <2>11 DEF MarkedOf
    <2> QED
      BY <1>0, <2>1, <2>8, <2>10, <2>16, <2>17, GoesOn
  <1> QED
    BY <1>1, <1>2

LEMMA MarkStep ==
    ASSUME IssueInv, NEW r \in Requests, MarkRow(r)
    PROVE  IssueInv'
  <1>0. UNCHANGED <<vars, package, revisions>> /\ tx[r].phase = "marking" /\ ~Closed(tx[r])
    BY DEF MarkRow, Marking, Closed
  <1>1. CASE Rollback(r)
    BY <1>0, <1>1, RollbackStep
  <1>2. CASE ~Rollback(r)
    <2>1. PICK t : t = tx[r]
      OBVIOUS
    <2>2. PICK s : s = t.scan[t.marked + 1]
      OBVIOUS
    <2>3. /\ tx' = [tx EXCEPT ![r].marked = @ + 1] /\ s \notin Conflicting(r)
          /\ t.marked < Len(t.scan)
          /\ \A q \in Requests : s \notin Marked(q)
      BY <1>2, <2>1, <2>2 DEF MarkRow, NextRow, Marking
    <2> DEFINE n == [t EXCEPT !.marked = t.marked + 1]
    <2>5. tx' = [tx EXCEPT ![r] = n]
      BY <2>1, <2>3
    <2>6. Reads(t) /\ Stands(t) /\ t \in OpenRow
      BY <1>0, <2>1, UnderWay
    <2>7. t.marked \in Nat /\ t.scan \in Seq(Specs) /\ Len(t.scan) \in Nat
      BY <2>6 DEF OpenRow
    <2>8. /\ n \in OpenRow /\ n.snapshot = t.snapshot /\ n.seen = t.seen
          /\ n.frozen = t.frozen /\ n.marked = t.marked + 1 /\ n.phase = "marking"
          /\ n.members = t.members /\ n.asked = t.asked /\ n.order = t.order
          /\ n.gated = t.gated /\ n.scan = t.scan
      <3>1. t.marked + 1 \in Nat
        BY <2>7
      <3> DEFINE m == t.marked + 1
      <3> HIDE DEF m
      <3>2. n = [t EXCEPT !.marked = m] /\ m \in Nat
        BY <3>1 DEF m
      <3>3. n \in OpenRow /\ n.marked = m
        BY <2>6, <3>2 DEF OpenRow
      <3> QED
        BY <1>0, <2>1, <2>6, <3>2, <3>3 DEF OpenRow, m
    <2> HIDE DEF n
    <2>9. Numbers(t) /\ Freezes(t) /\ Marks(t)
      BY <1>0, <2>1, <2>6 DEF Reads
    <2>10. Numbers(n) /\ Freezes(n)
      BY <2>8, <2>9 DEF Numbers, Freezes
    <2>11. FrozenOf(n) = FrozenOf(t) /\ DraftsOf(n) = DraftsOf(t)
      <3>1. FrozenOf(n) = FrozenOf(t)
        BY <2>8 DEF FrozenOf
      <3> QED
        BY <2>8, <3>1 DEF DraftsOf
    <2>12. Marks(n)
      <3>1. n.marked <= Len(n.scan)
        BY <2>3, <2>7, <2>8
      <3> QED
        BY <2>8, <2>9, <2>11, <3>1 DEF Marks
    <2>13. Reads(n)
      BY <2>6, <2>8, <2>10, <2>12 DEF Reads
    <2>14. MarkedOf(n) = MarkedOf(t) \cup {s}
      <3>1. MarkedOf(n) = {t.scan[i] : i \in 1..(t.marked + 1)}
        BY <2>8 DEF MarkedOf
      <3>2. MarkedOf(t) = {t.scan[i] : i \in 1..t.marked}
        BY <1>0, <2>1 DEF MarkedOf
      <3>3. 1..(t.marked + 1) = 1..t.marked \cup {t.marked + 1}
        BY <2>7
      <3> QED
        BY <2>2, <3>1, <3>2, <3>3
    <2>15. \A q \in Requests \ {r} : MarkedOf(n) \cap MarkedOf(tx[q]) = {}
      <3>1. \A q \in Requests : s \notin MarkedOf(tx[q])
        BY <2>3, MarkedRows DEF IssueInv
      <3>2. \A q \in Requests \ {r} : MarkedOf(t) \cap MarkedOf(tx[q]) = {}
        BY <1>0, <2>1, UnderWay
      <3> QED
        BY <2>14, <3>1, <3>2
    <2>16. spec[s] = t.snapshot.rows[s]
      <3>1. s \in DraftsOf(t)
        BY <2>2, <2>3, <2>7, <2>9 DEF Marks
      <3>2. s \in ToMark(r)
        BY <1>0, <2>1, <3>1, RowsToMark
      <3> QED
        BY <2>1, <2>3, <3>2 DEF Conflicting, View
    <2>17. Stands(n)
      <3>1. PICK v : v = t.snapshot
        OBVIOUS
      <3>2. /\ \A x \in Specs : /\ v.rows[x].contentVersion <= spec[x].contentVersion
                                /\ v.rows[x].contentVersion = spec[x].contentVersion
                                      => v.trees[x] = Tree(x)
                                /\ v.rows[x].lifecycle # "draft" => spec[x].lifecycle # "draft"
            /\ \A x \in MarkedOf(t) : spec[x] = v.rows[x]
        BY <2>6, <3>1 DEF Stands
      <3>3. n.snapshot = v /\ \A x \in MarkedOf(n) : spec[x] = v.rows[x]
        BY <2>8, <2>14, <2>16, <3>1, <3>2
      <3> QED
        BY <3>2, <3>3 DEF Stands
    <2>18. tx[r].phase # "issued"
      BY <1>0
    <2> QED
      BY <1>0, <2>5, <2>13, <2>15, <2>17, <2>18, RequestMoves
  <1> QED
    BY <1>1, <1>2

(* What is written when a call commits, and what was there before.           *)
LEMMA Commits ==
    ASSUME IssueInv, NEW r \in Requests, IssueCommit(r)
    PROVE  /\ ToMark(r) = MarkedOf(tx[r])
           /\ \A s \in ToMark(r) : spec[s] = tx[r].snapshot.rows[s] /\ spec[s].lifecycle = "draft"
           /\ \A s \in Specs \ ToMark(r) : spec'[s] = spec[s]
           /\ \A s \in ToMark(r) : spec'[s] = [spec[s] EXCEPT !.lifecycle = "issued"]
           /\ \A s \in Specs : spec'[s] \in SpecRow
           /\ StoreInv' /\ Advances
           /\ \A s \in Specs : Tree(s)' = Tree(s)
  <1>0. tx[r].phase = "marking" /\ ~Closed(tx[r]) /\ TypeOK /\ StoreInv
    BY DEF IssueCommit, Closed, IssueInv, StoreInv
  <1>1. PICK t : t = tx[r]
    OBVIOUS
  <1>2. Reads(t) /\ Stands(t) /\ Marks(t)
    BY <1>0, <1>1, UnderWay DEF Reads
  <1>3. ToMark(r) = DraftsOf(t) /\ ToMark(r) \subseteq Specs
    BY <1>0, <1>1, RowsToMark
  <1>4. ToMark(r) = MarkedOf(t)
    BY <1>0, <1>1, <1>2, <1>3 DEF Marks, MarkedOf, IssueCommit
  <1>5. ASSUME NEW s \in ToMark(r)
        PROVE  spec[s] = t.snapshot.rows[s] /\ spec[s].lifecycle = "draft"
    <2>1. spec[s] = t.snapshot.rows[s]
      BY <1>2, <1>4, <1>5 DEF Stands
    <2> QED
      BY <1>3, <1>5, <2>1 DEF DraftsOf
  <1>6. /\ spec' = [s \in Specs |-> IF s \in ToMark(r)
                                    THEN [spec[s] EXCEPT !.lifecycle = "issued"] ELSE spec[s]]
        /\ UNCHANGED <<para, drawn, hist, sealed>>
    BY DEF IssueCommit, MarkIssued
  <1>7. \A s \in Specs : spec[s] \in SpecRow
    BY <1>0 DEF TypeOK
  <1>8. \A s \in Specs : [spec[s] EXCEPT !.lifecycle = "issued"] \in SpecRow
    BY <1>7 DEF SpecRow, Lifecycles
  <1>9. \A s \in Specs : spec'[s] \in SpecRow
    BY <1>6, <1>7, <1>8
  <1>10. spec' \in [Specs -> SpecRow]
    BY <1>6, <1>9
  <1>11. StoreInv'
    BY <1>0, <1>6, <1>10 DEF StoreInv, TypeOK, ParentsComeFirst, Live
  <1>12. \A s \in Specs : Tree(s)' = Tree(s)
    BY <1>6 DEF Tree, Rows, InSpec, Live
  <1>13. ASSUME NEW s \in Specs
         PROVE  /\ spec[s].contentVersion <= spec'[s].contentVersion
                /\ spec[s].lifecycle # "draft" => spec'[s].lifecycle # "draft"
    <2>1. CASE s \in ToMark(r)
      BY <1>6, <1>7, <2>1 DEF SpecRow
    <2>2. CASE s \notin ToMark(r)
      BY <1>6, <1>7, <2>2 DEF SpecRow
    <2> QED
      BY <2>1, <2>2
  <1>14. Advances
    BY <1>12, <1>13 DEF Advances
  <1>15. /\ \A s \in Specs \ ToMark(r) : spec'[s] = spec[s]
         /\ \A s \in ToMark(r) : spec'[s] = [spec[s] EXCEPT !.lifecycle = "issued"]
    BY <1>3, <1>6
  <1> QED
    BY <1>1, <1>4, <1>5, <1>9, <1>11, <1>12, <1>14, <1>15

(* What has been frozen: the members, in order, as the snapshot has them.    *)
LEMMA FrozenFine ==
    ASSUME IssueInv, NEW r \in Requests, IssueCommit(r),
           NEW i \in 1..Len(tx[r].frozen)
    PROVE  /\ tx[r].frozen[i] \in FrozenRow /\ tx[r].frozen[i].spec \in Specs
           /\ spec'[tx[r].frozen[i].spec].lifecycle # "draft"
           /\ tx[r].gated => Findings(tx[r].frozen[i].tree) = {}
  <1>0. tx[r].phase = "marking" /\ ~Closed(tx[r]) /\ TypeOK
    BY DEF IssueCommit, Closed, IssueInv, StoreInv
  <1>1. PICK t : t = tx[r]
    OBVIOUS
  <1>2. Reads(t) /\ Stands(t) /\ Marks(t) /\ t.frozen \in Seq(FrozenRow)
    BY <1>0, <1>1, UnderWay DEF Reads, OpenRow
  <1>3. PICK e : e = t.frozen[i]
    OBVIOUS
  <1>4. e \in FrozenRow /\ e \in FrozenOf(t)
    BY <1>1, <1>2, <1>3 DEF FrozenOf
  <1>5. e.spec \in Specs
    BY <1>4 DEF FrozenRow
  <1>6. t.gated => Findings(e.tree) = {}
    BY <1>2, <1>4 DEF Marks
  <1>7. PICK s : s = e.spec
    OBVIOUS
  <1>8. CASE s \in ToMark(r)
    <2>1. spec'[s] = [spec[s] EXCEPT !.lifecycle = "issued"] /\ spec[s] \in SpecRow
      BY <1>0, <1>5, <1>7, <1>8, Commits DEF TypeOK
    <2>2. spec'[s].lifecycle = "issued"
      BY <2>1 DEF SpecRow
    <2> QED
      BY <1>1, <1>3, <1>4, <1>5, <1>6, <1>7, <2>2
  <1>9. CASE s \notin ToMark(r)
    <2>1. t.snapshot.rows[s].lifecycle # "draft"
      BY <1>0, <1>1, <1>4, <1>7, <1>9, RowsToMark DEF DraftsOf
    <2>2. spec[s].lifecycle # "draft" /\ spec'[s] = spec[s]
      BY <1>2, <1>5, <1>7, <1>9, <2>1, Commits DEF Stands
    <2> QED
      BY <1>1, <1>3, <1>4, <1>5, <1>6, <1>7, <2>2
  <1> QED
    BY <1>8, <1>9

LEMMA CommitStep ==
    ASSUME IssueInv, NEW r \in Requests, IssueCommit(r)
    PROVE  IssueInv'
  <1>0. /\ tx[r].phase = "marking" /\ ~Closed(tx[r]) /\ TypeOK /\ TypeOK' /\ StoreInv'
        /\ TxInv /\ RevisionsInv /\ Advances /\ UNCHANGED package
    BY Commits DEF IssueCommit, Closed, IssueInv, StoreInv
  <1>1. PICK t : t = tx[r]
    OBVIOUS
  <1>2. PICK v : v = [package |-> t.package, request |-> r, order |-> t.order,
                      gated |-> t.gated, frozen |-> t.frozen]
    OBVIOUS
  <1>3. revisions' = revisions \cup {v} /\ tx' = [tx EXCEPT ![r] = [phase |-> "issued"]]
    BY <1>1, <1>2 DEF IssueCommit
  <1>4. /\ tx'[r] = [phase |-> "issued"]
        /\ \A q \in Requests \ {r} : tx'[q] = tx[q]
        /\ DOMAIN tx' = Requests /\ tx' = [q \in Requests |-> tx'[q]]
    BY <1>0, <1>3 DEF TxInv
  <1>5. t \in OpenRow
    BY <1>0, <1>1, UnderWay
  <1>6. ASSUME NEW q \in Requests \ {r}, ~Closed(tx[q])  PROVE Stands(tx[q])'
    <2>1. PICK o : o = tx[q]
      OBVIOUS
    <2>2. /\ Stands(o) /\ o.snapshot.rows \in [Specs -> SpecRow]
      BY <1>6, <2>1, UnderWay DEF ViewRow
    <2>3. MarkedOf(o) \subseteq Specs
      BY <1>0, <2>1, MarkedRows
    <2>4. MarkedOf(o) \cap ToMark(r) = {}
      BY <1>0, <1>6, <2>1, Commits, UnderWay
    <2>5. \A s \in MarkedOf(o) : spec'[s] = spec[s]
      BY <2>3, <2>4, Commits
    <2>6. Stands(o)'
      BY <1>0, <2>2, <2>3, <2>5, StandsAfter
    <2>7. tx'[q] = o
      BY <1>4, <2>1
    <2> QED
      BY <2>6, <2>7 DEF Stands
  <1>7. ASSUME NEW q \in Requests  PROVE InOrder(q)'
    <2>1. CASE q = r
      BY <1>4, <2>1 DEF InOrder, Closed
    <2>2. CASE q # r /\ Closed(tx[q])
      BY <1>4, <2>2 DEF InOrder, Closed
    <2>3. CASE q # r /\ ~Closed(tx[q])
      <3>1. PICK o : o = tx[q]
        OBVIOUS
      <3>2. Reads(o) /\ Stands(tx[q])'
        BY <1>6, <2>3, <3>1, UnderWay
      <3>3. tx'[q] = o
        BY <1>4, <2>3, <3>1
      <3> QED
        BY <3>2, <3>3 DEF InOrder
    <2> QED
      BY <2>1, <2>2, <2>3
  <1>8. MarkedOf(tx'[r]) = {}
    BY <1>4 DEF MarkedOf
  <1>9. \A q, o \in Requests : q # o => MarkedOf(tx'[q]) \cap MarkedOf(tx'[o]) = {}
    BY <1>0, <1>4, <1>8 DEF TxInv
  <1>10. TxInv'
    BY <1>4, <1>7, <1>9 DEF TxInv
  <1>11. v \in RevisionRow
    BY <1>2, <1>5 DEF OpenRow, RevisionRow
  <1>12. HasBound(revisions')
    <2>1. PICK bound \in Nat : \A x \in revisions : x.order <= bound
      BY <1>0 DEF RevisionsInv, HasBound
    <2>2. \A x \in revisions : x.order \in Nat
      BY <1>0 DEF RevisionsInv, RevisionRow
    <2>3. v.order \in Nat
      BY <1>11 DEF RevisionRow
    <2>4. \A x \in revisions' : x.order <= bound + v.order
      BY <1>3, <2>1, <2>2, <2>3
    <2> QED
      BY <2>1, <2>3, <2>4 DEF HasBound
  <1>13. ASSUME NEW x \in revisions'  PROVE RevisionFine(x)'
    <2>1. CASE x \in revisions
      <3>1. RevisionFine(x) /\ x.request \in Requests /\ x.frozen \in Seq(FrozenRow)
        BY <1>0, <2>1 DEF RevisionsInv, RevisionRow
      <3>2. tx'[x.request].phase = "issued"
        BY <1>4, <3>1 DEF RevisionFine
      <3>3. ASSUME NEW i \in 1..Len(x.frozen)  PROVE x.frozen[i].spec \in Specs
        <4>1. x.frozen[i] \in FrozenRow
          BY <3>1
        <4> QED
          BY <4>1 DEF FrozenRow
      <3> QED
        BY <1>0, <3>1, <3>2, <3>3 DEF RevisionFine, Advances
    <2>2. CASE x = v
      <3>1. x.request = r /\ x.frozen = t.frozen /\ x.gated = t.gated
        BY <1>2, <2>2
      <3>2. \A i \in 1..Len(t.frozen) : /\ spec'[t.frozen[i].spec].lifecycle # "draft"
                                        /\ t.gated => Findings(t.frozen[i].tree) = {}
        BY <1>1, FrozenFine
      <3> QED
        BY <1>4, <3>1, <3>2 DEF RevisionFine
    <2> QED
      BY <1>3, <2>1, <2>2
  <1>14. RevisionsInv'
    BY <1>0, <1>3, <1>11, <1>12, <1>13 DEF RevisionsInv
  <1> QED
    BY <1>0, <1>10, <1>14 DEF IssueInv

-----------------------------------------------------------------------------
(* Trees.  The recursions over a tree follow the parents, which come first,  *)
(* so there are functions that they define.                                  *)

LEMMA TreeFacts ==
    ASSUME NEW tree \in TreeRows
    PROVE  /\ DOMAIN tree \in SUBSET Nat /\ DOMAIN tree \subseteq Paras
           /\ \A p \in DOMAIN tree : /\ tree[p] \in ParaRow /\ tree[p].parent \in Nat
                                     /\ tree[p].parent < p
  <1>1. PICK rows \in SUBSET Paras : tree \in [rows -> ParaRow]
    BY DEF TreeRows
  <1>2. \A p \in DOMAIN tree : tree[p] \in ParaRow /\ p \in Paras
    BY <1>1
  <1>3. 0 \in Nat /\ \A x \in Paras : x \in Nat
    BY SizesAssumption DEF Paras
  <1>4. ASSUME NEW p \in DOMAIN tree  PROVE tree[p].parent \in Nat
    <2>1. tree[p].parent \in Paras \/ tree[p].parent = 0
      BY <1>2 DEF ParaRow, NoPara
    <2> QED
      BY <1>3, <2>1, Zenon
  <1> QED
    BY <1>2, <1>3, <1>4 DEF TreeRows

LEMMA AboveIs ==
    ASSUME NEW tree \in TreeRows, NEW p \in DOMAIN tree
    PROVE  Above(tree)[p] = {p} \cup IF tree[p].parent \in DOMAIN tree
                                     THEN Above(tree)[tree[p].parent] ELSE {}
  <1> DEFINE D == DOMAIN tree
             Fits(f) == f = [q \in D |-> {q} \cup IF tree[q].parent \in D
                                                  THEN f[tree[q].parent] ELSE {}]
  <1>1. \E f : Fits(f)
    <2> DEFINE V == SUBSET Nat
               up == [q \in D |-> tree[q].parent]
               a == [q \in D |-> {q}]
               b == [q \in D |-> [x \in V |-> {q} \cup x]]
    <2>1. /\ D \in SUBSET Nat /\ up \in [D -> Nat] /\ \A q \in D : up[q] < q
      BY TreeFacts
    <2>2. a \in [D -> V] /\ b \in [D -> [V -> V]]
      BY <2>1
    <2>3. PICK f \in [D -> V] : \A q \in D : f[q] = IF up[q] \in D THEN b[q][f[up[q]]] ELSE a[q]
      <3>1. \E f \in [D -> V] : Follows(f, D, up, a, b)
        <4> HIDE DEF V, up, a, b, D
        <4> QED
          BY <2>1, <2>2, AlongParents, Zenon
      <3> QED
        BY <3>1 DEF Follows
    <2>4. ASSUME NEW q \in D
          PROVE  f[q] = {q} \cup IF tree[q].parent \in D THEN f[tree[q].parent] ELSE {}
      <3>1. CASE tree[q].parent \in D
        <4>1. f[tree[q].parent] \in V
          BY <2>3, <3>1
        <4>2. f[q] = b[q][f[tree[q].parent]]
          BY <2>3, <3>1
        <4> QED
          BY <3>1, <4>1, <4>2
      <3>2. CASE tree[q].parent \notin D
        BY <2>3, <3>2
      <3> QED
        BY <3>1, <3>2
    <2>5. f = [q \in D |-> f[q]]
      BY <2>3
    <2>6. Fits(f)
      BY <2>4, <2>5
    <2> HIDE DEF Fits
    <2> QED
      BY <2>6
  <1>2. Above(tree) = CHOOSE f : Fits(f)
    BY DEF Above
  <1>3. Fits(Above(tree))
    <2> HIDE DEF Fits
    <2> QED
      BY <1>1, <1>2, Zenon
  <1> QED
    BY <1>3

(* What hangs below something removed: its parent is, or is removed itself.  *)
LEMMA SuppressedIs ==
    ASSUME NEW tree \in TreeRows, NEW p \in DOMAIN tree
    PROVE  p \in Suppressed(tree) <=>
              /\ tree[p].parent \in DOMAIN tree
              /\ \/ Suppressing(tree[tree[p].parent])
                 \/ tree[p].parent \in Suppressed(tree)
  <1> DEFINE D == DOMAIN tree
             Fits(f) == f = [q \in D |-> /\ tree[q].parent \in D
                                         /\ \/ Suppressing(tree[tree[q].parent])
                                            \/ f[tree[q].parent]]
             below == CHOOSE f : Fits(f)
  <1>1. \E f : Fits(f)
    <2> DEFINE V == {{}, Nat}    \* FALSE and TRUE
               up == [q \in D |-> tree[q].parent]
               a == [q \in D |-> {}]
               b == [q \in D |-> [x \in V |-> IF Suppressing(tree[tree[q].parent]) THEN Nat ELSE x]]
    <2>1. /\ D \in SUBSET Nat /\ up \in [D -> Nat] /\ \A q \in D : up[q] < q
      BY TreeFacts
    <2>2. a \in [D -> V] /\ b \in [D -> [V -> V]]
      OBVIOUS
    <2>3. PICK g \in [D -> V] : \A q \in D : g[q] = IF up[q] \in D THEN b[q][g[up[q]]] ELSE a[q]
      <3>1. \E g \in [D -> V] : Follows(g, D, up, a, b)
        <4> HIDE DEF V, up, a, b, D
        <4> QED
          BY <2>1, <2>2, AlongParents, Zenon
      <3> QED
        BY <3>1 DEF Follows
    <2>4. PICK f : f = [q \in D |-> g[q] # {}]
      OBVIOUS
    <2>5. ASSUME NEW q \in D
          PROVE  (g[q] # {}) <=> /\ tree[q].parent \in D
                                 /\ \/ Suppressing(tree[tree[q].parent])
                                    \/ g[tree[q].parent] # {}
      <3>1. CASE tree[q].parent \in D
        <4>1. g[tree[q].parent] \in V
          BY <2>3, <3>1
        <4>2. g[q] = IF Suppressing(tree[tree[q].parent]) THEN Nat ELSE g[tree[q].parent]
          BY <2>3, <3>1, <4>1
        <4>3. Nat # {}
          OBVIOUS
        <4> QED
          BY <3>1, <4>2, <4>3
      <3>2. CASE tree[q].parent \notin D
        BY <2>3, <3>2
      <3> QED
        BY <3>1, <3>2
    <2>6. ASSUME NEW q \in D
          PROVE  (g[q] # {}) = (/\ tree[q].parent \in D
                                /\ \/ Suppressing(tree[tree[q].parent])
                                   \/ f[tree[q].parent])
      <3>1. tree[q].parent \in D => f[tree[q].parent] = (g[tree[q].parent] # {})
        BY <2>4
      <3> QED
        BY <2>5, <3>1, Zenon
    <2>7. Fits(f)
      BY <2>4, <2>6, Zenon
    <2> HIDE DEF Fits
    <2> QED
      BY <2>7
  <1>2. Suppressed(tree) = {q \in D : below[q]}
    BY DEF Suppressed
  <1>3. Fits(below)
    <2> HIDE DEF Fits
    <2> QED
      BY <1>1, Zenon
  <1>4. \A q \in D : below[q] = (/\ tree[q].parent \in D
                                 /\ \/ Suppressing(tree[tree[q].parent])
                                    \/ below[tree[q].parent])
    <2> HIDE DEF below
    <2> QED
      BY <1>3, Zenon
  <1> HIDE DEF below
  <1> QED
    BY <1>2, <1>4, Zenon

(* A reader sees a row when nothing above it is removed; then it is not      *)
(* suppressed, so a tree without findings shows no open matter.              *)
LEMMA CleanTreesRenderClean ==
    ASSUME NEW tree \in TreeRows, Findings(tree) = {}, NEW p \in DOMAIN tree,
           \A a \in Above(tree)[p] : ~Suppressing(tree[a])
    PROVE  /\ ~OpenFacts(tree[p])
           /\ tree[p].type \in {"note", "textBox"} => tree[p].acknowledged
  <1> DEFINE Hidden == {q \in DOMAIN tree : /\ q \in Suppressed(tree)
                                            /\ \A a \in Above(tree)[q] : ~Suppressing(tree[a])}
  <1>1. Hidden = {}
    <2> SUFFICES ASSUME Hidden # {}  PROVE FALSE
      OBVIOUS
    <2>1. Hidden \in SUBSET Nat
      BY TreeFacts
    <2>2. PICK q \in Hidden : \A x \in Hidden : q <= x
      <3> HIDE DEF Hidden
      <3> QED
        BY <2>1, LeastOf
    <2>3. q \in DOMAIN tree /\ q \in Nat
      BY <2>1, <2>2
    <2>4. PICK up : up = tree[q].parent
      OBVIOUS
    <2>5. /\ up \in DOMAIN tree /\ up < q /\ up \in Nat
          /\ Suppressing(tree[up]) \/ up \in Suppressed(tree)
      BY <2>2, <2>3, <2>4, SuppressedIs, TreeFacts
    <2>6. Above(tree)[up] \subseteq Above(tree)[q]
      BY <2>3, <2>4, <2>5, AboveIs
    <2>7. up \in Above(tree)[up]
      BY <2>5, AboveIs
    <2>8. \A a \in Above(tree)[up] : ~Suppressing(tree[a])
      BY <2>2, <2>6
    <2>9. up \in Hidden
      BY <2>5, <2>7, <2>8
    <2> QED
      BY <2>2, <2>3, <2>5, <2>9
  <1>2. p \notin Suppressed(tree)
    BY <1>1
  <1>3. ~Unready(tree[p])
    BY <1>2 DEF Findings
  <1>4. ~Suppressing(tree[p])
    BY AboveIs
  <1> QED
    BY <1>3, <1>4 DEF Unready, Suppressing

-----------------------------------------------------------------------------
(* The inductive invariant, and what follows. *)

LEMMA IssueInvInit == IssueInit => IssueInv
  <1> SUFFICES ASSUME IssueInit  PROVE IssueInv
    OBVIOUS
  <1>1. TypeOK
    BY InitType DEF IssueInit
  <1>2. ParentsComeFirst
    BY DEF IssueInit, Init, ParentsComeFirst, Live
  <1>3. package \in [Packages -> [exists : Flag, members : Seq(Specs)]]
    <2>1. <<>> \in Seq(Specs) /\ TRUE \in Flag
      BY DEF Flag
    <2> QED
      BY <2>1 DEF IssueInit
  <1>4. \A r \in Requests : tx[r] = [phase |-> "new"]
    BY DEF IssueInit, Idle
  <1>5. \A r \in Requests : Closed(tx[r]) /\ MarkedOf(tx[r]) = {}
    BY <1>4 DEF Closed, MarkedOf
  <1>6. TxInv
    BY <1>5 DEF TxInv, InOrder, IssueInit
  <1>7. RevisionsInv
    BY DEF IssueInit, RevisionsInv, HasBound
  <1> QED
    BY <1>1, <1>2, <1>3, <1>6, <1>7 DEF IssueInv, StoreInv

(* A writer touches no row that a call has marked.                           *)
LEMMA WriterSparesMarked ==
    ASSUME IssueInv, NEW s \in Specs, Writer(s)
    PROVE  \A q \in Requests : s \notin MarkedOf(tx[q])
  <1> SUFFICES ASSUME NEW q \in Requests, s \in MarkedOf(tx[q])  PROVE FALSE
    OBVIOUS
  <1>1. tx[q].phase = "marking"
    BY DEF MarkedOf
  <1>2. s \in Marked(q) /\ s \in FrozenSpecs(q)
    BY <1>1, MarkedRows DEF IssueInv
  <1>3. s \in Updated /\ s \in KeyShared
    BY <1>1, <1>2 DEF Updated, KeyShared
  <1> QED
    BY <1>3, WriterWrites

(* What the steps other than COMMIT have in common.                          *)
LEMMA OtherSteps ==
    ASSUME IssueInv, IssueNext, \A r \in Requests : ~IssueCommit(r)
    PROVE  /\ IssueInv'
           /\ revisions' \subseteq revisions
           /\ \A s \in Specs : spec'[s].lifecycle \in {spec[s].lifecycle, "archived"}
  <1>1. ASSUME NEW s \in Specs, Observing(Writer(s))  PROVE
           /\ IssueInv' /\ revisions' \subseteq revisions
           /\ \A x \in Specs : spec'[x].lifecycle \in {spec[x].lifecycle, "archived"}
    <2>1. Writer(s) /\ StoreInv /\ UNCHANGED <<package, revisions>>
      BY <1>1, WriterWrites DEF Observing, IssueInv
    <2>2. /\ StoreInv' /\ Advances /\ \A x \in Specs \ {s} : spec'[x] = spec[x]
          /\ spec'[s].lifecycle \in {spec[s].lifecycle, "archived"}
      BY <2>1, WriterAdvances
    <2>3. \A q \in Requests : \A x \in MarkedOf(tx[q]) : spec'[x] = spec[x]
      BY <2>1, <2>2, MarkedRows, WriterSparesMarked DEF IssueInv
    <2>4. package' \in [Packages -> [exists : Flag, members : Seq(Specs)]]
      BY <2>1 DEF IssueInv
    <2>5. IssueInv'
      BY <1>1, <2>1, <2>2, <2>3, <2>4, ObservingStep DEF Observing
    <2> QED
      BY <2>1, <2>2, <2>5
  <1>2. ASSUME UNCHANGED vars  PROVE
           /\ StoreInv' /\ Advances
           /\ \A x \in Specs : spec'[x] = spec[x]
    <2>1. UNCHANGED <<spec, para, drawn, hist, sealed>>
      BY <1>2 DEF vars
    <2>2. \A x \in Specs : Tree(x)' = Tree(x)
      BY <2>1 DEF Tree, Rows, InSpec, Live
    <2>3. StoreInv'
      BY <2>1 DEF IssueInv, StoreInv, TypeOK, ParentsComeFirst, Live
    <2>4. \A x \in Specs : spec[x].contentVersion \in Nat
      BY DEF IssueInv, StoreInv, TypeOK, SpecRow
    <2> QED
      BY <2>1, <2>2, <2>3, <2>4 DEF Advances
  <1>3. ASSUME NEW k \in Packages, NEW ms \in Memberships, Observing(SetPackageSpecs(k, ms))
        PROVE  IssueInv' /\ UNCHANGED vars /\ revisions' \subseteq revisions
    <2>1. /\ UNCHANGED vars /\ UNCHANGED revisions
          /\ package' = [package EXCEPT ![k].members = ms]
      BY <1>3 DEF Observing, SetPackageSpecs
    <2>2. package' \in [Packages -> [exists : Flag, members : Seq(Specs)]]
      <3>1. ms \in Seq(Specs)
        BY MembershipsAssumption
      <3>2. [package[k] EXCEPT !.members = ms] \in [exists : Flag, members : Seq(Specs)]
        BY <3>1 DEF IssueInv
      <3> QED
        BY <2>1, <3>2 DEF IssueInv
    <2>3. IssueInv'
      <3>1. \A q \in Requests : \A x \in MarkedOf(tx[q]) : spec'[x] = spec[x]
        BY <1>2, <2>1, MarkedRows DEF IssueInv
      <3> QED
        BY <1>2, <1>3, <2>1, <2>2, <3>1, ObservingStep DEF Observing
    <2> QED
      BY <2>1, <2>3
  <1>4. ASSUME NEW k \in Packages, Observing(DeletePackage(k))
        PROVE  IssueInv' /\ UNCHANGED vars /\ revisions' \subseteq revisions
    <2>1. /\ UNCHANGED vars /\ revisions' \subseteq revisions
          /\ package' = [package EXCEPT ![k] = [exists |-> FALSE, members |-> <<>>]]
      BY <1>4 DEF Observing, DeletePackage
    <2>2. package' \in [Packages -> [exists : Flag, members : Seq(Specs)]]
      <3>1. [exists |-> FALSE, members |-> <<>>] \in [exists : Flag, members : Seq(Specs)]
        BY DEF Flag
      <3> QED
        BY <2>1, <3>1 DEF IssueInv
    <2>3. IssueInv'
      <3>1. \A q \in Requests : \A x \in MarkedOf(tx[q]) : spec'[x] = spec[x]
        BY <1>2, <2>1, MarkedRows DEF IssueInv
      <3> QED
        BY <1>2, <1>4, <2>1, <2>2, <3>1, ObservingStep DEF Observing
    <2> QED
      BY <2>1, <2>3
  <1>5. ASSUME NEW r \in Requests, IssueBegin(r) \/ IssueStep(r)
        PROVE  IssueInv' /\ UNCHANGED vars /\ revisions' \subseteq revisions
    <2>1. CASE IssueBegin(r)
      BY <2>1, BeginStep DEF IssueBegin
    <2>2. CASE IssueLock(r)
      BY <2>2, LockStep DEF IssueLock
    <2>3. CASE IssueNumber(r)
      BY <2>3, NumberStep DEF IssueNumber
    <2>4. CASE FreezeMember(r)
      BY <2>4, FreezeStep DEF FreezeMember
    <2>5. CASE IssueGate(r)
      BY <2>5, GateStep DEF IssueGate
    <2>6. CASE MarkRow(r)
      BY <2>6, MarkStep DEF MarkRow
    <2>7. CASE DeadlockVictim(r)
      <3>1. tx[r].phase # "issued"
        BY <2>7 DEF DeadlockVictim, Deadlocked, Marking
      <3> QED
        BY <2>7, <3>1, RollbackStep DEF DeadlockVictim
    <2> QED
      BY <1>5, <2>1, <2>2, <2>3, <2>4, <2>5, <2>6, <2>7 DEF IssueStep
  <1> QED
    BY <1>1, <1>2, <1>3, <1>4, <1>5 DEF IssueNext

LEMMA IssueInvNext == IssueInv /\ [IssueNext]_allVars => IssueInv'
  <1> SUFFICES ASSUME IssueInv, [IssueNext]_allVars  PROVE IssueInv'
    OBVIOUS
  <1>1. CASE \E r \in Requests : IssueCommit(r)
    BY <1>1, CommitStep
  <1>2. CASE IssueNext /\ \A r \in Requests : ~IssueCommit(r)
    BY <1>2, OtherSteps
  <1>3. CASE UNCHANGED allVars
    <2>1. UNCHANGED <<spec, para, drawn, hist, sealed, package, lock, revisions, tx>>
      BY <1>3 DEF allVars, vars, issueVars
    <2>2. \A s \in Specs : Tree(s)' = Tree(s)
      BY <2>1 DEF Tree, Rows, InSpec, Live
    <2>3. ASSUME NEW r \in Requests  PROVE InOrder(r)'
      <3>1. PICK t : t = tx[r]
        OBVIOUS
      <3>2. Stands(t) => Stands(t)'
        BY <2>1, <2>2 DEF Stands
      <3>3. Closed(t) \/ (Reads(t) /\ Stands(t))
        BY <3>1 DEF IssueInv, TxInv, InOrder
      <3>4. tx'[r] = t
        BY <2>1, <3>1
      <3>5. CASE Closed(t)
        BY <3>4, <3>5 DEF InOrder, Closed
      <3>6. CASE Reads(t) /\ Stands(t)'
        BY <3>4, <3>6 DEF InOrder, Stands
      <3> QED
        BY <3>2, <3>3, <3>5, <3>6
    <2>4. TxInv'
      BY <2>1, <2>3 DEF IssueInv, TxInv
    <2>5. RevisionsInv'
      BY <2>1 DEF IssueInv, RevisionsInv, RevisionFine
    <2>6. StoreInv'
      BY <2>1 DEF IssueInv, StoreInv, TypeOK, ParentsComeFirst, Live
    <2> QED
      BY <2>1, <2>4, <2>5, <2>6 DEF IssueInv
  <1> QED
    BY <1>1, <1>2, <1>3

LEMMA IssueInvAlways == IssueSpec => []IssueInv
    BY IssueInvInit, IssueInvNext, PTL DEF IssueSpec

(* What a commit adds.                                                       *)
LEMMA IssuedBy ==
    ASSUME IssueInv, [IssueNext]_allVars, NEW n \in Issued
    PROVE  \E r \in Requests :
              /\ IssueCommit(r) /\ n.request = r /\ n.frozen = tx[r].frozen
              /\ n.order = tx[r].order
              /\ Reads(tx[r]) /\ Numbers(tx[r]) /\ Freezes(tx[r]) /\ Marks(tx[r])
              /\ tx[r] \in OpenRow
  <1>1. ~UNCHANGED allVars
    BY DEF Issued, allVars, issueVars
  <1>2. PICK r \in Requests : IssueCommit(r)
    BY <1>1, OtherSteps DEF Issued
  <1>3. tx[r].phase = "marking" /\ ~Closed(tx[r])
    BY <1>2 DEF IssueCommit, Closed
  <1>4. Reads(tx[r]) /\ Numbers(tx[r]) /\ Freezes(tx[r]) /\ Marks(tx[r]) /\ tx[r] \in OpenRow
    BY <1>3, UnderWay DEF Reads
  <1>5. n = [package |-> tx[r].package, request |-> r, order |-> tx[r].order,
             gated |-> tx[r].gated, frozen |-> tx[r].frozen]
    BY <1>2 DEF Issued, IssueCommit
  <1> QED
    BY <1>2, <1>4, <1>5

(* createPackageRevision: the member list, its order and all the trees of a  *)
(* revision are one committed state between the call and its commit.         *)
THEOREM RevisionsArePointsInTime == IssueSpec => RevisionIsOnePointInTime
  <1> DEFINE Exact == \A n \in Issued : \E c \in tx[n.request].seen :
                         n.frozen = [i \in 1..Len(c.members) |->
                                        [spec |-> c.members[i], tree |-> c.trees[c.members[i]]]]
  <1>1. ASSUME IssueInv, [IssueNext]_allVars  PROVE Exact
    <2> SUFFICES ASSUME NEW n \in Issued
                 PROVE  \E c \in tx[n.request].seen :
                           n.frozen = [i \in 1..Len(c.members) |->
                                          [spec |-> c.members[i], tree |-> c.trees[c.members[i]]]]
      OBVIOUS
    <2>1. PICK r \in Requests :
             /\ n.request = r /\ n.frozen = tx[r].frozen
             /\ Reads(tx[r]) /\ Numbers(tx[r]) /\ Freezes(tx[r]) /\ Marks(tx[r])
             /\ tx[r] \in OpenRow
      BY <1>1, IssuedBy
    <2>2. PICK t : t = tx[r]
      OBVIOUS
    <2>3. PICK c : c = [members |-> t.snapshot.members, trees |-> t.snapshot.trees]
      OBVIOUS
    <2>4. c \in t.seen
      BY <2>1, <2>2, <2>3 DEF Reads
    <2>5. /\ c.members = t.members /\ c.trees = t.snapshot.trees
          /\ t.frozen \in Seq(FrozenRow) /\ Len(t.frozen) = Len(c.members)
      BY <2>1, <2>2, <2>3 DEF Numbers, Marks, OpenRow
    <2>6. \A i \in 1..Len(c.members) :
             t.frozen[i] = [spec |-> c.members[i], tree |-> c.trees[c.members[i]]]
      BY <2>1, <2>2, <2>5 DEF Freezes
    <2>7. t.frozen = [i \in 1..Len(c.members) |-> t.frozen[i]]
      BY <2>5
    <2>8. t.frozen = [i \in 1..Len(c.members) |->
                        [spec |-> c.members[i], tree |-> c.trees[c.members[i]]]]
      BY <2>6, <2>7
    <2> QED
      BY <2>1, <2>2, <2>4, <2>8
  <1> QED
    BY <1>1, IssueInvAlways, PTL DEF IssueSpec, RevisionIsOnePointInTime

(* nextSortOrder: a revision whose place was left open is the last of its    *)
(* package as the call found it.                                             *)
THEOREM OpenPlacesAreLast == IssueSpec => OpenOrderIsLast
  <1> DEFINE LastOfAll == \A n \in Issued : tx[n.request].asked = Default =>
                        \A old \in tx[n.request].snapshot.revisions : old.order < n.order
  <1>1. ASSUME IssueInv, [IssueNext]_allVars  PROVE LastOfAll
    <2> SUFFICES ASSUME NEW n \in Issued, tx[n.request].asked = Default,
                        NEW old \in tx[n.request].snapshot.revisions
                 PROVE  old.order < n.order
      OBVIOUS
    <2>1. PICK r \in Requests :
             n.request = r /\ n.order = tx[r].order /\ Numbers(tx[r])
      BY <1>1, IssuedBy
    <2> QED
      BY <2>1 DEF Numbers
  <1> QED
    BY <1>1, IssueInvAlways, PTL DEF IssueSpec, OpenOrderIsLast

(* markMembersIssued: what a revision holds is past draft, and what became   *)
(* issued was a draft, as frozen.                                            *)
THEOREM NoDraftIsIssuedUnseen == IssueSpec => DraftsAreIssuedAsFrozen
  <1> DEFINE PastDraft == \A n \in revisions : \A e \in ToSet(n.frozen) :
                             spec[e.spec].lifecycle # "draft"
             Seen == \A s \in Specs : spec[s].lifecycle # "issued" /\ spec'[s].lifecycle = "issued" =>
                        /\ spec[s].lifecycle = "draft"
                        /\ \E n \in Issued : [spec |-> s, tree |-> Tree(s)'] \in ToSet(n.frozen)
  <1>1. ASSUME IssueInv  PROVE PastDraft
    <2> SUFFICES ASSUME NEW n \in revisions, NEW e \in ToSet(n.frozen)
                 PROVE  spec[e.spec].lifecycle # "draft"
      OBVIOUS
    <2>1. RevisionFine(n) /\ n.frozen \in Seq(FrozenRow)
      BY <1>1 DEF IssueInv, RevisionsInv, RevisionRow
    <2>2. PICK i \in 1..Len(n.frozen) : e = n.frozen[i]
      BY <2>1 DEF ToSet
    <2> QED
      BY <2>1, <2>2 DEF RevisionFine
  <1>2. ASSUME IssueInv, [IssueNext]_allVars  PROVE Seen
    <2> SUFFICES ASSUME NEW s \in Specs, spec[s].lifecycle # "issued",
                        spec'[s].lifecycle = "issued"
                 PROVE  /\ spec[s].lifecycle = "draft"
                        /\ \E n \in Issued : [spec |-> s, tree |-> Tree(s)'] \in ToSet(n.frozen)
      OBVIOUS
    <2>1. ~UNCHANGED allVars
      BY DEF allVars, vars
    <2>2. PICK r \in Requests : IssueCommit(r)
      BY <1>2, <2>1, OtherSteps
    <2>3. PICK t : t = tx[r]
      OBVIOUS
    <2>4. s \in ToMark(r)
      BY <1>2, <2>2, Commits
    <2>5. /\ spec[s].lifecycle = "draft" /\ spec[s] = t.snapshot.rows[s]
          /\ Tree(s)' = Tree(s)
      BY <1>2, <2>2, <2>3, <2>4, Commits
    <2>6. t.phase = "marking" /\ ~Closed(t)
      BY <2>2, <2>3 DEF IssueCommit, Closed
    <2>7. /\ Reads(t) /\ Stands(t) /\ Freezes(t) /\ t.frozen \in Seq(FrozenRow)
          /\ s \in DraftsOf(t)
      BY <1>2, <2>3, <2>4, <2>6, UnderWay, RowsToMark DEF Reads, OpenRow
    <2>8. t.snapshot.trees[s] = Tree(s)
      BY <2>5, <2>7 DEF Stands
    <2>9. PICK i \in 1..Len(t.frozen) : t.frozen[i].spec = s
      BY <2>7 DEF DraftsOf, FrozenOf
    <2>10. t.frozen[i] = [spec |-> t.members[i], tree |-> t.snapshot.trees[t.members[i]]]
      BY <2>7, <2>9 DEF Freezes
    <2>11. t.members[i] = s
      BY <2>9, <2>10
    <2>12. t.frozen[i] = [spec |-> s, tree |-> Tree(s)']
      BY <2>5, <2>8, <2>10, <2>11
    <2>13. [spec |-> s, tree |-> Tree(s)'] \in ToSet(t.frozen)
      BY <2>7, <2>9, <2>12 DEF ToSet
    <2>14. PICK n : n = [package |-> t.package, request |-> r, order |-> t.order,
                         gated |-> t.gated, frozen |-> t.frozen]
      OBVIOUS
    <2>15. n \in revisions' /\ n.frozen = t.frozen /\ n.request = r
      BY <2>2, <2>3, <2>14 DEF IssueCommit
    <2>16. n \notin revisions
      BY <1>2, <2>3, <2>6, <2>15 DEF IssueInv, RevisionsInv, RevisionFine
    <2> QED
      BY <2>5, <2>13, <2>15, <2>16 DEF Issued
  <1> QED
    BY <1>1, <1>2, IssueInvAlways, PTL DEF IssueSpec, DraftsAreIssuedAsFrozen

(* ADR-079: a reader of a final revision meets nothing left open.            *)
THEOREM FinalRevisionsAreClean == IssueSpec => []FinalRevisionsRenderClean
  <1>1. ASSUME IssueInv  PROVE FinalRevisionsRenderClean
    <2> SUFFICES ASSUME NEW n \in revisions, n.gated, NEW e \in ToSet(n.frozen),
                        NEW p \in DOMAIN e.tree,
                        \A a \in Above(e.tree)[p] : ~Suppressing(e.tree[a])
                 PROVE  /\ ~OpenFacts(e.tree[p])
                        /\ e.tree[p].type \in {"note", "textBox"} => e.tree[p].acknowledged
      BY DEF FinalRevisionsRenderClean
    <2>1. RevisionFine(n) /\ n.frozen \in Seq(FrozenRow)
      BY <1>1 DEF IssueInv, RevisionsInv, RevisionRow
    <2>2. PICK i \in 1..Len(n.frozen) : e = n.frozen[i]
      BY <2>1 DEF ToSet
    <2>3. e \in FrozenRow
      BY <2>1, <2>2
    <2>4. e.tree \in TreeRows
      BY <2>3 DEF FrozenRow
    <2>5. Findings(e.tree) = {}
      BY <2>1, <2>2 DEF RevisionFine
    <2> QED
      BY <2>4, <2>5, CleanTreesRenderClean
  <1> QED
    BY <1>1, IssueInvAlways, PTL

=============================================================================
