------------------------- MODULE ProjectCopy_proofs -------------------------
(***************************************************************************)
(* Proofs about the copies of a project, for every set of masters, copies   *)
(* and calls and whatever the masters cite, on top of what is proved of the *)
(* content store that holds masters and copies alike.                       *)
(***************************************************************************)
EXTENDS ProjectCopy, SpecStore_proofs, FiniteSetTheorems

-----------------------------------------------------------------------------
(* Types. *)
CloneRow == [row : ParaRow, origin : Paras]
CloneRows == UNION {[ids -> CloneRow] : ids \in SUBSET Paras}
RefRow == [source : Copies, cites : Numbers, broken : Flag, lapsed : Flag,
           target : Copies \cup {NoSpec}]
CallPhases == {"resolved", "reading"} \cup Holding
CallRow == [phase : CallPhases, asked : Numbers, of : Masters, met : SUBSET Numbers,
            title : Titles \cup {NoText}, version : Nat, id : Copies \cup {NoSpec},
            rows : CloneRows, refs : SUBSET RefRow, repaired : SUBSET RefRow, position : Nat]
ClosedRow == [phase : {"new", "failed", "added"}]

ProjectTypes ==
    /\ TypeOK
    /\ toc \in [Copies -> TocRow \cup {NoCopy}]
    /\ origin \in [Paras -> Paras \cup {NoPara}]
    /\ refs \subseteq RefRow
    /\ packaged \subseteq Copies
    /\ \E bound \in Nat : \A c \in Copies : InToc(c) => toc[c].position <= bound

-----------------------------------------------------------------------------
(* The inductive invariant. *)

(* No row hangs below a row of another spec.                                *)
RowsClosed ==
    \A p \in Paras : Live(p) =>
        para[p].parent = NoPara \/ InSpec(para[p].parent, para[p].spec)

(* A spec that exists has a name.                                           *)
Named == \A s \in Specs : Exists(s) => spec[s].title \in Titles

(* A copy exists while the table of contents lists it; it was taken at a    *)
(* generation its master has reached, it has carried the number that it     *)
(* has, which is no other copy's, and only its rows have lineage.           *)
TocFollowsCopies ==
    /\ \A c \in Copies : /\ InToc(c) => Exists(c)
                         /\ Rows(c) # {} => InToc(c)
                         /\ InToc(c) => /\ toc[c].originVersion <= spec[toc[c].of].contentVersion
                                        /\ Number(c) \in toc[c].carried
    /\ \A c, d \in Copies : InToc(c) /\ InToc(d) /\ Number(c) = Number(d) => c = d
    /\ \A p \in Paras : origin[p] # NoPara => Live(p) /\ para[p].spec \in Copies

(* What the title and the version that a call has read are worth.           *)
Current(t) ==
    /\ Exists(t.of)
    /\ t.phase # "resolved" => t.title \in Titles
    /\ t.version <= spec[t.of].contentVersion
    /\ t.version = spec[t.of].contentVersion => t.title = spec[t.of].title

(* A call that has inserted a clone is the only way to a copy of its number. *)
Reserves(t) ==
    t.phase \in Holding => t.id \in Copies /\ ~InToc(t.id) /\ CopyOf(Clones(t)) = {}

(* Nothing is in hand before the statement that writes it.                  *)
Early(t) ==
    /\ t.phase \in {"resolved", "reading", "held"} => DOMAIN t.rows = {}
    /\ t.phase \notin {"cited", "listed"} => t.refs = {}
    /\ t.phase # "listed" => t.repaired = {}

(* The cloned rows, under ids that nobody else has: a tree of their own that *)
(* follows the master's, row by row as it is now if the version read is.    *)
Plainly(row) == [Uncaptured(row) EXCEPT !.spec = NoSpec, !.parent = NoPara]
RowsFollow(t) ==
    \A p \in DOMAIN t.rows :
        LET row == t.rows[p].row
            up == para[t.rows[p].origin].parent
        IN  /\ p \in 1..drawn /\ ~Live(p)
            /\ row.spec = t.id
            /\ InSpec(t.rows[p].origin, t.of)
            /\ IF row.parent = NoPara THEN up = NoPara
               ELSE row.parent \in DOMAIN t.rows /\ up = t.rows[row.parent].origin
RowsMirror(t) ==
    /\ {t.rows[p].origin : p \in DOMAIN t.rows} = Rows(t.of)
    /\ \A p, q \in DOMAIN t.rows : t.rows[p].origin = t.rows[q].origin => p = q
    /\ \A p \in DOMAIN t.rows : Plainly(t.rows[p].row) = Plainly(para[t.rows[p].origin])
Cloned(t) ==
    t.phase \in {"cloned", "cited", "listed"} =>
        RowsFollow(t) /\ (t.version = spec[t.of].contentVersion => RowsMirror(t))

(* The references in hand, and those they will repair: one stays broken for *)
(* a copy that never had another number only if the two were being added    *)
(* together.                                                                *)
Carries(t) == {t.asked, Clones(t)}
Met(a, c, e) == e.cites \in a.met \/ a.asked \in c.met
RefHolds(e, t) ==
    /\ e.source = t.id
    /\ IF e.broken THEN e.target = NoSpec /\ e.cites # Clones(t)
       ELSE /\ e.target # NoSpec
            /\ \/ e.target = t.id /\ e.cites \in Carries(t)
               \/ e.target \in Copies /\ InToc(e.target) /\ e.cites \in toc[e.target].carried
    /\ \A c \in Copies : e.broken /\ InToc(c) /\ toc[c].carried = {e.cites} => Met(t, toc[c], e)
WillRepair(e, t) == e \in RefRow /\ e.broken /\ e.cites = t.asked /\ e.target = NoSpec
Cited(t) ==
    /\ \A e \in t.refs : RefHolds(e, t)
    /\ \A e \in t.repaired : WillRepair(e, t)
    /\ t.phase = "listed" =>
          \A e \in refs : e.broken /\ Carries(t) = {e.cites}
                             => e \in t.repaired \/ Met(toc[e.source], t, e) \/ e.lapsed

Fine(t) == Current(t) /\ Reserves(t) /\ Early(t) /\ Cloned(t) /\ Cited(t)

(* Two open calls know of each other, and what they write does not meet.    *)
Apart(a, b) ==
    /\ b.asked \in a.met
    /\ a.phase \in Holding /\ b.phase \in Holding => Clones(a) # Clones(b) /\ a.id # b.id
    /\ DOMAIN a.rows \cap DOMAIN b.rows = {}

CallsInv ==
    /\ add \in [Requests -> CallRow \cup ClosedRow]
    /\ \A r \in Open : Fine(add[r])
    /\ \A r, q \in Open : r # q => Apart(add[r], add[q])

(* What the properties say of one copy.                                     *)
DriftShows(c) ==
    Clean(c) => spec[c].title = spec[toc[c].of].title /\ Mirrors(c, Copied)
KeepsShape(c) ==
    \A p \in Rows(c) :
        LET up == para[p].parent IN
        /\ up # NoPara => InSpec(up, c)
        /\ origin[p] # NoPara =>
              /\ InSpec(origin[p], toc[c].of)
              /\ para[origin[p]].parent = IF up = NoPara THEN NoPara ELSE origin[up]

TablesInv ==
    /\ ProjectTypes
    /\ Named /\ RowsClosed /\ TocFollowsCopies
    /\ \A c \in Copies : DriftShows(c) /\ KeepsShape(c)
    /\ ReferencesFollowToc

ProjectInv == TablesInv /\ CallsInv

-----------------------------------------------------------------------------
(* Frames: a step that touches one spec only. *)
OnlyIn(s) ==
    /\ \A x \in Specs \ {s} : spec'[x] = spec[x]
    /\ \A p \in Paras :
          \/ para'[p] = para[p]
          \/ /\ para[p] = NoRow \/ para[p].spec = s
             /\ para'[p] = NoRow \/ para'[p].spec = s

(* Everything else stands.                                                  *)
LEMMA OthersStand ==
    ASSUME NEW s \in Specs, OnlyIn(s), NEW x \in Specs \ {s}
    PROVE  /\ spec'[x] = spec[x]
           /\ Rows(x)' = Rows(x)
           /\ \A p \in Rows(x) : para'[p] = para[p]
           /\ \A p \in Paras : InSpec(p, x) => para'[p] = para[p]
           /\ \A p \in Paras : InSpec(p, x)' <=> InSpec(p, x)
    BY DEF OnlyIn, Rows, InSpec, Live

(* A writer leaves the rows of its spec where they are.                     *)
KeepsPlaces(s) ==
    \A p \in Rows(s) : /\ para'[p] # NoRow /\ para'[p].spec = s
                       /\ para'[p].parent = para[p].parent
Grows(s) == spec'[s].contentVersion = spec[s].contentVersion + 1

(* What was read of a master that has moved on is not current any more.     *)
LEMMA CurrentStays ==
    ASSUME NEW t \in CallRow, Current(t), spec \in [Specs -> SpecRow],
           NEW s \in Specs, OnlyIn(s), t.of = s => Grows(s)
    PROVE  /\ Current(t)'
           /\ t.version = spec'[t.of].contentVersion
                 => t.of # s /\ t.version = spec[t.of].contentVersion
  <1>1. t.of \in Specs /\ t.version \in Nat
    BY MastersAssumption DEF CallRow
  <1>2. spec[t.of].contentVersion \in Nat
    BY <1>1 DEF SpecRow
  <1>3. CASE t.of = s
    BY <1>1, <1>2, <1>3 DEF Current, Grows, Exists
  <1>4. CASE t.of # s
    BY <1>1, <1>4, OthersStand DEF Current, Exists
  <1> QED
    BY <1>3, <1>4

(* Cloned rows keep following their master: whoever replaces its rows waits *)
(* for the call, and whoever writes them makes the version read old.        *)
LEMMA ClonedStays ==
    ASSUME NEW t \in CallRow, Current(t), Cloned(t), spec \in [Specs -> SpecRow],
           NEW s \in Specs, OnlyIn(s),
           \A p \in DOMAIN t.rows : ~Live(p) => para'[p] = NoRow,
           drawn \in Nat, drawn' \in Nat, drawn <= drawn',
           t.of = s => Grows(s) /\ (t.phase \in {"cloned", "cited", "listed"} => KeepsPlaces(s))
    PROVE  Cloned(t)'
  <1>1. t.of \in Specs
    BY MastersAssumption DEF CallRow
  <1>2. t.version = spec'[t.of].contentVersion
            => t.of # s /\ t.version = spec[t.of].contentVersion
    BY CurrentStays
  <1> SUFFICES ASSUME t.phase \in {"cloned", "cited", "listed"}
               PROVE  /\ RowsFollow(t)'
                      /\ t.version = spec'[t.of].contentVersion => RowsMirror(t)'
    BY DEF Cloned
  <1>3. RowsFollow(t)
    BY DEF Cloned
  <1>4. ASSUME NEW p \in Paras, InSpec(p, t.of)
        PROVE  /\ para'[p] # NoRow /\ para'[p].spec = t.of
               /\ para'[p].parent = para[p].parent
    <2>1. CASE t.of = s
      BY <1>4, <2>1 DEF KeepsPlaces, Rows
    <2>2. CASE t.of # s
      BY <1>1, <1>4, <2>2, OthersStand DEF InSpec, Live
    <2> QED
      BY <2>1, <2>2
  <1>5. \A p \in DOMAIN t.rows : t.rows[p].origin \in Paras
    BY DEF CallRow, CloneRows, CloneRow
  <1>6. RowsFollow(t)'
    <2> SUFFICES ASSUME NEW p \in DOMAIN t.rows
                 PROVE  LET row == t.rows[p].row
                            up == para'[t.rows[p].origin].parent
                        IN  /\ p \in 1..drawn' /\ para'[p] = NoRow
                            /\ row.spec = t.id
                            /\ InSpec(t.rows[p].origin, t.of)'
                            /\ IF row.parent = NoPara THEN up = NoPara
                               ELSE row.parent \in DOMAIN t.rows /\ up = t.rows[row.parent].origin
      BY DEF RowsFollow, Live
    <2>1. /\ p \in 1..drawn /\ ~Live(p) /\ t.rows[p].row.spec = t.id
          /\ InSpec(t.rows[p].origin, t.of)
          /\ LET row == t.rows[p].row
                 up == para[t.rows[p].origin].parent
             IN IF row.parent = NoPara THEN up = NoPara
                ELSE row.parent \in DOMAIN t.rows /\ up = t.rows[row.parent].origin
      BY <1>3 DEF RowsFollow
    <2>2. /\ InSpec(t.rows[p].origin, t.of)'
          /\ para'[t.rows[p].origin].parent = para[t.rows[p].origin].parent
      BY <1>4, <1>5, <2>1 DEF InSpec, Live
    <2> QED
      BY <2>1, <2>2
  <1>7. ASSUME t.version = spec'[t.of].contentVersion  PROVE RowsMirror(t)'
    <2>1. RowsMirror(t) /\ t.of # s
      BY <1>2, <1>7 DEF Cloned
    <2>2. Rows(t.of)' = Rows(t.of) /\ \A p \in Paras : InSpec(p, t.of) => para'[p] = para[p]
      BY <1>1, <2>1, OthersStand
    <2>3. \A p \in DOMAIN t.rows : para'[t.rows[p].origin] = para[t.rows[p].origin]
      BY <1>3, <1>5, <2>2 DEF RowsFollow
    <2> QED
      BY <2>1, <2>2, <2>3 DEF RowsMirror
  <1> QED
    BY <1>6, <1>7

(* A copy that a step leaves alone shows drift as it did, or, when its      *)
(* master has moved on, is not shown as clean any more.                     *)
LEMMA DriftStays ==
    ASSUME NEW c \in Copies, DriftShows(c), NEW s \in Specs \ {c}, OnlyIn(s),
           spec \in [Specs -> SpecRow], toc \in [Copies -> TocRow \cup {NoCopy}],
           InToc(c) => toc[c].originVersion <= spec[toc[c].of].contentVersion,
           toc'[c] = toc[c],
           InToc(c) /\ toc[c].of = s => Grows(s),
           InToc(c) /\ toc[c].of # s => \A p \in Rows(c) : origin'[p] = origin[p]
    PROVE  DriftShows(c)'
  <1> SUFFICES ASSUME Clean(c)'
               PROVE  (spec[c].title = spec[toc[c].of].title /\ Mirrors(c, Copied))'
    BY DEF DriftShows
  <1>1. InToc(c) /\ toc[c] \in TocRow
    BY DEF Clean, InToc
  <1> DEFINE m == toc[c].of
  <1>2. m \in Specs /\ c \in Specs /\ m # c /\ toc[c].originVersion \in Nat
    BY <1>1, MastersAssumption DEF TocRow, Copies
  <1>3. m # s
    <2> SUFFICES ASSUME m = s  PROVE FALSE
      OBVIOUS
    <2>1. spec'[m].contentVersion = toc[c].originVersion
      BY DEF Clean
    <2>2. spec[m].contentVersion \in Nat
      BY <1>2 DEF SpecRow
    <2> QED
      BY <1>1, <1>2, <2>1, <2>2 DEF Grows
  <1>4. /\ spec'[m] = spec[m] /\ spec'[c] = spec[c]
        /\ Rows(c)' = Rows(c) /\ Rows(m)' = Rows(m)
        /\ \A p \in Rows(c) \cup Rows(m) : para'[p] = para[p]
        /\ \A p \in Rows(c) : origin'[p] = origin[p]
    BY <1>1, <1>2, <1>3, OthersStand
  <1>5. Clean(c)
    BY <1>1, <1>4 DEF Clean, InToc
  <1>6. spec[c].title = spec[m].title /\ Mirrors(c, Copied)
    BY <1>5 DEF DriftShows
  <1>7. \A p \in Rows(c) \cup Rows(m) : Copied'[p] = Copied[p]
    BY <1>4 DEF Copied, Rows, Live
  <1>8. Mirrors(c, Copied)'
    <2>1. {origin'[p] : p \in Rows(c)'} = Rows(m)'
      BY <1>4, <1>6 DEF Mirrors
    <2>2. \A p, q \in Rows(c)' : origin'[p] = origin'[q] => p = q
      BY <1>4, <1>6 DEF Mirrors
    <2>3. \A p \in Rows(c)' : Copied'[p] = Copied'[origin'[p]]
      BY <1>4, <1>6, <1>7 DEF Mirrors
    <2> QED
      BY <2>1, <2>2, <2>3 DEF Mirrors
  <1> QED
    BY <1>4, <1>6, <1>8

(* Its shape stays what it was, and so does that of its master.             *)
LEMMA ShapeStays ==
    ASSUME NEW c \in Copies, KeepsShape(c), NEW s \in Specs \ {c}, OnlyIn(s),
           toc \in [Copies -> TocRow \cup {NoCopy}], para \in [Paras -> ParaRow \cup {NoRow}],
           origin \in [Paras -> Paras \cup {NoPara}],
           Rows(c) # {} => InToc(c), toc'[c] = toc[c],
           \/ KeepsPlaces(s) /\ \A p \in Rows(c) : origin'[p] = origin[p]
           \/ \A p \in Rows(c) :
                 origin'[p] = IF origin[p] # NoPara /\ InSpec(origin[p], s) THEN NoPara
                              ELSE origin[p]
    PROVE  KeepsShape(c)'
  <1>1. c \in Specs /\ Rows(c)' = Rows(c) /\ \A q \in Rows(c) : para'[q] = para[q]
    BY OthersStand DEF Copies
  <1> SUFFICES ASSUME NEW p \in Rows(c)
               PROVE  LET up == para[p].parent IN
                      /\ up # NoPara => para'[up] # NoRow /\ para'[up].spec = c
                      /\ origin'[p] # NoPara =>
                            /\ para'[origin'[p]] # NoRow /\ para'[origin'[p]].spec = toc[c].of
                            /\ para'[origin'[p]].parent =
                                  IF up = NoPara THEN NoPara ELSE origin'[up]
    BY <1>1 DEF KeepsShape, InSpec, Live
  <1> DEFINE up == para[p].parent
             o == origin[p]
             m == toc[c].of
  <1>2. /\ up # NoPara => InSpec(up, c)
        /\ o # NoPara => /\ InSpec(o, m)
                         /\ para[o].parent = IF up = NoPara THEN NoPara ELSE origin[up]
    BY DEF KeepsShape
  <1>3. /\ p \in Paras /\ up \in Paras \cup {NoPara} /\ o \in Paras \cup {NoPara}
        /\ m \in Specs
    BY MastersAssumption DEF Rows, InSpec, Live, ParaRow, InToc, TocRow
  <1>4. up # NoPara => up \in Rows(c) /\ para'[up] = para[up] /\ InSpec(up, c)
    BY <1>1, <1>2, <1>3 DEF Rows
  <1>5. ASSUME origin'[p] # NoPara
        PROVE  /\ o # NoPara /\ origin'[p] = o
               /\ m = s => KeepsPlaces(s) /\ \A q \in Rows(c) : origin'[q] = origin[q]
    BY <1>2, <1>3, <1>5
  <1>6. ASSUME o # NoPara, m = s => KeepsPlaces(s)
        PROVE  para'[o] # NoRow /\ para'[o].spec = m /\ para'[o].parent = para[o].parent
    <2>1. o \in Paras /\ InSpec(o, m)
      BY <1>2, <1>3, <1>6
    <2>2. CASE m = s
      BY <1>6, <2>1, <2>2 DEF KeepsPlaces, Rows
    <2>3. CASE m # s
      BY <1>3, <2>1, <2>3, OthersStand DEF InSpec, Live
    <2> QED
      BY <2>2, <2>3
  <1>7. ASSUME up # NoPara, m # s \/ \A q \in Rows(c) : origin'[q] = origin[q]
        PROVE  origin'[up] = origin[up]
    <2>1. origin[up] # NoPara => InSpec(origin[up], m)
      BY <1>4, <1>7 DEF KeepsShape
    <2> QED
      BY <1>4, <1>7, <2>1 DEF InSpec
  <1> HIDE DEF up, o, m
  <1> QED
    BY <1>2, <1>4, <1>5, <1>6, <1>7 DEF InSpec, Live, up, o, m

-----------------------------------------------------------------------------
(* The writers. *)

Touches(s) == Writer(s) \/ \E title \in Titles : Rename(s, title)

(* A name, a text and a note leave the rows of the spec alive.              *)
LEMMA WriterShapes ==
    ASSUME TypeOK, NEW s \in Specs, Touches(s)
    PROVE  /\ Write(s)
           /\ (\E title \in Titles : UpdateSpec(s, title)) \/ EditorWrites(s)
  <1>0. /\ para \in [Paras -> ParaRow \cup {NoRow}]
        /\ \A p \in Paras : InSpec(p, s) => Live(p) /\ para[p] \in ParaRow /\ para[p].spec = s
        /\ \A p \in Paras : IsNextId(p) => ~Live(p)
    BY RowFacts
  <1>1. Write(s)
    BY DEF Touches, Writer, Rename, Write
  <1>2. ASSUME ImportWrites(s), NEW p \in Paras, InSpec(p, s)  PROVE para'[p] = NoRow
    BY <1>0, <1>2 DEF ImportWrites, ReplacesRows
  <1>3. ASSUME NEW p \in Paras, NEW t \in Texts, UpdateParagraphText(s, p, t, Unconditional)
        PROVE  InSpec(p, s) /\ para'[p] # NoRow
    <2>1. InSpec(p, s) /\ para'[p] = Edited(para[p], t)
      BY <1>0, <1>3 DEF UpdateParagraphText, CommitRow
    <2> QED
      BY <1>0, <2>1, EditedType, NoRowAssumption
  <1>4. ASSUME NEW p \in Paras, AcceptCommentAsNote(s, p)
        PROVE  InSpec(p, s) /\ para'[p] # NoRow
    <2> DEFINE anchor == ClosedByAccept(para[p])
               note == NoteFrom(p, para[p])
    <2>1. InSpec(p, s) /\ Live(p) /\ para[p] \in ParaRow
      BY <1>0, <1>4 DEF AcceptCommentAsNote
    <2>2. PICK n \in Paras :
             /\ IsNextId(n)
             /\ para' = [ShiftedAfter(para, para[p]) EXCEPT ![p] = anchor, ![n] = note]
      BY <1>4 DEF AcceptCommentAsNote
    <2>3. anchor \in ParaRow
      <3>1. "closed" \in CommentStates
        BY DEF CommentStates
      <3> QED
        BY <2>1, <3>1, ToggleType, FlagType DEF ClosedByAccept
    <2>4. ShiftedAfter(para, para[p]) \in [Paras -> ParaRow \cup {NoRow}]
      BY <1>0, <2>1, ShiftedType
    <2> HIDE DEF anchor, note
    <2> QED
      BY <1>0, <2>1, <2>2, <2>3, <2>4, NoRowAssumption
  <1>5. CASE \E title \in Titles : UpdateSpec(s, title)
    BY <1>1, <1>5
  <1>6. CASE ~ \E title \in Titles : UpdateSpec(s, title)
    <2>1. \E p \in Paras : InSpec(p, s) /\ para'[p] # NoRow
      BY <1>3, <1>4, <1>6 DEF Touches, Writer, Rename
    <2> QED
      BY <1>1, <1>2, <1>6, <2>1, WriteShapes
  <1> QED
    BY <1>5, <1>6

LEMMA TitleWritten ==
    ASSUME spec \in [Specs -> SpecRow], NEW s \in Specs, NEW title, UpdateSpec(s, title)
    PROVE  spec'[s].title = title
  <1>1. spec'[s] = Bumped(Retitled(spec[s], title)) /\ spec[s] \in SpecRow
    BY DEF UpdateSpec
  <1> QED
    BY <1>1 DEF Bumped, Retitled, SpecRow

(* What a writer leaves of the tables: its own spec moves on, its rows stay *)
(* in place, and one that it adds is the youngest.                          *)
NewRowsAreYoung(s) ==
    \A p \in Paras : para[p] = NoRow /\ para'[p] # NoRow =>
        p > drawn /\ para'[p].spec = s /\ Rows(s) # {}
LEMMA WriterFrame ==
    ASSUME TypeOK, RowsClosed, NEW s \in Specs, Touches(s)
    PROVE  /\ TypeOK' /\ RowsClosed'
           /\ OnlyIn(s) /\ Grows(s) /\ KeepsPlaces(s) /\ NewRowsAreYoung(s)
           /\ \/ spec'[s].title = spec[s].title
              \/ \E title \in Titles : UpdateSpec(s, title) /\ spec'[s].title = title
           /\ Exists(s) /\ drawn <= drawn' /\ drawn \in Nat /\ drawn' \in Nat
  <1>0. /\ para \in [Paras -> ParaRow \cup {NoRow}] /\ drawn \in Nat
        /\ \A p \in Paras : InSpec(p, s) => Live(p) /\ para[p] \in ParaRow /\ para[p].spec = s
        /\ \A p \in Paras : p > drawn => para[p] = NoRow
        /\ \A p \in Paras : Live(p) => para[p] \in ParaRow
    BY RowFacts DEF TypeOK, Live
  <1>1. Write(s) /\ ((\E title \in Titles : UpdateSpec(s, title)) \/ EditorWrites(s))
    BY WriterShapes
  <1>2. TypeOK'
    BY <1>1, NextType DEF Next
  <1>3. Grows(s) /\ \A x \in Specs \ {s} : spec'[x] = spec[x]
    BY <1>1, RequestAdvances DEF Grows
  <1>4. drawn' \in Nat
    BY <1>2 DEF TypeOK
  <1> DEFINE Kept(p) == /\ para'[p] # NoRow /\ para'[p].spec = para[p].spec
                        /\ para'[p].parent = para[p].parent
             RowsMove == /\ \A p \in Rows(s) : Kept(p)
                         /\ \A p \in Paras : /\ Live(p) /\ p \notin Rows(s) => para'[p] = para[p]
                                             /\ ~Live(p) /\ para'[p] # NoRow =>
                                                   /\ p > drawn /\ para'[p].spec = s
                                                   /\ \E a \in Rows(s) :
                                                         para'[p].parent = para[a].parent
  <1>5. Exists(s) /\ drawn <= drawn' /\ RowsMove
    <2>1. ASSUME NEW title \in Titles, UpdateSpec(s, title)
          PROVE  Exists(s) /\ drawn <= drawn' /\ RowsMove
      BY <1>0, <2>1 DEF UpdateSpec, Rows, Live, InSpec
    <2>2. CASE EditorWrites(s)
      <3>1. Exists(s)
        BY <2>2 DEF EditorWrites
      <3>2. drawn <= drawn'
        <4>1. CASE Write(s) /\ \E doc \in Documents : PersistParsedSpec(s, doc)
          BY <1>0, <4>1, DocumentsAssumption DEF PersistParsedSpec
        <4>2. CASE ~ \E doc \in Documents : PersistParsedSpec(s, doc)
          BY <1>0, <1>1, <4>2 DEF Write, UpdateSpec, UpdateParagraphText, InsertParagraphAfter,
             SetParagraphVanish, SetParagraphAcknowledged, SetParagraphCommentClosed,
             AcceptCommentAsNote, CommitRow, IsNextId
        <4> QED
          BY <1>1, <4>1, <4>2
      <3>3. ASSUME NEW p \in Paras, EditsRow(s, p)  PROVE RowsMove
        <4>1. Kept(p) /\ InSpec(p, s)
          BY <1>0, <3>3, NoRowAssumption DEF EditsRow, SamePlace
        <4>2. \A q \in Paras \ {p} : para'[q] = para[q]
          BY <3>3 DEF EditsRow
        <4> QED
          BY <1>0, <4>1, <4>2 DEF Rows, InSpec, Live
      <3>4. ASSUME NEW a \in Paras, NEW n \in Paras, InsertsRow(s, a, n), n = drawn + 1
            PROVE  RowsMove
        <4>1. InSpec(a, s) /\ Kept(a) /\ a \in Rows(s)
          BY <1>0, <3>4, NoRowAssumption DEF InsertsRow, SamePlace, Rows
        <4>2. /\ ~Live(n) /\ n > drawn /\ para'[n].spec = s
              /\ para'[n].parent = para[a].parent
          BY <1>0, <3>4 DEF InsertsRow
        <4>3. ASSUME NEW q \in Paras \ {a, n}
              PROVE  /\ q \in Rows(s) => Kept(q)
                     /\ Live(q) /\ q \notin Rows(s) => para'[q] = para[q]
                     /\ ~Live(q) => para'[q] = NoRow
          <5>1. para'[q] = ShiftedAfter(para, para[a])[q]
            BY <3>4 DEF InsertsRow
          <5>2. para[a] \in ParaRow /\ para[a].spec = s
            BY <1>0, <4>1
          <5> DEFINE moves == /\ para[q] # NoRow /\ para[q].spec = para[a].spec
                              /\ para[q].parent = para[a].parent
                              /\ para[q].position > para[a].position
          <5>3. /\ ~moves => para'[q] = para[q]
                /\ moves => /\ para'[q] \in ParaRow /\ para'[q].spec = para[q].spec
                            /\ para'[q].parent = para[q].parent
            BY <1>0, <5>1, <5>2, ShiftedPlace
          <5> QED
            BY <1>0, <5>2, <5>3, NoRowAssumption DEF Rows, InSpec, Live
        <4>4. n \notin Rows(s) /\ Live(a)
          BY <4>1, <4>2 DEF Rows, InSpec
        <4> HIDE DEF Kept
        <4>5. \A p \in Rows(s) : Kept(p)
          BY <4>1, <4>3, <4>4 DEF Rows
        <4>6. \A p \in Paras : Live(p) /\ p \notin Rows(s) => para'[p] = para[p]
          BY <4>1, <4>2, <4>3
        <4>7. \A p \in Paras : ~Live(p) /\ para'[p] # NoRow => p = n
          BY <4>3, <4>4
        <4> QED
          BY <4>1, <4>2, <4>5, <4>6, <4>7
      <3> HIDE DEF RowsMove
      <3> QED
        BY <2>2, <3>1, <3>2, <3>3, <3>4 DEF EditorWrites
    <2> QED
      BY <1>1, <2>1, <2>2
  <1>6. OnlyIn(s)
    BY <1>0, <1>3, <1>5 DEF OnlyIn, Rows, InSpec, Live
  <1>7. KeepsPlaces(s) /\ NewRowsAreYoung(s)
    BY <1>0, <1>5 DEF KeepsPlaces, NewRowsAreYoung, Rows, InSpec, Live
  <1>8. RowsClosed'
    <2>1. ASSUME NEW p \in Paras, Live(p)
          PROVE  InSpec(p, para[p].spec)' <=> para'[p] # NoRow
      BY <1>0, <1>5, <2>1 DEF InSpec, Live, Rows
    <2>2. ASSUME NEW p \in Paras, para'[p] # NoRow
          PROVE  \/ para'[p].parent = NoPara
                 \/ para'[para'[p].parent] # NoRow /\ para'[para'[p].parent].spec = para'[p].spec
      <3>1. \E a \in Paras : /\ Live(a) /\ para'[p].parent = para[a].parent
                             /\ para'[p].spec = para[a].spec
        BY <1>0, <1>5, <2>2 DEF Rows, InSpec, Live
      <3>2. PICK a \in Paras : /\ Live(a) /\ para'[p].parent = para[a].parent
                               /\ para'[p].spec = para[a].spec
        BY <3>1
      <3> DEFINE up == para[a].parent
      <3>3. up = NoPara \/ (up \in Paras /\ Live(up) /\ para[up].spec = para[a].spec)
        BY <1>0, <3>2 DEF RowsClosed, InSpec, ParaRow
      <3>4. ASSUME up \in Paras, Live(up)
            PROVE  para'[up] # NoRow /\ para'[up].spec = para[up].spec
        BY <1>5, <3>4 DEF Live
      <3> QED
        BY <3>2, <3>3, <3>4
    <2> QED
      BY <2>2 DEF RowsClosed, InSpec, Live
  <1>9. \/ spec'[s].title = spec[s].title
        \/ \E title \in Titles : UpdateSpec(s, title) /\ spec'[s].title = title
    <2>1. ASSUME NEW title \in Titles, UpdateSpec(s, title)  PROVE spec'[s].title = title
      BY <2>1, TitleWritten DEF TypeOK
    <2>2. EditorWrites(s) => spec'[s].title = spec[s].title
      BY <1>1, RequestAdvances
    <2> QED
      BY <1>1, <2>1, <2>2
  <1> HIDE DEF RowsMove, Kept
  <1> QED
    BY <1>0, <1>2, <1>3, <1>4, <1>5, <1>6, <1>7, <1>8, <1>9

(* A re-import replaces every row of its spec by rows with the next ids,    *)
(* which hang below one another.                                            *)
LEMMA ImportFrame ==
    ASSUME TypeOK, RowsClosed, NEW m \in Specs, NEW doc \in Documents, PersistParsedSpec(m, doc)
    PROVE  /\ TypeOK' /\ RowsClosed'
           /\ OnlyIn(m) /\ Grows(m)
           /\ \A p \in Paras : para[p] = NoRow /\ para'[p] # NoRow => p > drawn
           /\ drawn <= drawn' /\ drawn \in Nat /\ drawn' \in Nat
  <1> DEFINE fresh == drawn + 1 .. drawn + Len(doc.nodes)
  <1>0. /\ para \in [Paras -> ParaRow \cup {NoRow}] /\ drawn \in Nat
        /\ \A p \in Paras : p > drawn => para[p] = NoRow
        /\ \A p \in Paras : Live(p) => para[p] \in ParaRow
        /\ Len(doc.nodes) \in Nat /\ MaxParas \in Nat
        /\ drawn + Len(doc.nodes) <= MaxParas /\ drawn' = drawn + Len(doc.nodes)
    BY DocumentsAssumption, SizesAssumption DEF TypeOK, Live, PersistParsedSpec
  <1>1. Write(m)
    BY DEF Write
  <1>2. TypeOK' /\ Grows(m) /\ \A x \in Specs \ {m} : spec'[x] = spec[x]
    BY <1>1, NextType, RequestAdvances DEF Next, Grows
  <1>3. ASSUME NEW i \in 1..Len(doc.nodes)
        PROVE  /\ ImportedRow(m, doc, drawn, i) \in ParaRow
               /\ ImportedRow(m, doc, drawn, i).spec = m
               /\ \/ ImportedRow(m, doc, drawn, i).parent = NoPara
                  \/ ImportedRow(m, doc, drawn, i).parent \in fresh
    <2>1. doc.nodes[i] \in Node
      BY DocumentsAssumption
    <2>2. doc.nodes[i].parent \in Nat /\ doc.nodes[i].parent < i
      BY <2>1, DocumentsAssumption DEF Node
    <2>3. ImportedRow(m, doc, drawn, i).parent =
             IF doc.nodes[i].parent = 0 THEN NoPara ELSE drawn + doc.nodes[i].parent
      BY DEF ImportedRow
    <2>4. doc.nodes[i].parent # 0 => drawn + doc.nodes[i].parent \in fresh
      BY <1>0, <2>2
    <2> QED
      BY <1>0, <2>3, <2>4, ImportedType
  <1>4. \A p \in Paras : /\ p \in fresh => para'[p] = ImportedRow(m, doc, drawn, p - drawn)
                         /\ p \notin fresh => para'[p] = IF InSpec(p, m) THEN NoRow ELSE para[p]
    BY DEF PersistParsedSpec
  <1>5. \A p \in Paras : p \in fresh => p - drawn \in 1..Len(doc.nodes)
    BY <1>0 DEF Paras
  <1>6. \A p \in fresh : p \in Paras /\ p > drawn /\ para[p] = NoRow
    BY <1>0 DEF Paras
  <1> HIDE DEF fresh
  <1>7. \A p \in fresh : /\ para'[p] # NoRow /\ para'[p].spec = m
                         /\ para'[p].parent = NoPara \/ para'[p].parent \in fresh
    BY <1>3, <1>4, <1>5, <1>6, NoRowAssumption
  <1>8. OnlyIn(m)
    BY <1>2, <1>4, <1>6, <1>7 DEF OnlyIn, InSpec
  <1>9. RowsClosed'
    <2> SUFFICES ASSUME NEW p \in Paras, para'[p] # NoRow
                 PROVE  \/ para'[p].parent = NoPara
                        \/ para'[para'[p].parent] # NoRow /\ para'[para'[p].parent].spec = para'[p].spec
      BY DEF RowsClosed, InSpec, Live
    <2>1. CASE p \in fresh
      BY <1>7, <2>1
    <2>2. CASE p \notin fresh
      <3>1. para'[p] = para[p] /\ Live(p) /\ para[p].spec # m /\ para[p] \in ParaRow
        BY <1>0, <1>4, <2>2 DEF InSpec, Live
      <3> DEFINE up == para[p].parent
      <3>2. up = NoPara \/ (up \in Paras /\ InSpec(up, para[p].spec))
        BY <3>1 DEF RowsClosed, ParaRow
      <3>3. ASSUME up \in Paras, InSpec(up, para[p].spec)
            PROVE  para'[up] = para[up] /\ para[up] # NoRow /\ para[up].spec = para[p].spec
        BY <1>4, <1>6, <3>1, <3>3 DEF InSpec, Live
      <3> QED
        BY <3>1, <3>2, <3>3
    <2> QED
      BY <2>1, <2>2
  <1>10. \A p \in Paras : para[p] = NoRow /\ para'[p] # NoRow => p > drawn
    BY <1>4, <1>6 DEF InSpec, Live
  <1>11. drawn <= drawn' /\ drawn' \in Nat
    BY <1>0
  <1> QED
    BY <1>0, <1>2, <1>8, <1>9, <1>10, <1>11

(* The table of contents keeps its rows: a copy that gets another number    *)
(* keeps what it has carried, and has carried that one too.                 *)
TocKept ==
    \A c \in Copies :
        /\ InToc(c)' <=> InToc(c)
        /\ InToc(c) =>
              /\ toc'[c].of = toc[c].of /\ toc'[c].originVersion = toc[c].originVersion
              /\ toc'[c].position = toc[c].position
              /\ toc'[c].asked = toc[c].asked /\ toc'[c].met = toc[c].met
              /\ toc[c].carried \subseteq toc'[c].carried
              /\ Number(c)' \in toc'[c].carried
              /\ \A n : toc'[c].carried = {n} => toc[c].carried = {n}
NumbersApart == \A c, d \in Copies : InToc(c) /\ InToc(d) /\ Number(c) = Number(d) => c = d

LEMMA TitleStays ==
    ASSUME TypeOK, NEW s \in Specs, Writer(s)
    PROVE  spec'[s].title = spec[s].title
  <1>1. Write(s) /\ BumpSpecContentVersion(s)
    BY DEF Writer, Write, UpdateParagraphText, AcceptCommentAsNote, CommitRow
  <1>2. spec'[s] = Bumped(spec[s]) /\ spec[s] \in SpecRow
    BY <1>1 DEF BumpSpecContentVersion, TypeOK
  <1> QED
    BY <1>2 DEF Bumped, SpecRow

(* To have carried another number breaks and repairs nothing.               *)
LEMMA RefsKept ==
    ASSUME ReferencesFollowToc, TocKept, refs \subseteq RefRow, packaged \subseteq Copies,
           UNCHANGED <<refs, packaged>>
    PROVE  ReferencesFollowToc'
  <1>1. ASSUME NEW e \in refs
        PROVE  /\ InToc(e.source)'
               /\ IF e.broken THEN e.target = NoSpec
                  ELSE /\ e.target # NoSpec /\ InToc(e.target)'
                       /\ e.cites \in toc'[e.target].carried
    <2>1. /\ InToc(e.source) /\ e.source \in Copies /\ e.target \in Copies \cup {NoSpec}
          /\ IF e.broken THEN e.target = NoSpec
             ELSE e.target # NoSpec /\ InToc(e.target) /\ e.cites \in toc[e.target].carried
      BY <1>1 DEF ReferencesFollowToc, TargetsAreOwn, RefRow
    <2> QED
      BY <2>1 DEF TocKept
  <1>2. \A c \in packaged : InToc(c)'
    BY DEF ReferencesFollowToc, TargetsAreOwn, TocKept
  <1>3. ASSUME NEW e \in refs, NEW c \in Copies, ~BrokenMeansAbsent(e, c)'
        PROVE  e.cites \in toc'[e.source].met \/ toc'[e.source].asked \in toc'[c].met \/ e.lapsed
    <2>1. e.broken /\ InToc(c)' /\ toc'[c].carried = {e.cites}
      BY <1>3 DEF BrokenMeansAbsent
    <2>2. InToc(c) /\ toc[c].carried = {e.cites} /\ toc'[c].met = toc[c].met
      BY <2>1 DEF TocKept
    <2>3. e.cites \in toc[e.source].met \/ toc[e.source].asked \in toc[c].met \/ e.lapsed
      BY <2>1, <2>2 DEF ReferencesFollowToc, BrokenMeansAbsent
    <2>4. InToc(e.source) /\ e.source \in Copies
      BY <1>3 DEF ReferencesFollowToc, TargetsAreOwn, RefRow
    <2>5. toc'[e.source].met = toc[e.source].met /\ toc'[e.source].asked = toc[e.source].asked
      BY <2>4 DEF TocKept
    <2> QED
      BY <2>2, <2>3, <2>5
  <1>4. TargetsAreOwn'
    BY <1>1, <1>2 DEF TargetsAreOwn
  <1> QED
    BY <1>3, <1>4 DEF ReferencesFollowToc, BrokenMeansAbsent

LEMMA WriterToc ==
    ASSUME TablesInv, NEW s \in Specs, Touches(s)
    PROVE  /\ toc' \in [Copies -> TocRow \cup {NoCopy}]
           /\ TocKept /\ NumbersApart' /\ Named'
           /\ \A c \in Copies \ {s} : toc'[c] = toc[c]
           /\ UNCHANGED <<origin, refs, packaged, add>>
  <1>0. /\ TypeOK /\ TocFollowsCopies /\ Named /\ RowsClosed /\ NumbersApart
        /\ toc \in [Copies -> TocRow \cup {NoCopy}] /\ spec \in [Specs -> SpecRow]
        /\ \A c \in Copies : c \in Specs
        /\ \A c \in Copies : InToc(c) => Number(c) \in toc[c].carried
    BY DEF TablesInv, ProjectTypes, TypeOK, Copies, TocFollowsCopies, NumbersApart
  <1>1. /\ \A x \in Specs \ {s} : spec'[x] = spec[x]
        /\ \A x \in Specs \ {s} : Number(x)' = Number(x)
    BY <1>0, WriterFrame DEF OnlyIn, Number
  <1>2. CASE Writer(s)
    <2>1. \A x \in Specs : spec'[x].title = spec[x].title
      BY <1>0, <1>1, <1>2, TitleStays
    <2>2. UNCHANGED <<toc, origin, refs, packaged, add>>
      BY <1>2 DEF Writer, projectVars
    <2>3. Exists(s)
      BY <1>0, WriterFrame
    <2>4. Named'
      BY <1>0, <1>1, <2>1, <2>3 DEF Named, Exists
    <2>5. \A x \in Specs : Number(x)' = Number(x)
      BY <2>1 DEF Number
    <2> QED
      BY <1>0, <2>2, <2>4, <2>5 DEF TocKept, NumbersApart, InToc
  <1>3. CASE ~Writer(s)
    <2>1. PICK title \in Titles : Rename(s, title)
      BY <1>3 DEF Touches
    <2>2. /\ UpdateSpec(s, title) /\ ~Taken(s, NumberOf[title])
          /\ toc' = [c \in Copies |-> IF c = s /\ InToc(c)
                                      THEN [toc[c] EXCEPT !.carried = @ \cup {NumberOf[title]}]
                                      ELSE toc[c]]
          /\ UNCHANGED <<origin, refs, packaged, add>>
      BY <2>1 DEF Rename
    <2>3. spec'[s].title = title /\ Number(s)' = NumberOf[title] /\ NumberOf[title] \in Numbers
      BY <1>0, <2>2, TitleWritten, NumbersAssumption DEF Number
    <2>4. Named'
      BY <1>0, <1>1, <2>3 DEF Named, Exists
    <2>5. \A c \in Copies : toc'[c] = IF c = s /\ InToc(c)
                                      THEN [toc[c] EXCEPT !.carried = @ \cup {NumberOf[title]}]
                                      ELSE toc[c]
      BY <2>2
    <2>6. ASSUME NEW c \in Copies, c = s, InToc(c)
          PROVE  /\ toc'[c] \in TocRow /\ toc'[c] # NoCopy
                 /\ toc'[c].of = toc[c].of /\ toc'[c].originVersion = toc[c].originVersion
                 /\ toc'[c].position = toc[c].position
                 /\ toc'[c].asked = toc[c].asked /\ toc'[c].met = toc[c].met
                 /\ toc'[c].carried = toc[c].carried \cup {NumberOf[title]}
      <3>1. toc[c] \in TocRow /\ toc'[c] = [toc[c] EXCEPT !.carried = @ \cup {NumberOf[title]}]
        BY <1>0, <2>5, <2>6 DEF InToc
      <3> QED
        BY <2>3, <3>1, NoCopyAssumption DEF TocRow
    <2>7. toc' \in [Copies -> TocRow \cup {NoCopy}]
      <3>1. \A c \in Copies : toc'[c] \in TocRow \cup {NoCopy}
        BY <1>0, <2>5, <2>6
      <3> QED
        BY <2>2, <3>1
    <2>8. TocKept
      <3> SUFFICES ASSUME NEW c \in Copies
                   PROVE  /\ InToc(c)' <=> InToc(c)
                          /\ InToc(c) =>
                                /\ toc'[c].of = toc[c].of
                                /\ toc'[c].originVersion = toc[c].originVersion
                                /\ toc'[c].position = toc[c].position
                                /\ toc'[c].asked = toc[c].asked /\ toc'[c].met = toc[c].met
                                /\ toc[c].carried \subseteq toc'[c].carried
                                /\ Number(c)' \in toc'[c].carried
                                /\ \A n : toc'[c].carried = {n} => toc[c].carried = {n}
        BY DEF TocKept
      <3>1. CASE c = s /\ InToc(c)
        <4>1. toc'[c].carried = toc[c].carried \cup {NumberOf[title]} /\ toc[c].carried # {}
          BY <1>0, <2>6, <3>1
        <4>2. \A n : toc'[c].carried = {n} => toc[c].carried = {n}
          BY <4>1
        <4> QED
          BY <2>3, <2>6, <3>1, <4>1, <4>2 DEF InToc
      <3>2. CASE ~(c = s /\ InToc(c))
        <4>1. toc'[c] = toc[c]
          BY <2>5, <3>2
        <4>2. InToc(c) => c # s /\ Number(c)' = Number(c)
          BY <1>0, <1>1, <3>2
        <4> QED
          BY <1>0, <4>1, <4>2 DEF InToc
      <3> QED
        BY <3>1, <3>2
    <2>9. \A c \in Copies : InToc(c)' <=> InToc(c)
      BY <2>8 DEF TocKept
    <2>10. s \in Copies => \A d \in Copies \ {s} : InToc(d) => Number(d) # NumberOf[title]
      <3>1. s \in Copies => s \notin Masters
        BY DEF Copies
      <3> QED
        BY <2>2, <3>1 DEF Taken, CopyOf
    <2>11. NumbersApart'
      BY <1>0, <1>1, <2>3, <2>9, <2>10 DEF NumbersApart
    <2> QED
      BY <2>2, <2>4, <2>5, <2>7, <2>8, <2>11
  <1> QED
    BY <1>2, <1>3

LEMMA WriterKeepsTables ==
    ASSUME TablesInv, NEW s \in Specs, Touches(s)
    PROVE  TablesInv'
  <1>0. /\ TypeOK /\ RowsClosed /\ TocFollowsCopies /\ ProjectTypes
        /\ para \in [Paras -> ParaRow \cup {NoRow}] /\ spec \in [Specs -> SpecRow]
        /\ toc \in [Copies -> TocRow \cup {NoCopy}]
        /\ origin \in [Paras -> Paras \cup {NoPara}]
        /\ \A c \in Copies : c \in Specs /\ c \notin Masters
        /\ \A x \in Specs : spec[x].contentVersion \in Nat
    BY DEF TablesInv, ProjectTypes, TypeOK, Copies, SpecRow
  <1>1. /\ UNCHANGED <<origin, refs, packaged>> /\ TocKept /\ NumbersApart' /\ Named'
        /\ toc' \in [Copies -> TocRow \cup {NoCopy}]
        /\ \A c \in Copies \ {s} : toc'[c] = toc[c]
    BY WriterToc
  <1>2. /\ TypeOK' /\ RowsClosed'
        /\ OnlyIn(s) /\ Grows(s) /\ KeepsPlaces(s) /\ NewRowsAreYoung(s)
        /\ Exists(s)
    BY <1>0, WriterFrame
  <1>3. ProjectTypes'
    <2>1. PICK bound \in Nat : \A c \in Copies : InToc(c) => toc[c].position <= bound
      BY <1>0 DEF ProjectTypes
    <2>2. \A c \in Copies : InToc(c)' => toc'[c].position <= bound
      BY <1>1, <2>1 DEF TocKept
    <2> QED
      BY <1>0, <1>1, <1>2, <2>2 DEF ProjectTypes
  <1>4. /\ \A x \in Specs : spec[x].contentVersion <= spec'[x].contentVersion
        /\ spec'[s].contentVersion > 1
    <2>1. \A x \in Specs \ {s} : spec'[x] = spec[x]
      BY <1>2 DEF OnlyIn
    <2> QED
      BY <1>0, <1>2, <2>1 DEF Grows, Exists
  <1>5. \A c \in Copies : InToc(c) => toc[c] \in TocRow /\ toc[c].of \in Specs /\ toc[c].of \in Masters
    BY <1>0, MastersAssumption DEF InToc, TocRow
  <1>6. \A p \in Paras : Live(p) => /\ para'[p] # NoRow /\ para'[p].spec = para[p].spec
                                    /\ para'[p].parent = para[p].parent
    <2> SUFFICES ASSUME NEW p \in Paras, Live(p)
                 PROVE  /\ para'[p] # NoRow /\ para'[p].spec = para[p].spec
                        /\ para'[p].parent = para[p].parent
      OBVIOUS
    <2>1. CASE InSpec(p, s)
      BY <1>2, <2>1 DEF KeepsPlaces, Rows, InSpec
    <2>2. CASE ~InSpec(p, s)
      BY <1>2, <2>2 DEF OnlyIn, InSpec, Live
    <2> QED
      BY <2>1, <2>2
  <1>7. TocFollowsCopies'
    <2>1. ASSUME NEW c \in Copies, InToc(c)
          PROVE  spec'[c].contentVersion > 0 /\ toc[c].originVersion <= spec'[toc[c].of].contentVersion
      <3>1. /\ spec[c].contentVersion > 0 /\ toc[c].originVersion <= spec[toc[c].of].contentVersion
            /\ toc[c].originVersion \in Nat
        BY <1>0, <1>5, <2>1 DEF TocFollowsCopies, Exists, TocRow
      <3>2. /\ spec'[c].contentVersion \in Nat /\ spec'[toc[c].of].contentVersion \in Nat
        BY <1>0, <1>2, <1>5, <2>1 DEF TypeOK, SpecRow
      <3> QED
        BY <1>0, <1>4, <1>5, <2>1, <3>1, <3>2
    <2>2. ASSUME NEW c \in Copies, NEW p \in Paras, para'[p] # NoRow, para'[p].spec = c
          PROVE  InToc(c)
      <3>1. CASE Live(p)
        BY <1>0, <1>6, <2>2, <3>1 DEF TocFollowsCopies, Rows, InSpec
      <3>2. CASE ~Live(p)
        <4>1. Rows(s) # {} /\ c = s
          BY <1>2, <2>2, <3>2 DEF NewRowsAreYoung, Live
        <4> QED
          BY <1>0, <4>1 DEF TocFollowsCopies
      <3> QED
        BY <3>1, <3>2
    <2>3. \A p \in Paras : origin[p] # NoPara => para'[p] # NoRow /\ para'[p].spec \in Copies
      BY <1>0, <1>6 DEF TocFollowsCopies
    <2>4. \A c \in Copies :
             /\ InToc(c)' <=> InToc(c)
             /\ InToc(c) => /\ toc'[c].of = toc[c].of
                            /\ toc'[c].originVersion = toc[c].originVersion
                            /\ Number(c)' \in toc'[c].carried
      BY <1>1 DEF TocKept
    <2>5. ASSUME NEW c \in Copies
          PROVE  /\ InToc(c)' => Exists(c)'
                 /\ Rows(c)' # {} => InToc(c)'
                 /\ InToc(c)' => /\ toc'[c].originVersion <= spec'[toc'[c].of].contentVersion
                                 /\ Number(c)' \in toc'[c].carried
      BY <2>1, <2>2, <2>4 DEF Exists, Rows, InSpec, Live
    <2>6. \A p \in Paras : origin'[p] # NoPara => Live(p)' /\ para'[p].spec \in Copies
      BY <1>1, <2>3 DEF Live
    <2> QED
      BY <1>1, <2>5, <2>6 DEF TocFollowsCopies, NumbersApart
  <1>8. ASSUME NEW c \in Copies  PROVE DriftShows(c)'
    <2>1. CASE c = s
      BY <1>4, <2>1 DEF DriftShows, Clean
    <2>2. CASE c # s
      <3>1. InToc(c) => toc[c].originVersion <= spec[toc[c].of].contentVersion
        BY <1>0 DEF TocFollowsCopies
      <3>2. DriftShows(c)
        BY DEF TablesInv
      <3> QED
        BY <1>0, <1>1, <1>2, <2>2, <3>1, <3>2, DriftStays
    <2> QED
      BY <2>1, <2>2
  <1>9. ASSUME NEW c \in Copies  PROVE KeepsShape(c)'
    <2>0. KeepsShape(c) /\ (Rows(c) # {} => InToc(c))
      BY <1>0 DEF TablesInv, TocFollowsCopies
    <2>1. CASE c = s
      <3> SUFFICES ASSUME NEW p \in Paras, para'[p] # NoRow, para'[p].spec = c
                   PROVE  LET up == para'[p].parent IN
                          /\ up # NoPara => para'[up] # NoRow /\ para'[up].spec = c
                          /\ origin[p] # NoPara =>
                                /\ para'[origin[p]] # NoRow /\ para'[origin[p]].spec = toc'[c].of
                                /\ para'[origin[p]].parent =
                                      IF up = NoPara THEN NoPara ELSE origin[up]
        BY <1>1 DEF KeepsShape, Rows, InSpec, Live
      <3>1. para'[p].parent = NoPara \/ (para'[para'[p].parent] # NoRow /\ para'[para'[p].parent].spec = c)
        BY <1>2 DEF RowsClosed, InSpec, Live
      <3>2. ASSUME origin[p] # NoPara
            PROVE  /\ para'[origin[p]] # NoRow /\ para'[origin[p]].spec = toc'[c].of
                   /\ para'[origin[p]].parent =
                         IF para'[p].parent = NoPara THEN NoPara ELSE origin[para'[p].parent]
        <4>1. Live(p) /\ para'[p].parent = para[p].parent /\ InSpec(p, c) /\ p \in Rows(c)
          BY <1>0, <1>6, <3>2 DEF TocFollowsCopies, InSpec, Rows
        <4>2. /\ InSpec(origin[p], toc[c].of)
              /\ para[origin[p]].parent =
                    IF para[p].parent = NoPara THEN NoPara ELSE origin[para[p].parent]
          BY <2>0, <3>2, <4>1 DEF KeepsShape
        <4>3. origin[p] \in Paras /\ Live(origin[p]) /\ para[origin[p]].spec = toc[c].of
          BY <1>0, <3>2, <4>2 DEF InSpec
        <4>4. toc'[c].of = toc[c].of
          <5>1. Rows(c) # {}
            BY <4>1
          <5> QED
            BY <1>1, <2>0, <5>1 DEF TocKept
        <4> QED
          BY <1>6, <4>1, <4>2, <4>3, <4>4
      <3> QED
        BY <3>1, <3>2
    <2>2. CASE c # s
      BY <1>0, <1>1, <1>2, <2>0, <2>2, ShapeStays
    <2> QED
      BY <2>1, <2>2
  <1>10. ReferencesFollowToc'
    <2>1. ReferencesFollowToc /\ TargetsAreOwn /\ refs \subseteq RefRow /\ packaged \subseteq Copies
      BY <1>0 DEF TablesInv, ProjectTypes, ReferencesFollowToc
    <2> QED
      BY <1>1, <2>1, RefsKept
  <1> QED
    BY <1>1, <1>2, <1>3, <1>7, <1>8, <1>9, <1>10 DEF TablesInv

LEMMA ImportKeepsTables ==
    ASSUME TablesInv, NEW m \in Masters, NEW doc \in Documents, Import(m, doc)
    PROVE  TablesInv'
  <1>0. /\ TypeOK /\ RowsClosed /\ TocFollowsCopies /\ ProjectTypes
        /\ para \in [Paras -> ParaRow \cup {NoRow}] /\ spec \in [Specs -> SpecRow]
        /\ toc \in [Copies -> TocRow \cup {NoCopy}]
        /\ origin \in [Paras -> Paras \cup {NoPara}]
        /\ m \in Specs /\ \A c \in Copies : c \in Specs /\ c \notin Masters /\ c # m
        /\ \A x \in Specs : spec[x].contentVersion \in Nat
    BY MastersAssumption DEF TablesInv, ProjectTypes, TypeOK, Copies, SpecRow
  <1>1. /\ UNCHANGED <<toc, refs, packaged>>
        /\ \A p \in Paras : origin'[p] = IF origin[p] # NoPara /\ InSpec(origin[p], m)
                                         THEN NoPara ELSE origin[p]
        /\ origin' \in [Paras -> Paras \cup {NoPara}]
    BY <1>0 DEF Import
  <1>2. /\ TypeOK' /\ RowsClosed' /\ OnlyIn(m) /\ Grows(m)
    BY <1>0, ImportFrame DEF Import
  <1>3. ProjectTypes'
    BY <1>0, <1>1, <1>2 DEF ProjectTypes, InToc
  <1>4. \A x \in Specs : spec[x].contentVersion <= spec'[x].contentVersion
    <2>1. \A x \in Specs \ {m} : spec'[x] = spec[x]
      BY <1>2 DEF OnlyIn
    <2> QED
      BY <1>0, <1>2, <2>1 DEF Grows
  <1>5. \A c \in Copies : InToc(c) => toc[c] \in TocRow /\ toc[c].of \in Specs
    BY <1>0, MastersAssumption DEF InToc, TocRow
  <1>6. \A c \in Copies : /\ spec'[c] = spec[c]
                          /\ Rows(c)' = Rows(c)
                          /\ \A p \in Rows(c) : para'[p] = para[p]
    BY <1>0, <1>2, OthersStand
  <1>7. TocFollowsCopies'
    <2>1. ASSUME NEW c \in Copies, InToc(c)
          PROVE  Exists(c)' /\ toc[c].originVersion <= spec'[toc[c].of].contentVersion
      <3>1. /\ Exists(c) /\ toc[c].originVersion <= spec[toc[c].of].contentVersion
            /\ toc[c].originVersion \in Nat
        BY <1>0, <1>5, <2>1 DEF TocFollowsCopies, TocRow
      <3>2. spec'[toc[c].of].contentVersion \in Nat
        BY <1>2, <1>5, <2>1 DEF TypeOK, SpecRow
      <3> QED
        BY <1>0, <1>4, <1>5, <1>6, <2>1, <3>1, <3>2 DEF Exists
    <2>2. \A c \in Copies : Rows(c)' # {} => InToc(c)
      BY <1>0, <1>6 DEF TocFollowsCopies
    <2>3. ASSUME NEW p \in Paras, origin'[p] # NoPara
          PROVE  para'[p] # NoRow /\ para'[p].spec \in Copies
      <3>1. Live(p) /\ para[p].spec \in Copies
        BY <1>0, <1>1, <2>3 DEF TocFollowsCopies
      <3>2. para'[p] = para[p]
        BY <1>0, <1>2, <3>1 DEF OnlyIn, Live
      <3> QED
        BY <3>1, <3>2 DEF Live
    <2>4. /\ \A c \in Copies : Number(c)' = Number(c)
          /\ \A c, d \in Copies : InToc(c) /\ InToc(d) /\ Number(c) = Number(d) => c = d
          /\ \A c \in Copies : InToc(c) => Number(c) \in toc[c].carried
      BY <1>0, <1>6 DEF TocFollowsCopies, Number
    <2> QED
      BY <1>1, <2>1, <2>2, <2>3, <2>4 DEF TocFollowsCopies, InToc, Live
  <1>8. ASSUME NEW c \in Copies
        PROVE  /\ DriftShows(c) /\ KeepsShape(c) /\ (Rows(c) # {} => InToc(c))
               /\ InToc(c) => toc[c].originVersion <= spec[toc[c].of].contentVersion
               /\ m \in Specs \ {c} /\ toc'[c] = toc[c]
    BY <1>0, <1>1 DEF TablesInv, TocFollowsCopies
  <1>9. ASSUME NEW c \in Copies  PROVE DriftShows(c)'
    <2>1. ASSUME InToc(c), toc[c].of # m, NEW p \in Rows(c)  PROVE origin'[p] = origin[p]
      <3>1. p \in Paras /\ (origin[p] # NoPara => InSpec(origin[p], toc[c].of))
        BY <1>8, <2>1 DEF KeepsShape, Rows
      <3> QED
        BY <1>1, <2>1, <3>1 DEF InSpec
    <2> QED
      BY <1>0, <1>2, <1>8, <2>1, DriftStays
  <1>10. ASSUME NEW c \in Copies  PROVE KeepsShape(c)'
    <2>1. \A p \in Rows(c) : origin'[p] = IF origin[p] # NoPara /\ InSpec(origin[p], m)
                                          THEN NoPara ELSE origin[p]
      BY <1>1 DEF Rows
    <2> QED
      BY <1>0, <1>2, <1>8, <2>1, ShapeStays
  <1>11. ReferencesFollowToc'
    BY <1>1 DEF TablesInv, ReferencesFollowToc, TargetsAreOwn, BrokenMeansAbsent, InToc
  <1>12. Named'
    <2>1. spec'[m] = Bumped(Retitled(spec[m], doc.title)) /\ spec[m] \in SpecRow
      BY <1>0 DEF Import, PersistParsedSpec
    <2>2. spec'[m].title = doc.title /\ doc.title \in Titles
      BY <2>1, DocumentsAssumption DEF Bumped, Retitled, SpecRow
    <2>3. \A x \in Specs \ {m} : spec'[x] = spec[x]
      BY <1>2 DEF OnlyIn
    <2> QED
      BY <2>2, <2>3 DEF TablesInv, Named, Exists
  <1> QED
    BY <1>2, <1>3, <1>7, <1>9, <1>10, <1>11, <1>12 DEF TablesInv

(* Calls go on while others write: what they hold stays as good as it was.  *)
LEMMA OpenRow ==
    ASSUME CallsInv, NEW r \in Requests
    PROVE  /\ add[r] \in CallRow \cup ClosedRow
           /\ r \in Open <=> add[r] \in CallRow
           /\ r \in Open => Fine(add[r]) /\ add[r].of \in Specs /\ add[r].of \in Masters
           /\ add[r] \in ClosedRow => add[r].phase \notin CallPhases
  <1>1. add[r] \in CallRow \cup ClosedRow
    BY DEF CallsInv
  <1>2. add[r] \in CallRow => add[r].phase \in CallPhases /\ add[r].of \in Masters
    BY DEF CallRow
  <1>3. add[r] \in ClosedRow => add[r].phase \notin CallPhases
    BY DEF ClosedRow, CallPhases, Holding
  <1>4. r \in Open <=> add[r].phase \in CallPhases
    BY DEF Open, CallPhases
  <1> QED
    BY <1>1, <1>2, <1>3, <1>4, MastersAssumption DEF CallsInv

LEMMA CitedStays ==
    ASSUME NEW t \in CallRow, Cited(t), TocKept, TargetsAreOwn, refs \subseteq RefRow, refs' = refs
    PROVE  Cited(t)'
  <1>1. ASSUME NEW e \in t.refs  PROVE RefHolds(e, t)'
    <2>1. RefHolds(e, t)
      BY DEF Cited
    <2>2. ASSUME NEW c \in Copies, e.broken, InToc(c)', toc'[c].carried = {e.cites}
          PROVE  Met(t, toc'[c], e)
      <3>1. InToc(c) /\ toc[c].carried = {e.cites} /\ toc'[c].met = toc[c].met
        BY <2>2 DEF TocKept
      <3> QED
        BY <2>1, <2>2, <3>1 DEF RefHolds, Met
    <2>3. e.target \in Copies /\ InToc(e.target) /\ e.cites \in toc[e.target].carried
             => InToc(e.target)' /\ e.cites \in toc'[e.target].carried
      BY DEF TocKept
    <2> QED
      BY <2>1, <2>2, <2>3 DEF RefHolds, Carries, Clones, Met
  <1>2. ASSUME t.phase = "listed", NEW e \in refs, e.broken, Carries(t) = {e.cites}
        PROVE  e \in t.repaired \/ Met(toc'[e.source], t, e) \/ e.lapsed
    <2>1. e \in t.repaired \/ Met(toc[e.source], t, e) \/ e.lapsed
      BY <1>2 DEF Cited
    <2>2. InToc(e.source) /\ e.source \in Copies
      BY <1>2 DEF TargetsAreOwn, RefRow
    <2>3. toc'[e.source].met = toc[e.source].met /\ toc'[e.source].asked = toc[e.source].asked
      BY <2>2 DEF TocKept
    <2> QED
      BY <2>1, <2>3 DEF Met
  <1>3. \A e \in t.repaired : WillRepair(e, t)
    BY DEF Cited
  <1> QED
    BY <1>1, <1>2, <1>3 DEF Cited, WillRepair, Carries, Clones, Met

LEMMA CallsGoOn ==
    ASSUME ProjectTypes, CallsInv, NEW s \in Specs, OnlyIn(s), UNCHANGED <<refs, add>>,
           TargetsAreOwn, TocKept,
           \A r \in Open : add[r].phase \in Holding => CopyOf(Clones(add[r]))' = {},
           \A p \in Paras : para[p] = NoRow /\ para'[p] # NoRow => p > drawn,
           drawn <= drawn', drawn \in Nat, drawn' \in Nat,
           \A r \in Open : add[r].of = s =>
              /\ Grows(s)
              /\ add[r].phase \in {"cloned", "cited", "listed"} => KeepsPlaces(s)
    PROVE  CallsInv'
  <1>0. spec \in [Specs -> SpecRow]
    BY DEF ProjectTypes, TypeOK
  <1>1. Open' = Open
    BY DEF Open
  <1>2. ASSUME NEW r \in Open, NEW t, t = add[r]  PROVE Fine(t)'
    <2>1. r \in Requests /\ t \in CallRow /\ Fine(t)
      BY <1>2, OpenRow DEF Open
    <2>2. t.of = s => /\ Grows(s)
                      /\ t.phase \in {"cloned", "cited", "listed"} => KeepsPlaces(s)
      BY <1>2
    <2>3. Current(t)'
      BY <1>0, <2>1, <2>2, CurrentStays DEF Fine
    <2>4. \A p \in DOMAIN t.rows : ~Live(p) => para'[p] = NoRow
      <3>1. t.phase \in CallPhases /\ DOMAIN t.rows \subseteq Paras
        BY <2>1 DEF CallRow, CloneRows
      <3>2. CASE t.phase \in {"cloned", "cited", "listed"}
        <4>1. \A p \in DOMAIN t.rows : p \in 1..drawn
          BY <2>1, <3>2 DEF Fine, Cloned, RowsFollow
        <4>2. \A p \in DOMAIN t.rows : ~(p > drawn)
          BY <4>1
        <4> QED
          BY <3>1, <4>2 DEF Live
      <3>3. CASE t.phase \notin {"cloned", "cited", "listed"}
        BY <2>1, <3>1, <3>3 DEF Fine, Early, CallPhases, Holding
      <3> QED
        BY <3>2, <3>3
    <2>5. Cloned(t)'
      BY <1>0, <2>1, <2>2, <2>4, ClonedStays DEF Fine
    <2>6. Reserves(t)'
      <3>1. t.phase \in Holding => CopyOf(Clones(t))' = {}
        BY <1>2
      <3> QED
        BY <2>1, <3>1 DEF Fine, Reserves, TocKept, Clones
    <2>7. Cited(t)'
      BY <2>1, CitedStays DEF Fine, ProjectTypes
    <2> QED
      BY <2>1, <2>3, <2>5, <2>6, <2>7 DEF Fine, Early
  <1> QED
    BY <1>1, <1>2 DEF CallsInv

-----------------------------------------------------------------------------
(* addSectionToProject, up to its COMMIT: only the call's own row changes,  *)
(* and the ids that are drawn.                                              *)
TablesStand ==
    /\ UNCHANGED <<spec, para, hist, sealed, toc, origin, refs, packaged>>
    /\ drawn' \in 0..MaxParas /\ drawn <= drawn'

LEMMA TablesKept ==
    ASSUME TablesInv, TablesStand
    PROVE  TablesInv'
  <1>1. TypeOK'
    <2>1. TypeOK /\ drawn \in Nat /\ Paras \subseteq Nat
      BY DEF TablesInv, ProjectTypes, TypeOK, Paras
    <2>2. \A p \in Paras : p > drawn' => p > drawn
      BY <2>1, SizesAssumption DEF TablesStand
    <2> QED
      BY <2>1, <2>2 DEF TypeOK, TablesStand
  <1>2. ProjectTypes'
    BY <1>1 DEF TablesInv, ProjectTypes, TablesStand, InToc
  <1>3. Named' /\ RowsClosed' /\ TocFollowsCopies'
    BY DEF TablesInv, TablesStand, Named, RowsClosed, TocFollowsCopies, InToc, Exists, Rows, InSpec,
       Live, Number
  <1>4. ASSUME NEW c \in Copies  PROVE DriftShows(c)' /\ KeepsShape(c)'
    <2>1. DriftShows(c) /\ KeepsShape(c)
      BY DEF TablesInv
    <2>2. Copied' = Copied
      BY DEF TablesStand, Copied, Live
    <2>3. DriftShows(c)'
      BY <2>1, <2>2 DEF TablesStand, DriftShows, Clean, InToc, Mirrors, Rows, InSpec, Live
    <2>4. KeepsShape(c)'
      BY <2>1 DEF TablesStand, KeepsShape, Rows, InSpec, Live
    <2> QED
      BY <2>3, <2>4
  <1>5. ReferencesFollowToc'
    BY DEF TablesInv, TablesStand, ReferencesFollowToc, TargetsAreOwn, BrokenMeansAbsent, InToc
  <1> QED
    BY <1>2, <1>3, <1>4, <1>5 DEF TablesInv

(* A call that something is true of keeps it while the tables stand.        *)
LEMMA FineStands ==
    ASSUME TablesInv, TablesStand, NEW t, Fine(t)
    PROVE  Fine(t)'
  <1>1. Current(t)' /\ Reserves(t)' /\ Early(t)' /\ Cited(t)'
    BY DEF TablesStand, Fine, Current, Reserves, Early, Cited, RefHolds, InToc, CopyOf, Number,
       Exists, Carries, Clones, Met, WillRepair
  <1>2. drawn \in Nat /\ drawn' \in Nat /\ drawn <= drawn'
    BY DEF TablesInv, ProjectTypes, TypeOK, TablesStand
  <1>3. \A p \in 1..drawn : p \in 1..drawn'
    BY <1>2
  <1>4. RowsFollow(t) => RowsFollow(t)'
    BY <1>3 DEF TablesStand, RowsFollow, InSpec, Live
  <1>5. RowsMirror(t) => RowsMirror(t)'
    BY DEF TablesStand, RowsMirror, Rows, InSpec, Live
  <1>6. Cloned(t)'
    BY <1>4, <1>5 DEF TablesStand, Fine, Cloned
  <1> QED
    BY <1>1, <1>6 DEF Fine

LEMMA CallMoves ==
    ASSUME ProjectInv, TablesStand, NEW r \in Requests, NEW n \in CallRow \cup ClosedRow,
           add' = [add EXCEPT ![r] = n],
           n \in CallRow => /\ Fine(n)'
                            /\ \A q \in Open \ {r} : Apart(n, add[q]) /\ Apart(add[q], n)
    PROVE  ProjectInv'
  <1>0. TablesInv /\ CallsInv
    BY DEF ProjectInv
  <1>1. TablesInv'
    BY <1>0, TablesKept
  <1>2. /\ add' \in [Requests -> CallRow \cup ClosedRow]
        /\ add'[r] = n /\ \A q \in Requests \ {r} : add'[q] = add[q]
    BY <1>0 DEF CallsInv
  <1>3. /\ n \notin CallRow => r \notin Open'
        /\ \A q \in Requests \ {r} : q \in Open' <=> q \in Open
    <2>1. n \notin CallRow => n.phase \notin CallPhases
      BY DEF ClosedRow, CallPhases, Holding
    <2> QED
      BY <1>2, <2>1 DEF Open, CallPhases
  <1>4. Open' \subseteq Requests
    BY DEF Open
  <1>5. ASSUME NEW q \in Open'  PROVE Fine(add[q])'
    <2>1. CASE q = r
      BY <1>2, <1>3, <1>5, <2>1
    <2>2. CASE q # r
      <3>1. PICK t : t = add[q]
        OBVIOUS
      <3>2. Fine(t) /\ add'[q] = t
        BY <1>0, <1>2, <1>3, <1>4, <1>5, <2>2, <3>1 DEF CallsInv
      <3>3. Fine(t)'
        BY <1>0, <3>2, FineStands
      <3> QED
        BY <3>2, <3>3
    <2> QED
      BY <2>1, <2>2
  <1>6. ASSUME NEW p \in Open', NEW q \in Open', p # q  PROVE Apart(add'[p], add'[q])
    <2>1. CASE p = r
      BY <1>2, <1>3, <1>4, <1>6, <2>1
    <2>2. CASE q = r
      BY <1>2, <1>3, <1>4, <1>6, <2>2
    <2>3. CASE p # r /\ q # r
      BY <1>0, <1>2, <1>3, <1>4, <1>6, <2>3 DEF CallsInv
    <2> QED
      BY <2>1, <2>2, <2>3
  <1>7. CallsInv'
    BY <1>2, <1>5, <1>6 DEF CallsInv, Apart
  <1> QED
    BY <1>1, <1>7 DEF ProjectInv

(* What an open call is, and what the others are to it.                     *)
LEMMA CallAt ==
    ASSUME ProjectInv, NEW r \in Open
    PROVE  /\ add[r] \in CallRow /\ Fine(add[r]) /\ r \in Requests
           /\ \A q \in Open \ {r} : /\ Apart(add[r], add[q]) /\ Apart(add[q], add[r])
                                    /\ add[q] \in CallRow
  <1>1. CallsInv /\ Open \subseteq Requests
    BY DEF ProjectInv, Open
  <1>2. \A q \in Open : add[q] \in CallRow
    BY <1>1, OpenRow
  <1> QED
    BY <1>1, <1>2 DEF CallsInv

LEMMA WriterStep ==
    ASSUME ProjectInv, NEW s \in Specs, Touches(s)
    PROVE  ProjectInv'
  <1>0. /\ TablesInv /\ CallsInv /\ ProjectTypes /\ TypeOK /\ RowsClosed
        /\ TargetsAreOwn /\ \A c \in Copies : c \in Specs /\ c \notin Masters
    BY DEF ProjectInv, TablesInv, ProjectTypes, ReferencesFollowToc, Copies
  <1>1. TablesInv'
    BY <1>0, WriterKeepsTables
  <1>2. /\ OnlyIn(s) /\ Grows(s) /\ KeepsPlaces(s) /\ NewRowsAreYoung(s)
        /\ drawn <= drawn' /\ drawn \in Nat /\ drawn' \in Nat
    BY <1>0, WriterFrame
  <1>3. UNCHANGED <<refs, add>> /\ TocKept
    BY <1>0, WriterToc
  <1>4. ASSUME NEW r \in Open, add[r].phase \in Holding  PROVE CopyOf(Clones(add[r]))' = {}
    <2>1. PICK t : t = add[r]
      OBVIOUS
    <2>2. t \in CallRow /\ CopyOf(Clones(t)) = {} /\ r \in Holders
      BY <1>4, <2>1, CallAt DEF Fine, Reserves, Holders
    <2>3. ASSUME NEW c \in Copies, InToc(c)  PROVE Number(c)' # Clones(t)
      <3>1. Number(c) # Clones(t)
        BY <2>2, <2>3 DEF CopyOf
      <3>2. spec'[c].title = spec[c].title => Number(c)' = Number(c)
        BY DEF Number
      <3>3. c # s => spec'[c].title = spec[c].title
        BY <1>0, <1>2 DEF OnlyIn
      <3>4. ASSUME NEW title \in Titles, Rename(s, title), c = s  PROVE Number(c)' # Clones(t)
        <4>1. ~Taken(s, NumberOf[title]) /\ UpdateSpec(s, title)
          BY <3>4 DEF Rename
        <4>2. Number(c)' = NumberOf[title]
          BY <1>0, <3>4, <4>1, TitleWritten DEF Number, TypeOK
        <4>3. Clones(add[r]) # NumberOf[title]
          BY <1>0, <2>2, <3>4, <4>1 DEF Taken
        <4> QED
          BY <2>1, <4>2, <4>3
      <3>5. Writer(s) => spec'[s].title = spec[s].title
        BY <1>0, TitleStays
      <3> QED
        BY <3>1, <3>2, <3>3, <3>4, <3>5 DEF Touches
    <2>4. \A c \in Copies : InToc(c)' <=> InToc(c)
      BY <1>3 DEF TocKept
    <2>5. add'[r] = t
      BY <1>3, <2>1
    <2> QED
      BY <2>1, <2>3, <2>4, <2>5 DEF CopyOf, Clones
  <1>5. CallsInv'
    BY <1>0, <1>2, <1>3, <1>4, CallsGoOn DEF NewRowsAreYoung
  <1> QED
    BY <1>1, <1>5 DEF ProjectInv

LEMMA ImportStep ==
    ASSUME ProjectInv, NEW m \in Masters, NEW doc \in Documents, Import(m, doc)
    PROVE  ProjectInv'
  <1>0. /\ TablesInv /\ CallsInv /\ ProjectTypes /\ TypeOK /\ RowsClosed
        /\ UNCHANGED <<toc, refs, add>> /\ m \in Specs /\ PersistParsedSpec(m, doc)
        /\ TargetsAreOwn /\ \A c \in Copies : c \in Specs /\ c \notin Masters
        /\ \A c \in Copies : InToc(c) => Number(c) \in toc[c].carried
    BY MastersAssumption DEF ProjectInv, TablesInv, ProjectTypes, ReferencesFollowToc, Import, Copies,
       TocFollowsCopies
  <1>1. TablesInv'
    BY <1>0, ImportKeepsTables
  <1>2. /\ OnlyIn(m) /\ Grows(m)
        /\ \A p \in Paras : para[p] = NoRow /\ para'[p] # NoRow => p > drawn
        /\ drawn <= drawn' /\ drawn \in Nat /\ drawn' \in Nat
    BY <1>0, ImportFrame
  <1>3. \A r \in Open : add[r].of = m => add[r].phase \notin {"cloned", "cited", "listed"}
    BY DEF Import, Holding, Open
  <1>4. \A c \in Copies : Number(c)' = Number(c) /\ (InToc(c)' <=> InToc(c))
    BY <1>0, <1>2 DEF OnlyIn, Number, InToc
  <1>5. TocKept
    BY <1>0, <1>4 DEF TocKept, InToc
  <1>6. ASSUME NEW r \in Open, add[r].phase \in Holding  PROVE CopyOf(Clones(add[r]))' = {}
    <2>1. CopyOf(Clones(add[r])) = {}
      BY <1>6, CallAt DEF Fine, Reserves
    <2> QED
      BY <1>0, <1>4, <2>1 DEF CopyOf, Clones
  <1>7. CallsInv'
    BY <1>0, <1>2, <1>3, <1>5, <1>6, CallsGoOn
  <1> QED
    BY <1>1, <1>7 DEF ProjectInv

(* ROLLBACK gives everything up.                                            *)
LEMMA FailedStep ==
    ASSUME ProjectInv, NEW r \in Requests, Failed(r)
    PROVE  ProjectInv'
  <1>1. PICK n : n = [phase |-> "failed"]
    OBVIOUS
  <1>2. n \in ClosedRow /\ n \notin CallRow
    <2>1. n \in ClosedRow
      BY <1>1 DEF ClosedRow
    <2>2. n.phase \notin CallPhases
      BY <1>1 DEF CallPhases, Holding
    <2> QED
      BY <2>1, <2>2 DEF CallRow
  <1>3. add' = [add EXCEPT ![r] = n] /\ TablesStand
    BY <1>1 DEF Failed, TablesStand, vars, ProjectInv, TablesInv, ProjectTypes, TypeOK
  <1> QED
    BY <1>2, <1>3, CallMoves

LEMMA ReadMasterStep ==
    ASSUME ProjectInv, NEW r \in Requests, ReadMaster(r)
    PROVE  ProjectInv'
  <1>0. /\ r \in Open /\ add \in [Requests -> CallRow \cup ClosedRow]
        /\ spec \in [Specs -> SpecRow] /\ TablesInv /\ Named
    BY DEF ReadMaster, Open, ProjectInv, CallsInv, TablesInv, ProjectTypes, TypeOK
  <1>1. PICK t : t = add[r]
    OBVIOUS
  <1>2. t \in CallRow /\ Fine(t) /\ t.phase = "resolved"
    BY <1>0, <1>1, CallAt DEF ReadMaster
  <1>3. /\ t.of \in Specs /\ spec[t.of].title \in Titles
        /\ spec[t.of].contentVersion \in Nat /\ Exists(t.of)
    BY <1>0, <1>2, MastersAssumption DEF CallRow, Fine, Current, Named, SpecRow
  <1>4. PICK n : n = [t EXCEPT !.phase = "reading", !.title = spec[t.of].title,
                               !.version = spec[t.of].contentVersion]
    OBVIOUS
  <1>5. add' = [add EXCEPT ![r] = n] /\ UNCHANGED <<vars, toc, origin, refs, packaged>>
    BY <1>0, <1>1, <1>4 DEF ReadMaster
  <1>6. /\ n \in CallRow /\ n.phase = "reading" /\ n.of = t.of /\ n.met = t.met
        /\ n.asked = t.asked /\ n.id = t.id /\ n.rows = t.rows
        /\ n.title = spec[t.of].title /\ n.version = spec[t.of].contentVersion
        /\ n.refs = t.refs /\ n.repaired = t.repaired
    <2>1. "reading" \in CallPhases
      BY DEF CallPhases
    <2> QED
      BY <1>2, <1>3, <1>4, <2>1 DEF CallRow
  <1>7. n.refs = {} /\ n.repaired = {} /\ DOMAIN n.rows = {} /\ n.phase \notin Holding
    BY <1>2, <1>6 DEF Fine, Early, Holding
  <1>8. Fine(n)
    BY <1>3, <1>6, <1>7 DEF Fine, Current, Reserves, Early, Cloned, Cited
  <1>9. TablesStand
    BY <1>5 DEF TablesStand, vars, ProjectInv, TablesInv, ProjectTypes, TypeOK
  <1>10. Fine(n)'
    BY <1>0, <1>8, <1>9, FineStands
  <1>11. \A q \in Open \ {r} : Apart(n, add[q]) /\ Apart(add[q], n)
    <2>1. \A q \in Open \ {r} : Apart(t, add[q]) /\ Apart(add[q], t)
      BY <1>0, <1>1, CallAt
    <2> QED
      BY <1>6, <1>7, <2>1 DEF Apart
  <1> QED
    BY <1>5, <1>6, <1>9, <1>10, <1>11, CallMoves

LEMMA CloneSpecRowStep ==
    ASSUME ProjectInv, NEW r \in Requests, CloneSpecRow(r)
    PROVE  ProjectInv'
  <1>0. r \in Open /\ add[r].phase = "reading"
    BY DEF CloneSpecRow, Open
  <1>1. CASE Failed(r)
    BY <1>1, FailedStep
  <1>2. CASE ~Failed(r)
    <2>1. PICK t : t = add[r]
      OBVIOUS
    <2>2. t \in CallRow /\ Fine(t) /\ t.phase = "reading" /\ CopyOf(Clones(t)) = {}
      BY <1>0, <1>2, <2>1, CallAt DEF CloneSpecRow
    <2>3. PICK c \in Copies :
             /\ ~InToc(c) /\ \A o \in Holders : add[o].id # c
             /\ add' = [add EXCEPT ![r].phase = "held", ![r].id = c]
             /\ UNCHANGED <<vars, toc, origin, refs, packaged>>
      BY <1>2 DEF CloneSpecRow
    <2>4. PICK n : n = [t EXCEPT !.phase = "held", !.id = c]
      OBVIOUS
    <2>5. /\ add' = [add EXCEPT ![r] = n]
          /\ n \in CallRow /\ n.phase = "held" /\ n.id = c /\ n.of = t.of /\ n.met = t.met
          /\ n.asked = t.asked /\ n.title = t.title /\ n.version = t.version /\ n.rows = t.rows
          /\ n.refs = t.refs /\ n.repaired = t.repaired
      <3>1. "held" \in CallPhases
        BY DEF CallPhases, Holding
      <3>2. add \in [Requests -> CallRow \cup ClosedRow]
        BY DEF ProjectInv, CallsInv
      <3>3. add' = [add EXCEPT ![r] = n]
        BY <2>1, <2>3, <2>4, <3>2
      <3> QED
        BY <2>2, <2>4, <3>1, <3>3 DEF CallRow
    <2>6. TablesStand
      BY <2>3 DEF TablesStand, vars, ProjectInv, TablesInv, ProjectTypes, TypeOK
    <2>7. n.refs = {} /\ n.repaired = {} /\ DOMAIN n.rows = {}
      BY <2>2, <2>5 DEF Fine, Early
    <2>8. Fine(n)
      BY <2>2, <2>3, <2>5, <2>7 DEF Fine, Current, Reserves, Early, Cloned, Cited, Clones
    <2>9. \A q \in Open \ {r} : Apart(n, add[q]) /\ Apart(add[q], n)
      <3> SUFFICES ASSUME NEW q \in Open \ {r}, NEW u, u = add[q]
                   PROVE  Apart(n, u) /\ Apart(u, n)
        OBVIOUS
      <3>1. Apart(t, u) /\ Apart(u, t)
        BY <1>0, <2>1, CallAt
      <3>2. u.phase \in Holding => q \in Holders
        BY DEF Holders, Open
      <3>3. u.phase \in Holding => u.id # c /\ Clones(u) # Clones(n)
        BY <2>1, <2>3, <2>5, <3>2 DEF CloneSpecRow, Clones
      <3> QED
        BY <2>5, <2>7, <3>1, <3>3 DEF Apart
    <2> QED
      <3>1. TablesInv
        BY DEF ProjectInv
      <3>2. Fine(n)'
        BY <2>6, <2>8, <3>1, FineStands
      <3> QED
        BY <2>5, <2>6, <2>9, <3>2, CallMoves
  <1> QED
    BY <1>1, <1>2

(* To have met more calls excuses more.                                     *)
LEMMA MeetsMore ==
    ASSUME NEW t \in CallRow, Fine(t), NEW k \in Numbers,
           NEW u, u = [t EXCEPT !.met = @ \cup {k}]
    PROVE  /\ u \in CallRow /\ Fine(u) /\ u.met = t.met \cup {k}
           /\ u.asked = t.asked /\ Clones(u) = Clones(t)
           /\ u.of = t.of /\ u.phase = t.phase /\ u.id = t.id /\ u.rows = t.rows
  <1>1. /\ u \in CallRow /\ u.met = t.met \cup {k}
        /\ u.asked = t.asked /\ Clones(u) = Clones(t)
           /\ u.of = t.of /\ u.phase = t.phase /\ u.id = t.id /\ u.rows = t.rows
        /\ u.title = t.title /\ u.version = t.version
        /\ u.refs = t.refs /\ u.repaired = t.repaired
    BY DEF CallRow, Clones
  <1>2. \A d, e : /\ Met(t, d, e) => Met(u, d, e)
                  /\ Met(d, t, e) => Met(d, u, e)
    BY <1>1 DEF Met
  <1>3. \A e : RefHolds(e, t) => RefHolds(e, u)
    BY <1>1, <1>2 DEF RefHolds, Carries
  <1>4. Cited(u)
    BY <1>1, <1>2, <1>3 DEF Fine, Cited, WillRepair, Carries
  <1>5. RowsFollow(t) => RowsFollow(u)
    BY <1>1 DEF RowsFollow
  <1>6. RowsMirror(t) => RowsMirror(u)
    BY <1>1 DEF RowsMirror
  <1>7. Cloned(u)
    BY <1>1, <1>5, <1>6 DEF Fine, Cloned
  <1>8. Current(u) /\ Reserves(u) /\ Early(u)
    BY <1>1 DEF Fine, Current, Reserves, Early
  <1> QED
    BY <1>1, <1>4, <1>7, <1>8 DEF Fine

LEMMA StartAddStep ==
    ASSUME ProjectInv, NEW r \in Requests, NEW m \in Masters, StartAdd(r, m)
    PROVE  ProjectInv'
  <1>0. /\ TablesInv /\ CallsInv /\ TablesStand /\ m \in Specs
        /\ add[r] = Idle /\ r \notin Open
        /\ spec \in [Specs -> SpecRow] /\ Exists(m) /\ Number(m) \in Numbers
    <2>1. Idle.phase \notin {"resolved", "reading"} \cup Holding
      BY DEF Idle, Holding
    <2> QED
      BY <2>1, MastersAssumption, NumbersAssumption DEF ProjectInv, StartAdd, TablesStand, vars,
         TablesInv, ProjectTypes, TypeOK, Open, Named, Number
  <1>1. PICK n : n = [phase |-> "resolved", asked |-> Number(m), of |-> m,
                      met |-> {add[o].asked : o \in Open}, title |-> NoText, version |-> 0,
                      id |-> NoSpec, rows |-> <<>>, refs |-> {}, repaired |-> {},
                      position |-> 0]
    OBVIOUS
  <1>2. n \in CallRow
    <2>1. <<>> \in CloneRows
      <3>1. <<>> \in [{} -> CloneRow]
        BY SMT
      <3> QED
        BY <3>1 DEF CloneRows
    <2>2. {add[o].asked : o \in Open} \in SUBSET Numbers
      <3>1. \A o \in Open : add[o] \in CallRow
        BY CallAt
      <3> QED
        BY <3>1 DEF CallRow
    <2>3. "resolved" \in CallPhases
      BY DEF CallPhases
    <2> QED
      BY <1>0, <1>1, <2>1, <2>2, <2>3 DEF CallRow
  <1>3. Fine(n)
    <2>1. DOMAIN n.rows = {}
      BY <1>1, SMT
    <2>2. n.phase = "resolved" /\ n.phase \notin Holding /\ n.refs = {} /\ n.repaired = {}
      BY <1>1 DEF Holding
    <2>3. Current(n)
      BY <1>0, <1>1 DEF Current, SpecRow, Exists
    <2> QED
      BY <2>1, <2>2, <2>3 DEF Fine, Reserves, Early, Cloned, Cited
  <1>4. /\ add'[r] = n /\ DOMAIN add' = Requests
        /\ \A q \in Open : add'[q] = [add[q] EXCEPT !.met = @ \cup {Number(m)}]
        /\ \A q \in Requests \ {r} : q \notin Open => add'[q] = add[q]
    BY <1>0, <1>1 DEF StartAdd, Open
  <1>5. ASSUME NEW q \in Open, NEW t, t = add[q], NEW u, u = add'[q]
        PROVE  /\ u \in CallRow /\ Fine(u) /\ u.met = t.met \cup {Number(m)}
               /\ u.asked = t.asked /\ Clones(u) = Clones(t)
               /\ u.of = t.of /\ u.phase = t.phase /\ u.id = t.id /\ u.rows = t.rows
    <2>1. t \in CallRow /\ Fine(t) /\ u = [t EXCEPT !.met = @ \cup {Number(m)}]
      BY <1>4, <1>5, CallAt
    <2> QED
      BY <1>0, <2>1, MeetsMore
  <1>6. \A q \in Requests : q \in Open' <=> q \in Open \/ q = r
    <2>1. n.phase \in CallPhases
      BY <1>2 DEF CallRow
    <2>2. \A q \in Open : add'[q].phase = add[q].phase
      BY <1>5
    <2> QED
      BY <1>4, <2>1, <2>2 DEF Open, CallPhases
  <1>7. add' \in [Requests -> CallRow \cup ClosedRow]
    <2>1. \A q \in Requests : add'[q] \in CallRow \cup ClosedRow
      BY <1>0, <1>2, <1>4, <1>5 DEF CallsInv
    <2>2. add' = [q \in Requests |-> add'[q]]
      BY DEF StartAdd
    <2> QED
      BY <2>1, <2>2
  <1>8. \A q \in Open' : Fine(add[q])'
    <2> SUFFICES ASSUME NEW q \in Open', NEW u, u = add'[q]  PROVE Fine(u)'
      OBVIOUS
    <2>1. q \in Requests
      BY DEF Open
    <2>2. Fine(u)
      BY <1>3, <1>4, <1>5, <1>6, <2>1
    <2> QED
      BY <1>0, <2>2, FineStands
  <1>9. ASSUME NEW q \in Open  PROVE Apart(n, add'[q]) /\ Apart(add'[q], n)
    <2>1. PICK t : t = add[q]
      OBVIOUS
    <2>2. PICK u : u = add'[q]
      OBVIOUS
    <2>3. u.met = t.met \cup {Number(m)} /\ u.asked = t.asked
      BY <1>5, <2>1, <2>2
    <2>4. n.phase \notin Holding /\ DOMAIN n.rows = {} /\ n.asked = Number(m) /\ t.asked \in n.met
      <3>1. DOMAIN n.rows = {}
        BY <1>1, SMT
      <3> QED
        BY <1>1, <2>1, <3>1 DEF Holding
    <2> QED
      BY <2>2, <2>3, <2>4 DEF Apart
  <1>10. ASSUME NEW p \in Open, NEW q \in Open, p # q  PROVE Apart(add'[p], add'[q])
    <2>1. PICK t, w : t = add[p] /\ w = add[q]
      OBVIOUS
    <2>2. PICK u, v : u = add'[p] /\ v = add'[q]
      OBVIOUS
    <2>3. Apart(t, w)
      BY <1>0, <1>10, <2>1 DEF CallsInv
    <2>4. /\ u.met = t.met \cup {Number(m)} /\ Clones(u) = Clones(t)
          /\ u.phase = t.phase /\ u.id = t.id /\ u.rows = t.rows
          /\ v.asked = w.asked /\ Clones(v) = Clones(w) /\ v.phase = w.phase /\ v.id = w.id /\ v.rows = w.rows
      BY <1>5, <2>1, <2>2
    <2> QED
      BY <2>2, <2>3, <2>4 DEF Apart
  <1>11. \A p, q \in Open' : p # q => Apart(add'[p], add'[q])
    <2>1. Open' \subseteq Requests
      BY DEF Open
    <2> QED
      BY <1>4, <1>6, <1>9, <1>10, <2>1
  <1>12. CallsInv'
    BY <1>7, <1>8, <1>11 DEF CallsInv, Apart
  <1>13. TablesInv'
    BY <1>0, TablesKept
  <1> QED
    BY <1>12, <1>13 DEF ProjectInv

(* Ids drawn in order: numbering the elements of a set of numbers from where*)
(* the last id was leaves no gap and gives none twice.                      *)
Numbering(first, S) == [q \in S |-> first + Cardinality({x \in S : x <= q})]
NumbersOf(first, S) == {Numbering(first, S)[q] : q \in S}
LEMMA DrawnInOrder ==
    ASSUME NEW bound \in Nat, NEW S \in SUBSET (1..bound), NEW first \in Nat
    PROVE  /\ Cardinality(NumbersOf(first, S)) \in Nat
           /\ NumbersOf(first, S) \subseteq first + 1 .. first + Cardinality(NumbersOf(first, S))
           /\ \A q, w \in S : Numbering(first, S)[q] = Numbering(first, S)[w] => q = w
  <1>a. PICK id : id = Numbering(first, S)
    OBVIOUS
  <1>b. PICK ids : ids = NumbersOf(first, S)
    OBVIOUS
  <1>0. id = [q \in S |-> first + Cardinality({x \in S : x <= q})] /\ ids = {id[q] : q \in S}
    BY <1>a, <1>b DEF Numbering, NumbersOf
  <1>1. IsFiniteSet(S) /\ Cardinality(S) \in Nat
    <2>1. S \in SUBSET Nat /\ \A q \in S : q <= bound
      OBVIOUS
    <2> QED
      BY <2>1, FS_BoundedSetOfNaturals, FS_CardinalityType
  <1> DEFINE UpTo(q) == {x \in S : x <= q}
  <1>2. ASSUME NEW q \in S
        PROVE  /\ UpTo(q) \in SUBSET S /\ IsFiniteSet(UpTo(q))
               /\ Cardinality(UpTo(q)) \in 1..Cardinality(S)
    <2>1. UpTo(q) \in SUBSET S /\ q \in UpTo(q)
      OBVIOUS
    <2>2. IsFiniteSet(UpTo(q)) /\ Cardinality(UpTo(q)) <= Cardinality(S)
      BY <1>1, <2>1, FS_Subset
    <2>3. Cardinality(UpTo(q)) \in Nat /\ Cardinality(UpTo(q)) # 0
      BY <2>1, <2>2, FS_CardinalityType, FS_EmptySet
    <2> QED
      BY <1>1, <2>1, <2>2, <2>3
  <1>3. ASSUME NEW q \in S, NEW w \in S, q < w  PROVE id[q] # id[w]
    <2>0. \A x \in S : x \in Nat
      OBVIOUS
    <2>1. UpTo(q) \in SUBSET UpTo(w) /\ w \in UpTo(w) /\ w \notin UpTo(q)
      <3>1. /\ \A x \in S : x <= q => x <= w
            /\ w <= w /\ ~(w <= q)
        BY <1>3, <2>0
      <3> QED
        BY <3>1
    <2>2. Cardinality(UpTo(w)) # Cardinality(UpTo(q))
      BY <1>2, <2>1, FS_Subset
    <2>3. Cardinality(UpTo(w)) \in Nat /\ Cardinality(UpTo(q)) \in Nat
      BY <1>2, FS_CardinalityType
    <2>4. id[q] = first + Cardinality(UpTo(q)) /\ id[w] = first + Cardinality(UpTo(w))
      BY <1>0
    <2> HIDE DEF UpTo
    <2> QED
      BY <2>2, <2>3, <2>4
  <1>4. \A q, w \in S : id[q] = id[w] => q = w
    <2>1. \A q, w \in S : q # w => q < w \/ w < q
      OBVIOUS
    <2> QED
      BY <1>3, <2>1
  <1>5. Cardinality(ids) = Cardinality(S)
    <2>1. id \in Surjection(S, ids) /\ id \in Injection(S, ids)
      BY <1>0, <1>4 DEF Surjection, Injection, IsInjective
    <2> QED
      BY <1>1, <2>1, FS_Surjection
  <1>6. \A q \in S : id[q] \in first + 1 .. first + Cardinality(S)
    <2> SUFFICES ASSUME NEW q \in S  PROVE id[q] \in first + 1 .. first + Cardinality(S)
      OBVIOUS
    <2>1. PICK k : k = Cardinality(UpTo(q))
      OBVIOUS
    <2>2. k \in 1..Cardinality(S) /\ id[q] = first + k
      BY <1>0, <1>2, <2>1
    <2> QED
      BY <1>1, <2>2
  <1>7. PICK count : count = Cardinality(S)
    OBVIOUS
  <1>8. ids \subseteq first + 1 .. first + count
    BY <1>0, <1>6, <1>7
  <1> HIDE DEF UpTo
  <1> QED
    BY <1>1, <1>4, <1>5, <1>7, <1>8, <1>a, <1>b

(* The clone statement forgets what it forgets only once.                   *)
CloneOf(row, c, up) == [Uncaptured(row) EXCEPT !.spec = c, !.parent = up]
LEMMA ClonedRowIs ==
    ASSUME NEW c \in Copies, NEW row \in ParaRow, NEW up \in Paras \cup {NoPara},
           NEW clone, clone = CloneOf(row, c, up)
    PROVE  /\ clone \in ParaRow /\ clone.spec = c /\ clone.parent = up
           /\ Plainly(clone) = Plainly(row)
  <1>1. PICK plain : plain = Uncaptured(row)
    OBVIOUS
  <1>2. /\ plain \in ParaRow
        /\ plain.acknowledged = FALSE /\ plain.blob = NoText /\ plain.type \notin ObjectTypes \ {"table"}
        /\ "table" \in NodeTypes /\ FALSE \in Flag /\ "table" \in ObjectTypes
    <2>1. /\ "table" \in NodeTypes /\ FALSE \in Flag /\ "table" \in ObjectTypes
      BY DEF NodeTypes, ObjectTypes, Flag
    <2> QED
      BY <1>1, <2>1 DEF Uncaptured, ParaRow
  <1>3. clone = [plain EXCEPT !.spec = c, !.parent = up]
    BY <1>1 DEF CloneOf
  <1>4. clone \in ParaRow /\ clone.spec = c /\ clone.parent = up
    BY <1>2, <1>3 DEF ParaRow, Copies
  <1>5. Uncaptured(clone) = clone
    BY <1>2, <1>3 DEF Uncaptured, ParaRow
  <1>6. Plainly(clone) = [clone EXCEPT !.spec = NoSpec, !.parent = NoPara]
    BY <1>5 DEF Plainly
  <1>7. Plainly(row) = [plain EXCEPT !.spec = NoSpec, !.parent = NoPara]
    BY <1>1 DEF Plainly
  <1>8. [clone EXCEPT !.spec = NoSpec, !.parent = NoPara]
          = [plain EXCEPT !.spec = NoSpec, !.parent = NoPara]
    BY <1>2, <1>3 DEF ParaRow
  <1> QED
    BY <1>4, <1>6, <1>7, <1>8

LEMMA CloneParagraphsStep ==
    ASSUME ProjectInv, NEW r \in Requests, CloneParagraphs(r)
    PROVE  ProjectInv'
  <1>0. /\ r \in Open /\ TablesInv /\ TypeOK /\ RowsClosed
        /\ para \in [Paras -> ParaRow \cup {NoRow}] /\ drawn \in Nat /\ MaxParas \in Nat
        /\ drawn <= MaxParas /\ add \in [Requests -> CallRow \cup ClosedRow]
        /\ \A p \in Paras : p > drawn => para[p] = NoRow
    BY SizesAssumption DEF CloneParagraphs, Open, Holding, ProjectInv, TablesInv, ProjectTypes,
       TypeOK, CallsInv
  <1>1. PICK t : t = add[r]
    OBVIOUS
  <1>2. t \in CallRow /\ Fine(t) /\ t.phase = "held" /\ t.id \in Copies
    <2>1. t \in CallRow /\ Fine(t) /\ t.phase = "held"
      BY <1>0, <1>1, CallAt DEF CloneParagraphs
    <2> QED
      BY <2>1 DEF Fine, Reserves, Holding
  <1>3. PICK m : m = t.of
    OBVIOUS
  <1>4. PICK own : own = Rows(m)
    OBVIOUS
  <1>5. PICK id : id = Numbering(drawn, own)
    OBVIOUS
  <1>6. PICK ids : ids = NumbersOf(drawn, own)
    OBVIOUS
  <1>7. own \in SUBSET (1..MaxParas) /\ \A q \in own : q \in Paras /\ Live(q) /\ para[q] \in ParaRow
                                                       /\ para[q].spec = m
    BY <1>0, <1>4 DEF Rows, InSpec, Live, Paras
  <1>8. /\ Cardinality(ids) \in Nat
        /\ ids \subseteq drawn + 1 .. drawn + Cardinality(ids)
        /\ \A q, w \in own : id[q] = id[w] => q = w
    <2>1. MaxParas \in Nat /\ drawn \in Nat /\ own \in SUBSET (1..MaxParas)
      BY <1>0, <1>7
    <2> QED
      BY <1>5, <1>6, <2>1, DrawnInOrder
  <1>9. /\ \A q \in own : q # NoPara /\ NewId(m, q) = id[q] /\ id[q] \in ids
        /\ NewId(m, NoPara) = NoPara
    <2>1. \A q \in own : q # NoPara
      BY <1>7 DEF NoPara, Paras
    <2> QED
      BY <1>4, <1>5, <1>6, <2>1 DEF NewId, Numbering, NumbersOf
  <1>10. ids = {NewId(m, q) : q \in Rows(m)}
    BY <1>4, <1>5, <1>6, <1>9 DEF NumbersOf
  <1>11. PICK source : source = [p \in ids |-> CHOOSE q \in Rows(m) : NewId(m, q) = p]
    OBVIOUS
  <1>12. /\ \A p \in ids : source[p] \in own /\ id[source[p]] = p
         /\ \A q \in own : source[id[q]] = q
    <2>1. ASSUME NEW p \in ids  PROVE source[p] \in own /\ id[source[p]] = p
      <3>1. \E q \in Rows(m) : NewId(m, q) = p
        BY <1>10
      <3>2. source[p] \in Rows(m) /\ NewId(m, source[p]) = p
        BY <1>11, <3>1
      <3> QED
        BY <1>4, <1>9, <3>2
    <2> QED
      BY <1>8, <1>9, <2>1
  <1>13. PICK rows : rows = [p \in ids |-> [row |-> ClonedRow(t.id, m, source[p]),
                                            origin |-> source[p]]]
    OBVIOUS
  <1>14. PICK n : n = [t EXCEPT !.phase = "cloned", !.rows = rows]
    OBVIOUS
  <1>15. /\ add' = [add EXCEPT ![r] = n]
         /\ drawn' = drawn + Cardinality(ids) /\ drawn + Cardinality(ids) <= MaxParas
         /\ UNCHANGED <<spec, para, hist, sealed, toc, origin, refs, packaged>>
    <2>1. add' = [add EXCEPT ![r].phase = "cloned", ![r].rows = rows]
      BY <1>1, <1>3, <1>10, <1>11, <1>13 DEF CloneParagraphs
    <2>2. add' = [add EXCEPT ![r] = n]
      BY <1>0, <1>1, <1>14, <2>1
    <2> QED
      BY <1>1, <1>3, <1>10, <2>2 DEF CloneParagraphs
  <1>16. TablesStand
    BY <1>0, <1>8, <1>15 DEF TablesStand
  <1>17. \A p \in ids : /\ p \in Paras /\ p > drawn /\ ~(p \in 1..drawn) /\ p \in 1..drawn'
                        /\ ~Live(p)
    <2> SUFFICES ASSUME NEW p \in ids
                 PROVE  p \in Paras /\ p > drawn /\ ~(p \in 1..drawn) /\ p \in 1..drawn' /\ ~Live(p)
      OBVIOUS
    <2>1. p \in drawn + 1 .. drawn + Cardinality(ids)
      BY <1>8
    <2>2. p \in Paras /\ p > drawn /\ ~(p \in 1..drawn) /\ p \in 1..drawn'
      BY <1>0, <1>8, <1>15, <2>1 DEF Paras
    <2> QED
      BY <1>0, <2>2 DEF Live
  <1>18. ASSUME NEW p \in ids
         PROVE  /\ rows[p].row \in ParaRow /\ rows[p].row.spec = t.id
                /\ rows[p].origin = source[p]
                /\ LET up == para[source[p]].parent
                   IN IF rows[p].row.parent = NoPara THEN up = NoPara
                      ELSE rows[p].row.parent \in ids /\ up = source[rows[p].row.parent]
                /\ Plainly(rows[p].row) = Plainly(para[source[p]])
    <2>1. PICK q : q = source[p]
      OBVIOUS
    <2>2. q \in own /\ q \in Paras /\ para[q] \in ParaRow /\ para[q].spec = m /\ Live(q)
      BY <1>7, <1>12, <2>1
    <2>3. PICK up : up = para[q].parent
      OBVIOUS
    <2>4. up = NoPara \/ up \in own
      <3>1. up = NoPara \/ (up \in Paras /\ InSpec(up, m))
        BY <1>0, <2>2, <2>3 DEF RowsClosed, ParaRow
      <3> QED
        BY <1>4, <3>1 DEF Rows
    <2>5. PICK new : new = NewId(m, up)
      OBVIOUS
    <2>6. \/ up = NoPara /\ new = NoPara
          \/ /\ up \in own /\ new = id[up] /\ new \in ids /\ new \in Paras /\ new # NoPara
             /\ source[new] = up
      <3>1. \A k \in ids : k \in Paras /\ k # NoPara
        BY <1>17 DEF NoPara, Paras
      <3> QED
        BY <1>9, <1>12, <2>4, <2>5, <3>1
    <2>7. /\ rows[p].origin = q
          /\ rows[p].row = CloneOf(para[q], t.id, new)
      BY <1>13, <2>1, <2>3, <2>5 DEF ClonedRow, CloneOf
    <2>8. /\ rows[p].row \in ParaRow /\ rows[p].row.spec = t.id /\ rows[p].row.parent = new
          /\ Plainly(rows[p].row) = Plainly(para[q])
      <3>1. t.id \in Copies /\ new \in Paras \cup {NoPara}
        BY <1>2, <2>6
      <3> QED
        BY <2>2, <2>7, <3>1, ClonedRowIs
    <2> QED
      BY <2>1, <2>3, <2>6, <2>7, <2>8
  <1>19. rows \in CloneRows /\ DOMAIN rows = ids
    <2>1. \A p \in ids : rows[p] \in CloneRow
      <3> SUFFICES ASSUME NEW p \in ids  PROVE rows[p] \in CloneRow
        OBVIOUS
      <3>1. rows[p].row \in ParaRow /\ source[p] \in Paras
        BY <1>7, <1>12, <1>18
      <3> QED
        BY <1>13, <3>1 DEF CloneRow
    <2>2. rows \in [ids -> CloneRow] /\ ids \in SUBSET Paras
      BY <1>13, <1>17, <2>1
    <2> QED
      BY <2>2 DEF CloneRows
  <1>20. /\ n \in CallRow /\ n.phase = "cloned" /\ n.rows = rows
         /\ n.of = t.of /\ n.id = t.id /\ n.met = t.met /\ n.asked = t.asked
         /\ n.title = t.title /\ Clones(n) = Clones(t)
         /\ n.version = t.version /\ n.refs = t.refs /\ n.repaired = t.repaired
    <2>1. "cloned" \in CallPhases
      BY DEF CallPhases, Holding
    <2> QED
      BY <1>2, <1>14, <1>19, <2>1 DEF CallRow, Clones
  <1>21. Fine(n)'
    <2>1. TablesStand /\ Fine(t)'
      BY <1>0, <1>2, <1>16, FineStands
    <2>2. Current(n)' /\ Reserves(n)' /\ n.refs = {} /\ n.repaired = {}
      BY <1>2, <1>20, <2>1 DEF Fine, Current, Reserves, Early, Holding, CopyOf, InToc, Exists,
         Clones, Number
    <2>3. Early(n) /\ Cited(n)'
      BY <1>20, <2>2 DEF Early, Cited
    <2>4. RowsFollow(n)'
      <3> SUFFICES ASSUME NEW p \in ids
                   PROVE  LET row == rows[p].row
                              up == para[rows[p].origin].parent
                          IN  /\ p \in 1..drawn' /\ ~Live(p)
                              /\ row.spec = t.id
                              /\ InSpec(rows[p].origin, m)
                              /\ IF row.parent = NoPara THEN up = NoPara
                                 ELSE row.parent \in ids /\ up = rows[row.parent].origin
        BY <1>3, <1>15, <1>19, <1>20 DEF RowsFollow, InSpec, Live
      <3>1. \A k \in ids : rows[k].origin = source[k]
        BY <1>18
      <3>2. InSpec(source[p], m)
        BY <1>7, <1>12 DEF InSpec
      <3> QED
        BY <1>17, <1>18, <3>1, <3>2
    <2>5. RowsMirror(n)'
      <3>1. {rows[p].origin : p \in ids} = own
        <4>1. \A p \in ids : rows[p].origin = source[p] /\ source[p] \in own
          BY <1>12, <1>18
        <4>2. \A q \in own : id[q] \in ids /\ rows[id[q]].origin = q
          BY <1>9, <1>12, <1>18
        <4> QED
          BY <4>1, <4>2
      <3>2. \A p, q \in ids : rows[p].origin = rows[q].origin => p = q
        BY <1>12, <1>18
      <3>3. \A p \in ids : Plainly(rows[p].row) = Plainly(para[rows[p].origin])
        BY <1>18
      <3>4. Rows(m)' = own
        BY <1>4, <1>15 DEF Rows, InSpec, Live
      <3> QED
        BY <1>3, <1>15, <1>19, <1>20, <3>1, <3>2, <3>3, <3>4 DEF RowsMirror
    <2> QED
      BY <2>2, <2>3, <2>4, <2>5 DEF Fine, Cloned, Early
  <1>22. \A q \in Open \ {r} : Apart(n, add[q]) /\ Apart(add[q], n)
    <2> SUFFICES ASSUME NEW q \in Open \ {r}, NEW u, u = add[q]
                 PROVE  Apart(n, u) /\ Apart(u, n)
      OBVIOUS
    <2>1. Apart(t, u) /\ Apart(u, t) /\ u \in CallRow /\ Fine(u)
      BY <1>0, <1>1, CallAt
    <2>2. t.phase \in Holding
      BY <1>2 DEF Holding
    <2>3. \A p \in DOMAIN u.rows : p \in 1..drawn
      <3>1. u.phase \in CallPhases
        BY <2>1 DEF CallRow
      <3> QED
        BY <2>1, <3>1 DEF Fine, Early, Cloned, RowsFollow, CallPhases, Holding
    <2>4. ids \cap DOMAIN u.rows = {}
      BY <1>17, <2>3
    <2> QED
      BY <1>19, <1>20, <2>1, <2>2, <2>4 DEF Apart
  <1> QED
    BY <1>15, <1>16, <1>20, <1>21, <1>22, CallMoves

LEMMA CloneRefsStep ==
    ASSUME ProjectInv, NEW r \in Requests, CloneRefs(r)
    PROVE  ProjectInv'
  <1>0. /\ r \in Open /\ TablesInv /\ add \in [Requests -> CallRow \cup ClosedRow]
        /\ \A c \in Copies : c \in Specs /\ c # NoSpec
    BY NoSpecAssumption DEF CloneRefs, Open, Holding, ProjectInv, CallsInv, Copies
  <1>1. PICK t : t = add[r]
    OBVIOUS
  <1>2. t \in CallRow /\ Fine(t) /\ t.phase = "cloned" /\ t.id \in Copies /\ t.of \in Masters
    <2>1. t \in CallRow /\ Fine(t) /\ t.phase = "cloned"
      BY <1>0, <1>1, CallAt DEF CloneRefs
    <2> QED
      BY <2>1 DEF Fine, Reserves, Holding, CallRow
  <1>3. PICK cited : cited = {ClonedRef(r, x) : x \in Cites[t.of]}
    OBVIOUS
  <1>4. PICK n : n = [t EXCEPT !.phase = "cited", !.refs = cited]
    OBVIOUS
  <1>5. ASSUME NEW e \in cited  PROVE e \in RefRow /\ RefHolds(e, t)
    <2>1. PICK x \in Cites[t.of] : e = ClonedRef(r, x)
      BY <1>3
    <2>2. PICK found : found = CopyOf(x) \cup (IF x = Clones(t) THEN {t.id} ELSE {})
      OBVIOUS
    <2>3. PICK target : target = CHOOSE c \in found : TRUE
      OBVIOUS
    <2>4. /\ e.source = t.id /\ e.cites = x /\ e.broken = (found = {})
          /\ e.target = IF found = {} THEN NoSpec ELSE target
          /\ e.lapsed = FALSE
          /\ e = [source |-> e.source, cites |-> e.cites, broken |-> e.broken,
                  lapsed |-> e.lapsed, target |-> e.target]
      BY <1>1, <2>1, <2>2, <2>3 DEF ClonedRef
    <2>5. x \in Numbers
      BY <1>2, CitesAssumption
    <2>6. found # {} => target \in found
      BY <2>3
    <2>7. target \in found => target \in Copies
      BY <1>2, <2>2 DEF CopyOf
    <2>8. e \in RefRow
      <3>1. e.broken \in Flag /\ e.lapsed \in Flag
        BY <2>4 DEF Flag
      <3>2. e.target \in Copies \cup {NoSpec}
        BY <1>0, <2>4, <2>6, <2>7
      <3> QED
        BY <1>2, <2>4, <2>5, <3>1, <3>2 DEF RefRow
    <2>9. CASE found = {}
      <3>1. e.broken /\ e.target = NoSpec /\ e.source = t.id /\ e.cites = x
        BY <2>4, <2>9
      <3>2. x # Clones(t) /\ \A c \in Copies : InToc(c) => Number(c) # x
        BY <2>2, <2>9 DEF CopyOf
      <3>3. \A c \in Copies : InToc(c) => toc[c].carried # {x}
        BY <1>0, <3>2 DEF TablesInv, TocFollowsCopies
      <3> QED
        BY <2>8, <3>1, <3>2, <3>3 DEF RefHolds
    <2>10. CASE found # {}
      <3>1. /\ ~e.broken /\ e.target = target /\ target \in found /\ target # NoSpec
            /\ target \in Copies /\ e.source = t.id /\ e.cites = x
        BY <1>0, <2>4, <2>6, <2>7, <2>10
      <3>2. \/ target = t.id /\ x = Clones(t)
            \/ InToc(target) /\ Number(target) = x
        BY <2>2, <3>1 DEF CopyOf
      <3>3. InToc(target) => Number(target) \in toc[target].carried
        BY <1>0, <3>1 DEF TablesInv, TocFollowsCopies
      <3> QED
        BY <2>8, <3>1, <3>2, <3>3 DEF RefHolds, Carries
    <2> QED
      BY <2>8, <2>9, <2>10
  <1>6. add' = [add EXCEPT ![r] = n]
    <2>1. add' = [add EXCEPT ![r].phase = "cited", ![r].refs = cited]
      BY <1>1, <1>3 DEF CloneRefs
    <2> QED
      BY <1>0, <1>1, <1>4, <2>1
  <1>7. /\ n \in CallRow /\ n.phase = "cited" /\ n.rows = t.rows
        /\ n.of = t.of /\ n.id = t.id /\ n.met = t.met /\ n.asked = t.asked
        /\ n.title = t.title /\ Clones(n) = Clones(t)
        /\ n.version = t.version /\ n.refs = cited /\ n.repaired = t.repaired
    <2>1. "cited" \in CallPhases
      BY DEF CallPhases, Holding
    <2> QED
      BY <1>2, <1>4, <1>5, <2>1 DEF CallRow, Clones
  <1>8. Fine(n)
    <2>1. Current(n) /\ Reserves(n) /\ n.repaired = {}
      BY <1>2, <1>7 DEF Fine, Current, Reserves, Early, Holding
    <2>2. RowsFollow(n) /\ (n.version = spec[n.of].contentVersion => RowsMirror(n))
      BY <1>2, <1>7 DEF Fine, Cloned, RowsFollow, RowsMirror
    <2>3. \A e \in n.refs : RefHolds(e, n)
      BY <1>5, <1>7 DEF RefHolds, Met, Carries
    <2> QED
      BY <1>7, <2>1, <2>2, <2>3 DEF Fine, Early, Cloned, Cited
  <1>9. TablesStand
    BY DEF CloneRefs, TablesStand, vars, ProjectInv, TablesInv, ProjectTypes, TypeOK
  <1>10. Fine(n)'
    BY <1>0, <1>8, <1>9, FineStands
  <1>11. \A q \in Open \ {r} : Apart(n, add[q]) /\ Apart(add[q], n)
    <2>1. \A q \in Open \ {r} : Apart(t, add[q]) /\ Apart(add[q], t)
      BY <1>0, <1>1, CallAt
    <2>2. t.phase \in Holding
      BY <1>2 DEF Holding
    <2> QED
      BY <1>7, <2>1, <2>2 DEF Apart
  <1> QED
    BY <1>6, <1>7, <1>9, <1>10, <1>11, CallMoves

(* The position after the last is a position.                               *)
LEMMA NextPositionIs ==
    ASSUME ProjectTypes
    PROVE  NextPosition \in Nat
  <1>1. PICK S : S = {0} \cup {toc[c].position : c \in {x \in Copies : InToc(x)}}
    OBVIOUS
  <1>2. PICK bound \in Nat : \A c \in Copies : InToc(c) => toc[c].position <= bound
    BY DEF ProjectTypes
  <1>3. \A c \in Copies : InToc(c) => toc[c].position \in Nat
    BY DEF ProjectTypes, InToc, TocRow
  <1>4. S \in SUBSET Nat /\ S # {} /\ \A k \in S : k <= bound
    BY <1>1, <1>2, <1>3
  <1>5. \E k \in S : \A j \in S : j <= k
    BY <1>2, <1>4, GreatestOf
  <1>6. \E k \in S : \A j \in S : k >= j
    BY <1>4, <1>5
  <1>7. Max(S) \in Nat
    BY <1>4, <1>6 DEF Max
  <1> QED
    BY <1>1, <1>7 DEF NextPosition

LEMMA InsertTocEntryStep ==
    ASSUME ProjectInv, NEW r \in Requests, InsertTocEntry(r)
    PROVE  ProjectInv'
  <1>0. /\ r \in Open /\ TablesInv /\ add \in [Requests -> CallRow \cup ClosedRow]
        /\ refs \subseteq RefRow /\ TargetsAreOwn /\ NextPosition \in Nat
    BY NextPositionIs DEF InsertTocEntry, Open, Holding, ProjectInv, CallsInv, TablesInv, ProjectTypes,
       ReferencesFollowToc
  <1>1. CASE Failed(r)
    BY <1>1, FailedStep
  <1>2. CASE ~Failed(r)
    <2>1. PICK t : t = add[r]
      OBVIOUS
    <2>2. t \in CallRow /\ Fine(t) /\ t.phase = "cited"
      BY <1>0, <2>1, CallAt DEF InsertTocEntry
    <2>3. PICK n : n = [t EXCEPT !.phase = "listed", !.position = NextPosition,
                                 !.repaired = Waiting(t.asked)]
      OBVIOUS
    <2>4. add' = [add EXCEPT ![r] = n] /\ UNCHANGED <<vars, toc, origin, refs, packaged>>
      <3>1. add' = [add EXCEPT ![r].phase = "listed", ![r].position = NextPosition,
                               ![r].repaired = Waiting(t.asked)]
        BY <1>2, <2>1 DEF InsertTocEntry
      <3> QED
        BY <1>0, <1>2, <2>1, <2>3, <3>1 DEF InsertTocEntry
    <2>5. /\ n \in CallRow /\ n.phase = "listed" /\ n.rows = t.rows
          /\ n.of = t.of /\ n.id = t.id /\ n.met = t.met /\ n.asked = t.asked
          /\ n.title = t.title /\ Clones(n) = Clones(t)
          /\ n.version = t.version /\ n.refs = t.refs /\ n.repaired = Waiting(t.asked)
      <3>1. "listed" \in CallPhases
        BY DEF CallPhases, Holding
      <3>2. Waiting(t.asked) \in SUBSET RefRow
        BY <1>0 DEF Waiting
      <3> QED
        BY <1>0, <2>2, <2>3, <3>1, <3>2 DEF CallRow, Clones
    <2>6. Fine(n)
      <3>1. Current(n) /\ Reserves(n)
        BY <2>2, <2>5 DEF Fine, Current, Reserves, Holding
      <3>2. RowsFollow(n) /\ (n.version = spec[n.of].contentVersion => RowsMirror(n))
        BY <2>2, <2>5 DEF Fine, Cloned, RowsFollow, RowsMirror
      <3>3. \A e \in n.refs : RefHolds(e, n)
        BY <2>2, <2>5 DEF Fine, Cited, RefHolds, Met, Carries
      <3>4. \A e \in n.repaired : WillRepair(e, n)
        BY <1>0, <2>5 DEF Waiting, WillRepair, TargetsAreOwn
      <3>5. \A e \in refs : e.broken /\ Carries(n) = {e.cites} => e \in n.repaired
        BY <2>5 DEF Waiting, Carries
      <3>6. Cited(n)
        BY <3>3, <3>4, <3>5 DEF Cited
      <3> QED
        BY <2>5, <3>1, <3>2, <3>6 DEF Fine, Early, Cloned
    <2>7. TablesStand
      BY <2>4 DEF TablesStand, vars, ProjectInv, TablesInv, ProjectTypes, TypeOK
    <2>8. Fine(n)'
      BY <1>0, <2>6, <2>7, FineStands
    <2>9. \A q \in Open \ {r} : Apart(n, add[q]) /\ Apart(add[q], n)
      <3>1. \A q \in Open \ {r} : Apart(t, add[q]) /\ Apart(add[q], t)
        BY <1>0, <2>1, CallAt
      <3>2. t.phase \in Holding
        BY <2>2 DEF Holding
      <3> QED
        BY <2>5, <3>1, <3>2 DEF Apart
    <2> QED
      BY <2>4, <2>5, <2>7, <2>8, <2>9, CallMoves
  <1> QED
    BY <1>1, <1>2

-----------------------------------------------------------------------------
(* COMMIT: what the call holds becomes the project's. *)

(* What it holds when it commits,                                           *)
InHand(t) ==
    /\ t \in CallRow /\ t.phase = "listed" /\ Fine(t)
    /\ t.id \in Copies /\ t.id \in Specs /\ t.id # NoSpec
    /\ t.of \in Masters /\ t.of \in Specs /\ t.of # t.id
    /\ t.title \in Titles /\ t.asked \in Numbers
    /\ ~InToc(t.id) /\ CopyOf(Clones(t)) = {} /\ Rows(t.id) = {}
    /\ RowsFollow(t)
    /\ \A p \in DOMAIN t.rows :
          /\ p \in Paras /\ p \in 1..drawn /\ ~Live(p)
          /\ t.rows[p].row \in ParaRow /\ t.rows[p].row # NoRow
          /\ t.rows[p].row.spec = t.id /\ t.rows[p].origin \in Paras

(* and what it writes.                                                      *)
Commits(t) ==
    /\ \A p \in Paras :
          /\ p \in DOMAIN t.rows => para'[p] = t.rows[p].row /\ origin'[p] = t.rows[p].origin
          /\ p \notin DOMAIN t.rows => para'[p] = para[p] /\ origin'[p] = origin[p]
    /\ toc'[t.id] \in TocRow /\ toc'[t.id] # NoCopy
    /\ toc'[t.id].of = t.of /\ toc'[t.id].originVersion = t.version
    /\ toc'[t.id].position = t.position /\ toc'[t.id].met = t.met
    /\ toc'[t.id].asked = t.asked /\ toc'[t.id].carried = Carries(t)
    /\ toc' \in [Copies -> TocRow \cup {NoCopy}]
    /\ \A d \in Copies \ {t.id} : toc'[d] = toc[d]
    /\ \A d \in Copies : InToc(d)' <=> InToc(d) \/ d = t.id
    /\ Number(t.id)' = Clones(t) /\ \A d \in Copies \ {t.id} : Number(d)' = Number(d)
    /\ spec'[t.id].title = t.title /\ spec'[t.id].contentVersion = 1
    /\ spec' \in [Specs -> SpecRow]
    /\ OnlyIn(t.id)

LEMMA CommitHolds ==
    ASSUME ProjectInv, NEW r \in Requests, CommitAdd(r), NEW t, t = add[r]
    PROVE  r \in Open /\ InHand(t)
  <1>1. r \in Open /\ t \in CallRow /\ t.phase = "listed" /\ Fine(t)
    <2>1. r \in Open
      BY DEF CommitAdd, Open, Holding
    <2> QED
      BY <2>1, CallAt DEF CommitAdd
  <1>2. t.id \in Copies /\ ~InToc(t.id) /\ CopyOf(Clones(t)) = {} /\ RowsFollow(t)
        /\ t.title \in Titles /\ t.asked \in Numbers
    BY <1>1 DEF Fine, Current, Reserves, Cloned, Holding, CallRow
  <1>3. t.of \in Masters /\ t.of \in Specs /\ t.of # t.id /\ t.id \in Specs /\ t.id # NoSpec
    BY <1>1, <1>2, MastersAssumption, NoSpecAssumption DEF CallRow, Copies
  <1>4. Rows(t.id) = {}
    BY <1>2 DEF ProjectInv, TablesInv, TocFollowsCopies
  <1>5. t.rows \in CloneRows
    BY <1>1 DEF CallRow
  <1>6. \A p \in DOMAIN t.rows :
           p \in Paras /\ t.rows[p].row \in ParaRow /\ t.rows[p].origin \in Paras
    BY <1>5 DEF CloneRows, CloneRow
  <1>7. \A p \in DOMAIN t.rows : p \in 1..drawn /\ ~Live(p) /\ t.rows[p].row.spec = t.id
    BY <1>2 DEF RowsFollow
  <1> QED
    BY <1>1, <1>2, <1>3, <1>4, <1>6, <1>7, NoRowAssumption DEF InHand

LEMMA CommitWrites ==
    ASSUME ProjectInv, NEW r \in Requests, CommitAdd(r), NEW t, t = add[r]
    PROVE  Commits(t)
  <1>0. /\ toc \in [Copies -> TocRow \cup {NoCopy}] /\ spec \in [Specs -> SpecRow]
        /\ t \in CallRow /\ t.id \in Copies /\ t.id \in Specs /\ t.of \in Masters
        /\ t.title \in Titles /\ t.asked \in Numbers /\ Carries(t) \subseteq Numbers
        /\ Rows(t.id) = {}
        /\ \A p \in DOMAIN t.rows : /\ p \in Paras /\ ~Live(p) /\ t.rows[p].row.spec = t.id
                                    /\ t.rows[p].row # NoRow
    <2>1. toc \in [Copies -> TocRow \cup {NoCopy}] /\ spec \in [Specs -> SpecRow]
      BY DEF ProjectInv, TablesInv, ProjectTypes, TypeOK
    <2>2. InHand(t)
      BY CommitHolds
    <2>3. t.asked \in Numbers /\ t.title \in Titles
      BY <2>2 DEF InHand
    <2>4. NumberOf[t.title] \in Numbers
      BY <2>3, NumbersAssumption
    <2>5. Carries(t) \subseteq Numbers
      BY <2>3, <2>4 DEF Carries, Clones
    <2> QED
      BY <2>1, <2>2, <2>3, <2>5 DEF InHand
  <1>1. PICK row : row = [of |-> t.of, originVersion |-> t.version,
                          position |-> t.position, asked |-> t.asked, met |-> t.met,
                          carried |-> Carries(t)]
    OBVIOUS
  <1>2. row \in TocRow /\ row # NoCopy
    BY <1>0, <1>1, NoCopyAssumption DEF TocRow, CallRow
  <1>3. toc' = [toc EXCEPT ![t.id] = row]
    BY <1>1 DEF CommitAdd, OriginVersion, Carries
  <1>4. /\ toc'[t.id] = row /\ \A d \in Copies \ {t.id} : toc'[d] = toc[d]
        /\ toc' \in [Copies -> TocRow \cup {NoCopy}]
    BY <1>0, <1>2, <1>3
  <1>5. PICK copy : copy = CopyRow(t)
    OBVIOUS
  <1>6. copy \in SpecRow /\ copy.title = t.title /\ copy.contentVersion = 1
    BY <1>0, <1>5 DEF CopyRow, SpecRow, CallRow, Lifecycles, ExternalStates
  <1>7. spec' = [spec EXCEPT ![t.id] = copy]
    BY <1>5 DEF CommitAdd
  <1>8. /\ spec'[t.id] = copy /\ \A x \in Specs \ {t.id} : spec'[x] = spec[x]
        /\ spec' \in [Specs -> SpecRow]
    BY <1>0, <1>6, <1>7
  <1>9. \A p \in Paras :
           /\ p \in DOMAIN t.rows => /\ para'[p] = t.rows[p].row
                                     /\ origin'[p] = t.rows[p].origin
           /\ p \notin DOMAIN t.rows => para'[p] = para[p] /\ origin'[p] = origin[p]
    BY DEF CommitAdd
  <1>10. OnlyIn(t.id)
    BY <1>0, <1>8, <1>9 DEF OnlyIn, Live
  <1>11. \A d \in Copies : InToc(d)' <=> InToc(d) \/ d = t.id
    BY <1>2, <1>4 DEF InToc
  <1>12. Number(t.id)' = Clones(t) /\ \A d \in Copies \ {t.id} : Number(d)' = Number(d)
    <2>1. \A d \in Copies : d \in Specs
      BY DEF Copies
    <2> QED
      BY <1>6, <1>8, <2>1 DEF Number, Clones
  <1> QED
    BY <1>1, <1>2, <1>4, <1>6, <1>8, <1>9, <1>10, <1>11, <1>12 DEF Commits

LEMMA CommitTyped ==
    ASSUME ProjectInv, NEW r \in Requests, CommitAdd(r), NEW t, t = add[r]
    PROVE  ProjectTypes' /\ Named' /\ RowsClosed' /\ TocFollowsCopies'
  <1> DEFINE ids == DOMAIN t.rows
  <1>1. InHand(t) /\ Commits(t)
    BY CommitHolds, CommitWrites
  <1>2. /\ ProjectTypes /\ TypeOK /\ Named /\ RowsClosed /\ TocFollowsCopies
        /\ toc \in [Copies -> TocRow \cup {NoCopy}] /\ spec \in [Specs -> SpecRow]
        /\ para \in [Paras -> ParaRow \cup {NoRow}] /\ drawn \in Nat
        /\ origin \in [Paras -> Paras \cup {NoPara}] /\ refs \subseteq RefRow
        /\ \A p \in Paras : p > drawn => para[p] = NoRow
        /\ \A p \in Paras : Live(p) => para[p] \in ParaRow
        /\ \A d \in Copies : d \in Specs /\ d \notin Masters
    BY DEF ProjectInv, TablesInv, ProjectTypes, TypeOK, Copies, Live
  <1>3. TypeOK'
    <2>1. spec' \in [Specs -> SpecRow]
      BY <1>1, <1>2 DEF InHand, Commits
    <2>2. para' \in [Paras -> ParaRow \cup {NoRow}]
      <3>1. \A p \in Paras : para'[p] \in ParaRow \cup {NoRow}
        BY <1>1, <1>2 DEF InHand, Commits
      <3>2. para' = [p \in Paras |-> para'[p]]
        BY DEF CommitAdd
      <3> QED
        BY <3>1, <3>2
    <2>3. \A p \in Paras : p > drawn => para'[p] = NoRow
      <3>1. \A p \in Paras : p > drawn => ~(p \in 1..drawn)
        BY <1>2 DEF Paras
      <3> QED
        BY <1>1, <1>2, <3>1 DEF InHand, Commits
    <2> QED
      BY <1>2, <2>1, <2>2, <2>3 DEF TypeOK, CommitAdd
  <1>4. origin' \in [Paras -> Paras \cup {NoPara}]
    <2>1. \A p \in Paras : origin'[p] \in Paras \cup {NoPara}
      BY <1>1, <1>2 DEF InHand, Commits
    <2>2. origin' = [p \in Paras |-> origin'[p]]
      BY DEF CommitAdd
    <2> QED
      BY <2>1, <2>2
  <1>5. refs' \subseteq RefRow
    <2>1. t.refs \subseteq RefRow
      BY <1>1 DEF InHand, CallRow
    <2>2. \A e \in t.repaired \cap refs : [e EXCEPT !.target = t.id, !.broken = FALSE] \in RefRow
      <3>1. FALSE \in Flag
        BY DEF Flag
      <3> QED
        BY <1>1, <1>2, <3>1 DEF InHand, RefRow
    <2>3. refs' = (refs \ (t.repaired \cap refs)) \cup t.refs
                     \cup {[e EXCEPT !.target = t.id, !.broken = FALSE] : e \in t.repaired \cap refs}
      BY DEF CommitAdd
    <2> QED
      BY <1>2, <2>1, <2>2, <2>3
  <1>6. ProjectTypes'
    <2>1. toc' \in [Copies -> TocRow \cup {NoCopy}]
      BY <1>1, <1>2 DEF InHand, Commits
    <2>2. PICK bound \in Nat : \A d \in Copies : InToc(d) => toc[d].position <= bound
      BY <1>2 DEF ProjectTypes
    <2>3. t.position \in Nat
      BY <1>1 DEF InHand, CallRow
    <2>4. \A d \in Copies : InToc(d) => toc[d].position \in Nat
      BY <1>2 DEF InToc, TocRow
    <2>5. \A d \in Copies : InToc(d)' => toc'[d].position <= bound + t.position
      BY <1>1, <2>2, <2>3, <2>4 DEF Commits
    <2>6. bound + t.position \in Nat
      BY <2>2, <2>3
    <2>7. packaged' \subseteq Copies
      BY <1>2 DEF CommitAdd, ProjectTypes
    <2> QED
      BY <1>3, <1>4, <1>5, <2>1, <2>5, <2>6, <2>7 DEF ProjectTypes
  <1>7. RowsClosed'
    <2> SUFFICES ASSUME NEW p \in Paras, para'[p] # NoRow
                 PROVE  \/ para'[p].parent = NoPara
                        \/ para'[para'[p].parent] # NoRow /\ para'[para'[p].parent].spec = para'[p].spec
      BY DEF RowsClosed, InSpec, Live
    <2>1. CASE p \in ids
      <3>1. t.rows[p].row.parent = NoPara \/ t.rows[p].row.parent \in ids
        BY <1>1, <2>1 DEF InHand, RowsFollow
      <3> QED
        BY <1>1, <2>1, <3>1 DEF InHand, Commits
    <2>2. CASE p \notin ids
      <3>1. para'[p] = para[p] /\ Live(p) /\ para[p] \in ParaRow
        BY <1>1, <1>2, <2>2 DEF Commits, Live
      <3>2. PICK up : up = para[p].parent
        OBVIOUS
      <3>3. up = NoPara \/ (up \in Paras /\ Live(up) /\ para[up].spec = para[p].spec)
        BY <1>2, <3>1, <3>2 DEF RowsClosed, InSpec, ParaRow
      <3>4. ASSUME up \in Paras, Live(up)  PROVE para'[up] = para[up]
        BY <1>1, <3>4 DEF InHand, Commits
      <3> QED
        BY <3>1, <3>2, <3>3, <3>4 DEF Live
    <2> QED
      BY <2>1, <2>2
  <1>8. TocFollowsCopies'
    <2>1. ASSUME NEW d \in Copies, InToc(d)'
          PROVE  /\ Exists(d)' /\ Number(d)' \in toc'[d].carried
                 /\ toc'[d].originVersion <= spec'[toc'[d].of].contentVersion
      <3>1. CASE d = t.id
        <4>1. Current(t) /\ spec'[t.of] = spec[t.of]
          BY <1>1, OthersStand DEF InHand, Commits, Fine
        <4> QED
          BY <1>1, <3>1, <4>1 DEF Commits, Current, Exists, Carries
      <3>2. CASE d # t.id
        <4>1. InToc(d) /\ toc'[d] = toc[d] /\ toc[d].of \in Masters
          BY <1>1, <1>2, <2>1, <3>2 DEF Commits, InToc, TocRow
        <4>2. /\ d \in Specs \ {t.id} /\ toc[d].of \in Specs \ {t.id}
          BY <1>1, <1>2, <3>2, <4>1, MastersAssumption DEF InHand
        <4>3. spec'[d] = spec[d] /\ spec'[toc[d].of] = spec[toc[d].of]
          BY <1>1, <4>2, OthersStand DEF InHand, Commits
        <4>4. Number(d)' = Number(d)
          BY <1>1, <3>2 DEF Commits
        <4> QED
          BY <1>2, <4>1, <4>3, <4>4 DEF TocFollowsCopies, Exists
      <3> QED
        BY <3>1, <3>2
    <2>2. ASSUME NEW d \in Copies, Rows(d)' # {}  PROVE InToc(d)'
      <3>1. CASE d = t.id
        BY <1>1, <3>1 DEF Commits
      <3>2. CASE d # t.id
        <4>1. Rows(d)' = Rows(d)
          BY <1>1, <1>2, <3>2, OthersStand DEF InHand, Commits
        <4> QED
          BY <1>1, <1>2, <2>2, <4>1 DEF Commits, TocFollowsCopies
      <3> QED
        BY <3>1, <3>2
    <2>3. ASSUME NEW p \in Paras, origin'[p] # NoPara
          PROVE  para'[p] # NoRow /\ para'[p].spec \in Copies
      <3>1. CASE p \in ids
        BY <1>1, <3>1 DEF InHand, Commits
      <3>2. CASE p \notin ids
        BY <1>1, <1>2, <2>3, <3>2 DEF Commits, TocFollowsCopies, Live
      <3> QED
        BY <3>1, <3>2
    <2>4. \A d \in Copies : InToc(d) => Number(d) # Clones(t)
      BY <1>1 DEF InHand, CopyOf
    <2>5. \A c, d \in Copies : InToc(c)' /\ InToc(d)' /\ Number(c)' = Number(d)' => c = d
      BY <1>1, <1>2, <2>4 DEF Commits, TocFollowsCopies
    <2> QED
      BY <2>1, <2>2, <2>3, <2>5 DEF TocFollowsCopies, Live
  <1>9. Named'
    <2>1. \A x \in Specs \ {t.id} : spec'[x] = spec[x]
      BY <1>1 DEF Commits, OnlyIn
    <2>2. spec'[t.id].title \in Titles
      BY <1>1 DEF Commits, InHand
    <2> QED
      BY <1>2, <2>1, <2>2 DEF Named, Exists
  <1> QED
    BY <1>6, <1>7, <1>8, <1>9

LEMMA CommitShows ==
    ASSUME TablesInv, NEW t, InHand(t), Commits(t), NEW d \in Copies
    PROVE  DriftShows(d)' /\ KeepsShape(d)'
  <1> DEFINE ids == DOMAIN t.rows
             c == t.id
             m == t.of
  <1>1. /\ toc \in [Copies -> TocRow \cup {NoCopy}] /\ spec \in [Specs -> SpecRow]
        /\ para \in [Paras -> ParaRow \cup {NoRow}]
        /\ origin \in [Paras -> Paras \cup {NoPara}] /\ TocFollowsCopies
        /\ DriftShows(d) /\ KeepsShape(d) /\ (Rows(d) # {} => InToc(d))
        /\ d \in Specs /\ d \notin Masters /\ c \in Specs
    BY DEF TablesInv, ProjectTypes, TypeOK, TocFollowsCopies, Copies, InHand
  <1>2. CASE d # c
    <2>1. toc'[d] = toc[d] /\ \A p \in Rows(d) : origin'[p] = origin[p]
      BY <1>2 DEF InHand, Commits, Rows, InSpec
    <2>2. InToc(d) => /\ toc[d].of # c
                      /\ toc[d].originVersion <= spec[toc[d].of].contentVersion
      BY <1>1, MastersAssumption DEF InToc, TocRow, InHand, Copies, TocFollowsCopies
    <2>3. KeepsPlaces(c)
      BY DEF InHand, KeepsPlaces
    <2>4. DriftShows(d)'
      BY <1>1, <1>2, <2>1, <2>2, DriftStays DEF Commits
    <2>5. KeepsShape(d)'
      BY <1>1, <1>2, <2>1, <2>3, ShapeStays DEF Commits
    <2> QED
      BY <2>4, <2>5
  <1>3. CASE d = c
    <2>1. \A p \in Paras : para'[p] # NoRow /\ para'[p].spec = c <=> p \in ids
      BY DEF InHand, Commits, Rows, InSpec, Live
    <2>2. Rows(c)' = ids
      BY <2>1 DEF Rows, InSpec, Live, InHand
    <2>3. \A p \in ids : /\ para'[p] = t.rows[p].row /\ origin'[p] = t.rows[p].origin
                         /\ InSpec(origin'[p], m)
      BY DEF InHand, Commits, RowsFollow
    <2>4. /\ m \in Specs \ {c} /\ spec'[m] = spec[m] /\ Rows(m)' = Rows(m)
          /\ \A p \in Paras : InSpec(p, m) => para'[p] = para[p]
      BY <1>1, OthersStand DEF InHand, Commits
    <2>5. \A p \in ids : origin'[p] \in Paras /\ para'[origin'[p]] = para[origin'[p]]
      BY <2>3, <2>4 DEF InHand
    <2>6. ASSUME Clean(c)'
          PROVE  spec'[c].title = spec'[m].title /\ Mirrors(c, Copied)'
      <3>1. t.version = spec[m].contentVersion
        BY <2>4, <2>6 DEF Clean, Commits
      <3>2. t.title = spec[m].title /\ RowsMirror(t)
        BY <3>1 DEF InHand, Fine, Current, Cloned
      <3>3. {origin'[p] : p \in ids} = Rows(m)
        BY <2>3, <3>2 DEF RowsMirror
      <3>4. \A p, q \in ids : origin'[p] = origin'[q] => p = q
        BY <2>3, <3>2 DEF RowsMirror
      <3>5. \A p \in ids : Copied'[p] = Copied'[origin'[p]]
        <4> SUFFICES ASSUME NEW p \in ids  PROVE Copied'[p] = Copied'[origin'[p]]
          OBVIOUS
        <4>1. Plainly(para'[p]) = Plainly(para'[origin'[p]])
          BY <2>3, <2>5, <3>2 DEF RowsMirror
        <4>2. /\ p \in Paras /\ para'[p] # NoRow
              /\ origin'[p] \in Paras /\ para'[origin'[p]] # NoRow
          BY <2>3, <2>5 DEF InHand, InSpec, Live
        <4>3. \A q \in Paras : para'[q] # NoRow => Copied'[q] = Plainly(para'[q])
          BY DEF Copied, Plainly, Live
        <4> QED
          BY <4>1, <4>2, <4>3
      <3>6. Mirrors(c, Copied)'
        BY <2>2, <2>4, <3>3, <3>4, <3>5 DEF Mirrors, Commits
      <3> QED
        BY <2>4, <3>2, <3>6 DEF Commits
    <2>7. DriftShows(d)'
      BY <1>3, <2>6 DEF DriftShows, Commits
    <2>8. ASSUME NEW p \in ids, NEW up, up = para'[p].parent, NEW o, o = origin'[p]
          PROVE  /\ up # NoPara => up \in ids
                 /\ para'[o] # NoRow /\ para'[o].spec = m
                 /\ para'[o].parent = IF up = NoPara THEN NoPara ELSE origin'[up]
      <3>1. /\ para'[p] = t.rows[p].row /\ o = t.rows[p].origin
            /\ InSpec(o, m) /\ para'[o] = para[o]
        BY <2>3, <2>5, <2>8
      <3>2. IF up = NoPara THEN para[o].parent = NoPara
            ELSE up \in ids /\ para[o].parent = t.rows[up].origin
        BY <2>8, <3>1 DEF InHand, RowsFollow
      <3> QED
        BY <2>3, <3>1, <3>2 DEF InSpec, Live
    <2>9. KeepsShape(c)'
      <3> SUFFICES ASSUME NEW p \in ids
                   PROVE  LET up == para'[p].parent IN
                          /\ up # NoPara => para'[up] # NoRow /\ para'[up].spec = c
                          /\ origin'[p] # NoPara =>
                                /\ para'[origin'[p]] # NoRow /\ para'[origin'[p]].spec = m
                                /\ para'[origin'[p]].parent =
                                      IF up = NoPara THEN NoPara ELSE origin'[up]
        BY <2>2 DEF KeepsShape, InSpec, Live, Commits
      <3>1. PICK up : up = para'[p].parent
        OBVIOUS
      <3>2. PICK o : o = origin'[p]
        OBVIOUS
      <3>3. up # NoPara => para'[up] # NoRow /\ para'[up].spec = c
        BY <2>1, <2>8, <3>1, <3>2 DEF InHand
      <3> QED
        BY <2>8, <3>1, <3>2, <3>3
    <2> QED
      BY <1>3, <2>7, <2>9
  <1> QED
    BY <1>2, <1>3

LEMMA CommitRefs ==
    ASSUME ProjectInv, NEW r \in Requests, CommitAdd(r), NEW t, t = add[r], InHand(t), Commits(t)
    PROVE  ReferencesFollowToc'
  <1> DEFINE c == t.id
             kept == t.repaired \cap refs
  <1>1. /\ ReferencesFollowToc /\ TargetsAreOwn
        /\ refs \subseteq RefRow /\ t.refs \subseteq RefRow
        /\ \A d \in Copies : d \in Specs
    BY DEF ProjectInv, TablesInv, ProjectTypes, ReferencesFollowToc, InHand, CallRow, Copies
  <1>2. \A e \in refs' : \/ e \in refs \ kept
                         \/ e \in t.refs
                         \/ \E f \in kept : e = [f EXCEPT !.target = c, !.broken = FALSE]
    BY DEF CommitAdd
  <1>3. /\ toc'[c].asked = t.asked /\ toc'[c].met = t.met /\ InToc(c)' /\ ~InToc(c)
        /\ toc'[c].carried = Carries(t)
        /\ c \in Copies /\ c # NoSpec
        /\ \A d \in Copies : InToc(d) => InToc(d)' /\ toc'[d] = toc[d] /\ d # c
        /\ \A d \in Copies : InToc(d)' => InToc(d) \/ d = c
    BY DEF InHand, Commits
  <1> HIDE DEF kept
  <1>4. ASSUME NEW e \in RefRow, e \in refs'
        PROVE  /\ InToc(e.source)'
               /\ IF e.broken THEN e.target = NoSpec
                  ELSE e.target # NoSpec /\ InToc(e.target)' /\ e.cites \in toc'[e.target].carried
               /\ \A d \in Copies : e.broken /\ InToc(d)' /\ toc'[d].carried = {e.cites}
                                       => Met(toc'[e.source], toc'[d], e) \/ e.lapsed
    <2>1. CASE e \in refs \ kept
      <3>1. /\ InToc(e.source) /\ e.source \in Copies
            /\ IF e.broken THEN e.target = NoSpec
               ELSE e.target # NoSpec /\ InToc(e.target) /\ e.cites \in toc[e.target].carried
            /\ \A d \in Copies : e.broken /\ InToc(d) /\ toc[d].carried = {e.cites}
                                    => Met(toc[e.source], toc[d], e) \/ e.lapsed
        BY <1>1, <1>4, <2>1 DEF TargetsAreOwn, ReferencesFollowToc, BrokenMeansAbsent, Met, RefRow
      <3>2. InToc(e.source)' /\ toc'[e.source] = toc[e.source]
        BY <1>3, <3>1
      <3> QED
        <4>1. /\ e.target \in Copies \cup {NoSpec}
              /\ ~e.broken => InToc(e.target) /\ e.target # NoSpec
          BY <1>4, <3>1 DEF RefRow
        <4>2. ~e.broken => toc'[e.target] = toc[e.target] /\ InToc(e.target)'
          BY <1>3, <4>1
        <4>3. ASSUME e.broken, Carries(t) = {e.cites}
              PROVE  Met(toc'[e.source], toc'[c], e) \/ e.lapsed
          <5>1. Met(toc[e.source], t, e) \/ e.lapsed
            <6>1. e \notin t.repaired
              BY <2>1 DEF kept
            <6> QED
              BY <2>1, <4>3, <6>1 DEF InHand, Fine, Cited
          <5> QED
            BY <1>3, <3>2, <5>1 DEF Met
        <4>4. ASSUME NEW d \in Copies, e.broken, InToc(d)', toc'[d].carried = {e.cites}
              PROVE  Met(toc'[e.source], toc'[d], e) \/ e.lapsed
          <5>1. CASE d = c
            BY <1>3, <4>3, <4>4, <5>1
          <5>2. CASE d # c
            BY <1>3, <3>1, <3>2, <4>4, <5>2
          <5> QED
            BY <5>1, <5>2
        <4> QED
          BY <3>1, <3>2, <4>2, <4>4
    <2>2. CASE e \in t.refs
      <3>1. RefHolds(e, t) /\ (~e.broken => e.target \in Copies)
        BY <2>2 DEF InHand, Fine, Cited, RefRow, RefHolds
      <3>2. e.source = c
        BY <3>1 DEF RefHolds
      <3>3. \A d : Met(t, d, e) => Met(toc'[c], d, e)
        BY <1>3 DEF Met
      <3>4. IF e.broken THEN e.target = NoSpec
            ELSE e.target # NoSpec /\ InToc(e.target)' /\ e.cites \in toc'[e.target].carried
        BY <1>3, <3>1 DEF RefHolds
      <3>5. ASSUME NEW d \in Copies, e.broken, InToc(d)', toc'[d].carried = {e.cites}
            PROVE  Met(toc'[c], toc'[d], e)
        <4>1. d # c
          BY <1>3, <3>1, <3>5 DEF RefHolds, Carries
        <4>2. InToc(d) /\ toc'[d] = toc[d]
          BY <1>3, <3>5, <4>1
        <4> QED
          BY <3>1, <3>3, <3>5, <4>2 DEF RefHolds
      <3> QED
        BY <1>3, <3>2, <3>4, <3>5
    <2>3. CASE \E f \in kept : e = [f EXCEPT !.target = c, !.broken = FALSE]
      <3>1. PICK f \in kept : e = [f EXCEPT !.target = c, !.broken = FALSE]
        BY <2>3
      <3>2. f \in RefRow /\ f \in refs /\ f.cites = t.asked /\ InToc(f.source) /\ f.source \in Copies
        BY <1>1 DEF kept, InHand, Fine, Cited, WillRepair, TargetsAreOwn, RefRow
      <3>3. e.source = f.source /\ e.cites = t.asked /\ e.target = c /\ ~e.broken
        BY <3>1, <3>2 DEF RefRow
      <3> QED
        BY <1>3, <3>2, <3>3 DEF Carries
    <2> QED
      BY <1>2, <1>4, <2>1, <2>2, <2>3
  <1>5. \A e \in refs' : e \in RefRow
    BY CommitTyped DEF ProjectTypes
  <1>6. \A d \in packaged' : InToc(d)'
    BY <1>1, <1>3 DEF TargetsAreOwn, CommitAdd, ProjectInv, TablesInv, ProjectTypes
  <1>7. TargetsAreOwn'
    BY <1>4, <1>5, <1>6 DEF TargetsAreOwn
  <1>8. \A e \in refs', d \in Copies :
           e.broken /\ InToc(d)' /\ toc'[d].carried = {e.cites}
              => Met(toc'[e.source], toc'[d], e) \/ e.lapsed
    BY <1>4, <1>5
  <1> QED
    BY <1>7, <1>8 DEF ReferencesFollowToc, BrokenMeansAbsent, Met

(* A call that goes on knows of the one that commits.                       *)
LEMMA CommitSpares ==
    ASSUME ProjectInv, NEW r \in Requests, CommitAdd(r), NEW t, t = add[r], InHand(t), Commits(t),
           NEW u \in CallRow, Fine(u), Apart(t, u), Apart(u, t)
    PROVE  Fine(u)'
  <1> DEFINE c == t.id
             kept == t.repaired \cap refs
  <1>1. /\ spec \in [Specs -> SpecRow] /\ drawn \in Nat /\ drawn' = drawn
        /\ refs \subseteq RefRow /\ TargetsAreOwn
        /\ u.of \in Masters /\ u.of \in Specs /\ u.of # c /\ c \in Specs /\ OnlyIn(c)
        /\ u.refs \subseteq RefRow
    <2>1. /\ spec \in [Specs -> SpecRow] /\ drawn \in Nat
          /\ refs \subseteq RefRow /\ TargetsAreOwn
      BY DEF ProjectInv, TablesInv, ProjectTypes, TypeOK, ReferencesFollowToc
    <2>2. drawn' = drawn
      BY DEF CommitAdd
    <2>3. u.of \in Masters /\ u.refs \subseteq RefRow
      BY DEF CallRow
    <2>4. c \in Specs /\ c \notin Masters /\ OnlyIn(c)
      BY DEF InHand, Commits, Copies
    <2> QED
      BY <2>1, <2>2, <2>3, <2>4, MastersAssumption
  <1>2. /\ toc'[c].asked = t.asked /\ toc'[c].met = t.met /\ ~InToc(c) /\ c \in Copies
        /\ toc'[c].carried = Carries(t) /\ Number(c)' = Clones(t)
        /\ \A d \in Copies \ {c} : Number(d)' = Number(d)
        /\ \A d \in Copies : InToc(d) => InToc(d)' /\ toc'[d] = toc[d] /\ d # c
        /\ \A d \in Copies : InToc(d)' => InToc(d) \/ d = c
    BY DEF InHand, Commits
  <1>3. /\ t.asked \in u.met /\ u.asked \in t.met
        /\ u.phase \in Holding => Clones(u) # Clones(t) /\ u.id # c
        /\ DOMAIN t.rows \cap DOMAIN u.rows = {}
    BY DEF Apart, InHand, Holding
  <1>4. Current(u)'
    BY <1>1, CurrentStays DEF Fine
  <1>5. Reserves(u)'
    <2> SUFFICES ASSUME u.phase \in Holding
                 PROVE  u.id \in Copies /\ ~InToc(u.id)' /\ CopyOf(Clones(u))' = {}
      BY DEF Reserves
    <2>1. u.id \in Copies /\ ~InToc(u.id) /\ CopyOf(Clones(u)) = {}
      BY DEF Fine, Reserves
    <2>2. ~InToc(u.id)'
      BY <1>2, <1>3, <2>1
    <2>3. ASSUME NEW d \in Copies, InToc(d)'  PROVE Number(d)' # Clones(u)
      <3>1. CASE d = c
        BY <1>2, <1>3, <3>1
      <3>2. CASE d # c
        BY <1>2, <2>1, <2>3, <3>2 DEF CopyOf
      <3> QED
        BY <3>1, <3>2
    <2>4. Clones(u)' = Clones(u)
      BY DEF Clones
    <2> QED
      BY <2>1, <2>2, <2>3, <2>4 DEF CopyOf
  <1>6. Cloned(u)'
    <2>1. \A p \in DOMAIN u.rows : p \in Paras /\ p \notin DOMAIN t.rows
      BY <1>3 DEF CallRow, CloneRows
    <2>2. \A p \in DOMAIN u.rows : ~Live(p) => para'[p] = NoRow
      BY <2>1 DEF Commits, Live
    <2> QED
      BY <1>1, <2>2, ClonedStays DEF Fine
  <1>7. ASSUME NEW e \in u.refs  PROVE RefHolds(e, u)'
    <2>1. RefHolds(e, u) /\ e.target \in Copies \cup {NoSpec}
      BY <1>1 DEF Fine, Cited, RefRow
    <2>2. IF e.broken THEN e.target = NoSpec /\ e.cites # Clones(u)
          ELSE /\ e.target # NoSpec
               /\ \/ e.target = u.id /\ e.cites \in Carries(u)
                  \/ /\ e.target \in Copies /\ InToc(e.target)'
                     /\ e.cites \in toc'[e.target].carried
      BY <1>2, <2>1 DEF RefHolds
    <2>3. ASSUME NEW d \in Copies, e.broken, InToc(d)', toc'[d].carried = {e.cites}
          PROVE  Met(u, toc'[d], e)
      <3>1. CASE d = c
        <4>1. e.cites = t.asked
          BY <1>2, <2>3, <3>1 DEF Carries
        <4> QED
          BY <1>3, <4>1 DEF Met
      <3>2. CASE d # c
        BY <1>2, <2>1, <2>3, <3>2 DEF RefHolds
      <3> QED
        BY <3>1, <3>2
    <2> QED
      BY <2>1, <2>2, <2>3 DEF RefHolds, Carries, Clones, Met
  <1>8. refs' = (refs \ kept) \cup t.refs
                   \cup {[e EXCEPT !.target = c, !.broken = FALSE] : e \in kept}
    BY DEF CommitAdd
  <1>9. \A e \in kept : e \in refs
    OBVIOUS
  <1>10. \A e \in u.repaired : WillRepair(e, u)
    BY DEF Fine, Cited
  <1> HIDE DEF kept
  <1>11. ASSUME u.phase = "listed", NEW e \in refs', e.broken, Carries(u) = {e.cites}
         PROVE  e \in u.repaired \/ Met(toc'[e.source], u, e) \/ e.lapsed
    <2>1. CASE e \in refs
      <3>1. e \in u.repaired \/ Met(toc[e.source], u, e) \/ e.lapsed
        BY <1>11, <2>1 DEF Fine, Cited
      <3>2. e.source \in Copies /\ InToc(e.source)
        BY <1>1, <2>1 DEF TargetsAreOwn, RefRow
      <3> QED
        BY <1>2, <3>1, <3>2
    <2>2. CASE e \in t.refs
      <3>1. e.source = c
        BY <2>2 DEF InHand, Fine, Cited, RefHolds
      <3>2. e.cites = u.asked
        BY <1>11 DEF Carries
      <3> QED
        BY <1>2, <1>3, <3>1, <3>2 DEF Met
    <2>3. CASE \E f \in kept : e = [f EXCEPT !.target = c, !.broken = FALSE]
      <3>1. PICK f \in kept : e = [f EXCEPT !.target = c, !.broken = FALSE]
        BY <2>3
      <3>2. f \in RefRow
        BY <1>1, <1>9
      <3>3. ~e.broken
        BY <3>1, <3>2 DEF RefRow
      <3> QED
        BY <1>11, <3>3
    <2> QED
      BY <1>8, <1>11, <2>1, <2>2, <2>3
  <1>12. Cited(u)'
    BY <1>7, <1>10, <1>11 DEF Cited, WillRepair, Carries, Clones, Met
  <1> QED
    BY <1>4, <1>5, <1>6, <1>12 DEF Fine, Early

LEMMA CommitStep ==
    ASSUME ProjectInv, NEW r \in Requests, CommitAdd(r)
    PROVE  ProjectInv'
  <1>1. PICK t : t = add[r]
    OBVIOUS
  <1>2. TablesInv /\ CallsInv /\ r \in Open /\ InHand(t) /\ Commits(t)
    BY <1>1, CommitHolds, CommitWrites DEF ProjectInv
  <1>3. TablesInv'
    <2>1. \A d \in Copies : DriftShows(d)' /\ KeepsShape(d)'
      BY <1>2, CommitShows
    <2> QED
      BY <1>1, <1>2, <2>1, CommitTyped, CommitRefs DEF TablesInv
  <1>4. PICK n : n = [phase |-> "added"]
    OBVIOUS
  <1>5. /\ add' \in [Requests -> CallRow \cup ClosedRow]
        /\ add'[r] = n /\ \A q \in Requests \ {r} : add'[q] = add[q]
        /\ n.phase \notin CallPhases
    <2>1. n \in ClosedRow /\ n.phase \notin CallPhases
      BY <1>4 DEF ClosedRow, CallPhases, Holding
    <2>2. add' = [add EXCEPT ![r] = n]
      BY <1>4 DEF CommitAdd
    <2> QED
      BY <1>2, <2>1, <2>2 DEF CallsInv
  <1>6. Open' = Open \ {r}
    BY <1>5 DEF Open, CallPhases
  <1>7. Open \subseteq Requests
    BY DEF Open
  <1>8. ASSUME NEW q \in Open'  PROVE Fine(add[q])'
    <2>1. PICK u : u = add[q]
      OBVIOUS
    <2>2. u \in CallRow /\ Fine(u) /\ Apart(t, u) /\ Apart(u, t) /\ add'[q] = u
      <3>1. q \in Open \ {r} /\ q \in Requests \ {r}
        BY <1>6, <1>7
      <3>2. Fine(u) /\ u \in CallRow
        BY <2>1, <3>1, CallAt
      <3>3. Apart(t, u) /\ Apart(u, t)
        BY <1>1, <1>2, <2>1, <3>1, CallAt
      <3> QED
        BY <1>5, <2>1, <3>1, <3>2, <3>3
    <2>3. Fine(u)'
      BY <1>1, <1>2, <2>2, CommitSpares
    <2> QED
      BY <2>2, <2>3
  <1>9. \A p, q \in Open' : p # q => Apart(add'[p], add'[q])
    BY <1>2, <1>5, <1>6, <1>7 DEF CallsInv
  <1>10. CallsInv'
    BY <1>5, <1>8, <1>9 DEF CallsInv, Apart
  <1> QED
    BY <1>3, <1>10 DEF ProjectInv

-----------------------------------------------------------------------------
(* removeSectionFromProject. *)
Removes(c) ==
    /\ InToc(c) /\ c \in Specs /\ c \notin Masters /\ c # NoSpec
    /\ ~InToc(c)' /\ \A d \in Copies \ {c} : toc'[d] = toc[d] /\ (InToc(d)' <=> InToc(d))
    /\ toc' \in [Copies -> TocRow \cup {NoCopy}]
    /\ \A p \in Paras :
          /\ para'[p] = IF InSpec(p, c) THEN NoRow ELSE para[p]
          /\ origin'[p] = IF InSpec(p, c) THEN NoPara ELSE origin[p]
    /\ spec' \in [Specs -> SpecRow]
    /\ OnlyIn(c)
    /\ UNCHANGED <<drawn, packaged, add>> /\ c \notin packaged

LEMMA RemoveWrites ==
    ASSUME ProjectTypes, NEW c \in Copies, NEW force \in Flag, RemoveSection(c, force)
    PROVE  Removes(c)
  <1>1. /\ toc \in [Copies -> TocRow \cup {NoCopy}] /\ spec \in [Specs -> SpecRow]
        /\ c \in Specs /\ c \notin Masters /\ c # NoSpec
    BY NoSpecAssumption DEF ProjectTypes, TypeOK, Copies
  <1>2. PICK row : row = [title |-> NoText, lifecycle |-> "draft",
                          external |-> "editable", contentVersion |-> 0]
    OBVIOUS
  <1>3. row \in SpecRow
    BY <1>2 DEF SpecRow, Lifecycles, ExternalStates
  <1>4. spec' = [spec EXCEPT ![c] = row]
    BY <1>2 DEF RemoveSection
  <1>5. spec' \in [Specs -> SpecRow] /\ \A x \in Specs \ {c} : spec'[x] = spec[x]
    BY <1>1, <1>3, <1>4
  <1>6. toc' = [toc EXCEPT ![c] = NoCopy]
    BY DEF RemoveSection
  <1>7. /\ toc' \in [Copies -> TocRow \cup {NoCopy}] /\ toc'[c] = NoCopy
        /\ \A d \in Copies \ {c} : toc'[d] = toc[d]
    BY <1>1, <1>6
  <1>8. \A p \in Paras :
           /\ para'[p] = IF InSpec(p, c) THEN NoRow ELSE para[p]
           /\ origin'[p] = IF InSpec(p, c) THEN NoPara ELSE origin[p]
    BY DEF RemoveSection
  <1>9. OnlyIn(c)
    BY <1>5, <1>8 DEF OnlyIn, InSpec
  <1> QED
    BY <1>1, <1>5, <1>7, <1>8, <1>9 DEF Removes, RemoveSection, Blocked, InToc

LEMMA RemoveTyped ==
    ASSUME TablesInv, NEW c \in Copies, NEW force \in Flag, RemoveSection(c, force), Removes(c)
    PROVE  ProjectTypes' /\ Named' /\ RowsClosed' /\ TocFollowsCopies'
  <1>1. /\ ProjectTypes /\ TypeOK /\ Named /\ RowsClosed /\ TocFollowsCopies
        /\ para \in [Paras -> ParaRow \cup {NoRow}] /\ refs \subseteq RefRow
        /\ origin \in [Paras -> Paras \cup {NoPara}]
        /\ \A p \in Paras : Live(p) => para[p] \in ParaRow
        /\ \A d \in Copies : d \in Specs /\ d \notin Masters
        /\ \A d \in Copies : InToc(d) => toc[d] \in TocRow /\ toc[d].of \in Specs /\ toc[d].of # c
    BY MastersAssumption DEF TablesInv, ProjectTypes, TypeOK, Copies, Live, InToc, TocRow
  <1>2. TypeOK'
    <2>1. para' \in [Paras -> ParaRow \cup {NoRow}]
      <3>1. \A p \in Paras : para'[p] \in ParaRow \cup {NoRow}
        BY <1>1 DEF Removes
      <3>2. para' = [p \in Paras |-> para'[p]]
        BY DEF RemoveSection
      <3> QED
        BY <3>1, <3>2
    <2>2. \A p \in Paras : p > drawn => para'[p] = NoRow
      BY <1>1 DEF Removes, TypeOK
    <2>3. drawn' = drawn /\ sealed' = sealed /\ hist' \subseteq hist
      BY DEF RemoveSection
    <2> QED
      BY <1>1, <2>1, <2>2, <2>3 DEF TypeOK, Removes
  <1>3. origin' \in [Paras -> Paras \cup {NoPara}]
    <2>1. \A p \in Paras : origin'[p] \in Paras \cup {NoPara}
      BY <1>1 DEF Removes
    <2>2. origin' = [p \in Paras |-> origin'[p]]
      BY DEF RemoveSection
    <2> QED
      BY <2>1, <2>2
  <1>4. refs' \subseteq RefRow
    <2>1. \A e \in refs : UnresolvedRef(e, c) \in RefRow
      <3>1. TRUE \in Flag /\ \A e : (Number(c) # e.cites) \in Flag
        BY DEF Flag
      <3> QED
        BY <1>1, <3>1 DEF UnresolvedRef, RefRow
    <2> QED
      BY <2>1 DEF RemoveSection
  <1>5. ProjectTypes'
    <2>1. packaged' \subseteq Copies
      BY <1>1 DEF Removes, ProjectTypes
    <2>2. \E bound \in Nat : \A d \in Copies : InToc(d)' => toc'[d].position <= bound
      BY <1>1 DEF Removes, ProjectTypes
    <2> QED
      BY <1>2, <1>3, <1>4, <2>1, <2>2 DEF ProjectTypes, Removes
  <1>6. RowsClosed'
    <2> SUFFICES ASSUME NEW p \in Paras, para'[p] # NoRow
                 PROVE  \/ para'[p].parent = NoPara
                        \/ para'[para'[p].parent] # NoRow /\ para'[para'[p].parent].spec = para'[p].spec
      BY DEF RowsClosed, InSpec, Live
    <2>1. para'[p] = para[p] /\ Live(p) /\ para[p].spec # c /\ para[p] \in ParaRow
      BY <1>1 DEF Removes, InSpec, Live
    <2>2. PICK up : up = para[p].parent
      OBVIOUS
    <2>3. up = NoPara \/ (up \in Paras /\ Live(up) /\ para[up].spec = para[p].spec)
      BY <1>1, <2>1, <2>2 DEF RowsClosed, InSpec, ParaRow
    <2>4. up \in Paras /\ Live(up) /\ para[up].spec = para[p].spec => para'[up] = para[up]
      BY <2>1 DEF Removes, InSpec
    <2> QED
      BY <2>1, <2>2, <2>3, <2>4 DEF Live
  <1>7. TocFollowsCopies'
    <2>1. ASSUME NEW d \in Copies, InToc(d)'
          PROVE  /\ Exists(d)' /\ Number(d)' \in toc'[d].carried
                 /\ toc'[d].originVersion <= spec'[toc'[d].of].contentVersion
      <3>1. d # c /\ InToc(d) /\ toc'[d] = toc[d] /\ toc[d].of \in Specs \ {c} /\ d \in Specs \ {c}
        BY <1>1, <2>1 DEF Removes
      <3>2. spec'[d] = spec[d] /\ spec'[toc[d].of] = spec[toc[d].of]
        BY <3>1 DEF Removes, OnlyIn
      <3> QED
        BY <1>1, <3>1, <3>2 DEF TocFollowsCopies, Exists, Number
    <2>2. ASSUME NEW d \in Copies, Rows(d)' # {}  PROVE InToc(d)'
      <3>1. d # c
        BY <2>2 DEF Removes, Rows, InSpec, Live
      <3>2. Rows(d)' = Rows(d)
        BY <1>1, <3>1, OthersStand DEF Removes
      <3> QED
        BY <1>1, <2>2, <3>1, <3>2 DEF TocFollowsCopies, Removes
    <2>3. \A p \in Paras : origin'[p] # NoPara => para'[p] # NoRow /\ para'[p].spec \in Copies
      BY <1>1 DEF Removes, TocFollowsCopies, InSpec, Live
    <2>4. \A d, e \in Copies : InToc(d)' /\ InToc(e)' /\ Number(d)' = Number(e)' => d = e
      <3>1. \A d \in Copies : InToc(d)' => InToc(d) /\ Number(d)' = Number(d)
        BY <1>1 DEF Removes, OnlyIn, Number
      <3> QED
        BY <1>1, <3>1 DEF TocFollowsCopies
    <2> QED
      BY <2>1, <2>2, <2>3, <2>4 DEF TocFollowsCopies, Live
  <1>8. Named'
    <2>1. /\ \A x \in Specs \ {c} : spec'[x] = spec[x]
          /\ spec'[c].contentVersion = 0
      <3>1. spec'[c] = [title |-> NoText, lifecycle |-> "draft",
                        external |-> "editable", contentVersion |-> 0]
        BY <1>1 DEF RemoveSection, TypeOK
      <3> QED
        BY <3>1 DEF Removes, OnlyIn
    <2>2. ~Exists(c)'
      BY <2>1 DEF Exists
    <2> QED
      BY <1>1, <2>1, <2>2 DEF Named, Exists
  <1> QED
    BY <1>5, <1>6, <1>7, <1>8

LEMMA RemoveShows ==
    ASSUME TablesInv, NEW c \in Copies, Removes(c), NEW d \in Copies
    PROVE  DriftShows(d)' /\ KeepsShape(d)'
  <1>1. CASE d = c
    <2>1. Rows(d)' = {}
      BY <1>1 DEF Removes, Rows, InSpec, Live
    <2>2. DriftShows(d)'
      BY <1>1 DEF DriftShows, Clean, Removes
    <2>3. KeepsShape(d)'
      BY <2>1 DEF KeepsShape
    <2> QED
      BY <2>2, <2>3
  <1>2. CASE d # c
    <2>1. /\ toc \in [Copies -> TocRow \cup {NoCopy}] /\ spec \in [Specs -> SpecRow]
          /\ para \in [Paras -> ParaRow \cup {NoRow}]
          /\ origin \in [Paras -> Paras \cup {NoPara}]
          /\ DriftShows(d) /\ KeepsShape(d) /\ (Rows(d) # {} => InToc(d))
          /\ c \in Specs \ {d} /\ OnlyIn(c) /\ toc'[d] = toc[d]
      BY <1>2 DEF TablesInv, ProjectTypes, TypeOK, TocFollowsCopies, Removes
    <2>2. InToc(d) => /\ toc[d].of # c
                      /\ toc[d].originVersion <= spec[toc[d].of].contentVersion
      BY <2>1 DEF InToc, TocRow, Removes, TablesInv, TocFollowsCopies
    <2>3. ASSUME NEW p \in Rows(d)
          PROVE  /\ origin'[p] = origin[p]
                 /\ origin[p] # NoPara => ~InSpec(origin[p], c)
      <3>1. p \in Paras /\ ~InSpec(p, c) /\ InToc(d)
        BY <1>2, <2>1 DEF Rows, InSpec
      <3>2. origin[p] # NoPara => InSpec(origin[p], toc[d].of)
        BY <2>1 DEF KeepsShape
      <3> QED
        BY <2>2, <3>1, <3>2 DEF Removes, InSpec
    <2>4. DriftShows(d)'
      BY <2>1, <2>2, <2>3, DriftStays
    <2>5. \A p \in Rows(d) : origin'[p] = IF origin[p] # NoPara /\ InSpec(origin[p], c) THEN NoPara
                                          ELSE origin[p]
      BY <2>3
    <2>6. KeepsShape(d)'
      BY <2>1, <2>5, ShapeStays
    <2> QED
      BY <2>4, <2>6
  <1> QED
    BY <1>1, <1>2

LEMMA RemoveRefs ==
    ASSUME TablesInv, NEW c \in Copies, NEW force \in Flag, RemoveSection(c, force), Removes(c)
    PROVE  ReferencesFollowToc'
  <1>1. /\ TargetsAreOwn /\ refs \subseteq RefRow
        /\ \A d \in Copies : InToc(d)' => InToc(d) /\ d # c /\ toc'[d] = toc[d]
        /\ \A d \in Copies : InToc(d) /\ d # c => InToc(d)' /\ toc'[d] = toc[d]
        /\ \A d \in Copies : InToc(d) /\ Number(d) = Number(c) => d = c
        /\ \A d \in Copies : InToc(d) => Number(d) \in toc[d].carried
    BY DEF TablesInv, ProjectTypes, ReferencesFollowToc, TocFollowsCopies, Removes
  <1>2. ASSUME NEW e \in refs'
        PROVE  /\ InToc(e.source)'
               /\ IF e.broken THEN e.target = NoSpec
                  ELSE e.target # NoSpec /\ InToc(e.target)' /\ e.cites \in toc'[e.target].carried
               /\ \A d \in Copies : e.broken /\ InToc(d)' /\ toc'[d].carried = {e.cites}
                                       => Met(toc'[e.source], toc'[d], e) \/ e.lapsed
    <2>1. PICK f \in refs : f.source # c /\ e = UnresolvedRef(f, c)
      BY <1>2 DEF RemoveSection
    <2>2. f \in RefRow /\ f.source \in Copies /\ f.target \in Copies \cup {NoSpec}
      BY <1>1 DEF RefRow
    <2>3. /\ InToc(f.source)
          /\ IF f.broken THEN f.target = NoSpec
             ELSE f.target # NoSpec /\ InToc(f.target) /\ f.cites \in toc[f.target].carried
          /\ \A d \in Copies : f.broken /\ InToc(d) /\ toc[d].carried = {f.cites}
                                  => Met(toc[f.source], toc[d], f) \/ f.lapsed
      BY <1>1 DEF TablesInv, TargetsAreOwn, ReferencesFollowToc, BrokenMeansAbsent, Met
    <2>4. InToc(f.source)' /\ toc'[f.source] = toc[f.source]
      BY <1>1, <2>1, <2>2, <2>3
    <2>5. CASE f.target = c
      <3>1. e = [f EXCEPT !.target = NoSpec, !.broken = TRUE, !.lapsed = Number(c) # f.cites]
        BY <2>1, <2>5 DEF UnresolvedRef
      <3>2. /\ e.source = f.source /\ e.cites = f.cites /\ e.target = NoSpec /\ e.broken
            /\ e.lapsed = (Number(c) # f.cites)
        BY <2>2, <3>1 DEF RefRow
      <3>3. ASSUME NEW d \in Copies, InToc(d)', toc'[d].carried = {e.cites}, ~e.lapsed  PROVE FALSE
        <4>1. InToc(d) /\ d # c /\ Number(d) = f.cites
          BY <1>1, <3>2, <3>3
        <4>2. Number(c) = f.cites
          BY <3>2, <3>3
        <4> QED
          BY <1>1, <4>1, <4>2
      <3> QED
        BY <2>4, <3>2, <3>3
    <2>6. CASE f.target # c
      <3>1. e = f
        BY <2>1, <2>6 DEF UnresolvedRef
      <3>2. /\ f.target \in Copies \cup {NoSpec}
            /\ ~f.broken => InToc(f.target) /\ f.target # NoSpec /\ f.cites \in toc[f.target].carried
        BY <2>2, <2>3
      <3>3. ~f.broken => toc'[f.target] = toc[f.target] /\ InToc(f.target)'
        BY <1>1, <2>6, <3>2
      <3>4. \A d \in Copies : f.broken /\ InToc(d)' /\ toc'[d].carried = {f.cites}
                                 => Met(toc'[f.source], toc'[d], f) \/ f.lapsed
        BY <1>1, <2>3, <2>4
      <3> QED
        BY <2>3, <2>4, <3>1, <3>2, <3>3, <3>4
    <2> QED
      BY <2>5, <2>6
  <1>3. \A d \in packaged' : InToc(d)'
    BY <1>1 DEF TargetsAreOwn, Removes, TablesInv, ProjectTypes
  <1>4. TargetsAreOwn'
    BY <1>2, <1>3 DEF TargetsAreOwn
  <1> QED
    BY <1>2, <1>4 DEF ReferencesFollowToc, BrokenMeansAbsent, Met

(* A call points to no copy that goes, and the references it will repair    *)
(* stay.                                                                    *)
LEMMA RemoveSpares ==
    ASSUME ProjectInv, NEW c \in Copies, NEW force \in Flag, RemoveSection(c, force), Removes(c),
           NEW r \in Open, NEW u, u = add[r]
    PROVE  Fine(u)'
  <1>1. u \in CallRow /\ Fine(u) /\ r \in Requests
    BY CallAt
  <1>2. /\ spec \in [Specs -> SpecRow] /\ drawn \in Nat /\ drawn' = drawn
        /\ refs \subseteq RefRow /\ TargetsAreOwn
        /\ u.of \in Specs /\ u.of # c /\ c \in Specs /\ OnlyIn(c) /\ u.refs \subseteq RefRow
    <2>1. /\ spec \in [Specs -> SpecRow] /\ drawn \in Nat
          /\ refs \subseteq RefRow /\ TargetsAreOwn
      BY DEF ProjectInv, TablesInv, ProjectTypes, TypeOK, ReferencesFollowToc
    <2>2. u.of \in Masters /\ u.refs \subseteq RefRow
      BY <1>1 DEF CallRow
    <2> QED
      BY <2>1, <2>2, MastersAssumption DEF Removes
  <1>3. /\ \A d \in Copies : InToc(d)' => InToc(d) /\ d # c /\ toc'[d] = toc[d]
        /\ \A d \in Copies : InToc(d) /\ d # c => InToc(d)' /\ toc'[d] = toc[d]
    BY DEF Removes
  <1>4. u.phase \in Holding => /\ \A e \in u.refs : e.target # c
                               /\ \A e \in u.repaired : e.source # c
    <2>1. u.phase \in Holding => r \in Holders
      BY <1>1 DEF Holders
    <2> QED
      BY <2>1 DEF RemoveSection, KeyShared, Shared
  <1>5. Current(u)'
    BY <1>1, <1>2, CurrentStays DEF Fine
  <1>6. Reserves(u)'
    <2>1. \A d \in Copies : InToc(d)' => Number(d)' = Number(d)
      BY <1>2, <1>3 DEF OnlyIn, Number, Copies
    <2> QED
      BY <1>1, <1>3, <2>1 DEF Fine, Reserves, CopyOf, Clones
  <1>7. Cloned(u)'
    <2>1. \A p \in DOMAIN u.rows : ~Live(p) => para'[p] = NoRow
      BY <1>1 DEF CallRow, CloneRows, Removes, Live
    <2> QED
      BY <1>1, <1>2, <2>1, ClonedStays DEF Fine
  <1>8. ASSUME NEW e \in u.refs  PROVE RefHolds(e, u)'
    <2>1. RefHolds(e, u) /\ e.target # c
      <3>1. u.phase \in Holding
        BY <1>1, <1>8 DEF Fine, Early, Holding
      <3> QED
        BY <1>1, <1>4, <3>1 DEF Fine, Cited
    <2>2. IF e.broken THEN e.target = NoSpec /\ e.cites # Clones(u)
          ELSE /\ e.target # NoSpec
               /\ \/ e.target = u.id /\ e.cites \in Carries(u)
                  \/ /\ e.target \in Copies /\ InToc(e.target)'
                     /\ e.cites \in toc'[e.target].carried
      BY <1>3, <2>1 DEF RefHolds
    <2>3. \A d \in Copies :
             e.broken /\ InToc(d)' /\ toc'[d].carried = {e.cites} => Met(u, toc'[d], e)
      BY <1>3, <2>1 DEF RefHolds
    <2> QED
      BY <2>1, <2>2, <2>3 DEF RefHolds, Carries, Clones, Met
  <1>9. \A e \in u.repaired : WillRepair(e, u)
    BY <1>1 DEF Fine, Cited
  <1>10. ASSUME u.phase = "listed", NEW e \in refs', e.broken, Carries(u) = {e.cites}
         PROVE  e \in u.repaired \/ Met(toc'[e.source], u, e) \/ e.lapsed
    <2>1. PICK f \in refs : f.source # c /\ e = UnresolvedRef(f, c)
      BY <1>10 DEF RemoveSection
    <2>2. f \in RefRow /\ f.source \in Copies /\ InToc(f.source)
      BY <1>2 DEF RefRow, TargetsAreOwn
    <2>3. CASE f.target = c
      <3>1. e = [f EXCEPT !.target = NoSpec, !.broken = TRUE, !.lapsed = Number(c) # f.cites]
        BY <2>1, <2>3 DEF UnresolvedRef
      <3>2. e.cites = f.cites /\ e.lapsed = (Number(c) # f.cites)
        BY <2>2, <3>1 DEF RefRow
      <3>3. CopyOf(Clones(u)) = {} /\ Clones(u) = e.cites
        BY <1>1, <1>10 DEF Fine, Reserves, Holding, Carries
      <3>4. Number(c) # f.cites
        BY <3>2, <3>3 DEF CopyOf, Removes
      <3> QED
        BY <3>2, <3>4
    <2>4. CASE f.target # c
      <3>1. e = f
        BY <2>1, <2>4 DEF UnresolvedRef
      <3>2. e \in u.repaired \/ Met(toc[e.source], u, e) \/ e.lapsed
        BY <1>1, <1>10, <3>1 DEF Fine, Cited
      <3> QED
        BY <1>3, <2>1, <2>2, <3>1, <3>2
    <2> QED
      BY <2>3, <2>4
  <1>11. Cited(u)'
    BY <1>8, <1>9, <1>10 DEF Cited, WillRepair, Carries, Clones, Met
  <1> QED
    BY <1>1, <1>5, <1>6, <1>7, <1>11 DEF Fine, Early

LEMMA RemoveStep ==
    ASSUME ProjectInv, NEW c \in Copies, NEW force \in Flag, RemoveSection(c, force)
    PROVE  ProjectInv'
  <1>1. TablesInv /\ CallsInv /\ Removes(c) /\ add' = add
    BY RemoveWrites DEF ProjectInv, TablesInv, RemoveSection
  <1>2. TablesInv'
    <2>1. \A d \in Copies : DriftShows(d)' /\ KeepsShape(d)'
      BY <1>1, RemoveShows
    <2> QED
      BY <1>1, <2>1, RemoveTyped, RemoveRefs DEF TablesInv
  <1>3. Open' = Open
    BY <1>1 DEF Open
  <1>4. ASSUME NEW r \in Open  PROVE Fine(add[r])'
    <2>1. PICK u : u = add[r]
      OBVIOUS
    <2>2. Fine(u)'
      BY <1>1, <2>1, RemoveSpares
    <2> QED
      BY <1>1, <2>1, <2>2
  <1>5. CallsInv'
    BY <1>1, <1>3, <1>4 DEF CallsInv, Apart
  <1> QED
    BY <1>2, <1>5 DEF ProjectInv

(* Packages only hold what the table of contents lists.                     *)
LEMMA PackageStep ==
    ASSUME ProjectInv, NEW members \in SUBSET Copies, SetPackageSpecs(members)
    PROVE  ProjectInv'
  <1>1. /\ UNCHANGED <<spec, para, drawn, hist, sealed, toc, origin, refs, add>>
        /\ packaged' = members /\ \A c \in members : InToc(c)
    BY DEF SetPackageSpecs, vars
  <1>2. ProjectTypes' /\ Named' /\ RowsClosed' /\ TocFollowsCopies'
    BY <1>1 DEF ProjectInv, TablesInv, ProjectTypes, TypeOK, Named, RowsClosed, TocFollowsCopies,
       InToc, Number, Exists, Rows, InSpec, Live
  <1>3. ASSUME NEW c \in Copies  PROVE DriftShows(c)' /\ KeepsShape(c)'
    <2>1. DriftShows(c) /\ KeepsShape(c) /\ Copied' = Copied
      BY <1>1 DEF ProjectInv, TablesInv, Copied, Live
    <2>2. DriftShows(c)'
      BY <1>1, <2>1 DEF DriftShows, Clean, InToc, Mirrors, Rows, InSpec, Live
    <2>3. KeepsShape(c)'
      BY <1>1, <2>1 DEF KeepsShape, Rows, InSpec, Live
    <2> QED
      BY <2>2, <2>3
  <1>4. ReferencesFollowToc'
    BY <1>1 DEF ProjectInv, TablesInv, ReferencesFollowToc, TargetsAreOwn, BrokenMeansAbsent, InToc
  <1>5. Open' = Open
    BY <1>1 DEF Open
  <1>6. ASSUME NEW r \in Open  PROVE Fine(add[r])'
    <2>1. PICK t : t = add[r]
      OBVIOUS
    <2>2. Fine(t)
      BY <2>1 DEF ProjectInv, CallsInv
    <2>3. Fine(t)'
      BY <1>1, <2>2 DEF Fine, Current, Reserves, Early, Cloned, RowsFollow, RowsMirror, Cited,
         RefHolds, WillRepair, Carries, Clones, Met, Number, Exists, InToc, CopyOf, Rows, InSpec, Live
    <2> QED
      BY <1>1, <2>1, <2>3
  <1>7. CallsInv'
    BY <1>1, <1>5, <1>6 DEF ProjectInv, CallsInv, Apart
  <1> QED
    BY <1>2, <1>3, <1>4, <1>7 DEF ProjectInv, TablesInv

-----------------------------------------------------------------------------
LEMMA ProjectInvInit == ProjectInit => ProjectInv
  <1> SUFFICES ASSUME ProjectInit  PROVE ProjectInv
    OBVIOUS
  <1>1. /\ \A p \in Paras : ~Live(p) /\ origin[p] = NoPara
        /\ \A c \in Copies : ~InToc(c) /\ Rows(c) = {}
        /\ refs = {} /\ packaged = {}
    BY DEF ProjectInit, Init, Live, InToc, Rows, InSpec
  <1>2. ProjectTypes
    <2>1. TypeOK
      BY InitType DEF ProjectInit
    <2>2. toc \in [Copies -> TocRow \cup {NoCopy}] /\ origin \in [Paras -> Paras \cup {NoPara}]
      BY DEF ProjectInit
    <2>3. 0 \in Nat /\ \A c \in Copies : InToc(c) => toc[c].position <= 0
      BY <1>1
    <2> QED
      BY <1>1, <2>1, <2>2, <2>3 DEF ProjectTypes
  <1>3. Named /\ RowsClosed /\ TocFollowsCopies
    BY <1>1 DEF RowsClosed, TocFollowsCopies, Named, Exists, ProjectInit, Init
  <1>4. ReferencesFollowToc /\ \A c \in Copies : DriftShows(c) /\ KeepsShape(c)
    BY <1>1 DEF ReferencesFollowToc, TargetsAreOwn, DriftShows, Clean, KeepsShape
  <1>5. CallsInv
    <2>1. Idle \in ClosedRow /\ Idle.phase \notin {"resolved", "reading"} \cup Holding
      BY DEF Idle, ClosedRow, Holding
    <2>2. add \in [Requests -> CallRow \cup ClosedRow] /\ Open = {}
      BY <2>1 DEF ProjectInit, Open
    <2> QED
      BY <2>2 DEF CallsInv
  <1> QED
    BY <1>2, <1>3, <1>4, <1>5 DEF ProjectInv, TablesInv

LEMMA ProjectInvNext == ProjectInv /\ [ProjectNext]_allVars => ProjectInv'
  <1> SUFFICES ASSUME ProjectInv, [ProjectNext]_allVars  PROVE ProjectInv'
    OBVIOUS
  <1>1. ASSUME NEW m \in Masters, NEW doc \in Documents, Import(m, doc)  PROVE ProjectInv'
    BY <1>1, ImportStep
  <1>2. ASSUME NEW s \in Specs, Writer(s)  PROVE ProjectInv'
    BY <1>2, WriterStep DEF Touches
  <1>3. ASSUME NEW s \in Specs, NEW title \in Titles, Rename(s, title)  PROVE ProjectInv'
    BY <1>3, WriterStep DEF Touches
  <1>4. ASSUME NEW r \in Requests, AddStep(r)  PROVE ProjectInv'
    <2>1. CASE ReadMaster(r)
      BY <2>1, ReadMasterStep
    <2>2. CASE CloneSpecRow(r)
      BY <2>2, CloneSpecRowStep
    <2>3. CASE CloneParagraphs(r)
      BY <2>3, CloneParagraphsStep
    <2>4. CASE CloneRefs(r)
      BY <2>4, CloneRefsStep
    <2>5. CASE InsertTocEntry(r)
      BY <2>5, InsertTocEntryStep
    <2>6. CASE CommitAdd(r)
      BY <2>6, CommitStep
    <2>7. CASE Failed(r)
      BY <2>7, FailedStep
    <2> QED
      BY <1>4, <2>1, <2>2, <2>3, <2>4, <2>5, <2>6, <2>7 DEF AddStep
  <1>5. ASSUME NEW r \in Requests, NEW m \in Masters, StartAdd(r, m)  PROVE ProjectInv'
    BY <1>5, StartAddStep
  <1>6. ASSUME NEW c \in Copies, NEW force \in Flag, RemoveSection(c, force)  PROVE ProjectInv'
    BY <1>6, RemoveStep
  <1>7. ASSUME NEW members \in SUBSET Copies, SetPackageSpecs(members)  PROVE ProjectInv'
    BY <1>7, PackageStep
  <1>8. CASE UNCHANGED allVars
    <2>1. UNCHANGED <<spec, para, drawn, hist, sealed, toc, origin, refs, packaged, add>>
      BY <1>8 DEF allVars, vars, projectVars
    <2>2. TablesStand
      BY <2>1 DEF TablesStand, ProjectInv, TablesInv, ProjectTypes, TypeOK
    <2>3. TablesInv' /\ Open' = Open
      BY <2>1, <2>2, TablesKept DEF ProjectInv, Open
    <2>4. ASSUME NEW r \in Open  PROVE Fine(add[r])'
      <3>1. PICK t : t = add[r]
        OBVIOUS
      <3>2. Fine(t) /\ TablesInv
        BY <3>1 DEF ProjectInv, CallsInv
      <3>3. Fine(t)'
        BY <2>2, <3>2, FineStands
      <3> QED
        BY <2>1, <3>1, <3>3
    <2> QED
      BY <2>1, <2>3, <2>4 DEF ProjectInv, CallsInv, Apart
  <1> QED
    BY <1>1, <1>2, <1>3, <1>4, <1>5, <1>6, <1>7, <1>8 DEF ProjectNext

LEMMA ProjectInvAlways == ProjectSpec => []ProjectInv
  <1> QED
    BY ProjectInvInit, ProjectInvNext, PTL DEF ProjectSpec

(* ADR-015 D2 holds of every project: a copy that the lineage view shows as *)
(* neither edited nor behind says what its master says, row by row, although*)
(* addSectionToProject reads version, paragraphs and references one after   *)
(* the other while masters are written.                                     *)
THEOREM DriftIsShown == ProjectSpec => []DriftIsNeverHidden
  <1>1. ProjectInv => DriftIsNeverHidden
    BY DEF ProjectInv, TablesInv, DriftShows, DriftIsNeverHidden
  <1> QED
    BY <1>1, ProjectInvAlways, PTL

(* The clone statement's UUID map makes of every copy a tree of its own:    *)
(* parenthood stays within it and commutes with lineage, whatever is edited,*)
(* imported or removed later.                                               *)
THEOREM CopiesAreTrees == ProjectSpec => []CopiesKeepTheirShape
  <1>1. ProjectInv => CopiesKeepTheirShape
    BY DEF ProjectInv, TablesInv, KeepsShape, CopiesKeepTheirShape
  <1> QED
    BY <1>1, ProjectInvAlways, PTL

(* References resolve within the project: cloneRefs, the repair on adding   *)
(* and the breaking on removing leave none that points to a section that is *)
(* gone or that never had the number cited, and none broken for a copy that *)
(* was added for that number and never had another, save between two        *)
(* sections that were being added at once and after a target was given      *)
(* another number and removed; and what a package holds stays.              *)
THEOREM ReferencesResolve == ProjectSpec => []ReferencesFollowToc
  <1>1. ProjectInv => ReferencesFollowToc
    BY DEF ProjectInv, TablesInv
  <1> QED
    BY <1>1, ProjectInvAlways, PTL

=============================================================================
