-------------------------- MODULE MergeReview_proofs --------------------------
(***************************************************************************)
(* Proofs about the redline round trip of MergeReview, for any specs,       *)
(* texts, documents and redlines, and any number of writes in between.      *)
(***************************************************************************)
EXTENDS MergeReview, SpecStore_proofs, SequenceTheorems

-----------------------------------------------------------------------------
(* The order of a document.  Lineages are chains, so two rows that are not   *)
(* one below the other part at two siblings; siblings have different         *)
(* positions, so `Before' is a strict total order of a spec's rows.          *)

LEMMA LineageSplits ==
    ASSUME TypeOK, RowsHang, NEW p \in Paras, Live(p)
    PROVE  /\ para[p].parent = NoPara => Lineage[p] = {p}
           /\ para[p].parent # NoPara =>
                 /\ para[p].parent \in Paras /\ para[p].parent < p
                 /\ InSpec(para[p].parent, para[p].spec)
                 /\ Lineage[p] = {p} \cup Lineage[para[p].parent]
  <1>1. para[p].parent \in Paras \cup {NoPara}
    BY DEF TypeOK, Live, ParaRow
  <1>2. Lineage[p] = {p} \cup IF Live(p) /\ para[p].parent \in 1..(p - 1)
                              THEN Lineage[para[p].parent] ELSE {}
    BY LineageIs DEF LineageFits
  <1>3. para[p].parent # NoPara =>
           para[p].parent < p /\ InSpec(para[p].parent, para[p].spec)
    BY DEF RowsHang
  <1>4. para[p].parent # NoPara <=> para[p].parent \in 1..(p - 1)
    BY <1>1, <1>3, SizesAssumption DEF Paras, NoPara
  <1> QED
    BY <1>1, <1>2, <1>3, <1>4

LEMMA LineageIsChain ==
    ASSUME TypeOK, RowsHang, NEW p \in Paras, Live(p), NEW a \in Lineage[p]
    PROVE  /\ a <= p /\ Lineage[a] \subseteq Lineage[p]
           /\ \A b \in Lineage[p] : a \in Lineage[b] \/ b \in Lineage[a]
  <1> DEFINE Fine(q) == \A x \in Lineage[q] :
                          /\ x <= q /\ Lineage[x] \subseteq Lineage[q]
                          /\ \A y \in Lineage[q] : x \in Lineage[y] \/ y \in Lineage[x]
             S == {q \in Paras : Live(q) /\ ~Fine(q)}
  <1>0. Paras \in SUBSET Nat
    BY DEF Paras
  <1>1. ASSUME NEW q \in S, \A r \in S : q <= r  PROVE FALSE
    <2>1. q \in Paras /\ Live(q) /\ ~Fine(q) /\ q \in Nat
      BY <1>0, <1>1
    <2>2. CASE para[q].parent = NoPara
      <3>1. Lineage[q] = {q}
        BY <2>1, <2>2, LineageSplits
      <3> QED
        BY <2>1, <3>1
    <2>3. CASE para[q].parent # NoPara
      <3>1. PICK up : up = para[q].parent
        OBVIOUS
      <3>2. /\ up \in Paras /\ up < q /\ Live(up)
            /\ Lineage[q] = {q} \cup Lineage[up]
        BY <2>1, <2>3, <3>1, LineageSplits DEF InSpec
      <3>3. Fine(up)
        <4>0. up \in Nat /\ q \in Nat /\ up < q
          BY <1>0, <2>1, <3>2
        <4>1. up \in Nat /\ ~(q <= up)
          BY <4>0
        <4> HIDE DEF Fine
        <4> QED
          BY <1>1, <3>2, <4>1
      <3>4. \A x \in Lineage[up] : x \in Paras /\ x \in Nat
        BY <1>0, <3>2, LineageWithin
      <3>5. \A x \in Lineage[q] : x <= q
        <4>1. ASSUME NEW x \in Lineage[up]  PROVE x <= q
          <5>1. x <= up /\ x \in Nat /\ up \in Nat
            BY <1>0, <3>2, <3>3, <3>4
          <5> QED
            BY <2>1, <3>2, <5>1
        <4> QED
          BY <2>1, <3>2, <4>1
      <3>6. \A x \in Lineage[q] : Lineage[x] \subseteq Lineage[q]
        BY <3>2, <3>3
      <3>7. \A x, y \in Lineage[q] : x \in Lineage[y] \/ y \in Lineage[x]
        <4>1. up \in Lineage[up] /\ q \in Lineage[q]
          BY <3>2, LineageWithin
        <4> QED
          BY <3>2, <3>3, <4>1
      <3> QED
        BY <2>1, <3>5, <3>6, <3>7
    <2> QED
      BY <2>2, <2>3
  <1>2. S = {}
    <2> SUFFICES ASSUME S # {}  PROVE FALSE
      OBVIOUS
    <2>1. S \in SUBSET Nat
      BY <1>0
    <2>2. PICK q \in S : \A r \in S : q <= r
      <3> HIDE DEF S
      <3> QED
        BY <2>1, LeastOf
    <2> QED
      BY <1>1, <2>2
  <1>3. Fine(p)
    <2> HIDE DEF Fine
    <2> QED
      BY <1>2
  <1> QED
    BY <1>3

(* Siblings are not below each other. *)
LEMMA SiblingsApart ==
    ASSUME TypeOK, RowsHang, NEW a \in Paras, NEW b \in Paras, Live(a), Live(b),
           a # b, para[a].parent = para[b].parent
    PROVE  a \notin Lineage[b]
  <1> SUFFICES ASSUME a \in Lineage[b]  PROVE FALSE
    OBVIOUS
  <1>1. para[b].parent # NoPara
    BY LineageSplits
  <1>2. PICK up : up = para[b].parent
    OBVIOUS
  <1>3. up \in Paras /\ Live(up) /\ a \in Lineage[up] /\ up < a
    BY <1>1, <1>2, LineageSplits DEF InSpec
  <1>4. a <= up
    BY <1>3, LineageIsChain
  <1>5. a \in Nat /\ up \in Nat
    BY <1>3 DEF Paras
  <1> QED
    BY <1>3, <1>4, <1>5

LEMMA BeforeIsStrict ==
    ASSUME TypeOK, RowsHang, NEW p \in Paras, Live(p)
    PROVE  ~Before(p, p)
  <1> SUFFICES ASSUME NEW a \in Lineage[p], NEW b \in Lineage[p],
                      para[a].parent = para[b].parent, para[a].position < para[b].position
               PROVE  FALSE
    BY DEF Before
  <1>1. /\ a \in Paras /\ b \in Paras /\ Live(a) /\ Live(b)
    BY LineageWithin DEF InSpec
  <1>2. a # b
    <2>1. para[a].position \in Nat
      BY <1>1 DEF TypeOK, Live, ParaRow
    <2> QED
      BY <2>1
  <1>3. a \in Lineage[b] \/ b \in Lineage[a]
    BY LineageIsChain
  <1> QED
    BY <1>1, <1>2, <1>3, SiblingsApart

LEMMA BeforeIsTransitive ==
    ASSUME TypeOK, RowsHang, NEW s \in Specs,
           NEW p \in Rows(s), NEW q \in Rows(s), NEW r \in Rows(s), Before(p, q), Before(q, r)
    PROVE  Before(p, r)
  <1>0. /\ p \in Paras /\ q \in Paras /\ r \in Paras /\ Live(p) /\ Live(q) /\ Live(r)
    BY DEF Rows, InSpec
  <1>1. /\ \A x \in Lineage[p] : x \in Paras /\ Live(x) /\ Lineage[x] \subseteq Lineage[p]
        /\ \A x \in Lineage[q] : x \in Paras /\ Live(x) /\ Lineage[x] \subseteq Lineage[q]
        /\ \A x \in Lineage[r] : x \in Paras /\ Live(x) /\ Lineage[x] \subseteq Lineage[r]
    BY <1>0, LineageWithin, LineageIsChain DEF InSpec
  <1>2. \A x, y \in Lineage[q] : x \in Lineage[y] \/ y \in Lineage[x]
    BY <1>0, LineageIsChain
  <1>3. \A x \in Paras : Live(x) => x \in Lineage[x]
    BY LineageWithin
  <1>4. ASSUME NEW x \in Paras, NEW y \in Paras, NEW z \in Paras, Live(x), Live(y), Live(z),
               x \in Lineage[y], x # y, para[y].parent = para[z].parent
        PROVE  x \in Lineage[z] /\ x # z
    <2>1. para[y].parent # NoPara
      BY <1>4, LineageSplits
    <2>2. x \in Lineage[para[y].parent]
      BY <1>4, <2>1, LineageSplits
    <2>3. Lineage[z] = {z} \cup Lineage[para[z].parent]
      BY <1>4, <2>1, LineageSplits
    <2>4. x # z
      <3>1. x <= para[y].parent /\ para[z].parent < z /\ para[z].parent \in Paras
        BY <1>4, <2>1, <2>2, LineageSplits, LineageIsChain DEF InSpec
      <3>2. para[z].parent \in Nat /\ z \in Nat /\ x \in Nat
        BY <1>4, <3>1 DEF Paras
      <3>3. para[y].parent = para[z].parent
        BY <1>4
      <3> QED
        BY <3>1, <3>2, <3>3
    <2> QED
      BY <1>4, <2>2, <2>3, <2>4
  <1>5. CASE p # q /\ p \in Lineage[q] /\ q # r /\ q \in Lineage[r]
    <2>1. p \in Lineage[r]
      BY <1>1, <1>5
    <2>2. p # r
      <3>1. p <= q /\ q <= r /\ p \in Nat /\ q \in Nat /\ r \in Nat
        BY <1>0, <1>5, LineageIsChain DEF Paras
      <3> QED
        BY <1>5, <3>1
    <2> QED
      BY <2>1, <2>2 DEF Before
  <1>6. ASSUME p # q, p \in Lineage[q], NEW b \in Lineage[q], NEW c \in Lineage[r],
               para[b].parent = para[c].parent, para[b].position < para[c].position
        PROVE  Before(p, r)
    <2>1. CASE b \in Lineage[p]
      BY <1>6, <2>1 DEF Before
    <2>2. CASE b \notin Lineage[p]
      <3>1. p \in Lineage[b] /\ p # b
        BY <1>0, <1>2, <1>3, <1>6, <2>2
      <3>2. p \in Lineage[c] /\ p # c
        BY <1>0, <1>1, <1>4, <1>6, <3>1
      <3>3. p \in Lineage[r]
        BY <1>1, <3>2
      <3>4. p # r
        <4>1. p <= c /\ c <= r /\ p \in Nat /\ c \in Nat /\ r \in Nat
          BY <1>0, <1>1, <3>2, LineageIsChain DEF Paras
        <4> QED
          BY <3>2, <4>1
      <3> QED
        BY <3>3, <3>4 DEF Before
    <2> QED
      BY <2>1, <2>2
  <1>7. ASSUME NEW a \in Lineage[p], NEW b \in Lineage[q], q \in Lineage[r],
               para[a].parent = para[b].parent, para[a].position < para[b].position
        PROVE  Before(p, r)
    BY <1>1, <1>7 DEF Before
  <1>8. ASSUME NEW a \in Lineage[p], NEW b \in Lineage[q],
               para[a].parent = para[b].parent, para[a].position < para[b].position,
               NEW c \in Lineage[q], NEW d \in Lineage[r],
               para[c].parent = para[d].parent, para[c].position < para[d].position
        PROVE  Before(p, r)
    <2>1. CASE b = c
      <3>1. /\ para[a].position \in Nat /\ para[b].position \in Nat /\ para[d].position \in Nat
        BY <1>1, <1>8 DEF TypeOK, Live, ParaRow
      <3>2. para[a].position < para[d].position /\ para[a].parent = para[d].parent
        BY <1>8, <2>1, <3>1
      <3> QED
        BY <3>2 DEF Before
    <2>2. CASE b # c /\ b \in Lineage[c]
      <3>1. b \in Lineage[d]
        BY <1>1, <1>4, <1>8, <2>2
      <3> QED
        BY <1>1, <1>8, <3>1 DEF Before
    <2>3. CASE b # c /\ c \in Lineage[b]
      <3>1. c \in Lineage[a]
        BY <1>1, <1>4, <1>8, <2>3
      <3> QED
        BY <1>1, <1>8, <3>1 DEF Before
    <2> QED
      BY <1>2, <1>8, <2>1, <2>2, <2>3
  <1> QED
    BY <1>5, <1>6, <1>7, <1>8 DEF Before

(* Where two rows part: the oldest of one's lineage that is not of the       *)
(* other's hangs on what the two share last.                                 *)
Forks(p, q, a) == a \in Lineage[p] \ Lineage[q] /\ \A x \in Lineage[p] \ Lineage[q] : a <= x
LEMMA ForkFacts ==
    ASSUME TypeOK, RowsHang, NEW s \in Specs, NEW p \in Rows(s), NEW q \in Rows(s),
           NEW a, Forks(p, q, a), NEW b, Forks(q, p, b)
    PROVE  para[a].parent # NoPara =>
              para[b].parent # NoPara /\ para[a].parent \in Paras /\ para[a].parent <= para[b].parent
  <1>0. p \in Paras /\ q \in Paras /\ Live(p) /\ Live(q)
    BY DEF Rows, InSpec
  <1>1. /\ a \in Paras /\ Live(a) /\ a \in Lineage[p] /\ a \notin Lineage[q]
        /\ b \in Paras /\ Live(b) /\ b \in Lineage[q] /\ b \notin Lineage[p]
    BY <1>0, LineageWithin DEF Forks, InSpec
  <1> SUFFICES ASSUME para[a].parent # NoPara
               PROVE  para[b].parent # NoPara /\ para[a].parent \in Paras
                      /\ para[a].parent <= para[b].parent
    OBVIOUS
  <1>2. PICK up : up = para[a].parent
    OBVIOUS
  <1>3. up \in Paras /\ Live(up) /\ up < a /\ up \in Lineage[a]
    BY <1>1, <1>2, LineageSplits, LineageWithin DEF InSpec
  <1>4. up \in Lineage[p]
    BY <1>0, <1>1, <1>3, LineageIsChain
  <1>5. up \in Lineage[q]
    <2>1. up \in Nat /\ a \in Nat /\ ~(a <= up)
      <3>1. up \in Nat /\ a \in Nat
        BY <1>1, <1>3 DEF Paras
      <3> QED
        BY <1>3, <3>1
    <2> QED
      BY <1>4, <2>1 DEF Forks
  <1>6. b \notin Lineage[up]
    BY <1>0, <1>1, <1>4, LineageIsChain
  <1>7. up \in Lineage[b] /\ up # b
    BY <1>0, <1>1, <1>4, <1>5, <1>6, LineageIsChain
  <1>8. para[b].parent # NoPara /\ para[b].parent \in Paras /\ Live(para[b].parent)
        /\ up \in Lineage[para[b].parent]
    BY <1>1, <1>7, LineageSplits DEF InSpec
  <1>9. up <= para[b].parent
    BY <1>8, LineageIsChain
  <1> QED
    BY <1>2, <1>3, <1>8, <1>9

LEMMA ForkExists ==
    ASSUME TypeOK, RowsHang, NEW s \in Specs, NEW p \in Rows(s), NEW q \in Rows(s),
           p \notin Lineage[q]
    PROVE  \E a : Forks(p, q, a)
  <1>0. p \in Paras /\ Live(p)
    BY DEF Rows, InSpec
  <1>1. Lineage[p] \ Lineage[q] \in SUBSET Nat /\ Lineage[p] \ Lineage[q] # {}
    BY <1>0, LineageWithin DEF Paras
  <1> QED
    BY <1>1, LeastOf DEF Forks

LEMMA BeforeIsTotal ==
    ASSUME TypeOK, RowsHang, SiblingPositionsDistinct, NEW s \in Specs,
           NEW p \in Rows(s), NEW q \in Rows(s), p # q
    PROVE  Before(p, q) \/ Before(q, p)
  <1> SUFFICES ASSUME p \notin Lineage[q], q \notin Lineage[p]
               PROVE  Before(p, q) \/ Before(q, p)
    BY DEF Before
  <1>0. p \in Paras /\ q \in Paras /\ InSpec(p, s) /\ InSpec(q, s) /\ Live(p) /\ Live(q)
    BY DEF Rows, InSpec
  <1>1. PICK a : Forks(p, q, a)
    BY ForkExists
  <1>2. PICK b : Forks(q, p, b)
    BY ForkExists
  <1>3. /\ a \in Lineage[p] /\ b \in Lineage[q] /\ a # b
        /\ a \in Paras /\ b \in Paras /\ InSpec(a, s) /\ InSpec(b, s)
    BY <1>0, <1>1, <1>2, LineageWithin DEF Forks, InSpec
  <1>4. para[a].parent = para[b].parent
    <2>1. /\ para[a].parent # NoPara =>
                para[b].parent # NoPara /\ para[a].parent \in Paras /\ para[a].parent <= para[b].parent
          /\ para[b].parent # NoPara =>
                para[a].parent # NoPara /\ para[b].parent \in Paras /\ para[b].parent <= para[a].parent
      BY <1>1, <1>2, ForkFacts
    <2>2. CASE para[a].parent = NoPara
      BY <2>1, <2>2
    <2>3. CASE para[a].parent # NoPara
      <3>1. PICK x, y : x = para[a].parent /\ y = para[b].parent
        OBVIOUS
      <3>2. x \in Nat /\ y \in Nat /\ x <= y /\ y <= x
        BY <2>1, <2>3, <3>1 DEF Paras
      <3> QED
        BY <3>1, <3>2
    <2> QED
      BY <2>2, <2>3
  <1>5. para[a].position # para[b].position
    BY <1>3, <1>4 DEF SiblingPositionsDistinct, InSpec
  <1>6. para[a].position \in Nat /\ para[b].position \in Nat
    BY <1>3 DEF TypeOK, ParaRow, InSpec, Live
  <1>7. para[a].position < para[b].position \/ para[b].position < para[a].position
    BY <1>5, <1>6
  <1> QED
    BY <1>3, <1>4, <1>7 DEF Before

(* So the generated document has each rendered row once, in that order.      *)
LEMMA NthIs ==
    ASSUME TypeOK, RowsHang, SiblingPositionsDistinct, NEW s \in Specs
    PROVE  /\ Cardinality(Rendered(s)) \in Nat
           /\ \A i \in 1..Cardinality(Rendered(s)) : Nth(s, i) \in Rendered(s)
           /\ \A p \in Rendered(s) : \E i \in 1..Cardinality(Rendered(s)) : Nth(s, i) = p
  <1> DEFINE S == Rendered(s)
             R == {t \in S \X S : Before(t[1], t[2])}
             n == Cardinality(S)
  <1>1. S \subseteq Rows(s) /\ Rows(s) \subseteq Paras
    BY DEF Rendered, Rows
  <1>2. IsFiniteSet(S)
    <2>1. IsFiniteSet(Paras)
      BY SizesAssumption, FS_Interval DEF Paras
    <2> HIDE DEF S
    <2> QED
      BY <1>1, <2>1, FS_Subset
  <1>3. \A p, q \in S : <<p, q>> \in R <=> Before(p, q)
    OBVIOUS
  <1>4. /\ \A p \in S : ~Before(p, p)
        /\ \A p, q \in S : p # q => Before(p, q) \/ Before(q, p)
        /\ \A p, q, r \in S : Before(p, q) /\ Before(q, r) => Before(p, r)
    <2>1. \A p \in S : p \in Rows(s) /\ p \in Paras /\ Live(p)
      BY <1>1 DEF Rows, InSpec
    <2> HIDE DEF S, R
    <2>2. \A p \in S : ~Before(p, p)
      BY <2>1, BeforeIsStrict
    <2>3. \A p, q \in S : p # q => Before(p, q) \/ Before(q, p)
      BY <2>1, BeforeIsTotal
    <2>4. \A p, q, r \in S : Before(p, q) /\ Before(q, r) => Before(p, r)
      BY <2>1, BeforeIsTransitive
    <2> QED
      BY <2>2, <2>3, <2>4
  <1> HIDE DEF R, S
  <1>5. /\ n \in Nat
        /\ \A p \in S : Cardinality(Ahead(S, R, p)) \in 0..(n - 1)
        /\ \A p, q \in S : Cardinality(Ahead(S, R, p)) = Cardinality(Ahead(S, R, q)) => p = q
        /\ \A i \in 1..n : \E p \in S : Cardinality(Ahead(S, R, p)) = i - 1
    <2>1. TotallyOrders(R, S)
      BY <1>3, <1>4 DEF TotallyOrders
    <2> HIDE DEF n
    <2> QED
      BY <1>2, <2>1, Ranked DEF n
  <1>6. \A p \in S : {q \in S : Before(q, p)} = Ahead(S, R, p)
    BY <1>3 DEF Ahead
  <1>7. \A i : Nth(s, i) = CHOOSE p \in S : Cardinality({q \in S : Before(q, p)}) = i - 1
    BY DEF Nth, S
  <1>8. ASSUME NEW i \in 1..n
        PROVE  Nth(s, i) \in S /\ Cardinality(Ahead(S, R, Nth(s, i))) = i - 1
    <2>1. \E p \in S : Cardinality({q \in S : Before(q, p)}) = i - 1
      BY <1>5, <1>6
    <2>2. Nth(s, i) \in S /\ Cardinality({q \in S : Before(q, Nth(s, i))}) = i - 1
      BY <1>7, <2>1
    <2> QED
      BY <1>6, <2>2
  <1>9. ASSUME NEW p \in S  PROVE \E i \in 1..n : Nth(s, i) = p
    <2>1. PICK r : r = Cardinality(Ahead(S, R, p))
      OBVIOUS
    <2>2. r \in 0..(n - 1)
      BY <1>5, <2>1
    <2>3. r + 1 \in 1..n /\ (r + 1) - 1 = r
      <3> HIDE DEF n
      <3> QED
        BY <1>5, <2>2
    <2>4. Nth(s, r + 1) \in S /\ Cardinality(Ahead(S, R, Nth(s, r + 1))) = r
      BY <1>8, <2>3
    <2> QED
      BY <1>5, <2>1, <2>3, <2>4
  <1> QED
    BY <1>5, <1>8, <1>9 DEF S

(* What comes back is made of the pieces that went out, of texts, and of     *)
(* paragraphs of the reviewer's own.                                         *)
Shows(doc, p) == \E i \in 1..Len(doc) : doc[i].uuid = p
Piece(doc) ==
    {e \in [uuid : Paras \cup {NoPara}, text : Texts \cup {NoText}] :
        IF e.uuid = NoPara THEN e.text \in Texts ELSE Shows(doc, e.uuid)}

LEMMA DocumentIs ==
    ASSUME TypeOK, RowsHang, SiblingPositionsDistinct, NEW s \in Specs
    PROVE  /\ Document(s) \in Seq(Piece(Document(s)))
           /\ \A i \in 1..Len(Document(s)) :
                 /\ Document(s)[i].uuid \in Rendered(s)
                 /\ Document(s)[i].text = Shown[para[Document(s)[i].uuid].text]
           /\ \A p \in Rendered(s) : Shows(Document(s), p)
  <1> DEFINE n == Cardinality(Rendered(s))
             doc == Document(s)
  <1>1. /\ n \in Nat
        /\ \A i \in 1..n : Nth(s, i) \in Rendered(s)
        /\ \A p \in Rendered(s) : \E i \in 1..n : Nth(s, i) = p
    BY NthIs
  <1> HIDE DEF n
  <1>2. doc = [i \in 1..n |-> [uuid |-> Nth(s, i), text |-> Shown[para[Nth(s, i)].text]]]
    BY DEF Document, n
  <1> HIDE DEF doc
  <1>3. Len(doc) = n /\ \A i \in 1..n : /\ doc[i].uuid = Nth(s, i)
                                        /\ doc[i].text = Shown[para[Nth(s, i)].text]
    BY <1>1, <1>2
  <1>4. \A p \in Rendered(s) : Shows(doc, p)
    BY <1>1, <1>3 DEF Shows
  <1>5. ASSUME NEW i \in 1..n  PROVE doc[i] \in Piece(doc)
    <2>1. PICK p : p = Nth(s, i)
      OBVIOUS
    <2>2. p \in Rendered(s) /\ p \in Paras /\ Live(p) /\ p # NoPara
      BY <1>1, <2>1 DEF Rendered, Rows, InSpec, Paras, NoPara
    <2>3. para[p].text \in Texts
      BY <2>2 DEF TypeOK, Live, ParaRow
    <2>4. PICK t : t = Shown[para[p].text]
      OBVIOUS
    <2>5. t \in Texts \cup {NoText}
      BY <2>3, <2>4, ShownAssumption
    <2>6. doc[i] = [uuid |-> p, text |-> t]
      BY <1>2, <2>1, <2>4
    <2> QED
      BY <1>4, <2>2, <2>5, <2>6 DEF Piece
  <1>6. doc \in Seq(Piece(doc))
    <2>1. doc \in [1..n -> Piece(doc)]
      BY <1>2, <1>5
    <2> QED
      BY <1>1, <2>1, SeqDef
  <1> QED
    BY <1>1, <1>3, <1>4, <1>6 DEF doc

(* The text a document has for a row.                                        *)
LEMMA ControlledIs ==
    ASSUME NEW from, NEW doc \in Seq(Piece(from))
    PROVE  /\ Controlled(doc) \in [Paras -> Texts \cup {NoText}]
           /\ \A p \in Paras : ~Shows(doc, p) => Controlled(doc)[p] = NoText
           /\ \A p \in Paras : Shows(doc, p) =>
                 \E i \in 1..Len(doc) : doc[i].uuid = p /\ Controlled(doc)[p] = doc[i].text
           /\ \A p \in Paras : Controlled(doc)[p] # NoText => Shows(from, p)
  <1>0. \A i \in 1..Len(doc) : /\ doc[i].uuid \in Paras \cup {NoPara}
                               /\ doc[i].text \in Texts \cup {NoText}
                               /\ doc[i].uuid # NoPara => Shows(from, doc[i].uuid)
    BY DEF Piece
  <1>1. ASSUME NEW p \in Paras, ~Shows(doc, p)  PROVE Controlled(doc)[p] = NoText
    BY <1>1 DEF Controlled, Shows
  <1>2. ASSUME NEW p \in Paras, Shows(doc, p)
        PROVE  \E i \in 1..Len(doc) : doc[i].uuid = p /\ Controlled(doc)[p] = doc[i].text
    <2>1. PICK i : i = CHOOSE j \in 1..Len(doc) : doc[j].uuid = p
      OBVIOUS
    <2>2. i \in 1..Len(doc) /\ doc[i].uuid = p
      BY <1>2, <2>1 DEF Shows
    <2>3. Controlled(doc)[p] = doc[i].text
      BY <1>2, <2>1 DEF Controlled, Shows
    <2> QED
      BY <2>2, <2>3
  <1>3. \A p \in Paras : Controlled(doc)[p] \in Texts \cup {NoText}
    BY <1>0, <1>1, <1>2
  <1>4. Controlled(doc) = [p \in Paras |-> Controlled(doc)[p]]
    BY DEF Controlled
  <1>5. ASSUME NEW p \in Paras, Controlled(doc)[p] # NoText  PROVE Shows(from, p)
    <2>1. PICK i \in 1..Len(doc) : doc[i].uuid = p
      BY <1>1, <1>2, <1>5
    <2> QED
      BY <1>0, <2>1 DEF Paras, NoPara
  <1> QED
    BY <1>1, <1>2, <1>3, <1>4, <1>5

(* The redlines a reviewer may make, up to n of them, keep to those pieces.  *)
Redlines(doc) == Retyped(doc) \cup Struck(doc) \cup Extended(doc)
LEMMA RedlinesType ==
    ASSUME NEW from, NEW doc \in Seq(Piece(from)), NEW new \in Redlines(doc)
    PROVE  new \in Seq(Piece(from))
  <1> DEFINE S == Piece(from)
  <1>0. Len(doc) \in Nat /\ \A i \in 1..Len(doc) : doc[i] \in S
    BY LenProperties, ElementOfSeq
  <1>1. CASE new \in Retyped(doc)
    <2>1. PICK i \in 1..Len(doc), t \in Texts : new = [doc EXCEPT ![i].text = t]
      BY <1>1 DEF Retyped
    <2>2. [doc[i] EXCEPT !.text = t] \in S
      <3>1. doc[i] \in S
        BY <1>0
      <3> QED
        BY <3>1 DEF Piece
    <2>3. PICK e \in S : e = [doc[i] EXCEPT !.text = t]
      BY <2>2
    <2>4. new = [doc EXCEPT ![i] = e]
      BY <2>1, <2>3
    <2> HIDE DEF S
    <2> QED
      BY <2>4, ExceptSeq DEF S
  <1>2. CASE new \in Struck(doc)
    <2>1. PICK i \in 1..Len(doc) : new = SubSeq(doc, 1, i - 1) \o SubSeq(doc, i + 1, Len(doc))
      BY <1>2 DEF Struck, RemoveAt
    <2> HIDE DEF S
    <2>2. /\ \A j \in 1..(i - 1) : doc[j] \in S
          /\ \A j \in (i + 1)..Len(doc) : doc[j] \in S
      BY <1>0
    <2>3. /\ 1 \in Int /\ i - 1 \in Int /\ i + 1 \in Int /\ Len(doc) \in Int
      BY <1>0
    <2>4. SubSeq(doc, 1, i - 1) \in Seq(S) /\ SubSeq(doc, i + 1, Len(doc)) \in Seq(S)
      BY <2>2, <2>3, SubSeqProperties
    <2> QED
      BY <2>1, <2>4, ConcatProperties DEF S
  <1>3. CASE new \in Extended(doc)
    <2>0. PICK e : e = [uuid |-> NoPara, text |-> AddedText]
      OBVIOUS
    <2>1. PICK i \in 1..(Len(doc) + 1) :
             new = (SubSeq(doc, 1, i - 1) \o <<e>>) \o SubSeq(doc, i, Len(doc))
      BY <1>3, <2>0 DEF Extended, InsertAt
    <2>2. e \in S
      BY <2>0, ShownAssumption DEF Piece
    <2> HIDE DEF S
    <2>3. /\ \A j \in 1..(i - 1) : doc[j] \in S
          /\ \A j \in i..Len(doc) : doc[j] \in S
      BY <1>0
    <2>4. /\ 1 \in Int /\ i - 1 \in Int /\ i \in Int /\ Len(doc) \in Int
      BY <1>0
    <2>5. /\ SubSeq(doc, 1, i - 1) \in Seq(S) /\ SubSeq(doc, i, Len(doc)) \in Seq(S)
          /\ <<e>> \in Seq(S)
      BY <2>2, <2>3, <2>4, SubSeqProperties
    <2>6. SubSeq(doc, 1, i - 1) \o <<e>> \in Seq(S)
      BY <2>5, ConcatProperties
    <2> QED
      BY <2>1, <2>5, <2>6, ConcatProperties DEF S
  <1> QED
    BY <1>1, <1>2, <1>3 DEF Redlines

LEMMA RedlinedIs ==
    ASSUME issued.doc \in Seq(Piece(issued.doc))
    PROVE  \A n \in Nat : Redlined[n] \subseteq Seq(Piece(issued.doc))
  <1> DEFINE V == SUBSET Seq(Piece(issued.doc))
             b == [n \in Nat |-> [x \in V |-> x \cup UNION {Redlines(d) : d \in x}]]
             Fits(f) == f = [n \in Nat |->
                              IF n = 0 THEN {issued.doc}
                              ELSE LET fewer == f[n - 1]
                                   IN fewer \cup UNION {Retyped(d) \cup Struck(d) \cup Extended(d) : d \in fewer}]
  <1>1. {issued.doc} \in V /\ b \in [Nat -> [V -> V]]
    <2>1. ASSUME NEW x \in V  PROVE x \cup UNION {Redlines(d) : d \in x} \in V
      BY RedlinesType
    <2> QED
      BY <2>1
  <1>2. \E f \in [Nat -> V] : Iterates(f, {issued.doc}, b)
    <2> HIDE DEF V, b
    <2> QED
      BY <1>1, Iterated, Zenon
  <1>3. PICK f \in [Nat -> V] : f[0] = {issued.doc} /\ \A n \in Nat : f[n + 1] = b[n][f[n]]
    BY <1>2 DEF Iterates
  <1>4. ASSUME NEW n \in Nat
        PROVE  f[n] = IF n = 0 THEN {issued.doc}
                      ELSE f[n - 1] \cup UNION {Redlines(d) : d \in f[n - 1]}
    <2>1. CASE n = 0
      BY <1>3, <2>1
    <2>2. CASE n # 0
      <3>1. PICK m \in Nat : n = m + 1 /\ n - 1 = m
        BY <2>2
      <3>2. f[n] = b[m][f[m]] /\ f[m] \in V
        BY <1>3, <3>1
      <3> QED
        BY <2>2, <3>1, <3>2
    <2> QED
      BY <2>1, <2>2
  <1>5. Fits(f)
    <2>1. f = [n \in Nat |-> f[n]]
      BY <1>3
    <2>2. \A n \in Nat : f[n] = IF n = 0 THEN {issued.doc}
                                ELSE f[n - 1] \cup UNION {Retyped(d) \cup Struck(d) \cup Extended(d) : d \in f[n - 1]}
      BY <1>4 DEF Redlines
    <2> QED
      BY <2>1, <2>2, Zenon
  <1>6. Redlined = CHOOSE g : Fits(g)
    BY DEF Redlined
  <1>7. Fits(Redlined)
    <2> HIDE DEF Fits
    <2> QED
      BY <1>5, <1>6
  <1>8. ASSUME NEW n \in Nat
        PROVE  Redlined[n] = IF n = 0 THEN {issued.doc}
                             ELSE Redlined[n - 1] \cup UNION {Redlines(d) : d \in Redlined[n - 1]}
    BY <1>7 DEF Redlines
  <1> DEFINE T == {n \in Nat : Redlined[n] \subseteq Seq(Piece(issued.doc))}
  <1>9. 0 \in T
    <2>1. Redlined[0] = {issued.doc}
      BY <1>8
    <2> QED
      BY <2>1
  <1>10. ASSUME NEW n \in Nat, n \in T  PROVE n + 1 \in T
    <2>0. n + 1 \in Nat /\ n + 1 # 0 /\ (n + 1) - 1 = n
      OBVIOUS
    <2>1. Redlined[n + 1] = Redlined[n] \cup UNION {Redlines(d) : d \in Redlined[n]}
      BY <1>8, <2>0
    <2>2. Redlined[n] \subseteq Seq(Piece(issued.doc))
      BY <1>10
    <2>3. \A d \in Redlined[n] : Redlines(d) \subseteq Seq(Piece(issued.doc))
      BY <2>2, RedlinesType
    <2> QED
      BY <2>1, <2>2, <2>3
  <1>11. Nat \subseteq T
    <2> HIDE DEF T
    <2> QED
      BY <1>9, <1>10, CountUp
  <1> QED
    BY <1>11

(* The paragraphs of the reviewer's own, each with the anchor it follows.    *)
Anchor(from) == {p \in Paras : Shows(from, p)} \cup {NoPara}
Orphan(from) == [text : Texts, after : Anchor(from)]
LEMMA FollowedByType ==
    ASSUME NEW from, NEW doc \in Seq(Piece(from)), NEW i \in 1..Len(doc)
    PROVE  FollowedBy(doc, i) \in Anchor(from)
  <1> DEFINE anchors == {j \in 1..(i - 1) : doc[j].uuid # NoPara /\ doc[j].text # NoText}
  <1>0. Len(doc) \in Nat /\ \A j \in 1..Len(doc) : doc[j].uuid \in Anchor(from)
    <2>1. Len(doc) \in Nat /\ \A j \in 1..Len(doc) : doc[j] \in Piece(from)
      BY LenProperties, ElementOfSeq
    <2> QED
      BY <2>1 DEF Piece, Anchor
  <1>1. CASE anchors = {}
    BY <1>1 DEF FollowedBy, Anchor
  <1>2. CASE anchors # {}
    <2>1. anchors \in SUBSET Nat /\ (\A j \in anchors : j <= i) /\ i \in Nat
      BY <1>0
    <2>2. \E j \in anchors : \A k \in anchors : k <= j
      <3> HIDE DEF anchors
      <3> QED
        BY <1>2, <2>1, GreatestOf
    <2>3. PICK j : j = CHOOSE x \in anchors : \A k \in anchors : k <= x
      OBVIOUS
    <2>4. j \in anchors
      <3> HIDE DEF anchors
      <3> QED
        BY <2>2, <2>3
    <2>5. FollowedBy(doc, i) = doc[j].uuid
      BY <1>2, <2>3 DEF FollowedBy
    <2>6. j \in 1..Len(doc)
      BY <1>0, <2>4
    <2> QED
      BY <1>0, <2>5, <2>6
  <1> QED
    BY <1>1, <1>2

LEMMA OrphansType ==
    ASSUME NEW from, NEW doc \in Seq(Piece(from))
    PROVE  Orphans(doc) \in Seq(Orphan(from))
  <1> DEFINE n == Len(doc)
             V == Seq(Orphan(from))
             own(i) == [text |-> doc[i].text, after |-> FollowedBy(doc, i)]
             grow(i, x) == IF doc[i].uuid # NoPara THEN x ELSE Append(x, own(i))
             b == [i \in Nat |-> [x \in V |-> IF i + 1 \in 1..n THEN grow(i + 1, x) ELSE x]]
             Fits(f) == f = [i \in 0..n |->
                              IF i = 0 THEN <<>>
                              ELSE IF doc[i].uuid # NoPara THEN f[i - 1]
                              ELSE Append(f[i - 1], [text |-> doc[i].text, after |-> FollowedBy(doc, i)])]
  <1>0. n \in Nat /\ \A i \in 1..n : doc[i] \in Piece(from)
    BY LenProperties, ElementOfSeq
  <1>1. \A i \in 1..n : doc[i].uuid = NoPara => own(i) \in Orphan(from)
    BY <1>0, FollowedByType DEF Orphan, Piece
  <1>2. \A i \in 1..n : \A x \in V : grow(i, x) \in V
    <2> HIDE DEF own
    <2> QED
      BY <1>1
  <1>3. <<>> \in V /\ b \in [Nat -> [V -> V]]
    <2> HIDE DEF grow, n
    <2> QED
      BY <1>2, EmptySeq
  <1>a. \E g \in [Nat -> V] : Iterates(g, <<>>, b)
    <2> HIDE DEF V, b
    <2> QED
      BY <1>3, Iterated, Zenon
  <1>4. PICK g \in [Nat -> V] : g[0] = <<>> /\ \A i \in Nat : g[i + 1] = b[i][g[i]]
    BY <1>a DEF Iterates
  <1> DEFINE h == [i \in 0..n |-> g[i]]
  <1>5. ASSUME NEW i \in 0..n
        PROVE  h[i] = IF i = 0 THEN <<>>
                      ELSE IF doc[i].uuid # NoPara THEN h[i - 1] ELSE Append(h[i - 1], own(i))
    <2> HIDE DEF n, own
    <2>1. CASE i = 0
      BY <1>4, <2>1
    <2>2. CASE i # 0
      <3>1. PICK m \in Nat : i = m + 1 /\ i - 1 = m
        BY <1>0, <2>2
      <3>2. m + 1 \in 1..n /\ m \in 0..n
        BY <1>0, <3>1
      <3>3. g[i] = grow(i, g[m])
        BY <1>4, <3>1, <3>2
      <3> QED
        BY <2>2, <3>1, <3>2, <3>3
    <2> QED
      BY <2>1, <2>2
  <1>6. Fits(h)
    <2>1. h = [i \in 0..n |-> h[i]]
      OBVIOUS
    <2> HIDE DEF h, n
    <2> QED
      BY <1>5, <2>1, Zenon
  <1>7. PICK f : f = CHOOSE x : Fits(x)
    OBVIOUS
  <1>8. Fits(f)
    <2> HIDE DEF Fits
    <2> QED
      BY <1>6, <1>7
  <1>9. Orphans(doc) = f[n]
    BY <1>7 DEF Orphans
  <1> DEFINE T == {i \in Nat : i \in 0..n => f[i] \in V}
  <1>10. 0 \in T
    BY <1>0, <1>3, <1>8
  <1>11. ASSUME NEW i \in Nat, i \in T  PROVE i + 1 \in T
    <2> SUFFICES ASSUME i + 1 \in 0..n  PROVE f[i + 1] \in V
      OBVIOUS
    <2>1. i \in 0..n /\ i + 1 \in 1..n /\ i + 1 # 0 /\ (i + 1) - 1 = i
      BY <1>0
    <2>2. f[i + 1] = grow(i + 1, f[i])
      BY <1>8, <2>1
    <2> HIDE DEF grow, V
    <2> QED
      BY <1>2, <1>11, <2>1, <2>2
  <1>12. Nat \subseteq T
    <2> HIDE DEF T
    <2> QED
      BY <1>10, <1>11, CountUp
  <1>13. f[n] \in V
    BY <1>0, <1>12
  <1> QED
    BY <1>9, <1>13

-----------------------------------------------------------------------------
(* The rows a merge leaves.  They are looked at as a table, apart from the   *)
(* state, since the additions go in one by one.                              *)
Tables == [Paras -> ParaRow \cup {NoRow}]

(* What a diff carries.                                                      *)
AddedRow == [id : Paras, text : Texts, after : Paras \cup {NoPara}]
DiffTyped(d) ==
    /\ d.spec \in Specs
    /\ d.added \in Seq(AddedRow)
    /\ \A p \in Paras : /\ d.entry[p].kind \in TextKinds => d.entry[p].theirs \in Texts
                        /\ d.theirs[p] \in Texts \cup {NoText}
    /\ \A j, k \in 1..Len(d.added) : /\ d.added[j].after < d.added[k].id
                                     /\ d.added[j].id = d.added[k].id => j = k

LEMMA AddedIs ==
    ASSUME NEW d, DiffTyped(d)
    PROVE  /\ Len(d.added) \in Nat
           /\ \A k \in 1..Len(d.added) :
                 /\ d.added[k] \in AddedRow /\ d.added[k].id \in Paras
                 /\ d.added[k].text \in Texts /\ d.added[k].after \in Paras \cup {NoPara}
  <1>1. d.added \in Seq(AddedRow)
    BY DEF DiffTyped
  <1>2. Len(d.added) \in Nat /\ \A k \in 1..Len(d.added) : d.added[k] \in AddedRow
    BY <1>1, LenProperties, ElementOfSeq
  <1> QED
    BY <1>2 DEF AddedRow

(* Siblings in the table stand apart.                                        *)
Beside(rows, p, q) == /\ rows[p] # NoRow /\ rows[q] # NoRow
                      /\ rows[p].spec = rows[q].spec /\ rows[p].parent = rows[q].parent
Apart(rows) == \A p, q \in Paras : p # q /\ Beside(rows, p, q) => rows[p].position # rows[q].position

(* An addition that is a row hangs where its anchor does, further down.      *)
Stands(rows, s, id, a) ==
    /\ a \in Paras /\ rows[a] # NoRow
    /\ rows[a].spec = s /\ rows[a].type \in BodyTypes
    /\ rows[id].spec = s /\ rows[id].type \in BodyTypes
    /\ rows[id].parent = rows[a].parent /\ rows[a].position < rows[id].position
Stand(rows, d) ==
    \A j \in 1..Len(d.added) :
        rows[d.added[j].id] # NoRow => Stands(rows, d.spec, d.added[j].id, d.added[j].after)
Ordered(rows, d) ==
    \A j, k \in 1..Len(d.added) :
        /\ j < k /\ d.added[j].after = d.added[k].after
        /\ rows[d.added[j].id] # NoRow /\ rows[d.added[k].id] # NoRow
        => rows[d.added[j].id].position < rows[d.added[k].id].position

(* A row that is there stays what it is, but may move down; siblings keep    *)
(* their order, other specs everything.                                      *)
Remains(old, new) ==
    /\ new \in ParaRow /\ new.spec = old.spec /\ new.parent = old.parent /\ new.type = old.type
Held(old, new) ==
    /\ Remains(old, new)
    /\ new.text = old.text /\ new.baseVersion = old.baseVersion /\ new.vanish = old.vanish
    /\ new.acceptedFrom = old.acceptedFrom /\ new.comment = old.comment /\ new.blob = old.blob
InOrder(old, new) ==
    \A p, q \in Paras : Beside(old, p, q) /\ old[p].position < old[q].position
                           => new[p].position < new[q].position
Grows(s, old, new) ==
    /\ \A p \in Paras : old[p] # NoRow =>
          /\ new[p] # NoRow /\ Held(old[p], new[p])
          /\ old[p].spec # s => new[p] = old[p]
    /\ InOrder(old, new)

LEMMA GrowsIsPreorder ==
    ASSUME NEW s, NEW r1 \in Tables, NEW r2 \in Tables, NEW r3 \in Tables
    PROVE  /\ Grows(s, r1, r1)
           /\ Grows(s, r1, r2) /\ Grows(s, r2, r3) => Grows(s, r1, r3)
  <1>1. Grows(s, r1, r1)
    BY DEF Grows, Held, Remains, InOrder, Tables
  <1>2. ASSUME Grows(s, r1, r2), Grows(s, r2, r3)  PROVE Grows(s, r1, r3)
    <2>1. ASSUME NEW p \in Paras, r1[p] # NoRow
          PROVE  /\ r2[p] # NoRow /\ r3[p] # NoRow /\ Held(r1[p], r3[p])
                 /\ r2[p].spec = r1[p].spec /\ r2[p].parent = r1[p].parent
                 /\ r1[p].spec # s => r3[p] = r1[p]
      BY <1>2, <2>1 DEF Grows, Held, Remains
    <2>2. ASSUME NEW p \in Paras, NEW q \in Paras, Beside(r1, p, q), r1[p].position < r1[q].position
          PROVE  r3[p].position < r3[q].position
      <3>1. r2[p].position < r2[q].position
        BY <1>2, <2>2 DEF Grows, InOrder
      <3>2. Beside(r2, p, q)
        BY <2>1, <2>2 DEF Beside
      <3> QED
        BY <1>2, <3>1, <3>2 DEF Grows, InOrder
    <2> QED
      BY <2>1, <2>2 DEF Grows, InOrder
  <1> QED
    BY <1>1, <1>2

(* So additions that stand in order still do.                                *)
LEMMA GrowsKeepsAdded ==
    ASSUME NEW d, DiffTyped(d), NEW old \in Tables, NEW new \in Tables,
           \A p \in Paras : old[p] # NoRow => new[p] # NoRow /\ Remains(old[p], new[p]),
           InOrder(old, new), Stand(old, d)
    PROVE  /\ \A j \in 1..Len(d.added) : old[d.added[j].id] # NoRow =>
                 Stands(new, d.spec, d.added[j].id, d.added[j].after)
           /\ \A j, k \in 1..Len(d.added) :
                 /\ old[d.added[j].id] # NoRow /\ old[d.added[k].id] # NoRow
                 /\ d.added[j].after = d.added[k].after
                 => Beside(old, d.added[j].id, d.added[k].id)
  <1>1. ASSUME NEW j \in 1..Len(d.added), old[d.added[j].id] # NoRow
        PROVE  /\ Stands(new, d.spec, d.added[j].id, d.added[j].after)
               /\ Stands(old, d.spec, d.added[j].id, d.added[j].after)
    <2>1. PICK p \in Paras : p = d.added[j].id
      BY AddedIs
    <2>2. Stands(old, d.spec, p, d.added[j].after)
      BY <1>1, <2>1 DEF Stand
    <2>3. PICK a \in Paras : a = d.added[j].after
      BY <2>2 DEF Stands
    <2>4. Beside(old, a, p) /\ old[a].position < old[p].position
      BY <1>1, <2>1, <2>2, <2>3 DEF Stands, Beside
    <2>5. new[a].position < new[p].position
      BY <2>4 DEF InOrder
    <2>6. /\ new[a] # NoRow /\ Remains(old[a], new[a])
          /\ new[p] # NoRow /\ Remains(old[p], new[p])
      BY <2>4 DEF Beside
    <2> QED
      BY <2>1, <2>2, <2>3, <2>5, <2>6 DEF Stands, Remains
  <1>2. ASSUME NEW j \in 1..Len(d.added), NEW k \in 1..Len(d.added),
               old[d.added[j].id] # NoRow, old[d.added[k].id] # NoRow,
               d.added[j].after = d.added[k].after
        PROVE  Beside(old, d.added[j].id, d.added[k].id)
    <2>1. /\ Stands(old, d.spec, d.added[j].id, d.added[j].after)
          /\ Stands(old, d.spec, d.added[k].id, d.added[k].after)
      BY <1>1, <1>2
    <2> QED
      BY <1>2, <2>1 DEF Stands, Beside
  <1> QED
    BY <1>1, <1>2

(* resolveEffectiveAnchor: the last of the earlier additions on the same     *)
(* anchor that is a row, or the anchor when there is none.                   *)
Anchors(rows, d, k, e) ==
    \/ /\ e = d.added[k].after
       /\ \A j \in 1..(k - 1) : d.added[j].after = d.added[k].after => rows[d.added[j].id] = NoRow
    \/ \E m \in 1..(k - 1) :
          /\ e = d.added[m].id /\ d.added[m].after = d.added[k].after /\ rows[e] # NoRow
          /\ \A j \in 1..(k - 1) : d.added[j].after = d.added[k].after /\ rows[d.added[j].id] # NoRow
                                      => j <= m
LEMMA AnchorIs ==
    ASSUME NEW d, DiffTyped(d), NEW rows, NEW k \in 1..Len(d.added)
    PROVE  Anchors(rows, d, k, EffectiveAnchor(rows, d, k))
  <1> DEFINE prior == {j \in 1..(k - 1) : /\ d.added[j].after = d.added[k].after
                                          /\ rows[d.added[j].id] # NoRow}
  <1>0. k \in Nat
    BY AddedIs
  <1>1. CASE prior = {}
    <2>1. EffectiveAnchor(rows, d, k) = d.added[k].after
      BY <1>1 DEF EffectiveAnchor
    <2> QED
      BY <1>1, <2>1 DEF Anchors
  <1>2. CASE prior # {}
    <2>1. prior \in SUBSET Nat /\ \A j \in prior : j <= k
      BY <1>0
    <2>2. \E m \in prior : \A j \in prior : j <= m
      <3> HIDE DEF prior
      <3> QED
        BY <1>0, <1>2, <2>1, GreatestOf
    <2>3. PICK m : m = Max(prior)
      OBVIOUS
    <2>4. m \in prior /\ \A j \in prior : j <= m
      <3>1. \E x \in prior : \A y \in prior : x >= y
        BY <2>1, <2>2
      <3> HIDE DEF prior
      <3>2. m \in prior /\ \A y \in prior : m >= y
        BY <2>3, <3>1 DEF Max
      <3> QED
        BY <2>1, <3>2
    <2>5. EffectiveAnchor(rows, d, k) = d.added[m].id
      BY <1>2, <2>3 DEF EffectiveAnchor
    <2> QED
      BY <2>4, <2>5 DEF Anchors
  <1> QED
    BY <1>1, <1>2

(* When that anchor is a body paragraph of the spec, the addition it stands  *)
(* for is anchored as well.                                                  *)
LEMMA AnchorStands ==
    ASSUME NEW d, DiffTyped(d), NEW rows \in Tables, Stand(rows, d),
           NEW k \in 1..Len(d.added), NEW e, Anchors(rows, d, k, e),
           d.added[k].after # NoPara, rows[e] # NoRow, rows[e].spec = d.spec, rows[e].type \in BodyTypes
    PROVE  LET a == d.added[k].after IN
           /\ e \in Paras /\ a \in Paras /\ rows[a] # NoRow
           /\ rows[a].spec = d.spec /\ rows[a].type \in BodyTypes
           /\ rows[e].parent = rows[a].parent /\ rows[a].position <= rows[e].position
  <1>0. k \in Nat /\ Len(d.added) \in Nat /\ d.added[k].after \in Paras \cup {NoPara}
    BY AddedIs
  <1>1. PICK a \in Paras : a = d.added[k].after
    BY <1>0
  <1>2. CASE e = a
    <2>1. rows[e].position <= rows[e].position
      <3>1. rows[e].position \in Nat
        BY <1>1, <1>2 DEF Tables, ParaRow
      <3> QED
        BY <3>1
    <2> QED
      BY <1>0, <1>1, <1>2, <2>1
  <1>3. CASE e # a
    <2>1. PICK m \in 1..(k - 1) : e = d.added[m].id /\ d.added[m].after = a
      BY <1>1, <1>3 DEF Anchors
    <2>2. m \in 1..Len(d.added)
      BY <1>0, <2>1
    <2>3. Stands(rows, d.spec, e, a) /\ e \in Paras
      BY <2>1, <2>2, AddedIs DEF Stand
    <2>4. rows[a].position <= rows[e].position
      <3>1. rows[a] # NoRow /\ rows[a].position < rows[e].position
        BY <2>3 DEF Stands
      <3>2. rows[a].position \in Nat /\ rows[e].position \in Nat
        BY <1>1, <2>3, <3>1 DEF Tables, ParaRow
      <3> QED
        BY <3>1, <3>2
    <2> QED
      BY <1>0, <1>1, <2>3, <2>4 DEF Stands
  <1> QED
    BY <1>2, <1>3

(* insertSiblingRow makes room and puts the new row in it.                   *)
Inserted(rows, e, id, t) ==
    [ShiftedAfter(rows, rows[e]) EXCEPT ![id] = SiblingOf(rows[e], rows[e].type, t)]

LEMMA InsertedIs ==
    ASSUME NEW rows \in Tables, NEW e \in Paras, rows[e] # NoRow, rows[e].type \in BodyTypes,
           NEW id \in Paras, rows[id] = NoRow, NEW t \in Texts
    PROVE  LET new == Inserted(rows, e, id, t)
               moves(q) == /\ rows[q].spec = rows[e].spec /\ rows[q].parent = rows[e].parent
                           /\ rows[q].position > rows[e].position
           IN  /\ new \in Tables
               /\ new[id] = SiblingOf(rows[e], rows[e].type, t) /\ new[id] \in ParaRow
               /\ new[id] # NoRow
               /\ new[id].spec = rows[e].spec /\ new[id].parent = rows[e].parent
               /\ new[id].type = rows[e].type /\ new[id].text = t /\ new[id].baseVersion = 1
               /\ new[id].acceptedFrom = NoPara
               /\ new[id].position = rows[e].position + 1
               /\ \A q \in Paras : q # id =>
                     /\ rows[q] = NoRow => new[q] = NoRow
                     /\ rows[q] # NoRow =>
                           /\ Held(rows[q], new[q]) /\ new[q] # NoRow
                           /\ new[q].position = IF moves(q) THEN rows[q].position + 1
                                                ELSE rows[q].position
                           /\ rows[q].spec # rows[e].spec => new[q] = rows[q]
  <1> DEFINE new == Inserted(rows, e, id, t)
             shifted == ShiftedAfter(rows, rows[e])
             sibling == SiblingOf(rows[e], rows[e].type, t)
  <1>0. rows[e] \in ParaRow /\ rows[e].type \in NodeTypes /\ rows[e].position \in Nat
    BY DEF Tables, ParaRow
  <1>1. /\ shifted \in Tables
        /\ \A q \in Paras : (shifted[q] = NoRow) <=> (rows[q] = NoRow)
    BY <1>0, ShiftedType DEF Tables
  <1>2. sibling \in ParaRow /\ sibling.spec = rows[e].spec /\ sibling.baseVersion = 1 /\ sibling.text = t
    BY <1>0, SiblingType
  <1>3. /\ sibling.parent = rows[e].parent /\ sibling.type = rows[e].type
        /\ sibling.acceptedFrom = NoPara /\ sibling.position = rows[e].position + 1
    BY DEF SiblingOf
  <1>4. sibling # NoRow
    BY <1>2, NoRowAssumption
  <1>5. ASSUME NEW q \in Paras, rows[q] # NoRow
        PROVE  /\ Held(rows[q], shifted[q])
               /\ shifted[q].position = IF /\ rows[q].spec = rows[e].spec
                                           /\ rows[q].parent = rows[e].parent
                                           /\ rows[q].position > rows[e].position
                                        THEN rows[q].position + 1 ELSE rows[q].position
               /\ rows[q].spec # rows[e].spec => shifted[q] = rows[q]
    <2>1. rows[q] \in ParaRow
      BY <1>5 DEF Tables
    <2>2. PICK r \in ParaRow : r = rows[q]
      BY <2>1
    <2>3. PICK b \in Flag : b <=> /\ r.spec = rows[e].spec
                                  /\ r.parent = rows[e].parent
                                  /\ r.position > rows[e].position
      BY FlagType DEF Flag
    <2>4. shifted[q] = IF b THEN [r EXCEPT !.position = @ + 1] ELSE r
      BY <1>5, <2>2, <2>3 DEF ShiftedAfter
    <2>5. CASE b
      <3>1. PICK n : n = [r EXCEPT !.position = @ + 1]
        OBVIOUS
      <3>2. Held(r, n) /\ n.position = r.position + 1
        BY <2>2, <3>1 DEF Held, Remains, ParaRow
      <3> QED
        BY <2>2, <2>3, <2>4, <2>5, <3>1, <3>2
    <2>6. CASE ~b
      <3>1. Held(r, r)
        BY DEF Held, Remains
      <3> QED
        BY <2>2, <2>3, <2>4, <2>6, <3>1
    <2> QED
      BY <2>5, <2>6
  <1> HIDE DEF shifted, sibling
  <1>6. new = [shifted EXCEPT ![id] = sibling]
    BY DEF Inserted, shifted, sibling
  <1>7. new \in Tables /\ new[id] = sibling /\ \A q \in Paras : q # id => new[q] = shifted[q]
    BY <1>1, <1>2, <1>6 DEF Tables
  <1> HIDE DEF new
  <1>8. \A q \in Paras : q # id => /\ rows[q] = NoRow => new[q] = NoRow
                                   /\ rows[q] # NoRow => new[q] # NoRow
    BY <1>1, <1>7
  <1> QED
    BY <1>2, <1>3, <1>4, <1>5, <1>7, <1>8 DEF new, sibling

(* The shift frees exactly the position the new row takes, so the table      *)
(* stays apart and its rows in order.                                        *)
LEMMA InsertedGrows ==
    ASSUME NEW rows \in Tables, Apart(rows), NEW e \in Paras, rows[e] # NoRow,
           rows[e].type \in BodyTypes, NEW id \in Paras, rows[id] = NoRow, NEW t \in Texts
    PROVE  /\ Apart(Inserted(rows, e, id, t))
           /\ Grows(rows[e].spec, rows, Inserted(rows, e, id, t))
  <1> DEFINE moves(q) == /\ rows[q].spec = rows[e].spec /\ rows[q].parent = rows[e].parent
                         /\ rows[q].position > rows[e].position
  <1>1. PICK new : new = Inserted(rows, e, id, t)
    OBVIOUS
  <1>2. /\ new \in Tables /\ new[id] # NoRow
        /\ new[id].spec = rows[e].spec /\ new[id].parent = rows[e].parent
        /\ new[id].position = rows[e].position + 1
        /\ \A q \in Paras : q # id =>
              /\ rows[q] = NoRow => new[q] = NoRow
              /\ rows[q] # NoRow =>
                    /\ Held(rows[q], new[q]) /\ new[q] # NoRow
                    /\ new[q].position = IF moves(q) THEN rows[q].position + 1 ELSE rows[q].position
                    /\ rows[q].spec # rows[e].spec => new[q] = rows[q]
    BY <1>1, InsertedIs
  <1>3. \A q \in Paras : rows[q] # NoRow => rows[q].position \in Nat
    BY DEF Tables, ParaRow
  <1>4. ASSUME NEW p \in Paras, NEW q \in Paras, Beside(rows, p, q), rows[p].position < rows[q].position
        PROVE  new[p].position < new[q].position
    <2>1. /\ p # id /\ q # id
          /\ new[p].position = IF moves(p) THEN rows[p].position + 1 ELSE rows[p].position
          /\ new[q].position = IF moves(q) THEN rows[q].position + 1 ELSE rows[q].position
      BY <1>2, <1>4 DEF Beside
    <2>2. /\ rows[p].position \in Nat /\ rows[q].position \in Nat /\ rows[e].position \in Nat
          /\ rows[p].spec = rows[q].spec /\ rows[p].parent = rows[q].parent
      BY <1>3, <1>4 DEF Beside
    <2>3. moves(p) => moves(q)
      BY <1>4, <2>2
    <2> QED
      BY <1>4, <2>1, <2>2, <2>3
  <1>5. Grows(rows[e].spec, rows, new)
    BY <1>2, <1>4 DEF Grows, InOrder
  <1>6. ASSUME NEW p \in Paras, NEW q \in Paras, p # q, Beside(new, p, q)
        PROVE  new[p].position # new[q].position
    <2>1. ASSUME NEW x \in Paras, x # id, Beside(new, x, id)  PROVE new[x].position # new[id].position
      <3>1. /\ rows[x] # NoRow /\ Held(rows[x], new[x])
            /\ new[x].position = IF moves(x) THEN rows[x].position + 1 ELSE rows[x].position
        BY <1>2, <2>1 DEF Beside
      <3>2. rows[x].spec = rows[e].spec /\ rows[x].parent = rows[e].parent
        BY <1>2, <2>1, <3>1 DEF Beside, Held, Remains
      <3>3. rows[x].position \in Nat /\ rows[e].position \in Nat
        BY <1>3, <3>1
      <3> QED
        BY <1>2, <3>1, <3>2, <3>3
    <2>2. CASE p = id
      BY <1>6, <2>1, <2>2 DEF Beside
    <2>3. CASE q = id
      BY <1>6, <2>1, <2>3
    <2>4. CASE p # id /\ q # id
      <3>1. /\ rows[p] # NoRow /\ Held(rows[p], new[p])
            /\ rows[q] # NoRow /\ Held(rows[q], new[q])
        BY <1>2, <1>6, <2>4 DEF Beside
      <3>2. Beside(rows, p, q)
        BY <1>6, <3>1 DEF Beside, Held, Remains
      <3>3. rows[p].position # rows[q].position /\ rows[p].position \in Nat /\ rows[q].position \in Nat
        BY <1>3, <1>6, <3>1, <3>2 DEF Apart
      <3>4. /\ new[p].position = IF moves(p) THEN rows[p].position + 1 ELSE rows[p].position
            /\ new[q].position = IF moves(q) THEN rows[q].position + 1 ELSE rows[q].position
        BY <1>2, <2>4, <3>1
      <3>5. /\ rows[p].spec = rows[q].spec /\ rows[p].parent = rows[q].parent
            /\ rows[e].position \in Nat
        BY <1>3, <3>2 DEF Beside
      <3> QED
        BY <3>3, <3>4, <3>5
    <2> QED
      BY <2>2, <2>3, <2>4
  <1> QED
    BY <1>1, <1>5, <1>6 DEF Apart

(* The new row stands where the returned document has it: after its anchor   *)
(* and the earlier additions there, before the later ones.                   *)
LEMMA InsertedStands ==
    ASSUME NEW d, DiffTyped(d), NEW rows \in Tables, Apart(rows), Stand(rows, d), Ordered(rows, d),
           NEW k \in 1..Len(d.added), rows[d.added[k].id] = NoRow,
           NEW e, Anchors(rows, d, k, e), d.added[k].after # NoPara,
           rows[e] # NoRow, rows[e].spec = d.spec, rows[e].type \in BodyTypes
    PROVE  LET new == Inserted(rows, e, d.added[k].id, d.added[k].text) IN
           Stand(new, d) /\ Ordered(new, d)
  <1>0. /\ k \in Nat /\ Len(d.added) \in Nat
        /\ \A j \in 1..Len(d.added) : d.added[j].id \in Paras /\ j \in Nat
        /\ d.added[k].text \in Texts
    BY AddedIs
  <1>1. PICK id, a : id \in Paras /\ id = d.added[k].id /\ a = d.added[k].after
    BY <1>0
  <1>2. /\ e \in Paras /\ a \in Paras /\ rows[a] # NoRow
        /\ rows[a].spec = d.spec /\ rows[a].type \in BodyTypes
        /\ rows[e].parent = rows[a].parent /\ rows[a].position <= rows[e].position
    BY <1>1, AnchorStands
  <1>3. PICK new : new = Inserted(rows, e, id, d.added[k].text)
    OBVIOUS
  <1>4. /\ new \in Tables /\ new[id] # NoRow
        /\ new[id].spec = d.spec /\ new[id].parent = rows[e].parent
        /\ new[id].type = rows[e].type /\ new[id].position = rows[e].position + 1
        /\ \A q \in Paras : q # id =>
              /\ rows[q] = NoRow => new[q] = NoRow
              /\ rows[q] # NoRow =>
                    new[q].position = IF /\ rows[q].spec = rows[e].spec /\ rows[q].parent = rows[e].parent
                                         /\ rows[q].position > rows[e].position
                                      THEN rows[q].position + 1 ELSE rows[q].position
    BY <1>0, <1>1, <1>2, <1>3, InsertedIs
  <1>5. Grows(d.spec, rows, new)
    BY <1>0, <1>1, <1>2, <1>3, InsertedGrows
  <1>6. /\ \A p \in Paras : rows[p] # NoRow => new[p] # NoRow /\ Remains(rows[p], new[p])
        /\ InOrder(rows, new)
    BY <1>5 DEF Grows, Held
  <1>7. /\ \A j \in 1..Len(d.added) : rows[d.added[j].id] # NoRow =>
              Stands(new, d.spec, d.added[j].id, d.added[j].after)
        /\ \A i, j \in 1..Len(d.added) :
              /\ rows[d.added[i].id] # NoRow /\ rows[d.added[j].id] # NoRow
              /\ d.added[i].after = d.added[j].after
              => Beside(rows, d.added[i].id, d.added[j].id)
    BY <1>4, <1>6, GrowsKeepsAdded
  <1>8. ASSUME NEW j \in 1..Len(d.added), j # k
        PROVE  d.added[j].id # id /\ (new[d.added[j].id] # NoRow => rows[d.added[j].id] # NoRow)
    <2>1. d.added[j].id # id
      BY <1>1, <1>8 DEF DiffTyped
    <2> QED
      BY <1>0, <1>4, <2>1
  <1>9. \A q \in Paras : rows[q] # NoRow => rows[q].position \in Nat
    BY DEF Tables, ParaRow
  <1>10. Stand(new, d)
    <2>1. Stands(new, d.spec, id, a)
      <3>1. /\ new[a] # NoRow /\ Remains(rows[a], new[a]) /\ a # id
        BY <1>1, <1>2, <1>6
      <3>2. new[a].position = rows[a].position
        <4>1. ~(rows[a].position > rows[e].position)
          BY <1>2, <1>9
        <4> QED
          BY <1>2, <1>4, <3>1, <4>1
      <3>3. new[a].position < new[id].position
        BY <1>2, <1>4, <1>9, <3>2
      <3> QED
        BY <1>2, <1>4, <3>1, <3>3 DEF Stands, Remains
    <2>2. ASSUME NEW j \in 1..Len(d.added), new[d.added[j].id] # NoRow
          PROVE  Stands(new, d.spec, d.added[j].id, d.added[j].after)
      BY <1>1, <1>7, <1>8, <2>1, <2>2
    <2> QED
      BY <2>2 DEF Stand
  <1>11. ASSUME NEW j \in 1..Len(d.added), j # k, d.added[j].after = a, new[d.added[j].id] # NoRow
         PROVE  /\ j < k => new[d.added[j].id].position < new[id].position
                /\ k < j => new[id].position < new[d.added[j].id].position
    <2>1. PICK q \in Paras : q = d.added[j].id
      BY <1>0
    <2>2. rows[q] # NoRow /\ q # id
      BY <1>8, <1>11, <2>1
    <2>3. Stands(rows, d.spec, q, a)
      BY <1>11, <2>1, <2>2 DEF Stand
    <2>4. rows[q].spec = rows[e].spec /\ rows[q].parent = rows[e].parent
      BY <1>2, <2>3 DEF Stands
    <2>5. rows[q].position \in Nat /\ rows[e].position \in Nat
      BY <1>2, <1>9, <2>2
    <2>6. new[q].position = IF rows[q].position > rows[e].position
                            THEN rows[q].position + 1 ELSE rows[q].position
      BY <1>4, <2>2, <2>4
    <2>7. ASSUME j < k  PROVE rows[q].position <= rows[e].position
      <3>0. j \in 1..(k - 1)
        BY <1>0, <2>7
      <3>1. PICK m \in 1..(k - 1) : /\ e = d.added[m].id /\ d.added[m].after = a
                                    /\ j <= m /\ rows[e] # NoRow
        BY <1>1, <1>11, <2>1, <2>2, <3>0 DEF Anchors
      <3>2. m \in 1..Len(d.added) /\ m \in Nat
        BY <1>0, <3>1
      <3>3. CASE j = m
        BY <2>1, <2>5, <3>1, <3>3
      <3>4. CASE j # m
        <4>1. j < m
          BY <1>0, <3>1, <3>2, <3>4
        <4>2. rows[q].position < rows[e].position
          BY <1>11, <2>1, <2>2, <3>1, <3>2, <4>1 DEF Ordered
        <4> QED
          BY <2>5, <4>2
      <3> QED
        BY <3>3, <3>4
    <2>8. ASSUME k < j  PROVE rows[q].position > rows[e].position
      <3>1. CASE e = a
        BY <2>3, <2>5, <3>1 DEF Stands
      <3>2. CASE e # a
        <4>1. PICK m \in 1..(k - 1) : e = d.added[m].id /\ d.added[m].after = a
          BY <1>1, <3>2 DEF Anchors
        <4>2. m \in 1..Len(d.added) /\ m < j
          BY <1>0, <2>8, <4>1
        <4>3. rows[e].position < rows[q].position
          BY <1>11, <2>1, <2>2, <4>1, <4>2 DEF Ordered
        <4> QED
          BY <2>5, <4>3
      <3> QED
        BY <3>1, <3>2
    <2> QED
      BY <1>4, <2>1, <2>5, <2>6, <2>7, <2>8
  <1>12. Ordered(new, d)
    <2> SUFFICES ASSUME NEW i \in 1..Len(d.added), NEW j \in 1..Len(d.added), i < j,
                        d.added[i].after = d.added[j].after,
                        new[d.added[i].id] # NoRow, new[d.added[j].id] # NoRow
                 PROVE  new[d.added[i].id].position < new[d.added[j].id].position
      BY DEF Ordered
    <2>1. i \in Nat /\ j \in Nat /\ i # j
      BY <1>0
    <2>2. CASE i = k
      BY <1>1, <1>11, <2>1, <2>2
    <2>3. CASE j = k
      BY <1>1, <1>11, <2>1, <2>3
    <2>4. CASE i # k /\ j # k
      <3>1. rows[d.added[i].id] # NoRow /\ rows[d.added[j].id] # NoRow
        BY <1>8, <2>4
      <3>2. rows[d.added[i].id].position < rows[d.added[j].id].position
        BY <3>1 DEF Ordered
      <3>3. Beside(rows, d.added[i].id, d.added[j].id)
        BY <1>7, <3>1
      <3> QED
        BY <1>0, <1>6, <3>2, <3>3 DEF InOrder
    <2> QED
      BY <2>2, <2>3, <2>4
  <1> QED
    BY <1>1, <1>3, <1>10, <1>12

-----------------------------------------------------------------------------
(* The entries of a merge: a row that is accepted is edited in place, or     *)
(* left alone when it is already as asked.                                   *)
LEMMA RetextedPlace ==
    ASSUME NEW row \in ParaRow, NEW t \in Texts
    PROVE  /\ SamePlace(row, Touched(Retexted(row, t)))
           /\ Touched(Retexted(row, t)).text = t
           /\ Touched(Retexted(row, t)).baseVersion = row.baseVersion + 1
           /\ Touched(Retexted(row, t)).vanish = row.vanish
  <1> DEFINE r == Retexted(row, t)
             x == [row EXCEPT !.text = t]
  <1>1. r \in ParaRow /\ r.text = t /\ r.baseVersion = row.baseVersion
    BY RetextedType
  <1>2. x \in ParaRow /\ x.spec = row.spec /\ x.parent = row.parent
        /\ x.position = row.position /\ x.type = row.type
        /\ x.acceptedFrom = row.acceptedFrom /\ x.comment = row.comment
        /\ x.text = t /\ x.vanish = row.vanish
    BY DEF ParaRow
  <1> HIDE DEF x
  <1>3. r = IF x.type = "objectText" THEN [x EXCEPT !.blob = t] ELSE x
    BY DEF r, x, Retexted, BlobRewritten
  <1> HIDE DEF r
  <1>4. /\ r.spec = row.spec /\ r.parent = row.parent
        /\ r.position = row.position /\ r.type = row.type
        /\ r.acceptedFrom = row.acceptedFrom /\ r.comment = row.comment
        /\ r.type = "objectText" => r.blob = r.text
        /\ r.vanish = row.vanish
    BY <1>2, <1>3 DEF ParaRow
  <1>5. SamePlace(row, r)
    BY <1>1, <1>4 DEF SamePlace
  <1>6. Touched(r).vanish = r.vanish
    BY <1>1 DEF Touched, ParaRow
  <1> QED
    BY <1>1, <1>4, <1>5, <1>6, TouchedPlace, TouchedType DEF r

LEMMA VanishedPlace ==
    ASSUME NEW row \in ParaRow
    PROVE  /\ SamePlace(row, Vanished(row, TRUE))
           /\ Vanished(row, TRUE).text = row.text
           /\ Vanished(row, TRUE).baseVersion = row.baseVersion + 1
           /\ Vanished(row, TRUE).vanish
  <1>1. TRUE \in Flag /\ "none" \in CommentStates
    BY FlagType DEF CommentStates
  <1>2. SamePlace(row, Vanished(row, TRUE))
    BY <1>1, TogglePlace
  <1>3. [row EXCEPT !.vanish = TRUE] \in ParaRow
    BY <1>1 DEF ParaRow
  <1>4. PICK x \in ParaRow : x = [row EXCEPT !.vanish = TRUE]
    BY <1>3
  <1>5. x.text = row.text /\ x.baseVersion = row.baseVersion
    BY <1>4 DEF ParaRow
  <1>6. x.vanish
    BY <1>4, Zenon DEF ParaRow
  <1>7. Touched(x).vanish = x.vanish
    BY DEF Touched, ParaRow
  <1> QED
    BY <1>2, <1>4, <1>5, <1>6, <1>7, TouchedType DEF Vanished

Entered(d, accept) ==
    [p \in Paras |-> IF p \in accept \cap Entries(d) THEN MergedRow(d, p) ELSE para[p]]
EnteredTells(d, accept, p, row) ==
    /\ SamePlace(para[p], row)
    /\ \/ row = para[p]
       \/ p \in accept /\ para[p].spec = d.spec /\ row.baseVersion = para[p].baseVersion + 1
    /\ p \notin accept \cap Entries(d) => row = para[p]
    /\ p \in accept \cap Entries(d) =>
          /\ row = MergedRow(d, p) /\ InSpec(p, d.spec)
          /\ d.entry[p].kind \in TextKinds =>
                /\ row.text = d.entry[p].theirs /\ row.vanish = para[p].vanish
                /\ para[p].text \in {d.entry[p].theirs, d.entry[p].ours}
          /\ d.entry[p].kind \notin TextKinds =>
                /\ row.text = para[p].text /\ row.vanish /\ para[p].type \in BodyTypes
                /\ d.entry[p].kind \in DeleteKinds
                /\ d.entry[p].kind = "deleteConflict" => para[p].text = d.entry[p].ours
LEMMA EnteredIs ==
    ASSUME TypeOK, NEW d, DiffTyped(d), NEW accept,
           \A p \in accept \cap Entries(d) : EntryApplies(d, p)
    PROVE  /\ Entered(d, accept) \in Tables
           /\ \A p \in Paras : /\ (Entered(d, accept)[p] = NoRow) <=> ~Live(p)
                               /\ Live(p) => EnteredTells(d, accept, p, Entered(d, accept)[p])
  <1>1. ASSUME NEW p \in Paras, Live(p)
        PROVE  EnteredTells(d, accept, p, Entered(d, accept)[p])
    <2>0. para[p] \in ParaRow
      BY <1>1 DEF TypeOK, Live
    <2>1. PICK row : row = Entered(d, accept)[p]
      OBVIOUS
    <2>2. SamePlace(para[p], para[p])
      BY <2>0 DEF SamePlace
    <2>3. CASE p \notin accept \cap Entries(d)
      BY <2>1, <2>2, <2>3 DEF Entered, EnteredTells
    <2>4. CASE p \in accept \cap Entries(d)
      <3>0. EntryApplies(d, p) /\ row = MergedRow(d, p)
        BY <2>1, <2>4 DEF Entered
      <3>1. CASE d.entry[p].kind \in TextKinds
        <4>1. TextApplies(d, p) /\ d.entry[p].theirs \in Texts
          BY <3>0, <3>1 DEF EntryApplies, TextKinds, DeleteKinds, DiffTyped
        <4>2. row = IF para[p].text = d.entry[p].theirs THEN para[p]
                    ELSE Touched(Retexted(para[p], d.entry[p].theirs))
          BY <3>0, <3>1 DEF MergedRow
        <4>3. /\ SamePlace(para[p], row) /\ row.text = d.entry[p].theirs
              /\ row.vanish = para[p].vanish
              /\ row = para[p] \/ row.baseVersion = para[p].baseVersion + 1
          BY <2>0, <2>2, <4>1, <4>2, RetextedPlace
        <4> QED
          BY <2>1, <2>4, <3>0, <3>1, <4>1, <4>3 DEF EnteredTells, TextApplies, InSpec
      <3>2. CASE d.entry[p].kind \notin TextKinds
        <4>1. DeleteApplies(d, p) /\ d.entry[p].kind \in DeleteKinds
          BY <3>0, <3>2 DEF EntryApplies
        <4>2. row = IF para[p].vanish THEN para[p] ELSE Vanished(para[p], TRUE)
          BY <3>0, <3>2 DEF MergedRow
        <4>3. /\ SamePlace(para[p], row) /\ row.text = para[p].text
              /\ row = para[p] \/ row.baseVersion = para[p].baseVersion + 1
          BY <2>0, <2>2, <4>2, VanishedPlace
        <4>4. row.vanish
          <5>1. CASE para[p].vanish
            BY <4>2, <5>1
          <5>2. CASE ~para[p].vanish
            BY <2>0, <4>2, <5>2, VanishedPlace
          <5> QED
            BY <5>1, <5>2
        <4> QED
          BY <2>1, <2>4, <3>0, <3>2, <4>1, <4>3, <4>4 DEF EnteredTells, DeleteApplies, InSpec
      <3> QED
        BY <3>1, <3>2
    <2> QED
      BY <2>3, <2>4
  <1>2. ASSUME NEW p \in Paras, ~Live(p)  PROVE Entered(d, accept)[p] = NoRow
    <2>1. p \notin accept \cap Entries(d)
      BY <1>2 DEF EntryApplies, TextApplies, DeleteApplies, InSpec
    <2> QED
      BY <1>2, <2>1 DEF Entered, Live
  <1>3. \A p \in Paras : Live(p) => Entered(d, accept)[p] \in ParaRow /\ Entered(d, accept)[p] # NoRow
    BY <1>1, NoRowAssumption DEF EnteredTells, SamePlace
  <1>4. Entered(d, accept) \in Tables
    <2>1. \A p \in Paras : Entered(d, accept)[p] \in ParaRow \cup {NoRow}
      BY <1>2, <1>3
    <2> QED
      BY <2>1 DEF Entered, Tables
  <1> QED
    BY <1>1, <1>2, <1>3, <1>4

-----------------------------------------------------------------------------
(* The additions of a merge.                                                 *)
States == [ok : Flag, rows : Tables]

(* An addition is refused, is there already, or comes in.                    *)
Anchored(st, d, k, e) ==
    /\ d.added[k].after # NoPara
    /\ st.rows[e] # NoRow /\ st.rows[e].spec = d.spec /\ st.rows[e].type \in BodyTypes
LEMMA InsertAddedIs ==
    ASSUME NEW d, DiffTyped(d), NEW st \in States, NEW k \in 1..Len(d.added)
    PROVE  LET id == d.added[k].id
               e == EffectiveAnchor(st.rows, d, k)
               next == InsertAdded(st, d, k)
           IN  /\ next \in States
               /\ ~(st.ok /\ Anchored(st, d, k, e)) => ~next.ok
               /\ st.ok /\ Anchored(st, d, k, e) =>
                     IF st.rows[id] # NoRow
                     THEN next.rows = st.rows /\ (next.ok <=> st.rows[id].text = d.added[k].text)
                     ELSE next.ok /\ next.rows = Inserted(st.rows, e, id, d.added[k].text)
  <1>1. PICK e : e = EffectiveAnchor(st.rows, d, k)
    OBVIOUS
  <1>2. PICK id, t : id \in Paras /\ t \in Texts /\ id = d.added[k].id /\ t = d.added[k].text
    BY AddedIs
  <1>3. PICK b \in Flag : b <=> (st.ok /\ Anchored(st, d, k, e))
    BY FlagType DEF Flag
  <1>4. PICK c \in Flag : c <=> (st.rows[id].text = t)
    BY FlagType DEF Flag
  <1>5. st.ok \in Flag /\ st.rows \in Tables
    BY DEF States
  <1>6. CASE ~b
    <2>1. InsertAdded(st, d, k) = [st EXCEPT !.ok = FALSE]
      BY <1>1, <1>3, <1>6 DEF InsertAdded, Anchored
    <2>2. InsertAdded(st, d, k) \in States
      BY <2>1, FlagType DEF States
    <2>3. ~InsertAdded(st, d, k).ok
      BY <2>1 DEF States
    <2> QED
      BY <1>1, <1>3, <1>6, <2>2, <2>3
  <1>7. CASE b /\ st.rows[id] # NoRow
    <2>1. InsertAdded(st, d, k) = [st EXCEPT !.ok = (st.rows[id].text = t)]
      BY <1>1, <1>2, <1>3, <1>7, Zenon DEF InsertAdded, Anchored
    <2>2. (st.rows[id].text = t) = c
      BY <1>4 DEF Flag
    <2>3. InsertAdded(st, d, k) = [st EXCEPT !.ok = c]
      BY <2>1, <2>2
    <2>4. InsertAdded(st, d, k) \in States
      BY <2>3 DEF States
    <2>5. InsertAdded(st, d, k).rows = st.rows /\ InsertAdded(st, d, k).ok = c
      BY <2>3 DEF States
    <2> QED
      BY <1>1, <1>2, <1>3, <1>4, <1>7, <2>4, <2>5
  <1>8. CASE b /\ st.rows[id] = NoRow
    <2>1. InsertAdded(st, d, k) = [ok |-> TRUE, rows |-> Inserted(st.rows, e, id, t)]
      BY <1>1, <1>2, <1>3, <1>8 DEF InsertAdded, Anchored, Inserted
    <2>2. e \in Paras
      <3>1. Anchors(st.rows, d, k, e) /\ d.added[k].after # NoPara
        BY <1>1, <1>3, <1>8, AnchorIs DEF Anchored
      <3>2. CASE e = d.added[k].after
        BY <3>1, <3>2, AddedIs
      <3>3. CASE e # d.added[k].after
        <4>1. PICK m \in 1..(k - 1) : e = d.added[m].id
          BY <3>1, <3>3 DEF Anchors
        <4>2. m \in 1..Len(d.added)
          BY <4>1, AddedIs
        <4> QED
          BY <4>1, <4>2, AddedIs
      <3> QED
        BY <3>2, <3>3
    <2>3. Inserted(st.rows, e, id, t) \in Tables
      BY <1>2, <1>3, <1>5, <1>8, <2>2, InsertedIs DEF Anchored
    <2>4. InsertAdded(st, d, k) \in States
      <3>1. TRUE \in Flag
        BY FlagType
      <3>2. [ok |-> TRUE, rows |-> Inserted(st.rows, e, id, t)] \in States
        BY <2>3, <3>1, Zenon DEF States
      <3> QED
        BY <2>1, <3>2
    <2>5. InsertAdded(st, d, k).rows = Inserted(st.rows, e, id, t) /\ InsertAdded(st, d, k).ok
      BY <2>1
    <2> QED
      BY <1>1, <1>2, <1>3, <1>8, <2>4, <2>5
  <1> QED
    BY <1>6, <1>7, <1>8

(* What the additions up to the k-th make of the rows that were entered.     *)
Grown(d, accept, entered, k, st) ==
    st.ok =>
        /\ Apart(st.rows) /\ Stand(st.rows, d) /\ Ordered(st.rows, d)
        /\ Grows(d.spec, entered, st.rows)
        /\ \A j \in 1..k : d.added[j].id \in accept =>
              st.rows[d.added[j].id] # NoRow /\ st.rows[d.added[j].id].text = d.added[j].text
        /\ \A p \in Paras : entered[p] = NoRow /\ st.rows[p] # NoRow =>
              /\ \E j \in 1..Len(d.added) : p = d.added[j].id
              /\ p \in accept
              /\ st.rows[p].baseVersion = 1 /\ st.rows[p].acceptedFrom = NoPara

LEMMA GrownStep ==
    ASSUME NEW d, DiffTyped(d), NEW accept, NEW entered \in Tables, NEW st \in States,
           NEW k \in 1..Len(d.added), d.added[k].id \in accept,
           Grown(d, accept, entered, k - 1, st)
    PROVE  Grown(d, accept, entered, k, InsertAdded(st, d, k))
  <1>1. PICK next : next = InsertAdded(st, d, k)
    OBVIOUS
  <1> SUFFICES ASSUME next.ok  PROVE Grown(d, accept, entered, k, next)
    BY <1>1 DEF Grown
  <1>2. PICK e : e = EffectiveAnchor(st.rows, d, k)
    OBVIOUS
  <1>3. PICK id, t : id \in Paras /\ t \in Texts /\ id = d.added[k].id /\ t = d.added[k].text
    BY AddedIs
  <1>4. /\ next \in States /\ st.ok /\ Anchored(st, d, k, e)
        /\ IF st.rows[id] # NoRow THEN next.rows = st.rows /\ st.rows[id].text = t
           ELSE next.rows = Inserted(st.rows, e, id, t)
    BY <1>1, <1>2, <1>3, InsertAddedIs
  <1>5. /\ Apart(st.rows) /\ Stand(st.rows, d) /\ Ordered(st.rows, d)
        /\ Grows(d.spec, entered, st.rows)
        /\ \A j \in 1..(k - 1) : d.added[j].id \in accept =>
              st.rows[d.added[j].id] # NoRow /\ st.rows[d.added[j].id].text = d.added[j].text
        /\ \A p \in Paras : entered[p] = NoRow /\ st.rows[p] # NoRow =>
              /\ \E j \in 1..Len(d.added) : p = d.added[j].id
              /\ p \in accept
              /\ st.rows[p].baseVersion = 1 /\ st.rows[p].acceptedFrom = NoPara
    BY <1>4 DEF Grown
  <1>6. /\ k \in Nat /\ \A j \in 1..k : j = k \/ j \in 1..(k - 1)
        /\ \A j \in 1..k : j \in 1..Len(d.added)
    BY AddedIs
  <1>7. CASE st.rows[id] # NoRow
    BY <1>3, <1>4, <1>5, <1>6, <1>7 DEF Grown
  <1>8. CASE st.rows[id] = NoRow
    <2>0. st.rows \in Tables /\ next.rows \in Tables
      BY <1>4 DEF States
    <2>1. Anchors(st.rows, d, k, e)
      BY <1>2, AnchorIs
    <2>2. e \in Paras
      BY <1>4, <1>5, <2>0, <2>1, AnchorStands DEF Anchored
    <2>3. /\ next.rows[id] # NoRow /\ next.rows[id].text = t
          /\ next.rows[id].baseVersion = 1 /\ next.rows[id].acceptedFrom = NoPara
          /\ \A q \in Paras : q # id =>
                /\ st.rows[q] = NoRow => next.rows[q] = NoRow
                /\ st.rows[q] # NoRow => Held(st.rows[q], next.rows[q])
      BY <1>3, <1>4, <1>8, <2>0, <2>2, InsertedIs DEF Anchored
    <2>4. Apart(next.rows) /\ Grows(d.spec, st.rows, next.rows)
      BY <1>3, <1>4, <1>5, <1>8, <2>0, <2>2, InsertedGrows DEF Anchored
    <2>5. Stand(next.rows, d) /\ Ordered(next.rows, d)
      BY <1>3, <1>4, <1>5, <1>8, <2>0, <2>1, InsertedStands DEF Anchored
    <2>6. Grows(d.spec, entered, next.rows)
      BY <1>5, <2>0, <2>4, GrowsIsPreorder
    <2>7. ASSUME NEW j \in 1..k, d.added[j].id \in accept
          PROVE  next.rows[d.added[j].id] # NoRow /\ next.rows[d.added[j].id].text = d.added[j].text
      <3>1. CASE j = k
        BY <1>3, <2>3, <3>1
      <3>2. CASE j # k
        <4>1. /\ st.rows[d.added[j].id] # NoRow /\ st.rows[d.added[j].id].text = d.added[j].text
              /\ d.added[j].id \in Paras
          BY <1>5, <1>6, <2>7, <3>2, AddedIs
        <4> QED
          BY <2>4, <4>1 DEF Grows, Held
      <3> QED
        BY <3>1, <3>2
    <2>8. ASSUME NEW p \in Paras, entered[p] = NoRow, next.rows[p] # NoRow
          PROVE  /\ \E j \in 1..Len(d.added) : p = d.added[j].id
                 /\ p \in accept
                 /\ next.rows[p].baseVersion = 1 /\ next.rows[p].acceptedFrom = NoPara
      <3>1. CASE p = id
        BY <1>3, <2>3, <3>1
      <3>2. CASE p # id
        BY <1>5, <2>3, <2>8, <3>2 DEF Held
      <3> QED
        BY <3>1, <3>2
    <2> QED
      BY <2>4, <2>5, <2>6, <2>7, <2>8 DEF Grown
  <1> QED
    BY <1>7, <1>8

(* applyAccepted goes through the additions one by one.                      *)
Folds(f, d, accept) ==
    /\ f[0] = [ok |-> TRUE, rows |-> Entered(d, accept)]
    /\ \A k \in 1..Len(d.added) :
          f[k] = IF d.added[k].id \in accept THEN InsertAdded(f[k - 1], d, k) ELSE f[k - 1]
LEMMA MergeOutcomeIs ==
    ASSUME NEW d, DiffTyped(d), NEW accept, Entered(d, accept) \in Tables
    PROVE  \E f \in [0..Len(d.added) -> States] :
              Folds(f, d, accept) /\ MergeOutcome(d, accept) = f[Len(d.added)]
  <1> DEFINE n == Len(d.added)
             first == [ok |-> TRUE, rows |-> Entered(d, accept)]
             grow(k, x) == IF d.added[k].id \in accept THEN InsertAdded(x, d, k) ELSE x
             b == [i \in Nat |-> [x \in States |-> IF i + 1 \in 1..n THEN grow(i + 1, x) ELSE x]]
             Fits(f) == f = [k \in 0..n |->
                              IF k = 0 THEN [ok |-> TRUE, rows |-> Entered(d, accept)]
                              ELSE IF d.added[k].id \in accept THEN InsertAdded(f[k - 1], d, k)
                              ELSE f[k - 1]]
  <1>0. n \in Nat
    BY AddedIs
  <1>1. first \in States
    <2>1. TRUE \in Flag
      BY FlagType
    <2> QED
      BY <2>1, Zenon DEF States
  <1>2. \A k \in 1..n : \A x \in States : grow(k, x) \in States
    BY InsertAddedIs
  <1>3. b \in [Nat -> [States -> States]]
    <2> HIDE DEF grow, n
    <2> QED
      BY <1>2
  <1>4. \E g \in [Nat -> States] : Iterates(g, first, b)
    <2> HIDE DEF b, first
    <2> QED
      BY <1>1, <1>3, Iterated, Zenon
  <1>5. PICK g \in [Nat -> States] : g[0] = first /\ \A i \in Nat : g[i + 1] = b[i][g[i]]
    BY <1>4 DEF Iterates
  <1> DEFINE h == [k \in 0..n |-> g[k]]
  <1>6. ASSUME NEW k \in 0..n
        PROVE  h[k] = IF k = 0 THEN first ELSE grow(k, h[k - 1])
    <2> HIDE DEF n, first, grow
    <2>1. CASE k = 0
      BY <1>5, <2>1
    <2>2. CASE k # 0
      <3>1. PICK m \in Nat : k = m + 1 /\ k - 1 = m
        BY <1>0, <2>2
      <3>2. m + 1 \in 1..n /\ m \in 0..n
        BY <1>0, <3>1
      <3>3. g[k] = grow(k, g[m])
        BY <1>5, <3>1, <3>2
      <3> QED
        BY <2>2, <3>1, <3>2, <3>3
    <2> QED
      BY <2>1, <2>2
  <1>7. Fits(h)
    <2>1. h = [k \in 0..n |-> h[k]]
      OBVIOUS
    <2> HIDE DEF h, n
    <2> QED
      BY <1>6, <2>1, Zenon
  <1>8. PICK f : f = CHOOSE x : Fits(x)
    OBVIOUS
  <1>9. Fits(f)
    <2> HIDE DEF Fits
    <2> QED
      BY <1>7, <1>8
  <1>10. MergeOutcome(d, accept) = f[n]
    BY <1>8 DEF MergeOutcome, Entered
  <1>11. f[0] = first
    BY <1>0, <1>9
  <1>12. \A k \in 1..n : f[k] = grow(k, f[k - 1])
    <2> SUFFICES ASSUME NEW k \in 1..n  PROVE f[k] = grow(k, f[k - 1])
      OBVIOUS
    <2>1. k \in 0..n /\ k # 0
      BY <1>0
    <2> QED
      BY <1>9, <2>1
  <1> DEFINE T == {k \in Nat : k \in 0..n => f[k] \in States}
  <1>13. 0 \in T
    BY <1>1, <1>11
  <1>14. ASSUME NEW k \in Nat, k \in T  PROVE k + 1 \in T
    <2> SUFFICES ASSUME k + 1 \in 0..n  PROVE f[k + 1] \in States
      OBVIOUS
    <2>1. k \in 0..n /\ k + 1 \in 1..n /\ (k + 1) - 1 = k
      BY <1>0
    <2> HIDE DEF grow
    <2>2. f[k + 1] = grow(k + 1, f[k])
      BY <1>12, <2>1
    <2> QED
      BY <1>2, <1>14, <2>1, <2>2
  <1>15. Nat \subseteq T
    <2> HIDE DEF T
    <2> QED
      BY <1>13, <1>14, CountUp
  <1>16. f \in [0..n -> States]
    <2>1. \A k \in 0..n : f[k] \in States
      BY <1>0, <1>15
    <2>2. f = [k \in 0..n |-> f[k]]
      <3>1. DOMAIN f = 0..n /\ f = [k \in DOMAIN f |-> f[k]]
        BY <1>9
      <3> HIDE DEF Fits
      <3> QED
        BY <3>1
    <2> HIDE DEF Fits
    <2> QED
      BY <2>1, <2>2
  <1>17. Folds(f, d, accept)
    BY <1>11, <1>12 DEF Folds
  <1> HIDE DEF Fits
  <1> QED
    BY <1>10, <1>16, <1>17

(* So, when a merge succeeds, its rows are those entered with every accepted *)
(* addition among them.                                                      *)
LEMMA MergeGrows ==
    ASSUME NEW d, DiffTyped(d), NEW accept, NEW entered, entered = Entered(d, accept),
           entered \in Tables, Apart(entered), Stand(entered, d), Ordered(entered, d)
    PROVE  /\ MergeOutcome(d, accept) \in States
           /\ Grown(d, accept, entered, Len(d.added), MergeOutcome(d, accept))
  <1>1. PICK n : n = Len(d.added)
    OBVIOUS
  <1>0. n \in Nat
    BY <1>1, AddedIs
  <1>2. PICK f \in [0..n -> States] : Folds(f, d, accept) /\ MergeOutcome(d, accept) = f[n]
    BY <1>1, MergeOutcomeIs
  <1> DEFINE T == {k \in Nat : k \in 0..n => Grown(d, accept, entered, k, f[k])}
  <1>3. 0 \in T
    <2>1. f[0].rows = entered
      BY <1>2 DEF Folds
    <2>2. Grows(d.spec, entered, entered)
      BY GrowsIsPreorder
    <2>3. Grown(d, accept, entered, 0, f[0])
      BY <2>1, <2>2 DEF Grown
    <2> QED
      BY <2>3
  <1>4. ASSUME NEW k \in Nat, k \in T  PROVE k + 1 \in T
    <2> SUFFICES ASSUME k + 1 \in 0..n  PROVE Grown(d, accept, entered, k + 1, f[k + 1])
      OBVIOUS
    <2>1. k \in 0..n /\ k + 1 \in 1..n /\ (k + 1) - 1 = k
      BY <1>0
    <2>2. Grown(d, accept, entered, k, f[k]) /\ f[k] \in States
      BY <1>2, <1>4, <2>1
    <2>3. f[k + 1] = IF d.added[k + 1].id \in accept THEN InsertAdded(f[k], d, k + 1) ELSE f[k]
      BY <1>1, <1>2, <2>1 DEF Folds
    <2>4. CASE d.added[k + 1].id \in accept
      BY <1>1, <2>1, <2>2, <2>3, <2>4, GrownStep
    <2>5. CASE d.added[k + 1].id \notin accept
      <3>1. \A j \in 1..(k + 1) : j \in 1..k \/ j = k + 1
        OBVIOUS
      <3> QED
        BY <2>2, <2>3, <2>5, <3>1 DEF Grown
    <2> QED
      BY <2>4, <2>5
  <1>5. Nat \subseteq T
    <2> HIDE DEF T
    <2> QED
      BY <1>3, <1>4, CountUp
  <1>6. n \in 0..n
    BY <1>0
  <1> QED
    BY <1>0, <1>1, <1>2, <1>5, <1>6

-----------------------------------------------------------------------------
(* A merge call on the tables. *)

(* A row that was there stays where it is in its tree and what it is.        *)
Kept(p) ==
    /\ para'[p] # NoRow /\ Remains(para[p], para'[p])
    /\ para'[p].acceptedFrom = para[p].acceptedFrom
    /\ (para'[p].comment = "none") <=> (para[p].comment = "none")
    /\ para'[p].type = "objectText" /\ para[p].blob = para[p].text => para'[p].blob = para'[p].text
(* A row that was not is an accepted addition.                               *)
Arrives(d, accept, p) ==
    /\ p \in accept /\ \E j \in 1..Len(d.added) : p = d.added[j].id
    /\ para'[p].baseVersion = 1 /\ para'[p].acceptedFrom = NoPara
Merges(d, accept) ==
    /\ para' \in Tables /\ drawn' = drawn
    /\ Apart(para') /\ Stand(para', d) /\ Ordered(para', d)
    /\ \A p \in Paras : Live(p) =>
          /\ Kept(p)
          /\ para[p].spec # d.spec => para'[p] = para[p]
          /\ EnteredTells(d, accept, p, Entered(d, accept)[p])
          /\ Held(Entered(d, accept)[p], para'[p])
    /\ InOrder(para, para')
    /\ \A p \in Paras : ~Live(p) /\ para'[p] # NoRow => Arrives(d, accept, p)
    /\ \A j \in 1..Len(d.added) : d.added[j].id \in accept =>
          para'[d.added[j].id] # NoRow /\ para'[d.added[j].id].text = d.added[j].text
    /\ Applied(para', accept) # {}

LEMMA ApplyMergeMerges ==
    ASSUME TypeOK, SiblingPositionsDistinct, DiffTyped(diff), Stand(para, diff), Ordered(para, diff),
           NEW accept, NEW v, ApplyMerge(accept, v)
    PROVE  Merges(diff, accept)
  <1>1. PICK entered : entered = Entered(diff, accept)
    OBVIOUS
  <1>2. /\ \A p \in accept \cap Entries(diff) : EntryApplies(diff, p)
        /\ MergeOutcome(diff, accept).ok
        /\ para' = MergeOutcome(diff, accept).rows /\ drawn' = drawn
        /\ Applied(para', accept) # {}
    BY DEF ApplyMerge, Applicable
  <1>3. /\ entered \in Tables
        /\ \A p \in Paras : /\ (entered[p] = NoRow) <=> ~Live(p)
                            /\ Live(p) => EnteredTells(diff, accept, p, entered[p])
    BY <1>1, <1>2, EnteredIs
  <1>4. \A p \in Paras : Live(p) => SamePlace(para[p], entered[p]) /\ Remains(para[p], entered[p])
    BY <1>3 DEF EnteredTells, SamePlace, Remains
  <1>5. ASSUME NEW p \in Paras, NEW q \in Paras
        PROVE  /\ Beside(entered, p, q) <=> Beside(para, p, q)
               /\ Beside(para, p, q) => /\ entered[p].position = para[p].position
                                        /\ entered[q].position = para[q].position
    BY <1>3, <1>4 DEF Beside, SamePlace, Live
  <1>6. Apart(entered)
    BY <1>5 DEF Apart, Beside, SiblingPositionsDistinct, Live
  <1>7. InOrder(para, entered)
    BY <1>5 DEF InOrder
  <1>8. para \in Tables
    BY DEF TypeOK, Tables
  <1>9. Stand(entered, diff) /\ Ordered(entered, diff)
    <2>1. /\ \A j \in 1..Len(diff.added) : para[diff.added[j].id] # NoRow =>
                Stands(entered, diff.spec, diff.added[j].id, diff.added[j].after)
          /\ \A j, k \in 1..Len(diff.added) :
                /\ para[diff.added[j].id] # NoRow /\ para[diff.added[k].id] # NoRow
                /\ diff.added[j].after = diff.added[k].after
                => Beside(para, diff.added[j].id, diff.added[k].id)
      BY <1>3, <1>4, <1>7, <1>8, GrowsKeepsAdded DEF Live
    <2>2. \A j \in 1..Len(diff.added) :
             diff.added[j].id \in Paras
             /\ (entered[diff.added[j].id] # NoRow => para[diff.added[j].id] # NoRow)
      BY <1>3, AddedIs DEF Live
    <2>3. Stand(entered, diff)
      BY <2>1, <2>2 DEF Stand
    <2>4. Ordered(entered, diff)
      BY <1>7, <2>1, <2>2 DEF Ordered, InOrder
    <2> QED
      BY <2>3, <2>4
  <1>10. PICK st : st = MergeOutcome(diff, accept)
    OBVIOUS
  <1>11. st \in States /\ Grown(diff, accept, entered, Len(diff.added), st)
    BY <1>1, <1>3, <1>6, <1>9, <1>10, MergeGrows
  <1>12. /\ para' \in Tables
         /\ Apart(para') /\ Stand(para', diff) /\ Ordered(para', diff)
         /\ Grows(diff.spec, entered, para')
         /\ \A j \in 1..Len(diff.added) : diff.added[j].id \in accept =>
               para'[diff.added[j].id] # NoRow /\ para'[diff.added[j].id].text = diff.added[j].text
         /\ \A p \in Paras : entered[p] = NoRow /\ para'[p] # NoRow => Arrives(diff, accept, p)
    BY <1>2, <1>10, <1>11 DEF Grown, States, Arrives
  <1>13. ASSUME NEW p \in Paras, Live(p)
         PROVE  /\ Kept(p) /\ Held(entered[p], para'[p])
                /\ para[p].spec # diff.spec => para'[p] = para[p]
    <2>1. /\ entered[p] # NoRow /\ SamePlace(para[p], entered[p])
          /\ EnteredTells(diff, accept, p, entered[p])
      BY <1>3, <1>4, <1>13
    <2>2. /\ para'[p] # NoRow /\ Held(entered[p], para'[p])
          /\ entered[p].spec # diff.spec => para'[p] = entered[p]
      BY <1>12, <2>1 DEF Grows
    <2>3. Kept(p)
      BY <2>1, <2>2 DEF Kept, SamePlace, Held, Remains
    <2>4. para[p].spec # diff.spec => entered[p] = para[p]
      BY <2>1 DEF EnteredTells
    <2> QED
      BY <2>2, <2>3, <2>4
  <1>14. InOrder(para, para')
    <2> SUFFICES ASSUME NEW p \in Paras, NEW q \in Paras, Beside(para, p, q),
                        para[p].position < para[q].position
                 PROVE  para'[p].position < para'[q].position
      BY DEF InOrder
    <2>1. Beside(entered, p, q) /\ entered[p].position < entered[q].position
      BY <1>5
    <2> QED
      BY <1>12, <2>1 DEF Grows, InOrder
  <1>15. \A p \in Paras : ~Live(p) /\ para'[p] # NoRow => Arrives(diff, accept, p)
    BY <1>3, <1>12
  <1> QED
    BY <1>1, <1>2, <1>3, <1>12, <1>13, <1>14, <1>15 DEF Merges

(* A merge is one generation of its spec: each row it writes, and no other,  *)
(* advances by one version or starts at 1, with its snapshot.                *)
LEMMA ApplyMergeRewrites ==
    ASSUME HistoryInv, SiblingPositionsDistinct, DiffTyped(diff), Stand(para, diff), Ordered(para, diff),
           NEW accept \in SUBSET Paras, NEW v, ApplyMerge(accept, v)
    PROVE  /\ Rewrites(diff.spec, Applied(para', accept))
           /\ Applied(para', accept) \in SUBSET Paras /\ Applied(para', accept) # {}
  <1>0. TypeOK /\ Merges(diff, accept)
    BY ApplyMergeMerges DEF HistoryInv
  <1>1. PICK s, T : s = diff.spec /\ T = Applied(para', accept)
    OBVIOUS
  <1>2. s \in Specs /\ T \in SUBSET Paras /\ T # {}
    BY <1>0, <1>1 DEF DiffTyped, Applied, Merges
  <1>3. \A p \in Paras : p \in T <=> /\ p \in accept /\ para'[p] # NoRow
                                     /\ ~Live(p) \/ para'[p].baseVersion # para[p].baseVersion
    BY <1>1 DEF Applied, Live
  <1>4. para' \in Tables /\ \A p \in Paras : para'[p] # NoRow => para'[p] \in ParaRow
    BY <1>0 DEF Merges, Tables
  <1>5. ASSUME NEW p \in Paras, Live(p)
        PROVE  /\ para'[p] # NoRow /\ para'[p].spec = para[p].spec
               /\ \/ /\ para'[p].baseVersion = para[p].baseVersion /\ para'[p].text = para[p].text
                  \/ /\ p \in accept /\ para[p].spec = s
                     /\ para'[p].baseVersion = para[p].baseVersion + 1
    <2>1. PICK row : row = Entered(diff, accept)[p]
      OBVIOUS
    <2>2. Kept(p) /\ EnteredTells(diff, accept, p, row) /\ Held(row, para'[p])
      BY <1>0, <1>5, <2>1 DEF Merges
    <2> QED
      BY <1>1, <2>2 DEF Kept, Remains, EnteredTells, Held
  <1>6. \A p \in Paras : Live(p) => para[p].baseVersion \in Nat
    BY <1>0 DEF TypeOK, Live, ParaRow
  <1>7. ASSUME NEW p \in T
        PROVE  /\ para'[p] \in ParaRow /\ para'[p].spec = s
               /\ \/ InSpec(p, s) /\ para'[p].baseVersion = para[p].baseVersion + 1
                  \/ ~Live(p) /\ para'[p].baseVersion = 1
    <2>1. p \in Paras /\ para'[p] # NoRow /\ para'[p] \in ParaRow
      BY <1>2, <1>3, <1>4, <1>7
    <2>2. CASE Live(p)
      BY <1>3, <1>5, <1>7, <2>1, <2>2 DEF InSpec
    <2>3. CASE ~Live(p)
      <3>1. Arrives(diff, accept, p)
        BY <1>0, <2>1, <2>3 DEF Merges
      <3>2. para'[p].spec = s
        BY <1>0, <1>1, <2>1, <3>1 DEF Arrives, Merges, Stand, Stands
      <3> QED
        BY <2>1, <2>3, <3>1, <3>2 DEF Arrives
    <2> QED
      BY <2>2, <2>3
  <1>8. ASSUME NEW p \in Paras \ T
        PROVE  /\ (para'[p] = NoRow) <=> (para[p] = NoRow)
               /\ Live(p) => /\ para'[p].spec = para[p].spec
                             /\ para'[p].baseVersion = para[p].baseVersion
                             /\ para'[p].text = para[p].text
    <2>1. CASE Live(p)
      <3>1. para[p].baseVersion \in Nat /\ para[p].baseVersion # para[p].baseVersion + 1
        BY <1>6, <2>1
      <3>2. ~(p \in accept /\ para'[p].baseVersion = para[p].baseVersion + 1)
        BY <1>3, <1>5, <1>8, <2>1, <3>1
      <3> QED
        BY <1>5, <2>1, <3>2 DEF Live
    <2>2. CASE ~Live(p)
      <3>1. para'[p] # NoRow => p \in T
        BY <1>0, <1>3, <2>2 DEF Merges, Arrives
      <3> QED
        BY <1>8, <2>2, <3>1 DEF Live
    <2> QED
      BY <2>1, <2>2
  <1>9. /\ hist' = RecordAll(hist, {Snapshot(p, para'[p], NextGeneration(s)) : p \in T})
        /\ spec' = [spec EXCEPT ![s] = Bumped(@)] /\ sealed' = sealed
    BY <1>1 DEF ApplyMerge, BumpSpecContentVersion
  <1>10. hist' = hist \cup {Snapshot(p, para'[p], NextGeneration(s)) : p \in T}
    <2>1. PICK n : n = NextGeneration(s)
      OBVIOUS
    <2>2. ASSUME NEW p \in T
          PROVE  Record(hist, Snapshot(p, para'[p], n)) = hist \cup {Snapshot(p, para'[p], n)}
      <3>1. p \in Paras /\ para'[p] \in ParaRow
        BY <1>2, <1>7
      <3>2. \/ Live(p) /\ para'[p].baseVersion = para[p].baseVersion + 1
            \/ ~Live(p)
        BY <1>7 DEF InSpec
      <3> QED
        BY <3>1, <3>2, RecordIsInsert
    <2>3. ASSUME NEW p \in T
          PROVE  \/ Snapshot(p, para'[p], n) \in hist
                 \/ Record(hist, Snapshot(p, para'[p], n)) # hist
      BY <2>2
    <2>4. hist' = hist \cup {e \in {Snapshot(p, para'[p], n) : p \in T} : Record(hist, e) # hist}
      BY <1>9, <2>1 DEF RecordAll
    <2> QED
      BY <2>1, <2>3, <2>4
  <1>11. /\ spec'[s].contentVersion = spec[s].contentVersion + 1
         /\ \A x \in Specs \ {s} : spec'[x].contentVersion = spec[x].contentVersion
    <2>1. spec \in [Specs -> SpecRow]
      BY <1>0 DEF TypeOK
    <2> QED
      BY <1>2, <1>9, <2>1, BumpedType
  <1> QED
    BY <1>1, <1>2, <1>7, <1>8, <1>9, <1>10, <1>11 DEF Rewrites

(* It keeps the store's invariants.                                          *)
AddedBelow(d) == \A k \in 1..Len(d.added) : d.added[k].id <= drawn
LEMMA ApplyMergeKeepsStore ==
    ASSUME HistoryInv, RowsInv, RowsHang, DiffTyped(diff), AddedBelow(diff),
           Stand(para, diff), Ordered(para, diff),
           NEW accept \in SUBSET Paras, NEW v, ApplyMerge(accept, v)
    PROVE  HistoryInv' /\ RowsInv' /\ RowsHang'
  <1>0. /\ TypeOK /\ SiblingPositionsDistinct /\ BlobMirrorsText /\ OneNotePerComment
    BY DEF RowsInv
  <1>1. Merges(diff, accept)
    BY <1>0, ApplyMergeMerges
  <1>2. PICK s, T : /\ s = diff.spec /\ T = Applied(para', accept) /\ s \in Specs
                    /\ T \in SUBSET Paras /\ Rewrites(s, T)
    BY <1>0, ApplyMergeRewrites DEF DiffTyped
  <1>3. (HistoryTracksRows /\ HistoryOrdered /\ SealedTextIsExact)'
    BY <1>2, RewritesHistory
  <1>4. /\ \A p \in Paras : Live(p) => Kept(p)
        /\ \A p \in Paras : ~Live(p) /\ para'[p] # NoRow =>
              \E j \in 1..Len(diff.added) :
                 p = diff.added[j].id /\ Stands(para', s, p, diff.added[j].after)
        /\ \A p \in Paras : ~Live(p) /\ para'[p] # NoRow => para'[p].acceptedFrom = NoPara
        /\ para' \in Tables /\ drawn' = drawn /\ Apart(para')
    BY <1>1, <1>2 DEF Merges, Arrives, Stand
  <1>5. TypeOK'
    <2>1. spec' \in [Specs -> SpecRow]
      <3>1. spec' = [spec EXCEPT ![s] = Bumped(@)] /\ spec \in [Specs -> SpecRow]
        BY <1>0, <1>2 DEF ApplyMerge, BumpSpecContentVersion, TypeOK
      <3> QED
        BY <1>2, <3>1, BumpedType
    <2>2. hist' \subseteq VersionRow
      <3>1. NextGeneration(s) \in Nat
        BY <1>0, <1>2 DEF TypeOK, SpecRow, NextGeneration
      <3>2. ASSUME NEW p \in T  PROVE Snapshot(p, para'[p], NextGeneration(s)) \in VersionRow
        <4>1. p \in Paras /\ para'[p] \in ParaRow
          BY <1>2 DEF Rewrites
        <4>2. {} \in SUBSET VersionRow
          OBVIOUS
        <4> QED
          BY <3>1, <4>1, <4>2, RecordType
      <3>3. hist \subseteq VersionRow
        BY <1>0 DEF TypeOK
      <3> QED
        BY <1>2, <3>2, <3>3 DEF Rewrites
    <2>3. \A p \in Paras : p > drawn' => para'[p] = NoRow
      <3> SUFFICES ASSUME NEW p \in Paras, p > drawn, para'[p] # NoRow  PROVE FALSE
        BY <1>4
      <3>1. ~Live(p)
        BY <1>0 DEF TypeOK, Live
      <3>2. PICK j \in 1..Len(diff.added) : p = diff.added[j].id
        BY <1>4, <3>1
      <3>3. p <= drawn /\ drawn \in Nat /\ p \in Nat
        BY <1>0, <3>2 DEF AddedBelow, TypeOK, Paras
      <3> QED
        BY <3>3
    <2>4. sealed' \subseteq SealRow
      BY <1>0, <1>2 DEF Rewrites, TypeOK
    <2> QED
      BY <1>0, <1>4, <2>1, <2>2, <2>3, <2>4 DEF TypeOK, Tables
  <1>6. SiblingPositionsDistinct'
    BY <1>4 DEF SiblingPositionsDistinct, Apart, Beside, Live
  <1>7. BlobMirrorsText'
    <2> SUFFICES ASSUME NEW p \in Paras, para'[p] # NoRow, para'[p].type = "objectText"
                 PROVE  para'[p].blob = para'[p].text
      BY DEF BlobMirrorsText, Live
    <2>1. Live(p)
      BY <1>4 DEF Stands, BodyTypes
    <2> QED
      BY <1>0, <1>4, <2>1 DEF BlobMirrorsText, Kept, Remains
  <1>8. OneNotePerComment'
    <2> SUFFICES ASSUME NEW n \in Paras, para'[n] # NoRow, para'[n].acceptedFrom # NoPara
                 PROVE  LET a == para'[n].acceptedFrom IN
                        /\ {x \in Paras : /\ para'[x] # NoRow /\ para'[x].type = "note"
                                           /\ para'[x].acceptedFrom = a} = {n}
                        /\ para'[a] # NoRow /\ para'[a].spec = para'[n].spec
                        /\ para'[a].parent = para'[n].parent
                        /\ para'[a].comment # "none"
      BY DEF OneNotePerComment, NotesFrom, Live, InSpec
    <2>1. Live(n) /\ Kept(n)
      BY <1>4
    <2>2. PICK a : a = para[n].acceptedFrom
      OBVIOUS
    <2>3. /\ NotesFrom(a) = {n} /\ InSpec(a, para[n].spec)
          /\ para[a].parent = para[n].parent /\ para[a].comment # "none"
          /\ a # NoPara /\ para'[n].acceptedFrom = a
      BY <1>0, <2>1, <2>2 DEF OneNotePerComment, Kept
    <2>4. a \in Paras
      BY <1>0, <2>1, <2>2, <2>3 DEF TypeOK, Live, ParaRow
    <2>5. Live(a) /\ Kept(a)
      BY <1>4, <2>3, <2>4 DEF InSpec
    <2>6. {x \in Paras : /\ para'[x] # NoRow /\ para'[x].type = "note"
                         /\ para'[x].acceptedFrom = a} = {n}
      <3>1. ASSUME NEW x \in Paras
            PROVE  (para'[x] # NoRow /\ para'[x].type = "note" /\ para'[x].acceptedFrom = a)
                   <=> (Live(x) /\ para[x].type = "note" /\ para[x].acceptedFrom = a)
        BY <1>4, <2>3, NoRowAssumption DEF Kept, Remains, Live
      <3> QED
        BY <2>3, <3>1 DEF NotesFrom, Live
    <2> QED
      BY <2>1, <2>3, <2>5, <2>6 DEF Kept, Remains, InSpec
  <1>9. RowsHang'
    <2>1. \A x \in Specs : spec[x].contentVersion \in Nat
      BY <1>0 DEF TypeOK, SpecRow
    <2>2. \A x \in Specs : Exists(x) => spec'[x].contentVersion > 0
      BY <1>2, <2>1 DEF Rewrites, Exists
    <2>3. Exists(s)
      BY <1>2 DEF ApplyMerge, AssertSpecWritable
    <2> SUFFICES ASSUME NEW p \in Paras, para'[p] # NoRow
                 PROVE  /\ spec'[para'[p].spec].contentVersion > 0
                        /\ para'[p].parent # NoPara =>
                              /\ para'[p].parent < p
                              /\ para'[para'[p].parent] # NoRow
                              /\ para'[para'[p].parent].spec = para'[p].spec
      BY DEF RowsHang, Exists, InSpec, Live
    <2>4. ASSUME NEW q \in Paras, Live(q)
          PROVE  /\ para'[q].spec = para[q].spec /\ para'[q].parent = para[q].parent
                 /\ para[q].spec \in Specs /\ Exists(para[q].spec)
                 /\ para[q].parent # NoPara =>
                       /\ para[q].parent \in Paras /\ para[q].parent < q
                       /\ para'[para[q].parent] # NoRow
                       /\ para'[para[q].parent].spec = para[q].spec
      <3>1. /\ Kept(q) /\ para[q].spec \in Specs /\ Exists(para[q].spec)
        BY <1>0, <1>4, <2>4 DEF RowsHang, TypeOK, Live, ParaRow
      <3>2. para[q].parent # NoPara =>
               /\ para[q].parent \in Paras /\ para[q].parent < q
               /\ InSpec(para[q].parent, para[q].spec)
        BY <1>0, <2>4, LineageSplits
      <3> QED
        BY <1>4, <3>1, <3>2 DEF Kept, Remains, InSpec
    <2>5. CASE Live(p)
      BY <2>2, <2>4, <2>5
    <2>6. CASE ~Live(p)
      <3>1. PICK j \in 1..Len(diff.added) :
               p = diff.added[j].id /\ Stands(para', s, p, diff.added[j].after)
        BY <1>4, <2>6
      <3>2. PICK a : a = diff.added[j].after
        OBVIOUS
      <3>3. /\ a \in Paras /\ a < p /\ para'[a] # NoRow
            /\ para'[a].spec = s /\ para'[p].spec = s /\ para'[p].parent = para'[a].parent
        BY <3>1, <3>2 DEF Stands, DiffTyped
      <3>4. Live(a)
        <4>1. SUFFICES ASSUME ~Live(a)  PROVE FALSE
          OBVIOUS
        <4>2. PICK i \in 1..Len(diff.added) : a = diff.added[i].id
          BY <1>4, <3>3, <4>1
        <4>3. a < a
          BY <3>2, <4>2 DEF DiffTyped
        <4> QED
          BY <3>3, <4>3 DEF Paras
      <3>7. /\ para'[a].spec = para[a].spec /\ para'[a].parent = para[a].parent
            /\ para[a].parent # NoPara =>
                  /\ para[a].parent \in Paras /\ para[a].parent < a
                  /\ para'[para[a].parent] # NoRow
                  /\ para'[para[a].parent].spec = para[a].spec
        BY <2>4, <3>3, <3>4
      <3>5. /\ para'[p].parent = para[a].parent
            /\ para[a].parent # NoPara =>
                  /\ para[a].parent < a /\ para'[para[a].parent] # NoRow
                  /\ para'[para[a].parent].spec = s /\ para[a].parent \in Paras
        BY <3>3, <3>7
      <3>6. PICK up : up = para[a].parent
        OBVIOUS
      <3>8. ASSUME up # NoPara  PROVE up < p
        <4>1. up \in Nat /\ a \in Nat /\ p \in Nat /\ up < a /\ a < p
          BY <3>3, <3>5, <3>6, <3>8 DEF Paras
        <4> QED
          BY <4>1
      <3>9. spec'[s].contentVersion > 0
        BY <1>2, <2>2, <2>3
      <3> QED
        BY <3>3, <3>5, <3>6, <3>8, <3>9
    <2> QED
      BY <2>5, <2>6
  <1> QED
    BY <1>3, <1>5, <1>6, <1>7, <1>8, <1>9 DEF HistoryInv, RowsInv

(* And it is one edit of the abstract store.                                 *)
LEMMA ApplyMergeImplements ==
    ASSUME HistoryInv, RowsInv, DiffTyped(diff), Stand(para, diff), Ordered(para, diff),
           NEW accept \in SUBSET Paras, NEW v, ApplyMerge(accept, v), NEW s, s = diff.spec
    PROVE  Abstract!Edit(s)
  <1> DEFINE title == [x \in Specs |-> spec[x].title]
             body == [x \in Specs |-> [p \in Rows(x) |-> para[p]]]
             token == [x \in Specs |-> spec[x].contentVersion]
             governed == [x \in Specs |-> Governed(x)]
             seals == {[id |-> r.id, spec |-> r.spec, token |-> r.contentVersion] : r \in sealed}
  <1>0. TypeOK /\ SiblingPositionsDistinct
    BY DEF RowsInv
  <1>1. Merges(diff, accept)
    BY <1>0, ApplyMergeMerges
  <1>2. PICK T : /\ T = Applied(para', accept) /\ s \in Specs
                    /\ T \in SUBSET Paras /\ T # {} /\ Rewrites(s, T)
    BY <1>0, ApplyMergeRewrites DEF DiffTyped
  <1>3. /\ spec' = [spec EXCEPT ![s] = Bumped(@)] /\ spec \in [Specs -> SpecRow]
        /\ sealed' = sealed /\ Exists(s) /\ ~Governed(s)
    BY <1>0, <1>2 DEF ApplyMerge, BumpSpecContentVersion, AssertSpecWritable, Governed, TypeOK
  <1>4. /\ \A x \in Specs \ {s} : spec'[x] = spec[x]
        /\ spec'[s].contentVersion = spec[s].contentVersion + 1
        /\ spec'[s].title = spec[s].title /\ spec'[s].lifecycle = spec[s].lifecycle
        /\ spec'[s].external = spec[s].external
    <2>1. spec'[s] = Bumped(spec[s]) /\ spec[s] \in SpecRow
      BY <1>2, <1>3
    <2>2. PICK row \in SpecRow : row = spec[s]
      BY <2>1
    <2>3. Bumped(row).contentVersion = row.contentVersion + 1 /\ Bumped(row).title = row.title
          /\ Bumped(row).lifecycle = row.lifecycle /\ Bumped(row).external = row.external
      BY DEF Bumped, SpecRow
    <2> QED
      BY <1>2, <1>3, <2>1, <2>2, <2>3
  <1>5. token' = [token EXCEPT ![s] = @ + 1] /\ title' = title /\ governed' = governed /\ seals' = seals
    <2>1. \A x \in Specs : spec'[x].title = spec[x].title /\ Governed(x)' = Governed(x)
      BY <1>4 DEF Governed
    <2>2. \A x \in Specs : spec'[x].contentVersion = IF x = s THEN spec[s].contentVersion + 1
                                                     ELSE spec[x].contentVersion
      BY <1>4
    <2>3. token' = [token EXCEPT ![s] = @ + 1]
      BY <1>2, <2>2
    <2> QED
      BY <1>3, <2>1, <2>3
  <1>6. ASSUME NEW p \in Paras
        PROVE  /\ Live(p) => para'[p] # NoRow /\ para'[p].spec = para[p].spec
               /\ Live(p) /\ para[p].spec # s => para'[p] = para[p]
               /\ ~Live(p) /\ para'[p] # NoRow => para'[p].spec = s
    <2>1. Live(p) => Kept(p) /\ (para[p].spec # s => para'[p] = para[p])
      BY <1>1, <1>2 DEF Merges
    <2>2. ~Live(p) /\ para'[p] # NoRow => Arrives(diff, accept, p)
      BY <1>1 DEF Merges
    <2>3. Stand(para', diff)
      BY <1>1 DEF Merges
    <2> QED
      BY <1>2, <2>1, <2>2, <2>3 DEF Kept, Remains, Arrives, Stand, Stands
  <1>7. ASSUME NEW x \in Specs \ {s}  PROVE Rows(x)' = Rows(x) /\ \A p \in Rows(x) : para'[p] = para[p]
    BY <1>6 DEF Rows, InSpec, Live
  <1>8. \A x \in Specs \ {s} : body'[x] = body[x]
    BY <1>7
  <1>9. body'[s] # body[s]
    <2>1. PICK p \in T : TRUE
      BY <1>2
    <2>2. /\ p \in Paras /\ para'[p] \in ParaRow /\ para'[p].spec = s
          /\ \/ InSpec(p, s) /\ para'[p].baseVersion = para[p].baseVersion + 1
             \/ ~Live(p)
      BY <1>2, <2>1 DEF Rewrites
    <2>3. p \in Rows(s)'
      BY <2>2, NoRowAssumption DEF Rows, InSpec, Live
    <2>4. /\ DOMAIN body[s] = Rows(s) /\ DOMAIN body'[s] = Rows(s)'
          /\ \A q \in Rows(s) : body[s][q] = para[q]
          /\ \A q \in Rows(s)' : body'[s][q] = para'[q]
      BY <1>2
    <2>5. CASE ~Live(p)
      <3>1. p \notin Rows(s)
        BY <2>5 DEF Rows, InSpec
      <3> QED
        BY <2>3, <2>4, <3>1
    <2>6. CASE InSpec(p, s) /\ para'[p].baseVersion = para[p].baseVersion + 1
      <3>1. p \in Rows(s) /\ para[p].baseVersion \in Nat
        BY <1>0, <2>2, <2>6 DEF Rows, InSpec, TypeOK, Live, ParaRow
      <3>2. para'[p] # para[p]
        BY <2>6, <3>1
      <3> QED
        BY <2>3, <2>4, <3>1, <3>2
    <2> QED
      BY <2>2, <2>5, <2>6
  <1>10. token[s] > 0 /\ ~governed[s]
    BY <1>2, <1>3 DEF Exists
  <1>11. Abstract!Advance(s)
    BY <1>5, <1>8 DEF Abstract!Advance, Abstract!OnlyAt
  <1> QED
    BY <1>5, <1>9, <1>10, <1>11, Zenon DEF Abstract!Edit

-----------------------------------------------------------------------------
(* The other writers. *)

LEMMA WriterWrites ==
    ASSUME NEW s \in Specs, Writer(s)
    PROVE  Write(s) /\ UNCHANGED reviewVars
  <1>1. AddedText \in Texts /\ BodyTypes \subseteq NodeTypes
    BY ShownAssumption DEF NodeTypes
  <1> QED
    BY <1>1 DEF Writer, Write

LEMMA WriteDraws ==
    ASSUME TypeOK, NEW s \in Specs, Write(s)
    PROVE  drawn \in Nat /\ drawn' \in Nat /\ drawn <= drawn'
  <1>0. drawn \in 0..MaxParas /\ MaxParas \in Nat /\ drawn \in Nat
    BY SizesAssumption DEF TypeOK
  <1>1. ASSUME drawn' = drawn  PROVE drawn' \in Nat /\ drawn <= drawn'
    BY <1>0, <1>1
  <1>2. ASSUME NEW p \in Paras, IsNextId(p), drawn' = p  PROVE drawn' \in Nat /\ drawn <= drawn'
    BY <1>0, <1>2 DEF IsNextId
  <1>3. ASSUME NEW doc \in Documents, PersistParsedSpec(s, doc)  PROVE drawn' \in Nat /\ drawn <= drawn'
    <2>1. Len(doc.nodes) \in Nat
      BY DocumentsAssumption
    <2> QED
      BY <1>0, <1>3, <2>1 DEF PersistParsedSpec
  <1> QED
    BY <1>0, <1>1, <1>2, <1>3
       DEF Write, UpdateSpec, UpdateParagraphText, InsertParagraphAfter, SetParagraphVanish,
           SetParagraphAcknowledged, SetParagraphCommentClosed, AcceptCommentAsNote, CommitRow

(* A writer keeps every row, adding at most fresh ones below rows that are   *)
(* there, or clears its spec and brings fresh ones.                          *)
HangsBelow(rows, p, s) ==
    rows[p].parent # NoPara =>
        /\ rows[p].parent \in Paras /\ rows[p].parent < p
        /\ rows[rows[p].parent] # NoRow /\ rows[rows[p].parent].spec = s
Moves(s) ==
    /\ \A p \in Paras : Live(p) => para'[p] # NoRow /\ Remains(para[p], para'[p])
    /\ InOrder(para, para')
    /\ \A p \in Paras : ~Live(p) /\ para'[p] # NoRow =>
          p > drawn /\ para'[p].spec = s /\ HangsBelow(para', p, s)
Clears(s) ==
    \A p \in Paras :
        /\ Live(p) /\ para[p].spec # s => para'[p] = para[p]
        /\ para'[p] # NoRow => \/ Live(p) /\ para[p].spec # s
                               \/ p > drawn /\ para'[p].spec = s /\ HangsBelow(para', p, s)

LEMMA EditorMoves ==
    ASSUME TypeOK, RowsHang, NEW s \in Specs, EditorWrites(s)
    PROVE  Moves(s)
  <1>0. /\ para \in Tables /\ drawn \in Nat /\ \A p \in Paras : p > drawn => ~Live(p)
        /\ \A p \in Paras : Live(p) => para[p] \in ParaRow
    BY SizesAssumption DEF TypeOK, Tables, Live
  <1>1. ASSUME NEW p \in Paras, EditsRow(s, p)  PROVE Moves(s)
    <2>1. ASSUME NEW q \in Paras, Live(q)
          PROVE  /\ para'[q] # NoRow /\ Remains(para[q], para'[q])
                 /\ para'[q].position = para[q].position
      BY <1>0, <1>1, <2>1, NoRowAssumption DEF EditsRow, SamePlace, Remains, Live
    <2>2. ASSUME NEW q \in Paras, ~Live(q)  PROVE para'[q] = NoRow
      BY <1>1, <2>2 DEF EditsRow, InSpec, Live
    <2>3. InOrder(para, para')
      BY <2>1 DEF InOrder, Beside, Live
    <2> QED
      BY <2>1, <2>2, <2>3 DEF Moves
  <1>2. ASSUME NEW a \in Paras, NEW n \in Paras, InsertsRow(s, a, n), n = drawn + 1
        PROVE  Moves(s)
    <2> DEFINE moves(q) == /\ para[q].spec = para[a].spec /\ para[q].parent = para[a].parent
                           /\ para[q].position > para[a].position
    <2>1. /\ InSpec(a, s) /\ Live(a) /\ para[a] \in ParaRow /\ ~Live(n) /\ n # a
          /\ SamePlace(para[a], para'[a]) /\ para[a].position \in Nat
      BY <1>0, <1>2 DEF InsertsRow, InSpec, ParaRow
    <2>2. ASSUME NEW q \in Paras, Live(q)
          PROVE  /\ para'[q] # NoRow /\ Remains(para[q], para'[q])
                 /\ para'[q].position = IF moves(q) THEN para[q].position + 1 ELSE para[q].position
      <3>1. CASE q = a
        BY <2>1, <3>1, NoRowAssumption DEF SamePlace, Remains
      <3>2. CASE q # a
        <4>1. para'[q] = ShiftedAfter(para, para[a])[q]
          BY <1>2, <2>1, <2>2, <3>2 DEF InsertsRow
        <4>2. PICK row : row = para'[q]
          OBVIOUS
        <4>3. /\ ~moves(q) => row = para[q]
              /\ moves(q) => /\ row \in ParaRow
                             /\ row.spec = para[q].spec /\ row.parent = para[q].parent
                             /\ row.position = para[q].position + 1 /\ row.type = para[q].type
          BY <1>0, <2>1, <2>2, <4>1, <4>2, ShiftedPlace DEF Tables, Live
        <4>4. para[q] \in ParaRow
          BY <1>0, <2>2
        <4> QED
          BY <4>2, <4>3, <4>4, NoRowAssumption DEF Remains
      <3> QED
        BY <3>1, <3>2
    <2>3. ASSUME NEW q \in Paras, ~Live(q), q # n  PROVE para'[q] = NoRow
      <3>1. para'[q] = ShiftedAfter(para, para[a])[q]
        BY <1>2, <2>1, <2>3 DEF InsertsRow
      <3> QED
        BY <1>0, <2>1, <2>3, <3>1, ShiftedType DEF Tables, Live
    <2>4. InOrder(para, para')
      <3> SUFFICES ASSUME NEW p \in Paras, NEW q \in Paras, Beside(para, p, q),
                          para[p].position < para[q].position
                   PROVE  para'[p].position < para'[q].position
        BY DEF InOrder
      <3>1. Live(p) /\ Live(q)
        BY DEF Beside, Live
      <3>2. /\ para'[p].position = IF moves(p) THEN para[p].position + 1 ELSE para[p].position
            /\ para'[q].position = IF moves(q) THEN para[q].position + 1 ELSE para[q].position
        BY <2>2, <3>1
      <3>3. para[p].position \in Nat /\ para[q].position \in Nat
        BY <1>0, <3>1 DEF ParaRow
      <3>4. moves(p) => moves(q)
        BY <2>1, <3>3 DEF Beside
      <3> QED
        BY <3>2, <3>3, <3>4
    <2>5. n > drawn /\ para'[n].spec = s /\ HangsBelow(para', n, s)
      <3>1. /\ para'[n].spec = s /\ para'[n].parent = para[a].parent /\ n > drawn
        BY <1>0, <1>2 DEF InsertsRow
      <3>2. PICK up : up = para[a].parent
        OBVIOUS
      <3>3. ASSUME up # NoPara
            PROVE  up \in Paras /\ up < n /\ para'[up] # NoRow /\ para'[up].spec = s
        <4>1. up \in Paras /\ up < a /\ InSpec(up, s)
          BY <2>1, <3>2, <3>3, LineageSplits DEF InSpec
        <4>2. up \in Nat /\ a \in Nat /\ n \in Nat /\ ~(a > drawn) /\ n > drawn
          <5>1. \A x \in Paras : x \in Nat
            BY DEF Paras
          <5> QED
            BY <1>0, <2>1, <3>1, <4>1, <5>1
        <4>3. up < n
          BY <1>0, <4>1, <4>2
        <4> QED
          BY <2>2, <4>1, <4>3 DEF InSpec, Remains
      <3> QED
        BY <3>1, <3>2, <3>3 DEF HangsBelow
    <2> QED
      BY <2>2, <2>3, <2>4, <2>5 DEF Moves
  <1> QED
    BY <1>1, <1>2 DEF EditorWrites

LEMMA ImportClears ==
    ASSUME TypeOK, NEW s \in Specs, NEW doc \in Documents, PersistParsedSpec(s, doc)
    PROVE  Clears(s)
  <1> DEFINE fresh == drawn + 1 .. drawn + Len(doc.nodes)
  <1>0. /\ Len(doc.nodes) \in Nat /\ drawn \in Nat /\ MaxParas \in Nat
        /\ drawn + Len(doc.nodes) <= MaxParas
        /\ \A p \in Paras : p > drawn => ~Live(p)
        /\ \A p \in Paras : p \in Nat
    BY DocumentsAssumption, SizesAssumption DEF TypeOK, PersistParsedSpec, Paras, Live
  <1>1. ASSUME NEW p \in Paras, p \notin fresh  PROVE para'[p] = IF InSpec(p, s) THEN NoRow ELSE para[p]
    BY <1>1 DEF PersistParsedSpec
  <1>2. ASSUME NEW i \in 1..Len(doc.nodes)
        PROVE  /\ drawn + i \in Paras /\ drawn + i > drawn
               /\ para'[drawn + i] # NoRow /\ para'[drawn + i].spec = s
               /\ para'[drawn + i].parent = IF doc.nodes[i].parent = 0 THEN NoPara
                                            ELSE drawn + doc.nodes[i].parent
    <2>1. drawn + i \in Paras /\ drawn + i \in fresh /\ (drawn + i) - drawn = i
      BY <1>0 DEF Paras
    <2>2. para'[drawn + i] = ImportedRow(s, doc, drawn, i)
      BY <2>1 DEF PersistParsedSpec
    <2>3. ImportedRow(s, doc, drawn, i) \in ParaRow /\ ImportedRow(s, doc, drawn, i).spec = s
      BY <1>0, ImportedType
    <2>4. ImportedRow(s, doc, drawn, i).parent = IF doc.nodes[i].parent = 0 THEN NoPara
                                                 ELSE drawn + doc.nodes[i].parent
      BY DEF ImportedRow
    <2> QED
      BY <1>0, <2>1, <2>2, <2>3, <2>4, NoRowAssumption
  <1>3. ASSUME NEW i \in 1..Len(doc.nodes)  PROVE HangsBelow(para', drawn + i, s)
    <2>1. doc.nodes[i] \in Node /\ doc.nodes[i].parent < i
      BY DocumentsAssumption, ElementOfSeq
    <2>2. doc.nodes[i].parent \in Nat
      BY <2>1 DEF Node
    <2>3. CASE doc.nodes[i].parent = 0
      BY <1>2, <2>3 DEF HangsBelow
    <2>4. CASE doc.nodes[i].parent # 0
      <3>1. PICK j : j = doc.nodes[i].parent
        OBVIOUS
      <3>2. j \in 1..Len(doc.nodes) /\ j < i
        BY <1>0, <2>1, <2>2, <2>4, <3>1
      <3>3. para'[drawn + i].parent = drawn + j /\ drawn + j < drawn + i
        BY <1>0, <1>2, <2>4, <3>1, <3>2
      <3> QED
        BY <1>2, <3>2, <3>3 DEF HangsBelow
    <2> QED
      BY <2>3, <2>4
  <1>4. ASSUME NEW p \in Paras, p \in fresh
        PROVE  p > drawn /\ para'[p].spec = s /\ HangsBelow(para', p, s) /\ ~Live(p)
    <2>1. PICK i : i = p - drawn
      OBVIOUS
    <2>2. i \in 1..Len(doc.nodes) /\ p = drawn + i
      BY <1>0, <1>4, <2>1
    <2> QED
      BY <1>0, <1>2, <1>3, <2>2
  <1>5. ASSUME NEW p \in Paras, p \notin fresh
        PROVE  /\ Live(p) /\ para[p].spec # s => para'[p] = para[p]
               /\ para'[p] # NoRow => Live(p) /\ para[p].spec # s
    BY <1>1, <1>5 DEF InSpec, Live
  <1> QED
    BY <1>4, <1>5 DEF Clears

LEMMA WriteMoves ==
    ASSUME TypeOK, RowsHang, NEW s \in Specs, Write(s)
    PROVE  Moves(s) \/ Clears(s)
  <1>1. CASE \E title \in Titles : UpdateSpec(s, title)
    <2>1. para' = para /\ \A p \in Paras : Live(p) => para[p] \in ParaRow
      BY <1>1 DEF UpdateSpec, TypeOK, Live
    <2> QED
      BY <2>1 DEF Moves, Remains, InOrder, Live
  <1> QED
    BY <1>1, EditorMoves, ImportClears, WriteShapes DEF ImportWrites

LEMMA WriteKeepsTrees ==
    ASSUME TypeOK, RowsHang, NEW s \in Specs, Write(s)
    PROVE  RowsHang'
  <1>1. /\ \A x \in Specs : Exists(x) => spec'[x].contentVersion > 0
        /\ spec'[s].contentVersion > 0
    <2>1. \A x \in Specs : spec[x].contentVersion \in Nat
      BY DEF TypeOK, SpecRow
    <2>2. /\ spec'[s].contentVersion = spec[s].contentVersion + 1
          /\ \A x \in Specs \ {s} : spec'[x] = spec[x]
      BY RequestAdvances
    <2> QED
      BY <2>1, <2>2 DEF Exists
  <1>2. ASSUME NEW p \in Paras, Live(p)
        PROVE  para[p].spec \in Specs /\ Exists(para[p].spec) /\ HangsBelow(para, p, para[p].spec)
    BY <1>2, LineageSplits DEF RowsHang, TypeOK, ParaRow, HangsBelow, InSpec, Live
  <1>3. ASSUME NEW p \in Paras, para'[p] # NoRow, NEW x \in Specs, para'[p].spec = x,
               x = s \/ Exists(x), HangsBelow(para', p, x)
        PROVE  /\ spec'[para'[p].spec].contentVersion > 0
               /\ para'[p].parent # NoPara =>
                     /\ para'[p].parent < p /\ para'[para'[p].parent] # NoRow
                     /\ para'[para'[p].parent].spec = para'[p].spec
    BY <1>1, <1>3 DEF HangsBelow
  <1> SUFFICES ASSUME NEW p \in Paras, para'[p] # NoRow
               PROVE  \E x \in Specs : /\ para'[p].spec = x /\ HangsBelow(para', p, x)
                                       /\ x = s \/ Exists(x)
    BY <1>3 DEF RowsHang, Exists, InSpec, Live
  <1>4. CASE Moves(s)
    <2>1. CASE Live(p)
      <3>1. PICK x, up : x = para[p].spec /\ up = para[p].parent
        OBVIOUS
      <3>2. /\ x \in Specs /\ Exists(x)
            /\ up # NoPara => up \in Paras /\ up < p /\ Live(up) /\ para[up].spec = x
        BY <1>2, <2>1, <3>1 DEF HangsBelow, Live
      <3>3. para'[p].spec = x /\ para'[p].parent = up
        BY <1>4, <2>1, <3>1 DEF Moves, Remains
      <3>4. up # NoPara => para'[up] # NoRow /\ para'[up].spec = x
        BY <1>4, <3>2 DEF Moves, Remains
      <3> QED
        BY <3>2, <3>3, <3>4 DEF HangsBelow
    <2>2. CASE ~Live(p)
      BY <1>4, <2>2 DEF Moves
    <2> QED
      BY <2>1, <2>2
  <1>5. CASE Clears(s)
    <2>1. CASE Live(p) /\ para[p].spec # s
      <3>1. PICK x, up : x = para[p].spec /\ up = para[p].parent
        OBVIOUS
      <3>2. /\ x \in Specs /\ Exists(x) /\ x # s
            /\ up # NoPara => up \in Paras /\ up < p /\ Live(up) /\ para[up].spec = x
        BY <1>2, <2>1, <3>1 DEF HangsBelow, Live
      <3>3. para'[p] = para[p] /\ (up # NoPara => para'[up] = para[up])
        BY <1>5, <2>1, <3>2 DEF Clears
      <3> QED
        BY <3>1, <3>2, <3>3 DEF HangsBelow, Live
    <2>2. CASE p > drawn /\ para'[p].spec = s /\ HangsBelow(para', p, s)
      BY <2>2
    <2> QED
      BY <1>5, <2>1, <2>2 DEF Clears
  <1> QED
    BY <1>4, <1>5, WriteMoves

LEMMA WriteKeepsAdded ==
    ASSUME TypeOK, TypeOK', RowsHang, NEW s \in Specs, Write(s),
           NEW d, DiffTyped(d), AddedBelow(d), Stand(para, d), Ordered(para, d)
    PROVE  AddedBelow(d)' /\ Stand(para', d) /\ Ordered(para', d)
  <1>0. /\ drawn \in Nat /\ drawn' \in Nat /\ drawn <= drawn'
        /\ para \in Tables /\ para' \in Tables
    BY WriteDraws DEF TypeOK, Tables
  <1>1. \A j \in 1..Len(d.added) : d.added[j].id \in Paras /\ d.added[j].id \in Nat
                                   /\ d.added[j].id <= drawn
    BY AddedIs DEF AddedBelow, Paras
  <1>2. AddedBelow(d)'
    BY <1>0, <1>1 DEF AddedBelow
  <1>3. CASE Moves(s)
    <2>1. \A j \in 1..Len(d.added) :
             para'[d.added[j].id] # NoRow => para[d.added[j].id] # NoRow
      BY <1>0, <1>1, <1>3 DEF Moves, Live
    <2>2. /\ \A p \in Paras : para[p] # NoRow => para'[p] # NoRow /\ Remains(para[p], para'[p])
          /\ InOrder(para, para')
      BY <1>3 DEF Moves, Live
    <2>3. /\ \A j \in 1..Len(d.added) : para[d.added[j].id] # NoRow =>
                Stands(para', d.spec, d.added[j].id, d.added[j].after)
          /\ \A j, k \in 1..Len(d.added) :
                /\ para[d.added[j].id] # NoRow /\ para[d.added[k].id] # NoRow
                /\ d.added[j].after = d.added[k].after
                => Beside(para, d.added[j].id, d.added[k].id)
      BY <1>0, <2>2, GrowsKeepsAdded
    <2>4. Stand(para', d)
      BY <2>1, <2>3 DEF Stand
    <2>5. Ordered(para', d)
      BY <1>1, <2>1, <2>2, <2>3 DEF Ordered, InOrder
    <2> QED
      BY <1>2, <2>4, <2>5
  <1>4. CASE Clears(s)
    <2>1. ASSUME NEW j \in 1..Len(d.added), para'[d.added[j].id] # NoRow
          PROVE  /\ para[d.added[j].id] # NoRow /\ para'[d.added[j].id] = para[d.added[j].id]
                 /\ Stands(para', d.spec, d.added[j].id, d.added[j].after)
      <3>1. PICK p, a : p = d.added[j].id /\ a = d.added[j].after
        OBVIOUS
      <3>2. p \in Paras /\ ~(p > drawn)
        BY <1>0, <1>1, <3>1
      <3>3. Live(p) /\ para[p].spec # s /\ para'[p] = para[p]
        BY <1>4, <2>1, <3>1, <3>2 DEF Clears
      <3>4. Stands(para, d.spec, p, a)
        BY <3>1, <3>3 DEF Stand, Live
      <3>5. para'[a] = para[a]
        BY <1>4, <3>3, <3>4 DEF Clears, Stands, Live
      <3> QED
        BY <3>1, <3>3, <3>4, <3>5 DEF Stands, Live
    <2>2. Stand(para', d)
      BY <2>1 DEF Stand
    <2>3. Ordered(para', d)
      BY <2>1 DEF Ordered
    <2> QED
      BY <1>2, <2>2, <2>3
  <1> QED
    BY <1>3, <1>4, WriteMoves

-----------------------------------------------------------------------------
(* What the diff and the generator read of a spec. *)

(* A base snapshot is the text of the row: the history misses nothing.       *)
LEMMA BaseIsText ==
    ASSUME HistoryInv, NEW s \in Specs
    PROVE  /\ BaseSnapshots(s) = OursSnapshots(s)
           /\ OursSnapshots(s) \in [Paras -> Texts \cup {NoText}]
           /\ \A p \in Paras : OursSnapshots(s)[p] # NoText =>
                 p \in Visible(s) /\ OursSnapshots(s)[p] = para[p].text
           /\ \A p \in Visible(s) : OursSnapshots(s)[p] = para[p].text
  <1>1. ASSUME NEW p \in Visible(s)
        PROVE  BaseText(p) = para[p].text /\ para[p].text \in Texts /\ p \in Paras
    <2>1. p \in Paras /\ Live(p) /\ para[p].text \in Texts
      BY <1>1 DEF Visible, Rows, InSpec, HistoryInv, TypeOK, ParaRow, Live
    <2>2. PICK recorded : recorded = {e \in hist : e.para = p /\ e.version = para[p].baseVersion}
      OBVIOUS
    <2>3. \A e \in recorded : e.text = para[p].text
      BY <2>2 DEF HistoryInv, HistoryTracksRows
    <2>4. BaseText(p) = IF recorded = {} THEN para[p].text ELSE (CHOOSE e \in recorded : TRUE).text
      BY <2>2 DEF BaseText
    <2> QED
      BY <2>1, <2>3, <2>4
  <1>2. BaseSnapshots(s) = OursSnapshots(s)
    BY <1>1 DEF BaseSnapshots, OursSnapshots
  <1>3. OursSnapshots(s) \in [Paras -> Texts \cup {NoText}]
    BY <1>1 DEF OursSnapshots
  <1>4. \A p \in Paras : OursSnapshots(s)[p] = IF p \in Visible(s) THEN para[p].text ELSE NoText
    BY DEF OursSnapshots
  <1> QED
    BY <1>1, <1>2, <1>3, <1>4

(* A paragraph is visible to the diff exactly when it is rendered.           *)
LEMMA VisibleIsRendered ==
    ASSUME NEW s
    PROVE  Visible(s) = Rendered(s)
  BY DEF Visible, Rendered, Removed

(* What is read of a spec nobody wrote to stays.                             *)
Same(s) == Rows(s)' = Rows(s) /\ \A p \in Rows(s) : para'[p] = para[p]
LEMMA ViewsStay ==
    ASSUME TypeOK, RowsHang, SiblingPositionsDistinct, NEW s \in Specs, Same(s)
    PROVE  OursSnapshots(s)' = OursSnapshots(s) /\ Document(s)' = Document(s)
  <1>0. \A p \in Rows(s) : p \in Paras /\ Live(p) /\ para[p].spec = s /\ para'[p] = para[p]
    BY DEF Same, Rows, InSpec
  <1>1. \A p \in Rows(s) : /\ Lineage'[p] = Lineage[p]
                           /\ \A a \in Lineage[p] : a \in Rows(s)
    <2>1. Rows(s) \in SUBSET Paras
      BY <1>0
    <2>2. \A p \in Rows(s) : /\ Live(p) /\ para'[p] # NoRow
                             /\ para'[p].parent = para[p].parent
                             /\ para[p].parent # NoPara => para[p].parent \in Rows(s)
      <3> SUFFICES ASSUME NEW p \in Rows(s), para[p].parent # NoPara  PROVE para[p].parent \in Rows(s)
        BY <1>0 DEF Live
      <3> QED
        BY <1>0, LineageSplits DEF Rows
    <2>3. \A p \in Rows(s) : Lineage'[p] = Lineage[p]
      BY <2>1, <2>2, LineageStays
    <2>4. \A p \in Rows(s) : \A a \in Lineage[p] : a \in Rows(s)
      BY <1>0, LineageWithin DEF Rows
    <2> QED
      BY <2>3, <2>4
  <1>2. Rendered(s)' = Rendered(s) /\ Visible(s)' = Visible(s)
    <2>1. Rendered(s)' = {p \in Rows(s) : \A a \in Lineage'[p] : ~(para'[a].vanish /\ para'[a].type # "note")}
      BY DEF Rendered, RemovedRoot, Same
    <2>2. Rendered(s) = {p \in Rows(s) : \A a \in Lineage[p] : ~(para[a].vanish /\ para[a].type # "note")}
      BY DEF Rendered, RemovedRoot
    <2>3. Rendered(s)' = Rendered(s)
      BY <1>0, <1>1, <2>1, <2>2
    <2>4. Visible(s)' = Rendered(s)'
      BY DEF Visible, Rendered, Removed
    <2> QED
      BY <2>3, <2>4, VisibleIsRendered
  <1>3. \A p \in Rendered(s) : p \in Rows(s)
    BY DEF Rendered
  <1>4. OursSnapshots(s)' = OursSnapshots(s)
    <2>1. \A p \in Visible(s) : para'[p] = para[p]
      BY <1>0 DEF Visible
    <2> QED
      BY <1>2, <2>1 DEF OursSnapshots
  <1>5. \A p, q \in Rendered(s) : Before(p, q)' <=> Before(p, q)
    <2> SUFFICES ASSUME NEW p \in Rows(s), NEW q \in Rows(s)  PROVE Before(p, q)' <=> Before(p, q)
      BY <1>3
    <2>1. Lineage'[p] = Lineage[p] /\ Lineage'[q] = Lineage[q]
      BY <1>1
    <2>2. /\ \A a \in Lineage[p] : para'[a] = para[a]
          /\ \A b \in Lineage[q] : para'[b] = para[b]
      BY <1>0, <1>1
    <2> QED
      BY <2>1, <2>2 DEF Before
  <1>6. PICK R : R = Rendered(s)
    OBVIOUS
  <1>7. \A p \in R : {q \in R : Before(q, p)'} = {q \in R : Before(q, p)}
    BY <1>5, <1>6
  <1>8. \A i : Nth(s, i)' = Nth(s, i)
    <2> SUFFICES ASSUME NEW i  PROVE Nth(s, i)' = Nth(s, i)
      OBVIOUS
    <2>1. Nth(s, i) = CHOOSE p \in R : Cardinality({q \in R : Before(q, p)}) = i - 1
      BY <1>6 DEF Nth
    <2>2. Nth(s, i)' = CHOOSE p \in R : Cardinality({q \in R : Before(q, p)'}) = i - 1
      BY <1>2, <1>6 DEF Nth
    <2>3. (CHOOSE p \in R : Cardinality({q \in R : Before(q, p)}) = i - 1)
          = (CHOOSE p \in R : Cardinality({q \in R : Before(q, p)'}) = i - 1)
      BY <1>7
    <2> QED
      BY <2>1, <2>2, <2>3
  <1>9. Document(s)' = Document(s)
    <2>1. PICK n : n = Cardinality(R)
      OBVIOUS
    <2>2. \A i \in 1..n : Nth(s, i) \in Rows(s)
      BY <1>3, <1>6, <2>1, NthIs
    <2>3. Document(s) = [i \in 1..n |-> [uuid |-> Nth(s, i), text |-> Shown[para[Nth(s, i)].text]]]
      BY <1>6, <2>1 DEF Document
    <2>4. Document(s)' = [i \in 1..n |-> [uuid |-> Nth(s, i)', text |-> Shown[para'[Nth(s, i)'].text]]]
      BY <1>2, <1>6, <2>1 DEF Document
    <2>5. \A i \in 1..n : Nth(s, i)' = Nth(s, i) /\ para'[Nth(s, i)] = para[Nth(s, i)]
      BY <1>0, <1>8, <2>2
    <2> QED
      BY <2>3, <2>4, <2>5
  <1> QED
    BY <1>4, <1>9

-----------------------------------------------------------------------------
(* The invariant of the round trip. *)

(* classifyRow, on rows whose base is their own text.                        *)
LEMMA ClassifyIs ==
    ASSUME NEW b \in Texts \cup {NoText}, NEW t \in Texts \cup {NoText}
    PROVE  LET c == Classify(b, b, t) IN
           /\ c.theirs = t
           /\ b = NoText => c.kind = "unchanged"
           /\ b # NoText => /\ c.ours = b
                            /\ c.kind = IF t = b THEN "unchanged"
                                        ELSE IF t = NoText THEN "deleted" ELSE "modified"
    BY DEF Classify
LEMMA ClassifyType ==
    ASSUME NEW b, NEW o, NEW t \in Texts \cup {NoText}
    PROVE  /\ Classify(b, o, t).theirs = t
           /\ Classify(b, o, t).kind \in TextKinds => t \in Texts
    BY DEF Classify, TextKinds

Version(s) == spec[s].contentVersion
StoreInv == HistoryInv /\ RowsInv /\ RowsHang

(* While nobody writes to the spec, what was generated and read of it is     *)
(* what it says.                                                             *)
IssueTells ==
    issued # None =>
        /\ issued.spec \in Specs /\ issued.contentVersion \in Nat
        /\ issued.doc \in Seq(Piece(issued.doc))
        /\ \A p \in Paras : Shows(issued.doc, p) => p <= drawn
        /\ issued.contentVersion <= Version(issued.spec)
        /\ issued.contentVersion = Version(issued.spec) => issued.doc = Document(issued.spec)
ReadTells(r) ==
    r # None /\ reading.noted = Version(issued.spec) => r = OursSnapshots(issued.spec)
ReadingTells ==
    reading # None =>
        /\ issued # None /\ diff = None
        /\ reading = [base |-> reading.base, ours |-> reading.ours, noted |-> reading.noted]
        /\ reading.noted \in Nat
        /\ issued.contentVersion <= reading.noted /\ reading.noted <= Version(issued.spec)
        /\ ReadTells(reading.base) /\ ReadTells(reading.ours)

(* A diff whose noted version is still current classifies the rows as they   *)
(* are; its additions stand where the returned document has them.            *)
DiffIsCurrent ==
    \A p \in Paras :
        diff.entry[p] = Classify(OursSnapshots(diff.spec)[p], OursSnapshots(diff.spec)[p], diff.theirs[p])
DiffTells ==
    diff # None =>
        /\ issued # None /\ diff.spec = issued.spec
        /\ diff.noted \in Nat
        /\ issued.contentVersion <= diff.noted /\ diff.noted <= Version(diff.spec)
        /\ DiffTyped(diff) /\ AddedBelow(diff)
        /\ \A p \in Paras : diff.theirs[p] # NoText => Shows(issued.doc, p)
        /\ diff.noted = Version(diff.spec) => DiffIsCurrent
        /\ Stand(para, diff) /\ Ordered(para, diff)

(* After a merge every accepted entry is as asked and every accepted         *)
(* addition is a row, until somebody writes to the spec.                     *)
Settled ==
    /\ \A p \in merged.accept \cap Entries(diff) :
          EntryApplies(diff, p) /\ MergedRow(diff, p) = para[p]
    /\ \A k \in 1..Len(diff.added) : diff.added[k].id \in merged.accept =>
          Live(diff.added[k].id) /\ para[diff.added[k].id].text = diff.added[k].text
MergeTells ==
    merged # None =>
        /\ diff # None /\ merged.left \in Nat /\ merged.left <= Version(diff.spec)
        /\ merged.left = Version(diff.spec) => Settled

ReviewInv == StoreInv /\ IssueTells /\ ReadingTells /\ DiffTells /\ MergeTells

(* Drawing uuids is all that the reading side does to the store.             *)
LEMMA DrawingKeepsStore ==
    ASSUME StoreInv, UNCHANGED <<spec, para, hist, sealed>>,
           drawn' \in Nat, drawn <= drawn', drawn' <= MaxParas
    PROVE  StoreInv'
  <1>1. TypeOK'
    BY SizesAssumption DEF StoreInv, HistoryInv, TypeOK, Paras
  <1>2. (HistoryTracksRows /\ HistoryOrdered /\ SealedTextIsExact)'
    BY DEF StoreInv, HistoryInv, HistoryTracksRows, HistoryOrdered, SealedTextIsExact,
           SealedSnapshots, InSpec, Live
  <1>3. (SiblingPositionsDistinct /\ BlobMirrorsText /\ OneNotePerComment)'
    BY DEF StoreInv, RowsInv, SiblingPositionsDistinct, BlobMirrorsText, OneNotePerComment,
           NotesFrom, InSpec, Live
  <1>4. RowsHang'
    BY DEF StoreInv, RowsHang, Exists, InSpec, Live
  <1> QED
    BY <1>1, <1>2, <1>3, <1>4 DEF StoreInv, HistoryInv, RowsInv

(* A spec whose version stays says what it said.                             *)
Quiet(s) == /\ Same(s) /\ OursSnapshots(s)' = OursSnapshots(s)
            /\ Document(s)' = Document(s)
Proceeds(s) == /\ Version(s) \in Nat /\ Version(s)' \in Nat /\ Version(s) <= Version(s)'
               /\ Version(s)' = Version(s) => Quiet(s)

LEMMA UnwrittenProceeds ==
    ASSUME StoreInv, UNCHANGED <<spec, para>>, NEW s \in Specs
    PROVE  Proceeds(s)
  <1>1. Same(s)
    BY DEF Same, Rows, InSpec, Live
  <1>2. Quiet(s)
    BY <1>1, ViewsStay DEF Quiet, StoreInv, RowsInv
  <1>3. Version(s) \in Nat /\ Version(s)' = Version(s)
    BY DEF Version, StoreInv, RowsInv, TypeOK, SpecRow
  <1> QED
    BY <1>2, <1>3 DEF Proceeds

LEMMA WriteProceeds ==
    ASSUME StoreInv, NEW x \in Specs, Write(x)
    PROVE  StoreInv' /\ \A s \in Specs : Proceeds(s)
  <1>0. TypeOK /\ RowsHang /\ SiblingPositionsDistinct
    BY DEF StoreInv, RowsInv
  <1>1. [Next]_vars
    BY DEF Next
  <1>2. StoreInv'
    BY <1>0, <1>1, NextHistory, NextRows, WriteKeepsTrees DEF StoreInv
  <1>3. \A s \in Specs : Version(s) \in Nat
    BY <1>0 DEF Version, TypeOK, SpecRow
  <1>4. /\ Version(x)' = Version(x) + 1
        /\ \A s \in Specs \ {x} : Version(s)' = Version(s)
    BY <1>0, RequestAdvances DEF Version
  <1>5. ASSUME NEW s \in Specs \ {x}
        PROVE  Quiet(s)
    <2>1. Body(s)' = Body(s)
      BY <1>0, OtherBodiesStay
    <2>2. Rows(s)' = Rows(s)
      <3>1. DOMAIN Body(s) = Rows(s) /\ (DOMAIN Body(s))' = Rows(s)'
        BY DEF Body
      <3> QED
        BY <2>1, <3>1
    <2>3. \A p \in Rows(s) : para'[p] = para[p]
      <3> SUFFICES ASSUME NEW p \in Rows(s)  PROVE para'[p] = para[p]
        OBVIOUS
      <3>1. Body(s)[p] = para[p]
        BY DEF Body
      <3>2. Body(s)' = [q \in Rows(s)' |-> para'[q]]
        BY DEF Body
      <3> QED
        BY <2>1, <2>2, <3>1, <3>2
    <2>4. Same(s)
      BY <2>2, <2>3 DEF Same
    <2> QED
      BY <1>0, <2>4, ViewsStay DEF Quiet
  <1>6. ASSUME NEW s \in Specs
        PROVE  Proceeds(s)
    <2>1. CASE s = x
      BY <1>3, <1>4, <2>1 DEF Proceeds
    <2>2. CASE s # x
      BY <1>3, <1>4, <1>5, <2>2 DEF Proceeds
    <2> QED
      BY <2>1, <2>2
  <1> QED
    BY <1>2, <1>6

(* What the steps of others leave of each part.                              *)
LEMMA IssueStays ==
    ASSUME IssueTells, UNCHANGED issued, drawn \in Nat, drawn' \in Nat, drawn <= drawn',
           issued # None => Proceeds(issued.spec)
    PROVE  IssueTells'
  <1> SUFFICES ASSUME issued # None
               PROVE  /\ \A p \in Paras : Shows(issued.doc, p) => p <= drawn'
                      /\ issued.contentVersion <= Version(issued.spec)'
                      /\ issued.contentVersion = Version(issued.spec)' => issued.doc = Document(issued.spec)'
    BY DEF IssueTells, Shows, Piece
  <1>1. PICK s : s = issued.spec
    OBVIOUS
  <1>2. Version(issued.spec)' = Version(s)'
    BY <1>1 DEF Version
  <1>3. Document(issued.spec)' = Document(s)'
    BY <1>1 DEF Document, Nth, Rendered, Rows, InSpec, Live, RemovedRoot, Before
  <1>4. Proceeds(s) /\ issued.contentVersion \in Nat /\ issued.contentVersion <= Version(s)
    BY <1>1 DEF IssueTells
  <1>5. \A p \in Paras : Shows(issued.doc, p) => p <= drawn'
    BY DEF IssueTells, Paras
  <1>6. issued.contentVersion <= Version(s)'
    BY <1>4 DEF Proceeds
  <1>7. issued.contentVersion = Version(s)' => Version(s)' = Version(s) /\ issued.doc = Document(s)
    BY <1>1, <1>4 DEF Proceeds, IssueTells
  <1> QED
    BY <1>2, <1>3, <1>4, <1>5, <1>6, <1>7 DEF Proceeds, Quiet

LEMMA ReadStays ==
    ASSUME NEW r, NEW s, s = issued.spec, ReadTells(r), UNCHANGED <<issued, reading>>,
           Proceeds(s), reading.noted \in Nat, reading.noted <= Version(s)
    PROVE  /\ r # None /\ reading.noted = Version(issued.spec)' => r = OursSnapshots(issued.spec)'
           /\ reading.noted <= Version(issued.spec)'
  <1>1. Version(issued.spec)' = Version(s)'
    BY DEF Version
  <1>2. OursSnapshots(issued.spec)' = OursSnapshots(s)'
    BY DEF OursSnapshots, Visible, Rows, InSpec, Live, Removed, RemovedRoot
  <1>3. reading.noted = Version(s)' => Version(s)' = Version(s)
    BY DEF Proceeds
  <1> QED
    BY <1>1, <1>2, <1>3 DEF Proceeds, Quiet, ReadTells
LEMMA ReadingStays ==
    ASSUME ReadingTells, UNCHANGED <<issued, reading, diff>>, issued # None => Proceeds(issued.spec)
    PROVE  ReadingTells'
  <1> SUFFICES ASSUME reading # None
               PROVE  /\ reading.noted <= Version(issued.spec)'
                      /\ ReadTells(reading.base)' /\ ReadTells(reading.ours)'
    BY DEF ReadingTells
  <1>1. PICK s, a, b : s = issued.spec /\ a = reading.base /\ b = reading.ours
    OBVIOUS
  <1>2. /\ Proceeds(s) /\ reading.noted \in Nat /\ reading.noted <= Version(s)
        /\ ReadTells(a) /\ ReadTells(b)
    BY <1>1 DEF ReadingTells
  <1>3. /\ a # None /\ reading.noted = Version(issued.spec)' => a = OursSnapshots(issued.spec)'
        /\ b # None /\ reading.noted = Version(issued.spec)' => b = OursSnapshots(issued.spec)'
        /\ reading.noted <= Version(issued.spec)'
    BY <1>1, <1>2, ReadStays
  <1> QED
    BY <1>1, <1>3 DEF ReadTells

LEMMA DiffStays ==
    ASSUME DiffTells, UNCHANGED <<issued, diff>>, diff # None => Proceeds(diff.spec),
           diff # None => AddedBelow(diff)' /\ Stand(para', diff) /\ Ordered(para', diff)
    PROVE  DiffTells'
  <1> SUFFICES ASSUME diff # None
               PROVE  /\ diff.noted <= Version(diff.spec)'
                      /\ diff.noted = Version(diff.spec)' => DiffIsCurrent'
    BY DEF DiffTells, Shows, DiffTyped, Stand, Stands, Ordered
  <1>1. PICK s : s = diff.spec
    OBVIOUS
  <1>2. Version(diff.spec)' = Version(s)'
    BY <1>1 DEF Version
  <1>3. OursSnapshots(diff.spec)' = OursSnapshots(s)'
    BY <1>1 DEF OursSnapshots, Visible, Rows, InSpec, Live, Removed, RemovedRoot
  <1>4. Proceeds(s) /\ diff.noted \in Nat /\ diff.noted <= Version(s)
    BY <1>1 DEF DiffTells
  <1>5. diff.noted <= Version(s)'
    BY <1>4 DEF Proceeds
  <1>6. ASSUME diff.noted = Version(s)'
        PROVE  DiffIsCurrent'
    <2>1. Version(s)' = Version(s)
      BY <1>4, <1>6 DEF Proceeds
    <2>2. OursSnapshots(s)' = OursSnapshots(s) /\ DiffIsCurrent
      BY <1>1, <1>4, <1>6, <2>1 DEF Proceeds, Quiet, DiffTells
    <2>3. OursSnapshots(diff.spec)' = OursSnapshots(diff.spec)
      BY <1>1, <1>3, <2>2
    <2> QED
      BY <2>2, <2>3 DEF DiffIsCurrent, Classify
  <1> QED
    BY <1>2, <1>5, <1>6

LEMMA MergeStays ==
    ASSUME DiffTells, MergeTells, UNCHANGED <<diff, merged>>, diff # None => Proceeds(diff.spec)
    PROVE  MergeTells'
  <1> SUFFICES ASSUME merged # None
               PROVE  /\ merged.left <= Version(diff.spec)'
                      /\ merged.left = Version(diff.spec)' => Settled'
    BY DEF MergeTells
  <1>1. PICK s : s = diff.spec
    OBVIOUS
  <1>2. Version(diff.spec)' = Version(s)'
    BY <1>1 DEF Version
  <1>3. diff # None /\ Proceeds(s) /\ merged.left \in Nat /\ merged.left <= Version(s)
    BY <1>1 DEF MergeTells
  <1>4. merged.left <= Version(s)'
    BY <1>3 DEF Proceeds
  <1>5. ASSUME merged.left = Version(s)'
        PROVE  Settled'
    <2>1. Version(s)' = Version(s)
      BY <1>3, <1>5 DEF Proceeds
    <2>2. Same(s) /\ Settled
      BY <1>1, <1>3, <1>5, <2>1 DEF Proceeds, Quiet, MergeTells
    <2>3. \A p \in Rows(s) : p \in Paras /\ Live(p) /\ para'[p] = para[p]
      BY <2>2 DEF Same, Rows, InSpec
    <2>4. ASSUME NEW p \in merged.accept \cap Entries(diff)
          PROVE  EntryApplies(diff, p)' /\ MergedRow(diff, p)' = para'[p]
      <3>1. EntryApplies(diff, p) /\ MergedRow(diff, p) = para[p] /\ p \in Paras
        BY <2>2 DEF Settled, Entries
      <3>2. p \in Rows(s)
        BY <1>1, <3>1 DEF EntryApplies, TextApplies, DeleteApplies, Rows
      <3>3. para'[p] = para[p] /\ para[p] # NoRow
        BY <2>3, <3>2 DEF Live
      <3>4. EntryApplies(diff, p)'
        BY <3>1, <3>3 DEF EntryApplies, TextApplies, DeleteApplies, InSpec, Live
      <3>5. MergedRow(diff, p)' = MergedRow(diff, p)
        BY <3>3 DEF MergedRow
      <3> QED
        BY <3>1, <3>3, <3>4, <3>5
    <2>5. ASSUME NEW k \in 1..Len(diff.added), diff.added[k].id \in merged.accept
          PROVE  para'[diff.added[k].id] # NoRow /\ para'[diff.added[k].id].text = diff.added[k].text
      <3>1. PICK p : p = diff.added[k].id
        OBVIOUS
      <3>2. Live(p) /\ para[p].text = diff.added[k].text
        BY <2>2, <2>5, <3>1 DEF Settled
      <3>3. p \in Paras /\ para[p].spec = s
        BY <1>1, <1>3, <3>1, <3>2, AddedIs DEF DiffTells, Stand, Stands, Live
      <3>4. p \in Rows(s)
        BY <3>2, <3>3 DEF Rows, InSpec
      <3> QED
        BY <2>3, <3>1, <3>2, <3>4 DEF Live
    <2> QED
      BY <2>4, <2>5 DEF Settled, Entries, Live
  <1> QED
    BY <1>2, <1>4, <1>5

(* A writer, to this spec or to another.                                     *)
LEMMA WriterKeepsReview ==
    ASSUME ReviewInv, NEW x \in Specs, Writer(x)
    PROVE  ReviewInv'
  <1>1. Write(x) /\ UNCHANGED <<issued, reading, diff, merged>>
    BY WriterWrites DEF reviewVars
  <1>2. StoreInv' /\ \A s \in Specs : Proceeds(s)
    BY <1>1, WriteProceeds DEF ReviewInv
  <1>3. TypeOK /\ RowsHang /\ TypeOK'
    BY <1>2 DEF ReviewInv, StoreInv, RowsInv
  <1>4. drawn \in Nat /\ drawn' \in Nat /\ drawn <= drawn'
    BY <1>1, <1>3, WriteDraws
  <1>5. IssueTells'
    BY <1>1, <1>2, <1>4, IssueStays DEF ReviewInv, IssueTells
  <1>6. ReadingTells'
    BY <1>1, <1>2, ReadingStays DEF ReviewInv, IssueTells
  <1>7. ASSUME diff # None
        PROVE  AddedBelow(diff)' /\ Stand(para', diff) /\ Ordered(para', diff)
    <2>1. PICK d : d = diff
      OBVIOUS
    <2>2. DiffTyped(d) /\ AddedBelow(d) /\ Stand(para, d) /\ Ordered(para, d)
      BY <1>7, <2>1 DEF ReviewInv, DiffTells
    <2>3. AddedBelow(d)' /\ Stand(para', d) /\ Ordered(para', d)
      BY <1>1, <1>3, <2>2, WriteKeepsAdded
    <2> QED
      BY <1>1, <2>1, <2>3 DEF AddedBelow
  <1>8. diff # None => Proceeds(diff.spec)
    BY <1>2 DEF ReviewInv, DiffTells, IssueTells
  <1>9. DiffTells'
    BY <1>1, <1>7, <1>8, DiffStays DEF ReviewInv
  <1>10. MergeTells'
    BY <1>1, <1>8, MergeStays DEF ReviewInv
  <1> QED
    BY <1>2, <1>5, <1>6, <1>9, <1>10 DEF ReviewInv

(* The reading side leaves the store alone.                                  *)
LEMMA ReadingSide ==
    ASSUME StoreInv, UNCHANGED vars
    PROVE  /\ StoreInv' /\ \A s \in Specs : Proceeds(s)
           /\ drawn \in Nat /\ drawn' \in Nat /\ drawn <= drawn'
  <1>1. UNCHANGED <<spec, para, hist, sealed, drawn>>
    BY DEF vars
  <1>2. drawn \in 0..MaxParas
    BY DEF StoreInv, RowsInv, TypeOK
  <1>3. drawn \in Nat /\ drawn' \in Nat /\ drawn <= drawn' /\ drawn' <= MaxParas
    BY <1>1, <1>2, SizesAssumption
  <1>4. StoreInv'
    BY <1>1, <1>3, DrawingKeepsStore
  <1>5. \A s \in Specs : Proceeds(s)
    BY <1>1, UnwrittenProceeds
  <1> QED
    BY <1>3, <1>4, <1>5
LEMMA NothingMerged ==
    ASSUME UNCHANGED merged, merged = None
    PROVE  MergeTells'
  BY DEF MergeTells
LEMMA AddedStay ==
    ASSUME UNCHANGED <<vars, issued, diff>>, DiffTells
    PROVE  diff # None => AddedBelow(diff)' /\ Stand(para', diff) /\ Ordered(para', diff)
  BY DEF vars, DiffTells, AddedBelow

LEMMA GenerateKeepsReview ==
    ASSUME ReviewInv, NEW s \in Specs, GenerateDocx(s)
    PROVE  ReviewInv'
  <1>1. /\ issued = None /\ UNCHANGED vars /\ UNCHANGED <<reading, diff, merged>>
        /\ issued' = [spec |-> s, doc |-> Document(s), contentVersion |-> spec[s].contentVersion]
        /\ Version(s) = spec[s].contentVersion
    BY DEF GenerateDocx, Version
  <1>2. StoreInv' /\ Proceeds(s) /\ drawn \in Nat /\ drawn' = drawn
    BY <1>1, ReadingSide DEF ReviewInv, vars
  <1>3. reading = None /\ diff = None /\ merged = None
    BY <1>1 DEF ReviewInv, ReadingTells, DiffTells, MergeTells
  <1>4. TypeOK /\ RowsHang /\ SiblingPositionsDistinct
    BY DEF ReviewInv, StoreInv, RowsInv
  <1>5. PICK doc : doc = Document(s)
    OBVIOUS
  <1>6. /\ doc \in Seq(Piece(doc))
        /\ \A i \in 1..Len(doc) : doc[i].uuid \in Rendered(s)
    BY <1>4, <1>5, DocumentIs
  <1>7. \A p \in Paras : Shows(doc, p) => p <= drawn
    <2>1. \A p \in Rendered(s) : p \in Paras /\ para[p] # NoRow
      BY DEF Rendered, Rows, InSpec, Live
    <2>2. \A p \in Paras : para[p] # NoRow => p <= drawn
      BY <1>2, <1>4 DEF TypeOK, Paras
    <2> QED
      BY <1>6, <2>1, <2>2 DEF Shows
  <1>8. Version(s) \in Nat /\ Version(s)' = Version(s)
    BY <1>1, <1>2 DEF Proceeds, Version, vars
  <1>9. Document(s)' = doc
    BY <1>2, <1>5, <1>8 DEF Proceeds, Quiet
  <1>10. IssueTells'
    <2>1. issued'.spec = s /\ issued'.doc = doc /\ issued'.contentVersion = Version(s)
      BY <1>1, <1>5
    <2>2. Version(issued.spec)' = Version(s)'
      BY <2>1 DEF Version
    <2>3. Document(issued.spec)' = Document(s)'
      BY <2>1 DEF Document, Nth, Rendered, Rows, InSpec, Live, RemovedRoot, Before
    <2>4. Piece(issued.doc)' = Piece(doc) /\ \A p : Shows(issued.doc, p)' <=> Shows(doc, p)
      BY <2>1 DEF Piece, Shows
    <2> QED
      BY <1>2, <1>6, <1>7, <1>8, <1>9, <2>1, <2>2, <2>3, <2>4 DEF IssueTells
  <1>11. ReadingTells' /\ DiffTells'
    BY <1>1, <1>3 DEF ReadingTells, DiffTells
  <1>12. MergeTells'
    BY <1>1, <1>3, NothingMerged
  <1> QED
    BY <1>2, <1>10, <1>11, <1>12 DEF ReviewInv

LEMMA StartKeepsReview ==
    ASSUME ReviewInv, StartDiff
    PROVE  ReviewInv'
  <1>1. /\ issued # None /\ reading = None /\ diff = None
        /\ UNCHANGED vars /\ UNCHANGED <<issued, diff, merged>>
        /\ reading' = [base |-> None, ours |-> None, noted |-> spec[issued.spec].contentVersion]
    BY DEF StartDiff
  <1>2. /\ StoreInv' /\ \A s \in Specs : Proceeds(s)
        /\ drawn \in Nat /\ drawn' \in Nat /\ drawn <= drawn'
    BY <1>1, ReadingSide DEF ReviewInv
  <1>3. IssueTells'
    BY <1>1, <1>2, IssueStays DEF ReviewInv, IssueTells
  <1>4. ReadingTells'
    <2>1. /\ Version(issued.spec) \in Nat /\ issued.contentVersion <= Version(issued.spec)
          /\ Version(issued.spec)' = Version(issued.spec)
      BY <1>1, <1>2 DEF ReviewInv, IssueTells, Proceeds, Version, vars
    <2>2. reading'.base = None /\ reading'.ours = None /\ reading'.noted = Version(issued.spec)
      BY <1>1 DEF Version
    <2> QED
      BY <1>1, <2>1, <2>2 DEF ReadingTells, ReadTells
  <1>5. merged = None
    BY <1>1 DEF ReviewInv, MergeTells
  <1>6. DiffTells' /\ MergeTells'
    BY <1>1, <1>5, NothingMerged DEF DiffTells
  <1> QED
    BY <1>2, <1>3, <1>4, <1>6 DEF ReviewInv

(* A read takes what is committed at that moment.                            *)
LEMMA ReadKeepsReview ==
    ASSUME ReviewInv, ReadBase \/ ReadOurs
    PROVE  ReviewInv'
  <1>1. PICK s, a, b, n : s = issued.spec /\ a = reading.base /\ b = reading.ours /\ n = reading.noted
    OBVIOUS
  <1>2. reading # None /\ UNCHANGED vars /\ UNCHANGED <<issued, diff, merged>>
    BY DEF ReadBase, ReadOurs
  <1>3. /\ StoreInv' /\ \A x \in Specs : Proceeds(x)
        /\ drawn \in Nat /\ drawn' \in Nat /\ drawn <= drawn'
    BY <1>2, ReadingSide DEF ReviewInv
  <1>4. /\ issued # None /\ diff = None /\ n \in Nat /\ s \in Specs
        /\ reading = [base |-> a, ours |-> b, noted |-> n]
        /\ issued.contentVersion <= n /\ n <= Version(s)
        /\ ReadTells(a) /\ ReadTells(b)
    BY <1>1, <1>2 DEF ReviewInv, ReadingTells, IssueTells
  <1>5. Version(s)' = Version(s) /\ Quiet(s)
    <2>1. Version(s)' = Version(s)
      BY <1>2 DEF Version, vars
    <2> QED
      BY <1>3, <1>4, <2>1 DEF Proceeds
  <1>6. PICK o : o = OursSnapshots(s)
    OBVIOUS
  <1>7. BaseSnapshots(s) = o
    BY <1>4, <1>6, BaseIsText DEF ReviewInv, StoreInv
  <1>8. \/ reading' = [reading EXCEPT !.base = o]
        \/ reading' = [reading EXCEPT !.ours = o]
    BY <1>1, <1>6, <1>7 DEF ReadBase, ReadOurs
  <1>9. \/ reading' = [base |-> o, ours |-> b, noted |-> n]
        \/ reading' = [base |-> a, ours |-> o, noted |-> n]
    BY <1>4, <1>8
  <1>10. IssueTells'
    BY <1>2, <1>3, IssueStays DEF ReviewInv, IssueTells
  <1>11. ReadingTells'
    <2>1. Version(issued.spec)' = Version(s)
      BY <1>1, <1>2, <1>5 DEF Version
    <2>2. OursSnapshots(issued.spec)' = OursSnapshots(s)'
      BY <1>1, <1>2 DEF OursSnapshots, Visible, Rows, InSpec, Live, Removed, RemovedRoot
    <2>3. OursSnapshots(issued.spec)' = o
      BY <1>5, <1>6, <2>2 DEF Quiet
    <2>4. /\ a # None /\ n = Version(s) => a = o
          /\ b # None /\ n = Version(s) => b = o
      BY <1>1, <1>4, <1>6 DEF ReadTells
    <2>5. /\ reading'.noted = n
          /\ reading'.base \in {a, o} /\ reading'.ours \in {b, o}
          /\ reading' = [base |-> reading'.base, ours |-> reading'.ours, noted |-> reading'.noted]
      BY <1>9
    <2>6. ReadTells(reading.base)' /\ ReadTells(reading.ours)'
      BY <2>1, <2>3, <2>4, <2>5 DEF ReadTells
    <2> QED
      BY <1>2, <1>4, <2>1, <2>5, <2>6 DEF ReadingTells
  <1>12. merged = None
    BY <1>4 DEF ReviewInv, MergeTells
  <1>13. DiffTells' /\ MergeTells'
    BY <1>2, <1>4, <1>12, NothingMerged DEF DiffTells
  <1> QED
    BY <1>3, <1>10, <1>11, <1>13 DEF ReviewInv

(* The additions of a new diff get uuids that were never drawn.              *)
FreshFrom(orphans, n) ==
    [k \in 1..Len(orphans) |->
        [id |-> n + k, text |-> orphans[k].text, after |-> orphans[k].after]]
ShownBelow(from, n) == \A p \in Paras : Shows(from, p) => p <= n
Fresh(added, orphans, n) ==
    /\ added \in Seq(AddedRow) /\ Len(added) = Len(orphans)
    /\ \A k \in 1..Len(added) : added[k].id = n + k /\ added[k].id \in Paras
    /\ \A j, k \in 1..Len(added) : /\ added[j].after < added[k].id
                                   /\ added[j].id = added[k].id => j = k
LEMMA FreshAdditions ==
    ASSUME NEW from, NEW orphans \in Seq(Orphan(from)), NEW n \in Nat, ShownBelow(from, n),
           n + Len(orphans) <= MaxParas
    PROVE  Fresh(FreshFrom(orphans, n), orphans, n)
  <1>0. PICK added : added = FreshFrom(orphans, n)
    OBVIOUS
  <1>1. PICK m : m = Len(orphans)
    OBVIOUS
  <1>2. m \in Nat /\ \A k \in 1..m : orphans[k] \in Orphan(from)
    BY <1>1
  <1>3. ASSUME NEW k \in 1..m
        PROVE  /\ orphans[k].text \in Texts /\ orphans[k].after \in Paras \cup {NoPara}
               /\ orphans[k].after <= n /\ orphans[k].after \in Nat
    <2>1. orphans[k].text \in Texts /\ orphans[k].after \in Anchor(from)
      BY <1>2 DEF Orphan
    <2> QED
      BY <2>1 DEF Anchor, Paras, NoPara, ShownBelow
  <1>4. ASSUME NEW k \in 1..m
        PROVE  n + k \in Paras /\ n + k \in Nat /\ n < n + k
    BY <1>1, <1>2, SizesAssumption DEF Paras
  <1>5. \A k \in 1..m : added[k] = [id |-> n + k, text |-> orphans[k].text, after |-> orphans[k].after]
    BY <1>0, <1>1 DEF FreshFrom
  <1>6. added \in [1..m -> AddedRow]
    <2>1. \A k \in 1..m : [id |-> n + k, text |-> orphans[k].text, after |-> orphans[k].after] \in AddedRow
      BY <1>3, <1>4 DEF AddedRow
    <2> QED
      BY <1>0, <1>1, <2>1 DEF FreshFrom
  <1>7. added \in Seq(AddedRow) /\ Len(added) = m
    BY <1>2, <1>6
  <1>8. ASSUME NEW k \in 1..m
        PROVE  added[k].id = n + k /\ added[k].after = orphans[k].after
    <2>1. PICK new : new = added[k]
      OBVIOUS
    <2>2. new = [id |-> n + k, text |-> orphans[k].text, after |-> orphans[k].after]
      BY <1>5, <2>1
    <2> QED
      BY <2>1, <2>2
  <1>9. ASSUME NEW j \in 1..m, NEW k \in 1..m
        PROVE  /\ added[j].after < added[k].id
               /\ added[j].id = added[k].id => j = k
    <2>1. added[j].after <= n /\ added[j].after \in Nat /\ added[k].id = n + k /\ added[j].id = n + j
      BY <1>3, <1>8
    <2> QED
      BY <1>2, <1>4, <2>1
  <1> QED
    BY <1>0, <1>1, <1>4, <1>7, <1>8, <1>9 DEF Fresh

LEMMA ComputeKeepsReview ==
    ASSUME ReviewInv, ComputeDiff
    PROVE  ReviewInv'
  <1>1. PICK doc : /\ doc \in Redlined[MaxRedlines]
                   /\ drawn + Len(Orphans(doc)) <= MaxParas
                   /\ drawn' = drawn + Len(Orphans(doc)) /\ diff' = DiffAgainst(doc)
    BY DEF ComputeDiff
  <1>2. /\ reading # None /\ reading.base # None /\ reading.ours # None /\ reading' = None
        /\ UNCHANGED <<spec, para, hist, sealed>> /\ UNCHANGED <<issued, merged>>
    BY DEF ComputeDiff
  <1>3. PICK s, from, a, b, n, orphans, theirs, m :
           /\ s = issued.spec /\ from = issued.doc
           /\ a = reading.base /\ b = reading.ours /\ n = reading.noted
           /\ orphans = Orphans(doc) /\ theirs = Controlled(doc) /\ m = drawn
    OBVIOUS
  <1>4. PICK d : d = DiffAgainst(doc)
    OBVIOUS
  <1>5. /\ d.spec = s /\ d.noted = n /\ d.theirs = theirs
        /\ d.entry = [p \in Paras |-> Classify(a[p], b[p], theirs[p])]
        /\ d.added = [k \in 1..Len(orphans) |->
                         [id |-> m + k, text |-> orphans[k].text, after |-> orphans[k].after]]
    BY <1>3, <1>4 DEF DiffAgainst
  <1>6. /\ issued # None /\ diff = None /\ n \in Nat
        /\ issued.contentVersion <= n /\ n <= Version(s)
        /\ ReadTells(a) /\ ReadTells(b)
    BY <1>2, <1>3 DEF ReviewInv, ReadingTells
  <1>7. /\ s \in Specs /\ from \in Seq(Piece(from)) /\ \A p \in Paras : Shows(from, p) => p <= m
    BY <1>3, <1>6 DEF ReviewInv, IssueTells
  <1>8. m \in Nat /\ \A p \in Paras : p > m => para[p] = NoRow
    BY <1>3, SizesAssumption DEF ReviewInv, StoreInv, RowsInv, TypeOK
  <1>9. doc \in Seq(Piece(from))
    <2>1. Redlined[MaxRedlines] \subseteq Seq(Piece(issued.doc))
      BY <1>3, <1>7, RedlinedIs, MaxRedlinesAssumption
    <2> QED
      BY <1>1, <1>3, <2>1
  <1>10. /\ theirs \in [Paras -> Texts \cup {NoText}]
         /\ \A p \in Paras : theirs[p] # NoText => Shows(from, p)
    BY <1>3, <1>9, ControlledIs
  <1>11. orphans \in Seq(Orphan(from)) /\ Len(orphans) \in Nat
    <2>1. orphans \in Seq(Orphan(from))
      BY <1>3, <1>9, OrphansType
    <2> QED
      BY <2>1
  <1>12. m + Len(orphans) <= MaxParas /\ drawn' = m + Len(orphans)
    BY <1>1, <1>3
  <1>13. /\ d.added \in Seq(AddedRow) /\ Len(d.added) = Len(orphans)
         /\ \A k \in 1..Len(d.added) : d.added[k].id = m + k /\ d.added[k].id \in Paras
         /\ \A j, k \in 1..Len(d.added) : /\ d.added[j].after < d.added[k].id
                                          /\ d.added[j].id = d.added[k].id => j = k
    <2>1. ShownBelow(from, m) /\ m + Len(orphans) <= MaxParas
      BY <1>7, <1>12 DEF ShownBelow
    <2>2. Fresh(FreshFrom(orphans, m), orphans, m)
      BY <1>8, <1>11, <2>1, FreshAdditions
    <2>3. d.added = FreshFrom(orphans, m)
      BY <1>5 DEF FreshFrom
    <2> QED
      BY <2>2, <2>3 DEF Fresh
  <1>14. StoreInv' /\ Proceeds(s) /\ drawn \in Nat /\ drawn' \in Nat /\ drawn <= drawn'
    <2>1. drawn \in Nat /\ drawn' \in Nat /\ drawn <= drawn' /\ drawn' <= MaxParas
      BY <1>3, <1>8, <1>11, <1>12
    <2> QED
      BY <1>2, <1>7, <2>1, DrawingKeepsStore, UnwrittenProceeds DEF ReviewInv
  <1>15. IssueTells'
    BY <1>2, <1>3, <1>14, IssueStays DEF ReviewInv
  <1>16. DiffTyped(d)
    <2>1. \A p \in Paras : d.entry[p].kind \in TextKinds => d.entry[p].theirs \in Texts
      BY <1>5, <1>10, ClassifyType
    <2> QED
      BY <1>5, <1>7, <1>10, <1>13, <2>1 DEF DiffTyped
  <1>17. ASSUME NEW k \in 1..Len(d.added)
         PROVE  d.added[k].id <= drawn' /\ para'[d.added[k].id] = NoRow
    <2>1. d.added[k].id = m + k /\ d.added[k].id \in Paras /\ Len(d.added) = Len(orphans)
      BY <1>13
    <2>2. m + k <= drawn' /\ m + k > m
      BY <1>8, <1>11, <1>12, <2>1
    <2> QED
      BY <1>2, <1>8, <2>1, <2>2
  <1>18. Stand(para', d) /\ Ordered(para', d)
    BY <1>17 DEF Stand, Ordered
  <1>19. AddedBelow(diff)'
    BY <1>1, <1>4, <1>17 DEF AddedBelow
  <1>20. Version(s)' = Version(s) /\ OursSnapshots(s)' = OursSnapshots(s)
    <2>1. Version(s)' = Version(s)
      BY <1>2 DEF Version
    <2> QED
      BY <1>14, <2>1 DEF Proceeds, Quiet
  <1>21. Version(diff.spec)' = Version(s)
    BY <1>1, <1>4, <1>5, <1>20 DEF Version
  <1>22. ASSUME n = Version(s)
         PROVE  DiffIsCurrent'
    <2>1. PICK o : o = OursSnapshots(s)
      OBVIOUS
    <2>2. OursSnapshots(diff.spec)' = OursSnapshots(s)'
      BY <1>1, <1>4, <1>5 DEF OursSnapshots, Visible, Rows, InSpec, Live, Removed, RemovedRoot
    <2>3. OursSnapshots(diff.spec)' = o
      BY <1>20, <2>1, <2>2
    <2>4. a = o /\ b = o
      BY <1>2, <1>3, <1>6, <1>22, <2>1 DEF ReadTells
    <2>5. \A p \in Paras : d.entry[p] = Classify(o[p], o[p], d.theirs[p])
      BY <1>5, <2>4
    <2> QED
      BY <1>1, <1>4, <2>3, <2>5 DEF DiffIsCurrent, Classify
  <1>23. DiffTells'
    <2>1. diff' = d
      BY <1>1, <1>4
    <2>2. DiffTyped(diff)'
      BY <1>16, <2>1 DEF DiffTyped
    <2>3. Stand(para, diff)' /\ Ordered(para, diff)'
      BY <1>18, <2>1 DEF Stand, Stands, Ordered
    <2>4. /\ diff'.spec = issued'.spec /\ diff'.noted = n /\ issued' = issued
          /\ \A p \in Paras : diff'.theirs[p] # NoText => Shows(issued.doc, p)'
      BY <1>2, <1>3, <1>5, <1>10, <2>1 DEF Shows
    <2> QED
      BY <1>6, <1>19, <1>21, <1>22, <2>2, <2>3, <2>4 DEF DiffTells
  <1>24. ReadingTells' /\ MergeTells'
    BY <1>2, <1>6, NothingMerged DEF ReadingTells, ReviewInv, MergeTells
  <1> QED
    BY <1>14, <1>15, <1>23, <1>24 DEF ReviewInv

(* The merge itself: a generation of the spec, after which all is settled.   *)
LEMMA ApplyMergeKeepsReview ==
    ASSUME ReviewInv, diff # None, NEW accept \in SUBSET Paras, NEW v, ApplyMerge(accept, v)
    PROVE  ReviewInv'
  <1>1. PICK d, s : d = diff /\ s = diff.spec
    OBVIOUS
  <1>2. /\ HistoryInv /\ RowsInv /\ RowsHang /\ TypeOK /\ SiblingPositionsDistinct
        /\ issued # None /\ s = issued.spec /\ s \in Specs
        /\ DiffTyped(diff) /\ AddedBelow(diff) /\ Stand(para, diff) /\ Ordered(para, diff)
    BY <1>1 DEF ReviewInv, StoreInv, RowsInv, DiffTells, IssueTells
  <1>3. StoreInv'
    BY <1>2, ApplyMergeKeepsStore DEF StoreInv
  <1>4. Merges(diff, accept)
    BY <1>2, ApplyMergeMerges
  <1>5. /\ UNCHANGED <<drawn, issued, reading, diff>>
        /\ spec' = [spec EXCEPT ![s] = Bumped(@)]
        /\ merged' = [accept |-> accept, conditional |-> v # Unconditional,
                      left |-> spec'[s].contentVersion]
        /\ \A p \in accept \cap Entries(diff) : EntryApplies(diff, p)
    BY <1>1 DEF ApplyMerge, BumpSpecContentVersion, Applicable
  <1>6. Version(s) \in Nat /\ Version(s)' = Version(s) + 1 /\ Version(s) < Version(s)'
    <2>1. spec[s] \in SpecRow /\ spec'[s] = Bumped(spec[s])
      BY <1>2, <1>5 DEF TypeOK
    <2>2. spec'[s].contentVersion = spec[s].contentVersion + 1
      BY <2>1, BumpedType
    <2>3. spec[s].contentVersion \in Nat
      BY <2>1 DEF SpecRow
    <2> QED
      BY <2>2, <2>3 DEF Version
  <1>7. Proceeds(s)
    BY <1>6 DEF Proceeds
  <1>8. drawn \in Nat /\ drawn' \in Nat /\ drawn <= drawn'
    BY <1>2, <1>5, SizesAssumption DEF TypeOK
  <1>9. IssueTells'
    BY <1>2, <1>5, <1>7, <1>8, IssueStays DEF ReviewInv
  <1>10. ReadingTells'
    BY <1>2, <1>5, <1>7, ReadingStays DEF ReviewInv
  <1>11. AddedBelow(diff)' /\ Stand(para', diff) /\ Ordered(para', diff)
    BY <1>2, <1>4, <1>5 DEF Merges, AddedBelow
  <1>12. DiffTells'
    BY <1>1, <1>5, <1>7, <1>11, DiffStays DEF ReviewInv
  <1>13. Settled'
    <2>1. merged'.accept = accept /\ diff' = diff
      BY <1>5
    <2>2. ASSUME NEW p \in accept \cap Entries(diff)
          PROVE  EntryApplies(diff, p)' /\ MergedRow(diff, p)' = para'[p]
      <3>1. EntryApplies(diff, p) /\ p \in Paras /\ d.entry[p].kind # "unchanged"
        BY <1>1, <1>5 DEF Entries
      <3>2. Live(p) /\ para[p].spec = s
        BY <1>1, <3>1 DEF EntryApplies, TextApplies, DeleteApplies, InSpec
      <3>3. PICK row : row = Entered(diff, accept)[p]
        OBVIOUS
      <3>4. Kept(p) /\ EnteredTells(diff, accept, p, row) /\ Held(row, para'[p])
        BY <1>4, <3>1, <3>2, <3>3 DEF Merges
      <3>5. /\ para'[p] # NoRow /\ para'[p].spec = s /\ para'[p].type = para[p].type
            /\ para'[p].text = row.text /\ para'[p].vanish = row.vanish
        BY <3>2, <3>4 DEF Kept, Remains, Held
      <3>6. CASE d.entry[p].kind \in TextKinds
        <4>1. para'[p].text = d.entry[p].theirs
          BY <1>1, <3>4, <3>5, <3>6 DEF EnteredTells
        <4>2. TextApplies(diff, p)'
          BY <1>1, <2>1, <3>5, <4>1 DEF TextApplies, InSpec, Live
        <4>3. MergedRow(diff, p)' = para'[p]
          BY <1>1, <2>1, <3>6, <4>1 DEF MergedRow
        <4>4. diff'.entry[p].kind \in TextKinds
          BY <1>1, <2>1, <3>6
        <4> QED
          BY <4>2, <4>3, <4>4 DEF EntryApplies
      <3>7. CASE d.entry[p].kind \notin TextKinds
        <4>1. /\ para'[p].text = para[p].text /\ para'[p].vanish /\ para[p].type \in BodyTypes
              /\ d.entry[p].kind \in DeleteKinds
              /\ d.entry[p].kind = "deleteConflict" => para[p].text = d.entry[p].ours
          BY <1>1, <3>4, <3>5, <3>7 DEF EnteredTells
        <4>2. DeleteApplies(diff, p)'
          BY <1>1, <2>1, <3>5, <4>1 DEF DeleteApplies, InSpec, Live
        <4>3. MergedRow(diff, p)' = para'[p]
          BY <1>1, <2>1, <3>7, <4>1 DEF MergedRow
        <4>4. diff'.entry[p].kind \in DeleteKinds
          BY <1>1, <2>1, <4>1
        <4> QED
          BY <4>2, <4>3, <4>4 DEF EntryApplies
      <3> QED
        BY <3>6, <3>7
    <2>3. \A j \in 1..Len(diff.added) : diff.added[j].id \in accept =>
             para'[diff.added[j].id] # NoRow /\ para'[diff.added[j].id].text = diff.added[j].text
      BY <1>4 DEF Merges
    <2> QED
      BY <2>1, <2>2, <2>3 DEF Settled, Entries, Live
  <1>14. MergeTells'
    <2>1. Version(diff.spec)' = Version(s)'
      BY <1>1, <1>5 DEF Version
    <2>2. merged'.left = Version(s)'
      BY <1>5 DEF Version
    <2> QED
      BY <1>5, <1>6, <1>13, <2>1, <2>2 DEF MergeTells
  <1> QED
    BY <1>3, <1>9, <1>10, <1>12, <1>14 DEF ReviewInv

(* What a merge call may accept are rows of the diff and its additions.      *)
LEMMA AcceptedAreParas ==
    ASSUME NEW d, DiffTyped(d)
    PROVE  Entries(d) \cup AddedIds(d) \subseteq Paras
    BY AddedIs DEF Entries, AddedIds

LEMMA ReviewInitInv == ReviewInit => ReviewInv
  <1> SUFFICES ASSUME ReviewInit  PROVE ReviewInv
    OBVIOUS
  <1>1. Init /\ issued = None /\ reading = None /\ diff = None /\ merged = None
    BY DEF ReviewInit
  <1>2. HistoryInv /\ RowsInv
    BY <1>1, InitHistory, InitRows
  <1>3. RowsHang
    BY <1>1 DEF Init, RowsHang, Live
  <1> QED
    BY <1>1, <1>2, <1>3 DEF ReviewInv, StoreInv, IssueTells, ReadingTells, DiffTells, MergeTells

LEMMA ReviewNextInv == ReviewInv /\ [ReviewNext]_<<vars, reviewVars>> => ReviewInv'
  <1> SUFFICES ASSUME ReviewInv, [ReviewNext]_<<vars, reviewVars>>  PROVE ReviewInv'
    OBVIOUS
  <1>1. ASSUME NEW s \in Specs, Writer(s)  PROVE ReviewInv'
    BY <1>1, WriterKeepsReview
  <1>2. ASSUME NEW s \in Specs, GenerateDocx(s)  PROVE ReviewInv'
    BY <1>2, GenerateKeepsReview
  <1>3. CASE StartDiff
    BY <1>3, StartKeepsReview
  <1>4. CASE ReadBase \/ ReadOurs
    BY <1>4, ReadKeepsReview
  <1>5. CASE ComputeDiff
    BY <1>5, ComputeKeepsReview
  <1>6. ASSUME diff # None, NEW accept \in SUBSET (Entries(diff) \cup AddedIds(diff)),
               NEW v, ApplyMerge(accept, v)
        PROVE  ReviewInv'
    <2>1. accept \in SUBSET Paras
      BY <1>6, AcceptedAreParas DEF ReviewInv, DiffTells
    <2> QED
      BY <1>6, <2>1, ApplyMergeKeepsReview
  <1>7. CASE UNCHANGED <<vars, reviewVars>>
    <2>1. UNCHANGED vars /\ UNCHANGED <<issued, reading, diff, merged>>
      BY <1>7 DEF reviewVars
    <2>2. /\ StoreInv' /\ \A s \in Specs : Proceeds(s)
          /\ drawn \in Nat /\ drawn' \in Nat /\ drawn <= drawn'
      BY <2>1, ReadingSide DEF ReviewInv
    <2>3. issued # None => Proceeds(issued.spec)
      BY <2>2 DEF ReviewInv, IssueTells
    <2>4. diff # None => Proceeds(diff.spec)
      BY <2>3 DEF ReviewInv, DiffTells
    <2>5. diff # None => AddedBelow(diff)' /\ Stand(para', diff) /\ Ordered(para', diff)
      BY <2>1, AddedStay DEF ReviewInv
    <2>6. IssueTells' /\ ReadingTells'
      BY <2>1, <2>2, <2>3, IssueStays, ReadingStays DEF ReviewInv
    <2>7. DiffTells' /\ MergeTells'
      BY <2>1, <2>4, <2>5, DiffStays, MergeStays DEF ReviewInv
    <2> QED
      BY <2>2, <2>6, <2>7 DEF ReviewInv
  <1> QED
    BY <1>1, <1>2, <1>3, <1>4, <1>5, <1>6, <1>7 DEF ReviewNext

(* The round trip keeps its invariant, the store's included: the history     *)
(* invariants hold with merges among the writers.                            *)
THEOREM ReviewKeepsItsInvariant == ReviewSpec => []ReviewInv
  BY ReviewInitInv, ReviewNextInv, PTL DEF ReviewSpec

-----------------------------------------------------------------------------
(* The properties. *)

(* Additions that follow the same paragraph stand in the order of the        *)
(* returned document: resolveEffectiveAnchor finds the last earlier one that *)
(* is a row, insertSiblingRow makes room after it, and no writer reorders    *)
(* siblings.                                                                 *)
THEOREM AdditionsKeepTheirOrder == ReviewSpec => []AddedInDocumentOrder
  <1>1. ReviewInv => AddedInDocumentOrder
    BY DEF ReviewInv, DiffTells, Ordered, AddedInDocumentOrder, Live
  <1> QED
    BY <1>1, ReviewKeepsItsInvariant, PTL

(* Nobody having written since the document went out, the base and the ours  *)
(* reads of computeSpecDiff gave what the document shows: a row that was     *)
(* rendered is compared with its own text, and one that was not, or hangs    *)
(* below one that was not, is in neither.                                    *)
THEOREM QuietDiffsAreExact == ReviewSpec => []DiffIsExactWhenQuiet
  <1>1. ASSUME ReviewInv, diff # None, spec[diff.spec].contentVersion = issued.contentVersion,
               NEW p \in Rows(diff.spec), Shown[para[p].text] = para[p].text
        PROVE  diff.entry[p].kind =
                  IF diff.theirs[p] = IssuedText[p] THEN "unchanged"
                  ELSE IF diff.theirs[p] = NoText THEN "deleted" ELSE "modified"
    <2>1. PICK s, doc, o, t : /\ s = diff.spec /\ doc = Document(s) /\ o = OursSnapshots(s)
                              /\ t = diff.theirs[p]
      OBVIOUS
    <2>2. /\ issued # None /\ s = issued.spec /\ s \in Specs /\ DiffTyped(diff)
          /\ issued.contentVersion \in Nat /\ diff.noted \in Nat
          /\ issued.contentVersion <= diff.noted /\ diff.noted <= Version(s)
          /\ Version(s) = issued.contentVersion /\ issued.doc = doc
          /\ \A q \in Paras : diff.theirs[q] # NoText => Shows(doc, q)
      BY <1>1, <2>1 DEF ReviewInv, DiffTells, IssueTells, Version
    <2>3. diff.noted = Version(s)
      BY <2>2
    <2>4. p \in Paras /\ Live(p) /\ para[p].text \in Texts
      BY <1>1 DEF Rows, InSpec, ReviewInv, StoreInv, RowsInv, TypeOK, ParaRow, Live
    <2>5. t \in Texts \cup {NoText} /\ (t # NoText => Shows(doc, p))
      BY <2>1, <2>2, <2>4 DEF DiffTyped
    <2>6. diff.entry[p] = Classify(o[p], o[p], t)
      BY <1>1, <2>1, <2>3, <2>4 DEF ReviewInv, DiffTells, DiffIsCurrent
    <2>7. /\ doc \in Seq(Piece(doc))
          /\ \A i \in 1..Len(doc) : /\ doc[i].uuid \in Rendered(s)
                                    /\ doc[i].text = Shown[para[doc[i].uuid].text]
          /\ \A q \in Rendered(s) : Shows(doc, q)
      BY <1>1, <2>1, <2>2, DocumentIs DEF ReviewInv, StoreInv, RowsInv
    <2>8. IssuedText[p] = Controlled(doc)[p]
      BY <2>2 DEF IssuedText
    <2>9. CASE p \in Rendered(s)
      <3>1. o[p] = para[p].text
        BY <1>1, <2>1, <2>2, <2>9, BaseIsText, VisibleIsRendered DEF ReviewInv, StoreInv
      <3>2. \E i \in 1..Len(doc) : doc[i].uuid = p /\ Controlled(doc)[p] = doc[i].text
        BY <2>4, <2>7, <2>9, ControlledIs
      <3>3. IssuedText[p] = para[p].text
        BY <1>1, <2>7, <2>8, <3>2
      <3>4. o[p] \in Texts \cup {NoText} /\ o[p] # NoText
        BY <2>4, <3>1, TextsAssumption
      <3> QED
        BY <2>1, <2>5, <2>6, <3>1, <3>3, <3>4, ClassifyIs
    <2>10. CASE p \notin Rendered(s)
      <3>1. ~Shows(doc, p)
        BY <2>7, <2>10 DEF Shows
      <3>2. t = NoText /\ IssuedText[p] = NoText
        BY <2>4, <2>5, <2>7, <2>8, <3>1, ControlledIs
      <3>3. o[p] = NoText
        BY <2>1, <2>4, <2>10, VisibleIsRendered DEF OursSnapshots
      <3>4. diff.entry[p].kind = "unchanged"
        BY <2>5, <2>6, <3>3, ClassifyIs
      <3> QED
        BY <2>1, <3>2, <3>4
    <2> QED
      BY <2>9, <2>10
  <1>2. ReviewInv => DiffIsExactWhenQuiet
    BY <1>1 DEF DiffIsExactWhenQuiet
  <1> QED
    BY <1>2, ReviewKeepsItsInvariant, PTL

(* applyTextChange and applyDeletedChange compare the row, under the spec's  *)
(* lock, with what the diff showed; and the version a conditional merge      *)
(* expects is the one of both reads, so its entries are the rows as they are *)
(* now.                                                                      *)
LEMMA MergeDestroysWhatWasShown ==
    ASSUME ReviewInv, diff # None, NEW accept \in SUBSET Paras, NEW v, ApplyMerge(accept, v),
           v \in {Unconditional, diff.noted}, NEW p \in accept \cap Entries(diff)
    PROVE  /\ \/ para'[p].text # para[p].text
              \/ diff.entry[p].kind = "deleteConflict" /\ para'[p].vanish # para[p].vanish
              => para[p].text = diff.entry[p].ours
           /\ v # Unconditional => InSpec(p, diff.spec) /\ para[p].text = diff.entry[p].ours
  <1>1. PICK d, s, o : d = diff /\ s = diff.spec /\ o = OursSnapshots(s)
    OBVIOUS
  <1>2. /\ TypeOK /\ SiblingPositionsDistinct /\ HistoryInv /\ s \in Specs
        /\ DiffTyped(diff) /\ Stand(para, diff) /\ Ordered(para, diff)
    BY <1>1 DEF ReviewInv, StoreInv, RowsInv, DiffTells, IssueTells
  <1>3. Merges(diff, accept)
    BY <1>2, ApplyMergeMerges
  <1>4. p \in Paras /\ Live(p) /\ InSpec(p, s) /\ d.entry[p].kind # "unchanged"
    BY <1>1 DEF ApplyMerge, Applicable, EntryApplies, TextApplies, DeleteApplies, InSpec, Entries
  <1>5. PICK row : row = Entered(diff, accept)[p]
    OBVIOUS
  <1>6. /\ EnteredTells(diff, accept, p, row)
        /\ para'[p].text = row.text /\ para'[p].vanish = row.vanish
    BY <1>3, <1>4, <1>5 DEF Merges, Held
  <1>7. \/ para'[p].text # para[p].text
        \/ d.entry[p].kind = "deleteConflict" /\ para'[p].vanish # para[p].vanish
        => para[p].text = d.entry[p].ours
    BY <1>1, <1>6 DEF EnteredTells, TextKinds
  <1>8. ASSUME v # Unconditional
        PROVE  para[p].text = d.entry[p].ours
    <2>1. diff.noted = Version(s)
      BY <1>1, <1>8 DEF ApplyMerge, AssertSpecWritable, Version
    <2>2. d.entry[p] = Classify(o[p], o[p], d.theirs[p])
      BY <1>1, <1>4, <2>1 DEF ReviewInv, DiffTells, DiffIsCurrent
    <2>3. d.theirs[p] \in Texts \cup {NoText} /\ o[p] \in Texts \cup {NoText}
      BY <1>1, <1>2, <1>4, BaseIsText DEF DiffTyped
    <2>4. o[p] # NoText /\ d.entry[p].ours = o[p]
      BY <1>4, <2>2, <2>3, ClassifyIs
    <2> QED
      BY <1>1, <1>2, <1>4, <2>4, BaseIsText
  <1> QED
    BY <1>1, <1>4, <1>7, <1>8

(* A merge never destroys a text the diff did not show.                      *)
THEOREM MergesDestroyOnlyWhatWasShown == ReviewSpec => MergeDestroysOnlyWhatWasShown
  <1> DEFINE shown == merged' # merged =>
         \A p \in merged'.accept \cap Entries(diff) :
            /\ \/ para'[p].text # para[p].text
               \/ diff.entry[p].kind = "deleteConflict" /\ para'[p].vanish # para[p].vanish
               => para[p].text = diff.entry[p].ours
            /\ merged'.conditional =>
               InSpec(p, diff.spec) /\ para[p].text = diff.entry[p].ours
  <1>1. ASSUME ReviewInv, [ReviewNext]_<<vars, reviewVars>>, merged' # merged
        PROVE  shown
    <2>1. /\ diff # None
          /\ \E accept \in SUBSET (Entries(diff) \cup AddedIds(diff)), v \in {Unconditional, diff.noted} :
                ApplyMerge(accept, v)
      BY <1>1 DEF ReviewNext, Writer, GenerateDocx, StartDiff, ReadBase, ReadOurs, ComputeDiff, reviewVars
    <2>2. PICK accept \in SUBSET (Entries(diff) \cup AddedIds(diff)), v \in {Unconditional, diff.noted} :
             ApplyMerge(accept, v)
      BY <2>1
    <2>3. accept \in SUBSET Paras
      BY <1>1, <2>1, AcceptedAreParas DEF ReviewInv, DiffTells
    <2>4. merged'.accept = accept /\ (merged'.conditional <=> v # Unconditional)
      BY <2>2 DEF ApplyMerge
    <2> QED
      BY <1>1, <2>1, <2>2, <2>3, <2>4, MergeDestroysWhatWasShown
  <1>2. ReviewInv /\ [ReviewNext]_<<vars, reviewVars>> => [shown]_<<para, merged>>
    BY <1>1
  <1> QED
    BY <1>2, ReviewKeepsItsInvariant, PTL DEF ReviewSpec, MergeDestroysOnlyWhatWasShown

(* Merging again what is settled changes nothing: each accepted entry is as  *)
(* asked, and each accepted addition is a row, found under its own anchor.   *)
LEMMA SettledIsKept ==
    ASSUME ReviewInv, merged # None, spec[diff.spec].contentVersion = merged.left
    PROVE  /\ Applicable(diff, merged.accept)
           /\ MergeOutcome(diff, merged.accept).rows = para
  <1>1. PICK d, accept, n : d = diff /\ accept = merged.accept /\ n = Len(d.added)
    OBVIOUS
  <1>2. TypeOK /\ diff # None /\ DiffTyped(d) /\ Stand(para, d) /\ Settled
    BY <1>1 DEF ReviewInv, MergeTells, DiffTells, StoreInv, RowsInv, Version
  <1>3. \A p \in accept \cap Entries(d) : EntryApplies(d, p) /\ MergedRow(d, p) = para[p]
    BY <1>1, <1>2 DEF Settled
  <1>4. \A k \in 1..n : d.added[k].id \in accept =>
           para[d.added[k].id] # NoRow /\ para[d.added[k].id].text = d.added[k].text
    BY <1>1, <1>2 DEF Settled, Live
  <1>5. PICK rows : rows = para
    OBVIOUS
  <1>6. rows \in Tables
    BY <1>2, <1>5 DEF TypeOK, Tables
  <1>7. Entered(d, accept) = rows
    <2>1. \A p \in Paras : (IF p \in accept \cap Entries(d) THEN MergedRow(d, p) ELSE para[p]) = rows[p]
      BY <1>3, <1>5
    <2>2. rows = [p \in Paras |-> rows[p]]
      BY <1>6 DEF Tables
    <2>3. Entered(d, accept) = [p \in Paras |-> rows[p]]
      BY <2>1 DEF Entered
    <2> QED
      BY <2>2, <2>3
  <1>8. PICK f \in [0..n -> States] : Folds(f, d, accept) /\ MergeOutcome(d, accept) = f[n]
    BY <1>1, <1>2, <1>6, <1>7, MergeOutcomeIs
  <1>9. n \in Nat
    BY <1>1, <1>2, AddedIs
  <1> DEFINE T == {k \in Nat : k \in 0..n => f[k].ok /\ f[k].rows = rows}
  <1>10. 0 \in T
    BY <1>7, <1>8 DEF Folds
  <1>11. ASSUME NEW k \in Nat, k \in T  PROVE k + 1 \in T
    <2> SUFFICES ASSUME k + 1 \in 0..n  PROVE f[k + 1].ok /\ f[k + 1].rows = rows
      OBVIOUS
    <2>1. k \in 0..n /\ k + 1 \in 1..n /\ (k + 1) - 1 = k
      BY <1>9
    <2>2. PICK j, st : j = k + 1 /\ st = f[k]
      OBVIOUS
    <2>3. st \in States /\ st.ok /\ st.rows = rows /\ j \in 1..n
      BY <1>8, <1>11, <2>1, <2>2
    <2>4. f[j] = IF d.added[j].id \in accept THEN InsertAdded(st, d, j) ELSE st
      BY <1>1, <1>8, <2>1, <2>2 DEF Folds
    <2>5. CASE d.added[j].id \in accept
      <3>1. PICK e : e = EffectiveAnchor(rows, d, j)
        OBVIOUS
      <3>2. Anchors(rows, d, j, e)
        BY <1>1, <1>2, <2>3, <3>1, AnchorIs
      <3>3. rows[d.added[j].id] # NoRow /\ rows[d.added[j].id].text = d.added[j].text
        BY <1>4, <1>5, <2>3, <2>5
      <3>4. Stands(rows, d.spec, d.added[j].id, d.added[j].after)
        BY <1>1, <1>2, <1>5, <2>3, <3>3 DEF Stand
      <3>5. d.added[j].after # NoPara
        BY <3>4 DEF Stands, Paras, NoPara
      <3>6. rows[e] # NoRow /\ rows[e].spec = d.spec /\ rows[e].type \in BodyTypes
        <4>1. CASE e = d.added[j].after
          BY <3>4, <4>1 DEF Stands
        <4>2. ASSUME NEW m \in 1..(j - 1), e = d.added[m].id, rows[e] # NoRow
              PROVE  rows[e] # NoRow /\ rows[e].spec = d.spec /\ rows[e].type \in BodyTypes
          <5>1. m \in 1..Len(d.added)
            BY <1>1, <1>9, <2>3
          <5> QED
            BY <1>2, <1>5, <4>2, <5>1 DEF Stand, Stands
        <4> QED
          BY <3>2, <4>1, <4>2 DEF Anchors
      <3>7. Anchored(st, d, j, e)
        BY <2>3, <3>5, <3>6 DEF Anchored
      <3>8. InsertAdded(st, d, j).rows = st.rows
            /\ (InsertAdded(st, d, j).ok <=> st.rows[d.added[j].id].text = d.added[j].text)
        BY <1>1, <1>2, <2>3, <3>1, <3>3, <3>7, InsertAddedIs
      <3> QED
        BY <2>2, <2>3, <2>4, <2>5, <3>3, <3>8
    <2>6. CASE d.added[j].id \notin accept
      BY <2>2, <2>3, <2>4, <2>6
    <2> QED
      BY <2>5, <2>6
  <1>12. Nat \subseteq T
    <2> HIDE DEF T
    <2> QED
      BY <1>10, <1>11, CountUp
  <1>13. f[n].ok /\ f[n].rows = rows
    <2>1. n \in T /\ n \in 0..n
      BY <1>9, <1>12
    <2> QED
      BY <2>1
  <1> QED
    BY <1>1, <1>3, <1>5, <1>8, <1>13 DEF Applicable

(* A client that never saw the answer may send its merge again: until the    *)
(* spec is written to, applyAccepted finds every entry applied and every     *)
(* addition inserted.                                                        *)
THEOREM RetriesAreNoOps == ReviewSpec => []RetriedMergeIsNoOp
  <1>1. ReviewInv => RetriedMergeIsNoOp
    BY SettledIsKept DEF RetriedMergeIsNoOp
  <1> QED
    BY <1>1, ReviewKeepsItsInvariant, PTL

(* The round trip as a whole implements the abstract store: a merge, with    *)
(* however many entries and additions, is one edit of one spec, and the      *)
(* reading side is invisible.                                                *)
LEMMA ReviewStepImplements ==
    ASSUME ReviewInv, [ReviewNext]_<<vars, reviewVars>>
    PROVE  [Abstract!Next]_(Abstract!vars)
  <1>0. TypeOK
    BY DEF ReviewInv, StoreInv, RowsInv
  <1>1. ASSUME NEW s \in Specs, Writer(s)
        PROVE  [Abstract!Next]_(Abstract!vars)
    <2>1. [Next]_vars
      BY <1>1, WriterWrites DEF Next
    <2> QED
      BY <1>0, <2>1, NextImplements
  <1>2. ASSUME diff # None, NEW accept \in SUBSET (Entries(diff) \cup AddedIds(diff)),
               NEW v, ApplyMerge(accept, v)
        PROVE  [Abstract!Next]_(Abstract!vars)
    <2>1. PICK s : s = diff.spec
      OBVIOUS
    <2>2. /\ HistoryInv /\ RowsInv /\ DiffTyped(diff) /\ Stand(para, diff) /\ Ordered(para, diff)
          /\ accept \in SUBSET Paras /\ s \in Specs
      BY <1>2, <2>1, AcceptedAreParas DEF ReviewInv, StoreInv, DiffTells, IssueTells
    <2>3. Abstract!Edit(s)
      BY <1>2, <2>1, <2>2, ApplyMergeImplements
    <2> QED
      BY <2>2, <2>3 DEF Abstract!Next
  <1>3. ASSUME UNCHANGED <<spec, para, sealed>>
        PROVE  [Abstract!Next]_(Abstract!vars)
    BY <1>3 DEF Abstract!vars, Rows, InSpec, Live, Governed
  <1>4. CASE \/ \E s \in Specs : GenerateDocx(s)
             \/ StartDiff \/ ReadBase \/ ReadOurs \/ ComputeDiff
             \/ UNCHANGED <<vars, reviewVars>>
    <2>1. UNCHANGED <<spec, para, sealed>>
      BY <1>4 DEF GenerateDocx, StartDiff, ReadBase, ReadOurs, ComputeDiff, vars
    <2> QED
      BY <1>3, <2>1
  <1> QED
    BY <1>1, <1>2, <1>4 DEF ReviewNext

(* ADR-018, with merges among the writers: content_version moves by one      *)
(* exactly when what a spec says does.                                       *)
THEOREM MergesImplementVersionedSpecs == ReviewSpec => ImplementsVersionedSpecs
  <1>1. ReviewInit => Abstract!Init
    BY InitImplements DEF ReviewInit
  <1>2. ReviewInv /\ [ReviewNext]_<<vars, reviewVars>> => [Abstract!Next]_(Abstract!vars)
    BY ReviewStepImplements
  <1> QED
    BY <1>1, <1>2, ReviewKeepsItsInvariant, PTL DEF ReviewSpec, ImplementsVersionedSpecs, Abstract!Spec

=============================================================================
