-------------------------- MODULE SpecStore_proofs --------------------------
(***************************************************************************)
(* Proofs about SpecStore for every set of specs, texts, documents and     *)
(* checkpoints and every value of the bounds: its types, its history and   *)
(* what a reject restores; where a row stands among its siblings and in    *)
(* its tree, the captured blob of an object and the note a comment became; *)
(* and what the edit gate guarantees: a writer stays within the spec it    *)
(* locked, the paragraphs of an archived or upstream-locked spec are never *)
(* edited in place, and so the tables implement VersionedSpecs step by     *)
(* step.                                                                   *)
(***************************************************************************)
EXTENDS SpecStore, FiniteSetTheorems, WellFoundedInduction, TLAPS

-----------------------------------------------------------------------------
(* Numbers, recursion and ranks. *)

(* Every nonempty set of numbers has a least one, *)
LEMMA LeastOf ==
    ASSUME NEW S \in SUBSET Nat, S # {}
    PROVE  \E n \in S : \A m \in S : n <= m
  <1> DEFINE R == OpToRel(<, Nat)
  <1>1. IsWellFoundedOn(R, Nat)
    BY NatLessThanWellFounded
  <1>2. \A m, n \in Nat : m < n => <<m, n>> \in R
    BY DEF OpToRel
  <1> HIDE DEF R
  <1>3. PICK n \in S : \A m \in S : ~ (<<m, n>> \in R)
    BY <1>1, WFMin
  <1>4. \A m \in S : m \in Nat /\ n \in Nat /\ ~ (m < n)
    BY <1>2, <1>3
  <1>5. \A m \in S : n <= m
    BY <1>4
  <1> QED
    BY <1>5

(* a bounded one a greatest, *)
LEMMA GreatestOf ==
    ASSUME NEW S \in SUBSET Nat, S # {}, NEW bound \in Nat, \A n \in S : n <= bound
    PROVE  \E n \in S : \A m \in S : m <= n
  <1> DEFINE T == {k \in Nat : \E n \in S : k = bound - n}
  <1>1. T # {}
    <2>1. PICK n : n \in S
      OBVIOUS
    <2>2. n \in Nat /\ n <= bound
      BY <2>1
    <2>3. bound - n \in T
      BY <2>1, <2>2
    <2> QED
      BY <2>3
  <1>2. PICK k \in T : \A i \in T : k <= i
    BY <1>1, LeastOf
  <1>3. PICK n \in S : k = bound - n
    BY <1>2
  <1>4. ASSUME NEW m \in S  PROVE m <= n
    <2>1. m \in Nat /\ n \in Nat /\ m <= bound /\ n <= bound
      BY <1>3, <1>4
    <2>2. bound - m \in T
      BY <1>4, <2>1
    <2>3. bound - n <= bound - m
      BY <1>2, <1>3, <2>2
    <2> QED
      BY <2>1, <2>3
  <1> QED
    BY <1>3, <1>4

(* and a set that has 0 and with each number the next has them all.          *)
LEMMA CountUp ==
    ASSUME NEW S, 0 \in S, \A n \in Nat : n \in S => n + 1 \in S
    PROVE  Nat \subseteq S
  <1> SUFFICES ASSUME Nat \ S # {}  PROVE FALSE
    OBVIOUS
  <1>1. PICK n \in Nat \ S : \A m \in Nat \ S : n <= m
    BY LeastOf
  <1>2. n # 0 /\ n - 1 \in Nat
    BY <1>1
  <1>3. n - 1 \in S
    BY <1>1, <1>2
  <1>4. (n - 1) + 1 \in S
    BY <1>2, <1>3
  <1> QED
    BY <1>1, <1>2, <1>4

(* A definition by recursion along parents, which come before their          *)
(* children, defines a function: a at a root, b of the parent's value below. *)
Follows(f, D, up, a, b) == \A p \in D : f[p] = IF up[p] \in D THEN b[p][f[up[p]]] ELSE a[p]
LEMMA AlongParents ==
    ASSUME NEW D \in SUBSET Nat, NEW up \in [D -> Nat], \A p \in D : up[p] < p,
           NEW V, NEW a \in [D -> V], NEW b \in [D -> [V -> V]]
    PROVE  \E f \in [D -> V] : Follows(f, D, up, a, b)
  <1> DEFINE Below(n) == {p \in D : p < n}
             Fits(f, n) == \A p \in Below(n) : f[p] = IF up[p] \in D THEN b[p][f[up[p]]] ELSE a[p]
             S == {n \in Nat : \E f \in [Below(n) -> V] : Fits(f, n)}
  <1>0. \A p \in D : p \in Nat /\ up[p] \in Nat
    OBVIOUS
  <1>1. 0 \in S
    <2>1. Below(0) = {}
      <3>1. \A p \in D : ~ (p < 0)
        BY <1>0
      <3> QED
        BY <3>1
    <2>2. <<>> \in [Below(0) -> V]
      BY <2>1
    <2>3. Fits(<<>>, 0)
      BY <2>1
    <2> QED
      BY <2>2, <2>3
  <1>2. ASSUME NEW n \in Nat, n \in S  PROVE n + 1 \in S
    <2>1. PICK f \in [Below(n) -> V] : Fits(f, n)
      BY <1>2
    <2> DEFINE new == IF up[n] \in D THEN b[n][f[up[n]]] ELSE a[n]
               g == [p \in Below(n + 1) |-> IF p = n THEN new ELSE f[p]]
    <2>2. Below(n + 1) = IF n \in D THEN Below(n) \cup {n} ELSE Below(n)
      <3>1. \A p \in D : p < n + 1 <=> p < n \/ p = n
        BY <1>0
      <3> QED
        BY <3>1
    <2>3. n \in D => new \in V
      OBVIOUS
    <2> HIDE DEF new
    <2>4. g \in [Below(n + 1) -> V]
      BY <2>2, <2>3
    <2>5. ASSUME NEW p \in Below(n + 1)
          PROVE  g[p] = IF up[p] \in D THEN b[p][g[up[p]]] ELSE a[p]
      <3>1. up[p] \in D => up[p] \in Below(n) /\ g[up[p]] = f[up[p]]
        BY <2>2, <2>5
      <3>2. CASE p = n
        BY <3>1, <3>2 DEF new
      <3>3. CASE p # n
        BY <2>1, <2>2, <3>1, <3>3
      <3> QED
        BY <3>2, <3>3
    <2>6. Fits(g, n + 1)
      BY <2>5
    <2> HIDE DEF g
    <2> QED
      BY <2>4, <2>6
  <1>3. S = Nat
    BY <1>1, <1>2, CountUp
  <1> DEFINE good(n) == CHOOSE f \in [Below(n) -> V] : Fits(f, n)
  <1>4. \A n \in Nat : good(n) \in [Below(n) -> V] /\ Fits(good(n), n)
    BY <1>3
  <1> HIDE DEF good
  <1> DEFINE h == [p \in D |-> good(p + 1)[p]]
  <1>5. \A p, q \in D : q <= p => good(p + 1)[q] = good(q + 1)[q]
    <2> DEFINE T == {n \in Nat : \A p, q \in D : q <= p /\ q < n => good(p + 1)[q] = good(q + 1)[q]}
    <2>1. 0 \in T
      OBVIOUS
    <2>2. ASSUME NEW n \in Nat, n \in T  PROVE n + 1 \in T
      <3> SUFFICES ASSUME NEW p \in D, NEW q \in D, q <= p, q < n + 1
                   PROVE  good(p + 1)[q] = good(q + 1)[q]
        OBVIOUS
      <3>1. CASE q < n
        BY <2>2, <3>1
      <3>2. CASE q = n
        <4>1. q \in Below(p + 1) /\ q \in Below(q + 1) /\ p + 1 \in Nat /\ q + 1 \in Nat
          BY <1>0
        <4>2. /\ good(p + 1)[q] = IF up[q] \in D THEN b[q][good(p + 1)[up[q]]] ELSE a[q]
              /\ good(q + 1)[q] = IF up[q] \in D THEN b[q][good(q + 1)[up[q]]] ELSE a[q]
          BY <1>4, <4>1
        <4>3. ASSUME up[q] \in D  PROVE good(p + 1)[up[q]] = good(q + 1)[up[q]]
          <5>1. up[q] < n /\ up[q] <= p /\ up[q] <= q
            BY <1>0, <3>2, <4>3
          <5>2. \A x, y \in D : y <= x /\ y < n => good(x + 1)[y] = good(y + 1)[y]
            BY <2>2
          <5>3. /\ good(p + 1)[up[q]] = good(up[q] + 1)[up[q]]
                /\ good(q + 1)[up[q]] = good(up[q] + 1)[up[q]]
            BY <4>3, <5>1, <5>2
          <5> QED
            BY <5>3
        <4> QED
          BY <4>2, <4>3
      <3> QED
        BY <3>1, <3>2
    <2>3. T = Nat
      BY <2>1, <2>2, CountUp
    <2> SUFFICES ASSUME NEW p \in D, NEW q \in D, q <= p
                 PROVE  good(p + 1)[q] = good(q + 1)[q]
      OBVIOUS
    <2>4. q + 1 \in T
      BY <2>3
    <2> QED
      BY <2>4
  <1>6. h \in [D -> V]
    <2>1. \A p \in D : p \in Below(p + 1) /\ p + 1 \in Nat
      OBVIOUS
    <2> QED
      BY <1>4, <2>1
  <1>7. ASSUME NEW p \in D  PROVE h[p] = IF up[p] \in D THEN b[p][h[up[p]]] ELSE a[p]
    <2>1. p \in Below(p + 1) /\ p + 1 \in Nat
      OBVIOUS
    <2>2. good(p + 1)[p] = IF up[p] \in D THEN b[p][good(p + 1)[up[p]]] ELSE a[p]
      BY <1>4, <2>1
    <2>3. up[p] \in D => good(p + 1)[up[p]] = h[up[p]]
      BY <1>5
    <2> QED
      BY <2>2, <2>3
  <1> QED
    BY <1>6, <1>7 DEF Follows

(* Iteration is the case where each number follows the one before it.        *)
Iterates(f, x, b) == f[0] = x /\ \A n \in Nat : f[n + 1] = b[n][f[n]]
LEMMA Iterated ==
    ASSUME NEW V, NEW x \in V, NEW b \in [Nat -> [V -> V]]
    PROVE  \E f \in [Nat -> V] : Iterates(f, x, b)
  <1> DEFINE D == Nat \ {0}
             up == [p \in D |-> p - 1]
             a == [p \in D |-> b[p - 1][x]]
             c == [p \in D |-> b[p - 1]]
  <1>1. D \in SUBSET Nat /\ up \in [D -> Nat] /\ \A p \in D : up[p] < p
    OBVIOUS
  <1>2. a \in [D -> V] /\ c \in [D -> [V -> V]]
    OBVIOUS
  <1>3. \E g \in [D -> V] : Follows(g, D, up, a, c)
    <2> HIDE DEF D, up, a, c
    <2> QED
      BY <1>1, <1>2, AlongParents, Zenon
  <1>4. PICK g \in [D -> V] : \A p \in D : g[p] = IF up[p] \in D THEN c[p][g[up[p]]] ELSE a[p]
    BY <1>3 DEF Follows
  <1> DEFINE f == [n \in Nat |-> IF n = 0 THEN x ELSE g[n]]
  <1>5. f \in [Nat -> V] /\ f[0] = x
    OBVIOUS
  <1>6. ASSUME NEW n \in Nat  PROVE f[n + 1] = b[n][f[n]]
    <2>1. n + 1 \in D /\ f[n + 1] = g[n + 1] /\ up[n + 1] = n /\ (n + 1) - 1 = n
      OBVIOUS
    <2>2. c[n + 1] = b[n] /\ a[n + 1] = b[n][x]
      BY <2>1
    <2>3. CASE n = 0
      BY <1>4, <2>1, <2>2, <2>3
    <2>4. CASE n # 0
      BY <1>4, <2>1, <2>2, <2>4
    <2> QED
      BY <2>3, <2>4
  <1> HIDE DEF f
  <1> QED
    BY <1>5, <1>6 DEF Iterates

(* A strict total order on a finite set numbers its elements: each has its   *)
(* own count of elements before it, and each number is some element's.       *)
TotallyOrders(R, S) ==
    /\ \A p \in S : <<p, p>> \notin R
    /\ \A p, q \in S : p # q => <<p, q>> \in R \/ <<q, p>> \in R
    /\ \A p, q, r \in S : <<p, q>> \in R /\ <<q, r>> \in R => <<p, r>> \in R
Ahead(S, R, p) == {q \in S : <<q, p>> \in R}
LEMMA Ranked ==
    ASSUME NEW S, IsFiniteSet(S), NEW R, TotallyOrders(R, S)
    PROVE  /\ Cardinality(S) \in Nat
           /\ \A p \in S : Cardinality(Ahead(S, R, p)) \in 0..(Cardinality(S) - 1)
           /\ \A p, q \in S : <<p, q>> \in R =>
                 Cardinality(Ahead(S, R, p)) < Cardinality(Ahead(S, R, q))
           /\ \A p, q \in S : Cardinality(Ahead(S, R, p)) = Cardinality(Ahead(S, R, q)) => p = q
           /\ \A i \in 1..Cardinality(S) : \E p \in S : Cardinality(Ahead(S, R, p)) = i - 1
  <1> DEFINE rank(p) == Cardinality(Ahead(S, R, p))
             n == Cardinality(S)
  <1>0. /\ \A p \in S : <<p, p>> \notin R
        /\ \A p, q \in S : p # q => <<p, q>> \in R \/ <<q, p>> \in R
        /\ \A p, q, r \in S : <<p, q>> \in R /\ <<q, r>> \in R => <<p, r>> \in R
    BY DEF TotallyOrders
  <1>1. n \in Nat
    BY FS_CardinalityType
  <1>2. ASSUME NEW p \in S
        PROVE  /\ IsFiniteSet(Ahead(S, R, p)) /\ Ahead(S, R, p) \in SUBSET S
               /\ rank(p) \in Nat /\ rank(p) < n
    <2>1. Ahead(S, R, p) \in SUBSET S /\ p \notin Ahead(S, R, p)
      BY <1>0 DEF Ahead
    <2>2. /\ IsFiniteSet(Ahead(S, R, p)) /\ rank(p) <= n /\ rank(p) # n
      BY <2>1, FS_Subset
    <2>3. rank(p) \in Nat
      BY <2>2, FS_CardinalityType
    <2> HIDE DEF rank, n
    <2> QED
      BY <1>1, <2>1, <2>2, <2>3
  <1>3. ASSUME NEW p \in S, NEW q \in S, <<p, q>> \in R  PROVE rank(p) < rank(q)
    <2>1. Ahead(S, R, p) \in SUBSET Ahead(S, R, q)
      BY <1>0, <1>3 DEF Ahead
    <2>2. p \in Ahead(S, R, q) /\ p \notin Ahead(S, R, p)
      BY <1>0, <1>3 DEF Ahead
    <2>3. rank(p) <= rank(q) /\ rank(p) # rank(q)
      BY <1>2, <2>1, <2>2, FS_Subset
    <2>4. rank(p) \in Nat /\ rank(q) \in Nat
      BY <1>2
    <2> HIDE DEF rank
    <2> QED
      BY <2>3, <2>4
  <1>4. \A p, q \in S : rank(p) = rank(q) => p = q
    <2> SUFFICES ASSUME NEW p \in S, NEW q \in S, rank(p) = rank(q), p # q  PROVE FALSE
      OBVIOUS
    <2>1. rank(p) < rank(q) \/ rank(q) < rank(p)
      BY <1>0, <1>3
    <2>2. rank(p) \in Nat /\ rank(q) \in Nat
      BY <1>2
    <2> HIDE DEF rank
    <2> QED
      BY <2>1, <2>2
  <1> DEFINE T == 0..(n - 1)
             f == [p \in S |-> rank(p)]
  <1>5. IsFiniteSet(T) /\ Cardinality(T) = n
    <2> HIDE DEF n
    <2>1. n - 1 \in Int /\ 0 \in Int
      BY <1>1
    <2>2. IsFiniteSet(T) /\ Cardinality(T) = IF 0 > n - 1 THEN 0 ELSE (n - 1) - 0 + 1
      BY <2>1, FS_Interval
    <2> QED
      BY <1>1, <2>2
  <1>6. \A p \in S : rank(p) \in T
    <2> HIDE DEF rank, n
    <2> QED
      BY <1>1, <1>2
  <1>7. f \in Injection(S, T)
    <2> HIDE DEF rank, T
    <2> QED
      BY <1>4, <1>6 DEF Injection, IsInjective
  <1>8. f \in Surjection(S, T)
    <2> HIDE DEF f, T
    <2> QED
      BY <1>5, <1>7, FS_Injection
  <1>9. \A i \in T : \E p \in S : rank(p) = i
    <2> HIDE DEF rank, T
    <2> QED
      BY <1>8 DEF Surjection
  <1>10. \A i \in 1..n : i - 1 \in T
    <2> HIDE DEF n
    <2> QED
      BY <1>1
  <1>11. \A i \in 1..n : \E p \in S : rank(p) = i - 1
    BY <1>9, <1>10
  <1> HIDE DEF rank, f, T
  <1> QED
    BY <1>1, <1>3, <1>4, <1>6, <1>11 DEF rank, T

-----------------------------------------------------------------------------
(* The rows the handlers build are rows. *)

(* The provers keep a boolean column apart from the formula it came from.   *)
LEMMA FlagType ==
    /\ \A x, S : (x \in S) \in Flag
    /\ TRUE \in Flag
    /\ FALSE \in Flag
    BY DEF Flag

(* Advancing base_version changes no other column.                          *)
LEMMA TouchedType ==
    ASSUME NEW row \in ParaRow
    PROVE  /\ Touched(row) \in ParaRow
           /\ Touched(row).spec = row.spec
           /\ Touched(row).text = row.text
           /\ Touched(row).baseVersion = row.baseVersion + 1
    BY DEF Touched, ParaRow

(* A new text, with or without the blob, leaves spec and version alone.     *)
LEMMA RetextedType ==
    ASSUME NEW row \in ParaRow, NEW t \in Texts
    PROVE  /\ Retexted(row, t) \in ParaRow
           /\ Retexted(row, t).spec = row.spec
           /\ Retexted(row, t).text = t
           /\ Retexted(row, t).baseVersion = row.baseVersion
  <1> DEFINE r == [row EXCEPT !.text = t]
  <1>1. r \in ParaRow /\ r.spec = row.spec /\ r.text = t /\ r.baseVersion = row.baseVersion
    BY DEF ParaRow
  <1> HIDE DEF r
  <1>2. [r EXCEPT !.blob = t] \in ParaRow
    BY <1>1 DEF ParaRow
  <1> QED
    BY <1>1, <1>2 DEF Retexted, BlobRewritten, ParaRow, r

(* What a text edit leaves behind is a row of the same spec with that text. *)
LEMMA EditedType ==
    ASSUME NEW row \in ParaRow, NEW t \in Texts
    PROVE  /\ Edited(row, t) \in ParaRow
           /\ Edited(row, t).spec = row.spec
           /\ Edited(row, t).text = t
           /\ Edited(row, t).baseVersion = row.baseVersion + 1
  <1> DEFINE u == t \in Unresolved
             r == Retexted(row, t)
             d == [r EXCEPT !.unresolved = u]
  <1>1. u \in Flag
    BY FlagType
  <1>2. r \in ParaRow /\ r.spec = row.spec /\ r.text = t /\ r.baseVersion = row.baseVersion
    BY RetextedType
  <1>3. Edited(row, t) = Touched(d)
    BY DEF Edited, Rederived
  <1> HIDE DEF u, r
  <1>4. d \in ParaRow /\ d.spec = r.spec /\ d.text = r.text /\ d.baseVersion = r.baseVersion
    BY <1>1, <1>2 DEF ParaRow
  <1> HIDE DEF d
  <1> QED
    BY <1>2, <1>3, <1>4, TouchedType

(* The three toggles keep the text and advance base_version by one.         *)
LEMMA ToggleType ==
    ASSUME NEW row \in ParaRow, NEW b \in Flag, NEW c \in CommentStates
    PROVE  \A new \in {Vanished(row, b), Acknowledged(row, b), CommentSet(row, c)} :
              /\ new \in ParaRow
              /\ new.spec = row.spec
              /\ new.text = row.text
              /\ new.baseVersion = row.baseVersion + 1
  <1> DEFINE Same(r) == /\ r \in ParaRow /\ r.spec = row.spec
                        /\ r.text = row.text /\ r.baseVersion = row.baseVersion
  <1>1. \A r : Same(r) => /\ Touched(r) \in ParaRow
                          /\ Touched(r).spec = row.spec
                          /\ Touched(r).text = row.text
                          /\ Touched(r).baseVersion = row.baseVersion + 1
    BY TouchedType
  <1>2. Same([row EXCEPT !.vanish = b])
    BY DEF ParaRow
  <1>3. Same([row EXCEPT !.acknowledged = b])
    BY DEF ParaRow
  <1>4. Same([row EXCEPT !.comment = c])
    BY DEF ParaRow
  <1> HIDE DEF Same
  <1> QED
    BY <1>1, <1>2, <1>3, <1>4 DEF Vanished, Acknowledged, CommentSet

(* An inserted sibling is a row of the anchor's spec at version 1.          *)
LEMMA SiblingType ==
    ASSUME NEW anchor \in ParaRow, NEW type \in NodeTypes, NEW t \in Texts
    PROVE  /\ SiblingOf(anchor, type, t) \in ParaRow
           /\ SiblingOf(anchor, type, t).spec = anchor.spec
           /\ SiblingOf(anchor, type, t).baseVersion = 1
           /\ SiblingOf(anchor, type, t).text = t
  <1> DEFINE no == FALSE
             none == "none"
  <1>1. no \in Flag /\ none \in CommentStates /\ NoPara \in Paras \cup {NoPara}
    BY FlagType DEF CommentStates
  <1>2. SiblingOf(anchor, type, t) =
           [spec |-> anchor.spec, parent |-> anchor.parent,
            position |-> anchor.position + 1, type |-> type, text |-> t,
            unresolved |-> no, baseVersion |-> 1, vanish |-> no, acknowledged |-> no,
            comment |-> none, acceptedFrom |-> NoPara, blob |-> NoText]
    BY DEF SiblingOf
  <1> HIDE DEF no, none
  <1> QED
    BY <1>1, <1>2 DEF ParaRow

(* A note is such a sibling.                                                *)
LEMMA NoteType ==
    ASSUME NEW anchor \in ParaRow, NEW p \in Paras
    PROVE  /\ NoteFrom(p, anchor) \in ParaRow
           /\ NoteFrom(p, anchor).spec = anchor.spec
           /\ NoteFrom(p, anchor).baseVersion = 1
           /\ NoteFrom(p, anchor).text = CommentText
           /\ NoteFrom(p, anchor).type = "note"
           /\ NoteFrom(p, anchor).acceptedFrom = p
           /\ NoteFrom(p, anchor).parent = anchor.parent
  <1> DEFINE r == SiblingOf(anchor, "note", CommentText)
  <1>1. /\ r \in ParaRow /\ r.spec = anchor.spec /\ r.baseVersion = 1
        /\ r.text = CommentText /\ r.type = "note" /\ r.parent = anchor.parent
    BY SiblingType, TextsAssumption DEF NodeTypes, SiblingOf
  <1>2. NoteFrom(p, anchor) = [r EXCEPT !.acceptedFrom = p]
    BY DEF NoteFrom
  <1> HIDE DEF r
  <1> QED
    BY <1>1, <1>2 DEF ParaRow

(* Shifting siblings moves positions and nothing else.                      *)
LEMMA ShiftedType ==
    ASSUME NEW rows \in [Paras -> ParaRow \cup {NoRow}], NEW anchor \in ParaRow
    PROVE  /\ ShiftedAfter(rows, anchor) \in [Paras -> ParaRow \cup {NoRow}]
           /\ \A q \in Paras :
                 /\ (ShiftedAfter(rows, anchor)[q] = NoRow) <=> (rows[q] = NoRow)
                 /\ rows[q] # NoRow =>
                      /\ ShiftedAfter(rows, anchor)[q].spec = rows[q].spec
                      /\ ShiftedAfter(rows, anchor)[q].baseVersion = rows[q].baseVersion
                      /\ ShiftedAfter(rows, anchor)[q].text = rows[q].text
    BY NoRowAssumption DEF ShiftedAfter, ParaRow

(* A parsed node becomes a row of the imported spec at version 1.           *)
LEMMA ImportedType ==
    ASSUME NEW s \in Specs, NEW doc \in Documents, NEW first \in Nat,
           NEW i \in 1..Len(doc.nodes), first + Len(doc.nodes) <= MaxParas
    PROVE  /\ ImportedRow(s, doc, first, i) \in ParaRow
           /\ ImportedRow(s, doc, first, i).spec = s
           /\ ImportedRow(s, doc, first, i).baseVersion = 1
  <1> DEFINE n == doc.nodes[i]
             parent == IF n.parent = 0 THEN NoPara ELSE first + n.parent
             blob == IF n.type = "objectText" THEN n.text ELSE NoText
             u == n.text \in Unresolved
             no == FALSE
  <1>1. n \in Node /\ n.parent < i /\ Len(doc.nodes) \in Nat
    BY DocumentsAssumption
  <1>2. /\ n.parent \in Nat /\ n.position \in Nat /\ n.type \in NodeTypes
        /\ n.text \in Texts /\ n.vanish \in Flag /\ n.comment \in CommentStates
    BY <1>1 DEF Node
  <1>3. parent \in Paras \cup {NoPara}
    BY <1>1, <1>2, SizesAssumption DEF Paras
  <1>4. blob \in Texts \cup {NoText}
    BY <1>2
  <1>5. u \in Flag /\ no \in Flag
    BY FlagType
  <1>6. ImportedRow(s, doc, first, i) =
           [spec |-> s, parent |-> parent, position |-> n.position, type |-> n.type,
            text |-> n.text, unresolved |-> u, baseVersion |-> 1, vanish |-> n.vanish,
            acknowledged |-> no, comment |-> n.comment, acceptedFrom |-> NoPara,
            blob |-> blob]
    BY DEF ImportedRow
  <1> HIDE DEF n, parent, blob, u, no
  <1> QED
    BY <1>2, <1>3, <1>4, <1>5, <1>6 DEF ParaRow

-----------------------------------------------------------------------------
(* Type correctness. *)

(* A bump touches content_version alone, a new title the title alone.       *)
LEMMA BumpedType ==
    ASSUME NEW row \in SpecRow
    PROVE  Bumped(row) \in SpecRow /\ Bumped(row).contentVersion = row.contentVersion + 1
    BY DEF Bumped, SpecRow

(* A new title leaves the token and the flags of the spec row alone.        *)
LEMMA RetitledType ==
    ASSUME NEW row \in SpecRow, NEW title \in Titles
    PROVE  /\ Retitled(row, title) \in SpecRow
           /\ Retitled(row, title).contentVersion = row.contentVersion
    BY DEF Retitled, SpecRow

(* A snapshot is a paragraph_versions row, and recording one only adds rows. *)
LEMMA RecordType ==
    ASSUME NEW h \in SUBSET VersionRow, NEW p \in Paras, NEW row \in ParaRow, NEW v \in Nat
    PROVE  /\ Snapshot(p, row, v) \in VersionRow
           /\ Record(h, Snapshot(p, row, v)) \in SUBSET VersionRow
           /\ Record(h, Snapshot(p, row, v)) \subseteq h \cup {Snapshot(p, row, v)}
           /\ h \subseteq Record(h, Snapshot(p, row, v))
  <1>1. Snapshot(p, row, v) \in VersionRow
    BY DEF Snapshot, VersionRow, ParaRow
  <1> QED
    BY <1>1 DEF Record

(* The shared tail of the single-paragraph handlers keeps the types.        *)
LEMMA CommitRowType ==
    ASSUME TypeOK, NEW s \in Specs, NEW p \in Paras, NEW row \in ParaRow,
           Live(p), CommitRow(s, p, row)
    PROVE  TypeOK'
  <1>1. spec[s] \in SpecRow /\ NextGeneration(s) \in Nat
    BY DEF TypeOK, SpecRow, NextGeneration
  <1>2. spec' \in [Specs -> SpecRow]
    BY <1>1, BumpedType DEF TypeOK, CommitRow, BumpSpecContentVersion
  <1>3. para' \in [Paras -> ParaRow \cup {NoRow}]
    BY DEF TypeOK, CommitRow
  <1>4. hist' \subseteq VersionRow
    BY <1>1, RecordType DEF TypeOK, CommitRow
  <1>5. \A q \in Paras : q > drawn' => para'[q] = NoRow
    BY DEF TypeOK, CommitRow, Live
  <1> QED
    BY <1>2, <1>3, <1>4, <1>5 DEF TypeOK, CommitRow

(* An inserted row takes the next id, so every later id is still free.      *)
LEMMA InsertType ==
    ASSUME TypeOK, NEW s \in Specs, NEW a \in Paras, NEW n \in Paras, NEW row \in ParaRow,
           Live(a), IsNextId(n),
           para' = [ShiftedAfter(para, para[a]) EXCEPT ![n] = row],
           drawn' = n
    PROVE  /\ para' \in [Paras -> ParaRow \cup {NoRow}]
           /\ drawn' \in 0..MaxParas
           /\ \A q \in Paras : q > drawn' => para'[q] = NoRow
  <1>1. para[a] \in ParaRow
    BY DEF TypeOK, Live
  <1>2. /\ ShiftedAfter(para, para[a]) \in [Paras -> ParaRow \cup {NoRow}]
        /\ \A q \in Paras : ShiftedAfter(para, para[a])[q] = NoRow <=> para[q] = NoRow
    BY <1>1, ShiftedType DEF TypeOK
  <1>3. n = drawn + 1 /\ n \in 1..MaxParas /\ drawn \in Nat
    BY SizesAssumption DEF IsNextId, Paras, TypeOK
  <1> QED
    BY <1>2, <1>3 DEF TypeOK, Paras

(* Every request keeps the tables well typed: one step per handler.         *)
LEMMA WriteType ==
    ASSUME TypeOK, NEW s \in Specs, Write(s)
    PROVE  TypeOK'
  <1> USE DEF TypeOK
  <1>0. /\ spec[s] \in SpecRow
        /\ NextGeneration(s) \in Nat
        /\ \A p \in Paras : Live(p) => para[p] \in ParaRow
        /\ \A p \in Paras : InSpec(p, s) => Live(p)
    BY DEF SpecRow, NextGeneration, Live, InSpec
  <1>1. ASSUME NEW doc \in Documents, PersistParsedSpec(s, doc)  PROVE TypeOK'
    <2>1. doc.title \in Titles /\ Len(doc.nodes) \in Nat
      BY DocumentsAssumption
    <2>2. spec' \in [Specs -> SpecRow]
      BY <1>0, <1>1, <2>1, BumpedType, RetitledType DEF PersistParsedSpec
    <2>3. \A p \in Paras : p \in drawn + 1 .. drawn + Len(doc.nodes) =>
             ImportedRow(s, doc, drawn, p - drawn) \in ParaRow
      BY <1>1, <2>1, SizesAssumption, ImportedType DEF PersistParsedSpec, Paras
    <2>4. para' \in [Paras -> ParaRow \cup {NoRow}]
      BY <1>1, <2>3 DEF PersistParsedSpec
    <2>5. drawn' \in 0..MaxParas
      BY <1>1, <2>1, SizesAssumption DEF PersistParsedSpec
    <2>6. \A p \in Paras : p > drawn' => para'[p] = NoRow
      BY <1>1, <2>1, SizesAssumption DEF PersistParsedSpec, Paras
    <2> QED
      BY <1>1, <2>2, <2>4, <2>5, <2>6 DEF PersistParsedSpec
  <1>2. ASSUME NEW title \in Titles, UpdateSpec(s, title)  PROVE TypeOK'
    BY <1>0, <1>2, BumpedType, RetitledType DEF UpdateSpec
  <1>3. ASSUME NEW p \in Paras, NEW t \in Texts, NEW v, UpdateParagraphText(s, p, t, v)
        PROVE  TypeOK'
    BY <1>0, <1>3, EditedType, CommitRowType DEF UpdateParagraphText
  <1>4. ASSUME NEW a \in Paras, NEW type \in NodeTypes, NEW t \in Texts, NEW v,
               InsertParagraphAfter(s, a, type, t, v)
        PROVE  TypeOK'
    <2>1. para[a] \in ParaRow
      BY <1>0, <1>4 DEF InsertParagraphAfter
    <2>2. SiblingOf(para[a], type, t) \in ParaRow
      BY <2>1, SiblingType
    <2>3. PICK p \in Paras :
             /\ IsNextId(p)
             /\ para' = [ShiftedAfter(para, para[a]) EXCEPT ![p] = SiblingOf(para[a], type, t)]
             /\ drawn' = p
             /\ hist' = Record(hist, Snapshot(p, SiblingOf(para[a], type, t), NextGeneration(s)))
      BY <1>4 DEF InsertParagraphAfter
    <2>4. hist' \subseteq VersionRow
      BY <1>0, <2>2, <2>3, RecordType
    <2>5. spec' \in [Specs -> SpecRow]
      BY <1>0, <1>4, BumpedType DEF InsertParagraphAfter, BumpSpecContentVersion
    <2>6. /\ para' \in [Paras -> ParaRow \cup {NoRow}]
          /\ drawn' \in 0..MaxParas
          /\ \A q \in Paras : q > drawn' => para'[q] = NoRow
      BY <1>0, <1>4, <2>2, <2>3, InsertType DEF InsertParagraphAfter
    <2> QED
      BY <1>4, <2>4, <2>5, <2>6 DEF InsertParagraphAfter
  <1>5. ASSUME NEW p \in Paras, NEW b \in Flag, SetParagraphVanish(s, p, b)  PROVE TypeOK'
    BY <1>0, <1>5, ToggleType, CommitRowType DEF SetParagraphVanish, CommentStates
  <1>6. ASSUME NEW p \in Paras, NEW b \in Flag, SetParagraphAcknowledged(s, p, b)
        PROVE  TypeOK'
    BY <1>0, <1>6, ToggleType, CommitRowType DEF SetParagraphAcknowledged, CommentStates
  <1>7. ASSUME NEW p \in Paras, NEW b \in Flag, SetParagraphCommentClosed(s, p, b)
        PROVE  TypeOK'
    <2>1. (IF b THEN "closed" ELSE "open") \in CommentStates
      BY DEF CommentStates
    <2> QED
      BY <1>0, <1>7, <2>1, ToggleType, CommitRowType DEF SetParagraphCommentClosed
  <1>8. ASSUME NEW p \in Paras, AcceptCommentAsNote(s, p)  PROVE TypeOK'
    <2> DEFINE note == NoteFrom(p, para[p])
               anchor == ClosedByAccept(para[p])
    <2>1. para[p] \in ParaRow /\ Live(p)
      BY <1>0, <1>8 DEF AcceptCommentAsNote
    <2>2. note \in ParaRow /\ anchor \in ParaRow
      BY <2>1, NoteType, ToggleType, FlagType DEF ClosedByAccept, CommentStates
    <2> HIDE DEF note, anchor
    <2>3. PICK n \in Paras :
             /\ IsNextId(n)
             /\ para' = [ShiftedAfter(para, para[p]) EXCEPT ![p] = anchor, ![n] = note]
             /\ drawn' = n
             /\ LET noted == Record(hist, Snapshot(n, note, NextGeneration(s)))
                IN hist' = IF anchor = para[p] THEN noted
                           ELSE Record(noted, Snapshot(p, anchor, NextGeneration(s)))
      BY <1>8 DEF AcceptCommentAsNote, note, anchor
    <2>4. hist' \in SUBSET VersionRow
      BY <1>0, <2>2, <2>3, RecordType
    <2>5. spec' \in [Specs -> SpecRow]
      BY <1>0, <1>8, BumpedType DEF AcceptCommentAsNote, BumpSpecContentVersion
    <2>6. /\ ShiftedAfter(para, para[p]) \in [Paras -> ParaRow \cup {NoRow}]
          /\ \A q \in Paras : ShiftedAfter(para, para[p])[q] = NoRow <=> para[q] = NoRow
      BY <2>1, ShiftedType
    <2>7. n = drawn + 1 /\ n \in 1..MaxParas
      BY <2>3 DEF IsNextId, Paras
    <2>8. p < n
      BY <2>1, <2>7, SizesAssumption DEF Live, Paras
    <2>9. para' \in [Paras -> ParaRow \cup {NoRow}]
      BY <2>2, <2>3, <2>6
    <2>10. \A q \in Paras : q > drawn' => para'[q] = NoRow
      BY <2>3, <2>6, <2>7, <2>8, SizesAssumption DEF Paras
    <2> QED
      BY <1>8, <2>3, <2>4, <2>5, <2>7, <2>9, <2>10, SizesAssumption
         DEF AcceptCommentAsNote
  <1> QED
    BY <1>1, <1>2, <1>3, <1>4, <1>5, <1>6, <1>7, <1>8 DEF Write

(* The empty database is well typed.                                        *)
LEMMA InitType == Init => TypeOK
    BY SizesAssumption DEF Init, TypeOK, SpecRow, Lifecycles, ExternalStates

(* Every step, by a request, the environment or a checkpoint, keeps the     *)
(* tables well typed.                                                       *)
LEMMA NextType == TypeOK /\ [Next]_vars => TypeOK'
  <1> SUFFICES ASSUME TypeOK, [Next]_vars  PROVE TypeOK'
    OBVIOUS
  <1>1. ASSUME NEW s \in Specs, Write(s)  PROVE TypeOK'
    BY <1>1, WriteType
  <1>2. ASSUME NEW s \in Specs, Environment(s)  PROVE TypeOK'
    BY <1>2 DEF Environment, SetLifecycle, SetExternalState, TypeOK, SpecRow, Lifecycles
  <1>3. ASSUME NEW c \in Checkpoints, NEW scope \in Scopes, CreateCheckpoint(c, scope)
        PROVE  TypeOK'
    <2> DEFINE row(s) ==
          [id |-> c, spec |-> s, contentVersion |-> spec[s].contentVersion,
           texts |-> [p \in Paras |-> IF InSpec(p, s) THEN para[p].text ELSE NoText]]
    <2>1. \A s \in scope : row(s) \in SealRow
      <3> SUFFICES ASSUME NEW s \in scope  PROVE row(s) \in SealRow
        OBVIOUS
      <3>1. s \in Specs
        BY ScopesAssumption
      <3>2. spec[s].contentVersion \in Nat
        BY <3>1 DEF TypeOK, SpecRow
      <3>3. \A p \in Paras : InSpec(p, s) => para[p].text \in Texts
        BY DEF TypeOK, ParaRow, InSpec, Live
      <3>4. [p \in Paras |-> IF InSpec(p, s) THEN para[p].text ELSE NoText]
               \in [Paras -> Texts \cup {NoText}]
        BY <3>3
      <3> QED
        BY <3>1, <3>2, <3>4 DEF SealRow
    <2>2. sealed' = sealed \cup {row(s) : s \in {x \in scope : Exists(x)}}
      BY <1>3 DEF CreateCheckpoint
    <2>3. sealed' \subseteq SealRow
      BY <2>1, <2>2 DEF TypeOK
    <2> QED
      BY <1>3, <2>3 DEF CreateCheckpoint, TypeOK
  <1>4. CASE UNCHANGED vars
    BY <1>4 DEF vars, TypeOK
  <1> QED
    BY <1>1, <1>2, <1>3, <1>4 DEF Next

(* TypeOK holds in every reachable state.                                   *)
THEOREM TypeCorrect == Spec => []TypeOK
    BY InitType, NextType, PTL DEF Spec

-----------------------------------------------------------------------------
(* History.  The inductive invariant is the conjunction of the three        *)
(* history invariants with TypeOK: an ordered history needs snapshots that  *)
(* stay within their row's base_version, and what a checkpoint sealed needs *)
(* both.                                                                    *)
HistoryInv == TypeOK /\ HistoryTracksRows /\ HistoryOrdered /\ SealedTextIsExact

(* What a handler does to the rows T of spec s it touches: a live row       *)
(* advances by one version, a new one starts at 1, every other row keeps    *)
(* its spec, version and text, each touched row gets one snapshot, and the  *)
(* spec advances by one generation.                                         *)
Rewrites(s, T) ==
    /\ spec'[s].contentVersion = spec[s].contentVersion + 1
    /\ \A x \in Specs \ {s} : spec'[x].contentVersion = spec[x].contentVersion
    /\ \A p \in T :
          /\ para'[p] \in ParaRow
          /\ para'[p].spec = s
          /\ \/ InSpec(p, s) /\ para'[p].baseVersion = para[p].baseVersion + 1
             \/ ~Live(p) /\ para'[p].baseVersion = 1
    /\ \A p \in Paras \ T :
          /\ (para'[p] = NoRow) <=> (para[p] = NoRow)
          /\ Live(p) => /\ para'[p].spec = para[p].spec
                        /\ para'[p].baseVersion = para[p].baseVersion
                        /\ para'[p].text = para[p].text
    /\ hist' = hist \cup {Snapshot(p, para'[p], NextGeneration(s)) : p \in T}
    /\ sealed' = sealed

(* Such a rewrite keeps the history invariants, however many rows it        *)
(* touches.                                                                 *)
LEMMA RewritesHistory ==
    ASSUME HistoryInv, NEW s \in Specs, NEW T \in SUBSET Paras, Rewrites(s, T)
    PROVE  (HistoryTracksRows /\ HistoryOrdered /\ SealedTextIsExact)'
  <1> DEFINE new(p) == Snapshot(p, para'[p], NextGeneration(s))
  <1>0. /\ spec[s].contentVersion \in Nat
        /\ \A x \in Specs : spec[x].contentVersion \in Nat
        /\ \A p \in Paras : Live(p) => /\ para[p] \in ParaRow
                                       /\ para[p].baseVersion \in Nat
                                       /\ para[p].spec \in Specs
        /\ \A e \in hist : /\ e.para \in Paras /\ e.spec \in Specs
                           /\ e.version \in Nat /\ e.contentVersion \in Nat
    BY DEF HistoryInv, TypeOK, SpecRow, ParaRow, VersionRow, Live
  <1>1. \A p \in T : /\ new(p).para = p /\ new(p).spec = s
                     /\ new(p).version = para'[p].baseVersion
                     /\ new(p).text = para'[p].text
                     /\ new(p).contentVersion = spec[s].contentVersion + 1
    BY DEF Rewrites, Snapshot, NextGeneration
  <1>2. \A e \in hist' : e \in hist \/ \E p \in T : e = new(p)
    BY DEF Rewrites
  <1>3. \A e \in hist : e \in hist'
    BY DEF Rewrites
  <1>4. \A p \in T : new(p) \in hist'
    BY DEF Rewrites
  <1>5. \A e \in hist : /\ Live(e.para) /\ para[e.para].spec = e.spec
                        /\ e.version \in 1..para[e.para].baseVersion
                        /\ e.version = para[e.para].baseVersion => e.text = para[e.para].text
                        /\ e.contentVersion \in 1..spec[e.spec].contentVersion
    BY DEF HistoryInv, HistoryTracksRows, HistoryOrdered, InSpec
  <1> HIDE DEF new
  <1>6. HistoryTracksRows'
    <2>1. ASSUME NEW e \in hist'
          PROVE  /\ InSpec(e.para, e.spec)'
                 /\ e.version \in 1..para'[e.para].baseVersion
                 /\ e.version = para'[e.para].baseVersion => e.text = para'[e.para].text
      <3>1. CASE e \in hist /\ e.para \in T
        <4>1. para'[e.para].baseVersion = para[e.para].baseVersion + 1
          BY <3>1, <1>5 DEF Rewrites
        <4>2. para'[e.para].spec = e.spec /\ para'[e.para] # NoRow
          BY <3>1, <1>5, NoRowAssumption DEF Rewrites, InSpec
        <4> QED
          BY <1>0, <1>5, <3>1, <4>1, <4>2 DEF InSpec, Live
      <3>2. CASE e \in hist /\ e.para \notin T
        BY <1>0, <1>5, <3>2 DEF Rewrites, InSpec, Live
      <3>3. CASE \E p \in T : e = new(p)
        <4>1. PICK p \in T : e = new(p)
          BY <3>3
        <4>2. para'[p].baseVersion \in Nat \ {0} /\ para'[p] # NoRow /\ para'[p].spec = s
          BY <1>0, NoRowAssumption DEF Rewrites, InSpec
        <4> QED
          BY <1>1, <4>1, <4>2 DEF InSpec, Live
      <3> QED
        BY <1>2, <3>1, <3>2, <3>3
    <2>2. ASSUME NEW p \in Paras, Live(p)', NEW v \in 2..para'[p].baseVersion
          PROVE  \E e \in hist' : e.para = p /\ e.version = v
      <3>1. CASE p \in T /\ v = para'[p].baseVersion
        BY <3>1, <1>1, <1>4
      <3>2. CASE p \in T /\ v # para'[p].baseVersion
        <4>1. InSpec(p, s) /\ v \in 2..para[p].baseVersion
          BY <1>0, <3>2 DEF Rewrites, InSpec
        <4> QED
          BY <1>3, <4>1 DEF HistoryInv, HistoryTracksRows, InSpec
      <3>3. CASE p \notin T
        BY <1>3, <2>2, <3>3 DEF Rewrites, HistoryInv, HistoryTracksRows, Live
      <3> QED
        BY <3>1, <3>2, <3>3
    <2> QED
      BY <2>1, <2>2 DEF HistoryTracksRows
  <1>7. HistoryOrdered'
    <2>1. ASSUME NEW e \in hist'
          PROVE  e.contentVersion \in 1..spec'[e.spec].contentVersion
      BY <1>0, <1>1, <1>2, <1>5 DEF Rewrites
    <2>2. ASSUME NEW e \in hist', NEW f \in hist', e.para = f.para, e.version < f.version
          PROVE  e.contentVersion < f.contentVersion
      <3>1. CASE e \in hist /\ f \in hist
        BY <2>2, <3>1 DEF HistoryInv, HistoryOrdered
      <3>2. CASE e \in hist /\ \E p \in T : f = new(p)
        <4>1. PICK p \in T : f = new(p)
          BY <3>2
        <4>2. InSpec(p, s) /\ e.spec = s
          BY <1>1, <1>5, <2>2, <3>2, <4>1 DEF Rewrites, InSpec
        <4> QED
          BY <1>0, <1>1, <1>5, <3>2, <4>1, <4>2
      <3>3. CASE \E p \in T : e = new(p)
        <4>1. PICK p \in T : e = new(p)
          BY <3>3
        <4>2. CASE f \in hist
          <5>1. f.para = p /\ Live(p) /\ f.version \in 1..para[p].baseVersion
            BY <1>1, <1>5, <2>2, <4>1, <4>2
          <5>2. para'[p].baseVersion = para[p].baseVersion + 1
            BY <5>1 DEF Rewrites
          <5> QED
            BY <1>0, <1>1, <2>2, <4>1, <5>1, <5>2
        <4>3. CASE \E q \in T : f = new(q)
          <5>1. f = e
            BY <1>1, <2>2, <4>1, <4>3
          <5>2. e.version \in Nat
            BY <1>0, <1>1, <4>1 DEF Rewrites, InSpec
          <5> QED
            BY <2>2, <5>1, <5>2
        <4> QED
          BY <1>2, <4>2, <4>3
      <3> QED
        BY <1>2, <3>1, <3>2, <3>3
    <2> QED
      BY <2>1, <2>2 DEF HistoryOrdered
  <1>8. SealedTextIsExact'
    <2> SUFFICES ASSUME NEW r \in sealed'
                 PROVE  /\ r.contentVersion <= spec'[r.spec].contentVersion
                        /\ \A p \in Paras :
                              \A e \in SealedSnapshots(p, r.spec, r.contentVersion)' :
                                 e.text = r.texts[p]
      BY DEF SealedTextIsExact
    <2>1. /\ r \in sealed /\ r.spec \in Specs /\ r.contentVersion \in Nat
          /\ r.contentVersion <= spec[r.spec].contentVersion
      BY DEF Rewrites, HistoryInv, TypeOK, SealRow, SealedTextIsExact
    <2>2. r.contentVersion <= spec'[r.spec].contentVersion
      BY <1>0, <2>1 DEF Rewrites
    <2>3. ASSUME NEW p \in Paras, NEW e \in SealedSnapshots(p, r.spec, r.contentVersion)'
          PROVE  e.text = r.texts[p]
      <3>1. /\ e \in hist' /\ e.para = p /\ e.spec = r.spec
            /\ e.contentVersion <= r.contentVersion
        BY <2>3 DEF SealedSnapshots
      <3>2. e \in hist
        BY <1>0, <1>1, <1>2, <2>1, <3>1
      <3>3. e \in SealedSnapshots(p, r.spec, r.contentVersion)
        BY <1>3, <2>3, <3>1, <3>2 DEF SealedSnapshots
      <3> QED
        BY <2>1, <3>3 DEF HistoryInv, SealedTextIsExact
    <2> QED
      BY <2>2, <2>3
  <1> QED
    BY <1>6, <1>7, <1>8

(* recordParagraphHistory's ON CONFLICT clause never fires: the version a   *)
(* handler records is beyond every version recorded for that paragraph.     *)
LEMMA RecordIsInsert ==
    ASSUME HistoryInv, NEW p \in Paras, NEW row \in ParaRow, NEW v,
           \/ Live(p) /\ row.baseVersion = para[p].baseVersion + 1
           \/ ~Live(p)
    PROVE  Record(hist, Snapshot(p, row, v)) = hist \cup {Snapshot(p, row, v)}
  <1>1. \A e \in hist : e.para = p => Live(p) /\ e.version \in 1..para[p].baseVersion
    BY DEF HistoryInv, HistoryTracksRows, InSpec
  <1>2. Live(p) => para[p].baseVersion \in Nat
    BY DEF HistoryInv, TypeOK, ParaRow, Live
  <1>3. \A e \in hist : ~(e.para = p /\ e.version = row.baseVersion)
    BY <1>1, <1>2
  <1> QED
    BY <1>3 DEF Record, Snapshot

(* The single-paragraph handlers rewrite one row.                           *)
LEMMA CommitRowRewrites ==
    ASSUME HistoryInv, NEW s \in Specs, NEW p \in Paras, NEW row \in ParaRow,
           InSpec(p, s), row.spec = s, row.baseVersion = para[p].baseVersion + 1,
           CommitRow(s, p, row)
    PROVE  Rewrites(s, {p})
  <1>1. spec[s] \in SpecRow /\ spec \in [Specs -> SpecRow]
        /\ para \in [Paras -> ParaRow \cup {NoRow}]
    BY DEF HistoryInv, TypeOK
  <1>2. /\ spec'[s].contentVersion = spec[s].contentVersion + 1
        /\ \A x \in Specs \ {s} : spec'[x] = spec[x]
    BY <1>1, BumpedType DEF CommitRow, BumpSpecContentVersion
  <1>3. para'[p] = row /\ \A q \in Paras \ {p} : para'[q] = para[q]
    BY <1>1 DEF CommitRow
  <1>4. hist' = hist \cup {Snapshot(p, row, NextGeneration(s))}
    BY RecordIsInsert DEF HistoryInv, CommitRow, InSpec
  <1> QED
    BY <1>2, <1>3, <1>4 DEF Rewrites, CommitRow

(* Every handler but the import is a rewrite of the rows it touches.        *)
LEMMA WriteRewrites ==
    ASSUME HistoryInv, NEW s \in Specs, Write(s)
    PROVE  \/ \E doc \in Documents : PersistParsedSpec(s, doc)
           \/ \E T \in SUBSET Paras : Rewrites(s, T)
  <1>0. /\ spec[s] \in SpecRow /\ spec \in [Specs -> SpecRow]
        /\ para \in [Paras -> ParaRow \cup {NoRow}]
        /\ \A p \in Paras : InSpec(p, s) => /\ Live(p) /\ para[p] \in ParaRow
                                            /\ para[p].spec = s
        /\ \A p \in Paras : IsNextId(p) => ~Live(p)
    BY SizesAssumption DEF HistoryInv, TypeOK, InSpec, Live, IsNextId, Paras
  <1>1. ASSUME NEW title \in Titles, UpdateSpec(s, title)  PROVE Rewrites(s, {})
    BY <1>0, <1>1, BumpedType, RetitledType DEF UpdateSpec, Rewrites, Live
  <1>2. ASSUME NEW p \in Paras, NEW t \in Texts, NEW v, UpdateParagraphText(s, p, t, v)
        PROVE  Rewrites(s, {p})
    BY <1>0, <1>2, EditedType, CommitRowRewrites DEF UpdateParagraphText
  <1>3. ASSUME NEW p \in Paras, NEW b \in Flag, SetParagraphVanish(s, p, b)
        PROVE  Rewrites(s, {p})
    BY <1>0, <1>3, ToggleType, CommitRowRewrites DEF SetParagraphVanish, CommentStates
  <1>4. ASSUME NEW p \in Paras, NEW b \in Flag, SetParagraphAcknowledged(s, p, b)
        PROVE  Rewrites(s, {p})
    BY <1>0, <1>4, ToggleType, CommitRowRewrites DEF SetParagraphAcknowledged, CommentStates
  <1>5. ASSUME NEW p \in Paras, NEW b \in Flag, SetParagraphCommentClosed(s, p, b)
        PROVE  Rewrites(s, {p})
    <2>1. (IF b THEN "closed" ELSE "open") \in CommentStates
      BY DEF CommentStates
    <2> QED
      BY <1>0, <1>5, <2>1, ToggleType, CommitRowRewrites DEF SetParagraphCommentClosed
  <1>6. ASSUME BumpSpecContentVersion(s)
        PROVE  /\ spec'[s].contentVersion = spec[s].contentVersion + 1
               /\ \A x \in Specs \ {s} : spec'[x] = spec[x]
    BY <1>0, <1>6, BumpedType DEF BumpSpecContentVersion
  <1>7. ASSUME NEW a \in Paras, InSpec(a, s)
        PROVE  /\ ShiftedAfter(para, para[a]) \in [Paras -> ParaRow \cup {NoRow}]
               /\ \A q \in Paras :
                     /\ (ShiftedAfter(para, para[a])[q] = NoRow) <=> (para[q] = NoRow)
                     /\ Live(q) =>
                          /\ ShiftedAfter(para, para[a])[q].spec = para[q].spec
                          /\ ShiftedAfter(para, para[a])[q].baseVersion = para[q].baseVersion
                          /\ ShiftedAfter(para, para[a])[q].text = para[q].text
    BY <1>0, <1>7, ShiftedType DEF Live
  <1>8. ASSUME NEW a \in Paras, NEW type \in NodeTypes, NEW t \in Texts, NEW v,
               InsertParagraphAfter(s, a, type, t, v)
        PROVE  \E p \in Paras : Rewrites(s, {p})
    <2> DEFINE row == SiblingOf(para[a], type, t)
    <2>1. InSpec(a, s) /\ row \in ParaRow /\ row.spec = s /\ row.baseVersion = 1
      BY <1>0, <1>8, SiblingType DEF InsertParagraphAfter
    <2> HIDE DEF row
    <2>2. PICK p \in Paras :
             /\ IsNextId(p)
             /\ para' = [ShiftedAfter(para, para[a]) EXCEPT ![p] = row]
             /\ hist' = Record(hist, Snapshot(p, row, NextGeneration(s)))
      BY <1>8 DEF InsertParagraphAfter, row
    <2>3. hist' = hist \cup {Snapshot(p, row, NextGeneration(s))}
      BY <1>0, <2>1, <2>2, RecordIsInsert DEF HistoryInv
    <2>4. para'[p] = row
      BY <1>7, <2>1, <2>2
    <2>5. /\ spec'[s].contentVersion = spec[s].contentVersion + 1
          /\ \A x \in Specs \ {s} : spec'[x] = spec[x]
          /\ sealed' = sealed
      BY <1>6, <1>8 DEF InsertParagraphAfter
    <2>6. \A q \in Paras \ {p} :
             /\ (para'[q] = NoRow) <=> (para[q] = NoRow)
             /\ Live(q) => /\ para'[q].spec = para[q].spec
                           /\ para'[q].baseVersion = para[q].baseVersion
                           /\ para'[q].text = para[q].text
      BY <1>7, <2>1, <2>2
    <2> QED
      BY <1>0, <2>1, <2>2, <2>3, <2>4, <2>5, <2>6 DEF Rewrites
  <1>9. ASSUME NEW p \in Paras, AcceptCommentAsNote(s, p)
        PROVE  \E T \in SUBSET Paras : Rewrites(s, T)
    <2> DEFINE note == NoteFrom(p, para[p])
               anchor == ClosedByAccept(para[p])
               snap(q, row) == Snapshot(q, row, NextGeneration(s))
    <2>1. InSpec(p, s) /\ Live(p) /\ para[p] \in ParaRow /\ para[p].spec = s
      BY <1>0, <1>9 DEF AcceptCommentAsNote
    <2>2. note \in ParaRow /\ note.spec = s /\ note.baseVersion = 1
      BY <2>1, NoteType
    <2>3. \/ anchor = para[p]
          \/ /\ anchor \in ParaRow /\ anchor.spec = s
             /\ anchor.baseVersion = para[p].baseVersion + 1
      BY <2>1, ToggleType, FlagType DEF ClosedByAccept, CommentStates
    <2> HIDE DEF note, anchor
    <2>4. PICK n \in Paras :
             /\ IsNextId(n)
             /\ para' = [ShiftedAfter(para, para[p]) EXCEPT ![p] = anchor, ![n] = note]
             /\ LET noted == Record(hist, snap(n, note))
                IN hist' = IF anchor = para[p] THEN noted ELSE Record(noted, snap(p, anchor))
      BY <1>9 DEF AcceptCommentAsNote, note, anchor
    <2>5. ~Live(n) /\ n # p
      BY <1>0, <2>1, <2>4
    <2>6. Record(hist, snap(n, note)) = hist \cup {snap(n, note)}
      BY <2>2, <2>5, RecordIsInsert
    <2>7. /\ spec'[s].contentVersion = spec[s].contentVersion + 1
          /\ \A x \in Specs \ {s} : spec'[x] = spec[x]
          /\ sealed' = sealed
      BY <1>6, <1>9 DEF AcceptCommentAsNote
    <2>8. para'[n] = note /\ para'[p] = anchor
      BY <1>7, <2>1, <2>4, <2>5
    <2>9. \A q \in Paras \ {n, p} :
             /\ (para'[q] = NoRow) <=> (para[q] = NoRow)
             /\ Live(q) => /\ para'[q].spec = para[q].spec
                           /\ para'[q].baseVersion = para[q].baseVersion
                           /\ para'[q].text = para[q].text
      BY <1>7, <2>1, <2>4
    <2>10. CASE anchor = para[p]
      <3>1. hist' = hist \cup {snap(n, note)}
        BY <2>4, <2>6, <2>10
      <3>2. Rewrites(s, {n})
        BY <2>1, <2>2, <2>5, <2>7, <2>8, <2>9, <2>10, <3>1, NoRowAssumption DEF Rewrites, Live
      <3> QED
        BY <3>2
    <2>11. CASE anchor # para[p]
      <3>1. Record(hist, snap(p, anchor)) = hist \cup {snap(p, anchor)}
        BY <2>1, <2>3, <2>11, RecordIsInsert
      <3>2. snap(n, note).para = n /\ snap(p, anchor).para = p
        BY DEF Snapshot
      <3>3. snap(p, anchor).version = anchor.baseVersion
        BY DEF Snapshot
      <3>4. \A e \in hist : ~(e.para = p /\ e.version = anchor.baseVersion)
        BY <2>1, <2>3, <2>11 DEF HistoryInv, HistoryTracksRows, TypeOK, ParaRow, InSpec
      <3>5. hist' = hist \cup {snap(n, note), snap(p, anchor)}
        BY <2>4, <2>5, <2>6, <2>11, <3>2, <3>3, <3>4 DEF Record
      <3>6. Rewrites(s, {n, p})
        BY <2>1, <2>2, <2>3, <2>5, <2>7, <2>8, <2>9, <2>11, <3>5 DEF Rewrites
      <3> QED
        BY <3>6
    <2> QED
      BY <2>10, <2>11
  <1> QED
    BY <1>1, <1>2, <1>3, <1>4, <1>5, <1>8, <1>9 DEF Write

(* A re-import drops the paragraphs of one spec with their whole history.   *)
LEMMA ImportHistory ==
    ASSUME HistoryInv, NEW s \in Specs, NEW doc \in Documents, PersistParsedSpec(s, doc)
    PROVE  (HistoryTracksRows /\ HistoryOrdered /\ SealedTextIsExact)'
  <1> DEFINE fresh == drawn + 1 .. drawn + Len(doc.nodes)
  <1>0. /\ drawn \in Nat /\ Len(doc.nodes) \in Nat /\ drawn + Len(doc.nodes) <= MaxParas
        /\ spec \in [Specs -> SpecRow]
        /\ para \in [Paras -> ParaRow \cup {NoRow}]
        /\ \A p \in Paras : p \in fresh => ~Live(p)
        /\ \A e \in hist : e.para \in Paras /\ e.spec \in Specs
    BY DocumentsAssumption DEF HistoryInv, TypeOK, PersistParsedSpec, VersionRow, Live
  <1>1. \A p \in Paras : p \in fresh => /\ para'[p] \in ParaRow
                                        /\ para'[p].baseVersion = 1
    <2> SUFFICES ASSUME NEW p \in Paras, p \in fresh
                 PROVE  para'[p] \in ParaRow /\ para'[p].baseVersion = 1
      OBVIOUS
    <2>1. p - drawn \in 1..Len(doc.nodes)
      BY <1>0 DEF Paras
    <2>2. para'[p] = ImportedRow(s, doc, drawn, p - drawn)
      BY DEF PersistParsedSpec
    <2> QED
      BY <1>0, <2>1, <2>2, ImportedType
  <1>2. \A p \in Paras : p \notin fresh => para'[p] = IF InSpec(p, s) THEN NoRow ELSE para[p]
    BY DEF PersistParsedSpec
  <1>3. hist' = {e \in hist : ~InSpec(e.para, s)}
    BY DEF PersistParsedSpec
  <1>4. \A x \in Specs : /\ spec[x].contentVersion \in Nat
                         /\ spec'[x].contentVersion \in Nat
                         /\ spec'[x].contentVersion >= spec[x].contentVersion
    <2>1. spec' = [spec EXCEPT ![s] = Bumped(Retitled(@, doc.title))] /\ doc.title \in Titles
      BY DocumentsAssumption DEF PersistParsedSpec
    <2>2. \A x \in Specs : spec[x] \in SpecRow /\ spec[x].contentVersion \in Nat
      BY <1>0 DEF SpecRow
    <2>3. spec'[s].contentVersion = spec[s].contentVersion + 1
      BY <1>0, <2>1, <2>2, BumpedType, RetitledType
    <2>4. \A x \in Specs \ {s} : spec'[x] = spec[x]
      BY <1>0, <2>1
    <2> QED
      BY <2>2, <2>3, <2>4
  <1> HIDE DEF fresh
  <1>5. \A e \in hist' : /\ e \in hist /\ e.para \notin fresh
                         /\ para'[e.para] = para[e.para]
    BY <1>0, <1>2, <1>3 DEF HistoryInv, HistoryTracksRows, InSpec
  <1>6. \A e \in hist : e \in hist' \/ \A f \in hist' : f.para # e.para
    BY <1>3
  <1>7. HistoryTracksRows'
    <2>1. \A e \in hist' : /\ InSpec(e.para, e.spec)'
                           /\ e.version \in 1..para'[e.para].baseVersion
                           /\ e.version = para'[e.para].baseVersion
                                => e.text = para'[e.para].text
      BY <1>5 DEF HistoryInv, HistoryTracksRows, InSpec, Live
    <2>2. ASSUME NEW p \in Paras, Live(p)', NEW v \in 2..para'[p].baseVersion
          PROVE  \E e \in hist' : e.para = p /\ e.version = v
      <3>1. p \notin fresh
        BY <1>1, <2>2
      <3>2. ~InSpec(p, s) /\ para'[p] = para[p] /\ Live(p)
        BY <1>2, <2>2, <3>1 DEF Live
      <3>3. PICK e \in hist : e.para = p /\ e.version = v
        BY <2>2, <3>2 DEF HistoryInv, HistoryTracksRows
      <3> QED
        BY <1>3, <3>2, <3>3
    <2> QED
      BY <2>1, <2>2 DEF HistoryTracksRows
  <1>8. HistoryOrdered'
    <2>1. \A e \in hist' : e.contentVersion \in 1..spec'[e.spec].contentVersion
      BY <1>0, <1>4, <1>5 DEF HistoryInv, HistoryOrdered
    <2> QED
      BY <1>5, <2>1 DEF HistoryInv, HistoryOrdered
  <1>9. SealedTextIsExact'
    <2>1. sealed' = sealed /\ \A r \in sealed : /\ r.spec \in Specs
                                                /\ r.contentVersion \in Nat
      BY DEF PersistParsedSpec, HistoryInv, TypeOK, SealRow
    <2>2. \A r \in sealed : r.contentVersion <= spec'[r.spec].contentVersion
      BY <1>4, <2>1 DEF HistoryInv, SealedTextIsExact
    <2>3. ASSUME NEW r \in sealed, NEW p \in Paras,
                 NEW e \in SealedSnapshots(p, r.spec, r.contentVersion)'
          PROVE  e.text = r.texts[p]
      <3>1. e \in hist' /\ e.para = p
        BY <2>3 DEF SealedSnapshots
      <3>2. \A f \in hist : f.para = p => f \in hist'
        BY <1>6, <3>1
      <3>3. e \in SealedSnapshots(p, r.spec, r.contentVersion)
        BY <1>5, <2>3, <3>1, <3>2 DEF SealedSnapshots
      <3> QED
        BY <3>3 DEF HistoryInv, SealedTextIsExact
    <2> QED
      BY <2>1, <2>2, <2>3 DEF SealedTextIsExact
  <1> QED
    BY <1>7, <1>8, <1>9

(* A checkpoint seals, for every paragraph with any history, the text of    *)
(* its last snapshot, which is the text the row holds.                      *)
LEMMA CheckpointHistory ==
    ASSUME HistoryInv, NEW c \in Checkpoints, NEW scope \in Scopes, CreateCheckpoint(c, scope)
    PROVE  SealedTextIsExact'
  <1>1. UNCHANGED <<spec, para, hist>>
    BY DEF CreateCheckpoint
  <1>2. ASSUME NEW r \in sealed
        PROVE  /\ r.contentVersion <= spec[r.spec].contentVersion
               /\ \A p \in Paras : \A e \in SealedSnapshots(p, r.spec, r.contentVersion) :
                     e.text = r.texts[p]
    BY DEF HistoryInv, SealedTextIsExact
  <1>3. ASSUME NEW r \in sealed', r \notin sealed
        PROVE  /\ r.contentVersion <= spec[r.spec].contentVersion
               /\ \A p \in Paras : \A e \in SealedSnapshots(p, r.spec, r.contentVersion) :
                     e.text = r.texts[p]
    <2>1. PICK s \in scope :
             /\ r.spec = s
             /\ r.contentVersion = spec[s].contentVersion
             /\ r.texts = [p \in Paras |-> IF InSpec(p, s) THEN para[p].text ELSE NoText]
      BY <1>3 DEF CreateCheckpoint
    <2>2. s \in Specs /\ spec[s].contentVersion \in Nat
      BY ScopesAssumption DEF HistoryInv, TypeOK, SpecRow
    <2>3. ASSUME NEW p \in Paras, NEW e \in SealedSnapshots(p, s, spec[s].contentVersion)
          PROVE  e.text = r.texts[p]
      <3>1. /\ e \in hist /\ e.para = p /\ e.spec = s
            /\ InSpec(p, s) /\ para[p] \in ParaRow
        BY <2>3 DEF SealedSnapshots, HistoryInv, HistoryTracksRows, TypeOK, InSpec, Live
      <3>2. /\ para[p].baseVersion \in Nat
            /\ e.version \in 1..para[p].baseVersion
        BY <3>1 DEF HistoryInv, HistoryTracksRows, ParaRow
      <3>3. e.version = para[p].baseVersion
        <4> SUFFICES ASSUME e.version # para[p].baseVersion  PROVE FALSE
          OBVIOUS
        <4>1. para[p].baseVersion \in 2..para[p].baseVersion
          BY <3>2
        <4>2. PICK f \in hist : f.para = p /\ f.version = para[p].baseVersion
          BY <3>1, <4>1 DEF HistoryInv, HistoryTracksRows, InSpec
        <4>3. f.spec = s /\ f.contentVersion \in 1..spec[s].contentVersion
          BY <3>1, <4>2 DEF HistoryInv, HistoryTracksRows, HistoryOrdered, InSpec
        <4>4. e.contentVersion < f.contentVersion
          BY <3>1, <3>2, <4>2 DEF HistoryInv, HistoryOrdered
        <4>5. e.contentVersion \in Nat
          BY <3>1 DEF HistoryInv, TypeOK, VersionRow
        <4>6. \/ f.contentVersion < e.contentVersion
              \/ f.contentVersion = e.contentVersion
          BY <2>2, <2>3, <3>1, <4>2, <4>3 DEF SealedSnapshots
        <4> QED
          BY <4>3, <4>4, <4>5, <4>6
      <3> QED
        BY <2>1, <3>1, <3>3 DEF HistoryInv, HistoryTracksRows
    <2> QED
      BY <2>1, <2>2, <2>3
  <1> QED
    BY <1>1, <1>2, <1>3 DEF SealedTextIsExact, SealedSnapshots

(* The empty database has no history to get wrong.                          *)
LEMMA InitHistory == Init => HistoryInv
    BY InitType DEF HistoryInv, Init, HistoryTracksRows, HistoryOrdered, SealedTextIsExact, Live

(* Every step keeps the history invariants: a write is a rewrite, and       *)
(* imports, checkpoints and the environment have a case each.               *)
LEMMA NextHistory == HistoryInv /\ [Next]_vars => HistoryInv'
  <1> SUFFICES ASSUME HistoryInv, [Next]_vars  PROVE HistoryInv'
    OBVIOUS
  <1>0. TypeOK'
    BY NextType DEF HistoryInv
  <1> SUFFICES (HistoryTracksRows /\ HistoryOrdered /\ SealedTextIsExact)'
    BY <1>0 DEF HistoryInv
  <1>1. ASSUME NEW s \in Specs, Write(s)
        PROVE  (HistoryTracksRows /\ HistoryOrdered /\ SealedTextIsExact)'
    BY <1>1, WriteRewrites, RewritesHistory, ImportHistory
  <1>2. ASSUME NEW s \in Specs, Environment(s)
        PROVE  (HistoryTracksRows /\ HistoryOrdered /\ SealedTextIsExact)'
    <2>1. UNCHANGED <<para, hist, sealed>>
      BY <1>2 DEF Environment, SetLifecycle, SetExternalState
    <2>2. \A x \in Specs : spec'[x].contentVersion = spec[x].contentVersion
      BY <1>2 DEF Environment, SetLifecycle, SetExternalState, HistoryInv, TypeOK, SpecRow
    <2>3. /\ \A e \in hist : e.spec \in Specs
          /\ \A r \in sealed : r.spec \in Specs
      BY DEF HistoryInv, TypeOK, VersionRow, SealRow
    <2>4. HistoryTracksRows'
      BY <2>1 DEF HistoryInv, HistoryTracksRows, InSpec, Live
    <2>5. HistoryOrdered'
      BY <2>1, <2>2, <2>3 DEF HistoryInv, HistoryOrdered
    <2>6. SealedTextIsExact'
      BY <2>1, <2>2, <2>3 DEF HistoryInv, SealedTextIsExact, SealedSnapshots
    <2> QED
      BY <2>4, <2>5, <2>6
  <1>3. ASSUME NEW c \in Checkpoints, NEW scope \in Scopes, CreateCheckpoint(c, scope)
        PROVE  (HistoryTracksRows /\ HistoryOrdered /\ SealedTextIsExact)'
    <2>1. UNCHANGED <<spec, para, hist>>
      BY <1>3 DEF CreateCheckpoint
    <2> QED
      BY <1>3, <2>1, CheckpointHistory
         DEF HistoryInv, HistoryTracksRows, HistoryOrdered, InSpec, Live
  <1>4. CASE UNCHANGED vars
    BY <1>4 DEF vars, HistoryInv, HistoryTracksRows, HistoryOrdered, SealedTextIsExact,
                SealedSnapshots, InSpec, Live
  <1> QED
    BY <1>1, <1>2, <1>3, <1>4 DEF Next

(* Every paragraph's history is gapless, ends in the text the row holds and *)
(* is ordered alike by its own version and by its spec's content_version.   *)
THEOREM HistoryCorrect == Spec => []HistoryIsSound
  <1>1. HistoryInv => HistoryIsSound
    BY DEF HistoryInv, HistoryIsSound
  <1> QED
    BY <1>1, InitHistory, NextHistory, PTL DEF Spec

(* Reject-to-checkpoint never restores a text the checkpoint did not seal.  *)
THEOREM RejectIsExact == Spec => []SealedTextIsExact
  <1>1. HistoryInv => SealedTextIsExact
    BY DEF HistoryInv
  <1> QED
    BY <1>1, InitHistory, NextHistory, PTL DEF Spec

-----------------------------------------------------------------------------
(* The three invariants need nothing but the types and each other.          *)
RowsInv == /\ TypeOK
           /\ SiblingPositionsDistinct
           /\ BlobMirrorsText
           /\ OneNotePerComment

-----------------------------------------------------------------------------
(* An edit in place: the row stays where it is and what it is, its comment  *)
(* neither appears nor goes, and the blob keeps up with the text.           *)
SamePlace(old, new) ==
    /\ new \in ParaRow
    /\ new.spec = old.spec /\ new.parent = old.parent /\ new.position = old.position
    /\ new.type = old.type /\ new.acceptedFrom = old.acceptedFrom
    /\ (new.comment = "none") <=> (old.comment = "none")
    /\ new.type = "objectText" /\ old.blob = old.text => new.blob = new.text

(* Advancing base_version moves nothing.                                    *)
LEMMA TouchedPlace ==
    ASSUME NEW old \in ParaRow, NEW new \in ParaRow, SamePlace(old, new)
    PROVE  SamePlace(old, Touched(new))
  <1>1. Touched(new) \in ParaRow
    BY TouchedType
  <1>2. /\ Touched(new).spec = new.spec /\ Touched(new).parent = new.parent
        /\ Touched(new).position = new.position /\ Touched(new).type = new.type
        /\ Touched(new).acceptedFrom = new.acceptedFrom
        /\ Touched(new).comment = new.comment
        /\ Touched(new).blob = new.blob /\ Touched(new).text = new.text
    BY DEF Touched, ParaRow
  <1> QED
    BY <1>1, <1>2 DEF SamePlace

(* A text edit is an edit in place.                                         *)
LEMMA EditedPlace ==
    ASSUME NEW row \in ParaRow, NEW t \in Texts
    PROVE  SamePlace(row, Edited(row, t))
  <1> DEFINE r == Retexted(row, t)
             x == [row EXCEPT !.text = t]
             u == t \in Unresolved
             d == [r EXCEPT !.unresolved = u]
  <1>1. r \in ParaRow /\ u \in Flag
    BY RetextedType, FlagType
  <1>2. x \in ParaRow /\ x.spec = row.spec /\ x.parent = row.parent
        /\ x.position = row.position /\ x.type = row.type
        /\ x.acceptedFrom = row.acceptedFrom /\ x.comment = row.comment
        /\ x.text = t
    BY DEF ParaRow
  <1> HIDE DEF x, u
  <1>3. /\ r.spec = row.spec /\ r.parent = row.parent
        /\ r.position = row.position /\ r.type = row.type
        /\ r.acceptedFrom = row.acceptedFrom /\ r.comment = row.comment
        /\ r.type = "objectText" => r.blob = r.text
    <2>1. r = IF x.type = "objectText" THEN [x EXCEPT !.blob = t] ELSE x
      BY DEF r, x, Retexted, BlobRewritten
    <2> HIDE DEF r
    <2> QED
      BY <1>2, <2>1 DEF ParaRow
  <1> HIDE DEF r
  <1>4. SamePlace(row, d) /\ d \in ParaRow
    BY <1>1, <1>3 DEF SamePlace, ParaRow
  <1>5. Edited(row, t) = Touched(d)
    BY DEF Edited, Rederived, d, r, u
  <1> QED
    BY <1>4, <1>5, TouchedPlace

(* So is a toggle; closing or reopening a comment does not make one.        *)
LEMMA TogglePlace ==
    ASSUME NEW row \in ParaRow, NEW b \in Flag, NEW c \in CommentStates
    PROVE  /\ SamePlace(row, Vanished(row, b))
           /\ SamePlace(row, Acknowledged(row, b))
           /\ row.comment # "none" /\ c # "none" => SamePlace(row, CommentSet(row, c))
  <1> DEFINE v == [row EXCEPT !.vanish = b]
             a == [row EXCEPT !.acknowledged = b]
             m == [row EXCEPT !.comment = c]
  <1>1. v \in ParaRow /\ SamePlace(row, v)
    BY DEF SamePlace, ParaRow
  <1>2. a \in ParaRow /\ SamePlace(row, a)
    BY DEF SamePlace, ParaRow
  <1>3. m \in ParaRow /\ (row.comment # "none" /\ c # "none" => SamePlace(row, m))
    BY DEF SamePlace, ParaRow
  <1> QED
    BY <1>1, <1>2, <1>3, TouchedPlace DEF Vanished, Acknowledged, CommentSet

-----------------------------------------------------------------------------
(* What a request does to the rows of a spec, in three shapes.              *)

(* One row is edited in place, and its base_version tells.                  *)
EditsRow(s, p) ==
    /\ InSpec(p, s)
    /\ SamePlace(para[p], para'[p])
    /\ para'[p].baseVersion = para[p].baseVersion + 1
    /\ \A q \in Paras \ {p} : para'[q] = para[q]

(* A row enters under a free id, next to an anchor that stays in place; the *)
(* later siblings make room.  A row that comes from a comment is its first. *)
InsertsRow(s, a, n) ==
    /\ InSpec(a, s) /\ ~Live(n)
    /\ SamePlace(para[a], para'[a])
    /\ /\ para'[n] \in ParaRow
       /\ para'[n].spec = s /\ para'[n].parent = para[a].parent
       /\ para'[n].position = para[a].position + 1
       /\ para'[n].type # "objectText"
       /\ para'[n].acceptedFrom # NoPara =>
             /\ para'[n].acceptedFrom = a /\ para'[n].type = "note"
             /\ NotesFrom(a) = {} /\ para[a].comment # "none"
    /\ \A q \in Paras \ {a, n} : para'[q] = ShiftedAfter(para, para[a])[q]

(* Every row of the spec goes, and rows of the document come under free ids.*)
ReplacesRows(s, fresh) ==
    /\ \A p \in fresh : ~Live(p)
    /\ \A p \in Paras \ fresh : para'[p] = IF InSpec(p, s) THEN NoRow ELSE para[p]
    /\ \A p \in fresh :
          /\ para'[p] \in ParaRow
          /\ para'[p].spec = s /\ para'[p].acceptedFrom = NoPara
          /\ para'[p].type = "objectText" => para'[p].blob = para'[p].text
          /\ \A q \in fresh : p # q /\ para'[p].parent = para'[q].parent
                                 => para'[p].position # para'[q].position

(* The facts about one spec's rows that every handler's case starts from.   *)
LEMMA RowFacts ==
    ASSUME TypeOK, NEW s \in Specs
    PROVE  /\ para \in [Paras -> ParaRow \cup {NoRow}]
           /\ \A p \in Paras : InSpec(p, s) => /\ Live(p) /\ para[p] \in ParaRow
                                               /\ para[p].spec = s
           /\ \A p \in Paras : IsNextId(p) => ~Live(p)
    BY SizesAssumption DEF TypeOK, InSpec, Live, IsNextId, Paras

(* The shared tail of the single-paragraph handlers edits one row.          *)
LEMMA CommitRowEdits ==
    ASSUME TypeOK, NEW s \in Specs, NEW p \in Paras, NEW row \in ParaRow,
           InSpec(p, s), SamePlace(para[p], row),
           row.baseVersion = para[p].baseVersion + 1, CommitRow(s, p, row)
    PROVE  EditsRow(s, p)
    BY RowFacts DEF CommitRow, EditsRow

(* A shift moves siblings down and leaves everything else, the anchor       *)
(* included, as it is.                                                      *)
LEMMA ShiftedPlace ==
    ASSUME NEW rows \in [Paras -> ParaRow \cup {NoRow}], NEW a \in Paras,
           rows[a] \in ParaRow
    PROVE  \A q \in Paras :
              LET new == ShiftedAfter(rows, rows[a])[q]
                  moves == /\ rows[q] # NoRow
                           /\ rows[q].spec = rows[a].spec
                           /\ rows[q].parent = rows[a].parent
                           /\ rows[q].position > rows[a].position
              IN  /\ ~moves => new = rows[q]
                  /\ moves => /\ new \in ParaRow
                              /\ new.spec = rows[q].spec /\ new.parent = rows[q].parent
                              /\ new.position = rows[q].position + 1
                              /\ new.type = rows[q].type /\ new.text = rows[q].text
                              /\ new.acceptedFrom = rows[q].acceptedFrom
                              /\ new.comment = rows[q].comment /\ new.blob = rows[q].blob
  <1> SUFFICES ASSUME NEW q \in Paras
               PROVE  LET new == ShiftedAfter(rows, rows[a])[q]
                          moves == /\ rows[q] # NoRow
                                   /\ rows[q].spec = rows[a].spec
                                   /\ rows[q].parent = rows[a].parent
                                   /\ rows[q].position > rows[a].position
                      IN  /\ ~moves => new = rows[q]
                          /\ moves => /\ new \in ParaRow
                                      /\ new.spec = rows[q].spec /\ new.parent = rows[q].parent
                                      /\ new.position = rows[q].position + 1
                                      /\ new.type = rows[q].type /\ new.text = rows[q].text
                                      /\ new.acceptedFrom = rows[q].acceptedFrom
                                      /\ new.comment = rows[q].comment /\ new.blob = rows[q].blob
    OBVIOUS
  <1>1. CASE rows[q] = NoRow
    BY <1>1 DEF ShiftedAfter
  <1>2. CASE rows[q] # NoRow
    <2>1. rows[q] \in ParaRow
      BY <1>2
    <2> QED
      BY <1>2, <2>1 DEF ShiftedAfter, ParaRow
  <1> QED
    BY <1>1, <1>2

(* An editor's request, past the gate: one row edited or inserted, one bump.*)
EditorWrites(s) ==
    /\ Exists(s) /\ ~Governed(s)
    /\ \/ \E p \in Paras : EditsRow(s, p)
       \/ \E a, n \in Paras : InsertsRow(s, a, n) /\ n = drawn + 1
    /\ BumpSpecContentVersion(s)
    /\ UNCHANGED sealed

(* An import: no row survives it.                                           *)
ImportWrites(s) ==
    \E doc \in Documents, fresh \in SUBSET Paras :
        /\ ReplacesRows(s, fresh)
        /\ PersistParsedSpec(s, doc)

(* Every request is one of the two, or a new title.                         *)
LEMMA WriteShapes ==
    ASSUME TypeOK, NEW s \in Specs, Write(s)
    PROVE  \/ \E title \in Titles : UpdateSpec(s, title)
           \/ EditorWrites(s)
           \/ ImportWrites(s)
  <1>0. /\ para \in [Paras -> ParaRow \cup {NoRow}]
        /\ \A p \in Paras : InSpec(p, s) => Live(p) /\ para[p] \in ParaRow /\ para[p].spec = s
        /\ \A p \in Paras : IsNextId(p) => ~Live(p)
    BY RowFacts
  <1>1. ASSUME NEW doc \in Documents, PersistParsedSpec(s, doc)
        PROVE  ImportWrites(s)
    <2> DEFINE fresh == {p \in Paras : p \in drawn + 1 .. drawn + Len(doc.nodes)}
               node(p) == doc.nodes[p - drawn]
    <2>1. drawn \in Nat /\ Len(doc.nodes) \in Nat /\ drawn + Len(doc.nodes) <= MaxParas
      BY <1>1, DocumentsAssumption DEF TypeOK, PersistParsedSpec
    <2>2. \A p \in fresh : ~Live(p)
      BY <2>1 DEF TypeOK, Live, Paras
    <2>3. \A p \in Paras \ fresh : para'[p] = IF InSpec(p, s) THEN NoRow ELSE para[p]
      BY <1>1 DEF PersistParsedSpec
    <2>4. \A p \in fresh : p - drawn \in 1..Len(doc.nodes)
      BY <2>1 DEF Paras
    <2>5. \A p \in fresh : para'[p] = ImportedRow(s, doc, drawn, p - drawn)
      BY <1>1 DEF PersistParsedSpec
    <2>6. ASSUME NEW p \in fresh
          PROVE  /\ para'[p] \in ParaRow
                 /\ para'[p].spec = s /\ para'[p].acceptedFrom = NoPara
                 /\ para'[p].type = "objectText" => para'[p].blob = para'[p].text
                 /\ para'[p].position = node(p).position
                 /\ para'[p].parent = IF node(p).parent = 0 THEN NoPara
                                      ELSE drawn + node(p).parent
      <3> DEFINE m == node(p)
                 parent == IF m.parent = 0 THEN NoPara ELSE drawn + m.parent
                 blob == IF m.type = "objectText" THEN m.text ELSE NoText
                 u == m.text \in Unresolved
      <3>1. para'[p] \in ParaRow
        BY <2>1, <2>4, <2>5, ImportedType
      <3>2. ImportedRow(s, doc, drawn, p - drawn) =
               [spec |-> s, parent |-> parent, position |-> m.position, type |-> m.type,
                text |-> m.text, unresolved |-> u, baseVersion |-> 1, vanish |-> m.vanish,
                acknowledged |-> FALSE, comment |-> m.comment, acceptedFrom |-> NoPara,
                blob |-> blob]
        BY DEF ImportedRow
      <3> HIDE DEF parent, blob, u
      <3>3. /\ para'[p].spec = s /\ para'[p].acceptedFrom = NoPara
            /\ para'[p].type = m.type /\ para'[p].blob = blob /\ para'[p].text = m.text
            /\ para'[p].position = m.position /\ para'[p].parent = parent
        BY <2>5, <3>2
      <3> QED
        BY <3>1, <3>3 DEF parent, blob
    <2>7. ASSUME NEW p \in fresh, NEW q \in fresh, p # q, para'[p].parent = para'[q].parent
          PROVE  para'[p].position # para'[q].position
      <3>1. /\ p - drawn \in 1..Len(doc.nodes) /\ q - drawn \in 1..Len(doc.nodes)
            /\ p \in Nat /\ q \in Nat
        BY <2>4, <2>7 DEF Paras
      <3>2. node(p) \in Node /\ node(q) \in Node
        BY <3>1, DocumentsAssumption
      <3>3. node(p).parent \in Nat /\ node(q).parent \in Nat
        BY <3>2 DEF Node
      <3>4. \A i, j \in 1..Len(doc.nodes) :
               i # j /\ doc.nodes[i].parent = doc.nodes[j].parent
                  => doc.nodes[i].position # doc.nodes[j].position
        BY DocumentsAssumption
      <3>5. p - drawn # q - drawn
        BY <2>1, <2>7, <3>1
      <3>6. node(p).parent = node(q).parent => node(p).position # node(q).position
        BY <3>1, <3>4, <3>5
      <3> HIDE DEF node
      <3>7. node(p).parent = node(q).parent
        BY <2>1, <2>6, <2>7, <3>3 DEF NoPara
      <3> QED
        BY <2>6, <3>6, <3>7
    <2> HIDE DEF fresh, node
    <2>8. ReplacesRows(s, fresh)
      BY <2>2, <2>3, <2>6, <2>7 DEF ReplacesRows
    <2>9. fresh \in SUBSET Paras
      BY DEF fresh
    <2> QED
      BY <1>1, <2>8, <2>9 DEF ImportWrites
  <1>2. ASSUME NEW v, AssertSpecWritable(s, v)  PROVE Exists(s) /\ ~Governed(s)
    BY <1>2 DEF AssertSpecWritable, Governed
  <1>3. ASSUME NEW p \in Paras, NEW t \in Texts, NEW v, UpdateParagraphText(s, p, t, v)
        PROVE  EditorWrites(s)
    <2>1. InSpec(p, s) /\ CommitRow(s, p, Edited(para[p], t)) /\ para[p] \in ParaRow
      BY <1>0, <1>3 DEF UpdateParagraphText
    <2>2. EditsRow(s, p)
      BY <2>1, EditedType, EditedPlace, CommitRowEdits
    <2> QED
      BY <1>2, <1>3, <2>1, <2>2 DEF UpdateParagraphText, CommitRow, EditorWrites
  <1>4. ASSUME NEW p \in Paras, NEW b \in Flag, SetParagraphVanish(s, p, b)
        PROVE  EditorWrites(s)
    BY <1>0, <1>2, <1>4, ToggleType, TogglePlace, CommitRowEdits
       DEF SetParagraphVanish, CommentStates, CommitRow, EditorWrites
  <1>5. ASSUME NEW p \in Paras, NEW b \in Flag, SetParagraphAcknowledged(s, p, b)
        PROVE  EditorWrites(s)
    BY <1>0, <1>2, <1>5, ToggleType, TogglePlace, CommitRowEdits
       DEF SetParagraphAcknowledged, CommentStates, CommitRow, EditorWrites
  <1>6. ASSUME NEW p \in Paras, NEW b \in Flag, SetParagraphCommentClosed(s, p, b)
        PROVE  EditorWrites(s)
    <2>1. (IF b THEN "closed" ELSE "open") \in CommentStates \ {"none"}
      BY DEF CommentStates
    <2> QED
      BY <1>0, <1>2, <1>6, <2>1, ToggleType, TogglePlace, FlagType, CommitRowEdits
         DEF SetParagraphCommentClosed, CommitRow, EditorWrites
  <1>7. ASSUME NEW a \in Paras, NEW type \in NodeTypes, NEW t \in Texts, NEW v,
               InsertParagraphAfter(s, a, type, t, v)
        PROVE  EditorWrites(s)
    <2> DEFINE row == SiblingOf(para[a], type, t)
    <2>1. /\ InSpec(a, s) /\ Live(a) /\ para[a] \in ParaRow /\ para[a].spec = s
          /\ type \in BodyTypes \cup {"article"}
      BY <1>0, <1>7 DEF InsertParagraphAfter, InsertableAfter
    <2>2. /\ row \in ParaRow /\ row.spec = s /\ row.parent = para[a].parent
          /\ row.position = para[a].position + 1 /\ row.type # "objectText"
          /\ row.acceptedFrom = NoPara
      BY <2>1, SiblingType DEF SiblingOf, BodyTypes
    <2> HIDE DEF row
    <2>3. PICK n \in Paras : /\ IsNextId(n)
                             /\ para' = [ShiftedAfter(para, para[a]) EXCEPT ![n] = row]
      BY <1>7 DEF InsertParagraphAfter, row
    <2>4. /\ ShiftedAfter(para, para[a]) \in [Paras -> ParaRow \cup {NoRow}]
          /\ ShiftedAfter(para, para[a])[a] = para[a]
      <3>1. ~(para[a].position > para[a].position)
        BY <2>1 DEF ParaRow
      <3>2. ShiftedAfter(para, para[a])[a] = para[a]
        BY <1>0, <2>1, <3>1, ShiftedPlace
      <3> QED
        BY <1>0, <2>1, <3>2, ShiftedType
    <2>5. SamePlace(para[a], para[a])
      BY <2>1 DEF SamePlace
    <2>6. InsertsRow(s, a, n)
      BY <1>0, <2>1, <2>2, <2>3, <2>4, <2>5 DEF InsertsRow
    <2> QED
      BY <1>2, <1>7, <2>3, <2>6 DEF InsertParagraphAfter, EditorWrites, IsNextId
  <1>8. ASSUME NEW p \in Paras, AcceptCommentAsNote(s, p)
        PROVE  EditorWrites(s)
    <2> DEFINE note == NoteFrom(p, para[p])
               anchor == ClosedByAccept(para[p])
    <2>1. /\ InSpec(p, s) /\ Live(p) /\ para[p] \in ParaRow /\ para[p].spec = s
          /\ NotesFrom(p) = {} /\ para[p].comment # "none"
      BY <1>0, <1>8 DEF AcceptCommentAsNote, NotYetAccepted
    <2>2. /\ note \in ParaRow /\ note.spec = s /\ note.parent = para[p].parent
          /\ note.type = "note" /\ note.acceptedFrom = p
      BY <2>1, NoteType
    <2>3. note.position = para[p].position + 1
      <3> DEFINE r == SiblingOf(para[p], "note", CommentText)
      <3>1. r.position = para[p].position + 1 /\ note = [r EXCEPT !.acceptedFrom = p]
        BY DEF SiblingOf, NoteFrom
      <3>2. r \in ParaRow
        BY <2>1, SiblingType, TextsAssumption DEF NodeTypes
      <3> HIDE DEF r, note
      <3> QED
        BY <3>1, <3>2 DEF ParaRow
    <2>4. SamePlace(para[p], anchor) /\ anchor \in ParaRow
      <3>1. "closed" \in CommentStates \ {"none"}
        BY DEF CommentStates
      <3>2. SamePlace(para[p], para[p])
        BY <2>1 DEF SamePlace
      <3> QED
        BY <2>1, <3>1, <3>2, TogglePlace, FlagType DEF ClosedByAccept, SamePlace
    <2> HIDE DEF note, anchor
    <2>5. PICK n \in Paras :
             /\ IsNextId(n)
             /\ para' = [ShiftedAfter(para, para[p]) EXCEPT ![p] = anchor, ![n] = note]
      BY <1>8 DEF AcceptCommentAsNote, note, anchor
    <2>6. ShiftedAfter(para, para[p]) \in [Paras -> ParaRow \cup {NoRow}]
      BY <1>0, <2>1, ShiftedType
    <2>7. InsertsRow(s, p, n)
      BY <1>0, <2>1, <2>2, <2>3, <2>4, <2>5, <2>6 DEF InsertsRow
    <2> QED
      BY <1>2, <1>8, <2>5, <2>7 DEF AcceptCommentAsNote, EditorWrites, IsNextId
  <1> QED
    BY <1>1, <1>3, <1>4, <1>5, <1>6, <1>7, <1>8 DEF Write

-----------------------------------------------------------------------------
(* Each shape keeps the three invariants.                                   *)

(* What OneNotePerComment says of one note.                                 *)
NoteStands(n) ==
    LET a == para[n].acceptedFrom IN
    /\ NotesFrom(a) = {n}
    /\ InSpec(a, para[n].spec)
    /\ para[a].parent = para[n].parent
    /\ para[a].comment # "none"

(* An edit in place moves no row and frees no position.                     *)
LEMMA EditKeepsRows ==
    ASSUME RowsInv, NEW s \in Specs, NEW p \in Paras, EditsRow(s, p)
    PROVE  (SiblingPositionsDistinct /\ BlobMirrorsText /\ OneNotePerComment)'
  <1>1. \A q \in Paras :
           /\ (para'[q] = NoRow) <=> (para[q] = NoRow)
           /\ Live(q) => SamePlace(para[q], para'[q])
    BY NoRowAssumption DEF EditsRow, InSpec, SamePlace, RowsInv, TypeOK, Live
  <1>2. \A q \in Paras : Live(q)' <=> Live(q)
    BY <1>1 DEF Live
  <1>3. SiblingPositionsDistinct'
    BY <1>1, <1>2 DEF RowsInv, SiblingPositionsDistinct, SamePlace
  <1>4. BlobMirrorsText'
    BY <1>1, <1>2 DEF RowsInv, BlobMirrorsText, SamePlace
  <1>5. OneNotePerComment'
    <2>1. \A a : NotesFrom(a)' = NotesFrom(a)
      BY <1>1, <1>2 DEF NotesFrom, SamePlace
    <2>2. ASSUME NEW n \in Paras, Live(n)', para'[n].acceptedFrom # NoPara
          PROVE  NoteStands(n)'
      <3>1. Live(n) /\ para[n] \in ParaRow /\ SamePlace(para[n], para'[n])
        BY <1>1, <1>2, <2>2 DEF RowsInv, TypeOK, Live
      <3>2. PICK a \in Paras : a = para[n].acceptedFrom
        BY <2>2, <3>1 DEF SamePlace, ParaRow
      <3>3. /\ NotesFrom(a) = {n} /\ InSpec(a, para[n].spec)
            /\ para[a].parent = para[n].parent /\ para[a].comment # "none"
        BY <2>2, <3>1, <3>2 DEF RowsInv, OneNotePerComment, SamePlace
      <3>4. Live(a)' /\ SamePlace(para[a], para'[a])
        BY <1>1, <1>2, <3>3 DEF InSpec
      <3>5. /\ NotesFrom(a)' = {n} /\ InSpec(a, para[n].spec)'
            /\ para'[a].parent = para'[n].parent /\ para'[a].comment # "none"
        BY <2>1, <3>1, <3>3, <3>4 DEF InSpec, SamePlace
      <3> QED
        BY <3>1, <3>2, <3>5 DEF NoteStands, SamePlace
    <2> QED
      BY <2>2 DEF OneNotePerComment, NoteStands
  <1> QED
    BY <1>3, <1>4, <1>5

(* An insertion takes the position the shift has just freed; a note it      *)
(* brings is the first from its comment.                                    *)
LEMMA InsertKeepsRows ==
    ASSUME RowsInv, NEW s \in Specs, NEW a \in Paras, NEW n \in Paras, InsertsRow(s, a, n)
    PROVE  (SiblingPositionsDistinct /\ BlobMirrorsText /\ OneNotePerComment)'
  <1> DEFINE moves(q) == /\ para[q].spec = para[a].spec
                         /\ para[q].parent = para[a].parent
                         /\ para[q].position > para[a].position
  <1>0. /\ para \in [Paras -> ParaRow \cup {NoRow}]
        /\ Live(a) /\ para[a] \in ParaRow /\ para[a].spec = s /\ ~Live(n) /\ n # a
    BY RowFacts DEF InsertsRow, RowsInv, InSpec
  <1>1. ASSUME NEW q \in Paras, q # n, Live(q)
        PROVE  /\ para[q] \in ParaRow /\ para'[q] \in ParaRow
               /\ para'[q].spec = para[q].spec /\ para'[q].parent = para[q].parent
               /\ para'[q].type = para[q].type
               /\ para'[q].acceptedFrom = para[q].acceptedFrom
               /\ (para'[q].comment = "none") <=> (para[q].comment = "none")
               /\ para'[q].type = "objectText" /\ para[q].blob = para[q].text
                     => para'[q].blob = para'[q].text
               /\ para'[q].position = IF moves(q) THEN para[q].position + 1
                                      ELSE para[q].position
    <2>1. para[q] \in ParaRow
      BY <1>0, <1>1 DEF Live
    <2>2. CASE q = a
      <3>1. ~moves(a)
        BY <1>0 DEF ParaRow
      <3> QED
        BY <2>1, <2>2, <3>1 DEF InsertsRow, SamePlace
    <2>3. CASE q # a /\ moves(q)
      BY <1>0, <1>1, <2>1, <2>3, ShiftedPlace DEF InsertsRow, Live
    <2>4. CASE q # a /\ ~moves(q)
      <3>1. para'[q] = para[q]
        BY <1>0, <1>1, <2>4, ShiftedPlace DEF InsertsRow
      <3> QED
        BY <2>1, <2>4, <3>1
    <2> QED
      BY <2>2, <2>3, <2>4
  <1>2. \A q \in Paras : q # n => (Live(q)' <=> Live(q))
    <2> SUFFICES ASSUME NEW q \in Paras, q # n  PROVE Live(q)' <=> Live(q)
      OBVIOUS
    <2>1. CASE Live(q)
      BY <1>1, <2>1, NoRowAssumption DEF Live
    <2>2. CASE ~Live(q)
      BY <1>0, <2>2, ShiftedPlace DEF InsertsRow, Live
    <2> QED
      BY <2>1, <2>2
  <1>3. /\ Live(n)' /\ para'[n] \in ParaRow
        /\ para'[n].spec = s /\ para'[n].parent = para[a].parent
        /\ para'[n].position = para[a].position + 1
        /\ para'[n].type # "objectText"
    BY NoRowAssumption DEF InsertsRow, Live
  <1>4. SiblingPositionsDistinct'
    <2>1. ASSUME NEW q \in Paras, q # n, Live(q)', para'[q].spec = para'[n].spec,
                 para'[q].parent = para'[n].parent
          PROVE  para'[q].position # para'[n].position
      <3>1. Live(q) /\ para[q].spec = para[a].spec /\ para[q].parent = para[a].parent
        BY <1>0, <1>1, <1>2, <1>3, <2>1
      <3>2. para[q].position \in Nat /\ para[a].position \in Nat
        BY <1>0, <1>1, <2>1, <3>1 DEF ParaRow
      <3> QED
        BY <1>1, <1>3, <2>1, <3>1, <3>2
    <2>2. ASSUME NEW p \in Paras, NEW q \in Paras, p # n, q # n, p # q, Live(p)', Live(q)',
                 para'[p].spec = para'[q].spec, para'[p].parent = para'[q].parent
          PROVE  para'[p].position # para'[q].position
      <3>1. /\ Live(p) /\ Live(q) /\ para[p].spec = para[q].spec
            /\ para[p].parent = para[q].parent
        BY <1>1, <1>2, <2>2
      <3>2. para[p].position # para[q].position
        BY <2>2, <3>1 DEF RowsInv, SiblingPositionsDistinct
      <3>3. /\ para[p].position \in Nat /\ para[q].position \in Nat
            /\ para[a].position \in Nat
        BY <1>0, <1>1, <2>2, <3>1 DEF ParaRow
      <3>4. /\ para'[p].position = IF moves(p) THEN para[p].position + 1 ELSE para[p].position
            /\ para'[q].position = IF moves(q) THEN para[q].position + 1 ELSE para[q].position
        BY <1>1, <2>2, <3>1
      <3> QED
        BY <3>1, <3>2, <3>3, <3>4
    <2> QED
      BY <2>1, <2>2 DEF SiblingPositionsDistinct
  <1>5. BlobMirrorsText'
    BY <1>1, <1>2, <1>3 DEF RowsInv, BlobMirrorsText
  <1>6. OneNotePerComment'
    <2>1. \A b \in Paras : NotesFrom(b)' = IF para'[n].type = "note" /\ para'[n].acceptedFrom = b
                                           THEN NotesFrom(b) \cup {n} ELSE NotesFrom(b)
      BY <1>0, <1>1, <1>2, <1>3 DEF NotesFrom
    <2>2. ASSUME NEW m \in Paras, Live(m)', para'[m].acceptedFrom # NoPara
          PROVE  NoteStands(m)'
      <3>1. CASE m = n
        <4>1. /\ para'[n].acceptedFrom = a /\ para'[n].type = "note"
              /\ NotesFrom(a) = {} /\ para[a].comment # "none"
          BY <2>2, <3>1 DEF InsertsRow
        <4>2. /\ Live(a)' /\ para'[a].spec = s /\ para'[a].parent = para[a].parent
              /\ para'[a].comment # "none"
          BY <1>0, <1>1, <1>2, <4>1
        <4> QED
          BY <1>3, <2>1, <3>1, <4>1, <4>2 DEF InSpec, NoteStands
      <3>2. CASE m # n
        <4>1. /\ Live(m) /\ para'[m].acceptedFrom = para[m].acceptedFrom
              /\ para'[m].spec = para[m].spec
              /\ para'[m].parent = para[m].parent /\ para[m] \in ParaRow
          BY <1>1, <1>2, <2>2, <3>2
        <4>2. PICK b \in Paras : b = para[m].acceptedFrom
          BY <2>2, <4>1 DEF ParaRow
        <4>3. /\ NotesFrom(b) = {m} /\ InSpec(b, para[m].spec)
              /\ para[b].parent = para[m].parent /\ para[b].comment # "none"
              /\ b # n
          BY <1>0, <2>2, <4>1, <4>2 DEF RowsInv, OneNotePerComment, InSpec
        <4>4. /\ Live(b)' /\ para'[b].spec = para[b].spec
              /\ para'[b].parent = para[b].parent /\ para'[b].comment # "none"
          BY <1>1, <1>2, <4>3 DEF InSpec
        <4>5. ~(para'[n].acceptedFrom = b)
          BY <2>2, <4>1, <4>2, <4>3 DEF InsertsRow
        <4>6. NotesFrom(b)' = {m} /\ InSpec(b, para[m].spec)'
          BY <2>1, <4>1, <4>3, <4>4, <4>5 DEF InSpec
        <4> QED
          BY <4>1, <4>2, <4>3, <4>4, <4>6 DEF NoteStands
      <3> QED
        BY <3>1, <3>2
    <2> QED
      BY <2>2 DEF OneNotePerComment, NoteStands
  <1> QED
    BY <1>4, <1>5, <1>6

(* A replacement drops a note together with the paragraph it came from, and *)
(* brings rows the parser has numbered.                                     *)
LEMMA ReplaceKeepsRows ==
    ASSUME RowsInv, NEW s \in Specs, NEW fresh \in SUBSET Paras, ReplacesRows(s, fresh)
    PROVE  (SiblingPositionsDistinct /\ BlobMirrorsText /\ OneNotePerComment)'
  <1>1. ASSUME NEW p \in Paras, p \notin fresh, Live(p)'
        PROVE  Live(p) /\ para'[p] = para[p] /\ para[p].spec # s /\ para[p] \in ParaRow
    BY <1>1 DEF ReplacesRows, Live, InSpec, RowsInv, TypeOK
  <1>2. \A p \in fresh : /\ ~Live(p) /\ para'[p].spec = s
                         /\ para'[p].acceptedFrom = NoPara
    BY DEF ReplacesRows
  <1>3. SiblingPositionsDistinct'
    BY <1>1, <1>2 DEF ReplacesRows, RowsInv, SiblingPositionsDistinct
  <1>4. BlobMirrorsText'
    BY <1>1, <1>2 DEF ReplacesRows, RowsInv, BlobMirrorsText
  <1>5. OneNotePerComment'
    <2>1. ASSUME NEW n \in Paras, Live(n)', para'[n].acceptedFrom # NoPara
          PROVE  NoteStands(n)'
      <3>1. /\ n \notin fresh /\ Live(n) /\ para'[n] = para[n] /\ para[n].spec # s
            /\ para[n] \in ParaRow
        BY <1>1, <1>2, <2>1
      <3>2. PICK a \in Paras : a = para[n].acceptedFrom /\ a # NoPara
        BY <2>1, <3>1 DEF ParaRow
      <3>3. /\ NotesFrom(a) = {n} /\ InSpec(a, para[n].spec)
            /\ para[a].parent = para[n].parent /\ para[a].comment # "none"
        BY <2>1, <3>1, <3>2 DEF RowsInv, OneNotePerComment
      <3>4. a \notin fresh /\ para'[a] = para[a]
        BY <1>2, <3>1, <3>2, <3>3 DEF ReplacesRows, InSpec
      <3>5. NotesFrom(a)' = {n}
        <4>1. \A m \in NotesFrom(a)' : m \in NotesFrom(a)
          BY <1>1, <1>2, <3>2 DEF NotesFrom
        <4>2. para[n].type = "note"
          BY <3>3 DEF NotesFrom
        <4>3. n \in NotesFrom(a)'
          BY <2>1, <3>1, <3>2, <4>2 DEF NotesFrom
        <4> QED
          BY <3>3, <4>1, <4>3
      <3> QED
        BY <3>1, <3>2, <3>3, <3>4, <3>5 DEF InSpec, Live, NoteStands
    <2> QED
      BY <2>1 DEF OneNotePerComment, NoteStands
  <1> QED
    BY <1>3, <1>4, <1>5

-----------------------------------------------------------------------------
(* The empty database has no rows to misplace.                              *)
LEMMA InitRows == Init => RowsInv
    BY InitType
       DEF RowsInv, Init, Live, SiblingPositionsDistinct, BlobMirrorsText, OneNotePerComment

(* Every step keeps the three invariants: a request by its shape, the rest  *)
(* because they write no paragraph.                                         *)
LEMMA NextRows == RowsInv /\ [Next]_vars => RowsInv'
  <1> SUFFICES ASSUME RowsInv, [Next]_vars  PROVE RowsInv'
    OBVIOUS
  <1>0. TypeOK'
    BY NextType DEF RowsInv
  <1>1. ASSUME para' = para
        PROVE  (SiblingPositionsDistinct /\ BlobMirrorsText /\ OneNotePerComment)'
    BY <1>1 DEF RowsInv, SiblingPositionsDistinct, BlobMirrorsText, OneNotePerComment,
                NotesFrom, InSpec, Live
  <1>2. ASSUME NEW s \in Specs, Write(s)
        PROVE  (SiblingPositionsDistinct /\ BlobMirrorsText /\ OneNotePerComment)'
    BY <1>1, <1>2, WriteShapes, EditKeepsRows, InsertKeepsRows, ReplaceKeepsRows
       DEF RowsInv, UpdateSpec, EditorWrites, ImportWrites
  <1>3. ASSUME NEW s \in Specs, Environment(s)  PROVE para' = para
    BY <1>3 DEF Environment, SetLifecycle, SetExternalState
  <1>4. ASSUME NEW c \in Checkpoints, NEW scope \in Scopes, CreateCheckpoint(c, scope)
        PROVE  para' = para
    BY <1>4 DEF CreateCheckpoint
  <1>5. ASSUME UNCHANGED vars  PROVE para' = para
    BY <1>5 DEF vars
  <1>6. (SiblingPositionsDistinct /\ BlobMirrorsText /\ OneNotePerComment)'
    BY <1>1, <1>2, <1>3, <1>4, <1>5 DEF Next
  <1> QED
    BY <1>0, <1>6 DEF RowsInv

(* The three hold in every reachable state.                                 *)
LEMMA RowsCorrect == Spec => []RowsInv
    BY InitRows, NextRows, PTL DEF Spec

(* No two siblings ever share a position: the shift of insertParagraphAfter *)
(* and of acceptCommentAsNote always frees the one the new row takes.       *)
THEOREM DocumentOrderIsTotal == Spec => []SiblingPositionsDistinct
  <1>1. RowsInv => SiblingPositionsDistinct
    BY DEF RowsInv
  <1> QED
    BY <1>1, RowsCorrect, PTL

(* The blob an objectText is rendered from never drifts from its text       *)
(* (#519, #520), whichever handler wrote it.                                *)
THEOREM BlobsFollowText == Spec => []BlobMirrorsText
  <1>1. RowsInv => BlobMirrorsText
    BY DEF RowsInv
  <1> QED
    BY <1>1, RowsCorrect, PTL

(* A comment is accepted as a note once, next to the paragraph it stands    *)
(* on, however requests repeat, toggle and re-import.                       *)
THEOREM CommentsAreAcceptedOnce == Spec => []OneNotePerComment
  <1>1. RowsInv => OneNotePerComment
    BY DEF RowsInv
  <1> QED
    BY <1>1, RowsCorrect, PTL

-----------------------------------------------------------------------------
(* The tree a spec's rows form. *)

(* A row is in a spec, below an earlier row of the same spec.               *)
RowsHang ==
    \A p \in Paras : Live(p) =>
        /\ Exists(para[p].spec)
        /\ para[p].parent # NoPara =>
              para[p].parent < p /\ InSpec(para[p].parent, para[p].spec)

(* Lineage.  The recursion follows the parents, which come first, so there   *)
(* is a function that it defines.                                            *)
LineageFits ==
    \A p \in Paras : Lineage[p] = {p} \cup IF Live(p) /\ para[p].parent \in 1..(p - 1)
                                          THEN Lineage[para[p].parent] ELSE {}
LEMMA LineageIs == LineageFits
  <1> DEFINE Fits(f) == f = [p \in Paras |-> {p} \cup IF Live(p) /\ para[p].parent \in 1..(p - 1)
                                                       THEN f[para[p].parent] ELSE {}]
  <1>0. Paras \in SUBSET Nat /\ \A p \in Paras : \A q \in 1..(p - 1) : q \in Paras
    BY SizesAssumption DEF Paras
  <1>1. \E f : Fits(f)
    <2> DEFINE V == SUBSET Nat
               up == [p \in Paras |-> IF Live(p) /\ para[p].parent \in 1..(p - 1)
                                      THEN para[p].parent ELSE 0]
               a == [p \in Paras |-> {p}]
               b == [p \in Paras |-> [x \in V |-> {p} \cup x]]
    <2>1. up \in [Paras -> Nat] /\ \A p \in Paras : up[p] < p
      BY <1>0, SizesAssumption DEF Paras
    <2>2. a \in [Paras -> V] /\ b \in [Paras -> [V -> V]]
      BY <1>0
    <2>3. PICK f \in [Paras -> V] :
             \A p \in Paras : f[p] = IF up[p] \in Paras THEN b[p][f[up[p]]] ELSE a[p]
      <3>1. \E f \in [Paras -> V] : Follows(f, Paras, up, a, b)
        <4> HIDE DEF V, up, a, b
        <4> QED
          BY <1>0, <2>1, <2>2, AlongParents, Zenon
      <3> QED
        BY <3>1 DEF Follows
    <2>4. ASSUME NEW p \in Paras
          PROVE  f[p] = {p} \cup IF Live(p) /\ para[p].parent \in 1..(p - 1)
                                 THEN f[para[p].parent] ELSE {}
      <3>1. CASE Live(p) /\ para[p].parent \in 1..(p - 1)
        <4>1. up[p] = para[p].parent /\ up[p] \in Paras
          BY <1>0, <3>1
        <4>2. f[up[p]] \in V
          BY <2>3, <4>1
        <4> QED
          BY <2>3, <3>1, <4>1, <4>2
      <3>2. CASE ~(Live(p) /\ para[p].parent \in 1..(p - 1))
        <4>1. up[p] = 0 /\ up[p] \notin Paras
          BY <3>2, SizesAssumption DEF Paras
        <4> QED
          BY <2>3, <3>2, <4>1
      <3> QED
        BY <3>1, <3>2
    <2>5. f = [p \in Paras |-> f[p]]
      BY <2>3
    <2>6. Fits(f)
      BY <2>4, <2>5
    <2> HIDE DEF Fits
    <2> QED
      BY <2>6
  <1>2. Lineage = CHOOSE f : Fits(f)
    BY DEF Lineage
  <1>3. Fits(Lineage)
    <2> HIDE DEF Fits
    <2> QED
      BY <1>1, <1>2, Zenon
  <1> QED
    BY <1>3 DEF LineageFits

LEMMA LineageWillBe == LineageFits'
  BY LineageIs, PTL

(* A row's lineage stays within its spec.                                   *)
LEMMA LineageWithin ==
    ASSUME TypeOK, RowsHang, NEW p \in Paras, Live(p)
    PROVE  /\ p \in Lineage[p]
           /\ \A a \in Lineage[p] : a \in Paras /\ InSpec(a, para[p].spec)
  <1> DEFINE Strays(q) == \E a \in Lineage[q] : a \notin Paras \/ ~InSpec(a, para[q].spec)
             S == {q \in Paras : Live(q) /\ Strays(q)}
  <1>0. Paras \in SUBSET Nat /\ \A q \in Paras : \A r \in 1..(q - 1) : r \in Paras /\ r < q
    BY SizesAssumption DEF Paras
  <1>1. ASSUME NEW q \in S, \A r \in S : q <= r  PROVE FALSE
    <2>1. q \in Paras /\ Live(q) /\ Strays(q)
      BY <1>1
    <2>2. PICK a \in Lineage[q] : a \notin Paras \/ ~InSpec(a, para[q].spec)
      BY <2>1
    <2>3. a # q
      BY <2>1, <2>2 DEF InSpec
    <2>4. para[q].parent \in 1..(q - 1) /\ a \in Lineage[para[q].parent]
      BY <2>1, <2>2, <2>3, LineageIs DEF LineageFits
    <2>5. para[q].parent # NoPara
      BY <2>4 DEF NoPara
    <2>6. InSpec(para[q].parent, para[q].spec)
      BY <2>1, <2>5 DEF RowsHang
    <2>7. para[q].parent \in Paras /\ para[q].parent < q
      BY <1>0, <2>1, <2>4
    <2>8. para[q].parent \in S
      BY <2>2, <2>4, <2>6, <2>7 DEF InSpec
    <2> QED
      BY <1>0, <1>1, <2>1, <2>7, <2>8
  <1>2. S = {}
    <2> SUFFICES ASSUME S # {}  PROVE FALSE
      OBVIOUS
    <2>1. S \in SUBSET Nat
      BY <1>0
    <2>2. PICK q \in S : \A r \in S : q <= r
      <3> HIDE DEF S
      <3> QED
        BY <2>1, LeastOf
    <2> QED
      BY <1>1, <2>2
  <1>3. p \in Lineage[p]
    BY LineageIs DEF LineageFits
  <1> QED
    BY <1>2, <1>3

(* It stays the same while its rows stay where they are.                    *)
LEMMA LineageStays ==
    ASSUME NEW Q \in SUBSET Paras,
           \A p \in Q : /\ Live(p) /\ para'[p] # NoRow
                        /\ para'[p].parent = para[p].parent
                        /\ para[p].parent # NoPara => para[p].parent \in Q
    PROVE  \A p \in Q : Lineage'[p] = Lineage[p]
  <1> DEFINE S == {q \in Q : Lineage'[q] # Lineage[q]}
  <1>0. Q \in SUBSET Nat /\ \A q \in Q : \A r \in 1..(q - 1) : r < q
    BY SizesAssumption DEF Paras
  <1>1. ASSUME NEW q \in S, \A r \in S : q <= r  PROVE FALSE
    <2>1. q \in Q /\ q \in Paras /\ Live(q) /\ Live(q)' /\ para'[q].parent = para[q].parent
      BY DEF Live
    <2>2. /\ Lineage[q] = {q} \cup IF para[q].parent \in 1..(q - 1)
                                   THEN Lineage[para[q].parent] ELSE {}
          /\ Lineage'[q] = {q} \cup IF para[q].parent \in 1..(q - 1)
                                    THEN Lineage'[para[q].parent] ELSE {}
      <3>1. Lineage[q] = {q} \cup IF para[q].parent \in 1..(q - 1)
                                   THEN Lineage[para[q].parent] ELSE {}
        BY <2>1, LineageIs DEF LineageFits
      <3>2. Lineage'[q] = {q} \cup IF para'[q].parent \in 1..(q - 1)
                                    THEN Lineage'[para'[q].parent] ELSE {}
        BY <2>1, LineageWillBe DEF LineageFits
      <3> QED
        BY <2>1, <3>1, <3>2
    <2>3. para[q].parent \in 1..(q - 1)
      BY <2>2
    <2>4. para[q].parent \in Q /\ para[q].parent < q
      BY <1>0, <2>1, <2>3 DEF NoPara
    <2>5. para[q].parent \in S
      BY <2>2, <2>3, <2>4
    <2>6. q <= para[q].parent
      <3> HIDE DEF S
      <3> QED
        BY <1>1, <2>5
    <2>7. q \in Nat /\ para[q].parent \in Nat
      BY <1>0, <2>1, <2>4
    <2> QED
      BY <2>4, <2>6, <2>7
  <1>2. S = {}
    <2> SUFFICES ASSUME S # {}  PROVE FALSE
      OBVIOUS
    <2>1. S \in SUBSET Nat
      BY <1>0
    <2>2. PICK q \in S : \A r \in S : q <= r
      <3> HIDE DEF S
      <3> QED
        BY <2>1, LeastOf
    <2> QED
      BY <1>1, <2>2
  <1> QED
    BY <1>2

-----------------------------------------------------------------------------
(* The edit gate. *)

(* A handler writes no row of another spec: not the row it edits, not the   *)
(* siblings it shifts, and the ids it draws are those of no row.            *)
LEMMA WriteIsLocal ==
    ASSUME TypeOK, NEW x \in Specs, Write(x),
           NEW p \in Paras, Live(p), para[p].spec # x
    PROVE  para'[p] = para[p]
  <1>0. /\ para \in [Paras -> ParaRow \cup {NoRow}]
        /\ drawn \in 0..MaxParas
        /\ p <= drawn
        /\ ~InSpec(p, x)
    BY DEF TypeOK, Live, InSpec, Paras
  <1>1. ASSUME NEW doc \in Documents, PersistParsedSpec(x, doc)
        PROVE  para'[p] = para[p]
    <2>1. Len(doc.nodes) \in Nat
      BY DocumentsAssumption
    <2>2. p \notin drawn + 1 .. drawn + Len(doc.nodes)
      BY <1>0, <2>1 DEF Paras
    <2> QED
      BY <1>0, <1>1, <2>2 DEF PersistParsedSpec
  <1>2. ASSUME NEW title \in Titles, UpdateSpec(x, title)  PROVE para'[p] = para[p]
    BY <1>2 DEF UpdateSpec
  <1>3. ASSUME NEW q \in Paras, NEW row, InSpec(q, x), CommitRow(x, q, row)
        PROVE  para'[p] = para[p]
    BY <1>0, <1>3 DEF CommitRow
  <1>4. ASSUME NEW a \in Paras, InSpec(a, x)
        PROVE  /\ ShiftedAfter(para, para[a])[p] = para[p]
               /\ DOMAIN ShiftedAfter(para, para[a]) = Paras
    BY <1>0, <1>4 DEF ShiftedAfter, InSpec, Live
  <1>5. ASSUME NEW a \in Paras, NEW type \in NodeTypes, NEW t \in Texts, NEW v,
               InsertParagraphAfter(x, a, type, t, v)
        PROVE  para'[p] = para[p]
    <2>1. PICK n \in Paras :
             /\ IsNextId(n)
             /\ para' = [ShiftedAfter(para, para[a]) EXCEPT ![n] = SiblingOf(para[a], type, t)]
      BY <1>5 DEF InsertParagraphAfter
    <2>2. n # p
      BY <1>0, <2>1 DEF IsNextId, Paras
    <2> QED
      BY <1>4, <1>5, <2>1, <2>2 DEF InsertParagraphAfter
  <1>6. ASSUME NEW q \in Paras, AcceptCommentAsNote(x, q)  PROVE para'[p] = para[p]
    <2>1. PICK n \in Paras :
             /\ IsNextId(n)
             /\ para' = [ShiftedAfter(para, para[q]) EXCEPT
                            ![q] = ClosedByAccept(para[q]), ![n] = NoteFrom(q, para[q])]
      BY <1>6 DEF AcceptCommentAsNote
    <2>2. n # p /\ q # p /\ InSpec(q, x)
      BY <1>0, <1>6, <2>1 DEF IsNextId, Paras, AcceptCommentAsNote
    <2> QED
      BY <1>4, <2>1, <2>2
  <1>7. ASSUME NEW q \in Paras, NEW t \in Texts, NEW v, UpdateParagraphText(x, q, t, v)
        PROVE  para'[p] = para[p]
    BY <1>3, <1>7 DEF UpdateParagraphText
  <1>8. ASSUME NEW q \in Paras, NEW b \in Flag,
               \/ SetParagraphVanish(x, q, b)
               \/ SetParagraphAcknowledged(x, q, b)
               \/ SetParagraphCommentClosed(x, q, b)
        PROVE  para'[p] = para[p]
    BY <1>3, <1>8 DEF SetParagraphVanish, SetParagraphAcknowledged, SetParagraphCommentClosed
  <1> QED
    BY <1>1, <1>2, <1>5, <1>6, <1>7, <1>8 DEF Write

(* The only writers a governed spec lets through are the two that do not    *)
(* call the gate.                                                           *)
LEMMA GateRefuses ==
    ASSUME NEW s \in Specs, Governed(s), Write(s)
    PROVE  \/ \E doc \in Documents : PersistParsedSpec(s, doc)
           \/ \E title \in Titles : UpdateSpec(s, title)
  <1>1. \A v : ~AssertSpecWritable(s, v)
    BY DEF Governed, AssertSpecWritable
  <1> QED
    BY <1>1 DEF Write, UpdateParagraphText, InsertParagraphAfter, SetParagraphVanish,
                SetParagraphAcknowledged, SetParagraphCommentClosed, AcceptCommentAsNote

(* One step on a paragraph of a governed spec.                              *)
LEMMA GovernedStep ==
    ASSUME TypeOK, [Next]_vars, NEW s \in Specs, Governed(s), NEW p \in Rows(s)
    PROVE  para'[p] \in {para[p], NoRow}
  <1>0. p \in Paras /\ Live(p) /\ para[p].spec = s /\ InSpec(p, s)
    BY DEF Rows, InSpec
  <1>1. ASSUME Write(s)  PROVE para'[p] \in {para[p], NoRow}
    <2>1. CASE \E title \in Titles : UpdateSpec(s, title)
      BY <2>1 DEF UpdateSpec
    <2>2. ASSUME NEW doc \in Documents, PersistParsedSpec(s, doc)
          PROVE  para'[p] = NoRow
      <3>1. Len(doc.nodes) \in Nat /\ drawn \in Nat /\ p <= drawn
        BY <1>0, DocumentsAssumption DEF TypeOK, Live, Paras
      <3>2. p \notin drawn + 1 .. drawn + Len(doc.nodes)
        BY <1>0, <3>1 DEF Paras
      <3> QED
        BY <1>0, <2>2, <3>2 DEF PersistParsedSpec
    <2> QED
      BY <1>1, <2>1, <2>2, GateRefuses
  <1>2. ASSUME NEW x \in Specs \ {s}, Write(x)  PROVE para'[p] = para[p]
    BY <1>0, <1>2, WriteIsLocal
  <1>3. ASSUME NEW x \in Specs, Environment(x)  PROVE para'[p] = para[p]
    BY <1>3 DEF Environment, SetLifecycle, SetExternalState
  <1>4. ASSUME NEW c \in Checkpoints, NEW scope \in Scopes, CreateCheckpoint(c, scope)
        PROVE  para'[p] = para[p]
    BY <1>4 DEF CreateCheckpoint
  <1>5. CASE UNCHANGED vars
    BY <1>5 DEF vars
  <1> QED
    BY <1>1, <1>2, <1>3, <1>4, <1>5 DEF Next

(* No paragraph of an archived or upstream-governed spec is ever edited in  *)
(* place: it stays as it is until a re-import discards it whole.            *)
THEOREM GovernedAreFrozen == Spec => GovernedRowsFrozen
  <1>1. TypeOK /\ [Next]_vars =>
          [\A s \in Specs : Governed(s) => \A p \in Rows(s) : para'[p] \in {para[p], NoRow}]_vars
    BY GovernedStep
  <1> QED
    BY <1>1, TypeCorrect, PTL DEF Spec, GovernedRowsFrozen

-----------------------------------------------------------------------------
(* The tables implement the abstract store of versioned specs.              *)

(* What the mapping shows of one spec. *)
Body(s) == [p \in Rows(s) |-> para[p]]

(* A request leaves what every other spec says alone: it takes none of its  *)
(* rows, adds none to it and edits none of them.                            *)
LEMMA OtherBodiesStay ==
    ASSUME TypeOK, NEW x \in Specs, Write(x), NEW y \in Specs \ {x}
    PROVE  Body(y)' = Body(y)
  <1>1. \A p \in Rows(y) : para'[p] = para[p]
    BY WriteIsLocal DEF Rows, InSpec
  <1>2. \A p \in Paras : InSpec(p, y)' => InSpec(p, y)
    <2>1. CASE \E title \in Titles : UpdateSpec(x, title)
      BY <2>1 DEF UpdateSpec, InSpec, Live
    <2>2. ASSUME NEW p \in Paras, EditsRow(x, p)
          PROVE  \A q \in Paras : InSpec(q, y)' => InSpec(q, y)
      BY <2>2 DEF EditsRow, SamePlace, InSpec, Live
    <2>3. ASSUME NEW a \in Paras, NEW n \in Paras, InsertsRow(x, a, n)
          PROVE  \A q \in Paras : InSpec(q, y)' => InSpec(q, y)
      <3> SUFFICES ASSUME NEW q \in Paras, InSpec(q, y)'  PROVE InSpec(q, y)
        OBVIOUS
      <3>1. q # a /\ q # n
        BY <2>3 DEF InsertsRow, SamePlace, InSpec
      <3>2. para'[q] = ShiftedAfter(para, para[a])[q]
        BY <2>3, <3>1 DEF InsertsRow
      <3>3. para[a] \in ParaRow /\ para \in [Paras -> ParaRow \cup {NoRow}]
        BY <2>3, RowFacts DEF InsertsRow
      <3> QED
        BY <3>2, <3>3, ShiftedType DEF InSpec, Live
    <2>4. ASSUME NEW fresh \in SUBSET Paras, ReplacesRows(x, fresh)
          PROVE  \A q \in Paras : InSpec(q, y)' => InSpec(q, y)
      BY <2>4 DEF ReplacesRows, InSpec, Live
    <2> QED
      BY <2>1, <2>2, <2>3, <2>4, WriteShapes DEF EditorWrites, ImportWrites
  <1>3. Rows(y)' = Rows(y)
    BY <1>1, <1>2 DEF Rows, InSpec, Live
  <1> QED
    BY <1>1, <1>3 DEF Body

(* The token of a request's spec advances by one, and no other token, no    *)
(* upstream state and no seal moves.                                        *)
LEMMA RequestAdvances ==
    ASSUME TypeOK, NEW s \in Specs, Write(s)
    PROVE  /\ spec'[s].contentVersion = spec[s].contentVersion + 1
           /\ \A x \in Specs \ {s} : spec'[x] = spec[x]
           /\ \A x \in Specs : Governed(x)' = Governed(x)
           /\ sealed' = sealed
           /\ EditorWrites(s) => spec'[s].title = spec[s].title
  <1>0. spec \in [Specs -> SpecRow] /\ spec[s] \in SpecRow
    BY DEF TypeOK
  <1>1. ASSUME NEW row \in SpecRow, spec' = [spec EXCEPT ![s] = Bumped(row)],
               row.lifecycle = spec[s].lifecycle, row.external = spec[s].external,
               row.contentVersion = spec[s].contentVersion
        PROVE  /\ spec'[s].contentVersion = spec[s].contentVersion + 1
               /\ spec'[s].title = row.title
               /\ \A x \in Specs \ {s} : spec'[x] = spec[x]
               /\ \A x \in Specs : Governed(x)' = Governed(x)
    <2>1. /\ Bumped(row).contentVersion = row.contentVersion + 1
          /\ Bumped(row).title = row.title /\ Bumped(row).lifecycle = row.lifecycle
          /\ Bumped(row).external = row.external
      BY DEF Bumped, SpecRow
    <2>2. spec'[s] = Bumped(row) /\ \A x \in Specs \ {s} : spec'[x] = spec[x]
      BY <1>0, <1>1
    <2>3. \A x \in Specs : /\ spec'[x].lifecycle = spec[x].lifecycle
                           /\ spec'[x].external = spec[x].external
      BY <1>1, <2>1, <2>2
    <2> QED
      BY <1>1, <2>1, <2>2, <2>3 DEF Governed
  <1>2. \A title \in Titles : /\ Retitled(spec[s], title) \in SpecRow
                              /\ Retitled(spec[s], title).lifecycle = spec[s].lifecycle
                              /\ Retitled(spec[s], title).external = spec[s].external
                              /\ Retitled(spec[s], title).contentVersion = spec[s].contentVersion
    BY <1>0 DEF Retitled, SpecRow
  <1>3. ASSUME EditorWrites(s)
        PROVE  spec' = [spec EXCEPT ![s] = Bumped(spec[s])] /\ sealed' = sealed
    BY <1>3 DEF EditorWrites, BumpSpecContentVersion
  <1>4. ASSUME NEW title \in Titles, UpdateSpec(s, title)
        PROVE  spec' = [spec EXCEPT ![s] = Bumped(Retitled(spec[s], title))] /\ sealed' = sealed
    BY <1>4 DEF UpdateSpec
  <1>5. ASSUME NEW doc \in Documents, PersistParsedSpec(s, doc)
        PROVE  spec' = [spec EXCEPT ![s] = Bumped(Retitled(spec[s], doc.title))] /\ sealed' = sealed
    BY <1>5 DEF PersistParsedSpec
  <1>6. \A doc \in Documents : doc.title \in Titles
    BY DocumentsAssumption
  <1>7. CASE EditorWrites(s)
    BY <1>0, <1>1, <1>3, <1>7
  <1>8. ASSUME NEW title \in Titles, sealed' = sealed,
               spec' = [spec EXCEPT ![s] = Bumped(Retitled(spec[s], title))]
        PROVE  /\ spec'[s].contentVersion = spec[s].contentVersion + 1
               /\ \A x \in Specs \ {s} : spec'[x] = spec[x]
               /\ \A x \in Specs : Governed(x)' = Governed(x)
               /\ sealed' = sealed
    BY <1>1, <1>2, <1>8
  <1>9. CASE ~EditorWrites(s)
    BY <1>4, <1>5, <1>6, <1>8, <1>9, WriteShapes DEF ImportWrites
  <1> QED
    BY <1>7, <1>9

(* A request is one abstract step: an edit, a new title or a replacement.   *)
LEMMA RequestImplements ==
    ASSUME TypeOK, NEW s \in Specs, Write(s)
    PROVE  Abstract!Edit(s) \/ Abstract!Retitle(s) \/ Abstract!Replace(s)
  <1> DEFINE title == [x \in Specs |-> spec[x].title]
             body == [x \in Specs |-> [p \in Rows(x) |-> para[p]]]
             token == [x \in Specs |-> spec[x].contentVersion]
             governed == [x \in Specs |-> Governed(x)]
             seals == {[id |-> r.id, spec |-> r.spec, token |-> r.contentVersion] : r \in sealed}
  <1>1. /\ token' = [token EXCEPT ![s] = @ + 1]
        /\ \A x \in Specs \ {s} : title'[x] = title[x]
        /\ governed' = governed
        /\ seals' = seals
    BY RequestAdvances
  <1>2. \A x \in Specs : body[x] = Body(x)
    BY DEF Body
  <1>3. \A x \in Specs : body'[x] = Body(x)'
    BY DEF Body
  <1>4. \A x \in Specs \ {s} : body'[x] = body[x]
    BY <1>2, <1>3, OtherBodiesStay
  <1>5. Abstract!Advance(s)
    BY <1>1, <1>4 DEF Abstract!Advance, Abstract!OnlyAt
  <1>6. /\ DOMAIN body[s] = Rows(s) /\ DOMAIN body'[s] = Rows(s)'
        /\ token[s] > 0 <=> Exists(s)
        /\ governed[s] = Governed(s)
        /\ title[s] = spec[s].title /\ title'[s] = spec'[s].title
        /\ \A p \in Rows(s) : body[s][p] = para[p]
        /\ \A p \in Rows(s)' : body'[s][p] = para'[p]
    BY DEF Exists
  <1>7. CASE \E t \in Titles : UpdateSpec(s, t)
    <2>1. PICK t \in Titles : UpdateSpec(s, t)
      BY <1>7
    <2>2. /\ Exists(s) /\ t # spec[s].title /\ para' = para
          /\ spec' = [spec EXCEPT ![s] = Bumped(Retitled(spec[s], t))]
      BY <2>1 DEF UpdateSpec
    <2>3. body' = body
      BY <2>2 DEF Rows, InSpec, Live
    <2>4. spec'[s].title = t
      BY <2>2 DEF TypeOK, SpecRow, Bumped, Retitled
    <2>5. title'[s] # title[s] /\ token[s] > 0
      BY <1>6, <2>2, <2>4
    <2> QED
      BY <1>5, <2>3, <2>5 DEF Abstract!Retitle
  <1>8. CASE EditorWrites(s)
    <2>1. Exists(s) /\ ~Governed(s)
      BY <1>8 DEF EditorWrites
    <2>2. title' = title
      BY <1>1, <1>6, <1>8, RequestAdvances
    <2>3. body'[s] # body[s]
      <3>1. ASSUME NEW p \in Paras, EditsRow(s, p)  PROVE body'[s] # body[s]
        <4>1. para[p] \in ParaRow /\ p \in Rows(s)
          BY <3>1, RowFacts DEF EditsRow, Rows
        <4>2. para'[p] # para[p]
          BY <3>1, <4>1 DEF EditsRow, ParaRow
        <4>3. p \in Rows(s)'
          BY <3>1, <4>1, NoRowAssumption DEF EditsRow, SamePlace, Rows, InSpec, Live
        <4> QED
          BY <1>6, <4>1, <4>2, <4>3
      <3>2. ASSUME NEW a \in Paras, NEW n \in Paras, InsertsRow(s, a, n)
            PROVE  body'[s] # body[s]
        <4>1. n \notin Rows(s)
          BY <3>2 DEF InsertsRow, Rows, InSpec
        <4>2. n \in Rows(s)'
          BY <3>2, NoRowAssumption DEF InsertsRow, Rows, InSpec, Live
        <4> QED
          BY <1>6, <4>1, <4>2
      <3> QED
        BY <1>8, <3>1, <3>2 DEF EditorWrites
    <2> QED
      BY <1>5, <1>6, <2>1, <2>2, <2>3 DEF Abstract!Edit
  <1>9. CASE ImportWrites(s)
    <2>1. PICK fresh \in SUBSET Paras : ReplacesRows(s, fresh)
      BY <1>9 DEF ImportWrites
    <2>2. Rows(s) \cap Rows(s)' = {}
      BY <2>1 DEF ReplacesRows, Rows, InSpec, Live
    <2>3. DOMAIN body'[s] \cap DOMAIN body[s] = {}
      BY <1>6, <2>2
    <2> QED
      BY <1>5, <2>3 DEF Abstract!Replace
  <1> QED
    BY <1>7, <1>8, <1>9, WriteShapes

(* An operator who archives and a connector that locks only govern.         *)
LEMMA EnvironmentImplements ==
    ASSUME TypeOK, NEW s \in Specs, Environment(s)
    PROVE  Abstract!Govern(s)
  <1> DEFINE title == [x \in Specs |-> spec[x].title]
             body == [x \in Specs |-> [p \in Rows(x) |-> para[p]]]
             token == [x \in Specs |-> spec[x].contentVersion]
             governed == [x \in Specs |-> Governed(x)]
             seals == {[id |-> r.id, spec |-> r.spec, token |-> r.contentVersion] : r \in sealed}
  <1>1. Exists(s) /\ UNCHANGED <<para, sealed>>
    BY DEF Environment, SetLifecycle, SetExternalState
  <1>2. \A x \in Specs : /\ spec'[x].title = spec[x].title
                         /\ spec'[x].contentVersion = spec[x].contentVersion
                         /\ x # s => spec'[x] = spec[x]
    BY DEF Environment, SetLifecycle, SetExternalState, TypeOK, SpecRow
  <1>3. token' = token /\ title' = title /\ seals' = seals
    BY <1>1, <1>2
  <1>4. body' = body
    BY <1>1 DEF Rows, InSpec, Live
  <1>5. \A x \in Specs \ {s} : governed'[x] = governed[x]
    BY <1>2 DEF Governed
  <1>6. token[s] > 0
    BY <1>1 DEF Exists
  <1> QED
    BY <1>3, <1>4, <1>5, <1>6 DEF Abstract!Govern, Abstract!OnlyAt

(* A checkpoint seals the tokens of the moment under an id not yet used.    *)
LEMMA CheckpointImplements ==
    ASSUME TypeOK, NEW c \in Checkpoints, NEW scope \in Scopes, CreateCheckpoint(c, scope)
    PROVE  Abstract!Seal
  <1> DEFINE title == [x \in Specs |-> spec[x].title]
             body == [x \in Specs |-> [p \in Rows(x) |-> para[p]]]
             token == [x \in Specs |-> spec[x].contentVersion]
             governed == [x \in Specs |-> Governed(x)]
             view(r) == [id |-> r.id, spec |-> r.spec, token |-> r.contentVersion]
             seals == {view(r) : r \in sealed}
             row(x) == [id |-> c, spec |-> x, contentVersion |-> spec[x].contentVersion,
                        texts |-> [p \in Paras |-> IF InSpec(p, x) THEN para[p].text ELSE NoText]]
             taken == {x \in scope : Exists(x)}
  <1>1. /\ \A r \in sealed : r.id # c
        /\ taken # {} /\ taken \subseteq Specs
        /\ sealed' = sealed \cup {row(x) : x \in taken}
        /\ UNCHANGED <<spec, para>>
    BY ScopesAssumption DEF CreateCheckpoint
  <1>2. title' = title /\ body' = body /\ token' = token /\ governed' = governed
    BY <1>1 DEF Rows, InSpec, Live, Governed
  <1>3. \A q \in seals : q.id # c
    BY <1>1
  <1>4. \A x \in taken : /\ view(row(x)).id = c /\ view(row(x)).spec = x
                         /\ view(row(x)).token = token[x] /\ token[x] > 0
    BY <1>1 DEF Exists
  <1> HIDE DEF view, row, taken
  <1>5. seals' = seals \cup {view(row(x)) : x \in taken}
    BY <1>1
  <1>6. seals \subseteq seals' /\ seals' # seals
    <2>1. PICK x : x \in taken
      BY <1>1
    <2>2. view(row(x)).id = c
      BY <1>4, <2>1
    <2>3. view(row(x)) \notin seals
      BY <1>3, <2>2
    <2>4. view(row(x)) \in seals'
      BY <1>5, <2>1
    <2> QED
      BY <1>5, <2>3, <2>4
  <1>7. \A r \in seals' \ seals : /\ r.token = token[r.spec] /\ r.token > 0
                                 /\ \A q \in seals : q.id # r.id
    BY <1>3, <1>4, <1>5
  <1> HIDE DEF title, body, token, governed, seals
  <1>8. UNCHANGED <<title, body, token, governed>>
    BY <1>2
  <1> QED
    BY <1>6, <1>7, <1>8 DEF Abstract!Seal, title, body, token, governed, seals, view

(* The empty database is the abstract store before its first spec.          *)
LEMMA InitImplements == Init => Abstract!Init
  <1> SUFFICES ASSUME Init  PROVE Abstract!Init
    OBVIOUS
  <1>1. \A s \in Specs : Rows(s) = {}
    BY DEF Init, Rows, InSpec, Live
  <1>2. \A s \in Specs : ~Governed(s) /\ spec[s].contentVersion = 0
    BY DEF Init, Governed
  <1>3. sealed = {}
    BY DEF Init
  <1>4. [x \in Specs |-> spec[x].contentVersion] = [x \in Specs |-> 0]
    BY <1>2
  <1>5. [x \in Specs |-> Governed(x)] = [x \in Specs |-> FALSE]
    <2>1. \A x \in Specs : Governed(x) = FALSE
      BY <1>2 DEF Governed
    <2> QED
      BY <2>1, Zenon
  <1>6. \A x \in Specs : DOMAIN [p \in Rows(x) |-> para[p]] = {}
    BY <1>1
  <1> QED
    BY <1>3, <1>4, <1>5, <1>6 DEF Abstract!Init

(* Every step of the tables is one abstract step or none.                   *)
LEMMA NextImplements == TypeOK /\ [Next]_vars => [Abstract!Next]_(Abstract!vars)
  <1> SUFFICES ASSUME TypeOK, [Next]_vars  PROVE [Abstract!Next]_(Abstract!vars)
    OBVIOUS
  <1>1. ASSUME NEW s \in Specs, Write(s)  PROVE Abstract!Next
    BY <1>1, RequestImplements DEF Abstract!Next
  <1>2. ASSUME NEW s \in Specs, Environment(s)  PROVE Abstract!Next
    BY <1>2, EnvironmentImplements DEF Abstract!Next
  <1>3. ASSUME NEW c \in Checkpoints, NEW scope \in Scopes, CreateCheckpoint(c, scope)
        PROVE  Abstract!Next
    BY <1>3, CheckpointImplements DEF Abstract!Next
  <1>4. CASE UNCHANGED vars
    BY <1>4 DEF vars, Abstract!vars, Rows, InSpec, Live, Governed
  <1> QED
    BY <1>1, <1>2, <1>3, <1>4 DEF Next

(* ADR-018: the tables implement the store of versioned specs, so a change  *)
(* of what a spec says and an advance of its content_version are the same   *)
(* event, whichever handler runs.                                           *)
THEOREM TablesImplementVersionedSpecs == Spec => ImplementsVersionedSpecs
    BY TypeCorrect, InitImplements, NextImplements, PTL
       DEF Spec, ImplementsVersionedSpecs, Abstract!Spec

=============================================================================
