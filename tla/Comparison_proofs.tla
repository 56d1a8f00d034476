-------------------------- MODULE Comparison_proofs --------------------------
(***************************************************************************)
(* Proofs about the comparison report, for every outline and wording and    *)
(* whatever writers do to a master, its copy and a frozen tree of it.       *)
(***************************************************************************)
EXTENDS Comparison, SpecStore_proofs, SequenceTheorems

-----------------------------------------------------------------------------
(* Sources are trees. *)

(* Rows that hang below each other, each below one drawn before it.          *)
Hangs(rows, p) == rows[p].parent # Absent => rows[p].parent \in DOMAIN rows /\ rows[p].parent < p
Tree(rows) ==
    /\ DOMAIN rows \subseteq Lines
    /\ rows \in [DOMAIN rows -> LineRow]
    /\ \A p \in DOMAIN rows : Hangs(rows, p)

LEMMA LinesFinite == IsFiniteSet(Lines) /\ Lines \subseteq Nat /\ 0 \notin Lines /\ Absent \notin Lines
  <1>1. IsFiniteSet(1..MaxLines)
    BY LinesAssumption, FS_Interval
  <1> QED
    BY <1>1, LinesAssumption, AbsentAssumption DEF Lines

(* The way up from a row, by numbers: 0 is above the roots.                  *)
Up(rows) == [p \in DOMAIN rows |-> IF rows[p].parent \in DOMAIN rows THEN rows[p].parent ELSE 0]
LEMMA UpIs ==
    ASSUME NEW rows, Tree(rows)
    PROVE  /\ DOMAIN rows \in SUBSET Nat
           /\ Up(rows) \in [DOMAIN rows -> Nat]
           /\ \A p \in DOMAIN rows :
                 /\ Up(rows)[p] < p
                 /\ Up(rows)[p] \in DOMAIN rows <=> rows[p].parent \in DOMAIN rows
                 /\ rows[p].parent \in DOMAIN rows => Up(rows)[p] = rows[p].parent
                 /\ rows[p].parent \notin DOMAIN rows => rows[p].parent = Absent
  <1>1. DOMAIN rows \subseteq Nat /\ 0 \notin DOMAIN rows /\ Absent \notin DOMAIN rows
    BY LinesFinite DEF Tree
  <1>2. ASSUME NEW p \in DOMAIN rows
        PROVE  /\ rows[p].parent \in DOMAIN rows => rows[p].parent < p /\ rows[p].parent \in Nat
               /\ rows[p].parent \notin DOMAIN rows => rows[p].parent = Absent
               /\ p \in Nat /\ 0 < p
    BY <1>1 DEF Tree, Hangs
  <1> QED
    BY <1>1, <1>2 DEF Up

(* What is kept of a tree is a tree: a row that no row above it removes.     *)
IsKept(rows, kept, p) ==
    ~OwnerRemoved(rows[p]) /\ (rows[p].parent \in DOMAIN rows => kept[rows[p].parent])
LEMMA KeptIs ==
    ASSUME NEW rows, Tree(rows)
    PROVE  /\ Tree(Kept(rows))
           /\ \A p \in DOMAIN Kept(rows) : p \in DOMAIN rows /\ Kept(rows)[p] = rows[p]
           /\ \A p \in DOMAIN rows : p \in DOMAIN Kept(rows) <=>
                 /\ ~OwnerRemoved(rows[p])
                 /\ rows[p].parent \in DOMAIN rows => rows[p].parent \in DOMAIN Kept(rows)
  <1> DEFINE D == DOMAIN rows
             up == Up(rows)
             a == [p \in D |-> ~OwnerRemoved(rows[p])]
             b == [p \in D |-> [x \in BOOLEAN |-> ~OwnerRemoved(rows[p]) /\ x]]
             Fits(f) == f = [p \in D |-> /\ ~OwnerRemoved(rows[p])
                                         /\ rows[p].parent \in D => f[rows[p].parent]]
  <1>1. /\ D \in SUBSET Nat /\ up \in [D -> Nat]
        /\ \A p \in D : up[p] < p
        /\ \A p \in D : up[p] \in D <=> rows[p].parent \in D
        /\ \A p \in D : rows[p].parent \in D => up[p] = rows[p].parent
    BY UpIs
  <1>2. a \in [D -> BOOLEAN] /\ b \in [D -> [BOOLEAN -> BOOLEAN]]
    <2>1. \A p \in D : (~OwnerRemoved(rows[p])) \in BOOLEAN
      BY Zenon DEF OwnerRemoved
    <2>2. \A p \in D : \A x \in BOOLEAN : (~OwnerRemoved(rows[p]) /\ x) \in BOOLEAN
      BY Zenon DEF OwnerRemoved
    <2> QED
      BY <2>1, <2>2, Zenon
  <1>3. \E f \in [D -> BOOLEAN] : Follows(f, D, up, a, b)
    <2> HIDE DEF D, up, a, b
    <2> QED
      BY <1>1, <1>2, AlongParents, Zenon
  <1>4. PICK f \in [D -> BOOLEAN] : \A p \in D : f[p] = IF up[p] \in D THEN b[p][f[up[p]]] ELSE a[p]
    BY <1>3, Zenon DEF Follows
  <1>5. ASSUME NEW p \in D
        PROVE  f[p] = (~OwnerRemoved(rows[p]) /\ (rows[p].parent \in D => f[rows[p].parent]))
    <2>1. CASE rows[p].parent \in D
      <3>1. PICK q \in D : q = rows[p].parent
        BY <2>1
      <3>2. up[p] = q /\ f[q] \in BOOLEAN
        BY <1>1, <1>4, <2>1, <3>1, Zenon
      <3>3. f[p] = b[p][f[q]]
        BY <1>4, <3>2, Zenon
      <3>4. b[p][f[q]] = (~OwnerRemoved(rows[p]) /\ f[q])
        <4> HIDE DEF D
        <4> QED
          BY <3>2, Zenon
      <3> QED
        BY <2>1, <3>1, <3>3, <3>4, Zenon
    <2>2. CASE rows[p].parent \notin D
      <3>1. f[p] = a[p]
        BY <1>1, <1>4, <2>2, Zenon
      <3>2. a[p] = (~OwnerRemoved(rows[p]))
        BY Zenon
      <3> QED
        BY <2>2, <3>1, <3>2, Zenon
    <2> QED
      BY <2>1, <2>2
  <1>6. Fits(f)
    <2>1. f = [p \in D |-> f[p]]
      BY <1>4, Zenon
    <2> QED
      BY <1>5, <2>1, Zenon
  <1>7. PICK kept : kept = CHOOSE g : Fits(g)
    OBVIOUS
  <1>8. Fits(kept)
    <2> HIDE DEF Fits
    <2> QED
      BY <1>6, <1>7
  <1>9. Kept(rows) = [p \in {q \in D : kept[q]} |-> rows[p]]
    BY <1>7, Zenon DEF Kept
  <1>10. ASSUME NEW p \in D
         PROVE  kept[p] <=> IsKept(rows, kept, p)
    <2>1. kept[p] = (~OwnerRemoved(rows[p]) /\ (rows[p].parent \in D => kept[rows[p].parent]))
      <3> HIDE DEF D
      <3> QED
        BY <1>8, Zenon
    <2> QED
      BY <2>1, Zenon DEF IsKept
  <1>11. DOMAIN Kept(rows) = {q \in D : kept[q]} /\ \A p \in DOMAIN Kept(rows) : Kept(rows)[p] = rows[p]
    BY <1>9, Zenon
  <1>12. \A p \in D : p \in DOMAIN Kept(rows) <=>
            /\ ~OwnerRemoved(rows[p])
            /\ rows[p].parent \in D => rows[p].parent \in DOMAIN Kept(rows)
    BY <1>10, <1>11, Zenon DEF IsKept
  <1>13. DOMAIN Kept(rows) \subseteq D
    BY <1>11
  <1>14. Tree(Kept(rows))
    <2> DEFINE K == Kept(rows)
    <2>1. DOMAIN K \subseteq Lines
      BY <1>13 DEF Tree
    <2>2. K \in [DOMAIN K -> LineRow]
      <3>1. \A p \in DOMAIN K : K[p] \in LineRow
        BY <1>11, <1>13 DEF Tree
      <3>2. K = [p \in DOMAIN K |-> K[p]]
        BY <1>9
      <3> QED
        BY <3>1, <3>2
    <2>3. ASSUME NEW p \in DOMAIN K, K[p].parent # Absent
          PROVE  K[p].parent \in DOMAIN K /\ K[p].parent < p
      <3>1. p \in D /\ K[p] = rows[p]
        BY <1>11, <1>13
      <3>2. rows[p].parent \in D /\ rows[p].parent < p
        BY <2>3, <3>1 DEF Tree, Hangs
      <3> QED
        BY <1>12, <3>1, <3>2
    <2> QED
      BY <2>1, <2>2, <2>3 DEF Tree, Hangs
  <1> QED
    BY <1>11, <1>12, <1>13, <1>14

-----------------------------------------------------------------------------
(* Addresses in the outline. *)

LEMMA StandsOrders ==
    ASSUME NEW rows, Tree(rows), NEW S \in SUBSET (DOMAIN rows)
    PROVE  /\ IsFiniteSet(S)
           /\ TotallyOrders({x \in S \X S : Stands(rows, x[1], x[2])}, S)
  <1> DEFINE R == {x \in S \X S : Stands(rows, x[1], x[2])}
  <1>1. IsFiniteSet(S)
    BY LinesFinite, FS_Subset DEF Tree
  <1>2. \A p \in S : p \in Nat /\ rows[p].position \in Int
    BY LinesFinite DEF Tree, LineRow
  <1>3. \A p, q \in S : <<p, q>> \in R <=>
            \/ rows[p].position < rows[q].position
            \/ rows[p].position = rows[q].position /\ p < q
    BY DEF Stands
  <1> HIDE DEF R
  <1>4. \A p \in S : <<p, p>> \notin R
    BY <1>2, <1>3
  <1>5. \A p, q \in S : p # q => <<p, q>> \in R \/ <<q, p>> \in R
    BY <1>2, <1>3
  <1>6. \A p, q, r \in S : <<p, q>> \in R /\ <<q, r>> \in R => <<p, r>> \in R
    BY <1>2, <1>3
  <1> QED
    BY <1>1, <1>4, <1>5, <1>6 DEF TotallyOrders, R

(* Like siblings have different ordinals.                                    *)
Like(rows, p) == {q \in Siblings(rows, p) : rows[q].type = rows[p].type}
LEMMA OrdinalIs ==
    ASSUME NEW rows, Tree(rows), NEW p \in DOMAIN rows
    PROVE  /\ Ordinal(rows, p) \in Nat
           /\ Ordinal(rows, p) =
                Cardinality(Ahead(Like(rows, p),
                    {x \in Like(rows, p) \X Like(rows, p) : Stands(rows, x[1], x[2])}, p))
  <1> DEFINE S == Like(rows, p)
             R == {x \in S \X S : Stands(rows, x[1], x[2])}
             A == {q \in Siblings(rows, p) : rows[q].type = rows[p].type /\ Stands(rows, q, p)}
  <1>1. S \in SUBSET DOMAIN rows /\ p \in S
    BY DEF Like, Siblings
  <1>2. A = Ahead(S, R, p)
    BY <1>1 DEF Ahead, Like
  <1>3. IsFiniteSet(S) /\ A \in SUBSET S
    BY <1>1, StandsOrders DEF Like
  <1>4. Cardinality(A) \in Nat
    BY <1>3, FS_Subset, FS_CardinalityType
  <1> QED
    BY <1>2, <1>4 DEF Ordinal

LEMMA OrdinalsDiffer ==
    ASSUME NEW rows, Tree(rows), NEW p \in DOMAIN rows, NEW q \in DOMAIN rows,
           rows[p].parent = rows[q].parent, rows[p].type = rows[q].type,
           Ordinal(rows, p) = Ordinal(rows, q)
    PROVE  p = q
  <1> DEFINE S == Like(rows, p)
             R == {x \in S \X S : Stands(rows, x[1], x[2])}
  <1>1. S = Like(rows, q) /\ p \in S /\ q \in S /\ S \in SUBSET DOMAIN rows
    BY DEF Like, Siblings
  <1>2. /\ Ordinal(rows, p) = Cardinality(Ahead(S, R, p))
        /\ Ordinal(rows, q) = Cardinality(Ahead(S, R, q))
    BY <1>1, OrdinalIs
  <1>3. IsFiniteSet(S) /\ TotallyOrders(R, S)
    <2> HIDE DEF S
    <2> QED
      BY <1>1, StandsOrders
  <1>4. \A x, y \in S : Cardinality(Ahead(S, R, x)) = Cardinality(Ahead(S, R, y)) => x = y
    <2> HIDE DEF S, R
    <2> QED
      BY <1>3, Ranked
  <1> HIDE DEF S, R
  <1> QED
    BY <1>1, <1>2, <1>4

(* The structural keys are what their recursion says, *)
Addresses == Seq(LineTypes \X Nat)
Here(rows, p) == <<rows[p].type, Ordinal(rows, p)>>
LEMMA AddressIs ==
    ASSUME NEW pair, NEW i, Tree(pair[i].rows)
    PROVE  /\ StructuralKeys(pair, i) \in [DOMAIN pair[i].rows -> Addresses]
           /\ \A p \in DOMAIN pair[i].rows :
                 /\ Here(pair[i].rows, p) \in LineTypes \X Nat
                 /\ StructuralKeys(pair, i)[p] =
                      Append(IF pair[i].rows[p].parent \in DOMAIN pair[i].rows
                             THEN StructuralKeys(pair, i)[pair[i].rows[p].parent] ELSE <<>>,
                             Here(pair[i].rows, p))
  <1>0. PICK rows : rows = pair[i].rows
    OBVIOUS
  <1> DEFINE D == DOMAIN rows
             up == Up(rows)
             a == [p \in D |-> Append(<<>>, Here(rows, p))]
             b == [p \in D |-> [x \in Addresses |-> Append(x, Here(rows, p))]]
             Fits(f) == f = [p \in D |-> Append(IF rows[p].parent \in D THEN f[rows[p].parent] ELSE <<>>,
                                                <<rows[p].type, Ordinal(rows, p)>>)]
  <1>1. /\ D \in SUBSET Nat /\ up \in [D -> Nat]
        /\ \A p \in D : up[p] < p
        /\ \A p \in D : up[p] \in D <=> rows[p].parent \in D
        /\ \A p \in D : rows[p].parent \in D => up[p] = rows[p].parent
    BY <1>0, UpIs
  <1>2. \A p \in D : Here(rows, p) \in LineTypes \X Nat
    <2>1. \A p \in D : rows[p].type \in LineTypes
      BY <1>0 DEF Tree, LineRow
    <2> QED
      BY <1>0, <2>1, OrdinalIs DEF Here
  <1>3. a \in [D -> Addresses] /\ b \in [D -> [Addresses -> Addresses]] /\ <<>> \in Addresses
    <2>1. <<>> \in Addresses /\ \A x \in Addresses, e \in LineTypes \X Nat : Append(x, e) \in Addresses
      BY AppendProperties DEF Addresses
    <2> HIDE DEF D
    <2> QED
      BY <1>2, <2>1
  <1>4. \E f \in [D -> Addresses] : Follows(f, D, up, a, b)
    <2> HIDE DEF D, up, a, b
    <2> QED
      BY <1>1, <1>3, AlongParents, Zenon
  <1>5. PICK f \in [D -> Addresses] : \A p \in D : f[p] = IF up[p] \in D THEN b[p][f[up[p]]] ELSE a[p]
    BY <1>4, Zenon DEF Follows
  <1>6. ASSUME NEW p \in D
        PROVE  f[p] = Append(IF rows[p].parent \in D THEN f[rows[p].parent] ELSE <<>>, Here(rows, p))
    <2>1. CASE rows[p].parent \in D
      <3>1. PICK q \in D : q = rows[p].parent
        BY <2>1
      <3>2. up[p] = q /\ f[q] \in Addresses
        BY <1>1, <1>5, <2>1, <3>1, Zenon
      <3>3. f[p] = b[p][f[q]]
        BY <1>5, <3>2, Zenon
      <3>4. b[p][f[q]] = Append(f[q], Here(rows, p))
        <4> HIDE DEF D
        <4> QED
          BY <3>2, Zenon
      <3> QED
        BY <2>1, <3>1, <3>3, <3>4, Zenon
    <2>2. CASE rows[p].parent \notin D
      <3>1. f[p] = a[p]
        BY <1>1, <1>5, <2>2, Zenon
      <3>2. a[p] = Append(<<>>, Here(rows, p))
        BY Zenon
      <3> QED
        BY <2>2, <3>1, <3>2, Zenon
    <2> QED
      BY <2>1, <2>2
  <1>7. Fits(f)
    <2>1. f = [p \in D |-> f[p]]
      BY <1>5, Zenon
    <2> QED
      BY <1>6, <2>1, Zenon DEF Here
  <1>8. PICK address : address = CHOOSE g : Fits(g)
    OBVIOUS
  <1>9. Fits(address)
    <2> HIDE DEF Fits
    <2> QED
      BY <1>7, <1>8
  <1>10. StructuralKeys(pair, i) = address
    BY <1>0, <1>8, Zenon DEF StructuralKeys
  <1>11. ASSUME NEW p \in D
         PROVE  address[p] = Append(IF rows[p].parent \in D THEN address[rows[p].parent] ELSE <<>>,
                                    Here(rows, p))
    BY <1>9, Zenon DEF Here
  <1>12. DOMAIN address = D /\ address = [p \in D |-> address[p]]
    BY <1>9, Zenon
  <1>13. \A p \in D : address[p] = f[p]
    <2> SUFFICES ASSUME {p \in D : address[p] # f[p]} # {}  PROVE FALSE
      OBVIOUS
    <2>1. PICK p \in {x \in D : address[x] # f[x]} : \A m \in {x \in D : address[x] # f[x]} : p <= m
      <3>1. {x \in D : address[x] # f[x]} \in SUBSET Nat
        BY <1>1
      <3> QED
        BY <3>1, LeastOf
    <2>2. p \in D /\ address[p] # f[p]
      BY <2>1
    <2>3. rows[p].parent \in D => address[rows[p].parent] = f[rows[p].parent]
      <3>1. SUFFICES ASSUME rows[p].parent \in D, address[rows[p].parent] # f[rows[p].parent]
                     PROVE  FALSE
        OBVIOUS
      <3>2. p <= rows[p].parent
        BY <2>1, <3>1
      <3>3. rows[p].parent < p /\ rows[p].parent \in Nat /\ p \in Nat
        BY <1>1, <2>2, <3>1
      <3> QED
        BY <3>2, <3>3
    <2>4. /\ address[p] = Append(IF rows[p].parent \in D THEN address[rows[p].parent] ELSE <<>>, Here(rows, p))
          /\ f[p] = Append(IF rows[p].parent \in D THEN f[rows[p].parent] ELSE <<>>, Here(rows, p))
      BY <1>6, <1>11, <2>2
    <2> HIDE DEF D
    <2> QED
      BY <2>2, <2>3, <2>4, Zenon
  <1>14. address \in [D -> Addresses]
    <2>1. \A p \in D : address[p] \in Addresses
      BY <1>5, <1>13
    <2> HIDE DEF D
    <2> QED
      BY <1>12, <2>1
  <1> QED
    BY <1>0, <1>2, <1>10, <1>11, <1>14

(* and no two rows of a source have the same.                                *)
LEMMA AddressesDiffer ==
    ASSUME NEW pair, NEW i, Tree(pair[i].rows)
    PROVE  \A p, q \in DOMAIN pair[i].rows :
              StructuralKeys(pair, i)[p] = StructuralKeys(pair, i)[q] => p = q
  <1>0. PICK rows : rows = pair[i].rows
    OBVIOUS
  <1>1. PICK address : address = StructuralKeys(pair, i)
    OBVIOUS
  <1> DEFINE D == DOMAIN rows
             S == {p \in D : \E q \in D : q # p /\ address[p] = address[q]}
             Above(p) == IF rows[p].parent \in D THEN address[rows[p].parent] ELSE <<>>
  <1>2. /\ \A p \in D : address[p] \in Addresses /\ Here(rows, p) \in LineTypes \X Nat
        /\ \A p \in D : address[p] = Append(Above(p), Here(rows, p))
    BY <1>0, <1>1, AddressIs
  <1>3. D \in SUBSET Nat /\ \A p \in D : rows[p].parent \in D => rows[p].parent < p
    BY <1>0, UpIs
  <1> SUFFICES ASSUME S # {}  PROVE FALSE
    BY <1>0, <1>1
  <1>4. PICK p \in S : \A m \in S : p <= m
    BY <1>3, LeastOf
  <1>5. PICK q \in D : q # p /\ address[p] = address[q]
    BY <1>4
  <1>6. p \in D /\ q \in D
    BY <1>4, <1>5
  <1>7. \A r \in D : Above(r) \in Addresses
    BY <1>2 DEF Addresses
  <1>8. Above(p) = Above(q) /\ Here(rows, p) = Here(rows, q)
    <2>1. Append(Above(p), Here(rows, p)) = Append(Above(q), Here(rows, q))
      BY <1>2, <1>5, <1>6
    <2> HIDE DEF Above, D, S
    <2> QED
      BY <1>2, <1>6, <1>7, <2>1, AppendInjective DEF Addresses
  <1>9. \A r \in D : address[r] # <<>>
    <2> SUFFICES ASSUME NEW r \in D  PROVE address[r] # <<>>
      OBVIOUS
    <2>1. address[r] = Append(Above(r), Here(rows, r)) /\ Above(r) \in Addresses
             /\ Here(rows, r) \in LineTypes \X Nat
      BY <1>2, <1>7
    <2> HIDE DEF Above, D, S
    <2> QED
      BY <2>1, AppendProperties DEF Addresses
  <1>10. rows[p].parent \in D <=> rows[q].parent \in D
    BY <1>8, <1>9
  <1>11. rows[p].parent = rows[q].parent
    <2>1. CASE rows[p].parent \in D
      <3>1. address[rows[p].parent] = address[rows[q].parent]
        BY <1>8, <1>10, <2>1
      <3>2. SUFFICES ASSUME rows[p].parent # rows[q].parent  PROVE FALSE
        OBVIOUS
      <3>3. rows[p].parent \in S
        BY <1>10, <2>1, <3>1, <3>2
      <3>4. p <= rows[p].parent
        BY <1>4, <3>3
      <3>5. rows[p].parent < p /\ rows[p].parent \in Nat /\ p \in Nat
        BY <1>3, <1>6, <2>1
      <3> QED
        BY <3>4, <3>5
    <2>2. CASE rows[p].parent \notin D
      BY <1>0, <1>6, <1>10, <2>2, UpIs
    <2> QED
      BY <2>1, <2>2
  <1>12. rows[p].type = rows[q].type /\ Ordinal(rows, p) = Ordinal(rows, q)
    BY <1>8 DEF Here
  <1> QED
    BY <1>0, <1>5, <1>6, <1>11, <1>12, OrdinalsDiffer

-----------------------------------------------------------------------------
(* The matrix. *)

(* Rows that are clones of others are clones of different ones, which are     *)
(* not among them.                                                           *)
ClonesOne(rows, p) ==
    rows[p].origin # Absent =>
        /\ rows[p].origin \notin DOMAIN rows
        /\ \A q \in DOMAIN rows : rows[q].origin = rows[p].origin => q = p
Clones(rows) == \A p \in DOMAIN rows : ClonesOne(rows, p)
NoClones(rows) == \A p \in DOMAIN rows : rows[p].origin = Absent

(* What may be compared: two trees of one spec, or of a spec and a copy.     *)
Comparable(pair) ==
    /\ \A i \in 1..2 : Tree(pair[i].rows) /\ Clones(pair[i].rows)
    /\ ~SameSpec(pair) =>
         /\ DOMAIN pair[1].rows \cap DOMAIN pair[2].rows = {}
         /\ \E i \in 1..2 : NoClones(pair[i].rows)

(* No two paragraphs of a source have the same key.                          *)
KeysDiffer(keys) ==
    /\ DOMAIN keys \subseteq Lines
    /\ \A p, q \in DOMAIN keys : keys[p] = keys[q] => p = q
LEMMA KeysAre ==
    ASSUME NEW pair, Comparable(pair), NEW i \in 1..2, NEW mode
    PROVE  DOMAIN Keys(pair, i, mode) = DOMAIN pair[i].rows /\ KeysDiffer(Keys(pair, i, mode))
  <1>1. PICK rows : rows = pair[i].rows
    OBVIOUS
  <1>2. Tree(rows) /\ Clones(rows) /\ DOMAIN rows \subseteq Lines
    BY <1>1 DEF Comparable, Tree
  <1>3. CASE mode = "origin"
    <2>1. PICK keys : keys = OriginKeys(pair, i)
      OBVIOUS
    <2>2. keys = [p \in DOMAIN rows |-> IF SameSpec(pair) THEN p ELSE OriginOrOwn(rows, p)]
      BY <1>1, <2>1 DEF OriginKeys
    <2>3. \A p, q \in DOMAIN rows : OriginOrOwn(rows, p) = OriginOrOwn(rows, q) => p = q
      BY <1>2 DEF Clones, ClonesOne, OriginOrOwn
    <2>4. \A p, q \in DOMAIN keys : keys[p] = keys[q] => p = q
      BY <2>2, <2>3
    <2> QED
      BY <1>1, <1>2, <1>3, <2>1, <2>2, <2>4 DEF Keys, KeysDiffer
  <1>4. CASE mode # "origin"
    <2>1. Keys(pair, i, mode) = StructuralKeys(pair, i)
      BY <1>4 DEF Keys
    <2> QED
      BY <1>1, <1>2, <2>1, AddressIs, AddressesDiffer DEF KeysDiffer
  <1> QED
    BY <1>3, <1>4

LEMMA CellIs ==
    ASSUME NEW source, NEW keys, KeysDiffer(keys), NEW k
    PROVE  /\ \A p \in DOMAIN keys : Cell(source, keys, k) = p <=> keys[p] = k
           /\ Cell(source, keys, k) = Absent \/ Cell(source, keys, k) \in DOMAIN keys
           /\ Cell(source, keys, k) = Absent <=> k \notin KeySet(keys)
  <1> DEFINE found == {p \in DOMAIN keys : keys[p] = k}
  <1>1. Absent \notin DOMAIN keys
    BY LinesFinite DEF KeysDiffer
  <1>2. CASE found = {}
    BY <1>1, <1>2 DEF Cell, KeySet
  <1>3. CASE found # {}
    <2>1. PICK p \in DOMAIN keys : keys[p] = k
      BY <1>3
    <2>2. found = {p}
      BY <2>1 DEF KeysDiffer
    <2>3. Cell(source, keys, k) = CHOOSE x \in {p} : \A y \in {p} \ {x} : Stands(source.rows, x, y)
      BY <1>3, <2>2 DEF Cell
    <2>4. Cell(source, keys, k) = p
      <3>1. \E x \in {p} : \A y \in {p} \ {x} : Stands(source.rows, x, y)
        OBVIOUS
      <3> QED
        BY <2>3, <3>1
    <2> QED
      BY <1>1, <2>1, <2>2, <2>4 DEF KeySet, KeysDiffer
  <1> QED
    BY <1>2, <1>3

(* The row of a key, and the matrix of all.                                  *)
RowOf(pair, mode, k) ==
    [key |-> k, cells |-> [i \in 1..2 |-> Cell(pair[i], Keys(pair, i, mode), k)]]
AllKeys(pair, mode) == KeySet(Keys(pair, 1, mode)) \cup KeySet(Keys(pair, 2, mode))
LEMMA MatrixIs ==
    ASSUME NEW pair, NEW requested, NEW mode, mode = AlignedBy(pair, requested)
    PROVE  Matrix(pair, requested) = {RowOf(pair, mode, k) : k \in AllKeys(pair, mode)}
  <1> DEFINE keys == <<Keys(pair, 1, mode), Keys(pair, 2, mode)>>
  <1>1. keys[1] = Keys(pair, 1, mode) /\ keys[2] = Keys(pair, 2, mode)
    OBVIOUS
  <1>2. \A i \in 1..2 : keys[i] = Keys(pair, i, mode)
    <2>1. \A i \in 1..2 : i = 1 \/ i = 2
      OBVIOUS
    <2> HIDE DEF keys
    <2> QED
      BY <1>1, <2>1
  <1>3. Matrix(pair, requested) =
          {[key |-> k, cells |-> [i \in 1..2 |-> Cell(pair[i], keys[i], k)]] :
              k \in KeySet(keys[1]) \cup KeySet(keys[2])}
    BY Zenon DEF Matrix
  <1> HIDE DEF keys
  <1>4. \A k : [i \in 1..2 |-> Cell(pair[i], keys[i], k)] =
                 [i \in 1..2 |-> Cell(pair[i], Keys(pair, i, mode), k)]
    BY <1>2, Zenon
  <1>5. \A k : [key |-> k, cells |-> [i \in 1..2 |-> Cell(pair[i], keys[i], k)]] = RowOf(pair, mode, k)
    BY <1>4 DEF RowOf
  <1>6. KeySet(keys[1]) \cup KeySet(keys[2]) = AllKeys(pair, mode)
    BY <1>1 DEF AllKeys
  <1> QED
    BY <1>3, <1>5, <1>6, Zenon

LEMMA RowIs ==
    ASSUME NEW pair, Comparable(pair), NEW mode, NEW k, NEW i \in 1..2
    PROVE  /\ RowOf(pair, mode, k).key = k
           /\ \A p \in DOMAIN pair[i].rows :
                 RowOf(pair, mode, k).cells[i] = p <=> Keys(pair, i, mode)[p] = k
           /\ RowOf(pair, mode, k).cells[i] = Absent
                \/ RowOf(pair, mode, k).cells[i] \in DOMAIN pair[i].rows
           /\ RowOf(pair, mode, k).cells[i] = Absent <=> k \notin KeySet(Keys(pair, i, mode))
           /\ RowOf(pair, mode, k).cells =
                <<RowOf(pair, mode, k).cells[1], RowOf(pair, mode, k).cells[2]>>
  <1>1. PICK keys : keys = Keys(pair, i, mode)
    OBVIOUS
  <1>2. DOMAIN keys = DOMAIN pair[i].rows /\ KeysDiffer(keys)
    BY <1>1, KeysAre
  <1>3. RowOf(pair, mode, k).cells[i] = Cell(pair[i], keys, k) /\ RowOf(pair, mode, k).key = k
    BY <1>1 DEF RowOf
  <1>4. PICK cells : cells = RowOf(pair, mode, k).cells
    OBVIOUS
  <1>5. cells = [j \in 1..2 |-> Cell(pair[j], Keys(pair, j, mode), k)]
    BY <1>4 DEF RowOf
  <1>6. cells = <<cells[1], cells[2]>>
    BY <1>5
  <1> QED
    BY <1>1, <1>2, <1>3, <1>4, <1>6, CellIs

LEMMA AlignedAs ==
    ASSUME NEW pair, NEW mode \in {"origin", "structure"}
    PROVE  mode = AlignedBy(pair, mode)
  BY DEF AlignedBy

LEMMA NoneIsLeftOut ==
    ASSUME NEW pair, Comparable(pair), NEW mode \in {"origin", "structure"}
    PROVE  NothingIsLeftOut(pair, Matrix(pair, mode))
  <1>1. Matrix(pair, mode) = {RowOf(pair, mode, k) : k \in AllKeys(pair, mode)}
    BY AlignedAs, MatrixIs
  <1> SUFFICES ASSUME NEW i \in 1..2, NEW p \in DOMAIN pair[i].rows
               PROVE  Cardinality({row \in Matrix(pair, mode) : row.cells[i] = p}) = 1
    BY DEF NothingIsLeftOut
  <1>2. PICK k : k = Keys(pair, i, mode)[p]
    OBVIOUS
  <1>3. k \in AllKeys(pair, mode)
    <2>1. p \in DOMAIN Keys(pair, i, mode)
      BY KeysAre
    <2>2. i = 1 \/ i = 2
      OBVIOUS
    <2> QED
      BY <1>2, <2>1, <2>2 DEF AllKeys, KeySet
  <1>4. \A x : RowOf(pair, mode, x).cells[i] = p <=> x = k
    BY <1>2, RowIs
  <1>5. {row \in Matrix(pair, mode) : row.cells[i] = p} = {RowOf(pair, mode, k)}
    BY <1>1, <1>3, <1>4, Zenon
  <1> QED
    BY <1>5, FS_Singleton

-----------------------------------------------------------------------------
(* By lineage. *)

LEMMA LineageKeysMeet ==
    ASSUME NEW pair, Comparable(pair), NEW p \in DOMAIN pair[1].rows, NEW q \in DOMAIN pair[2].rows
    PROVE  Keys(pair, 1, "origin")[p] = Keys(pair, 2, "origin")[q] <=> SameLine(pair, p, q)
  <1>1. PICK r1, r2 : r1 = pair[1].rows /\ r2 = pair[2].rows
    OBVIOUS
  <1>2. Absent \notin DOMAIN r1 /\ Absent \notin DOMAIN r2
    <2>1. Tree(pair[1].rows) /\ Tree(pair[2].rows)
      BY DEF Comparable
    <2> QED
      BY <1>1, <2>1, LinesFinite DEF Tree
  <1>3. /\ Keys(pair, 1, "origin")[p] = IF SameSpec(pair) THEN p ELSE OriginOrOwn(r1, p)
        /\ Keys(pair, 2, "origin")[q] = IF SameSpec(pair) THEN q ELSE OriginOrOwn(r2, q)
    BY <1>1 DEF Keys, OriginKeys
  <1>4. CASE SameSpec(pair)
    BY <1>3, <1>4 DEF SameLine
  <1>5. CASE ~SameSpec(pair)
    <2>1. DOMAIN r1 \cap DOMAIN r2 = {} /\ (NoClones(r1) \/ NoClones(r2))
      <3>1. PICK i \in 1..2 : NoClones(pair[i].rows)
        BY <1>5 DEF Comparable
      <3>2. i = 1 \/ i = 2
        OBVIOUS
      <3> QED
        BY <1>1, <1>5, <3>1, <3>2 DEF Comparable
    <2>2. p # q /\ p # Absent /\ q # Absent
      BY <1>1, <1>2, <2>1
    <2>3. SameLine(pair, p, q) <=> (r2[q].origin = p \/ r1[p].origin = q)
      BY <1>1, <1>5 DEF SameLine
    <2>4. CASE NoClones(r1)
      <3>1. r1[p].origin = Absent
        BY <1>1, <2>4 DEF NoClones
      <3> QED
        BY <1>3, <1>5, <2>2, <2>3, <3>1 DEF OriginOrOwn
    <2>5. CASE NoClones(r2)
      <3>1. r2[q].origin = Absent
        BY <1>1, <2>5 DEF NoClones
      <3> QED
        BY <1>3, <1>5, <2>2, <2>3, <3>1 DEF OriginOrOwn
    <2> QED
      BY <2>1, <2>4, <2>5
  <1> QED
    BY <1>4, <1>5

LEMMA LineageIsPaired ==
    ASSUME NEW pair, Comparable(pair)
    PROVE  PairedByLineage(pair, Matrix(pair, "origin"))
  <1> DEFINE D1 == DOMAIN pair[1].rows
             D2 == DOMAIN pair[2].rows
             M == Matrix(pair, "origin")
             Row(k) == RowOf(pair, "origin", k)
             K1 == Keys(pair, 1, "origin")
             K2 == Keys(pair, 2, "origin")
             Shown == {row.cells : row \in {x \in M : \A i \in 1..2 : x.cells[i] # Absent}}
             Lined == {c \in D1 \X D2 : SameLine(pair, c[1], c[2])}
  <1>1. M = {Row(k) : k \in AllKeys(pair, "origin")}
    BY AlignedAs, MatrixIs
  <1>2. \A k : /\ \A p \in D1 : Row(k).cells[1] = p <=> K1[p] = k
               /\ \A q \in D2 : Row(k).cells[2] = q <=> K2[q] = k
               /\ Row(k).cells[1] = Absent \/ Row(k).cells[1] \in D1
               /\ Row(k).cells[2] = Absent \/ Row(k).cells[2] \in D2
               /\ Row(k).cells = <<Row(k).cells[1], Row(k).cells[2]>>
    BY RowIs
  <1>3. DOMAIN K1 = D1 /\ DOMAIN K2 = D2
    BY KeysAre
  <1>4. Absent \notin D1 /\ Absent \notin D2
    <2>1. Tree(pair[1].rows) /\ Tree(pair[2].rows)
      BY DEF Comparable
    <2> QED
      BY <2>1, LinesFinite DEF Tree
  <1>5. \A p \in D1, q \in D2 : K1[p] = K2[q] <=> SameLine(pair, p, q)
    BY LineageKeysMeet
  <1>6. AllKeys(pair, "origin") = KeySet(K1) \cup KeySet(K2)
    BY DEF AllKeys
  <1> HIDE DEF D1, D2, M, Row, K1, K2
  <1>7. ASSUME NEW c \in Shown  PROVE c \in Lined
    <2>1. PICK k : Row(k).cells = c /\ \A i \in 1..2 : Row(k).cells[i] # Absent
      BY <1>1
    <2>2. Row(k).cells[1] # Absent /\ Row(k).cells[2] # Absent
      BY <2>1
    <2>3. c[1] \in D1 /\ c[2] \in D2 /\ c = <<c[1], c[2]>> /\ K1[c[1]] = k /\ K2[c[2]] = k
      BY <1>2, <2>1, <2>2, Zenon
    <2>4. SameLine(pair, c[1], c[2])
      BY <1>5, <2>3
    <2> QED
      BY <2>3, <2>4
  <1>8. ASSUME NEW c \in Lined  PROVE c \in Shown
    <2>1. c \in D1 \X D2 /\ SameLine(pair, c[1], c[2])
      BY <1>8
    <2>2. c[1] \in D1 /\ c[2] \in D2 /\ c = <<c[1], c[2]>>
      BY <2>1
    <2>3. PICK k : k = K1[c[1]] /\ k = K2[c[2]]
      BY <1>5, <2>1, <2>2
    <2>4. k \in AllKeys(pair, "origin")
      BY <1>3, <1>6, <2>2, <2>3 DEF KeySet
    <2>5. Row(k).cells[1] = c[1] /\ Row(k).cells[2] = c[2] /\ Row(k).cells = c
      <3>1. /\ \A p \in D1 : Row(k).cells[1] = p <=> K1[p] = k
            /\ \A q \in D2 : Row(k).cells[2] = q <=> K2[q] = k
            /\ Row(k).cells = <<Row(k).cells[1], Row(k).cells[2]>>
        BY <1>2
      <3>2. Row(k).cells[1] = c[1] /\ Row(k).cells[2] = c[2]
        BY <2>2, <2>3, <3>1
      <3> QED
        BY <2>2, <3>1, <3>2
    <2>6. Row(k) \in M /\ \A i \in 1..2 : Row(k).cells[i] # Absent
      <3>1. \A i \in 1..2 : i = 1 \/ i = 2
        OBVIOUS
      <3>2. Row(k).cells[1] # Absent /\ Row(k).cells[2] # Absent
        BY <1>4, <2>2, <2>5
      <3> QED
        BY <1>1, <2>4, <3>1, <3>2, Zenon
    <2> QED
      BY <2>5, <2>6
  <1>9. Shown = Lined
    BY <1>7, <1>8
  <1> QED
    BY <1>9 DEF PairedByLineage, M, D1, D2

LEMMA ChangesAreShown ==
    ASSUME NEW pair, Comparable(pair)
    PROVE  ShowsWhatChanged(pair)
  <1> SUFFICES ASSUME SameSpec(pair), SharesOrigin(pair)
               PROVE  ShowsWhatChanged(pair)
    BY DEF ShowsWhatChanged
  <1> DEFINE was == pair[1].rows
             is == pair[2].rows
             Row(k) == RowOf(pair, "origin", k)
             Changed == {p \in DOMAIN was \cup DOMAIN is :
                           ~(p \in DOMAIN was \cap DOMAIN is /\ was[p].text = is[p].text)}
             Shown == {row.key : row \in Differing(pair, "auto")}
  <1>1. AlignedBy(pair, "auto") = "origin"
    BY DEF AlignedBy
  <1>2. Matrix(pair, "auto") = {Row(k) : k \in AllKeys(pair, "origin")}
    BY <1>1, MatrixIs
  <1>3. /\ Keys(pair, 1, "origin") = [p \in DOMAIN was |-> p]
        /\ Keys(pair, 2, "origin") = [p \in DOMAIN is |-> p]
    BY DEF Keys, OriginKeys
  <1>4. /\ KeySet(Keys(pair, 1, "origin")) = DOMAIN was
        /\ KeySet(Keys(pair, 2, "origin")) = DOMAIN is
    BY <1>3 DEF KeySet
  <1>5. AllKeys(pair, "origin") = DOMAIN was \cup DOMAIN is
    BY <1>4 DEF AllKeys
  <1>6. Absent \notin DOMAIN was /\ Absent \notin DOMAIN is
    <2>1. Tree(pair[1].rows) /\ Tree(pair[2].rows)
      BY DEF Comparable
    <2> QED
      BY <2>1, LinesFinite DEF Tree
  <1>7. ASSUME NEW k
        PROVE  /\ Row(k).key = k
               /\ k \in DOMAIN was => Row(k).cells[1] = k
               /\ k \in DOMAIN is => Row(k).cells[2] = k
               /\ k \notin DOMAIN was => Row(k).cells[1] = Absent
               /\ k \notin DOMAIN is => Row(k).cells[2] = Absent
    <2>1. /\ Row(k).key = k
          /\ \A p \in DOMAIN was : Row(k).cells[1] = p <=> Keys(pair, 1, "origin")[p] = k
          /\ \A p \in DOMAIN is : Row(k).cells[2] = p <=> Keys(pair, 2, "origin")[p] = k
          /\ Row(k).cells[1] = Absent <=> k \notin KeySet(Keys(pair, 1, "origin"))
          /\ Row(k).cells[2] = Absent <=> k \notin KeySet(Keys(pair, 2, "origin"))
      BY RowIs
    <2> HIDE DEF Row, was, is
    <2> QED
      BY <1>3, <1>4, <2>1
  <1>8. ASSUME NEW k
        PROVE  IsIdentical(pair, Row(k)) <=>
                 k \in DOMAIN was \cap DOMAIN is /\ was[k].text = is[k].text
    <2>1. IsIdentical(pair, Row(k)) <=>
            /\ Row(k).cells[1] # Absent /\ Row(k).cells[2] # Absent
            /\ was[Row(k).cells[1]].text = is[Row(k).cells[2]].text
      <3>1. \A i \in 1..2 : i = 1 \/ i = 2
        OBVIOUS
      <3> HIDE DEF Row
      <3> QED
        BY <3>1 DEF IsIdentical, TextOf
    <2> HIDE DEF Row, was, is
    <2> QED
      BY <1>6, <1>7, <2>1
  <1>9. Shown = Changed
    <2> HIDE DEF Row, was, is
    <2>1. Differing(pair, "auto") = {row \in {Row(k) : k \in DOMAIN was \cup DOMAIN is} :
                                        ~IsIdentical(pair, row)}
      BY <1>2, <1>5 DEF Differing
    <2>2. ASSUME NEW x \in Shown
          PROVE  x \in DOMAIN was \cup DOMAIN is /\ ~IsIdentical(pair, Row(x))
      <3>1. PICK row \in Differing(pair, "auto") : x = row.key
        OBVIOUS
      <3>2. PICK k \in DOMAIN was \cup DOMAIN is : row = Row(k) /\ ~IsIdentical(pair, Row(k))
        BY <2>1, <3>1
      <3>3. x = k
        BY <1>7, <3>1, <3>2
      <3> QED
        BY <3>2, <3>3
    <2>3. ASSUME NEW x \in DOMAIN was \cup DOMAIN is, ~IsIdentical(pair, Row(x))
          PROVE  x \in Shown
      <3>1. Row(x) \in Differing(pair, "auto")
        BY <2>1, <2>3
      <3>2. Row(x).key = x
        BY <1>7
      <3> QED
        BY <3>1, <3>2
    <2> HIDE DEF Shown
    <2> QED
      BY <1>8, <2>2, <2>3
  <1> QED
    BY <1>9 DEF ShowsWhatChanged

-----------------------------------------------------------------------------
(* What writers keep. *)

(* A row that is there hangs below a row of its spec; a row of the master is  *)
(* nobody's clone, one of the copy is the clone of a row of its own, which    *)
(* was drawn and is not in the copy.                                         *)
RowOK(l, d, p) ==
    /\ p <= d
    /\ l[p].parent # Absent =>
         /\ l[p].parent \in Lines /\ l[p].parent < p
         /\ l[l[p].parent] # Absent /\ l[l[p].parent].spec = l[p].spec
    /\ l[p].spec = Master => l[p].origin = Absent
    /\ l[p].origin # Absent =>
         /\ l[p].origin \in Lines /\ l[p].origin <= d
         /\ l[l[p].origin] # Absent => l[l[p].origin].spec = Master
         /\ \A q \in Lines : l[q] # Absent /\ l[q].origin = l[p].origin => q = p
LinesOK(l, d) ==
    /\ d \in 0..MaxLines
    /\ l \in [Lines -> LineRow \cup {Absent}]
    /\ \A p \in Lines : l[p] # Absent => RowOK(l, d, p)

(* What is frozen was the copy then, and its rows are the copy's still.      *)
FrozenOK(l, f) ==
    f # Absent =>
        /\ Tree(f.rows) /\ Clones(f.rows) /\ f.embedded \in BOOLEAN
        /\ \A p \in DOMAIN f.rows : l[p] # Absent /\ l[p].spec = Copy

LEMMA LiveRows ==
    ASSUME NEW s, NEW rows, LinesOK(line, drawnLines), rows = [p \in LinesOf(s) |-> line[p]]
    PROVE  /\ Tree(rows) /\ Clones(rows)
           /\ s = Master => NoClones(rows)
  <1>1. DOMAIN rows = LinesOf(s) /\ \A p \in DOMAIN rows : rows[p] = line[p]
    OBVIOUS
  <1>2. \A p \in Lines : line[p] # Absent => line[p] \in LineRow /\ RowOK(line, drawnLines, p)
    BY DEF LinesOK
  <1>3. \A p \in DOMAIN rows : p \in Lines /\ line[p] # Absent /\ line[p].spec = s
    BY <1>1 DEF LinesOf
  <1>4. Tree(rows)
    <2>1. DOMAIN rows \subseteq Lines
      BY <1>3
    <2>2. \A p \in DOMAIN rows : rows[p] \in LineRow
      BY <1>1, <1>2, <1>3
    <2>3. rows \in [DOMAIN rows -> LineRow]
      BY <1>1, <2>2
    <2>4. ASSUME NEW p \in DOMAIN rows  PROVE Hangs(rows, p)
      <3>1. rows[p] = line[p] /\ RowOK(line, drawnLines, p)
        BY <1>1, <1>2, <1>3
      <3>2. ASSUME line[p].parent # Absent
            PROVE  line[p].parent \in LinesOf(s) /\ line[p].parent < p
        BY <1>3, <3>1, <3>2 DEF RowOK, LinesOf
      <3> QED
        BY <1>1, <3>1, <3>2 DEF Hangs
    <2> QED
      BY <2>1, <2>3, <2>4 DEF Tree
  <1>5. s = Master => NoClones(rows)
    BY <1>1, <1>2, <1>3 DEF NoClones, RowOK
  <1>6. ASSUME NEW p \in DOMAIN rows, rows[p].origin # Absent
        PROVE  /\ rows[p].origin \notin DOMAIN rows
               /\ \A q \in DOMAIN rows : rows[q].origin = rows[p].origin => q = p
    <2>1. rows[p] = line[p] /\ RowOK(line, drawnLines, p) /\ line[p].spec = s
      BY <1>1, <1>2, <1>3, <1>6
    <2>2. s # Master
      BY <1>6, <2>1 DEF RowOK
    <2>3. \A q \in DOMAIN rows : rows[q].origin = rows[p].origin => q = p
      BY <1>1, <1>3, <1>6, <2>1 DEF RowOK
    <2>4. rows[p].origin \notin DOMAIN rows
      <3>1. line[line[p].origin] # Absent => line[line[p].origin].spec = Master
        BY <1>6, <2>1 DEF RowOK
      <3> QED
        BY <1>3, <2>1, <2>2, <3>1
    <2> QED
      BY <2>3, <2>4
  <1>7. Clones(rows)
    BY <1>6 DEF Clones, ClonesOne
  <1> QED
    BY <1>4, <1>5, <1>7

LEMMA SomeClones ==
    ASSUME NEW rows, NEW some, DOMAIN some \subseteq DOMAIN rows,
           \A p \in DOMAIN some : some[p].origin = rows[p].origin \/ some[p].origin = Absent,
           Clones(rows)
    PROVE  Clones(some) /\ (NoClones(rows) => NoClones(some))
  <1>1. ASSUME NEW p \in DOMAIN some, some[p].origin # Absent
        PROVE  /\ some[p].origin \notin DOMAIN some
               /\ \A q \in DOMAIN some : some[q].origin = some[p].origin => q = p
    <2>1. p \in DOMAIN rows /\ some[p].origin = rows[p].origin
      BY <1>1
    <2>2. /\ rows[p].origin \notin DOMAIN rows
          /\ \A q \in DOMAIN rows : rows[q].origin = rows[p].origin => q = p
      BY <1>1, <2>1 DEF Clones, ClonesOne
    <2> QED
      BY <1>1, <2>1, <2>2
  <1>2. NoClones(rows) => NoClones(some)
    BY DEF NoClones
  <1> QED
    BY <1>1, <1>2 DEF Clones, ClonesOne

LEMMA LiveIs ==
    ASSUME NEW s, LinesOK(line, drawnLines)
    PROVE  /\ LiveSource(s).spec = s
           /\ Tree(LiveSource(s).rows) /\ Clones(LiveSource(s).rows)
           /\ DOMAIN LiveSource(s).rows \subseteq LinesOf(s)
           /\ s = Master => NoClones(LiveSource(s).rows)
  <1>1. PICK rows : rows = [p \in LinesOf(s) |-> line[p]]
    OBVIOUS
  <1>2. LiveSource(s).spec = s /\ LiveSource(s).rows = Kept(rows)
    BY <1>1 DEF LiveSource
  <1>3. Tree(rows) /\ Clones(rows) /\ (s = Master => NoClones(rows)) /\ DOMAIN rows = LinesOf(s)
    BY <1>1, LiveRows
  <1>4. /\ Tree(Kept(rows)) /\ DOMAIN Kept(rows) \subseteq DOMAIN rows
        /\ \A p \in DOMAIN Kept(rows) : Kept(rows)[p] = rows[p]
    BY <1>3, KeptIs
  <1>5. Clones(Kept(rows)) /\ (NoClones(rows) => NoClones(Kept(rows)))
    BY <1>3, <1>4, SomeClones
  <1> QED
    BY <1>2, <1>3, <1>4, <1>5

LEMMA FrozenIs ==
    ASSUME FrozenOK(line, frozen), frozen # Absent, LinesOK(line, drawnLines)
    PROVE  /\ FrozenSource.spec = Copy
           /\ Tree(FrozenSource.rows) /\ Clones(FrozenSource.rows)
           /\ DOMAIN FrozenSource.rows \subseteq LinesOf(Copy)
  <1>1. PICK rows : rows = Kept(frozen.rows)
    OBVIOUS
  <1>2. PICK source : source = FrozenSource.rows
    OBVIOUS
  <1> DEFINE place(p) == Cardinality({q \in Siblings(rows, p) : Stands(rows, q, p)})
  <1>3. /\ FrozenSource.spec = Copy
        /\ source = [p \in DOMAIN rows |->
                       [rows[p] EXCEPT !.position = place(p),
                                       !.origin = IF frozen.embedded THEN @ ELSE Absent]]
    BY <1>1, <1>2 DEF FrozenSource
  <1>4. /\ Tree(frozen.rows) /\ Clones(frozen.rows) /\ frozen.embedded \in BOOLEAN
        /\ \A p \in DOMAIN frozen.rows : line[p] # Absent /\ line[p].spec = Copy
    BY DEF FrozenOK
  <1>5. /\ Tree(rows) /\ DOMAIN rows \subseteq DOMAIN frozen.rows
        /\ \A p \in DOMAIN rows : rows[p] = frozen.rows[p]
    BY <1>1, <1>4, KeptIs
  <1>6. Clones(rows)
    BY <1>4, <1>5, SomeClones
  <1>7. \A p \in DOMAIN rows : place(p) \in Nat
    <2> SUFFICES ASSUME NEW p \in DOMAIN rows  PROVE place(p) \in Nat
      OBVIOUS
    <2>1. {q \in Siblings(rows, p) : Stands(rows, q, p)} \in SUBSET DOMAIN rows
      BY DEF Siblings
    <2>2. IsFiniteSet({q \in Siblings(rows, p) : Stands(rows, q, p)})
      BY <1>5, <2>1, StandsOrders
    <2> QED
      BY <2>2, FS_CardinalityType
  <1> HIDE DEF place
  <1>8. ASSUME NEW p \in DOMAIN rows
        PROVE  /\ source[p] \in LineRow /\ source[p].parent = rows[p].parent
               /\ source[p].origin = rows[p].origin \/ source[p].origin = Absent
    <2>1. source[p] = [rows[p] EXCEPT !.position = place(p),
                                      !.origin = IF frozen.embedded THEN rows[p].origin ELSE Absent]
      BY <1>3
    <2>2. rows[p] \in LineRow /\ place(p) \in Int
      BY <1>5, <1>7 DEF Tree
    <2> QED
      BY <1>4, <2>1, <2>2 DEF LineRow
  <1>9. DOMAIN source = DOMAIN rows /\ source = [p \in DOMAIN rows |-> source[p]]
    BY <1>3
  <1>10. Tree(source)
    <2>1. source \in [DOMAIN source -> LineRow] /\ DOMAIN source \subseteq Lines
      BY <1>5, <1>8, <1>9 DEF Tree
    <2>2. \A p \in DOMAIN source : Hangs(source, p)
      BY <1>5, <1>8, <1>9 DEF Tree, Hangs
    <2> QED
      BY <2>1, <2>2 DEF Tree
  <1>11. Clones(source)
    BY <1>6, <1>8, <1>9, SomeClones
  <1>12. DOMAIN source \subseteq LinesOf(Copy)
    BY <1>4, <1>5, <1>9 DEF LinesOf, Tree
  <1> QED
    BY <1>2, <1>3, <1>10, <1>11, <1>12

(* Whatever is compared can be.                                              *)
LEMMA PairsAreComparable ==
    ASSUME LinesOK(line, drawnLines), FrozenOK(line, frozen), NEW pair \in Pairs
    PROVE  Comparable(pair)
  <1>1. LinesOf(Master) \cap LinesOf(Copy) = {}
    BY DEF LinesOf, Master, Copy
  <1>2. Master # Copy
    BY DEF Master, Copy
  <1>3. \A i \in 1..2 : i = 1 \/ i = 2
    OBVIOUS
  <1>4. CASE pair = <<LiveSource(Master), LiveSource(Copy)>>
    <2>1. pair[1] = LiveSource(Master) /\ pair[2] = LiveSource(Copy)
      BY <1>4
    <2>2. \A i \in 1..2 : Tree(pair[i].rows) /\ Clones(pair[i].rows)
      BY <1>3, <2>1, LiveIs
    <2>3. DOMAIN pair[1].rows \cap DOMAIN pair[2].rows = {} /\ NoClones(pair[1].rows)
      BY <1>1, <2>1, LiveIs
    <2> QED
      BY <2>2, <2>3 DEF Comparable
  <1>5. CASE \E s \in {Master, Copy} : frozen # Absent /\ pair = <<FrozenSource, LiveSource(s)>>
    <2>1. PICK s \in {Master, Copy} : frozen # Absent /\ pair = <<FrozenSource, LiveSource(s)>>
      BY <1>5
    <2>2. pair[1] = FrozenSource /\ pair[2] = LiveSource(s)
      BY <2>1
    <2>3. \A i \in 1..2 : Tree(pair[i].rows) /\ Clones(pair[i].rows)
      BY <1>3, <2>1, <2>2, LiveIs, FrozenIs
    <2>4. ASSUME ~SameSpec(pair)
          PROVE  DOMAIN pair[1].rows \cap DOMAIN pair[2].rows = {} /\ NoClones(pair[2].rows)
      <3>1. pair[1].spec = Copy /\ pair[2].spec = s
        BY <2>1, <2>2, LiveIs, FrozenIs
      <3>2. s = Master
        BY <2>4, <3>1 DEF SameSpec
      <3> QED
        BY <1>1, <2>1, <2>2, <3>2, LiveIs, FrozenIs
    <2> QED
      BY <2>3, <2>4 DEF Comparable
  <1> QED
    BY <1>4, <1>5 DEF Pairs

-----------------------------------------------------------------------------
(* The writers keep it. *)

(* Rows keep their spec, their parent and their origin, and a new one stands  *)
(* beside an old one.                                                        *)
SameRow(l, m, p) ==
    /\ m[p] # Absent /\ m[p].spec = l[p].spec
    /\ m[p].parent = l[p].parent /\ m[p].origin = l[p].origin
NewRow(l, m, d, e, p) ==
    /\ p = e /\ e = d + 1 /\ m[p].origin = Absent
    /\ \E a \in Lines : l[a] # Absent /\ m[p].spec = l[a].spec /\ m[p].parent = l[a].parent
LEMMA LinesGrow ==
    ASSUME NEW l, NEW m, NEW d, NEW e \in 0..MaxLines, LinesOK(l, d), e = d \/ e = d + 1,
           m \in [Lines -> LineRow \cup {Absent}],
           \A p \in Lines : l[p] # Absent => SameRow(l, m, p),
           \A p \in Lines : l[p] = Absent /\ m[p] # Absent => NewRow(l, m, d, e, p)
    PROVE  LinesOK(m, e)
  <1>1. d \in Nat /\ e \in Nat /\ Lines \subseteq Nat /\ Absent \notin Lines
    BY LinesFinite, LinesAssumption DEF LinesOK
  <1>2. \A p \in Lines : l[p] # Absent => RowOK(l, d, p)
    BY DEF LinesOK
  <1> SUFFICES ASSUME NEW p \in Lines, m[p] # Absent  PROVE RowOK(m, e, p)
    BY DEF LinesOK
  <1>3. CASE l[p] # Absent
    <2>1. RowOK(l, d, p) /\ SameRow(l, m, p)
      BY <1>2, <1>3
    <2>2. p <= e
      BY <1>1, <2>1 DEF RowOK
    <2>3. ASSUME m[p].parent # Absent
          PROVE  /\ m[p].parent \in Lines /\ m[p].parent < p
                 /\ m[m[p].parent] # Absent /\ m[m[p].parent].spec = m[p].spec
      <3>1. /\ l[p].parent \in Lines /\ l[p].parent < p
            /\ l[l[p].parent] # Absent /\ l[l[p].parent].spec = l[p].spec
        BY <2>1, <2>3 DEF RowOK, SameRow
      <3>2. SameRow(l, m, l[p].parent)
        BY <3>1
      <3> QED
        BY <2>1, <3>1, <3>2 DEF SameRow
    <2>4. m[p].spec = Master => m[p].origin = Absent
      BY <2>1 DEF RowOK, SameRow
    <2>5. ASSUME m[p].origin # Absent
          PROVE  /\ m[p].origin \in Lines /\ m[p].origin <= e
                 /\ m[m[p].origin] # Absent => m[m[p].origin].spec = Master
                 /\ \A q \in Lines : m[q] # Absent /\ m[q].origin = m[p].origin => q = p
      <3>1. PICK o : o = l[p].origin /\ o = m[p].origin
        BY <2>1 DEF SameRow
      <3>2. /\ o \in Lines /\ o <= d
            /\ l[o] # Absent => l[o].spec = Master
            /\ \A q \in Lines : l[q] # Absent /\ l[q].origin = o => q = p
        BY <2>1, <2>5, <3>1 DEF RowOK
      <3>3. o <= e
        BY <1>1, <3>2
      <3>4. m[o] # Absent => m[o].spec = Master
        <4>1. CASE l[o] # Absent
          BY <3>2, <4>1 DEF SameRow
        <4>2. CASE l[o] = Absent /\ m[o] # Absent
          <5>1. o = d + 1
            BY <3>2, <4>2 DEF NewRow
          <5> QED
            BY <1>1, <3>2, <5>1
        <4> QED
          BY <4>1, <4>2
      <3>5. ASSUME NEW q \in Lines, m[q] # Absent, m[q].origin = o  PROVE q = p
        <4>1. CASE l[q] # Absent
          BY <3>2, <3>5, <4>1 DEF SameRow
        <4>2. CASE l[q] = Absent
          BY <2>5, <3>1, <3>5, <4>2 DEF NewRow
        <4> QED
          BY <4>1, <4>2
      <3> QED
        BY <3>1, <3>2, <3>3, <3>4, <3>5
    <2> QED
      BY <2>2, <2>3, <2>4, <2>5 DEF RowOK
  <1>4. CASE l[p] = Absent
    <2>1. p = e /\ e = d + 1 /\ m[p].origin = Absent
      BY <1>4 DEF NewRow
    <2>2. PICK a \in Lines : l[a] # Absent /\ m[p].spec = l[a].spec /\ m[p].parent = l[a].parent
      BY <1>4 DEF NewRow
    <2>3. ASSUME m[p].parent # Absent
          PROVE  /\ m[p].parent \in Lines /\ m[p].parent < p
                 /\ m[m[p].parent] # Absent /\ m[m[p].parent].spec = m[p].spec
      <3>1. /\ l[a].parent \in Lines /\ l[a].parent < a /\ a <= d
            /\ l[l[a].parent] # Absent /\ l[l[a].parent].spec = l[a].spec
        BY <1>2, <2>2, <2>3 DEF RowOK
      <3>2. SameRow(l, m, l[a].parent)
        BY <3>1
      <3>3. l[a].parent < p
        <4>1. l[a].parent \in Nat /\ a \in Nat
          BY <1>1, <3>1
        <4> QED
          BY <1>1, <2>1, <3>1, <4>1
      <3> QED
        BY <2>2, <3>1, <3>2, <3>3 DEF SameRow
    <2>4. p <= e
      BY <1>1, <2>1
    <2> QED
      BY <2>1, <2>3, <2>4 DEF RowOK
  <1> QED
    BY <1>3, <1>4

(* And what is frozen stays the copy's.                                      *)
LEMMA FrozenStays ==
    ASSUME NEW l, NEW m, NEW f, FrozenOK(l, f),
           \A p \in Lines : l[p] # Absent /\ l[p].spec = Copy => m[p] # Absent /\ m[p].spec = Copy
    PROVE  FrozenOK(m, f)
  <1> SUFFICES ASSUME f # Absent  PROVE FrozenOK(m, f)
    BY DEF FrozenOK
  <1>1. \A p \in DOMAIN f.rows : p \in Lines
    BY DEF FrozenOK, Tree
  <1> QED
    BY <1>1 DEF FrozenOK

LinesInv == LinesOK(line, drawnLines) /\ FrozenOK(line, frozen)

LEMMA RewordKeeps ==
    ASSUME LinesInv, NEW p \in Lines, NEW t \in Wordings, RewordLine(p, t)
    PROVE  LinesInv'
  <1>1. /\ line[p] # Absent /\ line' = [line EXCEPT ![p].text = t]
        /\ drawnLines' = drawnLines /\ frozen' = frozen
    BY DEF RewordLine, Writes
  <1>2. /\ drawnLines \in 0..MaxLines
        /\ line \in [Lines -> LineRow \cup {Absent}]
    BY DEF LinesInv, LinesOK
  <1>3. PICK m : m = line'
    OBVIOUS
  <1>4. line[p] \in LineRow
    BY <1>1, <1>2
  <1>5. m[p] = [line[p] EXCEPT !.text = t] /\ \A q \in Lines : q # p => m[q] = line[q]
    BY <1>1, <1>2, <1>3
  <1>6. m[p] \in LineRow /\ SameRow(line, m, p)
    <2>1. m[p] \in LineRow /\ m[p].spec = line[p].spec /\ m[p].parent = line[p].parent
             /\ m[p].origin = line[p].origin
      BY <1>4, <1>5 DEF LineRow
    <2> QED
      BY <2>1, AbsentAssumption DEF SameRow
  <1>7. m \in [Lines -> LineRow \cup {Absent}]
    BY <1>1, <1>2, <1>3, <1>5, <1>6
  <1>8. \A q \in Lines : line[q] # Absent => SameRow(line, m, q)
    BY <1>5, <1>6 DEF SameRow
  <1>9. \A q \in Lines : ~(line[q] = Absent /\ m[q] # Absent)
    BY <1>1, <1>5
  <1>10. LinesOK(m, drawnLines)
    BY <1>2, <1>7, <1>8, <1>9, LinesGrow DEF LinesInv
  <1>11. FrozenOK(m, frozen)
    BY <1>8, FrozenStays DEF LinesInv, SameRow
  <1> QED
    BY <1>1, <1>3, <1>10, <1>11 DEF LinesInv

LEMMA RemoveKeeps ==
    ASSUME LinesInv, NEW p \in Lines, NEW removed \in BOOLEAN, RemoveLine(p, removed)
    PROVE  LinesInv'
  <1>1. /\ line[p] # Absent /\ line' = [line EXCEPT ![p].vanish = removed]
        /\ drawnLines' = drawnLines /\ frozen' = frozen
    BY DEF RemoveLine, Writes
  <1>2. /\ drawnLines \in 0..MaxLines
        /\ line \in [Lines -> LineRow \cup {Absent}]
    BY DEF LinesInv, LinesOK
  <1>3. PICK m : m = line'
    OBVIOUS
  <1>4. line[p] \in LineRow
    BY <1>1, <1>2
  <1>5. m[p] = [line[p] EXCEPT !.vanish = removed] /\ \A q \in Lines : q # p => m[q] = line[q]
    BY <1>1, <1>2, <1>3
  <1>6. m[p] \in LineRow /\ SameRow(line, m, p)
    <2>1. m[p] \in LineRow /\ m[p].spec = line[p].spec /\ m[p].parent = line[p].parent
             /\ m[p].origin = line[p].origin
      BY <1>4, <1>5 DEF LineRow
    <2> QED
      BY <2>1, AbsentAssumption DEF SameRow
  <1>7. m \in [Lines -> LineRow \cup {Absent}]
    BY <1>1, <1>2, <1>3, <1>5, <1>6
  <1>8. \A q \in Lines : line[q] # Absent => SameRow(line, m, q)
    BY <1>5, <1>6 DEF SameRow
  <1>9. \A q \in Lines : ~(line[q] = Absent /\ m[q] # Absent)
    BY <1>1, <1>5
  <1>10. LinesOK(m, drawnLines)
    BY <1>2, <1>7, <1>8, <1>9, LinesGrow DEF LinesInv
  <1>11. FrozenOK(m, frozen)
    BY <1>8, FrozenStays DEF LinesInv, SameRow
  <1> QED
    BY <1>1, <1>3, <1>10, <1>11 DEF LinesInv

LEMMA AddKeeps ==
    ASSUME LinesInv, NEW a \in Lines, NEW type \in {"pr", "continuation"}, AddLine(a, type)
    PROVE  LinesInv'
  <1>1. /\ line[a] # Absent /\ drawnLines < MaxLines /\ drawnLines' = drawnLines + 1
        /\ frozen' = frozen
    BY DEF AddLine, Writes
  <1>2. /\ drawnLines \in 0..MaxLines
        /\ line \in [Lines -> LineRow \cup {Absent}]
        /\ \A p \in Lines : line[p] # Absent => RowOK(line, drawnLines, p)
    BY DEF LinesInv, LinesOK
  <1>3. PICK m : m = line'
    OBVIOUS
  <1>4. PICK e : e = drawnLines'
    OBVIOUS
  <1>5. line[a] \in LineRow /\ type \in LineTypes
    BY <1>1, <1>2 DEF LineTypes
  <1>6. e = drawnLines + 1 /\ e \in Lines /\ e \in 0..MaxLines /\ drawnLines \in Nat
    BY <1>1, <1>2, <1>4, LinesAssumption DEF Lines
  <1>7. m = [p \in Lines |->
               IF p = e
               THEN [line[a] EXCEPT !.position = @ + 1, !.type = type,
                                    !.vanish = FALSE, !.origin = Absent]
               ELSE IF /\ line[p] # Absent /\ line[p].spec = line[a].spec
                       /\ line[p].parent = line[a].parent
                       /\ line[p].position > line[a].position
                    THEN [line[p] EXCEPT !.position = @ + 1] ELSE line[p]]
    BY <1>3, <1>4 DEF AddLine
  <1>8. line[e] = Absent
    <2>1. line[e] # Absent => e <= drawnLines
      BY <1>2, <1>6 DEF RowOK
    <2> QED
      BY <1>6, <2>1
  <1>9. m[e] \in LineRow /\ m[e].origin = Absent /\ m[e].spec = line[a].spec /\ m[e].parent = line[a].parent
    <2>1. m[e] = [line[a] EXCEPT !.position = @ + 1, !.type = type, !.vanish = FALSE, !.origin = Absent]
      BY <1>6, <1>7, Zenon
    <2>2. m[e] = [spec |-> line[a].spec, parent |-> line[a].parent,
                  position |-> line[a].position + 1, type |-> type, text |-> line[a].text,
                  vanish |-> FALSE, origin |-> Absent]
      BY <1>5, <2>1 DEF LineRow
    <2>3. /\ line[a].spec \in {Master, Copy} /\ line[a].parent \in Lines \cup {Absent}
          /\ line[a].position + 1 \in Int /\ line[a].text \in Wordings
      BY <1>5 DEF LineRow
    <2> QED
      BY <1>5, <2>2, <2>3 DEF LineRow
  <1>10. ASSUME NEW p \in Lines, p # e
         PROVE  /\ line[p] = Absent => m[p] = Absent
                /\ line[p] # Absent => m[p] \in LineRow /\ SameRow(line, m, p)
    <2>1. \/ m[p] = line[p]
          \/ line[p] # Absent /\ m[p] = [line[p] EXCEPT !.position = @ + 1]
      BY <1>7, <1>10, Zenon
    <2>2. CASE m[p] = line[p]
      BY <1>2, <2>2 DEF SameRow
    <2>3. CASE line[p] # Absent /\ m[p] = [line[p] EXCEPT !.position = @ + 1]
      <3>1. line[p] \in LineRow
        BY <1>2, <2>3
      <3>2. /\ m[p] \in LineRow /\ m[p].spec = line[p].spec /\ m[p].parent = line[p].parent
            /\ m[p].origin = line[p].origin
        BY <2>3, <3>1 DEF LineRow
      <3> QED
        BY <2>3, <3>2, AbsentAssumption DEF SameRow
    <2> QED
      BY <2>1, <2>2, <2>3
  <1>11. m \in [Lines -> LineRow \cup {Absent}]
    <2>1. \A p \in Lines : m[p] \in LineRow \cup {Absent}
      BY <1>9, <1>10
    <2>2. m = [p \in Lines |-> m[p]]
      BY <1>7, Zenon
    <2> QED
      BY <2>1, <2>2
  <1>12. \A p \in Lines : line[p] # Absent => SameRow(line, m, p)
    BY <1>8, <1>10
  <1>13. \A p \in Lines : line[p] = Absent /\ m[p] # Absent => NewRow(line, m, drawnLines, e, p)
    BY <1>1, <1>6, <1>9, <1>10 DEF NewRow
  <1>14. LinesOK(m, e)
    BY <1>6, <1>11, <1>12, <1>13, LinesGrow DEF LinesInv
  <1>15. FrozenOK(m, frozen)
    BY <1>12, FrozenStays DEF LinesInv, SameRow
  <1> QED
    BY <1>1, <1>3, <1>4, <1>14, <1>15 DEF LinesInv

(* An import is a tree of its own.                                           *)
LEMMA ImportedIs ==
    ASSUME NEW s \in {Master, Copy}, NEW o \in Outlines, NEW first \in Nat \ {0},
           first + Len(o) - 1 <= MaxLines, NEW origins \in BOOLEAN,
           NEW new, new = Imported(s, o, first, origins)
    PROVE  /\ Len(o) \in Nat /\ 2 * Len(o) <= MaxLines
           /\ DOMAIN new = first..(first + Len(o) - 1) /\ DOMAIN new \subseteq Lines
           /\ \A p \in DOMAIN new :
                 /\ new[p] \in LineRow /\ new[p].spec = s
                 /\ new[p].origin = IF origins THEN p - first + 1 ELSE Absent
                 /\ new[p].parent # Absent => new[p].parent \in DOMAIN new /\ new[p].parent < p
  <1>1. /\ o \in Seq(OutlineRow) /\ Len(o) \in Nat /\ 2 * Len(o) <= MaxLines
        /\ \A i \in 1..Len(o) : o[i] \in OutlineRow /\ o[i].parent < i
    BY OutlinesAssumption
  <1>2. DOMAIN new = first..(first + Len(o) - 1)
    BY DEF Imported
  <1>3. DOMAIN new \subseteq Lines
    BY <1>1, <1>2, LinesAssumption DEF Lines
  <1>4. ASSUME NEW p \in DOMAIN new
        PROVE  /\ new[p] \in LineRow /\ new[p].spec = s
               /\ new[p].origin = IF origins THEN p - first + 1 ELSE Absent
               /\ new[p].parent # Absent => new[p].parent \in DOMAIN new /\ new[p].parent < p
    <2>1. PICK i : i = p - first + 1
      OBVIOUS
    <2>2. p \in Nat /\ i \in 1..Len(o) /\ i \in Lines
      BY <1>1, <1>2, <2>1, LinesAssumption DEF Lines
    <2>3. PICK n : n = o[i]
      OBVIOUS
    <2>4. PICK up : up = IF n.parent = 0 THEN Absent ELSE first + n.parent - 1
      OBVIOUS
    <2>5. new[p] = [spec |-> s, parent |-> up,
                    position |-> n.position, type |-> n.type, text |-> n.text, vanish |-> n.vanish,
                    origin |-> IF origins THEN i ELSE Absent]
      BY <1>2, <2>1, <2>3, <2>4 DEF Imported
    <2>6. /\ n.parent \in Nat /\ n.parent < i /\ n.position \in Int /\ n.type \in LineTypes
          /\ n.text \in Wordings /\ n.vanish \in BOOLEAN
      BY <1>1, <2>2, <2>3 DEF OutlineRow
    <2>7. up # Absent => up \in DOMAIN new /\ up < p /\ up \in Nat
      <3>1. SUFFICES ASSUME n.parent # 0, up = first + n.parent - 1
                     PROVE  up \in DOMAIN new /\ up < p /\ up \in Nat
        BY <2>4
      <3>2. n.parent \in Nat /\ n.parent < p - first + 1 /\ p <= first + Len(o) - 1 /\ Len(o) \in Nat
        BY <1>1, <1>2, <2>1, <2>2, <2>6
      <3>3. first <= up /\ up <= first + Len(o) - 1 /\ up < p /\ up \in Nat
        BY <2>2, <3>1, <3>2
      <3> QED
        BY <1>2, <3>3
    <2>8. up \in Lines \cup {Absent}
      BY <1>3, <2>7
    <2>9. new[p] \in LineRow
      BY <2>2, <2>5, <2>6, <2>8 DEF LineRow
    <2> QED
      BY <2>1, <2>5, <2>7, <2>9
  <1> QED
    BY <1>1, <1>2, <1>3, <1>4

LEMMA ReimportKeeps ==
    ASSUME LinesInv, NEW outline \in Outlines, ReimportMaster(outline)
    PROVE  LinesInv'
  <1>1. PICK n, e, m, new : /\ n = Len(outline) /\ e = drawnLines + n /\ m = line'
                            /\ new = Imported(Master, outline, drawnLines + 1, FALSE)
    OBVIOUS
  <1>2. /\ e <= MaxLines /\ drawnLines' = e /\ frozen' = frozen
        /\ m = [p \in Lines |->
                  IF p \in DOMAIN new THEN new[p]
                  ELSE IF line[p] = Absent \/ line[p].spec = Master THEN Absent
                  ELSE [line[p] EXCEPT !.origin = Absent]]
    BY <1>1 DEF ReimportMaster, Writes
  <1>3. /\ drawnLines \in Nat
        /\ line \in [Lines -> LineRow \cup {Absent}]
        /\ \A p \in Lines : line[p] # Absent => RowOK(line, drawnLines, p)
    BY LinesAssumption DEF LinesInv, LinesOK
  <1>4. n \in Nat
    BY <1>1, OutlinesAssumption
  <1>5. /\ DOMAIN new = (drawnLines + 1)..e /\ DOMAIN new \subseteq Lines
        /\ \A p \in DOMAIN new :
              /\ new[p] \in LineRow /\ new[p].spec = Master /\ new[p].origin = Absent
              /\ new[p].parent # Absent => new[p].parent \in DOMAIN new /\ new[p].parent < p
    <2>1. /\ drawnLines + 1 \in Nat \ {0} /\ (drawnLines + 1) + n - 1 = e
          /\ Master \in {Master, Copy} /\ FALSE \in BOOLEAN
      BY <1>1, <1>3, <1>4
    <2>2. (drawnLines + 1) + Len(outline) - 1 <= MaxLines
      BY <1>1, <1>2, <2>1
    <2>3. /\ DOMAIN new = (drawnLines + 1)..((drawnLines + 1) + Len(outline) - 1)
          /\ DOMAIN new \subseteq Lines
          /\ \A p \in DOMAIN new :
                /\ new[p] \in LineRow /\ new[p].spec = Master
                /\ new[p].origin = IF FALSE THEN p - (drawnLines + 1) + 1 ELSE Absent
                /\ new[p].parent # Absent => new[p].parent \in DOMAIN new /\ new[p].parent < p
      <3>1. PICK flag \in BOOLEAN : flag = FALSE
        OBVIOUS
      <3>2. new = Imported(Master, outline, drawnLines + 1, flag)
        BY <1>1, <3>1, Zenon
      <3> QED
        BY <2>1, <2>2, <3>1, <3>2, ImportedIs
    <2> QED
      BY <1>1, <2>1, <2>3
  <1>6. \A p \in Lines : line[p] # Absent => p \notin DOMAIN new
    <2> SUFFICES ASSUME NEW p \in Lines, line[p] # Absent  PROVE p \notin DOMAIN new
      OBVIOUS
    <2>1. p <= drawnLines /\ p \in Nat
      BY <1>3, LinesFinite DEF RowOK
    <2> QED
      BY <1>3, <1>5, <2>1
  <1>7. \A p \in DOMAIN new : m[p] = new[p]
    BY <1>2, <1>5
  <1>8. ASSUME NEW p \in Lines, p \notin DOMAIN new, m[p] # Absent
        PROVE  /\ line[p] # Absent /\ line[p].spec = Copy
               /\ m[p] \in LineRow /\ m[p].spec = Copy /\ m[p].parent = line[p].parent
               /\ m[p].origin = Absent
    <2>1. line[p] # Absent /\ line[p].spec # Master /\ m[p] = [line[p] EXCEPT !.origin = Absent]
      BY <1>2, <1>8
    <2>2. line[p] \in LineRow
      BY <1>3, <2>1
    <2> QED
      BY <2>1, <2>2 DEF LineRow
  <1>9. ASSUME NEW p \in Lines, line[p] # Absent, line[p].spec = Copy
        PROVE  m[p] # Absent /\ m[p].spec = Copy
    <2>1. p \notin DOMAIN new /\ line[p].spec # Master
      BY <1>6, <1>9 DEF Master, Copy
    <2>2. m[p] = [line[p] EXCEPT !.origin = Absent]
      BY <1>2, <1>9, <2>1
    <2>3. line[p] \in LineRow
      BY <1>3, <1>9
    <2>4. m[p] \in LineRow /\ m[p].spec = Copy
      BY <1>9, <2>2, <2>3 DEF LineRow
    <2> QED
      BY <2>4, AbsentAssumption
  <1>10. ASSUME NEW p \in Lines, m[p] # Absent  PROVE RowOK(m, e, p)
    <2>1. CASE p \in DOMAIN new
      <3>1. /\ m[p].spec = Master /\ m[p].origin = Absent
            /\ m[p].parent # Absent => m[p].parent \in DOMAIN new /\ m[p].parent < p
        BY <1>5, <1>7, <2>1
      <3>2. p <= e
        BY <1>3, <1>4, <1>5, <2>1
      <3>3. \A q \in DOMAIN new : m[q] # Absent /\ m[q].spec = Master /\ q \in Lines
        BY <1>5, <1>7, AbsentAssumption
      <3> QED
        BY <3>1, <3>2, <3>3 DEF RowOK
    <2>2. CASE p \notin DOMAIN new
      <3>1. /\ line[p] # Absent /\ line[p].spec = Copy
            /\ m[p].spec = Copy /\ m[p].parent = line[p].parent /\ m[p].origin = Absent
        BY <1>8, <1>10, <2>2
      <3>2. RowOK(line, drawnLines, p)
        BY <1>3, <3>1
      <3>3. p <= e
        <4>1. p <= drawnLines /\ p \in Nat
          BY <3>2, LinesFinite DEF RowOK
        <4> QED
          BY <1>1, <1>3, <1>4, <4>1
      <3>4. ASSUME m[p].parent # Absent
            PROVE  /\ m[p].parent \in Lines /\ m[p].parent < p
                   /\ m[m[p].parent] # Absent /\ m[m[p].parent].spec = m[p].spec
        <4>1. /\ line[p].parent \in Lines /\ line[p].parent < p
              /\ line[line[p].parent] # Absent /\ line[line[p].parent].spec = Copy
          BY <3>1, <3>2, <3>4 DEF RowOK
        <4> QED
          BY <1>9, <3>1, <4>1
      <3> QED
        BY <3>1, <3>3, <3>4 DEF RowOK
    <2> QED
      BY <2>1, <2>2
  <1>11. m \in [Lines -> LineRow \cup {Absent}]
    <2>1. \A p \in Lines : m[p] \in LineRow \cup {Absent}
      BY <1>5, <1>7, <1>8
    <2>2. m = [p \in Lines |-> m[p]]
      BY <1>2, Zenon
    <2> QED
      BY <2>1, <2>2
  <1>12. e \in 0..MaxLines
    BY <1>1, <1>2, <1>3, <1>4, LinesAssumption
  <1>13. LinesOK(m, e)
    BY <1>10, <1>11, <1>12 DEF LinesOK
  <1>14. FrozenOK(m, frozen)
    BY <1>9, FrozenStays DEF LinesInv
  <1> QED
    BY <1>1, <1>2, <1>13, <1>14 DEF LinesInv

LEMMA FreezeKeeps ==
    ASSUME LinesInv, NEW embedded \in BOOLEAN, FreezeCopy(embedded)
    PROVE  LinesInv'
  <1>1. PICK f, rows : f = frozen' /\ rows = [p \in LinesOf(Copy) |-> line[p]]
    OBVIOUS
  <1>2. f = [rows |-> rows, embedded |-> embedded] /\ line' = line /\ drawnLines' = drawnLines
    BY <1>1 DEF FreezeCopy
  <1>3. f.rows = rows /\ f.embedded \in BOOLEAN
    BY <1>2
  <1>4. Tree(rows) /\ Clones(rows)
    BY <1>1, LiveRows DEF LinesInv
  <1>5. \A p \in DOMAIN rows : line[p] # Absent /\ line[p].spec = Copy
    BY <1>1 DEF LinesOf
  <1>6. FrozenOK(line, f)
    BY <1>3, <1>4, <1>5 DEF FrozenOK
  <1> QED
    BY <1>1, <1>2, <1>6 DEF LinesInv

(* The start: a master, and behind it its copy.                              *)
Begun(outline) ==
    LET n == Len(outline)
        master == Imported(Master, outline, 1, FALSE)
        copy == Imported(Copy, outline, n + 1, TRUE)
    IN line = [p \in Lines |-> IF p \in DOMAIN master THEN master[p]
                               ELSE IF p \in DOMAIN copy THEN copy[p] ELSE Absent]
Begins(outline, n, master, copy) ==
    /\ n = Len(outline) /\ master = Imported(Master, outline, 1, FALSE)
    /\ copy = Imported(Copy, outline, n + 1, TRUE)
LEMMA BegunIs ==
    ASSUME NEW outline \in Outlines, Begun(outline), NEW n, NEW master, NEW copy,
           Begins(outline, n, master, copy)
    PROVE  /\ n \in Nat /\ 2 * n <= MaxLines /\ MaxLines \in Nat
           /\ DOMAIN master = 1..n /\ DOMAIN master \subseteq Lines
           /\ \A p \in DOMAIN master :
                 /\ master[p] \in LineRow /\ master[p].spec = Master /\ master[p].origin = Absent
                 /\ master[p].parent # Absent =>
                       master[p].parent \in DOMAIN master /\ master[p].parent < p
           /\ DOMAIN copy = (n + 1)..(2 * n) /\ DOMAIN copy \subseteq Lines
           /\ \A p \in DOMAIN copy :
                 /\ copy[p] \in LineRow /\ copy[p].spec = Copy /\ copy[p].origin = p - n
                 /\ copy[p].parent # Absent => copy[p].parent \in DOMAIN copy /\ copy[p].parent < p
           /\ \A p \in DOMAIN master : line[p] = master[p]
           /\ \A p \in DOMAIN copy : line[p] = copy[p]
           /\ \A p \in Lines : line[p] # Absent => p \in DOMAIN master \/ p \in DOMAIN copy
           /\ line \in [Lines -> LineRow \cup {Absent}]
  <1>1. /\ n = Len(outline) /\ master = Imported(Master, outline, 1, FALSE)
        /\ copy = Imported(Copy, outline, n + 1, TRUE)
    BY DEF Begins
  <1>2. line = [p \in Lines |-> IF p \in DOMAIN master THEN master[p]
                                ELSE IF p \in DOMAIN copy THEN copy[p] ELSE Absent]
    BY <1>1 DEF Begun
  <1>3. n \in Nat /\ 2 * n <= MaxLines /\ MaxLines \in Nat
    BY <1>1, OutlinesAssumption, LinesAssumption
  <1>4. /\ DOMAIN master = 1..n /\ DOMAIN master \subseteq Lines
        /\ \A p \in DOMAIN master :
              /\ master[p] \in LineRow /\ master[p].spec = Master /\ master[p].origin = Absent
              /\ master[p].parent # Absent => master[p].parent \in DOMAIN master /\ master[p].parent < p
    <2>1. 1 \in Nat \ {0} /\ 1 + n - 1 = n /\ 1 + n - 1 <= MaxLines
             /\ Master \in {Master, Copy} /\ FALSE \in BOOLEAN
      BY <1>3
    <2>2. /\ DOMAIN master = 1..(1 + Len(outline) - 1) /\ DOMAIN master \subseteq Lines
          /\ \A p \in DOMAIN master :
                /\ master[p] \in LineRow /\ master[p].spec = Master
                /\ master[p].origin = IF FALSE THEN p - 1 + 1 ELSE Absent
                /\ master[p].parent # Absent => master[p].parent \in DOMAIN master /\ master[p].parent < p
      <3>1. PICK flag \in BOOLEAN : flag = FALSE
        OBVIOUS
      <3>2. master = Imported(Master, outline, 1, flag)
        BY <1>1, <3>1, Zenon
      <3>3. 1 + Len(outline) - 1 <= MaxLines
        BY <1>1, <2>1
      <3> QED
        BY <2>1, <3>1, <3>2, <3>3, ImportedIs
    <2> QED
      BY <1>1, <2>1, <2>2
  <1>5. /\ DOMAIN copy = (n + 1)..(2 * n) /\ DOMAIN copy \subseteq Lines
        /\ \A p \in DOMAIN copy :
              /\ copy[p] \in LineRow /\ copy[p].spec = Copy /\ copy[p].origin = p - n
              /\ copy[p].parent # Absent => copy[p].parent \in DOMAIN copy /\ copy[p].parent < p
    <2>1. n + 1 \in Nat \ {0} /\ (n + 1) + n - 1 = 2 * n /\ (n + 1) + n - 1 <= MaxLines
             /\ Copy \in {Master, Copy} /\ TRUE \in BOOLEAN
      BY <1>3
    <2>2. /\ DOMAIN copy = (n + 1)..((n + 1) + Len(outline) - 1) /\ DOMAIN copy \subseteq Lines
          /\ \A p \in DOMAIN copy :
                /\ copy[p] \in LineRow /\ copy[p].spec = Copy
                /\ copy[p].origin = p - (n + 1) + 1
                /\ copy[p].parent # Absent => copy[p].parent \in DOMAIN copy /\ copy[p].parent < p
      <3>1. PICK flag \in BOOLEAN : flag = TRUE
        OBVIOUS
      <3>2. copy = Imported(Copy, outline, n + 1, flag)
        BY <1>1, <3>1, Zenon
      <3>3. (n + 1) + Len(outline) - 1 <= MaxLines
        BY <1>1, <2>1
      <3>4. /\ DOMAIN copy = (n + 1)..((n + 1) + Len(outline) - 1) /\ DOMAIN copy \subseteq Lines
            /\ \A p \in DOMAIN copy :
                  /\ copy[p] \in LineRow /\ copy[p].spec = Copy
                  /\ copy[p].origin = IF flag THEN p - (n + 1) + 1 ELSE Absent
                  /\ copy[p].parent # Absent => copy[p].parent \in DOMAIN copy /\ copy[p].parent < p
        BY <2>1, <3>2, <3>3, ImportedIs
      <3> QED
        BY <3>1, <3>4, Zenon
    <2>3. DOMAIN copy = (n + 1)..(2 * n)
      BY <1>1, <2>1, <2>2
    <2>4. \A p \in DOMAIN copy : p - (n + 1) + 1 = p - n
      BY <1>3, <2>3
    <2> QED
      BY <2>2, <2>3, <2>4
  <1>6. DOMAIN master \cap DOMAIN copy = {}
    BY <1>3, <1>4, <1>5
  <1>7. /\ \A p \in DOMAIN master : line[p] = master[p]
        /\ \A p \in DOMAIN copy : line[p] = copy[p]
        /\ \A p \in Lines : line[p] # Absent => p \in DOMAIN master \/ p \in DOMAIN copy
    BY <1>2, <1>4, <1>5, <1>6
  <1>8. line \in [Lines -> LineRow \cup {Absent}]
    BY <1>2, <1>4, <1>5
  <1> QED
    BY <1>3, <1>4, <1>5, <1>7, <1>8

LEMMA StartLines ==
    ASSUME NEW outline \in Outlines, StartsFrom(outline)
    PROVE  LinesInv
  <1>1. PICK n, master, copy : Begins(outline, n, master, copy)
    BY DEF Begins
  <1>2. Begun(outline) /\ drawnLines = 2 * n /\ frozen = Absent
    BY <1>1 DEF StartsFrom, Begun, Begins
  <1>3. /\ n \in Nat /\ 2 * n <= MaxLines /\ MaxLines \in Nat
        /\ line \in [Lines -> LineRow \cup {Absent}]
    BY <1>1, <1>2, BegunIs
  <1>4. /\ DOMAIN master = 1..n /\ DOMAIN master \subseteq Lines
        /\ \A p \in DOMAIN master :
              /\ master[p] \in LineRow /\ master[p].spec = Master /\ master[p].origin = Absent
              /\ master[p].parent # Absent => master[p].parent \in DOMAIN master /\ master[p].parent < p
    BY <1>1, <1>2, BegunIs
  <1>5. /\ DOMAIN copy = (n + 1)..(2 * n) /\ DOMAIN copy \subseteq Lines
        /\ \A p \in DOMAIN copy :
              /\ copy[p] \in LineRow /\ copy[p].spec = Copy /\ copy[p].origin = p - n
              /\ copy[p].parent # Absent => copy[p].parent \in DOMAIN copy /\ copy[p].parent < p
    BY <1>1, <1>2, BegunIs
  <1>7. /\ \A p \in DOMAIN master : line[p] = master[p]
        /\ \A p \in DOMAIN copy : line[p] = copy[p]
        /\ \A p \in Lines : line[p] # Absent => p \in DOMAIN master \/ p \in DOMAIN copy
    BY <1>1, <1>2, BegunIs
  <1>8. ASSUME NEW p \in DOMAIN master  PROVE RowOK(line, drawnLines, p)
    <2>1. /\ line[p].spec = Master /\ line[p].origin = Absent
          /\ line[p].parent # Absent => line[p].parent \in DOMAIN master /\ line[p].parent < p
      BY <1>4, <1>7
    <2>2. p <= drawnLines
      BY <1>2, <1>3, <1>4
    <2>3. \A q \in DOMAIN master : line[q] # Absent /\ line[q].spec = Master /\ q \in Lines
      BY <1>4, <1>7, AbsentAssumption
    <2> QED
      BY <2>1, <2>2, <2>3 DEF RowOK
  <1>9. ASSUME NEW p \in DOMAIN copy  PROVE RowOK(line, drawnLines, p)
    <2>1. /\ line[p].spec = Copy /\ line[p].origin = p - n
          /\ line[p].parent # Absent => line[p].parent \in DOMAIN copy /\ line[p].parent < p
      BY <1>5, <1>7
    <2>2. p <= drawnLines
      BY <1>2, <1>3, <1>5
    <2>3. \A q \in DOMAIN copy : line[q] # Absent /\ line[q].spec = Copy /\ q \in Lines
      BY <1>5, <1>7, AbsentAssumption
    <2>4. p - n \in DOMAIN master /\ p - n <= drawnLines
      BY <1>2, <1>3, <1>4, <1>5
    <2>5. p - n \in Lines /\ line[p - n].spec = Master
      BY <1>4, <1>7, <2>4
    <2>6. ASSUME NEW q \in Lines, line[q] # Absent, line[q].origin = p - n  PROVE q = p
      <3>1. q \in DOMAIN copy
        <4>1. q \in DOMAIN master => line[q].origin = Absent
          BY <1>4, <1>7
        <4>2. p - n # Absent
          BY <2>5, LinesFinite
        <4> QED
          BY <1>7, <2>6, <4>1, <4>2
      <3>2. line[q].origin = q - n
        BY <1>5, <1>7, <3>1
      <3> QED
        BY <1>3, <1>5, <2>6, <3>1, <3>2
    <2>7. Copy # Master
      BY DEF Copy, Master
    <2> QED
      BY <2>1, <2>2, <2>3, <2>4, <2>5, <2>6, <2>7 DEF RowOK
  <1>11. drawnLines \in 0..MaxLines
    BY <1>2, <1>3
  <1>12. LinesOK(line, drawnLines)
    BY <1>3, <1>7, <1>8, <1>9, <1>11 DEF LinesOK
  <1> QED
    BY <1>2, <1>12 DEF LinesInv, FrozenOK

LEMMA LinesNext == LinesInv /\ [ComparisonNext]_comparisonVars => LinesInv'
  <1> SUFFICES ASSUME LinesInv, [ComparisonNext]_comparisonVars  PROVE LinesInv'
    OBVIOUS
  <1>1. CASE UNCHANGED <<line, drawnLines, frozen>>
    BY <1>1 DEF LinesInv
  <1>2. CASE \E p \in Lines, t \in Wordings : RewordLine(p, t)
    BY <1>2, RewordKeeps
  <1>3. CASE \E p \in Lines, removed \in BOOLEAN : RemoveLine(p, removed)
    BY <1>3, RemoveKeeps
  <1>4. CASE \E p \in Lines, type \in {"pr", "continuation"} : AddLine(p, type)
    BY <1>4, AddKeeps
  <1>5. CASE \E outline \in Outlines : ReimportMaster(outline)
    BY <1>5, ReimportKeeps
  <1>6. CASE \E embedded \in BOOLEAN : FreezeCopy(embedded)
    BY <1>6, FreezeKeeps
  <1>7. CASE \E requested \in {"origin", "structure", "auto"} : ReadParagraphs(requested)
    <2>1. UNCHANGED <<line, drawnLines, frozen>>
      BY <1>7 DEF ReadParagraphs
    <2> QED
      BY <1>1, <2>1
  <1>8. CASE ReadDrift
    <2>1. UNCHANGED <<line, drawnLines, frozen>>
      BY <1>8 DEF ReadDrift
    <2> QED
      BY <1>1, <2>1
  <1>9. CASE UNCHANGED comparisonVars
    <2>1. UNCHANGED <<line, drawnLines, frozen>>
      BY <1>9 DEF comparisonVars
    <2> QED
      BY <1>1, <2>1
  <1> QED
    BY <1>2, <1>3, <1>4, <1>5, <1>6, <1>7, <1>8, <1>9 DEF ComparisonNext

-----------------------------------------------------------------------------
(* A copy that nobody has touched. *)

(* The rows of the master stand again in the copy, n numbers further on.     *)
Twin(r1, r2, n, p) ==
    /\ r2[p + n].position = r1[p].position /\ r2[p + n].type = r1[p].type
    /\ r2[p + n].text = r1[p].text /\ r2[p + n].vanish = r1[p].vanish
    /\ r1[p].parent = Absent => r2[p + n].parent = Absent
    /\ r1[p].parent # Absent => r2[p + n].parent = r1[p].parent + n
    /\ r1[p].origin = Absent /\ r2[p + n].origin = p
Twins(r1, r2, n) ==
    /\ n \in Nat /\ Tree(r1) /\ Tree(r2)
    /\ DOMAIN r2 = {p + n : p \in DOMAIN r1}
    /\ \A p \in DOMAIN r1 : Twin(r1, r2, n, p)

LEMMA TwinParents ==
    ASSUME NEW r1, NEW r2, NEW n, Twins(r1, r2, n), NEW p \in DOMAIN r1
    PROVE  /\ p \in Nat /\ n \in Nat /\ p + n \in DOMAIN r2
           /\ r1[p].parent \in DOMAIN r1 <=> r1[p].parent # Absent
           /\ r2[p + n].parent \in DOMAIN r2 <=> r1[p].parent # Absent
           /\ r1[p].parent \in DOMAIN r1 =>
                 r1[p].parent \in Nat /\ r1[p].parent < p /\ r2[p + n].parent = r1[p].parent + n
  <1>1. Tree(r1) /\ Tree(r2) /\ n \in Nat /\ DOMAIN r2 = {q + n : q \in DOMAIN r1} /\ Twin(r1, r2, n, p)
    BY DEF Twins
  <1>2. p \in Nat /\ DOMAIN r1 \subseteq Nat /\ Absent \notin DOMAIN r1 /\ Absent \notin DOMAIN r2
    BY <1>1, LinesFinite DEF Tree
  <1>3. r1[p].parent # Absent => r1[p].parent \in DOMAIN r1 /\ r1[p].parent < p
    BY <1>1 DEF Tree, Hangs
  <1>4. p + n \in DOMAIN r2
    BY <1>1
  <1>5. CASE r1[p].parent = Absent
    BY <1>1, <1>2, <1>4, <1>5 DEF Twin
  <1>6. CASE r1[p].parent # Absent
    <2>1. r2[p + n].parent = r1[p].parent + n
      BY <1>1, <1>6 DEF Twin
    <2>2. r1[p].parent + n \in DOMAIN r2
      BY <1>1, <1>3, <1>6
    <2> QED
      BY <1>1, <1>2, <1>3, <1>4, <1>6, <2>1, <2>2
  <1> QED
    BY <1>5, <1>6

LEMMA TwinsAreKept ==
    ASSUME NEW r1, NEW r2, NEW n, Twins(r1, r2, n)
    PROVE  Twins(Kept(r1), Kept(r2), n)
  <1>1. PICK K1, K2 : K1 = Kept(r1) /\ K2 = Kept(r2)
    OBVIOUS
  <1>2. Tree(r1) /\ Tree(r2) /\ n \in Nat /\ DOMAIN r2 = {q + n : q \in DOMAIN r1}
          /\ \A p \in DOMAIN r1 : Twin(r1, r2, n, p)
    BY DEF Twins
  <1>3. /\ Tree(K1) /\ \A p \in DOMAIN K1 : p \in DOMAIN r1 /\ K1[p] = r1[p]
        /\ \A p \in DOMAIN r1 : p \in DOMAIN K1 <=>
              ~OwnerRemoved(r1[p]) /\ (r1[p].parent \in DOMAIN r1 => r1[p].parent \in DOMAIN K1)
    BY <1>1, <1>2, KeptIs
  <1>4. /\ Tree(K2) /\ \A p \in DOMAIN K2 : p \in DOMAIN r2 /\ K2[p] = r2[p]
        /\ \A p \in DOMAIN r2 : p \in DOMAIN K2 <=>
              ~OwnerRemoved(r2[p]) /\ (r2[p].parent \in DOMAIN r2 => r2[p].parent \in DOMAIN K2)
    BY <1>1, <1>2, KeptIs
  <1> DEFINE Odd == {p \in DOMAIN r1 : ~(p \in DOMAIN K1 <=> p + n \in DOMAIN K2)}
  <1>5. Odd = {}
    <2> SUFFICES ASSUME Odd # {}  PROVE FALSE
      OBVIOUS
    <2>1. Odd \in SUBSET Nat
      BY TwinParents
    <2>2. PICK p \in Odd : \A m \in Odd : p <= m
      <3> HIDE DEF Odd
      <3> QED
        BY <2>1, LeastOf
    <2>3. p \in DOMAIN r1 /\ ~(p \in DOMAIN K1 <=> p + n \in DOMAIN K2) /\ p + n \in DOMAIN r2
      BY <1>2, <2>2
    <2>4. OwnerRemoved(r1[p]) <=> OwnerRemoved(r2[p + n])
      <3>1. r2[p + n].type = r1[p].type /\ r2[p + n].vanish = r1[p].vanish
        BY <1>2, <2>3 DEF Twin
      <3> QED
        BY <3>1 DEF OwnerRemoved
    <2>5. /\ r1[p].parent \in DOMAIN r1 <=> r2[p + n].parent \in DOMAIN r2
          /\ r1[p].parent \in DOMAIN r1 =>
                r1[p].parent \in Nat /\ r1[p].parent < p /\ r2[p + n].parent = r1[p].parent + n
          /\ p \in Nat
      BY <2>3, TwinParents
    <2>6. r1[p].parent \in DOMAIN r1 =>
            (r1[p].parent \in DOMAIN K1 <=> r2[p + n].parent \in DOMAIN K2)
      <3>1. SUFFICES ASSUME r1[p].parent \in DOMAIN r1
                     PROVE  r1[p].parent \in DOMAIN K1 <=> r1[p].parent + n \in DOMAIN K2
        BY <2>5
      <3>2. r1[p].parent \notin Odd
        <4> HIDE DEF Odd
        <4> QED
          BY <2>2, <2>5, <3>1
      <3> QED
        BY <3>1, <3>2
    <2> QED
      BY <1>3, <1>4, <2>3, <2>4, <2>5, <2>6
  <1>6. DOMAIN K2 = {p + n : p \in DOMAIN K1}
    <2>1. ASSUME NEW x \in DOMAIN K2  PROVE \E p \in DOMAIN K1 : x = p + n
      BY <1>2, <1>4, <1>5
    <2>2. ASSUME NEW p \in DOMAIN K1  PROVE p + n \in DOMAIN K2
      BY <1>3, <1>5
    <2> QED
      BY <2>1, <2>2
  <1>7. \A p \in DOMAIN K1 : Twin(K1, K2, n, p)
    <2> SUFFICES ASSUME NEW p \in DOMAIN K1  PROVE Twin(K1, K2, n, p)
      OBVIOUS
    <2>1. p \in DOMAIN r1 /\ p + n \in DOMAIN K2 /\ K1[p] = r1[p] /\ K2[p + n] = r2[p + n]
      BY <1>3, <1>4, <1>6
    <2> QED
      BY <1>2, <2>1 DEF Twin
  <1> QED
    BY <1>1, <1>2, <1>3, <1>4, <1>6, <1>7 DEF Twins

LEMMA TwinOrdinals ==
    ASSUME NEW r1, NEW r2, NEW n, Twins(r1, r2, n), NEW p \in DOMAIN r1
    PROVE  Ordinal(r1, p) = Ordinal(r2, p + n)
  <1> DEFINE A == {q \in Siblings(r1, p) : r1[q].type = r1[p].type /\ Stands(r1, q, p)}
             B == {q \in Siblings(r2, p + n) :
                     r2[q].type = r2[p + n].type /\ Stands(r2, q, p + n)}
             f == [q \in A |-> q + n]
  <1>1. Tree(r1) /\ Tree(r2) /\ n \in Nat /\ DOMAIN r2 = {q + n : q \in DOMAIN r1}
          /\ \A q \in DOMAIN r1 : Twin(r1, r2, n, q)
    BY DEF Twins
  <1>2. p \in Nat /\ DOMAIN r1 \subseteq Nat
    BY <1>1, LinesFinite DEF Tree
  <1>3. ASSUME NEW q \in DOMAIN r1  PROVE q + n \in B <=> q \in A
    <2>1. q \in Nat /\ Twin(r1, r2, n, q) /\ Twin(r1, r2, n, p) /\ q + n \in DOMAIN r2
      BY <1>1, <1>2
    <2>2. r1[q].parent = r1[p].parent <=> r2[q + n].parent = r2[p + n].parent
      <3>1. /\ r1[q].parent \in DOMAIN r1 <=> r1[q].parent # Absent
            /\ r2[q + n].parent \in DOMAIN r2 <=> r1[q].parent # Absent
            /\ r1[q].parent \in DOMAIN r1 => r1[q].parent \in Nat /\ r2[q + n].parent = r1[q].parent + n
        BY TwinParents
      <3>2. /\ r1[p].parent \in DOMAIN r1 <=> r1[p].parent # Absent
            /\ r2[p + n].parent \in DOMAIN r2 <=> r1[p].parent # Absent
            /\ r1[p].parent \in DOMAIN r1 => r1[p].parent \in Nat /\ r2[p + n].parent = r1[p].parent + n
        BY TwinParents
      <3>3. r1[q].parent = Absent => r2[q + n].parent = Absent
        BY <2>1 DEF Twin
      <3>4. r1[p].parent = Absent => r2[p + n].parent = Absent
        BY <2>1 DEF Twin
      <3>5. CASE r1[q].parent # Absent /\ r1[p].parent # Absent
        BY <1>1, <3>1, <3>2, <3>5
      <3>6. CASE r1[q].parent = Absent \/ r1[p].parent = Absent
        BY <3>1, <3>2, <3>3, <3>4, <3>6
      <3> QED
        BY <3>5, <3>6
    <2>3. r1[q].type = r1[p].type <=> r2[q + n].type = r2[p + n].type
      BY <2>1 DEF Twin
    <2>4. q < p <=> q + n < p + n
      BY <1>1, <1>2, <2>1
    <2>5. Stands(r1, q, p) <=> Stands(r2, q + n, p + n)
      BY <2>1, <2>4 DEF Twin, Stands
    <2> QED
      BY <2>1, <2>2, <2>3, <2>5 DEF Siblings
  <1>4. A \in SUBSET DOMAIN r1 /\ B \in SUBSET DOMAIN r2
    BY DEF Siblings
  <1>5. IsFiniteSet(A)
    BY <1>1, <1>4, StandsOrders
  <1> HIDE DEF A, B
  <1>6. f \in Bijection(A, B)
    <2>1. f \in [A -> B]
      BY <1>3, <1>4
    <2>2. \A x, y \in A : f[x] = f[y] => x = y
      <3>1. \A x, y \in A : x \in Nat /\ y \in Nat /\ f[x] = x + n /\ f[y] = y + n
        BY <1>2, <1>4
      <3> QED
        BY <1>1, <3>1
    <2>3. \A b \in B : \E a \in A : f[a] = b
      <3> SUFFICES ASSUME NEW b \in B  PROVE \E a \in A : f[a] = b
        OBVIOUS
      <3>1. PICK q \in DOMAIN r1 : b = q + n
        BY <1>1, <1>4
      <3> QED
        BY <1>3, <3>1
    <2> HIDE DEF f
    <2> QED
      BY <2>1, <2>2, <2>3 DEF Bijection, Injection, Surjection, IsInjective
  <1>7. ExistsBijection(A, B)
    BY <1>6 DEF ExistsBijection
  <1>8. Cardinality(A) = Cardinality(B)
    BY <1>5, <1>7, FS_Bijection
  <1> QED
    BY <1>8 DEF Ordinal, A, B

LEMMA TwinAddresses ==
    ASSUME NEW pair, NEW n, Twins(pair[1].rows, pair[2].rows, n), NEW p \in DOMAIN pair[1].rows
    PROVE  StructuralKeys(pair, 1)[p] = StructuralKeys(pair, 2)[p + n]
  <1>0. \A i \in {1, 2} : Tree(pair[i].rows) =>
          \A q \in DOMAIN pair[i].rows :
            StructuralKeys(pair, i)[q] =
              Append(IF pair[i].rows[q].parent \in DOMAIN pair[i].rows
                     THEN StructuralKeys(pair, i)[pair[i].rows[q].parent] ELSE <<>>,
                     Here(pair[i].rows, q))
    BY AddressIs
  <1>1. PICK r1, r2, a1, a2 : /\ r1 = pair[1].rows /\ r2 = pair[2].rows
                              /\ a1 = StructuralKeys(pair, 1) /\ a2 = StructuralKeys(pair, 2)
    OBVIOUS
  <1>2. Tree(r1) /\ Tree(r2) /\ Twins(r1, r2, n) /\ n \in Nat
    BY <1>1 DEF Twins
  <1>3. \A q \in DOMAIN r1 :
          a1[q] = Append(IF r1[q].parent \in DOMAIN r1 THEN a1[r1[q].parent] ELSE <<>>, Here(r1, q))
    <2>1. Tree(pair[1].rows)
      BY <1>1, <1>2
    <2>2. \A q \in DOMAIN pair[1].rows :
            StructuralKeys(pair, 1)[q] =
              Append(IF pair[1].rows[q].parent \in DOMAIN pair[1].rows
                     THEN StructuralKeys(pair, 1)[pair[1].rows[q].parent] ELSE <<>>,
                     Here(pair[1].rows, q))
      BY <1>0, <2>1, Zenon
    <2> QED
      BY <1>1, <2>2, Zenon
  <1>4. \A q \in DOMAIN r2 :
          a2[q] = Append(IF r2[q].parent \in DOMAIN r2 THEN a2[r2[q].parent] ELSE <<>>, Here(r2, q))
    <2>1. Tree(pair[2].rows)
      BY <1>1, <1>2
    <2>2. \A q \in DOMAIN pair[2].rows :
            StructuralKeys(pair, 2)[q] =
              Append(IF pair[2].rows[q].parent \in DOMAIN pair[2].rows
                     THEN StructuralKeys(pair, 2)[pair[2].rows[q].parent] ELSE <<>>,
                     Here(pair[2].rows, q))
      BY <1>0, <2>1, Zenon
    <2> QED
      BY <1>1, <2>2, Zenon
  <1> DEFINE Odd == {q \in DOMAIN r1 : a1[q] # a2[q + n]}
  <1>5. Odd = {}
    <2> SUFFICES ASSUME Odd # {}  PROVE FALSE
      OBVIOUS
    <2>1. Odd \in SUBSET Nat
      BY <1>2, TwinParents
    <2>2. PICK q \in Odd : \A m \in Odd : q <= m
      <3> HIDE DEF Odd
      <3> QED
        BY <2>1, LeastOf
    <2>3. q \in DOMAIN r1 /\ a1[q] # a2[q + n]
      BY <2>2
    <2>4. /\ q + n \in DOMAIN r2 /\ q \in Nat
          /\ r1[q].parent \in DOMAIN r1 <=> r2[q + n].parent \in DOMAIN r2
          /\ r1[q].parent \in DOMAIN r1 =>
                r1[q].parent \in Nat /\ r1[q].parent < q /\ r2[q + n].parent = r1[q].parent + n
      BY <1>2, <2>3, TwinParents
    <2>5. r1[q].parent \in DOMAIN r1 => a1[r1[q].parent] = a2[r2[q + n].parent]
      <3>1. SUFFICES ASSUME r1[q].parent \in DOMAIN r1
                     PROVE  a1[r1[q].parent] = a2[r1[q].parent + n]
        BY <2>4
      <3>2. r1[q].parent \notin Odd
        <4> HIDE DEF Odd
        <4> QED
          BY <2>2, <2>4, <3>1
      <3> QED
        BY <3>1, <3>2
    <2>6. Here(r1, q) = Here(r2, q + n)
      <3>1. Ordinal(r1, q) = Ordinal(r2, q + n)
        BY <1>2, <2>3, TwinOrdinals
      <3>2. r1[q].type = r2[q + n].type
        BY <1>2, <2>3 DEF Twins, Twin
      <3> QED
        BY <3>1, <3>2 DEF Here
    <2>7. /\ a1[q] = Append(IF r1[q].parent \in DOMAIN r1 THEN a1[r1[q].parent] ELSE <<>>, Here(r1, q))
          /\ a2[q + n] = Append(IF r2[q + n].parent \in DOMAIN r2 THEN a2[r2[q + n].parent] ELSE <<>>,
                                Here(r2, q + n))
      BY <1>3, <1>4, <2>3, <2>4
    <2>8. CASE r1[q].parent \in DOMAIN r1
      BY <2>3, <2>4, <2>5, <2>6, <2>7, <2>8, Zenon
    <2>9. CASE r1[q].parent \notin DOMAIN r1
      BY <2>3, <2>4, <2>6, <2>7, <2>9, Zenon
    <2> QED
      BY <2>8, <2>9
  <1> QED
    BY <1>1, <1>5

(* So whichever way twins are aligned, they do not differ.                   *)
LEMMA TwinsDoNotDiffer ==
    ASSUME NEW pair, NEW n, Twins(pair[1].rows, pair[2].rows, n), Comparable(pair), ~SameSpec(pair),
           NEW requested
    PROVE  Differing(pair, requested) = {}
  <1>1. PICK mode : mode = AlignedBy(pair, requested)
    OBVIOUS
  <1>2. PICK r1, r2, k1, k2 : /\ r1 = pair[1].rows /\ r2 = pair[2].rows
                              /\ k1 = Keys(pair, 1, mode) /\ k2 = Keys(pair, 2, mode)
    OBVIOUS
  <1>3. Twins(r1, r2, n) /\ DOMAIN r2 = {p + n : p \in DOMAIN r1} /\ \A p \in DOMAIN r1 : Twin(r1, r2, n, p)
    BY <1>2 DEF Twins
  <1>4. DOMAIN k1 = DOMAIN r1 /\ DOMAIN k2 = DOMAIN r2
    BY <1>2, KeysAre
  <1>5. Absent \notin DOMAIN r1 /\ Absent \notin DOMAIN r2
    BY <1>3, LinesFinite DEF Twins, Tree
  <1>6. ASSUME NEW p \in DOMAIN r1  PROVE k1[p] = k2[p + n] /\ p + n \in DOMAIN r2
    <2>1. p + n \in DOMAIN r2 /\ r1[p].origin = Absent /\ r2[p + n].origin = p
      BY <1>3 DEF Twin
    <2>2. CASE mode = "origin"
      <3>1. k1[p] = p
        BY <1>2, <2>1, <2>2 DEF Keys, OriginKeys, OriginOrOwn
      <3>2. k2[p + n] = p
        BY <1>2, <1>5, <2>1, <2>2 DEF Keys, OriginKeys, OriginOrOwn
      <3> QED
        BY <2>1, <3>1, <3>2
    <2>3. CASE mode # "origin"
      <3>1. k1 = StructuralKeys(pair, 1) /\ k2 = StructuralKeys(pair, 2)
        BY <1>2, <2>3 DEF Keys
      <3> QED
        BY <1>2, <1>3, <2>1, <3>1, TwinAddresses
    <2> QED
      BY <2>2, <2>3
  <1>7. ASSUME NEW k \in AllKeys(pair, mode)  PROVE IsIdentical(pair, RowOf(pair, mode, k))
    <2>1. PICK p \in DOMAIN r1 : k1[p] = k
      <3>1. CASE \E p \in DOMAIN k1 : k = k1[p]
        BY <1>4, <3>1
      <3>2. CASE \E q \in DOMAIN k2 : k = k2[q]
        BY <1>3, <1>4, <1>6, <3>2
      <3> QED
        BY <1>2, <3>1, <3>2 DEF AllKeys, KeySet
    <2>2. k2[p + n] = k /\ p + n \in DOMAIN r2
      BY <1>6, <2>1
    <2>3. PICK cells : cells = RowOf(pair, mode, k).cells
      OBVIOUS
    <2>4. cells[1] = p /\ cells[2] = p + n
      BY <1>2, <2>1, <2>2, <2>3, RowIs
    <2>5. r1[p].text = r2[p + n].text
      BY <1>3 DEF Twin
    <2>6. cells[1] # Absent /\ cells[2] # Absent
      BY <1>5, <2>2, <2>4
    <2>7. \A i \in 1..2 : i = 1 \/ i = 2
      OBVIOUS
    <2> QED
      BY <1>2, <2>3, <2>4, <2>5, <2>6, <2>7 DEF IsIdentical, TextOf
  <1>8. Matrix(pair, requested) = {RowOf(pair, mode, k) : k \in AllKeys(pair, mode)}
    BY <1>1, MatrixIs
  <1>9. \A row \in Matrix(pair, requested) : IsIdentical(pair, row)
    BY <1>7, <1>8
  <1> QED
    BY <1>9 DEF Differing

(* What the import of an outline says of each paragraph.                     *)
LEMMA ImportedAt ==
    ASSUME NEW s, NEW o, NEW first, NEW origins, NEW new, new = Imported(s, o, first, origins),
           NEW p \in DOMAIN new
    PROVE  /\ new[p].parent = IF o[p - first + 1].parent = 0 THEN Absent
                              ELSE first + o[p - first + 1].parent - 1
           /\ new[p].position = o[p - first + 1].position /\ new[p].type = o[p - first + 1].type
           /\ new[p].text = o[p - first + 1].text /\ new[p].vanish = o[p - first + 1].vanish
  <1>1. PICK n : n = o[p - first + 1]
    OBVIOUS
  <1>2. DOMAIN new = first..(first + Len(o) - 1)
    BY DEF Imported
  <1>3. new[p] = [spec |-> s, parent |-> IF n.parent = 0 THEN Absent ELSE first + n.parent - 1,
                  position |-> n.position, type |-> n.type, text |-> n.text, vanish |-> n.vanish,
                  origin |-> IF origins THEN p - first + 1 ELSE Absent]
    BY <1>1, <1>2, Zenon DEF Imported
  <1> QED
    BY <1>1, <1>3

LEMMA BegunTwins ==
    ASSUME NEW outline \in Outlines, Begun(outline)
    PROVE  Twins([p \in LinesOf(Master) |-> line[p]], [p \in LinesOf(Copy) |-> line[p]], Len(outline))
  <1>1. PICK n, master, copy, r1, r2 :
            /\ Begins(outline, n, master, copy)
            /\ r1 = [p \in LinesOf(Master) |-> line[p]] /\ r2 = [p \in LinesOf(Copy) |-> line[p]]
    BY DEF Begins
  <1>2. n \in Nat
    BY <1>1, BegunIs
  <1>3. /\ DOMAIN master = 1..n /\ DOMAIN master \subseteq Lines
        /\ \A p \in DOMAIN master :
              /\ master[p] \in LineRow /\ master[p].spec = Master /\ master[p].origin = Absent
              /\ master[p].parent # Absent => master[p].parent \in DOMAIN master /\ master[p].parent < p
    BY <1>1, BegunIs
  <1>4. /\ DOMAIN copy = (n + 1)..(2 * n) /\ DOMAIN copy \subseteq Lines
        /\ \A p \in DOMAIN copy :
              /\ copy[p] \in LineRow /\ copy[p].spec = Copy /\ copy[p].origin = p - n
              /\ copy[p].parent # Absent => copy[p].parent \in DOMAIN copy /\ copy[p].parent < p
    BY <1>1, BegunIs
  <1>5. /\ \A p \in DOMAIN master : line[p] = master[p]
        /\ \A p \in DOMAIN copy : line[p] = copy[p]
        /\ \A p \in Lines : line[p] # Absent => p \in DOMAIN master \/ p \in DOMAIN copy
    BY <1>1, BegunIs
  <1>6. Absent \notin LineRow /\ Master # Copy /\ Absent \notin Lines
    BY LinesFinite, AbsentAssumption DEF Master, Copy
  <1>7. LinesOf(Master) = DOMAIN master /\ LinesOf(Copy) = DOMAIN copy
    BY <1>3, <1>4, <1>5, <1>6 DEF LinesOf
  <1>8. r1 = master /\ r2 = copy
    <2>1. master = [p \in DOMAIN master |-> master[p]] /\ copy = [p \in DOMAIN copy |-> copy[p]]
      BY <1>1 DEF Imported, Begins
    <2> QED
      BY <1>1, <1>5, <1>7, <2>1
  <1>9. Tree(master) /\ Tree(copy)
    <2>1. master \in [DOMAIN master -> LineRow] /\ copy \in [DOMAIN copy -> LineRow]
      <3>1. master = [p \in DOMAIN master |-> master[p]] /\ copy = [p \in DOMAIN copy |-> copy[p]]
        BY <1>1 DEF Imported, Begins
      <3> QED
        BY <1>3, <1>4, <3>1
    <2>2. \A p \in DOMAIN master : Hangs(master, p)
      BY <1>3 DEF Hangs
    <2>3. \A p \in DOMAIN copy : Hangs(copy, p)
      BY <1>4 DEF Hangs
    <2> QED
      BY <1>3, <1>4, <2>1, <2>2, <2>3 DEF Tree
  <1>10. DOMAIN copy = {p + n : p \in DOMAIN master}
    <2>1. \A p \in DOMAIN master : p + n \in DOMAIN copy
      BY <1>2, <1>3, <1>4
    <2>2. \A q \in DOMAIN copy : q - n \in DOMAIN master /\ q = (q - n) + n
      BY <1>2, <1>3, <1>4
    <2> QED
      BY <2>1, <2>2
  <1>11. ASSUME NEW p \in DOMAIN master  PROVE Twin(master, copy, n, p)
    <2>1. PICK q : q = p + n
      OBVIOUS
    <2>2. /\ q \in DOMAIN copy /\ p \in Nat /\ p \in 1..n
          /\ p - 1 + 1 = p /\ q - (n + 1) + 1 = p /\ q - n = p
      BY <1>2, <1>3, <1>10, <2>1
    <2>3. PICK u : u = outline[p]
      OBVIOUS
    <2>4. u.parent \in Nat
      <3>1. outline[p] \in OutlineRow
        <4>1. outline \in Seq(OutlineRow) /\ n = Len(outline)
          BY <1>1, OutlinesAssumption DEF Begins
        <4> QED
          BY <2>2, <4>1
      <3> QED
        BY <2>3, <3>1 DEF OutlineRow
    <2>5. /\ master[p].parent = IF u.parent = 0 THEN Absent ELSE 1 + u.parent - 1
          /\ master[p].position = u.position /\ master[p].type = u.type
          /\ master[p].text = u.text /\ master[p].vanish = u.vanish
      <3>1. /\ master[p].parent = IF outline[p - 1 + 1].parent = 0 THEN Absent
                                  ELSE 1 + outline[p - 1 + 1].parent - 1
            /\ master[p].position = outline[p - 1 + 1].position
            /\ master[p].type = outline[p - 1 + 1].type
            /\ master[p].text = outline[p - 1 + 1].text
            /\ master[p].vanish = outline[p - 1 + 1].vanish
        <4>1. PICK flag : flag = FALSE
          OBVIOUS
        <4>2. master = Imported(Master, outline, 1, flag)
          BY <1>1, <4>1, Zenon DEF Begins
        <4> QED
          BY <4>2, ImportedAt
      <3> QED
        BY <2>2, <2>3, <3>1
    <2>6. /\ copy[q].parent = IF u.parent = 0 THEN Absent ELSE (n + 1) + u.parent - 1
          /\ copy[q].position = u.position /\ copy[q].type = u.type
          /\ copy[q].text = u.text /\ copy[q].vanish = u.vanish
      <3>1. /\ copy[q].parent = IF outline[q - (n + 1) + 1].parent = 0 THEN Absent
                                ELSE (n + 1) + outline[q - (n + 1) + 1].parent - 1
            /\ copy[q].position = outline[q - (n + 1) + 1].position
            /\ copy[q].type = outline[q - (n + 1) + 1].type
            /\ copy[q].text = outline[q - (n + 1) + 1].text
            /\ copy[q].vanish = outline[q - (n + 1) + 1].vanish
        <4>1. PICK flag : flag = TRUE
          OBVIOUS
        <4>2. copy = Imported(Copy, outline, n + 1, flag)
          BY <1>1, <4>1, Zenon DEF Begins
        <4> QED
          BY <2>2, <4>2, ImportedAt
      <3> QED
        BY <2>2, <2>3, <3>1
    <2>7. /\ u.parent = 0 => master[p].parent = Absent /\ copy[q].parent = Absent
          /\ u.parent # 0 => master[p].parent = u.parent /\ copy[q].parent = u.parent + n
      BY <1>2, <2>4, <2>5, <2>6
    <2>8. master[p].origin = Absent /\ copy[q].origin = p
      BY <1>3, <1>4, <2>2
    <2>9. /\ master[p].parent = Absent => copy[q].parent = Absent
          /\ master[p].parent # Absent => copy[q].parent = master[p].parent + n
      <3>1. CASE u.parent = 0
        BY <2>7, <3>1
      <3>2. CASE u.parent # 0
        <4>1. master[p].parent # Absent
          <5>1. SUFFICES ASSUME u.parent = Absent  PROVE FALSE
            BY <2>7, <3>2
          <5>2. u.parent \in 1..MaxLines
            <6>1. u.parent < p
              BY <1>1, <2>2, <2>3, OutlinesAssumption DEF Begins
            <6>2. p \in Lines
              BY <1>3
            <6> QED
              BY <2>2, <2>4, <3>2, <6>1, <6>2, LinesAssumption DEF Lines
          <5> QED
            BY <1>6, <5>1, <5>2 DEF Lines
        <4> QED
          BY <2>7, <3>2, <4>1
      <3> QED
        BY <3>1, <3>2
    <2> QED
      BY <2>1, <2>5, <2>6, <2>8, <2>9 DEF Twin
  <1>12. Twins(master, copy, n)
    BY <1>2, <1>9, <1>10, <1>11 DEF Twins
  <1>13. n = Len(outline)
    BY <1>1 DEF Begins
  <1> QED
    BY <1>1, <1>8, <1>12, <1>13

(* A master and a copy that nobody has touched do not differ.                *)
LEMMA UntouchedDoNotDiffer ==
    ASSUME NEW outline \in Outlines, Begun(outline), LinesInv, NEW requested
    PROVE  Differing(<<LiveSource(Master), LiveSource(Copy)>>, requested) = {}
  <1>1. PICK pair : pair = <<LiveSource(Master), LiveSource(Copy)>>
    OBVIOUS
  <1>2. pair \in Pairs
    BY <1>1 DEF Pairs
  <1>3. Comparable(pair)
    BY <1>2, PairsAreComparable DEF LinesInv
  <1>4. pair[1] = LiveSource(Master) /\ pair[2] = LiveSource(Copy)
    BY <1>1
  <1>5. ~SameSpec(pair)
    BY <1>4 DEF SameSpec, LiveSource, Master, Copy
  <1>6. Twins(Kept([p \in LinesOf(Master) |-> line[p]]), Kept([p \in LinesOf(Copy) |-> line[p]]),
              Len(outline))
    BY BegunTwins, TwinsAreKept
  <1>7. /\ pair[1].rows = Kept([p \in LinesOf(Master) |-> line[p]])
        /\ pair[2].rows = Kept([p \in LinesOf(Copy) |-> line[p]])
    BY <1>4 DEF LiveSource
  <1>8. Twins(pair[1].rows, pair[2].rows, Len(outline))
    BY <1>6, <1>7
  <1> QED
    BY <1>1, <1>3, <1>5, <1>8, TwinsDoNotDiffer

-----------------------------------------------------------------------------
(* Reports. *)

(* Until somebody has written, the paragraphs are those of the start; and a   *)
(* report that is under way has found no difference, if nobody has written    *)
(* since.                                                                    *)
Untouched == generation[Master] = 1 /\ generation[Copy] = 1
ReportOK ==
    /\ generation \in [{Master, Copy} -> Nat \ {0}]
    /\ report.phase \in {"new", "aligned", "done"}
    /\ report.phase = "aligned" => report \in [phase : {"aligned"}, differs : BOOLEAN, behind : Int]
    /\ Untouched => \E outline \in Outlines : Begun(outline)
    /\ report.phase = "aligned" /\ Untouched => ~report.differs
    /\ NoDriftNoDifference
Compared == LinesInv /\ ReportOK

LEMMA StartCompared == ComparisonInit => Compared
  <1> SUFFICES ASSUME NEW outline \in Outlines, StartsFrom(outline)  PROVE Compared
    BY DEF ComparisonInit
  <1>1. /\ Begun(outline) /\ generation = [s \in {Master, Copy} |-> 1]
        /\ report = [phase |-> "new"]
    BY DEF StartsFrom, Begun
  <1>2. report.phase = "new" /\ generation \in [{Master, Copy} -> Nat \ {0}]
    BY <1>1
  <1>3. ReportOK
    BY <1>1, <1>2 DEF ReportOK, NoDriftNoDifference
  <1> QED
    BY <1>3, StartLines DEF Compared

(* A write makes its spec newer.                                             *)
LEMMA WriteCounts ==
    ASSUME ReportOK, NEW s \in {Master, Copy}, Writes(s)
    PROVE  ReportOK'
  <1>1. generation' = [generation EXCEPT ![s] = @ + 1] /\ report' = report
    BY DEF Writes
  <1>2. generation \in [{Master, Copy} -> Nat \ {0}]
    BY DEF ReportOK
  <1>3. PICK g : g = generation'
    OBVIOUS
  <1>4. /\ g \in [{Master, Copy} -> Nat \ {0}] /\ g[s] # 1
        /\ \A x \in {Master, Copy} : x # s => g[x] = generation[x]
    BY <1>1, <1>2, <1>3
  <1>5. ~(g[Master] = 1 /\ g[Copy] = 1)
    BY <1>4
  <1>6. g[Copy] = 1 => generation[Copy] = 1
    BY <1>4
  <1>7. NoDriftNoDifference'
    BY <1>1, <1>3, <1>6 DEF ReportOK, NoDriftNoDifference
  <1> QED
    BY <1>1, <1>3, <1>4, <1>5, <1>7 DEF ReportOK, Untouched

LEMMA ReadingParagraphs ==
    ASSUME Compared, NEW requested, ReadParagraphs(requested)
    PROVE  ReportOK'
  <1>1. PICK pair, r : pair = <<LiveSource(Master), LiveSource(Copy)>> /\ r = report'
    OBVIOUS
  <1>2. /\ r = [phase |-> "aligned", differs |-> Differing(pair, requested) # {}, behind |-> 0]
        /\ UNCHANGED <<line, drawnLines, generation, frozen>>
    BY <1>1 DEF ReadParagraphs
  <1>3. /\ r.phase = "aligned" /\ r.differs = (Differing(pair, requested) # {})
        /\ r \in [phase : {"aligned"}, differs : BOOLEAN, behind : Int]
    BY <1>2
  <1>4. Untouched => \E outline \in Outlines : Begun(outline)
    BY DEF Compared, ReportOK
  <1>5. Untouched => ~r.differs
    <2> SUFFICES ASSUME NEW outline \in Outlines, Begun(outline)  PROVE ~r.differs
      BY <1>4
    <2>1. Differing(pair, requested) = {}
      BY <1>1, UntouchedDoNotDiffer DEF Compared
    <2> QED
      BY <1>3, <2>1
  <1>6. Untouched' = Untouched /\ (\A outline \in Outlines : Begun(outline)' = Begun(outline))
    BY <1>2 DEF Untouched, Begun
  <1>7. generation' \in [{Master, Copy} -> Nat \ {0}]
    BY <1>2 DEF Compared, ReportOK
  <1>8. NoDriftNoDifference'
    BY <1>1, <1>3 DEF NoDriftNoDifference
  <1> QED
    BY <1>1, <1>3, <1>4, <1>5, <1>6, <1>7, <1>8 DEF ReportOK

LEMMA ReadingDrift ==
    ASSUME ReportOK, ReadDrift
    PROVE  ReportOK'
  <1>1. PICK r : r = report'
    OBVIOUS
  <1>2. /\ report.phase = "aligned" /\ UNCHANGED <<line, drawnLines, generation, frozen>>
        /\ r = [report EXCEPT !.phase = "done", !.behind = generation[Master] - 1]
    BY <1>1 DEF ReadDrift, Behind
  <1>3. report \in [phase : {"aligned"}, differs : BOOLEAN, behind : Int]
    BY <1>2 DEF ReportOK
  <1>4. r.phase = "done" /\ r.differs = report.differs /\ r.behind = generation[Master] - 1
    BY <1>2, <1>3
  <1>5. generation \in [{Master, Copy} -> Nat \ {0}]
    BY DEF ReportOK
  <1>6. r.behind = 0 /\ generation[Copy] = 1 => ~r.differs
    <2>1. r.behind = 0 => generation[Master] = 1
      BY <1>4, <1>5
    <2> QED
      BY <1>2, <1>4, <2>1 DEF ReportOK, Untouched
  <1>7. NoDriftNoDifference'
    BY <1>1, <1>2, <1>6 DEF NoDriftNoDifference
  <1>8. Untouched' = Untouched /\ (\A outline \in Outlines : Begun(outline)' = Begun(outline))
    BY <1>2 DEF Untouched, Begun
  <1> QED
    BY <1>1, <1>2, <1>4, <1>5, <1>7, <1>8 DEF ReportOK

LEMMA ComparedNext == Compared /\ [ComparisonNext]_comparisonVars => Compared'
  <1> SUFFICES ASSUME Compared, [ComparisonNext]_comparisonVars  PROVE Compared'
    OBVIOUS
  <1>1. LinesInv'
    BY LinesNext DEF Compared
  <1>2. \A p \in Lines : line[p] # Absent => line[p].spec \in {Master, Copy}
    BY DEF Compared, LinesInv, LinesOK, LineRow
  <1>3. ReportOK'
    <2>1. CASE \E p \in Lines, t \in Wordings : RewordLine(p, t)
      BY <1>2, <2>1, WriteCounts DEF RewordLine, Compared
    <2>2. CASE \E p \in Lines, removed \in BOOLEAN : RemoveLine(p, removed)
      BY <1>2, <2>2, WriteCounts DEF RemoveLine, Compared
    <2>3. CASE \E p \in Lines, type \in {"pr", "continuation"} : AddLine(p, type)
      BY <1>2, <2>3, WriteCounts DEF AddLine, Compared
    <2>4. CASE \E outline \in Outlines : ReimportMaster(outline)
      BY <2>4, WriteCounts DEF ReimportMaster, Compared
    <2>5. CASE \E embedded \in BOOLEAN : FreezeCopy(embedded)
      <3>1. UNCHANGED <<line, drawnLines, generation, report>>
        BY <2>5 DEF FreezeCopy
      <3>2. Untouched' = Untouched /\ (\A outline \in Outlines : Begun(outline)' = Begun(outline))
        BY <3>1 DEF Untouched, Begun
      <3> QED
        BY <3>1, <3>2 DEF Compared, ReportOK, NoDriftNoDifference
    <2>6. CASE \E requested \in {"origin", "structure", "auto"} : ReadParagraphs(requested)
      BY <2>6, ReadingParagraphs
    <2>7. CASE ReadDrift
      BY <2>7, ReadingDrift DEF Compared
    <2>8. CASE UNCHANGED comparisonVars
      <3>1. UNCHANGED <<line, drawnLines, generation, report>>
        BY <2>8 DEF comparisonVars
      <3>2. Untouched' = Untouched /\ (\A outline \in Outlines : Begun(outline)' = Begun(outline))
        BY <3>1 DEF Untouched, Begun
      <3> QED
        BY <3>1, <3>2 DEF Compared, ReportOK, NoDriftNoDifference
    <2> QED
      BY <2>1, <2>2, <2>3, <2>4, <2>5, <2>6, <2>7, <2>8 DEF ComparisonNext
  <1> QED
    BY <1>1, <1>3 DEF Compared

LEMMA ComparedIsFaithful == Compared => ComparisonIsFaithful
  <1> SUFFICES ASSUME Compared  PROVE ComparisonIsFaithful
    OBVIOUS
  <1>1. ASSUME NEW pair \in Pairs
        PROVE  /\ \A mode \in {"origin", "structure"} :
                     /\ NothingIsLeftOut(pair, Matrix(pair, mode))
                     /\ mode = "origin" => PairedByLineage(pair, Matrix(pair, mode))
               /\ ShowsWhatChanged(pair)
    <2>1. Comparable(pair)
      BY PairsAreComparable DEF Compared, LinesInv
    <2> QED
      BY <2>1, NoneIsLeftOut, LineageIsPaired, ChangesAreShown
  <1>2. NoDriftNoDifference
    BY DEF Compared, ReportOK
  <1> QED
    BY <1>1, <1>2, Zenon DEF ComparisonIsFaithful

(* ADR-047, ADR-053, ADR-078: whatever writers do, and however two sources    *)
(* are aligned, each paragraph that stands in one has one row of the matrix;  *)
(* by lineage a paragraph stands beside itself or its clone and nothing else; *)
(* between a frozen copy and the copy the differences are what was reworded,  *)
(* added or removed since; and a report that says an unedited copy has not    *)
(* drifted shows no difference, although writers come between its reads.      *)
THEOREM ComparisonsAreFaithful == ComparisonSpec => []ComparisonIsFaithful
  <1>1. ComparisonSpec => []Compared
    BY StartCompared, ComparedNext, PTL DEF ComparisonSpec
  <1> QED
    BY <1>1, ComparedIsFaithful, PTL

=============================================================================
