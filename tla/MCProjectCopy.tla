---------------------------- MODULE MCProjectCopy ----------------------------
(* Small instances, for one run of TLC, of the copies of a project, of the   *)
(* lists that are replaced as a whole and of the general spec of a division. *)
(* They share no state, and a run moves only one of them, so that their      *)
(* states are added up and not multiplied.                                   *)
EXTENDS ProjectCopy, StoredLists, DivisionGeneral, TLC

CONSTANTS A, m1, m2, r1, r2

MCTexts == {A}
MCNoTexts == {}
MCTitles == {"t1"}
MCTwoTitles == {"t1", "t2"}
ProjectSymmetry == Permutations(Copies) \cup Permutations(Requests)

N(type, parent, position, comment) ==
    [type |-> type, parent |-> parent, position |-> position, text |-> A,
     vanish |-> FALSE, comment |-> comment]

(* A paragraph with a comment, and a paragraph below it, for each of two     *)
(* numbers.                                                                  *)
For(nodes) == {[title |-> t, nodes |-> nodes] : t \in {"t1", "t2"}}
Nested == For(<<N("pr", 0, 1, "open"), N("pr", 1, 1, "none")>>)
Plain == For(<<N("pr", 0, 1, "none")>>)
Boxed == {[title |-> "t1", nodes |-> <<N("textBox", 0, 1, "none"), N("objectText", 1, 1, "none")>>]}

(* Each title has a number of its own.  m1 cites the second, and m2 cites    *)
(* both.                                                                     *)
MCNumbers == {"n1", "n2"}
MCNumberOf == [t \in Titles |-> IF t = "t1" THEN "n1" ELSE "n2"]
Mutual == [m \in Masters |-> IF m = m1 THEN {"n2"} ELSE {"n1", "n2"}]
NoCites == [m \in Masters |-> {}]

(* Lists of two entries in both orders, and one that shares one with them.   *)
MCSent == {<<"e1">>, <<"e2">>, <<"e2", "e1">>}
MCStored == {<<>>, <<"e1">>}
MCToc == <<"e1", "e2">>
MCUnknown == {"e2"}
-----------------------------------------------------------------------------
AllInit ==
    /\ ProjectInit /\ ListsInit /\ GeneralInit
    /\ \A l, m \in Lists : rows[l] = rows[m]

CopiesAtRest == ProjectInit /\ UNCHANGED allVars
ListsAtRest == ListsInit /\ (\A l \in Lists : rows[l] = {}) /\ UNCHANGED listsVars
GeneralAtRest == GeneralInit /\ scope = "library" /\ UNCHANGED generalVars
AllNext ==
    \/ ListsAtRest /\ GeneralAtRest /\ ProjectNext
    \/ CopiesAtRest /\ GeneralAtRest /\ ListsNext
    \/ CopiesAtRest /\ ListsAtRest /\ GeneralNext

AllSpec == AllInit /\ [][AllNext]_<<allVars, listsVars, generalVars>>
=============================================================================
