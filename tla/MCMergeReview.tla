---------------------------- MODULE MCMergeReview ----------------------------
(* Small instances of MergeReview for TLC. *)
EXTENDS MergeReview

CONSTANTS A, B          \* two paragraph texts

MCTexts == {A, B}
MCNoTexts == {}
MCTitles == {"t1"}
MCAsIs == [t \in MCTexts |-> t]
MCCited == [t \in MCTexts |-> A]     \* B cites a section, A cites it canonically

N(type, parent, position) ==
    [type |-> type, parent |-> parent, position |-> position, text |-> A,
     vanish |-> FALSE, comment |-> "none"]

(* A part, a paragraph and a paragraph nested below it. *)
Nested == {[title |-> "t1", nodes |-> <<N("part", 0, 1), N("pr", 1, 1), N("pr", 2, 1)>>]}
Flat == {[title |-> "t1", nodes |-> <<N("part", 0, 1), N("pr", 1, 1)>>]}
Both == Nested \cup Flat

(* The nested document with five rows and three generations, the flat one    *)
(* with four rows and, where the reviewer changed one paragraph, with four.  *)
IsNested == \E p \in Paras : para[p] # NoRow /\ Cardinality(Lineage[p]) = 3
Redlines == IF diff = None THEN 0 ELSE Cardinality(Entries(diff)) + Len(diff.added)
Bounded ==
    IF IsNested THEN spec["s1"].contentVersion <= 3
    ELSE drawn <= 4 /\ (spec["s1"].contentVersion <= 3 \/ Redlines <= 1)
=============================================================================
