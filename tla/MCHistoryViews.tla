--------------------------- MODULE MCHistoryViews ---------------------------
(* A small instance of HistoryViews for TLC. *)
EXTENDS HistoryViews

CONSTANTS A, B          \* two paragraph texts

MCTexts == {A, B}
MCUnresolved == {}

N(parent, position, vanish, comment) ==
    [type |-> "pr", parent |-> parent, position |-> position, text |-> A,
     vanish |-> vanish, comment |-> comment]

(* A commented paragraph with a subparagraph. *)
Nested == [title |-> "t1", nodes |-> <<N(0, 1, FALSE, "open"), N(1, 1, FALSE, "none")>>]

(* A paragraph Word had hidden, for a second import. *)
Hidden == [title |-> "t1", nodes |-> <<N(0, 1, TRUE, "none")>>]

MCTitles == {"t1"}
MCDocuments == {Nested, Hidden}
EachSpec == {{s} : s \in Specs}
Interchangeable == Permutations(Users) \cup Permutations(Checkpoints)
=============================================================================
