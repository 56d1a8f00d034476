----------------------------- MODULE MCSpecStore -----------------------------
(* Small instances of SpecStore for TLC. *)
EXTENDS SpecStore, TLC

CONSTANTS A, B          \* two paragraph texts; B holds an unresolved choice

MCTexts == {A, B}
MCUnresolved == {B}

N(type, parent, position, text, comment) ==
    [type |-> type, parent |-> parent, position |-> position, text |-> text,
     vanish |-> FALSE, comment |-> comment]

(* A paragraph with a comment beside a text box, and nothing at all. *)
Boxed == [title |-> "t1", nodes |->
    <<N("pr", 0, 1, A, "open"), N("textBox", 0, 2, A, "none"), N("objectText", 2, 1, A, "none")>>]

Empty == [title |-> "t1", nodes |-> <<>>]

MCTitles == {"t1", "t2"}
BoxedDocument == {Boxed, Empty}
EachSpec == {{s} : s \in Specs}
=============================================================================
