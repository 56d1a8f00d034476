------------------------------ MODULE MCIssuance ------------------------------
(* Small instances, for one run of TLC, of the issuance of packages and of   *)
(* the comparison of specs with each other and with what was frozen.  They   *)
(* share no state, and a run moves only one of them, so that their states    *)
(* are added up and not multiplied.                                          *)
EXTENDS Issuance, Comparison

CONSTANT A

MCTexts == {A}
MCNoTexts == {}
MCTitles == {"t1"}

N(type, parent, position, vanish, comment) ==
    [type |-> type, parent |-> parent, position |-> position, text |-> A,
     vanish |-> vanish, comment |-> comment]

(* One paragraph, with a comment to close; a paragraph to remove, and a note *)
(* below it to acknowledge.                                                  *)
Commented == [title |-> "t1", nodes |-> <<N("pr", 0, 1, FALSE, "open")>>]
Noted == [title |-> "t1", nodes |-> <<N("pr", 0, 1, FALSE, "none"), N("note", 1, 1, FALSE, "none")>>]
CommentedOrNoted == {Commented, Noted}

Both == {<<"s2", "s1">>}

Unborn == [title |-> NoText, lifecycle |-> "draft", external |-> "editable", contentVersion |-> 0]
Born(version) == [Unborn EXCEPT !.title = "t1", !.contentVersion = version]

OnlyFirst(members) == [k1 |-> [exists |-> TRUE, members |-> members],
                       k2 |-> [exists |-> FALSE, members |-> <<>>]]

(* One spec was imported, and a call has issued k1 while it was empty. *)
OneCall ==
    /\ spec = [s1 |-> Born(1), s2 |-> Unborn]
    /\ para = [p \in Paras |-> IF p = 3 THEN NoRow ELSE ImportedRow("s1", Noted, 0, p)]
    /\ drawn = 2 /\ hist = {} /\ sealed = {}
    /\ package = OnlyFirst(<<>>)
    /\ revisions = {[package |-> "k1", request |-> "r2", order |-> 3, gated |-> FALSE,
                     frozen |-> <<>>]}
    /\ tx = [r1 |-> Idle, r2 |-> [phase |-> "issued"]]

(* Two calls of a package with one member. *)
OnePackage ==
    /\ spec = [s1 |-> Born(1), s2 |-> Unborn]
    /\ para = [p \in Paras |-> IF p = 2 THEN ImportedRow("s1", Commented, 1, 1) ELSE NoRow]
    /\ drawn = MaxParas /\ hist = {} /\ sealed = {}
    /\ package = OnlyFirst(<<"s1">>)
    /\ revisions = {}
    /\ tx = [r1 |-> Idle, r2 |-> Idle]

(* Two packages that hold the same two drafts. *)
TwoPackages ==
    /\ spec = [s \in Specs |-> Born(MaxVersion)]
    /\ para = [p \in Paras |-> CASE p = 2 -> ImportedRow("s1", Commented, 1, 1)
                                 [] p = 3 -> ImportedRow("s2", Commented, 2, 1)
                                 [] OTHER -> NoRow]
    /\ drawn = MaxParas /\ hist = {} /\ sealed = {}
    /\ package = [k \in Packages |-> [exists |-> TRUE, members |-> <<"s2", "s1">>]]
    /\ revisions = {}
    /\ tx = [r1 |-> Idle, r2 |-> Idle]

(* A single paragraph; a paragraph below another, and a note that is hidden;  *)
(* a removed paragraph between two others.                                   *)
Place(type, parent, position, vanish) ==
    [type |-> type, parent |-> parent, position |-> position, text |-> "x", vanish |-> vanish]
MCOutlines ==
    {<<Place("pr", 0, 1, FALSE)>>,
     <<Place("pr", 0, 1, FALSE), Place("pr", 1, 1, FALSE), Place("note", 0, 2, TRUE)>>,
     <<Place("pr", 0, 1, FALSE), Place("pr", 0, 2, TRUE), Place("pr", 0, 3, FALSE)>>}
MCWordings == {"x", "y"}
-----------------------------------------------------------------------------
MCInit ==
    /\ OneCall \/ OnePackage \/ TwoPackages
    /\ lock = [k \in Packages |-> Nobody]
    /\ ComparisonInit

IssuanceAtRest == OnePackage /\ UNCHANGED allVars
(* Nothing has been drawn, written or read since the single paragraph was     *)
(* imported and copied.                                                      *)
ComparisonAtRest ==
    /\ drawnLines = 2 /\ frozen = Absent /\ report = [phase |-> "new"]
    /\ \A s \in {Master, Copy} : generation[s] = 1
    /\ UNCHANGED comparisonVars

MCNext ==
    \/ ComparisonAtRest /\ IssueNext
    \/ IssuanceAtRest /\ ComparisonNext

MCSpec ==
    /\ MCInit /\ [][MCNext]_<<allVars, comparisonVars>>
    /\ \A r \in Requests : WF_allVars(IssueStep(r) /\ ComparisonAtRest)
=============================================================================
