------------------------------- MODULE Issuance -------------------------------
(***************************************************************************)
(* Issuing a revision of a design package (ADR-015 D5, ADR-018 D3, ADR-079): *)
(* createPackageRevision freezes the tree of every member spec, refuses a   *)
(* final issuance with open matter in it, and marks the members issued,     *)
(* while writers edit the specs, membership is replaced and other issuances *)
(* of the same package, or of one that shares members, are under way.       *)
(*                                                                         *)
(* The transaction is REPEATABLE READ: everything it reads is the committed *)
(* state its first statement saw, and that statement is the one that then   *)
(* waits for the package row.  Its statements are separate steps here, the  *)
(* UPDATE of the members one row at a time; what it writes shows at COMMIT. *)
(*                                                                         *)
(* Abstractions: the packages are of one project, whose TOC holds every     *)
(* spec; no labels, parents or nomenclature, which draw on nothing modelled *)
(* here.                                                                    *)
(***************************************************************************)
EXTENDS SpecStore, SequencesExt

CONSTANTS
    Packages,
    Requests,     \* the createPackageRevision calls that may come
    Orders,       \* the sort_order values a caller may ask for
    Memberships   \* bound: the member lists setPackageSpecs is called with

Default == 0      \* sortOrder omitted
Nobody == "nobody"

ASSUME RequestsAssumption == Nobody \notin Requests /\ IsFiniteSet(Requests)
ASSUME OrdersAssumption == Orders \subseteq Nat \ {Default}
ASSUME MembershipsAssumption == \A ms \in Memberships : ms \in Seq(Specs) /\ IsInjective(ms)

VARIABLES
    package,      \* design_packages and package_specs: [exists, members]
    lock,         \* package -> the request whose transaction holds its row
    revisions,    \* package_revisions with package_revision_specs, as committed
    tx            \* what each request's transaction has read and written

issueVars == <<package, lock, revisions, tx>>
allVars == <<vars, issueVars>>

-----------------------------------------------------------------------------
(* What is frozen, and what keeps it from being final. *)

Tree(s) == [p \in Rows(s) |-> para[p]]

(* The committed state as a transaction's first statement finds it.         *)
Trees == [s \in Specs |-> Tree(s)]
Committed(k) == [members |-> package[k].members, trees |-> Trees,
                 rows |-> spec, revisions |-> {n \in revisions : n.package = k}]

(* walkReadiness does not descend below a removed paragraph; a note is      *)
(* never removed.                                                           *)
Suppressing(row) == row.vanish /\ row.type # "note"
Suppressed(tree) ==
    LET below[p \in DOMAIN tree] ==
            LET up == tree[p].parent
            IN up \in DOMAIN tree /\ (Suppressing(tree[up]) \/ below[up])
    IN {p \in DOMAIN tree : below[p]}

OpenFacts(row) == row.unresolved \/ row.comment = "open"

(* assessNode: acknowledging a note or a text box clears that finding only. *)
Unready(row) ==
    IF row.type = "note" THEN ~row.acknowledged \/ OpenFacts(row)
    ELSE ~row.vanish /\ (OpenFacts(row) \/ (row.type = "textBox" /\ ~row.acknowledged))

Findings_Shallow(tree) ==    \* mutant: open matter below an acknowledged note or box is missed
    {p \in DOMAIN tree \ Suppressed(tree) : Unready(tree[p]) /\ tree[p].parent = NoPara}
Findings(tree) == {p \in DOMAIN tree \ Suppressed(tree) : Unready(tree[p])}

(* nextSortOrder: COALESCE(MAX(sort_order), 0) + 1 *)
NextSortOrder_Count(revs) == Cardinality(revs) + 1    \* mutant: COUNT instead of MAX
NextSortOrder(revs) == Max({0} \cup {r.order : r \in revs}) + 1

-----------------------------------------------------------------------------
Idle == [phase |-> "new"]

(* What request r reads: the snapshot of its first statement. *)
View_Committed(r) == Committed(tx[r].package)    \* mutant: READ COMMITTED
View(r) == tx[r].snapshot

(* BEGIN, and SELECT ... FOR UPDATE takes its snapshot.  The call is gated   *)
(* when its mode is final and the gate is not overridden; `seen' is a history *)
(* field: what the package and its specs said while the call is under way.   *)
IssueBegin(r) ==
    /\ tx[r] = Idle
    /\ \E k \in Packages, gated \in Flag, order \in Orders \cup {Default} :
          /\ package[k].exists
          /\ tx' = [tx EXCEPT ![r] =
                    [phase |-> "locking", package |-> k,
                     snapshot |-> Committed(k), seen |-> {[members |-> package[k].members, trees |-> Trees]},
                     gated |-> gated, asked |-> order, order |-> order,
                     members |-> <<>>, frozen |-> <<>>, scan |-> <<>>, marked |-> 0]]
    /\ UNCHANGED <<vars, package, lock, revisions>>

(* ROLLBACK, whatever failed; the row locks go with the transaction.        *)
Rollback_KeepsLock(r) ==    \* mutant: the client is released without a ROLLBACK
    /\ tx' = [tx EXCEPT ![r] = [phase |-> "failed"]]
    /\ UNCHANGED lock
Rollback(r) ==
    /\ tx' = [tx EXCEPT ![r] = [phase |-> "failed"]]
    /\ lock' = [k \in Packages |-> IF lock[k] = r THEN Nobody ELSE lock[k]]

(* The waiting SELECT gets the row, unless the package was deleted: then    *)
(* PostgreSQL cannot serialise the access.                                  *)
IssueLock(r) ==
    /\ tx[r].phase = "locking"
    /\ LET k == tx[r].package IN
       /\ lock[k] = Nobody
       /\ IF package[k].exists
          THEN lock' = [lock EXCEPT ![k] = r] /\ tx' = [tx EXCEPT ![r].phase = "numbering"]
          ELSE Rollback(r)
    /\ UNCHANGED <<vars, package, revisions>>

(* insertRevisionRow, which meets UNIQUE (package_id, sort_order) against   *)
(* what is committed, and the SELECT of the members.                        *)
IssueNumber(r) ==
    /\ tx[r].phase = "numbering"
    /\ LET order == IF tx[r].asked # Default THEN tx[r].asked
                    ELSE NextSortOrder(View(r).revisions)
       IN IF \E other \in revisions : other.package = tx[r].package /\ other.order = order
          THEN Rollback(r)
          ELSE /\ tx' = [tx EXCEPT ![r].phase = "freezing", ![r].order = order,
                                   ![r].members = View(r).members]
               /\ UNCHANGED lock
    /\ UNCHANGED <<vars, package, revisions>>

(* snapshotMemberTrees, one SELECT per member. *)
FreezeMember(r) ==
    /\ tx[r].phase = "freezing"
    /\ Len(tx[r].frozen) < Len(tx[r].members)
    /\ LET s == tx[r].members[Len(tx[r].frozen) + 1]
       IN tx' = [tx EXCEPT ![r].frozen = Append(@, [spec |-> s, tree |-> View(r).trees[s]])]
    /\ UNCHANGED <<vars, package, lock, revisions>>

Frozen(r) == {tx[r].frozen[i] : i \in 1..Len(tx[r].frozen)}
FrozenSpecs(r) == {e.spec : e \in Frozen(r)}

(* assertReadyForFinal looks at the frozen trees. *)
Blocked(r) ==
    /\ tx[r].gated
    /\ \E e \in Frozen(r) : Findings(e.tree) # {}

(* The gate.  insertSnapshotRows refers to every member, which shares its   *)
(* row; then the UPDATE begins, over the drafts of the snapshot in the order *)
(* of some scan.                                                            *)
ToMark(r) == {s \in FrozenSpecs(r) : View(r).rows[s].lifecycle = "draft"}
IssueGate(r) ==
    /\ tx[r].phase = "freezing"
    /\ Len(tx[r].frozen) = Len(tx[r].members)
    /\ IF Blocked(r) THEN Rollback(r)
       ELSE /\ \E scan \in SetToSeqs(ToMark(r)) :
                  tx' = [tx EXCEPT ![r].phase = "marking", ![r].scan = scan]
            /\ UNCHANGED lock
    /\ UNCHANGED <<vars, package, revisions>>

Marked(r) == IF tx[r].phase = "marking" THEN ToSet(SubSeq(tx[r].scan, 1, tx[r].marked)) ELSE {}
NextRow(r) == tx[r].scan[tx[r].marked + 1]
Marking(r) == tx[r].phase = "marking" /\ tx[r].marked < Len(tx[r].scan)

(* markMembersIssued, row by row: a row that another call has updated is    *)
(* waited for, and one that was updated since the snapshot fails the UPDATE *)
(* (could not serialize access).                                            *)
Conflicting(r) == {s \in ToMark(r) : spec[s] # View(r).rows[s]}
MarkRow(r) ==
    /\ Marking(r)
    /\ \A q \in Requests : NextRow(r) \notin Marked(q)
    /\ IF NextRow(r) \in Conflicting(r) THEN Rollback(r)
       ELSE tx' = [tx EXCEPT ![r].marked = @ + 1] /\ UNCHANGED lock
    /\ UNCHANGED <<vars, package, revisions>>

(* Calls that wait for each other's rows; PostgreSQL ends one of them.      *)
Deadlocked(ring) ==
    /\ \A r \in ring : Marking(r)
    /\ \A r \in ring : \E q \in ring : NextRow(r) \in Marked(q)
    /\ \A q \in ring : \E r \in ring : NextRow(r) \in Marked(q)
DeadlockVictim(r) ==
    /\ \E ring \in SUBSET Requests : r \in ring /\ Deadlocked(ring)
    /\ Rollback(r)
    /\ UNCHANGED <<vars, package, revisions>>

MarkIssued_All(r) ==    \* mutant: no test of lifecycle_state
    [s \in Specs |-> IF s \in FrozenSpecs(r)
                     THEN [spec[s] EXCEPT !.lifecycle = "issued"] ELSE spec[s]]
MarkIssued(r) ==
    [s \in Specs |-> IF s \in ToMark(r)
                     THEN [spec[s] EXCEPT !.lifecycle = "issued"] ELSE spec[s]]

(* COMMIT *)
IssueCommit(r) ==
    /\ tx[r].phase = "marking" /\ tx[r].marked = Len(tx[r].scan)
    /\ spec' = MarkIssued(r)
    /\ revisions' = revisions \cup
          {[package |-> tx[r].package, request |-> r, order |-> tx[r].order,
            gated |-> tx[r].gated, frozen |-> tx[r].frozen]}
    /\ tx' = [tx EXCEPT ![r] = [phase |-> "issued"]]
    /\ lock' = [lock EXCEPT ![tx[r].package] = Nobody]
    /\ UNCHANGED <<para, drawn, hist, sealed, package>>

IssueStep(r) ==
    \/ IssueLock(r) \/ IssueNumber(r) \/ FreezeMember(r) \/ IssueGate(r)
    \/ MarkRow(r) \/ DeadlockVictim(r) \/ IssueCommit(r)

-----------------------------------------------------------------------------
(* setPackageSpecs replaces the whole list under the package row's lock.    *)
SetPackageSpecs(k, ms) ==
    /\ package[k].exists /\ lock[k] = Nobody
    /\ \A i \in 1..Len(ms) : Exists(ms[i])
    /\ ms # package[k].members
    /\ package' = [package EXCEPT ![k].members = ms]
    /\ UNCHANGED <<vars, lock, revisions>>

(* deletePackage: membership and revisions go with it (ON DELETE CASCADE).  *)
DeletePackage(k) ==
    /\ package[k].exists /\ lock[k] = Nobody
    /\ package' = [package EXCEPT ![k] = [exists |-> FALSE, members |-> <<>>]]
    /\ revisions' = {n \in revisions : n.package # k}
    /\ UNCHANGED <<vars, lock>>

(* The row locks of an issuance on its members: shared once its snapshot is *)
(* inserted, which only the gate's FOR UPDATE has to wait for; updated once *)
(* marked, which everyone has to.                                           *)
KeyShared == UNION {FrozenSpecs(r) : r \in {q \in Requests : tx[q].phase = "marking"}}
Updated == UNION {Marked(r) : r \in Requests}

(* The writes that what is frozen, marked or found can tell apart.          *)
Writer(s) ==
    /\ \/ /\ s \notin Updated
          /\ \/ \E doc \in Documents : PersistParsedSpec(s, doc)
             \/ SetLifecycle(s, "archived")
       \/ /\ s \notin KeyShared
          /\ \/ \E p \in Paras, t \in Texts : UpdateParagraphText(s, p, t, Unconditional)
             \/ \E p \in Paras, b \in Flag : SetParagraphVanish(s, p, b)
             \/ \E p \in Paras, b \in Flag : SetParagraphAcknowledged(s, p, b)
             \/ \E p \in Paras, b \in Flag : SetParagraphCommentClosed(s, p, b)
    /\ UNCHANGED <<package, lock, revisions>>

(* Each commit adds the state it leaves to what the open calls have seen.   *)
Observing(action) ==
    /\ action
    /\ tx' = [r \in Requests |->
                 IF tx[r].phase \in {"locking", "numbering", "freezing", "marking"}
                 THEN [tx[r] EXCEPT !.seen = @ \cup
                          {[members |-> package'[tx[r].package].members, trees |-> Trees']}]
                 ELSE tx[r]]

IssueInit ==
    /\ Init
    /\ package = [k \in Packages |-> [exists |-> TRUE, members |-> <<>>]]
    /\ lock = [k \in Packages |-> Nobody]
    /\ revisions = {}
    /\ tx = [r \in Requests |-> Idle]

IssueNext ==
    \/ \E s \in Specs : Observing(Writer(s))
    \/ \E k \in Packages, ms \in Memberships : Observing(SetPackageSpecs(k, ms))
    \/ \E k \in Packages : Observing(DeletePackage(k))
    \/ \E r \in Requests : IssueBegin(r) \/ IssueStep(r)

IssueSpec == IssueInit /\ [][IssueNext]_allVars

(* The server goes on with every call it has begun, and PostgreSQL hands a  *)
(* free row lock to a waiter: no client, pool or lock wait is left hanging. *)
FairIssueSpec == IssueSpec /\ \A r \in Requests : WF_allVars(IssueStep(r))

-----------------------------------------------------------------------------
(* Properties. *)

Issued == revisions' \ revisions    \* by the step

(* A revision is one point in time: its member list, their order and all    *)
(* their trees are what the database said together at some moment between   *)
(* the call and its commit, though they are read one by one among writers.  *)
RevisionIsOnePointInTime ==
    [][\A n \in Issued : \E c \in tx[n.request].seen :
          n.frozen = [i \in 1..Len(c.members) |->
                         [spec |-> c.members[i], tree |-> c.trees[c.members[i]]]]]_allVars

(* ADR-018 D3: every spec a revision of a package holds is marked issued     *)
(* (or was archived).  Issuance makes issued specs of drafts only, never of  *)
(* one archived meanwhile, and what it froze of such a draft is what the spec *)
(* says at that very commit: no draft is issued for a text nobody saw.       *)
DraftsAreIssuedAsFrozen ==
    /\ [](\A n \in revisions : \A e \in ToSet(n.frozen) : spec[e.spec].lifecycle # "draft")
    /\ [][\A s \in Specs : spec[s].lifecycle # "issued" /\ spec'[s].lifecycle = "issued" =>
             /\ spec[s].lifecycle = "draft"
             /\ \E n \in Issued : [spec |-> s, tree |-> Tree(s)'] \in ToSet(n.frozen)]_allVars

(* The ancestors of a row, itself included, that its tree holds.             *)
Above(tree) ==
    LET up[p \in DOMAIN tree] ==
            {p} \cup IF tree[p].parent \in DOMAIN tree THEN up[tree[p].parent] ELSE {}
    IN up

(* ADR-079: nothing a reader of a final revision gets to see is left open:   *)
(* every paragraph that the renderer does not skip is free of choice tokens  *)
(* and open comments, and notes and text boxes are acknowledged.             *)
FinalRevisionsRenderClean ==
    \A n \in revisions : n.gated =>
        \A e \in ToSet(n.frozen) : \A p \in DOMAIN e.tree :
            (\A a \in Above(e.tree)[p] : ~Suppressing(e.tree[a])) =>
                /\ ~OpenFacts(e.tree[p])
                /\ e.tree[p].type \in {"note", "textBox"} => e.tree[p].acknowledged

(* A revision whose place the caller left open sorts after every revision    *)
(* the package had when the call began, whatever numbers callers chose.      *)
OpenOrderIsLast ==
    [][\A n \in Issued : tx[n.request].asked = Default =>
          \A old \in tx[n.request].snapshot.revisions : old.order < n.order]_allVars

(* Every issuance comes to an end, and none leaves its package or the rows   *)
(* of members it shares with others locked: a gate, a conflict, a deadlock   *)
(* or a deleted package fails one call only.                                 *)
IssuanceEnds ==
    \A r \in Requests : tx[r].phase = "locking" ~> tx[r].phase \in {"issued", "failed"}
=============================================================================
