---------------------------- MODULE StoredLists ----------------------------
(***************************************************************************)
(* Lists that a PUT replaces as a whole: a project's source libraries, a   *)
(* library's discipline rules, and the sections required of a project (the *)
(* baseline) or of one package, which may also be seeded from each other   *)
(* and from the table of contents.  Each is a DELETE and an INSERT in one  *)
(* READ COMMITTED transaction: a statement sees what was committed when it *)
(* began, and waits for rows that another transaction has its hands on.    *)
(*                                                                         *)
(* All but the sources take a lock on the row of their owner first; for    *)
(* the sources the unique priority must do.                                *)
(*                                                                         *)
(* Abstractions: one owner of each list; a library, a rule's range or a    *)
(* section is an entry; validation of a request that reads nothing here is *)
(* left out, and so is an owner that is deleted (its foreign key).  Rules,  *)
(* inserted one by one while the owner is locked, are one INSERT.          *)
(***************************************************************************)
EXTENDS Integers, Sequences

CONSTANTS
    Callers,       \* the calls that may come
    Sent,          \* the lists they may carry
    Stored,        \* the lists that may be there before
    Toc,           \* the project's table of contents, as a list of sections
    Unknown        \* entries the catalog of disciplines lacks

NoCall == "no call"
Lists == {"sources", "rules", "baseline", "package"}

ASSUME CallersAssumption == NoCall \notin Callers
(* A list that is sent is not empty, except where Operations says so.       *)
ASSUME SentAssumption == \A list \in Sent : Len(list) \in Nat \ {0}
ASSUME StoredAssumption == \A list \in Stored : Len(list) \in Nat

VARIABLES
    rows,          \* list -> its committed rows: [position, entry, by]
    owner,         \* list -> the call that holds its owner's row
    put            \* what each call's transaction has read and written

listsVars == <<rows, owner, put>>

AsRows(list, c) == {[position |-> i, entry |-> list[i], by |-> c] : i \in 1..Len(list)}

(* The calls that lock: FOR UPDATE of the library, project or package.      *)
Locked_None == {}    \* mutant: no call locks
Locked == {"rules", "baseline", "package"}

(* UNIQUE (owner, entry), and of the sources UNIQUE (project_id, priority). *)
Collide(l, r, s) ==
    \/ r.entry = s.entry
    \/ l = "sources" /\ r.position = s.position

(* setProjectSources, replaceLibraryDisciplineRules and setRequiredSections *)
(* replace, clearLibraryDisciplineRules empties, seedRequiredSections fills *)
(* an empty list.                                                           *)
Operations(l) ==
    {[op |-> "replace", list |-> l, sent |-> sent, from |-> l] :
        sent \in IF l \in {"baseline", "package"} THEN Sent \cup {<<>>} ELSE Sent}
    \cup (IF l = "rules" THEN {[op |-> "clear", list |-> l, sent |-> <<>>, from |-> l]} ELSE {})
    \cup (IF l \in {"baseline", "package"}
          THEN {[op |-> "seed", list |-> l, sent |-> Toc, from |-> l]} ELSE {})
    \cup (IF l = "package"
          THEN {[op |-> "seed", list |-> l, sent |-> <<>>, from |-> "baseline"]} ELSE {})

NotPut == [phase |-> "new"]
OpenPuts == {c \in Callers : put[c].phase \notin {"new", "done", "failed"}}
Others(c) == {d \in OpenPuts \ {c} : put[d].list = put[c].list}

PutAt(c, phase) == put' = [put EXCEPT ![c].phase = phase]
OwnersWithout(c) == [l \in Lists |-> IF owner[l] = c THEN NoCall ELSE owner[l]]
RolledBack(c) ==
    /\ PutAt(c, "failed")
    /\ owner' = OwnersWithout(c)
    /\ UNCHANGED rows

(* BEGIN *)
PutBegins(c) ==
    /\ put[c] = NotPut
    /\ \E l \in Lists : \E o \in Operations(l) :
          put' = [put EXCEPT ![c] =
                    [phase |-> IF l \in Locked THEN "locking" ELSE "deleting",
                     op |-> o.op, list |-> l, sent |-> o.sent, from |-> o.from,
                     found |-> {}, deleted |-> {}, inserted |-> {}]]
    /\ UNCHANGED <<rows, owner>>

LockOwner(c) ==
    /\ put[c].phase = "locking"
    /\ owner[put[c].list] = NoCall
    /\ owner' = [owner EXCEPT ![put[c].list] = c]
    /\ PutAt(c, IF put[c].op = "seed" THEN "checking" ELSE "deleting")
    /\ UNCHANGED rows

(* The DELETE sees the rows that are committed now, *)
DeleteBegins(c) ==
    /\ put[c].phase = "deleting"
    /\ put' = [put EXCEPT ![c].phase = "removing", ![c].found = rows[put[c].list]]
    /\ UNCHANGED <<rows, owner>>

(* waits for those another call has deleted, and leaves out the ones that    *)
(* are gone then.                                                           *)
DeleteEnds(c) ==
    /\ put[c].phase = "removing"
    /\ \A d \in Others(c) : put[d].deleted \cap put[c].found = {}
    /\ put' = [put EXCEPT ![c].phase = IF put[c].op = "clear" THEN "written" ELSE "inserting",
                          ![c].deleted = put[c].found \cap rows[put[c].list]]
    /\ UNCHANGED <<rows, owner>>

(* A seed is refused where there is a list (409). *)
CheckEmpty(c) ==
    /\ put[c].phase = "checking"
    /\ IF rows[put[c].list] # {} THEN RolledBack(c)
       ELSE PutAt(c, "inserting") /\ UNCHANGED <<rows, owner>>

(* What the INSERT inserts: the list that was sent, the table of contents,   *)
(* or what the scope to copy from holds when it runs.                       *)
ToInsert(c) ==
    IF put[c].from = put[c].list THEN AsRows(put[c].sent, c)
    ELSE {[r EXCEPT !.by = c] : r \in rows[put[c].from]}

(* A unique index makes it wait for rows that others have inserted or        *)
(* deleted, and fail on one that stays.  A discipline that is not in the     *)
(* catalog fails it too.                                                     *)
Meets(c, others) ==
    \E r \in ToInsert(c), s \in others : Collide(put[c].list, r, s)
Insert(c) ==
    /\ put[c].phase = "inserting"
    /\ \A d \in Others(c) : ~Meets(c, put[d].inserted \cup (put[d].deleted \cap rows[put[c].list]))
    /\ IF \/ Meets(c, rows[put[c].list] \ put[c].deleted)
          \/ put[c].list = "rules" /\ \E r \in ToInsert(c) : r.entry \in Unknown
       THEN RolledBack(c)
       ELSE /\ put' = [put EXCEPT ![c].phase = "written", ![c].inserted = ToInsert(c)]
            /\ UNCHANGED <<rows, owner>>

CommitPut(c) ==
    /\ put[c].phase = "written"
    /\ rows' = [rows EXCEPT ![put[c].list] = (@ \ put[c].deleted) \cup put[c].inserted]
    /\ owner' = OwnersWithout(c)
    /\ PutAt(c, "done")

ListsInit ==
    /\ rows \in [Lists -> {AsRows(list, NoCall) : list \in Stored}]
    /\ owner = [l \in Lists |-> NoCall]
    /\ put = [c \in Callers |-> NotPut]

ListsNext ==
    \E c \in Callers :
        \/ PutBegins(c) \/ LockOwner(c) \/ DeleteBegins(c) \/ DeleteEnds(c)
        \/ CheckEmpty(c) \/ Insert(c) \/ CommitPut(c)
        \/ c \in OpenPuts /\ RolledBack(c)    \* a statement fails

ListsSpec == ListsInit /\ [][ListsNext]_listsVars

-----------------------------------------------------------------------------
Listed(R) == {<<r.position, r.entry>> : r \in R}

(* "Wholesale replacement": after a call that succeeded the list is what the *)
(* call put there and nothing else, however two of them were interleaved; a  *)
(* seed has filled an empty list; and a clear has emptied it and says so     *)
(* exactly when there was something to remove.                              *)
LastCallWins ==
    [][\A c \in Callers :
          put[c].phase = "written" /\ put'[c].phase = "done" =>
            LET before == rows[put[c].list]
                after == rows'[put[c].list]
            IN /\ IF put[c].from = put[c].list THEN Listed(after) = Listed(AsRows(put[c].sent, c))
                  ELSE after = put[c].inserted
               /\ put[c].op = "seed" => before = {}
               /\ put[c].op = "clear" => (put[c].deleted # {} <=> before # {})]_listsVars
=============================================================================
