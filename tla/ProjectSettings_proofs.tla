----------------------- MODULE ProjectSettings_proofs -----------------------
(***************************************************************************)
(* Proofs about what a project or a library is told to use: the lists that  *)
(* calls replace as a whole, and the general spec of a division, for every  *)
(* set of calls, lists and specs.                                           *)
(***************************************************************************)
EXTENDS StoredLists, DivisionGeneral, WellFoundedInduction, TLAPS

-----------------------------------------------------------------------------
(* Stored lists: the inductive invariant. *)

OpenPhases == {"locking", "checking", "deleting", "removing", "inserting", "written"}
PutShape(p) ==
    p = [phase |-> p.phase, op |-> p.op, list |-> p.list, sent |-> p.sent, from |-> p.from,
         found |-> p.found, deleted |-> p.deleted, inserted |-> p.inserted]

(* What a request can ask of a list.  The sources are only ever replaced,    *)
(* and by a list that has a first entry.                                     *)
Asks(p) ==
    /\ p.list \in Lists
    /\ p.list = "sources" => p.op = "replace" /\ p.from = "sources" /\ p.sent \in Sent
    /\ p.op = "clear" => p.list = "rules" /\ p.from = p.list /\ p.sent = <<>>
                         /\ p.phase # "inserting"
    /\ p.phase = "checking" => p.op = "seed"
    /\ p.op = "seed" => p.list \in Locked /\ p.phase \notin {"deleting", "removing"}

(* What the call c of a list knows of its rows, now, and of its owner's lock:*)
(* with the lock nothing changes under it, and without it what it has found  *)
(* is either all that is there or has been replaced as a whole.              *)
Knows(p, c, now, own) ==
    /\ IF p.list \in Locked THEN p.phase # "locking" <=> own = c
       ELSE p.phase \notin {"locking", "checking"}
    /\ p.phase = "removing" => \/ p.found = now
                               \/ (p.list = "sources" /\ p.found \cap now = {})
    /\ IF p.phase \in {"inserting", "written"}
       THEN /\ p.deleted = now \/ (p.list = "sources" /\ p.deleted \cap now = {})
            /\ p.op = "seed" => now = {}
       ELSE p.deleted = {}
    /\ IF p.phase = "written"
       THEN /\ now \subseteq p.deleted
            /\ p.from = p.list => p.inserted = AsRows(p.sent, c)
       ELSE p.inserted = {}

Calls(c) == put[c].phase \in OpenPhases
PutIsFine(c) ==
    /\ PutShape(put[c]) /\ Asks(put[c])
    /\ Knows(put[c], c, rows[put[c].list], owner[put[c].list])

(* Rows are by calls that are over. *)
Settled(R) == \A r \in R : r.by \in Callers => put[r.by].phase = "done"

(* A list of sources is one caller's and has a first entry. *)
OneCallers(R) ==
    /\ \A r, s \in R : r.by = s.by
    /\ R # {} => \E r \in R : r.position = 1

ListsInv ==
    /\ rows = [l \in Lists |-> rows[l]]
    /\ owner = [l \in Lists |-> owner[l]]
    /\ put = [c \in Callers |-> put[c]]
    /\ \A c \in Callers : \/ put[c] = NotPut
                          \/ put[c].phase \in {"done", "failed"}
                          \/ Calls(c) /\ PutIsFine(c)
    /\ \A l \in Lists : owner[l] # NoCall =>
          owner[l] \in Callers /\ Calls(owner[l]) /\ put[owner[l]].list = l
    /\ OneCallers(rows["sources"]) /\ Settled(rows["sources"])
    /\ \A c \in Callers : Calls(c) /\ put[c].list = "sources" =>
          Settled(put[c].found) /\ Settled(put[c].deleted)
    /\ \A c, d \in Callers :
          /\ c # d /\ Calls(c) /\ Calls(d)
          /\ put[c].list = "sources" /\ put[d].list = "sources"
          => ~(put[c].phase = "written" /\ put[d].phase = "written")

(* A call that knows its list still does when another takes the lock that it *)
(* does not hold.                                                           *)
LEMMA LockedByAnother ==
    ASSUME NEW p, NEW c, NEW d, c # d, NEW now, Knows(p, d, now, NoCall), NoCall # d
    PROVE  Knows(p, d, now, c)
  BY DEF Knows

(* A call goes on, or begins.                                               *)
LEMMA PutGoesOn ==
    ASSUME ListsInv, NEW c \in Callers, NEW q, put' = [put EXCEPT ![c] = q], rows' = rows,
           \/ owner' = owner
           \/ owner[q.list] = NoCall /\ owner' = [owner EXCEPT ![q.list] = c],
           PutShape(q), Asks(q), q.phase \in OpenPhases,
           Knows(q, c, rows[q.list], owner'[q.list]),
           put[c].phase \notin {"done", "failed"}, Calls(c) => q.list = put[c].list,
           q.list = "sources" => Settled(q.found) /\ Settled(q.deleted),
           q.list = "sources" /\ q.phase = "written" =>
             \A d \in Callers \ {c} : Calls(d) /\ put[d].list = "sources" => put[d].phase # "written"
    PROVE  ListsInv'
  <1>1. /\ \A d \in Callers : put'[d] = IF d = c THEN q ELSE put[d]
        /\ put' = [d \in Callers |-> put'[d]]
    BY DEF ListsInv
  <1>2. owner' = [l \in Lists |-> owner'[l]] /\ rows' = [l \in Lists |-> rows'[l]]
    BY DEF ListsInv
  <1>3. ASSUME NEW R, Settled(R)  PROVE Settled(R)'
    BY <1>1, <1>3 DEF Settled
  <1>4. ASSUME NEW d \in Callers
        PROVE  \/ put'[d] = NotPut
               \/ put'[d].phase \in {"done", "failed"}
               \/ Calls(d)' /\ PutIsFine(d)'
    <2>1. CASE d = c
      <3>1. put'[d] = q
        BY <1>1, <2>1
      <3> QED
        BY <2>1, <3>1 DEF Calls, PutIsFine
    <2>2. CASE d # c
      <3>1. put'[d] = put[d]
        BY <1>1, <2>2
      <3>2. SUFFICES ASSUME Calls(d), PutIsFine(d)  PROVE PutIsFine(d)'
        BY <3>1 DEF ListsInv, Calls
      <3>3. Knows(put[d], d, rows[put[d].list], owner[put[d].list]) /\ put[d].list \in Lists
        BY <3>2 DEF PutIsFine, Asks
      <3>4. Knows(put[d], d, rows[put[d].list], owner'[put[d].list])
        <4>1. CASE owner'[put[d].list] = owner[put[d].list]
          BY <3>3, <4>1
        <4>2. CASE owner'[put[d].list] # owner[put[d].list]
          <5>1. owner[put[d].list] = NoCall /\ owner'[put[d].list] = c
            BY <3>3, <4>2 DEF ListsInv
          <5> QED
            BY <2>2, <3>3, <5>1, LockedByAnother, CallersAssumption
        <4> QED
          BY <4>1, <4>2
      <3> QED
        BY <3>1, <3>2, <3>4 DEF PutIsFine
    <2> QED
      BY <2>1, <2>2
  <1>5. ASSUME NEW l \in Lists, NEW h, h = owner'[l], h # NoCall
        PROVE  h \in Callers /\ Calls(h)' /\ put'[h].list = l
    <2>1. CASE owner[l] = h
      <3>1. h \in Callers /\ Calls(h) /\ put[h].list = l
        BY <1>5, <2>1 DEF ListsInv
      <3> QED
        BY <1>1, <3>1 DEF Calls
    <2>2. CASE owner[l] # h
      <3>1. h = c /\ l = q.list
        BY <1>5, <2>2 DEF ListsInv
      <3> QED
        BY <1>1, <3>1 DEF Calls
    <2> QED
      BY <2>1, <2>2
  <1>6. OneCallers(rows["sources"])' /\ Settled(rows["sources"])'
    <2>1. rows'["sources"] = rows["sources"] /\ Settled(rows["sources"])
      BY DEF ListsInv
    <2> QED
      BY <1>3, <2>1 DEF ListsInv, OneCallers, Settled
  <1>7. ASSUME NEW d \in Callers, Calls(d)', put'[d].list = "sources"
        PROVE  Settled(put[d].found)' /\ Settled(put[d].deleted)'
    <2>1. Settled(put'[d].found) /\ Settled(put'[d].deleted)
      BY <1>1, <1>7 DEF ListsInv, Calls
    <2> QED
      BY <1>1, <1>3, <2>1 DEF Settled
  <1>8. ASSUME NEW d \in Callers, NEW e \in Callers, d # e, Calls(d)', Calls(e)',
               put'[d].list = "sources", put'[e].list = "sources"
        PROVE  ~(put'[d].phase = "written" /\ put'[e].phase = "written")
    BY <1>1, <1>8 DEF ListsInv, Calls
  <1>9. \A l \in Lists : owner'[l] # NoCall =>
           owner'[l] \in Callers /\ Calls(owner[l])' /\ put'[owner'[l]].list = l
    BY <1>5 DEF Calls
  <1> QED
    BY <1>1, <1>2, <1>4, <1>6, <1>7, <1>8, <1>9 DEF ListsInv

(* A call ends: either nothing of it remains, or its rows are the list.      *)
LEMMA PutEnds ==
    ASSUME ListsInv, NEW c \in Callers, Calls(c), owner' = OwnersWithout(c),
           NEW end \in {"done", "failed"}, PutAt(c, end),
           \/ end = "failed" /\ rows' = rows
           \/ /\ end = "done" /\ put[c].phase = "written"
              /\ rows' = [rows EXCEPT ![put[c].list] = put[c].inserted]
    PROVE  ListsInv'
  <1>1. PutShape(put[c]) /\ Asks(put[c]) /\ Knows(put[c], c, rows[put[c].list], owner[put[c].list])
    BY DEF ListsInv, Calls, OpenPhases, NotPut, PutIsFine
  <1> DEFINE q == [put[c] EXCEPT !.phase = end]
  <1>2. q.phase = end
    BY <1>1 DEF PutShape
  <1>3. put' = [put EXCEPT ![c] = q]
    BY DEF PutAt, ListsInv
  <1> HIDE DEF q
  <1>4. /\ \A d \in Callers : put'[d] = IF d = c THEN q ELSE put[d]
        /\ put' = [d \in Callers |-> put'[d]]
    BY <1>3 DEF ListsInv
  <1>5. /\ owner' = [l \in Lists |-> owner'[l]] /\ rows' = [l \in Lists |-> rows'[l]]
        /\ \A l \in Lists : owner'[l] = IF owner[l] = c THEN NoCall ELSE owner[l]
    BY DEF ListsInv, OwnersWithout
  <1>6. ~Calls(c)'
    BY <1>2, <1>4 DEF Calls, OpenPhases
  <1>7. ASSUME NEW R, Settled(R)  PROVE Settled(R)'
    <2>1. put[c].phase # "done"
      BY DEF Calls, OpenPhases
    <2> QED
      BY <1>4, <1>7, <2>1 DEF Settled
  <1>8. ASSUME NEW d \in Callers, d # c
        PROVE  \/ put'[d] = NotPut
               \/ put'[d].phase \in {"done", "failed"}
               \/ Calls(d)' /\ PutIsFine(d)'
    <2>1. put'[d] = put[d]
      BY <1>4, <1>8
    <2>2. SUFFICES ASSUME Calls(d), PutIsFine(d)  PROVE PutIsFine(d)'
      BY <2>1 DEF ListsInv, Calls
    <2> DEFINE l == put[d].list
    <2>3. /\ Knows(put[d], d, rows[l], owner[l]) /\ l \in Lists
          /\ PutShape(put[d]) /\ Asks(put[d])
      BY <2>2 DEF PutIsFine, Asks
    <2>4. Knows(put[d], d, rows'[l], owner'[l])
      <3>1. CASE rows'[l] = rows[l]
        <4>1. d # NoCall
          BY CallersAssumption
        <4>2. (owner'[l] = d) <=> (owner[l] = d)
          BY <1>5, <1>8, <2>3, <4>1
        <4> HIDE DEF l
        <4> QED
          BY <2>3, <3>1, <4>2 DEF Knows
      <3>2. CASE rows'[l] # rows[l]
        <4>1. /\ l = put[c].list /\ rows'[l] = put[c].inserted /\ put[c].phase = "written"
          BY <2>3, <3>2 DEF ListsInv
        <4>2. CASE l \in Locked
          <5>1. owner[l] = c
            BY <1>1, <4>1, <4>2 DEF Knows
          <5>2. owner'[l] = NoCall /\ NoCall # d /\ owner[l] # d
            BY <1>5, <1>8, <2>3, <5>1, CallersAssumption
          <5>3. put[d].phase = "locking"
            BY <2>3, <4>2, <5>2 DEF Knows
          <5> QED
            BY <2>3, <4>2, <5>2, <5>3 DEF Knows
        <4>3. CASE l \notin Locked
          <5>1. l = "sources"
            BY <2>3, <4>3 DEF Lists, Locked
          <5>2. put[d].phase # "written"
            BY <1>8, <2>2, <4>1, <5>1 DEF ListsInv
          <5>3. \A r \in put[c].inserted : r.by = c
            BY <1>1, <4>1, <5>1 DEF Knows, AsRows, Asks
          <5>4. \A r \in put[d].found \cup put[d].deleted : r.by # c
            BY <2>2, <5>1 DEF ListsInv, Settled, Calls, OpenPhases
          <5>5. put[d].found \cap put[c].inserted = {} /\ put[d].deleted \cap put[c].inserted = {}
            BY <5>3, <5>4
          <5>6. put[d].op = "replace"
            BY <2>3, <5>1 DEF Asks
          <5> QED
            BY <2>3, <4>1, <4>3, <5>1, <5>2, <5>5, <5>6 DEF Knows
        <4> QED
          BY <4>2, <4>3
      <3> QED
        BY <3>1, <3>2
    <2> QED
      BY <2>1, <2>3, <2>4 DEF PutIsFine
  <1>9. ASSUME NEW l \in Lists, NEW h, h = owner'[l], h # NoCall
        PROVE  h \in Callers /\ Calls(h)' /\ put'[h].list = l
    <2>1. h = owner[l] /\ h # c
      BY <1>5, <1>9
    <2>2. h \in Callers /\ Calls(h) /\ put[h].list = l
      BY <1>9, <2>1 DEF ListsInv
    <2> QED
      BY <1>4, <2>1, <2>2 DEF Calls
  <1>10. \A l \in Lists : owner'[l] # NoCall =>
            owner'[l] \in Callers /\ Calls(owner[l])' /\ put'[owner'[l]].list = l
    BY <1>9 DEF Calls
  <1>11. OneCallers(rows["sources"])' /\ Settled(rows["sources"])'
    <2>1. CASE rows'["sources"] = rows["sources"]
      <3>1. Settled(rows["sources"]) /\ OneCallers(rows["sources"])
        BY DEF ListsInv
      <3> QED
        BY <1>7, <2>1, <3>1 DEF OneCallers, Settled
    <2>2. CASE rows'["sources"] # rows["sources"]
      <3>1. /\ put[c].list = "sources" /\ put[c].phase = "written" /\ end = "done"
            /\ rows'["sources"] = put[c].inserted
        BY <2>2 DEF ListsInv, Lists
      <3>2. put[c].inserted = AsRows(put[c].sent, c) /\ put[c].sent \in Sent
        BY <1>1, <3>1 DEF Knows, Asks
      <3>3. 1 \in 1..Len(put[c].sent)
        BY <3>2, SentAssumption
      <3>4. \E r \in AsRows(put[c].sent, c) : r.position = 1
        <4> DEFINE first == [position |-> 1, entry |-> put[c].sent[1], by |-> c]
        <4>1. first \in AsRows(put[c].sent, c)
          BY <3>3 DEF AsRows
        <4> QED
          BY <4>1
      <3>5. \A r \in AsRows(put[c].sent, c) : r.by = c
        BY DEF AsRows
      <3>6. put'[c].phase = "done"
        BY <1>2, <1>4, <3>1
      <3> QED
        BY <3>1, <3>2, <3>4, <3>5, <3>6 DEF OneCallers, Settled
    <2> QED
      BY <2>1, <2>2
  <1>12. ASSUME NEW d \in Callers, Calls(d)', put'[d].list = "sources"
         PROVE  Settled(put[d].found)' /\ Settled(put[d].deleted)'
    <2>1. put'[d] = put[d] /\ Calls(d)
      BY <1>4, <1>6, <1>12 DEF Calls
    <2>2. Settled(put'[d].found) /\ Settled(put'[d].deleted)
      BY <1>12, <2>1 DEF ListsInv
    <2> QED
      BY <1>7, <2>1, <2>2 DEF Settled
  <1>13. ASSUME NEW d \in Callers, NEW e \in Callers, d # e, Calls(d)', Calls(e)',
                put'[d].list = "sources", put'[e].list = "sources"
         PROVE  ~(put'[d].phase = "written" /\ put'[e].phase = "written")
    BY <1>4, <1>6, <1>13 DEF ListsInv, Calls
  <1>14. \A d \in Callers : \/ put'[d] = NotPut
                            \/ put'[d].phase \in {"done", "failed"}
                            \/ Calls(d)' /\ PutIsFine(d)'
    BY <1>2, <1>4, <1>8
  <1> QED
    BY <1>4, <1>5, <1>10, <1>11, <1>12, <1>13, <1>14 DEF ListsInv

(* What is known of a call in a phase of its own. *)
LEMMA OpenCall ==
    ASSUME ListsInv, NEW c \in Callers, put[c].phase \in OpenPhases
    PROVE  /\ Calls(c) /\ PutShape(put[c]) /\ Asks(put[c])
           /\ Knows(put[c], c, rows[put[c].list], owner[put[c].list])
           /\ put[c].list = "sources" => Settled(put[c].found) /\ Settled(put[c].deleted)
  <1>1. Calls(c) /\ put[c].phase \notin {"new", "done", "failed"}
    BY DEF Calls, OpenPhases
  <1>2. put[c] # NotPut
    BY <1>1 DEF NotPut
  <1>3. PutIsFine(c)
    BY <1>1, <1>2 DEF ListsInv
  <1> QED
    BY <1>1, <1>3 DEF ListsInv, PutIsFine

(* The call's record, one field at a time. *)
With(p, phase, found, deleted, inserted) ==
    [phase |-> phase, op |-> p.op, list |-> p.list, sent |-> p.sent, from |-> p.from,
     found |-> found, deleted |-> deleted, inserted |-> inserted]

LEMMA FieldByField ==
    ASSUME NEW p, PutShape(p), NEW phase, NEW new
    PROVE  /\ [p EXCEPT !.phase = phase] = With(p, phase, p.found, p.deleted, p.inserted)
           /\ [p EXCEPT !.found = new] = With(p, p.phase, new, p.deleted, p.inserted)
           /\ [p EXCEPT !.deleted = new] = With(p, p.phase, p.found, new, p.inserted)
           /\ [p EXCEPT !.inserted = new] = With(p, p.phase, p.found, p.deleted, new)
  <1> DEFINE Row(ph, op, list, sent, from, f, d, i) ==
        [phase |-> ph, op |-> op, list |-> list, sent |-> sent, from |-> from,
         found |-> f, deleted |-> d, inserted |-> i]
  <1>1. PICK ph, op, list, sent, from, f, d, i : p = Row(ph, op, list, sent, from, f, d, i)
    BY DEF PutShape
  <1>2. [p EXCEPT !.phase = phase] = Row(phase, op, list, sent, from, f, d, i)
    BY <1>1
  <1>3. [p EXCEPT !.found = new] = Row(ph, op, list, sent, from, new, d, i)
    BY <1>1
  <1>4. [p EXCEPT !.deleted = new] = Row(ph, op, list, sent, from, f, new, i)
    BY <1>1
  <1>5. [p EXCEPT !.inserted = new] = Row(ph, op, list, sent, from, f, d, new)
    BY <1>1
  <1>6. /\ p.phase = ph /\ p.op = op /\ p.list = list /\ p.sent = sent /\ p.from = from
        /\ p.found = f /\ p.deleted = d /\ p.inserted = i
    BY <1>1
  <1> QED
    BY <1>2, <1>3, <1>4, <1>5, <1>6 DEF With

(* and the table of calls with it. *)
LEMMA TwiceAt ==
    ASSUME NEW f, NEW D, f = [x \in D |-> f[x]], NEW c \in D, NEW r, NEW s
    PROVE  [[f EXCEPT ![c] = r] EXCEPT ![c] = s] = [f EXCEPT ![c] = s]
  OBVIOUS

AtPhase(c, phase) == [put EXCEPT ![c].phase = phase]
AtFound(c, phase, new) == [put EXCEPT ![c].phase = phase, ![c].found = new]
AtDeleted(c, phase, new) == [put EXCEPT ![c].phase = phase, ![c].deleted = new]
AtInserted(c, phase, new) == [put EXCEPT ![c].phase = phase, ![c].inserted = new]
PutWith(c, q) == [put EXCEPT ![c] = q]

LEMMA Records ==
    ASSUME ListsInv, NEW c \in Callers, PutShape(put[c]), NEW phase, NEW new
    PROVE  LET p == put[c]
           IN /\ AtPhase(c, phase) = PutWith(c, With(p, phase, p.found, p.deleted, p.inserted))
              /\ AtFound(c, phase, new) = PutWith(c, With(p, phase, new, p.deleted, p.inserted))
              /\ AtDeleted(c, phase, new) = PutWith(c, With(p, phase, p.found, new, p.inserted))
              /\ AtInserted(c, phase, new) = PutWith(c, With(p, phase, p.found, p.deleted, new))
  <1> DEFINE p == put[c]
             q == With(p, phase, p.found, p.deleted, p.inserted)
             now == [put EXCEPT ![c] = q]
  <1>1. put = [d \in Callers |-> put[d]]
    BY DEF ListsInv
  <1>2. [put EXCEPT ![c].phase = phase] = now
    BY FieldByField
  <1>3. PutShape(q) /\ now[c] = q
    BY <1>1 DEF PutShape, With
  <1>4. /\ With(q, q.phase, new, q.deleted, q.inserted) = With(p, phase, new, p.deleted, p.inserted)
        /\ With(q, q.phase, q.found, new, q.inserted) = With(p, phase, p.found, new, p.inserted)
        /\ With(q, q.phase, q.found, q.deleted, new) = With(p, phase, p.found, p.deleted, new)
    BY DEF With
  <1> HIDE DEF q
  <1>5. /\ [q EXCEPT !.found = new] = With(p, phase, new, p.deleted, p.inserted)
        /\ [q EXCEPT !.deleted = new] = With(p, phase, p.found, new, p.inserted)
        /\ [q EXCEPT !.inserted = new] = With(p, phase, p.found, p.deleted, new)
    BY <1>3, <1>4, FieldByField
  <1>6. /\ [now EXCEPT ![c].found = new] = [now EXCEPT ![c] = [q EXCEPT !.found = new]]
        /\ [now EXCEPT ![c].deleted = new] = [now EXCEPT ![c] = [q EXCEPT !.deleted = new]]
        /\ [now EXCEPT ![c].inserted = new] = [now EXCEPT ![c] = [q EXCEPT !.inserted = new]]
    BY <1>3
  <1>7. \A s : [now EXCEPT ![c] = s] = [put EXCEPT ![c] = s]
    BY <1>1, TwiceAt
  <1> HIDE DEF now
  <1> QED
    BY <1>2, <1>5, <1>6, <1>7 DEF q, now, AtPhase, AtFound, AtDeleted, AtInserted, PutWith

LEMMA BeginsFine ==
    ASSUME ListsInv, NEW c \in Callers, PutBegins(c)
    PROVE  ListsInv'
  <1>0. PICK l \in Lists : \E o \in Operations(l) :
           put' = [put EXCEPT ![c] =
                    [phase |-> IF l \in Locked THEN "locking" ELSE "deleting",
                     op |-> o.op, list |-> l, sent |-> o.sent, from |-> o.from,
                     found |-> {}, deleted |-> {}, inserted |-> {}]]
    BY DEF PutBegins
  <1>1. PICK o \in Operations(l) :
           put' = [put EXCEPT ![c] =
                    [phase |-> IF l \in Locked THEN "locking" ELSE "deleting",
                     op |-> o.op, list |-> l, sent |-> o.sent, from |-> o.from,
                     found |-> {}, deleted |-> {}, inserted |-> {}]]
    BY <1>0
  <1> DEFINE q == [phase |-> IF l \in Locked THEN "locking" ELSE "deleting",
                   op |-> o.op, list |-> l, sent |-> o.sent, from |-> o.from,
                   found |-> {}, deleted |-> {}, inserted |-> {}]
  <1>2. /\ l = "sources" => o.op = "replace" /\ o.from = "sources" /\ o.sent \in Sent
        /\ o.op = "clear" => l = "rules" /\ o.from = l /\ o.sent = <<>>
        /\ o.op = "seed" => l \in Locked
    BY DEF Operations, Lists, Locked
  <1>3. ~Calls(c) /\ put[c].phase = "new"
    BY DEF PutBegins, NotPut, Calls, OpenPhases
  <1>4. owner[l] # c
    BY <1>3, CallersAssumption DEF ListsInv
  <1>5. PutShape(q) /\ q.phase \in OpenPhases
    BY DEF PutShape, OpenPhases
  <1>6. Asks(q)
    BY <1>2 DEF Asks
  <1>7. Knows(q, c, rows[l], owner[l])
    BY <1>4 DEF Knows
  <1>8. Settled({}) /\ rows' = rows /\ owner' = owner
    BY DEF Settled, PutBegins
  <1>9. q.list = l /\ q.found = {} /\ q.deleted = {} /\ q.phase # "written" /\ put' = [put EXCEPT ![c] = q]
    BY <1>1
  <1> HIDE DEF q
  <1> QED
    BY <1>3, <1>5, <1>6, <1>7, <1>8, <1>9, PutGoesOn

LEMMA RolledBackFine ==
    ASSUME ListsInv, NEW c \in Callers, put[c].phase \in OpenPhases, RolledBack(c)
    PROVE  ListsInv'
  <1>1. Calls(c) /\ PutAt(c, "failed") /\ owner' = OwnersWithout(c) /\ rows' = rows
    BY OpenCall DEF RolledBack
  <1> QED
    BY <1>1, PutEnds

LEMMA LockOwnerFine ==
    ASSUME ListsInv, NEW c \in Callers, LockOwner(c)
    PROVE  ListsInv'
  <1> DEFINE p == put[c]
             q == With(p, IF p.op = "seed" THEN "checking" ELSE "deleting",
                       p.found, p.deleted, p.inserted)
  <1>1. p.phase = "locking" /\ p.phase \in OpenPhases
    BY DEF LockOwner, OpenPhases
  <1>2. /\ Calls(c) /\ PutShape(p) /\ Asks(p) /\ Knows(p, c, rows[p.list], owner[p.list])
        /\ p.list = "sources" => Settled(p.found) /\ Settled(p.deleted)
    BY <1>1, OpenCall
  <1>3. put' = [put EXCEPT ![c] = q]
    BY <1>2, Records DEF LockOwner, PutAt, AtPhase, PutWith
  <1>4. /\ owner[p.list] = NoCall /\ owner' = [owner EXCEPT ![p.list] = c] /\ rows' = rows
        /\ owner'[p.list] = c /\ p.list \in Locked
    BY <1>1, <1>2 DEF LockOwner, Knows, Asks, ListsInv
  <1>5. PutShape(q) /\ q.phase \in OpenPhases /\ q.list = p.list /\ q.phase # "written"
    BY DEF PutShape, OpenPhases, With
  <1>6. Asks(q)
    BY <1>1, <1>2 DEF Asks, With
  <1>7. Knows(q, c, rows[q.list], owner'[q.list])
    BY <1>1, <1>2, <1>4 DEF Knows, With
  <1>8. q.found = p.found /\ q.deleted = p.deleted
    BY DEF With
  <1>9. p.phase \notin {"done", "failed"}
    BY <1>1
  <1> HIDE DEF p, q
  <1>10. put[c].phase \notin {"done", "failed"} /\ q.list = put[c].list
    BY <1>5, <1>9 DEF p
  <1>11. owner[q.list] = NoCall /\ owner' = [owner EXCEPT ![q.list] = c]
    BY <1>4, <1>5
  <1>12. q.list = "sources" => Settled(q.found) /\ Settled(q.deleted)
    BY <1>2, <1>5, <1>8
  <1> QED
    BY <1>3, <1>4, <1>5, <1>6, <1>7, <1>10, <1>11, <1>12, PutGoesOn

LEMMA DeleteBeginsFine ==
    ASSUME ListsInv, NEW c \in Callers, DeleteBegins(c)
    PROVE  ListsInv'
  <1> DEFINE p == put[c]
             q == With(p, "removing", rows[p.list], p.deleted, p.inserted)
  <1>1. p.phase = "deleting" /\ p.phase \in OpenPhases
    BY DEF DeleteBegins, OpenPhases
  <1>2. /\ Calls(c) /\ PutShape(p) /\ Asks(p) /\ Knows(p, c, rows[p.list], owner[p.list])
        /\ p.list = "sources" => Settled(p.found) /\ Settled(p.deleted)
    BY <1>1, OpenCall
  <1>3. put' = [put EXCEPT ![c] = q] /\ rows' = rows /\ owner' = owner
    <2>1. put' = AtFound(c, "removing", rows[p.list])
      BY DEF DeleteBegins, AtFound
    <2>2. put' = PutWith(c, q)
      BY <1>2, <2>1, Records
    <2> QED
      BY <2>2 DEF DeleteBegins, PutWith
  <1>4. PutShape(q) /\ q.phase \in OpenPhases /\ q.list = p.list /\ q.phase # "written"
    BY DEF PutShape, OpenPhases, With
  <1>5. Asks(q)
    BY <1>1, <1>2 DEF Asks, With
  <1>6. Knows(q, c, rows[q.list], owner'[q.list])
    BY <1>1, <1>2, <1>3 DEF Knows, With
  <1>7. q.list = "sources" => Settled(q.found) /\ Settled(q.deleted)
    BY <1>2 DEF ListsInv, With
  <1>8. put[c].phase \notin {"done", "failed"} /\ q.list = put[c].list
    BY <1>1 DEF With
  <1> HIDE DEF q
  <1> QED
    BY <1>3, <1>4, <1>5, <1>6, <1>7, <1>8, PutGoesOn

LEMMA DeleteEndsFine ==
    ASSUME ListsInv, NEW c \in Callers, DeleteEnds(c)
    PROVE  ListsInv'
  <1> DEFINE p == put[c]
             q == With(p, IF p.op = "clear" THEN "written" ELSE "inserting",
                       p.found, p.found \cap rows[p.list], p.inserted)
  <1>1. p.phase = "removing" /\ p.phase \in OpenPhases
    BY DEF DeleteEnds, OpenPhases
  <1>2. /\ Calls(c) /\ PutShape(p) /\ Asks(p) /\ Knows(p, c, rows[p.list], owner[p.list])
        /\ p.list = "sources" => Settled(p.found) /\ Settled(p.deleted)
    BY <1>1, OpenCall
  <1>3. put' = [put EXCEPT ![c] = q] /\ rows' = rows /\ owner' = owner
    <2> DEFINE phase == IF p.op = "clear" THEN "written" ELSE "inserting"
    <2>1. put' = AtDeleted(c, phase, p.found \cap rows[p.list])
      BY DEF DeleteEnds, AtDeleted
    <2>2. put' = PutWith(c, q)
      BY <1>2, <2>1, Records
    <2> QED
      BY <2>2 DEF DeleteEnds, PutWith
  <1>4. PutShape(q) /\ q.phase \in OpenPhases /\ q.list = p.list
    BY DEF PutShape, OpenPhases, With
  <1>5. Asks(q)
    BY <1>1, <1>2 DEF Asks, With
  <1>6. p.op # "seed" /\ (p.op = "clear" => p.list = "rules" /\ p.sent = <<>>)
    BY <1>1, <1>2 DEF Asks, With
  <1>7. Knows(q, c, rows[q.list], owner'[q.list])
    <2>1. /\ q.list = p.list /\ q.op = p.op /\ q.sent = p.sent /\ q.from = p.from
          /\ q.deleted = p.found \cap rows[p.list] /\ q.inserted = {}
          /\ q.phase = IF p.op = "clear" THEN "written" ELSE "inserting"
      BY <1>1, <1>2 DEF Knows, With
    <2>2. \/ q.deleted = rows[p.list]
          \/ p.list = "sources" /\ q.deleted \cap rows[p.list] = {}
      BY <1>1, <1>2, <2>1 DEF Knows
    <2>3. p.op = "clear" => p.list = "rules" /\ AsRows(p.sent, c) = {}
      BY <1>6 DEF AsRows
    <2> QED
      BY <1>1, <1>2, <1>3, <1>6, <2>1, <2>2, <2>3 DEF Knows
  <1>8. q.list = "sources" => Settled(q.found) /\ Settled(q.deleted) /\ q.phase # "written"
    BY <1>2, <1>6 DEF Settled, With
  <1>9. put[c].phase \notin {"done", "failed"} /\ q.list = put[c].list
    BY <1>1 DEF With
  <1> HIDE DEF q
  <1> QED
    BY <1>3, <1>4, <1>5, <1>7, <1>8, <1>9, PutGoesOn

LEMMA CheckEmptyFine ==
    ASSUME ListsInv, NEW c \in Callers, CheckEmpty(c)
    PROVE  ListsInv'
  <1> DEFINE p == put[c]
             q == With(p, "inserting", p.found, p.deleted, p.inserted)
  <1>1. p.phase = "checking" /\ p.phase \in OpenPhases
    BY DEF CheckEmpty, OpenPhases
  <1>2. /\ Calls(c) /\ PutShape(p) /\ Asks(p) /\ Knows(p, c, rows[p.list], owner[p.list])
    BY <1>1, OpenCall
  <1>3. CASE rows[p.list] # {}
    BY <1>1, <1>3, RolledBackFine DEF CheckEmpty
  <1>4. CASE rows[p.list] = {}
    <2>1. put' = [put EXCEPT ![c] = q] /\ rows' = rows /\ owner' = owner
      <3>1. put' = AtPhase(c, "inserting")
        BY <1>4 DEF CheckEmpty, PutAt, AtPhase
      <3>2. put' = PutWith(c, q)
        BY <1>2, <3>1, Records
      <3> QED
        BY <1>4, <3>2 DEF CheckEmpty, PutWith
    <2>2. PutShape(q) /\ q.phase \in OpenPhases /\ q.list = p.list
      BY DEF PutShape, OpenPhases, With
    <2>3. Asks(q) /\ p.list # "sources"
      BY <1>1, <1>2 DEF Asks, With, Locked
    <2>4. Knows(q, c, rows[q.list], owner'[q.list])
      BY <1>1, <1>2, <1>4, <2>1, <2>3 DEF Knows, With
    <2>5. put[c].phase \notin {"done", "failed"} /\ q.list = put[c].list
      BY <1>1 DEF With
    <2> HIDE DEF q
    <2> QED
      BY <2>1, <2>2, <2>3, <2>4, <2>5, PutGoesOn
  <1> QED
    BY <1>3, <1>4

(* An INSERT that is not refused has no row of others left beside its own:   *)
(* in a locked list because there is none, and of sources because the first  *)
(* priority can be taken once.                                              *)
LEMMA InsertFine ==
    ASSUME ListsInv, NEW c \in Callers, Insert(c)
    PROVE  ListsInv'
  <1> DEFINE p == put[c]
             now == rows[p.list]
             new == ToInsert(c)
             q == With(p, "written", p.found, p.deleted, new)
  <1>1. p.phase = "inserting" /\ p.phase \in OpenPhases
    BY DEF Insert, OpenPhases
  <1>2. /\ Calls(c) /\ PutShape(p) /\ Asks(p) /\ Knows(p, c, now, owner[p.list])
        /\ p.list = "sources" => Settled(p.found) /\ Settled(p.deleted)
    BY <1>1, OpenCall
  <1>3. CASE RolledBack(c)
    BY <1>1, <1>3, RolledBackFine
  <1>4. CASE ~RolledBack(c)
    <2>1. /\ ~Meets(c, now \ p.deleted)
          /\ put' = AtInserted(c, "written", new) /\ rows' = rows /\ owner' = owner
      BY <1>4 DEF Insert, AtInserted
    <2>2. put' = [put EXCEPT ![c] = q]
      <3>1. put' = PutWith(c, q)
        BY <1>2, <2>1, Records
      <3> QED
        BY <3>1 DEF PutWith
    <2>3. PutShape(q) /\ q.phase \in OpenPhases /\ q.list = p.list
      BY DEF PutShape, OpenPhases, With
    <2>4. Asks(q)
      BY <1>1, <1>2 DEF Asks, With
    <2>5. p.from = p.list => new = AsRows(p.sent, c)
      BY DEF ToInsert
    <2>6. p.list = "sources" => \E r \in new : r.position = 1
      <3> SUFFICES ASSUME p.list = "sources"  PROVE \E r \in new : r.position = 1
        OBVIOUS
      <3> DEFINE first == [position |-> 1, entry |-> p.sent[1], by |-> c]
      <3>1. new = AsRows(p.sent, c) /\ p.sent \in Sent
        BY <1>2, <2>5 DEF Asks
      <3>2. 1 \in 1..Len(p.sent)
        BY <3>1, SentAssumption
      <3>3. first \in new
        BY <3>1, <3>2 DEF AsRows
      <3> QED
        BY <3>3
    <2>7. now \subseteq p.deleted
      <3>1. CASE p.deleted = now
        BY <3>1
      <3>2. CASE p.deleted # now
        <4>1. p.list = "sources" /\ p.deleted \cap now = {}
          BY <1>1, <1>2, <3>2 DEF Knows
        <4>2. PICK r \in new : r.position = 1
          BY <2>6, <4>1
        <4>3. \A s \in now : s.position # 1
          BY <2>1, <4>1, <4>2 DEF Meets, Collide
        <4>4. now = {}
          BY <4>1, <4>3 DEF ListsInv, OneCallers
        <4> QED
          BY <4>4
      <3> QED
        BY <3>1, <3>2
    <2>8. Knows(q, c, rows[q.list], owner'[q.list])
      <3>1. /\ q.list = p.list /\ q.op = p.op /\ q.sent = p.sent /\ q.from = p.from
            /\ q.deleted = p.deleted /\ q.inserted = new /\ q.phase = "written"
        BY DEF With
      <3> HIDE DEF q, new
      <3> QED
        BY <1>1, <1>2, <2>1, <2>5, <2>7, <3>1 DEF Knows
    <2>9. q.list = "sources" => Settled(q.found) /\ Settled(q.deleted)
      BY <1>2 DEF With
    <2>10. ASSUME p.list = "sources", NEW d \in Callers \ {c}, Calls(d), put[d].list = "sources"
           PROVE  put[d].phase # "written"
      <3> SUFFICES ASSUME put[d].phase = "written"  PROVE FALSE
        OBVIOUS
      <3>1. Asks(put[d]) /\ Knows(put[d], d, rows["sources"], owner["sources"])
        BY <2>10, OpenCall DEF Calls
      <3>2. put[d].inserted = AsRows(put[d].sent, d) /\ put[d].sent \in Sent
        BY <2>10, <3>1 DEF Knows, Asks
      <3> DEFINE first == [position |-> 1, entry |-> put[d].sent[1], by |-> d]
      <3>3. 1 \in 1..Len(put[d].sent)
        BY <3>2, SentAssumption
      <3>4. first \in put[d].inserted
        BY <3>2, <3>3 DEF AsRows
      <3>5. PICK r \in new : r.position = 1
        BY <2>6, <2>10
      <3>6. Collide("sources", r, first)
        BY <3>5 DEF Collide
      <3>7. d \in Others(c)
        BY <2>10 DEF Others, OpenPuts, Calls, OpenPhases
      <3>8. ~Meets(c, put[d].inserted \cup (put[d].deleted \cap rows[put[c].list]))
        BY <3>7 DEF Insert
      <3> HIDE DEF first
      <3> QED
        BY <2>10, <3>4, <3>5, <3>6, <3>8 DEF Meets
    <2>11. put[c].phase \notin {"done", "failed"} /\ q.list = put[c].list
      BY <1>1 DEF With
    <2> HIDE DEF q
    <2> QED
      BY <2>1, <2>2, <2>3, <2>4, <2>8, <2>9, <2>10, <2>11, PutGoesOn
  <1> QED
    BY <1>3, <1>4

(* A call that commits leaves its own rows and no other. *)
LEMMA CommitLeavesItsRows ==
    ASSUME ListsInv, NEW c \in Callers, CommitPut(c)
    PROVE  /\ put[c].phase \in OpenPhases /\ put[c].phase = "written"
           /\ rows' = [rows EXCEPT ![put[c].list] = put[c].inserted]
           /\ rows'[put[c].list] = put[c].inserted
  <1>1. put[c].phase \in OpenPhases /\ put[c].phase = "written"
    BY DEF CommitPut, OpenPhases
  <1>2. Asks(put[c]) /\ Knows(put[c], c, rows[put[c].list], owner[put[c].list])
    BY <1>1, OpenCall
  <1>3. rows[put[c].list] \subseteq put[c].deleted
    BY <1>1, <1>2 DEF Knows
  <1>4. (rows[put[c].list] \ put[c].deleted) \cup put[c].inserted = put[c].inserted
    BY <1>3
  <1>5. put[c].list \in Lists
    BY <1>2 DEF Asks
  <1> QED
    BY <1>1, <1>4, <1>5 DEF CommitPut, ListsInv

LEMMA CommitFine ==
    ASSUME ListsInv, NEW c \in Callers, CommitPut(c)
    PROVE  ListsInv'
  <1>1. Calls(c) /\ owner' = OwnersWithout(c) /\ PutAt(c, "done")
    BY CommitLeavesItsRows DEF CommitPut, Calls
  <1> QED
    BY <1>1, CommitLeavesItsRows, PutEnds

(* One step per statement. *)
LEMMA ListsStep == ListsInv /\ [ListsNext]_listsVars => ListsInv'
  <1> SUFFICES ASSUME ListsInv, [ListsNext]_listsVars  PROVE ListsInv'
    OBVIOUS
  <1>1. ASSUME NEW c \in Callers, c \in OpenPuts, RolledBack(c)  PROVE ListsInv'
    <2>1. put[c].phase \in OpenPhases
      BY <1>1 DEF ListsInv, OpenPuts, Calls, NotPut
    <2> QED
      BY <1>1, <2>1, RolledBackFine
  <1>2. CASE UNCHANGED listsVars
    BY <1>2 DEF listsVars, ListsInv, Calls, PutIsFine, OneCallers, Settled
  <1>3. CASE ListsNext
    BY <1>1, <1>3, BeginsFine, LockOwnerFine, DeleteBeginsFine, DeleteEndsFine, CheckEmptyFine,
       InsertFine, CommitFine DEF ListsNext
  <1> QED
    BY <1>2, <1>3

LEMMA ListsBegin == ListsInit => ListsInv
  <1> SUFFICES ASSUME ListsInit  PROVE ListsInv
    OBVIOUS
  <1>1. PICK list \in Stored : rows["sources"] = AsRows(list, NoCall)
    BY DEF ListsInit, Lists
  <1>2. \A r \in rows["sources"] : r.by = NoCall
    BY <1>1 DEF AsRows
  <1>3. ASSUME rows["sources"] # {}  PROVE \E r \in rows["sources"] : r.position = 1
    <2> DEFINE first == [position |-> 1, entry |-> list[1], by |-> NoCall]
    <2>1. Len(list) \in Nat
      BY StoredAssumption
    <2>2. PICK i : i \in 1..Len(list)
      BY <1>1, <1>3 DEF AsRows
    <2>3. 1 \in 1..Len(list)
      BY <2>1, <2>2
    <2>4. first \in rows["sources"]
      BY <1>1, <2>3 DEF AsRows
    <2> QED
      BY <2>4
  <1>4. OneCallers(rows["sources"]) /\ Settled(rows["sources"])
    BY <1>2, <1>3, CallersAssumption DEF OneCallers, Settled
  <1>5. \A c \in Callers : put[c] = NotPut /\ ~Calls(c)
    BY DEF ListsInit, NotPut, Calls, OpenPhases
  <1>6. /\ rows = [l \in Lists |-> rows[l]]
        /\ owner = [l \in Lists |-> owner[l]] /\ put = [c \in Callers |-> put[c]]
        /\ \A l \in Lists : owner[l] = NoCall
    BY DEF ListsInit
  <1> QED
    BY <1>4, <1>5, <1>6 DEF ListsInv

(* setProjectSources, the discipline rules and the required sections, which  *)
(* "replace wholesale" by a DELETE and an INSERT: whatever other calls do    *)
(* meanwhile, a call that succeeds leaves the list it was sent and nothing   *)
(* else, a seed has filled an empty list, and a clear says truthfully        *)
(* whether there was anything to clear.                                     *)
THEOREM ReplacementIsWhole == ListsSpec => LastCallWins
  <1> DEFINE Whole ==
        \A c \in Callers :
          put[c].phase = "written" /\ put'[c].phase = "done" =>
            LET before == rows[put[c].list]
                after == rows'[put[c].list]
            IN /\ IF put[c].from = put[c].list THEN Listed(after) = Listed(AsRows(put[c].sent, c))
                  ELSE after = put[c].inserted
               /\ put[c].op = "seed" => before = {}
               /\ put[c].op = "clear" => (put[c].deleted # {} <=> before # {})
  <1>1. ASSUME ListsInv, NEW c \in Callers, CommitPut(c), put[c].phase = "written"
        PROVE  LET before == rows[put[c].list]
                   after == rows'[put[c].list]
               IN /\ IF put[c].from = put[c].list THEN Listed(after) = Listed(AsRows(put[c].sent, c))
                     ELSE after = put[c].inserted
                  /\ put[c].op = "seed" => before = {}
                  /\ put[c].op = "clear" => (put[c].deleted # {} <=> before # {})
    <2>1. put[c].phase \in OpenPhases /\ rows'[put[c].list] = put[c].inserted
      BY <1>1, CommitLeavesItsRows
    <2>2. Asks(put[c]) /\ Knows(put[c], c, rows[put[c].list], owner[put[c].list])
      BY <1>1, <2>1, OpenCall
    <2>3. put[c].from = put[c].list => put[c].inserted = AsRows(put[c].sent, c)
      BY <1>1, <2>2 DEF Knows
    <2>4. put[c].op = "seed" => rows[put[c].list] = {}
      BY <1>1, <2>2 DEF Knows
    <2>5. put[c].op = "clear" => put[c].deleted = rows[put[c].list]
      BY <1>1, <2>2 DEF Knows, Asks
    <2> QED
      BY <2>1, <2>3, <2>4, <2>5
  <1>2. ASSUME ListsInv, NEW c \in Callers, NEW d \in Callers, put[c].phase = "written",
               \/ PutBegins(d) \/ LockOwner(d) \/ DeleteBegins(d) \/ DeleteEnds(d)
               \/ CheckEmpty(d) \/ Insert(d) \/ RolledBack(d)
        PROVE  put'[c].phase # "done"
    <2>1. PutShape(put[c])
      BY <1>2, OpenCall DEF OpenPhases
    <2>2. CASE c # d
      BY <1>2, <2>2 DEF ListsInv, PutBegins, LockOwner, DeleteBegins, DeleteEnds, CheckEmpty,
                        Insert, RolledBack, PutAt
    <2>3. CASE c = d
      <3>1. RolledBack(c)
        BY <1>2, <2>3 DEF PutBegins, LockOwner, DeleteBegins, DeleteEnds, CheckEmpty, Insert, NotPut
      <3>2. put'[c] = [put[c] EXCEPT !.phase = "failed"]
        BY <1>2, <3>1 DEF RolledBack, PutAt, ListsInv
      <3>3. put'[c] = With(put[c], "failed", put[c].found, put[c].deleted, put[c].inserted)
        BY <2>1, <3>2, FieldByField
      <3> QED
        BY <3>3 DEF With
    <2> QED
      BY <2>2, <2>3
  <1>3. ListsInv /\ [ListsNext]_listsVars => [Whole]_listsVars
    <2> SUFFICES ASSUME ListsInv, ListsNext  PROVE Whole
      OBVIOUS
    <2> SUFFICES ASSUME NEW c \in Callers, put[c].phase = "written", put'[c].phase = "done"
                 PROVE  LET before == rows[put[c].list]
                            after == rows'[put[c].list]
                        IN /\ IF put[c].from = put[c].list
                              THEN Listed(after) = Listed(AsRows(put[c].sent, c))
                              ELSE after = put[c].inserted
                           /\ put[c].op = "seed" => before = {}
                           /\ put[c].op = "clear" => (put[c].deleted # {} <=> before # {})
      OBVIOUS
    <2>1. PICK d \in Callers : CommitPut(d)
      BY <1>2 DEF ListsNext
    <2>2. c = d
      <3> SUFFICES ASSUME c # d  PROVE FALSE
        OBVIOUS
      <3>1. put'[c] = put[c]
        BY <2>1 DEF CommitPut, PutAt, ListsInv
      <3> QED
        BY <3>1
    <2> QED
      BY <1>1, <2>1, <2>2
  <1> QED
    BY <1>3, ListsBegin, ListsStep, PTL DEF ListsSpec, LastCallWins

-----------------------------------------------------------------------------
(* Division general specs: the inductive invariant. *)

BringPhases == {"idle", "reconciling", "upserting", "reconciled"}
AskPhases == {"new", "choosing", "reading", "finding", "upserting", "answered", "failed"}
BringRow == [at : BringPhases, found : Exact \cup {Unset}]
AskRow == [at : AskPhases, found : Sections \cup {Unset}, quiet : BOOLEAN,
           answer : Configs \cup {Unset}]

GeneralTypes ==
    /\ scope \in {"library", "project"}
    /\ present \subseteq Sections
    /\ created \in Seq(Exact)
    /\ config \in Configs \cup {Unset}
    /\ writer \in Sections \cup {NoWriter}
    /\ bringing \in [Sections -> BringRow]
    /\ asking \in [Askers -> AskRow]

Numbered == {created[i] : i \in DOMAIN created}

(* A spec with the number is ordered from the beginning of the transaction   *)
(* that brings it until it is removed,                                      *)
Ordered ==
    \A s \in Exact : s \in present \/ bringing[s].at # "idle" => s \in Numbered

(* a project is not brought what it has,                                    *)
BroughtOnce ==
    \A s \in Sections : scope = "project" /\ bringing[s].at # "idle" => s \notin present

(* who holds the row has found a spec that is still there when it commits,   *)
WriterFound ==
    \A s \in Sections :
        /\ bringing[s].at = "upserting" => bringing[s].found # Unset
        /\ writer = s => /\ bringing[s].at = "reconciled"
                         /\ IsManual \/ bringing[s].found \in present \cup {s}

(* the row names one that is there unless somebody has chosen,              *)
FoundIsThere == config # Unset /\ ~IsManual => config.general \in present \cap Exact

(* and a call that no choice has disturbed since it found no row will find   *)
(* no choice there.                                                         *)
NothingChosen ==
    \A a \in Askers :
        /\ asking[a].at \in {"finding", "upserting"} /\ asking[a].quiet => ~IsManual
        /\ asking[a].at = "upserting" => asking[a].found \in Exact

GeneralInv ==
    GeneralTypes /\ Ordered /\ BroughtOnce /\ WriterFound /\ FoundIsThere /\ NothingChosen

-----------------------------------------------------------------------------
(* Looking for the spec with the number finds one that is visible, and fails *)
(* only if there is none.                                                   *)
LEMMA FindExactFinds ==
    ASSUME GeneralTypes, NEW visible
    PROVE  IF Numbered \cap visible = {} THEN FindExact(visible) = Unset
           ELSE FindExact(visible) \in visible \cap Exact
  <1> DEFINE found == {i \in DOMAIN created : created[i] \in visible}
  <1>1. found = {} <=> Numbered \cap visible = {}
    BY DEF Numbered
  <1>2. CASE found = {}
    BY <1>1, <1>2 DEF FindExact
  <1>3. CASE found # {}
    <2>1. found \subseteq Nat /\ created \in Seq(Exact)
      BY DEF GeneralTypes
    <2>2. \E i \in found : \A j \in found : i <= j
      <3> DEFINE R == OpToRel(<, Nat)
      <3>1. IsWellFoundedOn(R, Nat)
        BY NatLessThanWellFounded
      <3>2. \A m, n \in Nat : m < n => <<m, n>> \in R
        BY DEF OpToRel
      <3> HIDE DEF R, found
      <3>3. PICK i \in found : \A j \in found : ~ (<<j, i>> \in R)
        BY <1>3, <2>1, <3>1, WFMin
      <3>4. \A j \in found : j \in Nat /\ i \in Nat /\ ~ (j < i)
        BY <2>1, <3>2, <3>3
      <3> QED
        BY <3>4
    <2> DEFINE first == CHOOSE i \in found : \A j \in found : i <= j
    <2>3. first \in found
      <3> HIDE DEF found
      <3> QED
        BY <2>2
    <2>4. FindExact(visible) = created[first]
      BY <1>3 DEF FindExact
    <2> HIDE DEF first
    <2>5. created[first] \in visible /\ created[first] \in Exact
      BY <2>1, <2>3
    <2> QED
      BY <1>1, <1>3, <2>4, <2>5
  <1> QED
    BY <1>2, <1>3

(* Taking a spec out of the order keeps every other there. *)
LEMMA WithoutKeeps ==
    ASSUME GeneralTypes, NEW s
    PROVE  /\ Without(s) \in Seq(Exact)
           /\ \A o \in Numbered : o # s => \E j \in DOMAIN Without(s) : Without(s)[j] = o
  <1>1. CASE \A j \in DOMAIN created : created[j] # s
    BY <1>1 DEF Without, Numbered, GeneralTypes
  <1>2. CASE ~(\A j \in DOMAIN created : created[j] # s)
    <2> DEFINE i == CHOOSE j \in DOMAIN created : created[j] = s
               n == Len(created) - 1
               rest == [j \in 1..n |-> created[IF j < i THEN j ELSE j + 1]]
    <2>1. i \in DOMAIN created /\ created[i] = s
      BY <1>2
    <2>2. Without(s) = rest
      BY <1>2 DEF Without
    <2> HIDE DEF i
    <2>3. /\ created \in Seq(Exact) /\ DOMAIN created = 1..Len(created) /\ Len(created) \in Nat
          /\ i \in 1..Len(created) /\ n \in Nat
      BY <2>1 DEF GeneralTypes
    <2>4. rest \in [1..n -> Exact]
      BY <2>3
    <2>5. rest \in Seq(Exact)
      BY <2>3, <2>4
    <2>6. ASSUME NEW o \in Numbered, o # s  PROVE \E j \in 1..n : rest[j] = o
      <3>1. PICK k \in 1..Len(created) : created[k] = o
        BY <2>3 DEF Numbered
      <3>2. k # i
        BY <2>1, <2>6, <3>1
      <3>3. CASE k < i
        <4>1. k \in 1..n /\ rest[k] = o
          BY <2>3, <3>1, <3>3
        <4> QED
          BY <4>1
      <3>4. CASE k > i
        <4>1. k - 1 \in 1..n /\ ~(k - 1 < i) /\ (k - 1) + 1 = k
          BY <2>3, <3>1, <3>4
        <4>2. rest[k - 1] = o
          BY <3>1, <4>1
        <4> QED
          BY <4>1, <4>2
      <3> QED
        BY <2>3, <3>1, <3>2, <3>3, <3>4
    <2>7. DOMAIN rest = 1..n
      OBVIOUS
    <2> HIDE DEF rest
    <2> QED
      BY <2>2, <2>5, <2>6, <2>7
  <1> QED
    BY <1>1, <1>2

(* What the guarded upsert leaves. *)
LEMMA UpsertedIs ==
    ASSUME GeneralTypes, NEW s \in Sections
    PROVE  /\ Upserted(s) \in Configs /\ Upserted(s) # Unset
           /\ IsManual => Upserted(s) = config
           /\ ~IsManual => /\ Upserted(s) = Automatic(s) /\ Upserted(s).general = s
                           /\ Upserted(s).method = "exact_section"
  <1>1. Automatic(s) \in Configs /\ Automatic(s).general = s /\ Automatic(s).method = "exact_section"
    BY DEF Automatic, Configs
  <1>2. IsManual => config \in Configs
    BY DEF GeneralTypes, IsManual
  <1> QED
    BY <1>1, <1>2, ConfigAssumption DEF Upserted

(* A disturbance changes nothing of a call but that it is no longer quiet.   *)
LEMMA DisturbedIs ==
    ASSUME GeneralTypes, NEW but
    PROVE  /\ Disturbed(but) \in [Askers -> AskRow]
           /\ \A a \in Askers : LET b == Disturbed(but)[a] IN
                /\ b.at = asking[a].at /\ b.found = asking[a].found
                /\ b.answer = asking[a].answer
                /\ b.quiet => asking[a].quiet
                /\ a = but \/ b.at \in {"new", "answered", "failed"} \/ ~b.quiet
  <1>1. \A a \in Askers : asking[a] \in AskRow
    BY DEF GeneralTypes
  <1>2. ASSUME NEW a \in Askers
        PROVE  LET b == [asking[a] EXCEPT !.quiet = FALSE] IN
               /\ b \in AskRow /\ b.at = asking[a].at /\ b.found = asking[a].found
               /\ b.answer = asking[a].answer /\ b.quiet = FALSE
    BY <1>1 DEF AskRow
  <1> QED
    BY <1>1, <1>2 DEF Disturbed

-----------------------------------------------------------------------------
(* One lemma per action. *)

LEMMA BringFine ==
    ASSUME GeneralInv, NEW s \in Sections, Bring(s)
    PROVE  GeneralInv'
  <1> DEFINE row == [at |-> "reconciling", found |-> Unset]
  <1>1. /\ bringing' = [bringing EXCEPT ![s] = row] /\ bringing[s].at = "idle"
        /\ UNCHANGED <<scope, present, config, writer, asking>>
        /\ scope = "project" => s \notin present
    BY DEF Bring, GeneralInv, GeneralTypes
  <1>2. /\ created' \in Seq(Exact) /\ Numbered \subseteq Numbered'
        /\ s \in Exact \ present => s \in Numbered'
    <2>1. created \in Seq(Exact)
      BY DEF GeneralInv, GeneralTypes
    <2>2. CASE s \in Exact \ present
      <3>1. created' = Append(created, s)
        BY <2>2 DEF Bring
      <3>2. /\ Append(created, s) \in Seq(Exact)
            /\ DOMAIN Append(created, s) = 1..Len(created) + 1
            /\ Append(created, s)[Len(created) + 1] = s
            /\ \A i \in DOMAIN created : i \in 1..Len(created) + 1 /\ Append(created, s)[i] = created[i]
            /\ Len(created) + 1 \in 1..Len(created) + 1
        BY <2>1, <2>2
      <3> QED
        BY <3>1, <3>2 DEF Numbered
    <2>3. CASE s \notin Exact \ present
      BY <2>1, <2>3 DEF Bring, Numbered
    <2> QED
      BY <2>2, <2>3
  <1>3. row \in BringRow /\ row.at = "reconciling"
    BY DEF BringRow, BringPhases
  <1>4. /\ bringing' \in [Sections -> BringRow]
        /\ \A o \in Sections : bringing'[o] = IF o = s THEN row ELSE bringing[o]
    BY <1>1, <1>3 DEF GeneralInv, GeneralTypes
  <1> HIDE DEF row
  <1>5. GeneralTypes'
    BY <1>1, <1>2, <1>4 DEF GeneralInv, GeneralTypes
  <1>6. Ordered'
    BY <1>1, <1>2, <1>4, ExactAssumption DEF GeneralInv, Ordered
  <1>7. BroughtOnce'
    BY <1>1, <1>4 DEF GeneralInv, BroughtOnce
  <1>8. WriterFound'
    BY <1>1, <1>3, <1>4 DEF GeneralInv, WriterFound, IsManual
  <1>9. FoundIsThere' /\ NothingChosen'
    BY <1>1 DEF GeneralInv, FoundIsThere, NothingChosen, IsManual
  <1> QED
    BY <1>5, <1>6, <1>7, <1>8, <1>9 DEF GeneralInv

LEMMA ReconcileFine ==
    ASSUME GeneralInv, NEW s \in Sections, Reconcile(s)
    PROVE  GeneralInv'
  <1> DEFINE found == ReconcileReads(s)
             row == [at |-> IF found = Unset THEN "reconciled" ELSE "upserting", found |-> found]
  <1>1. found \in Exact \cup {Unset}
    BY FindExactFinds DEF ReconcileReads, GeneralInv
  <1>2. row \in BringRow /\ row.at \in {"reconciled", "upserting"}
        /\ (row.at = "upserting" => row.found # Unset)
    BY <1>1 DEF BringRow, BringPhases
  <1>3. /\ bringing' = [bringing EXCEPT ![s] = row] /\ bringing[s].at = "reconciling"
        /\ UNCHANGED <<scope, present, created, config, writer, asking>>
    BY DEF Reconcile
  <1> HIDE DEF row
  <1>4. /\ bringing' \in [Sections -> BringRow]
        /\ \A o \in Sections : bringing'[o] = IF o = s THEN row ELSE bringing[o]
    BY <1>2, <1>3 DEF GeneralInv, GeneralTypes
  <1>5. GeneralTypes'
    BY <1>3, <1>4 DEF GeneralInv, GeneralTypes
  <1>6. Ordered'
    BY <1>2, <1>3, <1>4, ExactAssumption DEF GeneralInv, Ordered, Numbered
  <1>7. BroughtOnce'
    BY <1>3, <1>4 DEF GeneralInv, BroughtOnce
  <1>8. WriterFound'
    BY <1>2, <1>3, <1>4 DEF GeneralInv, WriterFound, IsManual
  <1>9. FoundIsThere' /\ NothingChosen'
    BY <1>3 DEF GeneralInv, FoundIsThere, NothingChosen, IsManual
  <1> QED
    BY <1>5, <1>6, <1>7, <1>8, <1>9 DEF GeneralInv

LEMMA BringFailsFine ==
    ASSUME GeneralInv, NEW s \in Sections, BringFails(s)
    PROVE  GeneralInv'
  <1> DEFINE row == [at |-> "idle", found |-> Unset]
  <1>1. /\ bringing' = [bringing EXCEPT ![s] = row]
        /\ writer' = IF writer = s THEN NoWriter ELSE writer
        /\ created' = IF s \in present THEN created ELSE Without(s)
        /\ UNCHANGED <<scope, present, config, asking>>
    BY DEF BringFails
  <1>2. row \in BringRow /\ row.at = "idle"
    BY DEF BringRow, BringPhases
  <1> HIDE DEF row
  <1>3. /\ bringing' \in [Sections -> BringRow]
        /\ \A o \in Sections : bringing'[o] = IF o = s THEN row ELSE bringing[o]
    BY <1>1, <1>2 DEF GeneralInv, GeneralTypes
  <1>4. created' \in Seq(Exact) /\ \A o \in Numbered : o # s \/ s \in present => o \in Numbered'
    <2>1. CASE s \in present
      BY <1>1, <2>1 DEF Numbered, GeneralInv, GeneralTypes
    <2>2. CASE s \notin present
      BY <1>1, <2>2, WithoutKeeps DEF Numbered, GeneralInv
    <2> QED
      BY <2>1, <2>2
  <1>5. writer' \in Sections \cup {NoWriter} /\ writer' # s /\ (writer' = writer \/ writer' = NoWriter)
    BY <1>1, NoWriterAssumption DEF GeneralInv, GeneralTypes
  <1>6. GeneralTypes'
    BY <1>1, <1>3, <1>4, <1>5 DEF GeneralInv, GeneralTypes
  <1>7. Ordered'
    <2> SUFFICES ASSUME NEW o \in Exact, o \in present' \/ bringing'[o].at # "idle"
                 PROVE  o \in Numbered'
      BY DEF Ordered
    <2>1. o \in present \/ bringing[o].at # "idle"
      BY <1>1, <1>2, <1>3, ExactAssumption
    <2>2. o \in Numbered
      BY <2>1 DEF GeneralInv, Ordered
    <2>3. o # s \/ s \in present
      BY <1>1, <1>2, <1>3, ExactAssumption
    <2> QED
      BY <1>4, <2>2, <2>3
  <1>8. BroughtOnce'
    BY <1>1, <1>2, <1>3 DEF GeneralInv, BroughtOnce
  <1>9. WriterFound'
    <2> SUFFICES ASSUME NEW o \in Sections
                 PROVE  /\ bringing'[o].at = "upserting" => bringing'[o].found # Unset
                        /\ writer' = o => /\ bringing'[o].at = "reconciled"
                                          /\ IsManual' \/ bringing'[o].found \in present' \cup {o}
      BY DEF WriterFound
    <2>1. bringing'[o].at = "upserting" => bringing'[o].found # Unset
      BY <1>2, <1>3 DEF GeneralInv, WriterFound
    <2>2. ASSUME writer' = o  PROVE bringing'[o] = bringing[o] /\ writer = o
      BY <1>3, <1>5, <2>2, NoWriterAssumption
    <2> QED
      BY <1>1, <2>1, <2>2 DEF GeneralInv, WriterFound, IsManual
  <1>10. FoundIsThere' /\ NothingChosen'
    BY <1>1 DEF GeneralInv, FoundIsThere, NothingChosen, IsManual
  <1> QED
    BY <1>6, <1>7, <1>8, <1>9, <1>10 DEF GeneralInv

LEMMA ReconcileWritesFine ==
    ASSUME GeneralInv, NEW s \in Sections, ReconcileWrites(s)
    PROVE  GeneralInv'
  <1>1. CASE ~IsManual /\ bringing[s].found \notin present \cup {s}
    BY <1>1, BringFailsFine DEF ReconcileWrites
  <1>2. CASE IsManual \/ bringing[s].found \in present \cup {s}
    <2> DEFINE row == [bringing[s] EXCEPT !.at = "reconciled"]
    <2>1. /\ bringing' = [bringing EXCEPT ![s] = row] /\ writer' = s /\ writer = NoWriter
          /\ bringing[s].at = "upserting"
          /\ UNCHANGED <<scope, present, created, config, asking>>
      BY <1>2 DEF ReconcileWrites
    <2>2. row \in BringRow /\ row.at = "reconciled" /\ row.found = bringing[s].found
      BY DEF GeneralInv, GeneralTypes, BringRow, BringPhases
    <2> HIDE DEF row
    <2>3. /\ bringing' \in [Sections -> BringRow]
          /\ \A o \in Sections : bringing'[o] = IF o = s THEN row ELSE bringing[o]
      BY <2>1, <2>2 DEF GeneralInv, GeneralTypes
    <2>4. GeneralTypes'
      BY <2>1, <2>3 DEF GeneralInv, GeneralTypes
    <2>5. Ordered'
      BY <2>1, <2>2, <2>3, ExactAssumption DEF GeneralInv, Ordered, Numbered
    <2>6. BroughtOnce'
      BY <2>1, <2>2, <2>3 DEF GeneralInv, BroughtOnce
    <2>7. WriterFound'
      BY <1>2, <2>1, <2>2, <2>3 DEF GeneralInv, WriterFound, IsManual
    <2>8. FoundIsThere' /\ NothingChosen'
      BY <2>1 DEF GeneralInv, FoundIsThere, NothingChosen, IsManual
    <2> QED
      BY <2>4, <2>5, <2>6, <2>7, <2>8 DEF GeneralInv
  <1> QED
    BY <1>1, <1>2

LEMMA BringCommitsFine ==
    ASSUME GeneralInv, NEW s \in Sections, BringCommits(s)
    PROVE  GeneralInv' /\ (IsManual => config' = config)
  <1> DEFINE row == [at |-> "idle", found |-> Unset]
  <1>1. /\ bringing' = [bringing EXCEPT ![s] = row]
        /\ writer' = IF writer = s THEN NoWriter ELSE writer
        /\ present' = present \cup {s}
        /\ config' = IF writer = s THEN Upserted(bringing[s].found) ELSE config
        /\ bringing[s].at = "reconciled"
        /\ UNCHANGED <<scope, created, asking>>
    BY DEF BringCommits
  <1>2. row \in BringRow /\ row.at = "idle"
    BY DEF BringRow, BringPhases
  <1> HIDE DEF row
  <1>3. /\ bringing' \in [Sections -> BringRow]
        /\ \A o \in Sections : bringing'[o] = IF o = s THEN row ELSE bringing[o]
    BY <1>1, <1>2 DEF GeneralInv, GeneralTypes
  <1>4. /\ config' \in Configs \cup {Unset} /\ (IsManual => config' = config)
        /\ ~IsManual => config' = config
                        \/ (config'.general = bringing[s].found /\ bringing[s].found \in present' \cap Exact
                            /\ config'.method = "exact_section" /\ config' # Unset)
    <2>1. CASE writer # s
      BY <1>1, <2>1 DEF GeneralInv, GeneralTypes
    <2>2. CASE writer = s /\ IsManual
      BY <1>1, <2>2 DEF GeneralInv, GeneralTypes, Upserted
    <2>3. CASE writer = s /\ ~IsManual
      <3>1. bringing[s].found \in present \cup {s} /\ bringing[s].found \in Exact \cup {Unset}
        BY <2>3 DEF GeneralInv, WriterFound, GeneralTypes, BringRow
      <3>2. bringing[s].found \in Sections /\ bringing[s].found \in Exact
        BY <3>1, UnsetAssumption, ExactAssumption DEF GeneralInv, GeneralTypes
      <3> QED
        BY <1>1, <2>3, <3>1, <3>2, UpsertedIs DEF GeneralInv
    <2> QED
      BY <2>1, <2>2, <2>3
  <1>5. ~IsManual => ~IsManual'
    BY <1>4 DEF IsManual
  <1>6. writer' \in Sections \cup {NoWriter} /\ writer' # s /\ (writer' = writer \/ writer' = NoWriter)
    BY <1>1, NoWriterAssumption DEF GeneralInv, GeneralTypes
  <1>7. GeneralTypes'
    BY <1>1, <1>3, <1>4, <1>6 DEF GeneralInv, GeneralTypes
  <1>8. Ordered'
    BY <1>1, <1>2, <1>3, ExactAssumption DEF GeneralInv, Ordered, Numbered
  <1>9. BroughtOnce'
    BY <1>1, <1>2, <1>3 DEF GeneralInv, BroughtOnce
  <1>10. WriterFound'
    <2> SUFFICES ASSUME NEW o \in Sections
                 PROVE  /\ bringing'[o].at = "upserting" => bringing'[o].found # Unset
                        /\ writer' = o => /\ bringing'[o].at = "reconciled"
                                          /\ IsManual' \/ bringing'[o].found \in present' \cup {o}
      BY DEF WriterFound
    <2>1. bringing'[o].at = "upserting" => bringing'[o].found # Unset
      BY <1>2, <1>3 DEF GeneralInv, WriterFound
    <2>2. ASSUME writer' = o  PROVE bringing'[o] = bringing[o] /\ writer = o
      BY <1>3, <1>6, <2>2, NoWriterAssumption
    <2>3. IsManual => IsManual'
      BY <1>4 DEF IsManual
    <2> QED
      BY <1>1, <2>1, <2>2, <2>3 DEF GeneralInv, WriterFound
  <1>11. FoundIsThere'
    <2>1. CASE IsManual
      BY <1>4, <2>1 DEF FoundIsThere, IsManual
    <2>2. CASE ~IsManual
      BY <1>1, <1>4, <2>2 DEF GeneralInv, FoundIsThere, IsManual
    <2> QED
      BY <2>1, <2>2
  <1>12. NothingChosen'
    BY <1>1, <1>5 DEF GeneralInv, NothingChosen
  <1> QED
    BY <1>4, <1>7, <1>8, <1>9, <1>10, <1>11, <1>12 DEF GeneralInv

LEMMA RemoveSpecFine ==
    ASSUME GeneralInv, NEW s \in Sections, RemoveSpec(s)
    PROVE  /\ GeneralInv'
           /\ config' # config => config.general \in present \ present'
           /\ \A a \in Askers : asking'[a].at = asking[a].at
  <1>1. /\ scope = "project" /\ s \in present /\ present' = present \ {s} /\ created' = Without(s)
        /\ config' = IF Names(s) THEN Unset ELSE config
        /\ asking' = Disturbed(NoWriter) /\ UNCHANGED <<scope, writer, bringing>>
        /\ writer # NoWriter => ~Names(s) /\ bringing[writer].found # s
    BY DEF RemoveSpec
  <1>2. created' \in Seq(Exact) /\ \A o \in Numbered : o # s => o \in Numbered'
    BY <1>1, WithoutKeeps DEF GeneralInv, Numbered
  <1>3. /\ asking' \in [Askers -> AskRow]
        /\ \A a \in Askers : /\ asking'[a].at = asking[a].at /\ asking'[a].found = asking[a].found
                             /\ asking'[a].quiet => asking[a].quiet
    BY <1>1, DisturbedIs DEF GeneralInv
  <1>4. config' \in {config, Unset} /\ (IsManual' => IsManual)
    BY <1>1 DEF IsManual
  <1>5. GeneralTypes'
    BY <1>1, <1>2, <1>3, <1>4 DEF GeneralInv, GeneralTypes
  <1>6. Ordered'
    <2> SUFFICES ASSUME NEW o \in Exact, o \in present' \/ bringing'[o].at # "idle"
                 PROVE  o \in Numbered'
      BY DEF Ordered
    <2>1. o \in Numbered
      BY <1>1 DEF GeneralInv, Ordered
    <2>2. o # s
      BY <1>1, ExactAssumption DEF GeneralInv, BroughtOnce
    <2> QED
      BY <1>2, <2>1, <2>2
  <1>7. BroughtOnce'
    BY <1>1 DEF GeneralInv, BroughtOnce
  <1>8. WriterFound'
    <2> SUFFICES ASSUME NEW o \in Sections
                 PROVE  /\ bringing'[o].at = "upserting" => bringing'[o].found # Unset
                        /\ writer' = o => /\ bringing'[o].at = "reconciled"
                                          /\ IsManual' \/ bringing'[o].found \in present' \cup {o}
      BY DEF WriterFound
    <2>1. writer = o => IsManual' = IsManual /\ bringing[o].found # s
      BY <1>1, NoWriterAssumption DEF IsManual
    <2> QED
      BY <1>1, <2>1 DEF GeneralInv, WriterFound
  <1>9. FoundIsThere'
    BY <1>1 DEF GeneralInv, FoundIsThere, IsManual, Names
  <1>10. NothingChosen'
    BY <1>3, <1>4 DEF GeneralInv, NothingChosen
  <1>11. config' # config => config.general \in present \ present'
    BY <1>1 DEF Names
  <1> QED
    BY <1>3, <1>5, <1>6, <1>7, <1>8, <1>9, <1>10, <1>11 DEF GeneralInv

(* A statement of a call that leaves the row alone. *)
LEMMA CallMoves ==
    ASSUME GeneralInv, NEW a \in Askers, NEW b \in AskRow, asking' = [asking EXCEPT ![a] = b],
           UNCHANGED <<scope, present, created, config, writer, bringing>>,
           b.at \in {"finding", "upserting"} /\ b.quiet => ~IsManual,
           b.at = "upserting" => b.found \in Exact
    PROVE  GeneralInv'
  <1>1. /\ asking' \in [Askers -> AskRow]
        /\ \A d \in Askers : asking'[d] = IF d = a THEN b ELSE asking[d]
    BY DEF GeneralInv, GeneralTypes
  <1>2. GeneralTypes'
    BY <1>1 DEF GeneralInv, GeneralTypes
  <1>3. Ordered' /\ BroughtOnce' /\ WriterFound' /\ FoundIsThere'
    BY DEF GeneralInv, Ordered, Numbered, BroughtOnce, WriterFound, FoundIsThere, IsManual
  <1>4. NothingChosen'
    BY <1>1 DEF GeneralInv, NothingChosen, IsManual
  <1> QED
    BY <1>2, <1>3, <1>4 DEF GeneralInv

LEMMA AskFine ==
    ASSUME GeneralInv, NEW a \in Askers, Ask(a)
    PROVE  GeneralInv' /\ asking'[a].at # "answered"
  <1> DEFINE b == [asking[a] EXCEPT !.at = "reading"]
  <1>1. b \in AskRow /\ b.at = "reading"
    BY DEF GeneralInv, GeneralTypes, AskRow, AskPhases
  <1>2. asking' = [asking EXCEPT ![a] = b] /\ asking'[a] = b
        /\ UNCHANGED <<scope, present, created, config, writer, bringing>>
    BY DEF Ask, GeneralInv, GeneralTypes
  <1> HIDE DEF b
  <1> QED
    BY <1>1, <1>2, CallMoves

LEMMA ChooseFine ==
    ASSUME GeneralInv, NEW a \in Askers, Choose(a)
    PROVE  GeneralInv' /\ asking'[a].at # "answered"
  <1>1. PICK choice \in present \cup {Unset} :
          asking' = [asking EXCEPT ![a].at = "choosing", ![a].found = choice]
    BY DEF Choose
  <1> DEFINE b == [asking[a] EXCEPT !.at = "choosing", !.found = choice]
  <1>2. b \in AskRow /\ b.at = "choosing"
    BY DEF GeneralInv, GeneralTypes, AskRow, AskPhases
  <1>3. asking' = [asking EXCEPT ![a] = b] /\ asking'[a] = b
        /\ UNCHANGED <<scope, present, created, config, writer, bringing>>
    BY <1>1 DEF Choose, GeneralInv, GeneralTypes
  <1> HIDE DEF b
  <1> QED
    BY <1>2, <1>3, CallMoves

(* The record of a call that answers. *)
LEMMA AnswersRow ==
    ASSUME GeneralInv, NEW a \in Askers, NEW answer \in Configs \cup {Unset}, Answers(a, answer)
    PROVE  \E b \in AskRow : /\ b.at = "answered" /\ b.answer = answer
                             /\ asking' = [asking EXCEPT ![a] = b] /\ asking'[a] = b
  <1> DEFINE b == [asking[a] EXCEPT !.at = "answered", !.answer = answer]
  <1>1. b \in AskRow /\ b.at = "answered" /\ b.answer = answer
    BY DEF GeneralInv, GeneralTypes, AskRow, AskPhases
  <1>2. asking' = [asking EXCEPT ![a] = b] /\ asking'[a] = b
    BY DEF Answers, GeneralInv, GeneralTypes
  <1> QED
    BY <1>1, <1>2

LEMMA ReadConfigFine ==
    ASSUME GeneralInv, NEW a \in Askers, ReadConfig(a)
    PROVE  GeneralInv' /\ (asking'[a].at = "answered" => asking'[a].answer = config')
  <1>1. UNCHANGED <<scope, present, created, config, writer, bringing>>
    BY DEF ReadConfig
  <1>2. CASE config # Unset
    <2>1. Answers(a, config) /\ config \in Configs \cup {Unset}
      BY <1>2 DEF ReadConfig, GeneralInv, GeneralTypes
    <2>2. PICK b \in AskRow : /\ b.at = "answered" /\ b.answer = config
                              /\ asking' = [asking EXCEPT ![a] = b] /\ asking'[a] = b
      BY <2>1, AnswersRow
    <2> QED
      BY <1>1, <2>2, CallMoves
  <1>3. CASE config = Unset
    <2> DEFINE b == [asking[a] EXCEPT !.at = "finding"]
    <2>1. b \in AskRow /\ b.at = "finding"
      BY DEF GeneralInv, GeneralTypes, AskRow, AskPhases
    <2>2. asking' = [asking EXCEPT ![a] = b] /\ asking'[a] = b
      BY <1>3 DEF ReadConfig, GeneralInv, GeneralTypes
    <2>3. ~IsManual
      BY <1>3 DEF IsManual
    <2> HIDE DEF b
    <2> QED
      BY <1>1, <2>1, <2>2, <2>3, CallMoves
  <1> QED
    BY <1>2, <1>3

(* A call that is undisturbed and finds no spec has met no row either: an    *)
(* automatic one would name a spec that can be found.                       *)
LEMMA ReadExactFine ==
    ASSUME GeneralInv, NEW a \in Askers, ReadExact(a)
    PROVE  GeneralInv' /\ (asking'[a].at = "answered" /\ asking[a].quiet =>
                             asking'[a].answer = config')
  <1> DEFINE found == FindExact(present)
  <1>1. /\ UNCHANGED <<scope, present, created, config, writer, bringing>>
        /\ asking[a].at = "finding"
    BY DEF ReadExact
  <1>2. IF Numbered \cap present = {} THEN found = Unset ELSE found \in present \cap Exact
    BY FindExactFinds DEF GeneralInv
  <1>3. asking[a].quiet => ~IsManual
    BY <1>1 DEF GeneralInv, NothingChosen
  <1>4. CASE found = Unset
    <2>1. Answers(a, Unset)
      BY <1>4 DEF ReadExact
    <2>2. PICK b \in AskRow : /\ b.at = "answered" /\ b.answer = Unset
                              /\ asking' = [asking EXCEPT ![a] = b] /\ asking'[a] = b
      BY <2>1, AnswersRow
    <2>3. Numbered \cap present = {}
      BY <1>2, <1>4, UnsetAssumption, ExactAssumption
    <2>4. asking[a].quiet => config = Unset
      BY <1>3, <2>3 DEF GeneralInv, FoundIsThere, Ordered
    <2> QED
      BY <1>1, <2>2, <2>4, CallMoves
  <1>5. CASE found # Unset
    <2> DEFINE b == [asking[a] EXCEPT !.at = "upserting", !.found = found]
    <2>1. found \in Exact /\ found \in Sections
      BY <1>2, <1>5, ExactAssumption
    <2>2. b \in AskRow /\ b.at = "upserting" /\ b.found = found /\ b.quiet = asking[a].quiet
      BY <2>1 DEF GeneralInv, GeneralTypes, AskRow, AskPhases
    <2>3. asking' = [asking EXCEPT ![a] = b] /\ asking'[a] = b
      BY <1>5 DEF ReadExact, GeneralInv, GeneralTypes
    <2> HIDE DEF b, found
    <2> QED
      BY <1>1, <1>3, <2>1, <2>2, <2>3, CallMoves
  <1> QED
    BY <1>4, <1>5

LEMMA UpsertExactFine ==
    ASSUME GeneralInv, NEW a \in Askers, UpsertExact(a)
    PROVE  /\ GeneralInv' /\ (IsManual => config' = config)
           /\ asking'[a].at = "answered" /\ asking[a].quiet => asking'[a].answer = config'
  <1> DEFINE found == asking[a].found
  <1>1. /\ UNCHANGED <<scope, present, created, writer, bringing>>
        /\ asking[a].at = "upserting" /\ writer = NoWriter
    BY DEF UpsertExact
  <1>2. found \in Exact /\ found \in Sections /\ (asking[a].quiet => ~IsManual)
    BY <1>1, ExactAssumption DEF GeneralInv, NothingChosen
  <1>3. CASE ~IsManual /\ found \notin present
    <2> DEFINE b == [asking[a] EXCEPT !.at = "failed"]
    <2>1. b \in AskRow /\ b.at = "failed"
      BY DEF GeneralInv, GeneralTypes, AskRow, AskPhases
    <2>2. asking' = [asking EXCEPT ![a] = b] /\ asking'[a] = b /\ config' = config
      BY <1>3 DEF UpsertExact, GeneralInv, GeneralTypes
    <2> HIDE DEF b
    <2> QED
      BY <1>1, <2>1, <2>2, CallMoves
  <1>4. CASE IsManual \/ found \in present
    <2>1. Answers(a, Automatic(found)) /\ config' = Upserted(found)
      BY <1>4 DEF UpsertExact
    <2>2. Automatic(found) \in Configs \cup {Unset}
      BY <1>2 DEF Automatic, Configs
    <2>3. PICK b \in AskRow : /\ b.at = "answered" /\ b.answer = Automatic(found)
                              /\ asking' = [asking EXCEPT ![a] = b] /\ asking'[a] = b
      BY <2>1, <2>2, AnswersRow
    <2>4. /\ config' \in Configs /\ config' # Unset
          /\ IsManual => config' = config
          /\ ~IsManual => /\ config' = Automatic(found) /\ config'.general = found
                          /\ config'.method = "exact_section"
      BY <1>2, <2>1, UpsertedIs DEF GeneralInv
    <2>5. IsManual' = IsManual
      BY <2>4 DEF IsManual
    <2>6. /\ asking' \in [Askers -> AskRow]
          /\ \A d \in Askers : asking'[d] = IF d = a THEN b ELSE asking[d]
      BY <2>3 DEF GeneralInv, GeneralTypes
    <2>7. GeneralTypes'
      BY <1>1, <2>4, <2>6 DEF GeneralInv, GeneralTypes
    <2>8. Ordered' /\ BroughtOnce'
      BY <1>1 DEF GeneralInv, Ordered, Numbered, BroughtOnce
    <2>9. WriterFound'
      BY <1>1, NoWriterAssumption DEF GeneralInv, WriterFound
    <2>10. FoundIsThere'
      BY <1>1, <1>2, <1>4, <2>4, <2>5 DEF FoundIsThere
    <2>11. NothingChosen'
      BY <2>3, <2>5, <2>6 DEF GeneralInv, NothingChosen
    <2> QED
      BY <1>2, <2>3, <2>4, <2>7, <2>8, <2>9, <2>10, <2>11 DEF GeneralInv
  <1> QED
    BY <1>3, <1>4

LEMMA UpsertManualFine ==
    ASSUME GeneralInv, NEW a \in Askers, UpsertManual(a)
    PROVE  /\ GeneralInv' /\ (config' # config => Chosen(a))
           /\ \A d \in Askers : asking'[d].at = "answered" => asking[d].at = "answered"
  <1>1. /\ UNCHANGED <<scope, present, created, writer, bringing>>
        /\ asking[a].at = "choosing" /\ writer = NoWriter
    BY DEF UpsertManual
  <1>2. CASE asking[a].found \notin present \cup {Unset}
    <2> DEFINE b == [asking[a] EXCEPT !.at = "failed"]
    <2>1. b \in AskRow /\ b.at = "failed"
      BY DEF GeneralInv, GeneralTypes, AskRow, AskPhases
    <2>2. /\ asking' = [asking EXCEPT ![a] = b] /\ config' = config
          /\ \A d \in Askers : asking'[d] = IF d = a THEN b ELSE asking[d]
      BY <1>2 DEF UpsertManual, GeneralInv, GeneralTypes
    <2> HIDE DEF b
    <2> QED
      BY <1>1, <2>1, <2>2, CallMoves
  <1>3. CASE asking[a].found \in present \cup {Unset}
    <2> DEFINE b == [Disturbed(a)[a] EXCEPT !.at = "reading", !.quiet = TRUE]
    <2>1. /\ Disturbed(a) \in [Askers -> AskRow]
          /\ \A d \in Askers : LET e == Disturbed(a)[d] IN
                /\ e.at = asking[d].at /\ e.found = asking[d].found
                /\ e.quiet => asking[d].quiet
                /\ d = a \/ e.at \in {"new", "answered", "failed"} \/ ~e.quiet
      BY DisturbedIs DEF GeneralInv
    <2>2. b \in AskRow /\ b.at = "reading"
      BY <2>1 DEF AskRow, AskPhases
    <2>3. asking' = [Disturbed(a) EXCEPT ![a] = b] /\ config' = Manual(asking[a].found)
      BY <1>3, <2>1 DEF UpsertManual
    <2> HIDE DEF b
    <2>4. /\ asking' \in [Askers -> AskRow]
          /\ \A d \in Askers : asking'[d] = IF d = a THEN b ELSE Disturbed(a)[d]
      BY <2>1, <2>2, <2>3
    <2>5. config' \in Configs /\ config'.method = "manual" /\ config' # Unset
      <3>1. asking[a].found \in Sections \cup {Unset}
        BY DEF GeneralInv, GeneralTypes, AskRow
      <3> QED
        BY <2>3, <3>1, ConfigAssumption DEF Manual, Configs
    <2>6. GeneralTypes'
      BY <1>1, <2>4, <2>5 DEF GeneralInv, GeneralTypes
    <2>7. Ordered' /\ BroughtOnce' /\ FoundIsThere'
      BY <1>1, <2>5 DEF GeneralInv, Ordered, Numbered, BroughtOnce, FoundIsThere, IsManual
    <2>8. WriterFound'
      BY <1>1, NoWriterAssumption DEF GeneralInv, WriterFound
    <2>9. NothingChosen'
      BY <2>1, <2>2, <2>4 DEF GeneralInv, NothingChosen
    <2> QED
      BY <1>1, <2>1, <2>2, <2>4, <2>6, <2>7, <2>8, <2>9 DEF GeneralInv, Chosen
  <1> QED
    BY <1>2, <1>3

-----------------------------------------------------------------------------
LEMMA GeneralBegins == GeneralInit => GeneralInv
  <1> SUFFICES ASSUME GeneralInit  PROVE GeneralInv
    OBVIOUS
  <1>1. GeneralTypes
    BY DEF GeneralInit, GeneralTypes, BringRow, BringPhases, AskRow, AskPhases
  <1>2. \A s \in Sections : bringing[s].at = "idle"
    BY DEF GeneralInit
  <1>3. \A a \in Askers : asking[a].at = "new"
    BY DEF GeneralInit
  <1>4. Ordered
    BY <1>2, ExactAssumption DEF GeneralInit, Ordered
  <1>5. BroughtOnce /\ WriterFound /\ FoundIsThere /\ NothingChosen
    BY <1>2, <1>3, NoWriterAssumption
       DEF GeneralInit, BroughtOnce, WriterFound, FoundIsThere, NothingChosen
  <1> QED
    BY <1>1, <1>4, <1>5 DEF GeneralInv

(* What a step of the calls and transactions may do to the row: the property *)
(* itself, from the invariant.                                              *)
Stands ==
    /\ IsManual /\ config' # config =>
         (\E a \in Askers : Chosen(a)) \/ config.general \in present \ present'
    /\ \A a \in Askers : Answered(a) /\ asking[a].quiet => asking'[a].answer = config'

LEMMA OneCallMoves ==
    ASSUME GeneralInv, NEW a \in Askers, NEW d \in Askers, d # a,
           Ask(a) \/ ReadConfig(a) \/ ReadExact(a) \/ UpsertExact(a) \/ Choose(a)
    PROVE  asking'[d] = asking[d]
  BY DEF Ask, ReadConfig, ReadExact, UpsertExact, Choose, Answers, GeneralInv, GeneralTypes

LEMMA GeneralStep == GeneralInv /\ GeneralNext => GeneralInv' /\ Stands
  <1> SUFFICES ASSUME GeneralInv, GeneralNext  PROVE GeneralInv' /\ Stands
    OBVIOUS
  <1>1. ASSUME NEW s \in Sections,
               \/ Bring(s) \/ Reconcile(s) \/ ReconcileWrites(s) \/ BringCommits(s)
               \/ BringFails(s)
        PROVE  GeneralInv' /\ Stands
    <2>1. GeneralInv'
      BY <1>1, BringFine, ReconcileFine, ReconcileWritesFine, BringCommitsFine, BringFailsFine
    <2>2. asking' = asking
      BY <1>1 DEF Bring, Reconcile, ReconcileWrites, BringCommits, BringFails
    <2>3. IsManual => config' = config
      BY <1>1, BringCommitsFine DEF Bring, Reconcile, ReconcileWrites, BringFails
    <2> QED
      BY <2>1, <2>2, <2>3 DEF Stands, Answered
  <1>2. ASSUME NEW s \in Sections, RemoveSpec(s)  PROVE GeneralInv' /\ Stands
    BY <1>2, RemoveSpecFine DEF Stands, Answered
  <1>3. ASSUME NEW a \in Askers, Ask(a) \/ Choose(a)  PROVE GeneralInv' /\ Stands
    <2>1. GeneralInv' /\ asking'[a].at # "answered"
      BY <1>3, AskFine, ChooseFine
    <2>2. config' = config
      BY <1>3 DEF Ask, Choose
    <2> QED
      BY <1>3, <2>1, <2>2, OneCallMoves DEF Stands, Answered
  <1>4. ASSUME NEW a \in Askers, ReadConfig(a) \/ ReadExact(a) \/ UpsertExact(a)
        PROVE  GeneralInv' /\ Stands
    <2>1. GeneralInv'
      BY <1>4, ReadConfigFine, ReadExactFine, UpsertExactFine
    <2>2. asking'[a].at = "answered" /\ asking[a].quiet => asking'[a].answer = config'
      BY <1>4, ReadConfigFine, ReadExactFine, UpsertExactFine
    <2>3. IsManual => config' = config
      BY <1>4, UpsertExactFine DEF ReadConfig, ReadExact
    <2> QED
      BY <1>4, <2>1, <2>2, <2>3, OneCallMoves DEF Stands, Answered
  <1>5. ASSUME NEW a \in Askers, UpsertManual(a)  PROVE GeneralInv' /\ Stands
    BY <1>5, UpsertManualFine DEF Stands, Answered
  <1>6. Gets \subseteq Askers /\ Puts \subseteq Askers
    BY DEF Askers
  <1> QED
    BY <1>1, <1>2, <1>3, <1>4, <1>5, <1>6 DEF GeneralNext

(* "Automatic reconciliation does not overwrite manual decisions" (ADR-023): *)
(* a choice gives way only to another or to the removal of the spec chosen,  *)
(* and a call that no choice or removal has disturbed answers with what is   *)
(* stored, whoever else reconciles or asks.                                 *)
THEOREM ChoicesStand == GeneralSpec => ManualChoiceStands
  <1>1. GeneralInv /\ [GeneralNext]_generalVars => GeneralInv'
    <2>1. GeneralInv /\ UNCHANGED generalVars => GeneralInv'
      BY DEF generalVars, GeneralInv, GeneralTypes, Ordered, Numbered, BroughtOnce, WriterFound,
             FoundIsThere, NothingChosen, IsManual
    <2> QED
      BY <2>1, GeneralStep
  <1>2. GeneralInv /\ [GeneralNext]_generalVars => [Stands]_generalVars
    BY GeneralStep
  <1>3. GeneralSpec => [][Stands]_generalVars
    BY <1>1, <1>2, GeneralBegins, PTL DEF GeneralSpec
  <1> QED
    BY <1>3 DEF ManualChoiceStands, Stands

=============================================================================
