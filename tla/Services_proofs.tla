--------------------------- MODULE Services_proofs ---------------------------
(***************************************************************************)
(* Proofs about the components of the server that share no state with the  *)
(* store: the advisory locks, the MCP sessions, the optical reading of a    *)
(* PDF and the import jobs, for every value of the constants.               *)
(***************************************************************************)
EXTENDS ImportJobs, AdvisoryLocks, McpSessions, PdfOcr, WellFoundedInduction, TLAPS

-----------------------------------------------------------------------------
(* Advisory locks.  What a holder was told and what the row says run out    *)
(* together, so the property is inductive once the two are typed.           *)
LockRow == [holder : Holders, left : 0..TTL]
LocksInv ==
    /\ row \in LockRow \cup {NoLock}
    /\ granted \in [Holders -> 0..TTL]
    /\ GrantIsShown

(* One step per statement on spec_locks.                                    *)
LEMMA LocksStep == LocksInv /\ [LocksNext]_locksVars => LocksInv'
  <1> SUFFICES ASSUME LocksInv, [LocksNext]_locksVars  PROVE LocksInv'
    OBVIOUS
  <1> USE TTLAssumption
  <1>0. NoLock \notin LockRow /\ TTL \in Nat /\ TTL > 0
    BY NoLockAssumption DEF LockRow
  <1>1. \A h \in Holders : granted[h] > 0 => /\ row \in LockRow /\ row.holder = h
                                             /\ row.left = granted[h]
    <2> SUFFICES ASSUME NEW h \in Holders, granted[h] > 0
                 PROVE  row \in LockRow /\ row.holder = h /\ row.left = granted[h]
      OBVIOUS
    <2> DEFINE shown == [holder |-> h, left |-> granted[h]]
    <2>1. shown \in LockRow /\ shown.holder = h /\ shown.left = granted[h]
      BY DEF LocksInv, LockRow
    <2>2. GetLock = shown
      BY DEF LocksInv, GrantIsShown
    <2> HIDE DEF shown
    <2>3. GetLock # NoLock
      BY <1>0, <2>1, <2>2
    <2>4. row = shown
      BY <2>2, <2>3 DEF GetLock
    <2> QED
      BY <2>1, <2>4
  <1>2. ASSUME row' \in LockRow \cup {NoLock}, granted' \in [Holders -> 0..TTL],
               \A h \in Holders : granted'[h] > 0 => /\ row' \in LockRow /\ row'.holder = h
                                                     /\ row'.left = granted'[h]
        PROVE  LocksInv'
    <2>1. ASSUME NEW h \in Holders, granted'[h] > 0
          PROVE  GetLock' = [holder |-> h, left |-> granted'[h]]
      BY <1>0, <1>2, <2>1 DEF GetLock, LockRow
    <2> QED
      BY <1>2, <2>1 DEF LocksInv, GrantIsShown
  <1>3. ASSUME NEW h \in Holders, Acquire(h)  PROVE LocksInv'
    <2>1. CASE Takeable(h)
      <3>1. row' = [holder |-> h, left |-> TTL] /\ granted' = [granted EXCEPT ![h] = TTL]
        BY <1>3, <2>1 DEF Acquire
      <3>2. \A g \in Holders \ {h} : ~(granted[g] > 0)
        BY <1>0, <1>1, <2>1 DEF Takeable, LocksInv
      <3>3. row' \in LockRow /\ row'.holder = h /\ row'.left = TTL
        BY <1>0, <3>1 DEF LockRow
      <3> QED
        BY <1>2, <3>1, <3>2, <3>3 DEF LocksInv
    <2>2. CASE ~Takeable(h)
      BY <1>3, <2>2 DEF Acquire, LocksInv, GrantIsShown, GetLock
    <2> QED
      BY <2>1, <2>2
  <1>4. ASSUME NEW h \in Holders, ReadHolder(h)  PROVE LocksInv'
    BY <1>4 DEF ReadHolder, LocksInv, GrantIsShown, GetLock
  <1>5. ASSUME NEW h \in Holders, Release(h)  PROVE LocksInv'
    <2>1. /\ granted' = [granted EXCEPT ![h] = 0]
          /\ row' = IF row # NoLock /\ row.holder = h THEN NoLock ELSE row
      BY <1>5 DEF Release, Released
    <2>2. \A g \in Holders : granted'[g] > 0 => g # h /\ granted'[g] = granted[g]
      BY <2>1 DEF LocksInv
    <2> QED
      BY <1>0, <1>1, <1>2, <2>1, <2>2 DEF LocksInv
  <1>6. ASSUME Tick  PROVE LocksInv'
    <2>1. row \in LockRow /\ row.left \in 1..TTL /\ row' = [row EXCEPT !.left = @ - 1]
      BY <1>6 DEF Tick, LocksInv, LockRow, Elapsed
    <2>2. row' \in LockRow /\ row'.holder = row.holder /\ row'.left = row.left - 1
      BY <2>1 DEF LockRow
    <2>3. /\ granted' \in [Holders -> 0..TTL]
          /\ \A h \in Holders : granted'[h] > 0 => /\ granted[h] > 0
                                                   /\ granted'[h] = granted[h] - 1
      BY <1>6 DEF Tick, LocksInv, Elapsed
    <2> QED
      BY <1>1, <1>2, <2>2, <2>3
  <1>7. CASE UNCHANGED locksVars
    BY <1>7 DEF locksVars, LocksInv, GrantIsShown, GetLock
  <1> QED
    BY <1>3, <1>4, <1>5, <1>6, <1>7 DEF LocksNext

(* Two grants never overlap, and nobody is shown another holder while a      *)
(* grant runs, however many callers take over, are refused or release late.  *)
THEOREM GrantsAreExclusive == LocksSpec => []GrantIsShown
  <1>1. LocksInit => LocksInv
    BY TTLAssumption DEF LocksInit, LocksInv, GrantIsShown
  <1>2. LocksInv => GrantIsShown
    BY DEF LocksInv
  <1> QED
    BY <1>1, <1>2, LocksStep, PTL DEF LocksSpec

-----------------------------------------------------------------------------
(* MCP sessions.  The map lists open transports only, because the entry goes *)
(* in the step that begins to close.                                         *)
TransportStates == {"none", "connecting", "open", "closing", "closed"}
SessionsInv ==
    /\ sessions \subseteq Ids
    /\ transport \in [Ids -> TransportStates]
    /\ pending \in [Ids -> Nat]
    /\ \A id \in sessions : transport[id] = "open"

(* One step per route, or part of a route between two awaits.                *)
LEMMA SessionsStep == SessionsInv /\ [SessionsNext]_sessionsVars => SessionsInv'
  <1> SUFFICES ASSUME SessionsInv, [SessionsNext]_sessionsVars  PROVE SessionsInv'
    OBVIOUS
  <1> USE DEF SessionsInv, TransportStates
  <1>1. ASSUME NEW id \in Ids, Initialize(id)  PROVE SessionsInv'
    BY <1>1 DEF Initialize
  <1>2. ASSUME NEW id \in Ids, SessionInitialized(id)  PROVE SessionsInv'
    BY <1>2 DEF SessionInitialized
  <1>3. ASSUME NEW id \in Ids, HandlePost(id)  PROVE SessionsInv'
    BY <1>3 DEF HandlePost
  <1>4. ASSUME NEW id \in Ids, Answer(id)  PROVE SessionsInv'
    BY <1>4 DEF Answer
  <1>5. ASSUME NEW id \in Ids, DeleteBegin(id)  PROVE SessionsInv'
    BY <1>5 DEF DeleteBegin, Unlisted
  <1>6. ASSUME NEW id \in Ids, DeleteEnd(id)  PROVE SessionsInv'
    BY <1>6 DEF DeleteEnd
  <1>7. CASE UNCHANGED sessionsVars
    BY <1>7 DEF sessionsVars
  <1> QED
    BY <1>1, <1>2, <1>3, <1>4, <1>5, <1>6, <1>7 DEF SessionsNext

(* No request is handed to a transport that is not open.                     *)
LEMMA PostsGoToOpenTransports ==
    SessionsInv /\ [SessionsNext]_sessionsVars =>
        \A id \in Ids : pending'[id] > pending[id] => transport[id] = "open"
  <1> SUFFICES ASSUME SessionsInv, [SessionsNext]_sessionsVars, NEW id \in Ids,
                      pending'[id] > pending[id]
               PROVE  transport[id] = "open"
    OBVIOUS
  <1>1. \E x \in Ids : HandlePost(x) /\ x = id
    BY DEF SessionsInv, SessionsNext, Initialize, SessionInitialized, HandlePost, Answer,
           DeleteBegin, DeleteEnd, sessionsVars
  <1> QED
    BY <1>1 DEF HandlePost, SessionsInv

(* "Delete first so a concurrent request cannot reuse a closing session".    *)
THEOREM NoRequestMeetsAClosingSession == SessionsSpec => ClosingIsFinal
  <1>1. SessionsInit => SessionsInv
    BY DEF SessionsInit, SessionsInv, TransportStates
  <1>2. SessionsInv /\ [SessionsNext]_sessionsVars =>
           [\A id \in Ids : pending'[id] > pending[id] => transport[id] = "open"]_sessionsVars
    BY PostsGoToOpenTransports
  <1> QED
    BY <1>1, <1>2, SessionsStep, PTL DEF SessionsSpec, ClosingIsFinal

-----------------------------------------------------------------------------
(* The optical reading of a PDF.  Only the thin pages are ever read; a       *)
(* recogniser that has not settled when the call returns has a timer that    *)
(* fired; and the last result is either a splice of what was read or as if   *)
(* nothing had been.                                                         *)
Answers == BOOLEAN
Readings == UNION {[read -> {"blank", "words"}] : read \in SUBSET Pages}
Calls == [pc : {"starting", "reading", "ending", "returned"}, strict : Answers,
          local : Answers, thin : SUBSET Pages, results : Readings, failed : Answers]
CallInv(r) == r \in Calls /\ DOMAIN r.results \subseteq r.thin
OcrInv ==
    /\ InPhase("none") => recogniser = "none"
    /\ ~InPhase("none") => CallInv(reading)
    /\ ~InPhase("none") /\ Refused(reading.strict, reading.local)
          => InPhase("returned") /\ recogniser = "none"
    /\ InPhase("starting") => recogniser \in {"starting", "stalled"} /\ timer = "armed"
    /\ InPhase("reading") => recogniser = "up"
    /\ InPhase("ending") => recogniser = "ended"
    /\ timer = "armed" => InPhase("starting")
    /\ recogniser \in {"starting", "stalled"} /\ ~InPhase("starting") => timer = "fired"
    /\ InPhase("returned") =>
          /\ recogniser # "up"
          /\ \/ parsed = Degraded(reading.thin)
             \/ parsed = Spliced(reading.results)

(* Every nonempty set of pages has a first one (the loop's CHOOSE).          *)
LEMMA FirstPage ==
    ASSUME NEW S \in SUBSET Nat, S # {}
    PROVE  \E p \in S : \A q \in S : p <= q
  <1> DEFINE R == OpToRel(<, Nat)
  <1>1. IsWellFoundedOn(R, Nat)
    BY NatLessThanWellFounded
  <1>2. \A q, p \in Nat : q < p => <<q, p>> \in R
    BY DEF OpToRel
  <1> HIDE DEF R
  <1>3. PICK p \in S : \A q \in S : ~ (<<q, p>> \in R)
    BY <1>1, WFMin
  <1>4. \A q \in S : q \in Nat /\ p \in Nat /\ ~ (q < p)
    BY <1>2, <1>3
  <1>5. \A q \in S : p <= q
    BY <1>4
  <1> QED
    BY <1>5

(* Moving on to another phase changes nothing else of the call.              *)
LEMMA PhaseMoves ==
    ASSUME NEW r, CallInv(r), NEW pc \in {"starting", "reading", "ending", "returned"}
    PROVE  LET new == [r EXCEPT !.pc = pc]
           IN  /\ CallInv(new) /\ new.pc = pc /\ new.thin = r.thin
               /\ new.results = r.results /\ new.strict = r.strict /\ new.local = r.local
    BY DEF CallInv, Calls

(* Nothing read yet is a reading of no page.                                 *)
LEMMA NothingRead == <<>> \in Readings /\ DOMAIN <<>> = {}
  <1>1. <<>> \in [{} -> {"blank", "words"}]
    OBVIOUS
  <1> QED
    BY <1>1 DEF Readings

(* What is shown and reported of a call that degrades or is spliced.         *)
LEMMA NothingGoesUnannounced ==
    ASSUME NEW thin \in SUBSET Pages, NEW results, DOMAIN results \subseteq thin,
           reading.thin = thin,
           parsed = Degraded(thin) \/ parsed = Spliced(results)
    PROVE  \A p \in Pages :
              IF p \in thin
              THEN IF parsed.shown[p] = "read" THEN parsed.applied ELSE p \in parsed.unusable
              ELSE parsed.shown[p] = "layer"
  <1> DEFINE goes(p) == IF p \in thin
                        THEN IF parsed.shown[p] = "read" THEN parsed.applied
                             ELSE p \in parsed.unusable
                        ELSE parsed.shown[p] = "layer"
  <1> SUFFICES ASSUME NEW p \in Pages  PROVE goes(p)
    OBVIOUS
  <1>1. CASE parsed = Degraded(thin)
    <2>1. parsed.shown[p] = "layer" /\ parsed.unusable = thin
      BY <1>1, NothingRead DEF Degraded, Shown, Usable
    <2> QED
      BY <2>1
  <1>2. CASE parsed = Spliced(results)
    <2> DEFINE announced == Usable(results) # {}
    <2>1. /\ parsed.shown[p] = IF p \in Usable(results) THEN "read" ELSE "layer"
          /\ parsed.unusable = thin \ Usable(results)
      BY <1>2 DEF Spliced, Shown, Unusable
    <2>2. parsed.applied = announced
      BY <1>2 DEF Spliced
    <2>3. Usable(results) \subseteq thin
      BY DEF Usable
    <2>4. CASE p \in Usable(results)
      <3>1. announced
        BY <2>4
      <3>2. parsed.applied
        BY <2>2, <3>1
      <3> QED
        BY <2>1, <2>3, <2>4, <3>2
    <2>5. CASE p \notin Usable(results)
      BY <2>1, <2>5
    <2> QED
      BY <2>4, <2>5
  <1> QED
    BY <1>1, <1>2

(* One step per callback of the event loop.                                  *)
LEMMA OcrStep == OcrInv /\ [OcrNext]_ocrVars => OcrInv'
  <1> SUFFICES ASSUME OcrInv, [OcrNext]_ocrVars  PROVE OcrInv'
    OBVIOUS
  <1> DEFINE Moves(pc) == /\ CallInv(reading') /\ reading'.pc = pc
                          /\ reading'.thin = reading.thin
                          /\ reading'.results = reading.results
                          /\ reading'.strict = reading.strict
                          /\ reading'.local = reading.local
  <1>0. ASSUME NEW pc \in {"starting", "reading", "ending", "returned"},
               CallInv(reading), reading' = [reading EXCEPT !.pc = pc]
        PROVE  Moves(pc)
    BY <1>0, PhaseMoves
  <1> HIDE DEF Moves
  <1>1. ASSUME NEW thin \in SUBSET Pages, NEW strict \in BOOLEAN, NEW local \in BOOLEAN,
               ReadPdf(thin, strict, local)
        PROVE  OcrInv'
    <2> DEFINE made(pc) == [strict |-> strict, local |-> local, thin |-> thin,
                            results |-> <<>>, failed |-> FALSE, pc |-> pc]
    <2>1. \A pc \in {"starting", "returned"} : CallInv(made(pc)) /\ made(pc).pc = pc
      <3>1. strict \in Answers /\ local \in Answers /\ FALSE \in Answers
        BY DEF Answers
      <3> QED
        BY <3>1, NothingRead DEF CallInv, Calls
    <2>2. InPhase("none") /\ recogniser = "none" /\ timer # "armed"
      BY <1>1 DEF ReadPdf, OcrInv, InPhase
    <2>3. CASE thin = {} \/ Refused(strict, local)
      <3>1. /\ reading' = made("returned") /\ parsed' = Degraded(thin)
            /\ recogniser' = recogniser /\ timer' = timer
        BY <1>1, <2>3 DEF ReadPdf
      <3> QED
        BY <2>1, <2>2, <3>1 DEF OcrInv, InPhase, Degraded, Shown, Usable
    <2>4. CASE ~(thin = {} \/ Refused(strict, local))
      <3>1. reading' = made("starting") /\ recogniser' = "starting" /\ timer' = "armed"
        BY <1>1, <2>4 DEF ReadPdf
      <3> QED
        BY <2>1, <2>4, <3>1 DEF OcrInv, InPhase, Refused
    <2> QED
      BY <2>3, <2>4
  <1>2. ASSUME RecogniserStarts  PROVE OcrInv'
    <2>1. CASE InPhase("starting")
      <3>1. /\ reading' = [reading EXCEPT !.pc = "reading"] /\ CallInv(reading)
            /\ recogniser' = "up" /\ timer' = "off"
        BY <1>2, <2>1 DEF RecogniserStarts, Arrived, OcrInv, InPhase
      <3>2. Moves("reading")
        BY <3>1, <1>0
      <3> QED
        BY <2>1, <3>1, <3>2 DEF OcrInv, InPhase, Refused, Moves
    <2>2. CASE ~InPhase("starting")
      BY <1>2, <2>2 DEF RecogniserStarts, Arrived, OcrInv, InPhase, Degraded, Spliced,
                        Shown, Usable, Unusable
    <2> QED
      BY <2>1, <2>2
  <1>3. ASSUME RecogniserFails  PROVE OcrInv'
    <2>1. CASE InPhase("starting")
      <3>1. /\ reading' = [reading EXCEPT !.pc = "returned"] /\ CallInv(reading)
            /\ recogniser' = "failed" /\ timer' = "off" /\ parsed' = Degraded(reading.thin)
        BY <1>3, <2>1 DEF RecogniserFails, Return, OcrInv, InPhase
      <3>2. Moves("returned")
        BY <3>1, <1>0
      <3>3. parsed' = Degraded(reading.thin)'
        BY <3>1, <3>2 DEF Degraded, Shown, Usable, Moves
      <3> QED
        BY <2>1, <3>1, <3>2, <3>3 DEF OcrInv, InPhase, Refused, Moves
    <2>2. CASE ~InPhase("starting")
      BY <1>3, <2>2 DEF RecogniserFails, OcrInv, InPhase, Degraded, Spliced,
                        Shown, Usable, Unusable
    <2> QED
      BY <2>1, <2>2
  <1>4. ASSUME InitTimesOut  PROVE OcrInv'
    <2>1. InPhase("starting") /\ recogniser \in {"starting", "stalled"}
      BY <1>4 DEF InitTimesOut, OcrInv
    <2>2. /\ reading' = [reading EXCEPT !.pc = "returned"] /\ CallInv(reading)
          /\ recogniser' = recogniser /\ timer' = "fired" /\ parsed' = Degraded(reading.thin)
      BY <1>4, <2>1 DEF InitTimesOut, Return, OcrInv, InPhase
    <2>3. Moves("returned")
      BY <2>2, <1>0
    <2>4. parsed' = Degraded(reading.thin)'
      BY <2>2, <2>3 DEF Degraded, Shown, Usable, Moves
    <2> QED
      BY <2>1, <2>2, <2>3, <2>4 DEF OcrInv, InPhase, Refused, Moves
  <1>5. ASSUME NEW text \in {"blank", "words"}, RecognizePage(text)  PROVE OcrInv'
    <2> DEFINE p == CHOOSE p \in Remaining : \A q \in Remaining : p <= q
               results == [q \in DOMAIN reading.results \cup {p} |->
                              IF q = p THEN text ELSE reading.results[q]]
    <2>1. /\ InPhase("reading") /\ CallInv(reading) /\ recogniser = "up" /\ timer # "armed"
          /\ Remaining # {}
      BY <1>5 DEF RecognizePage, OcrInv, InPhase
    <2>2. p \in reading.thin /\ p \in Pages
      <3>1. Remaining \in SUBSET Nat /\ Remaining \subseteq reading.thin
            /\ reading.thin \subseteq Pages
        BY <2>1 DEF Remaining, CallInv, Calls, Pages
      <3>2. \E q \in Remaining : \A x \in Remaining : q <= x
        BY <2>1, <3>1, FirstPage
      <3> QED
        BY <3>1, <3>2
    <2>3. /\ UNCHANGED <<recogniser, timer, parsed>>
          /\ reading' = [reading EXCEPT !.results = results]
      BY <1>5 DEF RecognizePage
    <2> HIDE DEF p
    <2>4. results \in Readings /\ DOMAIN results \subseteq reading.thin
      <3>1. PICK read \in SUBSET Pages : reading.results \in [read -> {"blank", "words"}]
        BY <2>1 DEF CallInv, Calls, Readings
      <3>2. results \in [read \cup {p} -> {"blank", "words"}]
        BY <3>1
      <3> QED
        BY <2>1, <2>2, <3>1, <3>2 DEF Readings, CallInv
    <2> HIDE DEF results
    <2>5. /\ CallInv(reading') /\ reading'.pc = reading.pc /\ reading'.thin = reading.thin
          /\ reading'.strict = reading.strict /\ reading'.local = reading.local
      BY <2>1, <2>3, <2>4 DEF CallInv, Calls
    <2> QED
      BY <2>1, <2>3, <2>5 DEF OcrInv, InPhase, Refused
  <1>6. ASSUME Terminate  PROVE OcrInv'
    <2>1. InPhase("reading") /\ CallInv(reading) /\ recogniser = "up" /\ timer # "armed"
      BY <1>6 DEF Terminate, OcrInv, InPhase
    <2>2. PICK failed \in BOOLEAN :
             reading' = [reading EXCEPT !.pc = "ending", !.failed = failed]
      BY <1>6 DEF Terminate
    <2>3. recogniser' = "ended" /\ UNCHANGED <<timer, parsed>>
      BY <1>6 DEF Terminate
    <2>4. failed \in Answers
      BY DEF Answers
    <2>5. /\ CallInv(reading') /\ reading'.pc = "ending" /\ reading'.thin = reading.thin
          /\ reading'.strict = reading.strict /\ reading'.local = reading.local
      BY <2>1, <2>2, <2>4 DEF CallInv, Calls
    <2> QED
      BY <2>1, <2>3, <2>5 DEF OcrInv, InPhase, Refused
  <1>7. ASSUME Terminated  PROVE OcrInv'
    <2>1. InPhase("ending") /\ CallInv(reading) /\ recogniser = "ended" /\ timer # "armed"
      BY <1>7 DEF Terminated, OcrInv, InPhase
    <2>2. /\ reading' = [reading EXCEPT !.pc = "returned"]
          /\ parsed' = Degraded(reading.thin) \/ parsed' = Spliced(reading.results)
          /\ UNCHANGED <<recogniser, timer>>
      BY <1>7 DEF Terminated, Return
    <2>3. Moves("returned")
      BY <2>1, <2>2, <1>0
    <2>4. parsed' = Degraded(reading.thin)' \/ parsed' = Spliced(reading.results)'
      BY <2>2, <2>3 DEF Degraded, Spliced, Shown, Usable, Unusable, Moves
    <2> QED
      BY <2>1, <2>2, <2>3, <2>4 DEF OcrInv, InPhase, Refused, Moves
  <1>8. ASSUME FetchStalls  PROVE OcrInv'
    BY <1>8 DEF FetchStalls, OcrInv, InPhase, Degraded, Spliced, Shown, Usable, Unusable
  <1>9. CASE UNCHANGED ocrVars
    BY <1>9 DEF ocrVars, OcrInv, InPhase, Degraded, Spliced, Shown, Usable, Unusable
  <1> QED
    BY <1>1, <1>2, <1>3, <1>4, <1>5, <1>6, <1>7, <1>8, <1>9 DEF OcrNext

(* ADR-039, but for the bounded time: a recogniser is up for its pages and    *)
(* for nothing else, a thread outlives the call only if its start outlasted   *)
(* the timer, strict mode without a local model spawns none, and no page that *)
(* was touched goes unannounced.                                             *)
THEOREM ReadingAccountsForAll ==
    OcrSpec => [](RecogniserIsAccountedFor /\ NoPageIsUnannounced)
  <1>1. OcrInit => OcrInv
    BY DEF OcrInit, OcrInv, InPhase, Unread
  <1>2. OcrInv => RecogniserIsAccountedFor
    BY DEF OcrInv, RecogniserIsAccountedFor, InPhase
  <1>3. OcrInv => NoPageIsUnannounced
    <2> SUFFICES ASSUME OcrInv, InPhase("returned")
                 PROVE  \A p \in Pages :
                           IF p \in reading.thin
                           THEN IF parsed.shown[p] = "read" THEN parsed.applied
                                ELSE p \in parsed.unusable
                           ELSE parsed.shown[p] = "layer"
      BY DEF NoPageIsUnannounced
    <2>1. CallInv(reading) /\ (parsed = Degraded(reading.thin) \/ parsed = Spliced(reading.results))
      BY DEF OcrInv, InPhase
    <2>2. reading.thin \in SUBSET Pages /\ DOMAIN reading.results \subseteq reading.thin
      BY <2>1 DEF CallInv, Calls
    <2> QED
      BY <2>1, <2>2, NothingGoesUnannounced
  <1> QED
    BY <1>1, <1>2, <1>3, OcrStep, PTL DEF OcrSpec

-----------------------------------------------------------------------------
(* Import jobs. *)

Pcs == {"off", "parsing", "persisting", "finding", "creating", "finding-raced", "refreshing",
        "assigning", "classifying", "storing", "summarizing", "done"}
WorkerRow == [pc : Pcs, upload : Uploads \cup {None}, template : Jobs \cup {None},
              read : Jobs \cup {None}, rules : Conventions \cup {BuiltIn, None},
              error : Errors \cup {None}]
JobsTypeOK ==
    /\ worker \in [Jobs -> WorkerRow]
    /\ \A j \in Jobs : worker[j].pc # "off" => worker[j].upload \in Uploads
    /\ \A j \in Jobs : worker[j].pc = "storing" => worker[j].rules # None
    /\ current \in [Specs -> Jobs \cup {None}]
    /\ classified \in [Specs -> Conventions \cup {BuiltIn, None}]
    /\ template \in [Specs -> TemplateRow \cup {None}]
    /\ styleOf \in [Specs -> Jobs \cup {None}]
    /\ profile \in ProfileRow \cup {None}
    /\ finalizing \in [Specs -> Conventions \cup {BuiltIn, None}]

(* The rules of a template, upserted, are rules, the new ones among them.    *)
LEMMA UpsertedRules ==
    ASSUME NEW f \in RuleSets, NEW g \in RuleSets
    PROVE  /\ Upserted(f, g) \in RuleSets
           /\ \A type \in DOMAIN f : Upserted(f, g)[type] = f[type]
  <1>1. PICK F \in SUBSET RuleTypes : f \in [F -> RuleValues]
    BY DEF RuleSets
  <1>2. PICK G \in SUBSET RuleTypes : g \in [G -> RuleValues]
    BY DEF RuleSets
  <1>3. Upserted(f, g) = [x \in F \cup G |-> IF x \in F THEN f[x] ELSE g[x]]
    BY <1>1, <1>2 DEF Upserted
  <1>4. Upserted(f, g) \in [F \cup G -> RuleValues]
    BY <1>1, <1>2, <1>3
  <1>5. F \cup G \in SUBSET RuleTypes
    OBVIOUS
  <1> QED
    BY <1>1, <1>3, <1>4, <1>5 DEF RuleSets

(* Where a template lookup is going: the row of the job's name is there, and *)
(* is the one the job found or made, unless a user has deleted one.          *)
Own(j) == template[SpecOf(j)] # None /\ template[SpecOf(j)].id = worker[j].template
Healed(j) ==
    /\ At(j, "finding-raced") => deleted \/ template[SpecOf(j)] # None
    /\ At(j, "refreshing") \/ At(j, "assigning") => deleted \/ Own(j)
    /\ worker[j].error \in {"duplicate", "unassigned"} => deleted

(* The rows a job imported are those it read, while they are there, and then *)
(* they are classified.                                                      *)
Complete(j) ==
    /\ At(j, "done") /\ worker[j].error = None
    /\ worker[j].upload.onboard /\ current[SpecOf(j)] = j
Classed(j) ==
    LET s == SpecOf(j) IN
    /\ At(j, "storing") /\ current[s] = j => worker[j].read = j
    /\ At(j, "summarizing") /\ current[s] = j => classified[s] # None
    /\ Complete(j) => classified[s] # None

(* A job that nobody overlaps is alone with its spec while it runs, and has   *)
(* the spec's template to itself until a later import replaces its rows.      *)
Others(j) == {k \in Running \ {j} : SpecOf(k) = SpecOf(j)}
Carries(j) ==
    \A type \in DOMAIN Derived(j) : template[SpecOf(j)].rules[type] = Derived(j)[type]
Styled(j) ==
    LET s == SpecOf(j) IN
    template[s] # None /\ styleOf[s] = template[s].id /\ Carries(j)
Whole(j) ==
    j \notin overlapped =>
        /\ j \in Running => Others(j) = {}
        /\ Complete(j) => \A k \in Others(j) : worker[k].pc \in {"parsing", "persisting"}
        /\ At(j, "assigning") /\ Own(j) /\ Derived(j) # <<>> => Carries(j)
        /\ (worker[j].pc \in {"classifying", "storing", "summarizing"} \/ Complete(j))
              /\ Derived(j) # <<>> => Styled(j)

JobsInv ==
    /\ JobsTypeOK
    /\ \A j \in Jobs : Healed(j) /\ Classed(j) /\ Whole(j)

(* What a call that goes on, or ends, may do to the state: one row of        *)
(* worker, and the rows of its own spec.                                     *)
GoesOn(j, w) ==
    /\ j \in Running /\ w \in WorkerRow
    /\ w.upload = worker[j].upload /\ w.pc # "off" /\ (w.pc = "storing" => w.rules # None)
    /\ worker' = [worker EXCEPT ![j] = w]
    /\ UNCHANGED <<overlapped, deleted, profile, finalizing>>
Starting(pc) == pc \in {"parsing", "persisting"}

(* The imported rows go only when the call that replaces them goes on, and a *)
(* template keeps its id while it is there.                                  *)
Touches(j, w) ==
    LET s == SpecOf(j) IN
    /\ \A t \in Specs \ {s} : /\ current'[t] = current[t] /\ classified'[t] = classified[t]
                              /\ template'[t] = template[t] /\ styleOf'[t] = styleOf[t]
    /\ \/ current'[s] = j /\ UNCHANGED <<template, styleOf>>
       \/ /\ current'[s] = current[s]
          /\ classified'[s] = classified[s] \/ classified'[s] # None
          /\ \/ ~Starting(worker[j].pc)
             \/ Starting(w.pc) \/ w.pc = "done"
          /\ \/ UNCHANGED <<template, styleOf>>
             \/ /\ ~Starting(worker[j].pc)
                /\ template[s] # None => template'[s] # None /\ template'[s].id = template[s].id

(* A running call works on a spec, and Done leaves a row of worker.          *)
LEMMA RunningRow ==
    ASSUME JobsTypeOK, NEW j \in Jobs, worker[j].pc # "off"
    PROVE  /\ worker[j] \in WorkerRow /\ worker[j].upload \in Uploads
           /\ SpecOf(j) \in Specs /\ Derived(j) \in RuleSets
    BY UploadsAssumption DEF JobsTypeOK, SpecOf, Derived

LEMMA DoneRow ==
    ASSUME JobsTypeOK, NEW j \in Running, NEW error \in Errors \cup {None}, Done(j, error)
    PROVE  \E w \in WorkerRow : /\ worker' = [worker EXCEPT ![j] = w]
                                /\ w.upload = worker[j].upload
                                /\ w.pc = "done" /\ w.error = error
  <1> DEFINE w == [NoWork EXCEPT !.pc = "done", !.upload = worker[j].upload, !.error = error]
  <1>1. j \in Jobs /\ worker[j].upload \in Uploads
    BY RunningRow DEF Running
  <1>2. w \in WorkerRow /\ w.upload = worker[j].upload /\ w.pc = "done" /\ w.error = error
    BY <1>1 DEF NoWork, WorkerRow, Pcs
  <1> QED
    BY <1>2 DEF Done

(* A call that another job's step does not concern stays as it was: beside a *)
(* job nobody overlaps, no other runs on its spec.                           *)
LEMMA Bystander ==
    ASSUME JobsInv, NEW j \in Jobs, NEW k \in Jobs \ {j}, NEW w, GoesOn(j, w), Touches(j, w)
    PROVE  (Healed(k) /\ Classed(k) /\ Whole(k))'
  <1> DEFINE s == SpecOf(j)
             t == SpecOf(k)
  <1>1. worker' = [worker EXCEPT ![j] = w] /\ worker \in [Jobs -> WorkerRow]
    BY DEF GoesOn, JobsInv, JobsTypeOK
  <1>2. /\ worker'[k] = worker[k] /\ worker'[j] = w
        /\ overlapped' = overlapped /\ deleted' = deleted
    BY <1>1 DEF GoesOn
  <1>3. s \in Specs /\ worker[j].pc # "off"
    BY RunningRow DEF JobsInv, GoesOn, Running
  <1>4. CASE worker[k].pc = "off"
    <2>1. worker'[k].pc = "off" /\ k \notin Running /\ k \notin Running'
      BY <1>2, <1>4 DEF Running
    <2>2. worker[k].error \in {"duplicate", "unassigned"} => deleted
      BY DEF JobsInv, Healed
    <2> QED
      BY <1>2, <2>1, <2>2 DEF Healed, Classed, Whole, Complete, At
  <1>5. CASE worker[k].pc # "off"
    <2>1. t \in Specs /\ SpecOf(k)' = t /\ Derived(k)' = Derived(k)
      BY <1>2, <1>5, RunningRow DEF JobsInv, SpecOf, Derived
    <2>2. Healed(k) /\ Classed(k) /\ Whole(k)
      BY DEF JobsInv
    <2>3. Others(k)' \subseteq Others(k)
      BY <1>1, <1>2 DEF Others, Running, SpecOf, GoesOn
    <2>4. \A i \in Others(k)' \ {j} : worker'[i] = worker[i]
      BY <1>1 DEF Others, Running
    <2>5. CASE t # s
      <3>1. /\ current'[t] = current[t] /\ classified'[t] = classified[t]
            /\ template'[t] = template[t] /\ styleOf'[t] = styleOf[t]
        BY <2>1, <2>5 DEF Touches
      <3>2. j \notin Others(k)
        BY <2>5 DEF Others
      <3>3. \A i \in Others(k)' : worker'[i] = worker[i]
        BY <2>3, <2>4, <3>2
      <3> QED
        BY <1>2, <2>1, <2>2, <2>3, <3>1, <3>3
           DEF Healed, Classed, Whole, Complete, Styled, Carries, Own, At, Running
    <2>6. CASE t = s
      <3>1. j \in Others(k)
        BY <2>6 DEF Others, GoesOn
      <3>2. k \notin overlapped => k \notin Running
        BY <2>2, <3>1 DEF Whole
      <3>3. k \notin overlapped /\ Complete(k) => Starting(worker[j].pc)
        BY <2>2, <3>1 DEF Whole, Starting
      <3>4. k \in Running' <=> k \in Running
        BY <1>2 DEF Running
      <3>5. CASE current'[s] = j /\ UNCHANGED <<template, styleOf>>
        <4>1. ~Complete(k)' /\ current'[t] # k
          BY <2>1, <2>6, <3>5 DEF Complete
        <4> QED
          BY <1>2, <1>5, <2>1, <2>2, <3>2, <3>4, <3>5, <4>1
             DEF Healed, Classed, Whole, Own, At, Running
      <3>6. CASE /\ current'[s] = current[s]
                 /\ classified'[s] = classified[s] \/ classified'[s] # None
                 /\ ~Starting(worker[j].pc) \/ Starting(w.pc) \/ w.pc = "done"
                 /\ \/ UNCHANGED <<template, styleOf>>
                    \/ /\ ~Starting(worker[j].pc)
                       /\ template[s] # None =>
                             template'[s] # None /\ template'[s].id = template[s].id
        <4>1. Complete(k)' <=> Complete(k)
          BY <1>2, <2>1, <2>6, <3>6 DEF Complete, At
        <4>2. Healed(k)' /\ Classed(k)'
          BY <1>2, <2>1, <2>2, <2>6, <3>6, <4>1 DEF Healed, Classed, Own, At
        <4>3. ASSUME k \notin overlapped, Complete(k)
              PROVE  /\ UNCHANGED <<template, styleOf>>
                     /\ \A i \in Others(k)' : worker'[i].pc \in {"parsing", "persisting"}
          <5>1. Starting(worker[j].pc) /\ (Starting(w.pc) \/ w.pc = "done")
            BY <3>3, <3>6, <4>3
          <5>2. j \in Running' => Starting(w.pc)
            BY <1>2, <5>1 DEF Running
          <5> QED
            BY <1>2, <2>2, <2>3, <2>4, <3>6, <4>3, <5>1, <5>2 DEF Whole, Starting, Others
        <4>4. Whole(k)'
          BY <1>2, <1>5, <2>1, <2>2, <3>2, <3>4, <4>1, <4>3
             DEF Whole, Styled, Carries, At, Running
        <4> QED
          BY <4>2, <4>4
      <3> QED
        BY <3>5, <3>6 DEF Touches
    <2> QED
      BY <2>5, <2>6
  <1> QED
    BY <1>4, <1>5

(* So a step of a job needs looking at for that job only.                    *)
LEMMA Acting ==
    ASSUME JobsInv, NEW j \in Jobs, NEW w, GoesOn(j, w), Touches(j, w),
           current' \in [Specs -> Jobs \cup {None}],
           classified' \in [Specs -> Conventions \cup {BuiltIn, None}],
           template' \in [Specs -> TemplateRow \cup {None}],
           styleOf' \in [Specs -> Jobs \cup {None}],
           (Healed(j) /\ Classed(j) /\ Whole(j))'
    PROVE  JobsInv'
  <1>1. JobsTypeOK'
    <2>1. worker[j].upload \in Uploads
      BY RunningRow DEF GoesOn, Running, JobsInv
    <2> QED
      BY <2>1 DEF GoesOn, JobsInv, JobsTypeOK
  <1>2. \A k \in Jobs \ {j} : (Healed(k) /\ Classed(k) /\ Whole(k))'
    BY Bystander
  <1> QED
    BY <1>1, <1>2 DEF JobsInv

(* A call that ends with an error leaves no row but the one that says so.    *)
LEMMA FailedStep ==
    ASSUME JobsInv, NEW j \in Running, NEW error \in Errors, Done(j, error),
           error \in {"duplicate", "unassigned"} => deleted,
           UNCHANGED <<current, classified, template, styleOf, profile, finalizing,
                       overlapped, deleted>>
    PROVE  JobsInv'
  <1>1. PICK w \in WorkerRow : /\ worker' = [worker EXCEPT ![j] = w]
                               /\ w.upload = worker[j].upload
                               /\ w.pc = "done" /\ w.error = error
    BY DoneRow DEF JobsInv
  <1>2. j \in Jobs /\ GoesOn(j, w) /\ Touches(j, w)
    BY <1>1 DEF GoesOn, Touches, Running
  <1>3. worker'[j] = w /\ worker'[j].error # None
    BY <1>1, NoneAssumption DEF JobsInv, JobsTypeOK, Running
  <1>4. (Healed(j) /\ Classed(j) /\ Whole(j))'
    BY <1>1, <1>3 DEF Healed, Classed, Whole, Complete, At, Running
  <1> QED
    BY <1>2, <1>4, Acting DEF JobsInv, JobsTypeOK

(* One step per statement or transaction of the pipeline.                    *)
LEMMA WorkStep == ASSUME JobsInv, NEW j \in Jobs, Work(j)  PROVE JobsInv'
  <1> DEFINE s == SpecOf(j)
             r == worker[j]
             Fine == (Healed(j) /\ Classed(j) /\ Whole(j))'
  <1>0. JobsTypeOK /\ worker \in [Jobs -> WorkerRow] /\ r \in WorkerRow
    BY DEF JobsInv, JobsTypeOK
  <1>a. Healed(j) /\ Classed(j) /\ Whole(j)
    BY DEF JobsInv
  <1>b. /\ current \in [Specs -> Jobs \cup {None}]
        /\ classified \in [Specs -> Conventions \cup {BuiltIn, None}]
        /\ template \in [Specs -> TemplateRow \cup {None}]
        /\ styleOf \in [Specs -> Jobs \cup {None}]
    BY <1>0 DEF JobsTypeOK
  <1>c. \A w : worker' = [worker EXCEPT ![j] = w] /\ w.upload = r.upload =>
            /\ worker'[j] = w /\ SpecOf(j)' = s /\ Derived(j)' = Derived(j)
            /\ Others(j)' = Others(j)
    BY <1>0 DEF SpecOf, Derived, Others, Running
  <1>1. CASE ParseEnds(j)
    <2>1. j \in Running /\ At(j, "parsing")
      BY <1>1 DEF ParseEnds, Running, At
    <2>2. CASE Failed(j, "parse")
      BY <1>1, <2>1, <2>2, FailedStep DEF ParseEnds, Failed, Errors, store
    <2>3. CASE Goes(j, "persisting", "persisting")
      <3> DEFINE w == [r EXCEPT !.pc = "persisting"]
      <3>1. w \in WorkerRow /\ w.pc = "persisting" /\ w.upload = r.upload /\ w.error = r.error
        BY <1>0 DEF WorkerRow, Pcs
      <3>2. worker' = [worker EXCEPT ![j] = w]
        BY <2>3 DEF Goes
      <3> HIDE DEF w
      <3>3. /\ UNCHANGED <<current, classified, template, styleOf, profile, finalizing,
                           overlapped, deleted>>
        BY <1>1 DEF ParseEnds, store
      <3>4. GoesOn(j, w) /\ Touches(j, w)
        BY <2>1, <3>1, <3>2, <3>3 DEF GoesOn, Touches, Starting
      <3>5. Fine
        BY <1>a, <1>c, <2>1, <3>1, <3>2, <3>3 DEF Healed, Classed, Whole, Complete, At
      <3> QED
        BY <1>b, <3>3, <3>4, <3>5, Acting
    <2> QED
      BY <1>1, <2>2, <2>3 DEF ParseEnds
  <1>2. CASE Persist(j)
    <2>1. j \in Running /\ At(j, "persisting") /\ s \in Specs /\ r.upload.onboard \in BOOLEAN
      BY <1>0, <1>2, RunningRow, UploadsAssumption DEF Persist, Running, At
    <2>2. \E w \in WorkerRow :
             /\ worker' = [worker EXCEPT ![j] = w] /\ w.upload = r.upload
             /\ \/ w.pc = "done" /\ w.error = None /\ ~r.upload.onboard
                \/ w.pc = "classifying" /\ w.error = r.error /\ Derived(j) = <<>>
                \/ w.pc = "finding" /\ w.error = r.error
      <3>1. CASE ~r.upload.onboard
        <4>1. Done(j, None)
          BY <1>2, <3>1 DEF Persist, Completed
        <4> QED
          BY <1>0, <2>1, <3>1, <4>1, DoneRow
      <3>2. CASE r.upload.onboard /\ Derived(j) = <<>>
        <4> DEFINE w == [r EXCEPT !.pc = "classifying"]
        <4>1. /\ w \in WorkerRow /\ w.upload = r.upload /\ w.pc = "classifying"
              /\ w.error = r.error
          BY <1>0 DEF WorkerRow, Pcs
        <4>2. worker' = [worker EXCEPT ![j] = w]
          BY <1>2, <3>2 DEF Persist, Goes
        <4> QED
          BY <3>2, <4>1, <4>2
      <3>3. CASE r.upload.onboard /\ Derived(j) # <<>>
        <4> DEFINE w == [r EXCEPT !.pc = "finding"]
        <4>1. /\ w \in WorkerRow /\ w.upload = r.upload /\ w.pc = "finding"
              /\ w.error = r.error
          BY <1>0 DEF WorkerRow, Pcs
        <4>2. worker' = [worker EXCEPT ![j] = w]
          BY <1>2, <3>3 DEF Persist, Goes
        <4> QED
          BY <4>1, <4>2
      <3> QED
        BY <2>1, <3>1, <3>2, <3>3
    <2>3. PICK w \in WorkerRow :
             /\ worker' = [worker EXCEPT ![j] = w] /\ w.upload = r.upload
             /\ \/ w.pc = "done" /\ w.error = None /\ ~r.upload.onboard
                \/ w.pc = "classifying" /\ w.error = r.error /\ Derived(j) = <<>>
                \/ w.pc = "finding" /\ w.error = r.error
      BY <2>2
    <2>4. /\ current' = [current EXCEPT ![s] = j] /\ classified' = [classified EXCEPT ![s] = None]
          /\ UNCHANGED <<template, styleOf, profile, finalizing, overlapped, deleted>>
      BY <1>2 DEF Persist
    <2>5. GoesOn(j, w) /\ Touches(j, w)
      BY <1>b, <2>1, <2>3, <2>4 DEF GoesOn, Touches
    <2>6. Fine
      BY <1>a, <1>c, <2>1, <2>3, <2>4, NoneAssumption
         DEF Healed, Classed, Whole, Complete, At, Errors
    <2> QED
      BY <1>b, <2>1, <2>4, <2>5, <2>6, Acting
  <1>3. CASE FindTemplate(j)
    <2> DEFINE found == template[s]
    <2>1. j \in Running /\ At(j, "finding") /\ s \in Specs
      BY <1>0, <1>3, RunningRow DEF FindTemplate, Running, At
    <2>2. /\ UNCHANGED <<current, classified, template, styleOf, profile, finalizing,
                         overlapped, deleted>>
      BY <1>3 DEF FindTemplate, store
    <2>3. \E w \in WorkerRow :
             /\ worker' = [worker EXCEPT ![j] = w] /\ w.upload = r.upload /\ w.error = r.error
             /\ \/ w.pc = "creating"
                \/ w.pc = "refreshing" /\ template[s] # None /\ w.template = template[s].id
      <3>1. CASE found = None
        <4> DEFINE w == [r EXCEPT !.pc = "creating"]
        <4>1. w \in WorkerRow /\ w.upload = r.upload /\ w.error = r.error /\ w.pc = "creating"
          BY <1>0 DEF WorkerRow, Pcs
        <4>2. worker' = [worker EXCEPT ![j] = w]
          BY <1>3, <3>1 DEF FindTemplate
        <4> QED
          BY <4>1, <4>2
      <3>2. CASE found # None
        <4> DEFINE w == [r EXCEPT !.pc = "refreshing", !.template = found.id]
        <4>1. /\ w \in WorkerRow /\ w.upload = r.upload /\ w.error = r.error
              /\ w.pc = "refreshing" /\ w.template = found.id
          BY <1>0, <1>b, <2>1, <3>2 DEF WorkerRow, Pcs, TemplateRow
        <4>2. worker' = [worker EXCEPT ![j] = w]
          BY <1>3, <3>2 DEF FindTemplate, Refresh
        <4> QED
          BY <3>2, <4>1, <4>2
      <3> QED
        BY <3>1, <3>2
    <2>4. PICK w \in WorkerRow :
             /\ worker' = [worker EXCEPT ![j] = w] /\ w.upload = r.upload /\ w.error = r.error
             /\ \/ w.pc = "creating"
                \/ w.pc = "refreshing" /\ template[s] # None /\ w.template = template[s].id
      BY <2>3
    <2>5. GoesOn(j, w) /\ Touches(j, w)
      BY <2>1, <2>2, <2>4 DEF GoesOn, Touches, Starting, At
    <2>6. Fine
      BY <1>a, <1>c, <2>1, <2>2, <2>4
         DEF Healed, Classed, Whole, Complete, At, Own
    <2> QED
      BY <1>b, <2>2, <2>5, <2>6, Acting
  <1>4. CASE CreateTemplate(j)
    <2>1. j \in Running /\ At(j, "creating") /\ s \in Specs /\ Derived(j) \in RuleSets
      BY <1>0, <1>4, RunningRow DEF CreateTemplate, Running, At
    <2>2. UNCHANGED <<current, classified, styleOf, profile, finalizing, overlapped, deleted>>
      BY <1>4 DEF CreateTemplate
    <2>3. CASE template[s] = None
      <3> DEFINE w == [r EXCEPT !.pc = "assigning", !.template = j]
                 made == [id |-> j, rules |-> Derived(j)]
      <3>1. /\ w \in WorkerRow /\ w.upload = r.upload /\ w.error = r.error
            /\ w.pc = "assigning" /\ w.template = j
        BY <1>0 DEF WorkerRow, Pcs
      <3>2. /\ worker' = [worker EXCEPT ![j] = w]
            /\ template' = [template EXCEPT ![s] = made]
        BY <1>4, <2>3 DEF CreateTemplate
      <3>3. made \in TemplateRow /\ made.id = j /\ made.rules = Derived(j) /\ made # None
        BY <2>1, NoneAssumption DEF TemplateRow
      <3> HIDE DEF w, made
      <3>4. template'[s] = made /\ template' \in [Specs -> TemplateRow \cup {None}]
        BY <1>b, <2>1, <3>2, <3>3
      <3>5. GoesOn(j, w) /\ Touches(j, w)
        BY <1>b, <2>1, <2>2, <2>3, <3>1, <3>2, <3>3 DEF GoesOn, Touches, Starting, At
      <3>6. Fine
        BY <1>a, <1>c, <2>1, <2>2, <3>1, <3>2, <3>3, <3>4
           DEF Healed, Classed, Whole, Complete, At, Own, Carries, Running
      <3> QED
        BY <1>b, <2>2, <3>4, <3>5, <3>6, Acting
    <2>4. CASE template[s] # None
      <3> DEFINE w == [r EXCEPT !.pc = "finding-raced"]
      <3>1. /\ w \in WorkerRow /\ w.upload = r.upload /\ w.error = r.error
            /\ w.pc = "finding-raced"
        BY <1>0 DEF WorkerRow, Pcs
      <3>2. worker' = [worker EXCEPT ![j] = w] /\ UNCHANGED template
        BY <1>4, <2>4 DEF CreateTemplate, LostCreateRace
      <3> HIDE DEF w
      <3>3. GoesOn(j, w) /\ Touches(j, w)
        BY <2>1, <2>2, <3>1, <3>2 DEF GoesOn, Touches, Starting, At
      <3>4. Fine
        BY <1>a, <1>c, <2>1, <2>2, <2>4, <3>1, <3>2
           DEF Healed, Classed, Whole, Complete, At, Own, Running
      <3> QED
        BY <1>b, <2>2, <3>2, <3>3, <3>4, Acting
    <2> QED
      BY <2>3, <2>4
  <1>5. CASE FindRacedTemplate(j)
    <2> DEFINE found == template[s]
    <2>1. j \in Running /\ At(j, "finding-raced") /\ s \in Specs
      BY <1>0, <1>5, RunningRow DEF FindRacedTemplate, Running, At
    <2>2. /\ UNCHANGED <<current, classified, template, styleOf, profile, finalizing,
                         overlapped, deleted>>
      BY <1>5 DEF FindRacedTemplate, store
    <2>3. CASE found = None
      <3>1. Done(j, "duplicate") /\ deleted
        BY <1>5, <1>a, <2>1, <2>3 DEF FindRacedTemplate, Failed, Healed
      <3> QED
        BY <2>1, <2>2, <3>1, FailedStep DEF Errors
    <2>4. CASE found # None
      <3> DEFINE w == [r EXCEPT !.pc = "refreshing", !.template = found.id]
      <3>1. /\ w \in WorkerRow /\ w.upload = r.upload /\ w.error = r.error
            /\ w.pc = "refreshing" /\ w.template = template[s].id
        BY <1>0, <1>b, <2>1, <2>4 DEF WorkerRow, Pcs, TemplateRow
      <3>2. worker' = [worker EXCEPT ![j] = w]
        BY <1>5, <2>4 DEF FindRacedTemplate
      <3> HIDE DEF w
      <3>3. GoesOn(j, w) /\ Touches(j, w)
        BY <2>1, <2>2, <3>1, <3>2 DEF GoesOn, Touches, Starting, At
      <3>4. Fine
        BY <1>a, <1>c, <2>1, <2>2, <2>4, <3>1, <3>2
           DEF Healed, Classed, Whole, Complete, At, Own, Running
      <3> QED
        BY <1>b, <2>2, <3>3, <3>4, Acting
    <2> QED
      BY <2>3, <2>4
  <1>6. CASE RefreshTemplate(j)
    <2> DEFINE w == [r EXCEPT !.pc = "assigning"]
               old == template[s]
               new == [old EXCEPT !.rules = Upserted(Derived(j), @)]
    <2>1. j \in Running /\ At(j, "refreshing") /\ s \in Specs /\ Derived(j) \in RuleSets
      BY <1>0, <1>6, RunningRow DEF RefreshTemplate, Running, At
    <2>2. UNCHANGED <<current, classified, styleOf, profile, finalizing, overlapped, deleted>>
      BY <1>6 DEF RefreshTemplate
    <2>3. /\ w \in WorkerRow /\ w.upload = r.upload /\ w.error = r.error
          /\ w.pc = "assigning" /\ w.template = r.template
      BY <1>0 DEF WorkerRow, Pcs
    <2>4. worker' = [worker EXCEPT ![j] = w]
      BY <1>6 DEF RefreshTemplate
    <2>5. CASE old # None /\ old.id = r.template
      <3>1. old \in TemplateRow
        BY <1>b, <2>1, <2>5
      <3>2. /\ Upserted(Derived(j), old.rules) \in RuleSets
            /\ \A type \in DOMAIN Derived(j) :
                  Upserted(Derived(j), old.rules)[type] = Derived(j)[type]
        BY <2>1, <3>1, UpsertedRules DEF TemplateRow
      <3>3. /\ new \in TemplateRow /\ new.id = old.id
            /\ new.rules = Upserted(Derived(j), old.rules)
        BY <3>1, <3>2 DEF TemplateRow
      <3>4. template' = [template EXCEPT ![s] = new]
        BY <1>6, <2>5 DEF RefreshTemplate
      <3> HIDE DEF w, new
      <3>5. new # None /\ template'[s] = new /\ template' \in [Specs -> TemplateRow \cup {None}]
        BY <1>b, <2>1, <3>3, <3>4, NoneAssumption
      <3>6. GoesOn(j, w) /\ Touches(j, w)
        BY <1>b, <2>1, <2>2, <2>3, <2>4, <2>5, <3>3, <3>4, <3>5
           DEF GoesOn, Touches, Starting, At
      <3>7. /\ worker'[j] = w /\ SpecOf(j)' = s /\ Derived(j)' = Derived(j)
            /\ Others(j)' = Others(j)
        BY <1>c, <2>3, <2>4
      <3>8. Own(j)' /\ Carries(j)'
        BY <2>3, <2>5, <3>2, <3>3, <3>5, <3>7 DEF Own, Carries
      <3>9. Fine
        BY <1>a, <2>1, <2>2, <2>3, <3>7, <3>8 DEF Healed, Classed, Whole, Complete, At, Running
      <3> QED
        BY <1>b, <2>2, <3>5, <3>6, <3>9, Acting
    <2>6. CASE ~(old # None /\ old.id = r.template)
      <3>1. UNCHANGED template
        BY <1>6, <2>6 DEF RefreshTemplate
      <3> HIDE DEF w
      <3>2. GoesOn(j, w) /\ Touches(j, w)
        BY <2>1, <2>2, <2>3, <2>4, <3>1 DEF GoesOn, Touches, Starting, At
      <3>3. Fine
        BY <1>a, <1>c, <2>1, <2>2, <2>3, <2>4, <2>6, <3>1
           DEF Healed, Classed, Whole, Complete, At, Own, Running
      <3> QED
        BY <1>b, <2>2, <3>1, <3>2, <3>3, Acting
    <2> QED
      BY <2>5, <2>6
  <1>7. CASE AssignStyle(j)
    <2>1. j \in Running /\ At(j, "assigning") /\ s \in Specs
      BY <1>0, <1>7, RunningRow DEF AssignStyle, Running, At
    <2>2. UNCHANGED <<current, classified, template, profile, finalizing, overlapped, deleted>>
      BY <1>7 DEF AssignStyle
    <2>3. CASE Own(j)
      <3> DEFINE w == [r EXCEPT !.pc = "classifying", !.template = None]
      <3>1. /\ w \in WorkerRow /\ w.upload = r.upload /\ w.error = r.error
            /\ w.pc = "classifying"
        BY <1>0 DEF WorkerRow, Pcs
      <3>2. /\ worker' = [worker EXCEPT ![j] = w]
            /\ styleOf' = [styleOf EXCEPT ![s] = r.template]
        BY <1>7, <2>3 DEF AssignStyle, Own
      <3> HIDE DEF w
      <3>3. /\ styleOf'[s] = template[s].id /\ template[s] # None
            /\ styleOf' \in [Specs -> Jobs \cup {None}]
        BY <1>0, <1>b, <2>1, <2>3, <3>2 DEF Own, WorkerRow
      <3>4. GoesOn(j, w) /\ Touches(j, w)
        BY <1>b, <2>1, <2>2, <3>1, <3>2 DEF GoesOn, Touches, Starting, At
      <3>5. Fine
        BY <1>a, <1>c, <2>1, <2>2, <2>3, <3>1, <3>2, <3>3
           DEF Healed, Classed, Whole, Complete, Styled, Carries, At, Running
      <3> QED
        BY <1>b, <2>2, <3>3, <3>4, <3>5, Acting
    <2>4. CASE ~Own(j)
      <3>1. Done(j, "unassigned") /\ UNCHANGED styleOf /\ deleted
        BY <1>7, <1>a, <2>1, <2>4 DEF AssignStyle, Own, Failed, Healed
      <3> QED
        BY <2>1, <2>2, <3>1, FailedStep DEF Errors
    <2> QED
      BY <2>3, <2>4
  <1>8. CASE Classify(j)
    <2> DEFINE w == [r EXCEPT !.pc = "storing", !.read = current[s], !.rules = ResolvedRules]
    <2>1. j \in Running /\ At(j, "classifying") /\ s \in Specs
      BY <1>0, <1>8, RunningRow DEF Classify, Running, At
    <2>2. /\ UNCHANGED <<current, classified, template, styleOf, profile, finalizing,
                         overlapped, deleted>>
      BY <1>8 DEF Classify, store
    <2>3. ResolvedRules \in Conventions \cup {BuiltIn} /\ ResolvedRules # None
      BY <1>0, NoneAssumption DEF ResolvedRules, JobsTypeOK, ProfileRow
    <2>4. /\ w \in WorkerRow /\ w.upload = r.upload /\ w.error = r.error
          /\ w.pc = "storing" /\ w.read = current[s] /\ w.rules # None
      BY <1>0, <1>b, <2>1, <2>3 DEF WorkerRow, Pcs
    <2>5. worker' = [worker EXCEPT ![j] = w]
      BY <1>8 DEF Classify
    <2> HIDE DEF w
    <2>6. GoesOn(j, w) /\ Touches(j, w)
      BY <2>1, <2>2, <2>4, <2>5 DEF GoesOn, Touches, Starting, At
    <2>7. Fine
      BY <1>a, <1>c, <2>1, <2>2, <2>4, <2>5
         DEF Healed, Classed, Whole, Complete, Styled, Carries, At, Running
    <2> QED
      BY <1>b, <2>2, <2>6, <2>7, Acting
  <1>9. CASE StoreClassifications(j)
    <2> DEFINE w == [r EXCEPT !.pc = "summarizing", !.rules = None, !.read = None]
    <2>1. j \in Running /\ At(j, "storing") /\ s \in Specs
      BY <1>0, <1>9, RunningRow DEF StoreClassifications, Running, At
    <2>2. UNCHANGED <<current, template, styleOf, profile, finalizing, overlapped, deleted>>
      BY <1>9 DEF StoreClassifications
    <2>3. w \in WorkerRow /\ w.upload = r.upload /\ w.error = r.error /\ w.pc = "summarizing"
      BY <1>0 DEF WorkerRow, Pcs
    <2>4. worker' = [worker EXCEPT ![j] = w]
      BY <1>9 DEF StoreClassifications
    <2>5. r.rules \in Conventions \cup {BuiltIn, None} /\ r.rules # None
      BY <1>0, <2>1 DEF WorkerRow, JobsTypeOK, At
    <2>6. /\ classified' \in [Specs -> Conventions \cup {BuiltIn, None}]
          /\ \A t \in Specs \ {s} : classified'[t] = classified[t]
          /\ current[s] = r.read => classified'[s] = r.rules
          /\ current[s] # r.read => classified'[s] = classified[s]
      BY <1>9, <1>b, <2>1, <2>5 DEF StoreClassifications
    <2> HIDE DEF w
    <2>7. GoesOn(j, w) /\ Touches(j, w)
      BY <2>1, <2>2, <2>3, <2>4, <2>5, <2>6 DEF GoesOn, Touches, Starting, At
    <2>8. Fine
      BY <1>a, <1>c, <2>1, <2>2, <2>3, <2>4, <2>5, <2>6
         DEF Healed, Classed, Whole, Complete, Styled, Carries, At, Running
    <2> QED
      BY <1>b, <2>2, <2>6, <2>7, <2>8, Acting
  <1>10. CASE Summarize(j)
    <2>1. j \in Running /\ At(j, "summarizing") /\ s \in Specs
      BY <1>0, <1>10, RunningRow DEF Summarize, Running, At
    <2>2. /\ UNCHANGED <<current, classified, template, styleOf, profile, finalizing,
                         overlapped, deleted>>
      BY <1>10 DEF Summarize, store
    <2>3. Done(j, None)
      BY <1>10 DEF Summarize, Completed
    <2>4. PICK w \in WorkerRow : /\ worker' = [worker EXCEPT ![j] = w]
                                 /\ w.upload = r.upload
                                 /\ w.pc = "done" /\ w.error = None
      BY <1>0, <2>1, <2>3, DoneRow
    <2>5. GoesOn(j, w) /\ Touches(j, w)
      BY <2>1, <2>2, <2>4 DEF GoesOn, Touches
    <2>6. /\ worker'[j] = w /\ SpecOf(j)' = s /\ Derived(j)' = Derived(j)
          /\ Others(j)' = Others(j)
      BY <1>c, <2>4
    <2>7. Healed(j)' /\ Classed(j)'
      BY <1>a, <2>1, <2>2, <2>4, <2>6, NoneAssumption
         DEF Healed, Classed, Complete, At, Errors
    <2>8. Whole(j)'
      <3>1. ASSUME j \notin overlapped
            PROVE  Others(j) = {} /\ (Derived(j) # <<>> => Styled(j))
        BY <1>a, <2>1, <3>1 DEF Whole, At
      <3>2. Styled(j) => Styled(j)'
        BY <2>2, <2>6 DEF Styled, Carries
      <3> QED
        BY <2>2, <2>4, <2>6, <3>1, <3>2 DEF Whole, At, Running
    <2> QED
      BY <1>b, <2>2, <2>5, <2>7, <2>8, Acting
  <1> QED
    BY <1>1, <1>2, <1>3, <1>4, <1>5, <1>6, <1>7, <1>8, <1>9, <1>10 DEF Work

(* The conventions, and what a finalize is about to seed, concern no job.    *)
LEMMA ConventionStep ==
    ASSUME JobsInv, profile' \in ProfileRow \cup {None},
           finalizing' \in [Specs -> Conventions \cup {BuiltIn, None}],
           UNCHANGED <<worker, current, classified, template, styleOf, overlapped, deleted>>
    PROVE  JobsInv'
  <1>1. JobsTypeOK'
    BY DEF JobsInv, JobsTypeOK
  <1>2. \A j \in Jobs : (Healed(j) /\ Classed(j) /\ Whole(j))'
    BY DEF JobsInv, Healed, Classed, Whole, Complete, Own, Styled, Carries, Others, Running,
           At, SpecOf, Derived
  <1> QED
    BY <1>1, <1>2 DEF JobsInv

(* A new job overlaps, and is overlapped by, those that run on its spec.     *)
LEMMA AcceptStep == ASSUME JobsInv, NEW j \in Jobs, Accept(j)  PROVE JobsInv'
  <1>1. PICK u \in Uploads :
           LET others == {k \in Running : SpecOf(k) = u.spec} IN
           /\ worker' = [worker EXCEPT ![j] = [NoWork EXCEPT !.pc = "parsing", !.upload = u]]
           /\ overlapped' = overlapped \cup IF others = {} THEN {} ELSE others \cup {j}
    BY DEF Accept
  <1> DEFINE others == {k \in Running : SpecOf(k) = u.spec}
             w == [NoWork EXCEPT !.pc = "parsing", !.upload = u]
  <1>2. UNCHANGED <<current, classified, template, styleOf, profile, finalizing, deleted>>
    BY DEF Accept, store
  <1>3. w \in WorkerRow /\ w.pc = "parsing" /\ w.upload = u /\ w.error = None
    BY DEF NoWork, WorkerRow, Pcs
  <1>4. /\ worker \in [Jobs -> WorkerRow] /\ worker' = [worker EXCEPT ![j] = w]
        /\ overlapped' = overlapped \cup IF others = {} THEN {} ELSE others \cup {j}
    BY <1>1 DEF JobsInv, JobsTypeOK
  <1> HIDE DEF w
  <1>5. worker'[j] = w /\ \A k \in Jobs \ {j} : worker'[k] = worker[k]
    BY <1>4
  <1>6. JobsTypeOK'
    BY <1>2, <1>3, <1>4 DEF JobsInv, JobsTypeOK
  <1>7. (Healed(j) /\ Classed(j) /\ Whole(j))'
    <2>1. Healed(j)' /\ Classed(j)'
      BY <1>3, <1>5, NoneAssumption DEF Healed, Classed, Complete, At, Errors
    <2>2. ASSUME j \notin overlapped'  PROVE Others(j)' = {}
      <3>1. others = {}
        BY <1>4, <2>2
      <3>2. \A k \in Others(j)' : k \in others
        BY <1>3, <1>5 DEF Others, Running, SpecOf
      <3> QED
        BY <3>1, <3>2
    <2> QED
      BY <1>3, <1>5, <2>1, <2>2 DEF Whole, Complete, At
  <1>8. ASSUME NEW k \in Jobs \ {j}  PROVE (Healed(k) /\ Classed(k) /\ Whole(k))'
    <2>1. /\ Healed(k) /\ Classed(k) /\ Whole(k) /\ worker'[k] = worker[k]
          /\ SpecOf(k)' = SpecOf(k) /\ Derived(k)' = Derived(k)
      BY <1>5 DEF JobsInv, SpecOf, Derived
    <2>2. Healed(k)' /\ Classed(k)'
      BY <1>2, <2>1 DEF Healed, Classed, Complete, Own, At
    <2>3. \A i \in Others(k)' : i = j \/ (i \in Others(k) /\ worker'[i] = worker[i])
      BY <1>5 DEF Others, Running, SpecOf
    <2>4. ASSUME k \notin overlapped', k \in Running  PROVE SpecOf(k) # u.spec
      BY <1>4, <2>4
    <2>5. k \notin overlapped' => k \notin overlapped
      BY <1>4
    <2>6. ASSUME k \notin overlapped', k \in Running'  PROVE Others(k)' = {}
      <3>1. k \in Running /\ Others(k) = {}
        BY <2>1, <2>5, <2>6 DEF Whole, Running
      <3>2. j \notin Others(k)'
        BY <1>3, <1>5, <2>1, <2>4, <2>6, <3>1 DEF Others, SpecOf
      <3> QED
        BY <2>3, <3>1, <3>2
    <2>7. Complete(k)' <=> Complete(k)
      BY <1>2, <2>1 DEF Complete, At
    <2>8. ASSUME k \notin overlapped', Complete(k)
          PROVE  \A i \in Others(k)' : worker'[i].pc \in {"parsing", "persisting"}
      BY <1>3, <1>5, <2>1, <2>3, <2>5, <2>8 DEF Whole
    <2>9. Whole(k)'
      BY <1>2, <2>1, <2>5, <2>6, <2>7, <2>8 DEF Whole, Styled, Carries, Own, At
    <2> QED
      BY <2>2, <2>9
  <1> QED
    BY <1>6, <1>7, <1>8 DEF JobsInv

(* A template that a spec uses stays; one that goes is noticed.              *)
LEMMA DeleteStep == ASSUME JobsInv, NEW s \in Specs, DeleteTemplate(s)  PROVE JobsInv'
  <1>1. /\ styleOf[s] # template[s].id /\ template' = [template EXCEPT ![s] = None]
        /\ deleted'
        /\ UNCHANGED <<worker, current, classified, styleOf, profile, finalizing, overlapped>>
    BY DEF DeleteTemplate
  <1>2. JobsTypeOK'
    BY <1>1 DEF JobsInv, JobsTypeOK
  <1>3. ASSUME NEW j \in Jobs  PROVE (Healed(j) /\ Classed(j) /\ Whole(j))'
    <2>1. Healed(j) /\ Classed(j) /\ Whole(j)
      BY DEF JobsInv
    <2>2. SpecOf(j)' = SpecOf(j) /\ Derived(j)' = Derived(j) /\ Others(j)' = Others(j)
      BY <1>1 DEF SpecOf, Derived, Others, Running
    <2>3. Healed(j)'
      BY <1>1 DEF Healed
    <2>4. Complete(j)' <=> Complete(j)
      BY <1>1, <2>2 DEF Complete, At
    <2>5. Classed(j)'
      BY <1>1, <2>1, <2>2, <2>4 DEF Classed, At
    <2>6. \A t \in Specs : t # s => template'[t] = template[t]
      BY <1>1 DEF JobsInv, JobsTypeOK
    <2>7. template'[s] = None
      BY <1>1 DEF JobsInv, JobsTypeOK
    <2>8. ASSUME worker[j].pc # "off"  PROVE SpecOf(j) \in Specs
      BY <2>8, RunningRow DEF JobsInv
    <2>9. ASSUME Styled(j), worker[j].pc # "off"  PROVE Styled(j)'
      BY <1>1, <2>2, <2>6, <2>8, <2>9 DEF Styled, Carries
    <2>10. ASSUME Own(j)', worker[j].pc # "off", Carries(j) \/ ~Own(j)  PROVE Carries(j)'
      BY <1>1, <2>2, <2>6, <2>7, <2>8, <2>10 DEF Own, Carries
    <2>11. Whole(j)'
      BY <1>1, <2>1, <2>2, <2>4, <2>9, <2>10 DEF Whole, At, Running, Complete
    <2> QED
      BY <2>3, <2>5, <2>11
  <1> QED
    BY <1>2, <1>3 DEF JobsInv

(* After a restart no call is left, and none has completed.                  *)
LEMMA RestartStep == ASSUME JobsInv, Restart  PROVE JobsInv'
  <1>1. /\ worker' = [j \in Jobs |-> NoWork] /\ finalizing' = [s \in Specs |-> None]
        /\ UNCHANGED <<current, classified, template, styleOf, profile, overlapped, deleted>>
    BY DEF Restart, store
  <1>2. NoWork \in WorkerRow /\ NoWork.pc = "off" /\ NoWork.error = None
    BY DEF NoWork, WorkerRow, Pcs
  <1>3. JobsTypeOK'
    BY <1>1, <1>2 DEF JobsInv, JobsTypeOK
  <1>4. \A j \in Jobs : (Healed(j) /\ Classed(j) /\ Whole(j))'
    BY <1>1, <1>2, NoneAssumption
       DEF Healed, Classed, Whole, Complete, At, Running, Errors
  <1> QED
    BY <1>3, <1>4 DEF JobsInv

(* The jobs, the users and the process, between them, keep the invariant.    *)
LEMMA JobsStep == JobsInv /\ [JobsNext]_jobsVars => JobsInv'
  <1> SUFFICES ASSUME JobsInv, [JobsNext]_jobsVars  PROVE JobsInv'
    OBVIOUS
  <1>1. ASSUME NEW j \in Jobs, DatabaseFails(j)  PROVE JobsInv'
    BY <1>1, FailedStep DEF DatabaseFails, Failed, Errors, store
  <1>2. ASSUME NEW j \in Jobs, Expire(j)  PROVE JobsInv'
    BY <1>2, ConventionStep DEF Expire, store, JobsInv, JobsTypeOK
  <1>3. ASSUME NEW s \in Specs, FinalizeBegin(s) \/ FinalizeCommit(s) \/ FinalizeFails(s)
                                \/ Reopen(s)
        PROVE  JobsInv'
    <2>1. UNCHANGED <<worker, current, classified, template, styleOf, overlapped, deleted>>
      BY <1>3 DEF FinalizeBegin, FinalizeCommit, FinalizeFails, Reopen, store
    <2>2. /\ profile' \in ProfileRow \cup {None}
          /\ finalizing' \in [Specs -> Conventions \cup {BuiltIn, None}]
      <3>1. finalizing[s] # None => [rules |-> finalizing[s], setBy |-> "seed"] \in ProfileRow
        BY DEF JobsInv, JobsTypeOK, ProfileRow
      <3>2. ResolvedRules \in Conventions \cup {BuiltIn}
        BY DEF JobsInv, JobsTypeOK, ProfileRow, ResolvedRules
      <3> QED
        BY <1>3, <3>1, <3>2
           DEF FinalizeBegin, FinalizeCommit, FinalizeFails, Reopen, SeedLibraryConvention,
               SpecRowFree, JobsInv, JobsTypeOK, store
    <2> QED
      BY <2>1, <2>2, ConventionStep
  <1>4. ASSUME NEW rules \in Conventions, UpsertLibraryConvention(rules)  PROVE JobsInv'
    <2>1. [rules |-> rules, setBy |-> "user"] \in ProfileRow
      BY DEF ProfileRow
    <2> QED
      BY <1>4, <2>1, ConventionStep DEF UpsertLibraryConvention, JobsInv, JobsTypeOK
  <1>5. CASE UNCHANGED jobsVars
    BY <1>5, ConventionStep DEF jobsVars, store, JobsInv, JobsTypeOK
  <1> QED
    BY <1>1, <1>2, <1>3, <1>4, <1>5, AcceptStep, WorkStep, DeleteStep, RestartStep DEF JobsNext

LEMMA JobsBegin == JobsInit => JobsInv
  <1> SUFFICES ASSUME JobsInit  PROVE JobsInv
    OBVIOUS
  <1>1. NoWork \in WorkerRow /\ NoWork.pc = "off" /\ NoWork.error = None
    BY DEF NoWork, WorkerRow, Pcs
  <1>2. JobsTypeOK
    BY <1>1 DEF JobsInit, JobsTypeOK
  <1>3. \A j \in Jobs : Healed(j) /\ Classed(j) /\ Whole(j)
    BY <1>1, NoneAssumption
       DEF JobsInit, Healed, Classed, Whole, Complete, At, Running, Errors
  <1> QED
    BY <1>2, <1>3 DEF JobsInv

(* A job fails on its template only when a user has deleted one under it,    *)
(* however many imports race for its name.                                   *)
THEOREM TemplateRacesHeal == JobsSpec => []TemplateRaceIsHealed
  <1>1. JobsInv => TemplateRaceIsHealed
    BY DEF JobsInv, Healed, TemplateRaceIsHealed
  <1> QED
    BY <1>1, JobsBegin, JobsStep, PTL DEF JobsSpec

(* A completed onboarding leaves its rows classified and, if nobody          *)
(* overlapped it, the spec with a template that says what its file said.     *)
THEOREM OnboardingCompletes == JobsSpec => []CompletedOnboardingIsWhole
  <1>1. JobsInv => CompletedOnboardingIsWhole
    BY DEF JobsInv, Classed, Whole, Complete, Styled, Carries, CompletedOnboardingIsWhole
  <1> QED
    BY <1>1, JobsBegin, JobsStep, PTL DEF JobsSpec

(* A convention a user has set is replaced by users only: the seed of a      *)
(* finalize that read the rules earlier does not put them back.              *)
THEOREM UsersSetTheConvention == JobsSpec => UserConventionKept
  <1> DEFINE kept == profile # None /\ profile.setBy = "user" => profile'.setBy = "user"
  <1>1. ASSUME NEW j \in Jobs, Accept(j) \/ Work(j) \/ DatabaseFails(j) \/ Expire(j)
        PROVE  profile' = profile
    BY <1>1 DEF Accept, Work, ParseEnds, Persist, FindTemplate, CreateTemplate,
                FindRacedTemplate, RefreshTemplate, AssignStyle, Classify,
                StoreClassifications, Summarize, DatabaseFails, Expire, store
  <1>2. ASSUME NEW s \in Specs, FinalizeBegin(s) \/ FinalizeFails(s) \/ Reopen(s)
                                \/ DeleteTemplate(s)
        PROVE  profile' = profile
    BY <1>2 DEF FinalizeBegin, FinalizeFails, Reopen, DeleteTemplate, store
  <1>3. ASSUME NEW s \in Specs, FinalizeCommit(s)  PROVE kept
    BY <1>3 DEF FinalizeCommit, SeedLibraryConvention
  <1>4. ASSUME NEW rules \in Conventions, UpsertLibraryConvention(rules)  PROVE kept
    BY <1>4 DEF UpsertLibraryConvention
  <1>5. ASSUME Restart \/ UNCHANGED jobsVars  PROVE profile' = profile
    BY <1>5 DEF Restart, jobsVars, store
  <1>6. [JobsNext]_jobsVars => [kept]_profile
    BY <1>1, <1>2, <1>3, <1>4, <1>5 DEF JobsNext
  <1> QED
    BY <1>6, PTL DEF JobsSpec, UserConventionKept

=============================================================================
