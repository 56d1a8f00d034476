------------------------------- MODULE PdfOcr -------------------------------
(***************************************************************************)
(* The optical reading of a PDF whose text layer is too thin (parsePdf,    *)
(* recognizePdfPages).  A recogniser is started, and its start is raced    *)
(* against a timer; then the thin pages are rendered and read one by one,  *)
(* and the recogniser is terminated.  Anything that fails on the way is     *)
(* caught: the pages stay as they were and a warning is given.             *)
(*                                                                         *)
(* The event loop runs a callback with all that follows from it up to the  *)
(* next await, and that is a step.  The library spawns its worker thread    *)
(* first and then may have to fetch the model, so that a recogniser that is *)
(* starting is a live thread already; the fetch is answered, fails, or is   *)
(* accepted and never answered ("black hole", ADR-039): then the factory    *)
(* does not settle, and nobody ever holds a handle to the thread.           *)
(*                                                                         *)
(* Abstractions: of a text, whether it is blank; no confidence.            *)
(***************************************************************************)
EXTENDS Integers

CONSTANT NPages    \* pages of the PDF

ASSUME NPagesAssumption == NPages \in Nat

Pages == 1..NPages

VARIABLES
    reading,       \* the call: [pc, strict, local, thin, results, failed]
    recogniser,    \* "none"; "starting", "stalled" or "up": a live worker thread;
                   \* "ended": told to terminate; "failed": its start rejected
    timer,         \* of initManagedRecognizer: "off", "armed", "fired"
    parsed         \* what the call gave: [shown, applied, unusable]

ocrVars == <<reading, recogniser, timer, parsed>>

Unread == [pc |-> "none"]
InPhase(pc) == reading.pc = pc

(* usableOcrResults, unusableOcrPages *)
Usable(results) == {p \in DOMAIN results : results[p] # "blank"}
Unusable_Unread(results) == reading.thin \ DOMAIN results    \* mutant: blank counts as read
Unusable(results) == reading.thin \ Usable(results)

(* spliceOcrText: a page without a usable reading is as it was.              *)
Shown(results) == [p \in Pages |-> IF p \in Usable(results) THEN "read" ELSE "layer"]

(* That and ocrWarnings.                                                    *)
Spliced(results) ==
    [shown |-> Shown(results), applied |-> Usable(results) # {},
     unusable |-> Unusable(results)]

(* The catch of applyOcrIfNeeded.                                           *)
Degraded(thin) ==
    [shown |-> Shown(<<>>), applied |-> FALSE, unusable |-> thin]

Return(result) ==
    /\ reading' = [reading EXCEPT !.pc = "returned"]
    /\ parsed' = result

-----------------------------------------------------------------------------
(* assertLocalTraineddataIfRequired, before anything is started.             *)
Refused(strict, local) == strict /\ ~local

(* detectPdfOcrNeed; then the factory is called and the timer set.           *)
ReadPdf(thin, strict, local) ==
    /\ InPhase("none")
    /\ LET returns == thin = {} \/ Refused(strict, local)
           call == [strict |-> strict, local |-> local, thin |-> thin, results |-> <<>>,
                    failed |-> FALSE, pc |-> IF returns THEN "returned" ELSE "starting"]
       IN /\ reading' = call
          /\ IF returns
             THEN parsed' = Degraded(thin) /\ UNCHANGED <<recogniser, timer>>
             ELSE recogniser' = "starting" /\ timer' = "armed" /\ UNCHANGED parsed

(* The factory resolves: the race is won and the timer cleared, or it was    *)
(* lost and terminateLater ends what nobody waits for any more.              *)
Arrived_Kept == "up"    \* mutant: the timeout rejects, and that is all
Arrived == IF timer = "fired" THEN "ended" ELSE "up"
RecogniserStarts ==
    /\ recogniser = "starting"
    /\ recogniser' = Arrived
    /\ IF InPhase("starting")
       THEN reading' = [reading EXCEPT !.pc = "reading"] /\ timer' = "off"
       ELSE UNCHANGED <<reading, timer>>
    /\ UNCHANGED parsed

(* It rejects (no model, no network).                                        *)
RecogniserFails ==
    /\ recogniser = "starting"
    /\ recogniser' = "failed"
    /\ IF InPhase("starting") THEN Return(Degraded(reading.thin)) /\ timer' = "off"
       ELSE UNCHANGED <<reading, timer, parsed>>

(* Its model is never fetched: there is no answer and no error.              *)
FetchStalls ==
    /\ recogniser = "starting"
    /\ recogniser' = "stalled"
    /\ UNCHANGED <<reading, timer, parsed>>

(* The timer's callback and the catch: a thread that was spawned stays, and   *)
(* only a factory that settles later ends it.                                *)
InitTimesOut ==
    /\ timer = "armed"
    /\ timer' = "fired"
    /\ Return(Degraded(reading.thin))
    /\ UNCHANGED recogniser

(* recognizePage, in order of the pages; one that fails ends the loop.       *)
Remaining == reading.thin \ DOMAIN reading.results
RecognizePage(text) ==
    /\ InPhase("reading") /\ Remaining # {}
    /\ LET p == CHOOSE p \in Remaining : \A q \in Remaining : p <= q
       IN reading' = [reading EXCEPT !.results =
                        [q \in DOMAIN @ \cup {p} |-> IF q = p THEN text ELSE @[q]]]
    /\ UNCHANGED <<recogniser, timer, parsed>>

(* The finally of withRecognizer, after the last page or the failed one.     *)
Terminate ==
    /\ InPhase("reading")
    /\ \E failed \in BOOLEAN :
          /\ failed <=> Remaining # {}
          /\ reading' = [reading EXCEPT !.pc = "ending", !.failed = failed]
    /\ recogniser' = "ended"
    /\ UNCHANGED <<timer, parsed>>

(* Its await; a termination that rejects takes the results with it.          *)
Terminated ==
    /\ InPhase("ending")
    /\ \E rejected \in BOOLEAN :
          Return(IF rejected \/ reading.failed THEN Degraded(reading.thin)
                 ELSE Spliced(reading.results))
    /\ UNCHANGED <<recogniser, timer>>

OcrInit ==
    /\ reading = Unread
    /\ recogniser = "none"
    /\ timer = "off"
    /\ parsed = Degraded({})

OcrNext ==
    \/ \E thin \in SUBSET Pages, strict, local \in BOOLEAN : ReadPdf(thin, strict, local)
    \/ RecogniserStarts \/ RecogniserFails \/ FetchStalls \/ InitTimesOut
    \/ \E text \in {"blank", "words"} : RecognizePage(text)
    \/ Terminate \/ Terminated

(* A timer that is set fires.  Nothing is assumed of the library: its start  *)
(* succeeds, fails, or has stalled.                                          *)
OcrFairness ==
    /\ WF_ocrVars(InitTimesOut)
    /\ WF_ocrVars(RecogniserStarts \/ RecogniserFails \/ FetchStalls)

OcrSpec == OcrInit /\ [][OcrNext]_ocrVars /\ OcrFairness

-----------------------------------------------------------------------------
(* A recogniser is up as long as its pages are read, and one that comes after *)
(* the call is ended on arrival.  A thread that lives on after the call is    *)
(* one whose start outlasted the timer: pending still, or stalled, when it is *)
(* the leak that assertLocalTraineddataIfRequired and ADR-039 speak of.  In   *)
(* strict mode none is spawned without a local model.                         *)
RecogniserIsAccountedFor ==
    /\ InPhase("reading") => recogniser = "up"
    /\ InPhase("returned") /\ recogniser \in {"starting", "stalled", "up"} =>
          recogniser # "up" /\ timer = "fired"
    /\ ~InPhase("none") /\ Refused(reading.strict, reading.local) => recogniser = "none"

(* However the call ends, a page with a text layer of its own keeps it, every *)
(* other one shows what was read or is reported, and nothing that was read    *)
(* goes unannounced.                                                          *)
NoPageIsUnannounced ==
    InPhase("returned") =>
        \A p \in Pages :
            IF p \in reading.thin
            THEN IF parsed.shown[p] = "read" THEN parsed.applied
                 ELSE p \in parsed.unusable
            ELSE parsed.shown[p] = "layer"

(* It "must complete with a pdf-ocr-unusable warning within a bounded time,   *)
(* never hang": the call never stays at the start of a recogniser that does   *)
(* not come.  After the call no thread remains but one whose start stalled;   *)
(* whatever else was spawned is ended or failed, however late it settled.     *)
OcrEndsCleanly ==
    /\ InPhase("starting") \/ InPhase("returned")
          ~> /\ ~InPhase("starting")
             /\ InPhase("returned") => recogniser \notin {"starting", "up"}
    /\ [](RecogniserIsAccountedFor /\ NoPageIsUnannounced)
=============================================================================
