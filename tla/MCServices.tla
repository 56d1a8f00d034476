----------------------------- MODULE MCServices -----------------------------
(* Small instances, for one run of TLC, of four components of the server    *)
(* that share no state: jobs, locks, sessions and the optical reading of a   *)
(* PDF.  A run moves only one of them, so that their states are added up and *)
(* not multiplied; since none reads another's, each behaves as it would      *)
(* beside the others.                                                        *)
EXTENDS ImportJobs, AdvisoryLocks, McpSessions, PdfOcr

(* Files of one section: the second DOCX gives a rule that the first does    *)
(* not and another value to the one it does.                                 *)
Upload(onboard, rules) == [spec |-> "s1", onboard |-> onboard, rules |-> rules]
MCUploads ==
    {Upload(TRUE, [pr1 |-> "x"]), Upload(TRUE, [pr1 |-> "y", pr2 |-> "y"]),
     Upload(TRUE, <<>>), Upload(FALSE, <<>>)}

Init == JobsInit /\ LocksInit /\ SessionsInit /\ OcrInit

Next ==
    \/ /\ JobsNext /\ LocksInit /\ SessionsInit /\ OcrInit
       /\ UNCHANGED <<locksVars, sessionsVars, ocrVars>>
    \/ /\ LocksNext /\ JobsInit /\ SessionsInit /\ OcrInit
       /\ UNCHANGED <<jobsVars, sessionsVars, ocrVars>>
    \/ /\ SessionsNext /\ JobsInit /\ LocksInit /\ OcrInit
       /\ UNCHANGED <<jobsVars, locksVars, ocrVars>>
    \/ /\ OcrNext /\ JobsInit /\ LocksInit /\ SessionsInit
       /\ UNCHANGED <<jobsVars, locksVars, sessionsVars>>

Spec ==
    /\ Init /\ [][Next]_<<jobsVars, locksVars, sessionsVars, ocrVars>>
    /\ JobsFairness /\ OcrFairness
=============================================================================
