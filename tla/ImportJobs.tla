----------------------------- MODULE ImportJobs -----------------------------
(***************************************************************************)
(* Import jobs.  POST /parse and POST /libraries/:id/import answer with a  *)
(* job id and go on in the background: parse in a worker thread, persist,  *)
(* derive a style template, classify.  Each statement or transaction of    *)
(* that pipeline commits on its own, so each is a step; what a step read   *)
(* is kept in worker[j] until a later one uses it.  The job table is in    *)
(* process memory: rows expire, and a restart loses all of them.  Beside   *)
(* the jobs, users finalize and reopen the onboarding of a spec, set the   *)
(* library's convention and delete templates.                              *)
(*                                                                         *)
(* Abstractions: one library; the paragraphs an import leaves are named by *)
(* its job, and a template by the job that created it; a classification is *)
(* the rules it was made with; a file that is not DOCX, like a DOCX from   *)
(* which no rule is derived, has no style rules.                           *)
(***************************************************************************)
EXTENDS Integers

CONSTANTS
    MaxJobs,       \* bound: how many uploads are accepted
    Specs,         \* specs (section and source) of the library
    Uploads,       \* what clients send: [spec, onboard, rules]
    Conventions,   \* classification rules a user may set
    BuiltIn,       \* the built-in convention
    None           \* SQL NULL

Jobs == 1..MaxJobs    \* job ids, in the order they are drawn

(* What a style template may say of a paragraph type, a template and a      *)
(* library's convention.                                                    *)
RuleTypes == UNION {DOMAIN u.rules : u \in Uploads}
RuleValues == UNION {{u.rules[type] : type \in DOMAIN u.rules} : u \in Uploads}
RuleSets == UNION {[types -> RuleValues] : types \in SUBSET RuleTypes}
TemplateRow == [id : Jobs, rules : RuleSets]
ProfileRow == [rules : Conventions \cup {BuiltIn}, setBy : {"seed", "user"}]
Errors == {"parse", "duplicate", "unassigned", "database"}

ASSUME MaxJobsAssumption == MaxJobs \in Nat
ASSUME UploadsAssumption == \A u \in Uploads : /\ u.spec \in Specs /\ u.onboard \in BOOLEAN
                                              /\ u.rules \in RuleSets
ASSUME NoneAssumption ==
    /\ None \notin Jobs \cup Conventions \cup {BuiltIn}
    /\ None \notin Uploads \cup TemplateRow
    /\ None \notin ProfileRow \cup {"review", "active"} \cup Errors

VARIABLES
    job,           \* the job table: the stage a poll is shown, "gone" for a 404
    worker,        \* the background call of each job
    current,       \* paragraphs: the import they are from
    classified,    \* paragraphs.classification of those rows
    template,      \* style_templates, by the spec their name is made from
    styleOf,       \* specs.style_template_id
    status,        \* specs.onboarding_status
    profile,       \* editing_conventions: the library's own [rules, setBy]
    finalizing,    \* the rules a finalize in progress is about to seed
    overlapped,    \* history: jobs that ran while another imported the spec
    deleted        \* history: has a user deleted a template

store == <<current, classified, template, styleOf, status, profile>>
jobsVars == <<job, worker, store, finalizing, overlapped, deleted>>

NoWork == [pc |-> "off", upload |-> None, template |-> None, read |-> None,
           rules |-> None, error |-> None]

At(j, pc) == worker[j].pc = pc
SpecOf(j) == worker[j].upload.spec
Derived(j) == worker[j].upload.rules
Running == {j \in Jobs : worker[j].pc \notin {"off", "done"}}

(* updateJob and updateOnboardingJob leave an expired job alone. *)
Shows(j, stage) == IF job[j] = "gone" THEN job ELSE [job EXCEPT ![j] = stage]

Goes(j, pc, stage) ==
    /\ worker' = [worker EXCEPT ![j].pc = pc]
    /\ job' = Shows(j, stage)

(* What is left of a call that has ended. *)
Done(j, error) ==
    worker' = [worker EXCEPT ![j] = [NoWork EXCEPT !.pc = "done", !.upload = worker[j].upload,
                                                   !.error = error]]

(* The catch of both pipelines. *)
Failed_Silent(j, error) == Done(j, error) /\ UNCHANGED job    \* mutant: only logged
Failed(j, error) == Done(j, error) /\ job' = Shows(j, "failed")
Completed(j) == Done(j, None) /\ job' = Shows(j, "complete")

(* A transaction that finalizes or reopens a spec holds its row. *)
SpecRowFree(s) == finalizing[s] = None

-----------------------------------------------------------------------------
(* The pipeline. *)

(* importLibraryHandler and parseHandler: 202, and the call goes on.         *)
Accept(j) ==
    /\ job[j] = "unused" /\ \A k \in 1..(j - 1) : job[k] # "unused"
    /\ \E u \in Uploads :
          LET others == {k \in Running : SpecOf(k) = u.spec} IN
          /\ worker' = [worker EXCEPT ![j] = [NoWork EXCEPT !.pc = "parsing", !.upload = u]]
          /\ overlapped' = overlapped \cup IF others = {} THEN {} ELSE others \cup {j}
    /\ job' = Shows(j, "parsing")
    /\ UNCHANGED <<store, finalizing, deleted>>

ParseEnds(j) ==
    /\ At(j, "parsing")
    /\ Goes(j, "persisting", "persisting") \/ Failed(j, "parse")
    /\ UNCHANGED <<store, finalizing, overlapped, deleted>>

(* persistParsedSpec, one transaction: the rows of the last import go, a new *)
(* spec is in review, an old one keeps its status.  Onboarding goes on.      *)
Persist(j) ==
    LET s == SpecOf(j) IN
    /\ At(j, "persisting")
    /\ SpecRowFree(s)
    /\ current' = [current EXCEPT ![s] = j]
    /\ classified' = [classified EXCEPT ![s] = None]
    /\ status' = [status EXCEPT ![s] = IF @ = None THEN "review" ELSE @]
    /\ IF ~worker[j].upload.onboard THEN Completed(j)
       ELSE IF Derived(j) = <<>> THEN Goes(j, "classifying", "classifying")
       ELSE Goes(j, "finding", "deriving-style")
    /\ UNCHANGED <<template, styleOf, profile, finalizing, overlapped, deleted>>

(* upsertOnboardedTemplate: getTemplateByName, *)
Refresh_Abandoned(j) == "assigning"    \* mutant: what is there is kept as it is
Refresh(j) == "refreshing"
FindTemplate(j) ==
    LET found == template[SpecOf(j)] IN
    /\ At(j, "finding")
    /\ worker' = IF found = None THEN [worker EXCEPT ![j].pc = "creating"]
                 ELSE [worker EXCEPT ![j].pc = Refresh(j), ![j].template = found.id]
    /\ UNCHANGED <<job, store, finalizing, overlapped, deleted>>

(* then createTemplateWithRules; a name taken meanwhile (23505) is looked up *)
(* again,                                                                    *)
LostCreateRace_Throws(j) == Failed(j, "duplicate")    \* mutant: 23505 fails the job
LostCreateRace(j) ==
    /\ worker' = [worker EXCEPT ![j].pc = "finding-raced"]
    /\ UNCHANGED job
CreateTemplate(j) ==
    LET s == SpecOf(j) IN
    /\ At(j, "creating")
    /\ IF template[s] = None
       THEN /\ template' = [template EXCEPT ![s] = [id |-> j, rules |-> Derived(j)]]
            /\ worker' = [worker EXCEPT ![j].pc = "assigning", ![j].template = j]
            /\ UNCHANGED job
       ELSE LostCreateRace(j) /\ UNCHANGED template
    /\ UNCHANGED <<current, classified, styleOf, status, profile, finalizing, overlapped, deleted>>

FindRacedTemplate(j) ==
    LET found == template[SpecOf(j)] IN
    /\ At(j, "finding-raced")
    /\ IF found = None THEN Failed(j, "duplicate")
       ELSE /\ worker' = [worker EXCEPT ![j].pc = "refreshing", ![j].template = found.id]
            /\ UNCHANGED job
    /\ UNCHANGED <<store, finalizing, overlapped, deleted>>

(* or bulkUpsertTemplateRules, which finds the template locked or gone: the  *)
(* rules of other node types stay.                                           *)
Upserted(new, old) ==
    [type \in DOMAIN new \cup DOMAIN old |-> IF type \in DOMAIN new THEN new[type] ELSE old[type]]
RefreshTemplate(j) ==
    LET s == SpecOf(j) IN
    /\ At(j, "refreshing")
    /\ template' = IF template[s] # None /\ template[s].id = worker[j].template
                   THEN [template EXCEPT ![s].rules = Upserted(Derived(j), @)] ELSE template
    /\ worker' = [worker EXCEPT ![j].pc = "assigning"]
    /\ UNCHANGED <<job, current, classified, styleOf, status, profile, finalizing, overlapped, deleted>>

(* setSpecStyleSource: the UPDATE checks in one statement that the template  *)
(* is there; anything but 'assigned' is thrown.                              *)
AssignStyle(j) ==
    LET s == SpecOf(j) IN
    /\ At(j, "assigning")
    /\ SpecRowFree(s)
    /\ IF template[s] # None /\ template[s].id = worker[j].template
       THEN /\ styleOf' = [styleOf EXCEPT ![s] = worker[j].template]
            /\ worker' = [worker EXCEPT ![j].pc = "classifying", ![j].template = None]
            /\ job' = Shows(j, "classifying")
       ELSE Failed(j, "unassigned") /\ UNCHANGED styleOf
    /\ UNCHANGED <<current, classified, template, status, profile, finalizing, overlapped, deleted>>

(* reclassifySpec: the tree and the rules are read (in two statements, which *)
(* nothing here tells apart), then the verdicts are stored by paragraph id,  *)
(* without the edit gate.                                                    *)
ResolvedRules == IF profile = None THEN BuiltIn ELSE profile.rules

Classify(j) ==
    /\ At(j, "classifying")
    /\ worker' = [worker EXCEPT ![j].pc = "storing", ![j].read = current[SpecOf(j)],
                                ![j].rules = ResolvedRules]
    /\ UNCHANGED <<job, store, finalizing, overlapped, deleted>>

StoreClassifications(j) ==
    LET s == SpecOf(j) IN
    /\ At(j, "storing")
    /\ classified' = IF current[s] = worker[j].read
                     THEN [classified EXCEPT ![s] = worker[j].rules] ELSE classified
    /\ worker' = [worker EXCEPT ![j].pc = "summarizing", ![j].rules = None,
                                ![j].read = None]
    /\ UNCHANGED <<job, current, template, styleOf, status, profile, finalizing, overlapped, deleted>>

(* The tree is read once more for the report. *)
Summarize(j) ==
    /\ At(j, "summarizing")
    /\ Completed(j)
    /\ UNCHANGED <<store, finalizing, overlapped, deleted>>

(* Any statement may be the one the database fails.                          *)
DatabaseFails(j) ==
    /\ j \in Running /\ ~At(j, "parsing")
    /\ Failed(j, "database")
    /\ UNCHANGED <<store, finalizing, overlapped, deleted>>

Work(j) ==
    \/ ParseEnds(j) \/ Persist(j)
    \/ FindTemplate(j) \/ CreateTemplate(j) \/ FindRacedTemplate(j) \/ RefreshTemplate(j)
    \/ AssignStyle(j)
    \/ Classify(j) \/ StoreClassifications(j) \/ Summarize(j)

-----------------------------------------------------------------------------
(* Finalize: the spec row is locked and the rules are read, then the library *)
(* is given them as its own profile if it has none, and the spec is active.  *)
FinalizeBegin(s) ==
    /\ status[s] = "review"
    /\ SpecRowFree(s)
    /\ finalizing' = [finalizing EXCEPT ![s] = ResolvedRules]
    /\ UNCHANGED <<job, worker, store, overlapped, deleted>>

SeedLibraryConvention_Upserts(rules) ==    \* mutant: the seed replaces what is there
    [rules |-> rules, setBy |-> "seed"]
SeedLibraryConvention(rules) ==
    IF profile = None THEN [rules |-> rules, setBy |-> "seed"] ELSE profile

FinalizeCommit(s) ==
    /\ ~SpecRowFree(s)
    /\ profile' = SeedLibraryConvention(finalizing[s])
    /\ status' = [status EXCEPT ![s] = "active"]
    /\ finalizing' = [finalizing EXCEPT ![s] = None]
    /\ UNCHANGED <<job, worker, current, classified, template, styleOf, overlapped, deleted>>

(* Any of its statements may fail: ROLLBACK. *)
FinalizeFails(s) ==
    /\ ~SpecRowFree(s)
    /\ finalizing' = [finalizing EXCEPT ![s] = None]
    /\ UNCHANGED <<job, worker, store, overlapped, deleted>>

Reopen(s) ==
    /\ status[s] = "active"
    /\ SpecRowFree(s)
    /\ status' = [status EXCEPT ![s] = "review"]
    /\ UNCHANGED <<job, worker, current, classified, template, styleOf, profile,
                   finalizing, overlapped, deleted>>

(* PUT of a library's convention. *)
UpsertLibraryConvention(rules) ==
    /\ profile' = [rules |-> rules, setBy |-> "user"]
    /\ UNCHANGED <<job, worker, current, classified, template, styleOf, status,
                   finalizing, overlapped, deleted>>

(* DELETE of a template, refused while a spec uses it (ON DELETE RESTRICT).  *)
DeleteTemplate(s) ==
    /\ template[s] # None
    /\ styleOf[s] # template[s].id
    /\ template' = [template EXCEPT ![s] = None]
    /\ deleted' = TRUE
    /\ UNCHANGED <<job, worker, current, classified, styleOf, status, profile,
                   finalizing, overlapped>>

(* The timer set when the job was created, whatever has become of it.        *)
Expire(j) ==
    /\ job[j] \notin {"unused", "gone"}
    /\ job' = [job EXCEPT ![j] = "gone"]
    /\ UNCHANGED <<worker, store, finalizing, overlapped, deleted>>

(* SIGTERM ends the pool and the process, a crash ends it at once: no job    *)
(* and no background call is left, open transactions are rolled back.        *)
Restart ==
    /\ Running # {} \/ \E s \in Specs : ~SpecRowFree(s)
    /\ job' = [j \in Jobs |-> IF job[j] = "unused" THEN "unused" ELSE "gone"]
    /\ worker' = [j \in Jobs |-> NoWork]
    /\ finalizing' = [s \in Specs |-> None]
    /\ UNCHANGED <<store, overlapped, deleted>>

JobsInit ==
    /\ job = [j \in Jobs |-> "unused"]
    /\ worker = [j \in Jobs |-> NoWork]
    /\ current = [s \in Specs |-> None]
    /\ classified = [s \in Specs |-> None]
    /\ template = [s \in Specs |-> None]
    /\ styleOf = [s \in Specs |-> None]
    /\ status = [s \in Specs |-> None]
    /\ profile = None
    /\ finalizing = [s \in Specs |-> None]
    /\ overlapped = {}
    /\ deleted = FALSE

JobsNext ==
    \/ \E j \in Jobs : Accept(j) \/ Work(j) \/ DatabaseFails(j) \/ Expire(j)
    \/ \E s \in Specs : FinalizeBegin(s) \/ FinalizeCommit(s) \/ FinalizeFails(s)
                     \/ Reopen(s) \/ DeleteTemplate(s)
    \/ \E rules \in Conventions : UpsertLibraryConvention(rules)
    \/ Restart

(* A background call goes on to its next step, and a finalize to its COMMIT; *)
(* a row lock that comes free again and again is handed to who waits for it. *)
JobsFairness ==
    /\ \A j \in Jobs : /\ WF_jobsVars(Work(j))
                       /\ SF_jobsVars(Persist(j))
                       /\ SF_jobsVars(AssignStyle(j))
    /\ \A s \in Specs : WF_jobsVars(FinalizeCommit(s))

JobsSpec == JobsInit /\ [][JobsNext]_jobsVars /\ JobsFairness

-----------------------------------------------------------------------------
(* Properties. *)

(* Importing the same file twice at once is no error: a lost race for the    *)
(* template's name is healed, so a job fails on its template only when a     *)
(* user has deleted one under it.                                            *)
TemplateRaceIsHealed ==
    \A j \in Jobs : worker[j].error \in {"duplicate", "unassigned"} => deleted

(* A completed onboarding leaves the rows it imported classified, however    *)
(* many imports ran; and unless another import of the spec overlapped, the   *)
(* spec uses its own template, which has every rule derived from this file,  *)
(* although an earlier import had made it from another one.                  *)
CompletedOnboardingIsWhole ==
    \A j \in Jobs :
        /\ At(j, "done") /\ worker[j].error = None /\ worker[j].upload.onboard
        /\ current[SpecOf(j)] = j
        => LET s == SpecOf(j) IN
           /\ classified[s] # None
           /\ j \notin overlapped /\ Derived(j) # <<>> =>
                 /\ template[s] # None /\ styleOf[s] = template[s].id
                 /\ \A type \in DOMAIN Derived(j) : template[s].rules[type] = Derived(j)[type]

(* A convention that a user has set is replaced by users only: a finalize    *)
(* that read the rules before it was set does not put them back.             *)
UserConventionKept ==
    [][profile # None /\ profile.setBy = "user" => profile'.setBy = "user"]_profile

(* A poll is not answered with a running stage for ever: every job ends      *)
(* complete or failed, unless it expires or the process ends first.          *)
JobsEnd == \A j \in Jobs : job[j] # "unused" ~> job[j] \in {"complete", "failed", "gone"}
=============================================================================
