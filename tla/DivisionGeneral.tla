-------------------------- MODULE DivisionGeneral --------------------------
(***************************************************************************)
(* The general spec of a division (ADR-023): the section that the others    *)
(* of its division fall back on, one row of division_general_specs for a    *)
(* library or a project.  It is found by its number (NN 00 00) when a spec  *)
(* is imported or added and when somebody asks, unless somebody has chosen. *)
(*                                                                         *)
(* A GET is three statements that commit one by one, a PUT checks, writes   *)
(* and then answers as a GET does; import and addSectionToProject reconcile *)
(* within their transactions, and hold the row until they commit.           *)
(*                                                                         *)
(* Abstractions: one owner and one division; notes and the advisory         *)
(* candidates are left out; what else import, adding and removing a section *)
(* do is in SpecStore and ProjectCopy.                                      *)
(***************************************************************************)
EXTENDS Integers, Sequences

CONSTANTS
    Sections,      \* the specs the division may get, each brought by one call
    Exact,         \* those with the number NN 00 00
    Gets,          \* the GETs that may come
    Puts,          \* and the PUTs
    Unset          \* no row, no spec

ASSUME ExactAssumption == Exact \subseteq Sections
ASSUME UnsetAssumption == Unset \notin Sections
ASSUME CallsAssumption == Gets \cap Puts = {}

Askers == Gets \cup Puts
Configs == [general : Sections \cup {Unset}, method : {"manual", "exact_section"}]

NoWriter == "no writer"

ASSUME ConfigAssumption == Unset \notin Configs
ASSUME NoWriterAssumption == NoWriter \notin Sections

VARIABLES
    scope,         \* whose row it is: a library's or a project's
    present,       \* the specs that are committed
    created,       \* those with the number in the order of created_at, the begin
                   \* of their transaction
    config,        \* the row: [general, method], or Unset
    writer,        \* the spec whose transaction has written the row, or locked it
    bringing,      \* spec -> where its transaction is, and what it has found
    asking         \* asker -> where its call is, what it has found, its answer

generalVars == <<scope, present, created, config, writer, bringing, asking>>

Manual(choice) == [general |-> choice, method |-> "manual"]    \* Unset: not applicable
Automatic(s) == [general |-> s, method |-> "exact_section"]
IsManual == config # Unset /\ config.method = "manual"

(* findExactSpec: the oldest one that is visible. *)
FindExact(visible) ==
    LET found == {i \in DOMAIN created : created[i] \in visible}
    IN IF found = {} THEN Unset ELSE created[CHOOSE i \in found : \A j \in found : i <= j]

(* upsertExactConfig, on the row as it is when its lock is given: DO UPDATE  *)
(* ... WHERE detection_method = 'exact_section'.                             *)
Upserted_Always(s) == Automatic(s)    \* mutant: without the WHERE
Upserted(s) == IF IsManual THEN config ELSE Automatic(s)

(* History: a choice or a removal disturbs the calls that are being answered. *)
Disturbed(but) ==
    [a \in Askers |-> IF a = but \/ asking[a].at \in {"new", "answered", "failed"}
                      THEN asking[a] ELSE [asking[a] EXCEPT !.quiet = FALSE]]

-----------------------------------------------------------------------------
(* persistParsedSpec and addSectionToProject.  A project has one spec of a   *)
(* number, a library one of each source, which may be imported again.        *)
Bring(s) ==
    /\ bringing[s].at = "idle"
    /\ IF scope = "library" THEN TRUE
       ELSE /\ s \notin present
            /\ s \in Exact => \A o \in Exact : o \notin present /\ bringing[o].at = "idle"
    /\ created' = IF s \in Exact \ present THEN Append(created, s) ELSE created
    /\ bringing' = [bringing EXCEPT ![s] = [at |-> "reconciling", found |-> Unset]]
    /\ UNCHANGED <<scope, present, config, writer, asking>>

ReconcileReads(s) == FindExact(present \cup {s})
Reconcile(s) ==
    /\ bringing[s].at = "reconciling"
    /\ LET found == ReconcileReads(s)
       IN bringing' = [bringing EXCEPT ![s] =
                         [at |-> IF found = Unset THEN "reconciled" ELSE "upserting", found |-> found]]
    /\ UNCHANGED <<scope, present, created, config, writer, asking>>

Without(s) ==
    LET i == CHOOSE j \in DOMAIN created : created[j] = s
    IN IF \A j \in DOMAIN created : created[j] # s THEN created
       ELSE [j \in 1..Len(created) - 1 |-> created[IF j < i THEN j ELSE j + 1]]
BringFails(s) ==
    /\ bringing' = [bringing EXCEPT ![s] = [at |-> "idle", found |-> Unset]]
    /\ writer' = IF writer = s THEN NoWriter ELSE writer
    /\ created' = IF s \in present THEN created ELSE Without(s)
    /\ UNCHANGED <<scope, present, config, asking>>

(* A spec that was found and removed since fails the foreign key. *)
ReconcileWrites(s) ==
    /\ bringing[s].at = "upserting"
    /\ writer = NoWriter
    /\ IF ~IsManual /\ bringing[s].found \notin present \cup {s}
       THEN BringFails(s)
       ELSE /\ writer' = s
            /\ bringing' = [bringing EXCEPT ![s].at = "reconciled"]
            /\ UNCHANGED <<scope, present, created, config, asking>>

BringCommits(s) ==
    /\ bringing[s].at = "reconciled"
    /\ present' = present \cup {s}
    /\ config' = IF writer = s THEN Upserted(bringing[s].found) ELSE config
    /\ writer' = IF writer = s THEN NoWriter ELSE writer
    /\ bringing' = [bringing EXCEPT ![s] = [at |-> "idle", found |-> Unset]]
    /\ UNCHANGED <<scope, created, asking>>

(* removeSectionFromProject: the row goes with the spec (ON DELETE CASCADE). *)
(* It waits for whoever has the row or has referred to the spec.             *)
Names(s) == config # Unset /\ config.general = s
RemoveSpec(s) ==
    /\ scope = "project" /\ s \in present
    /\ writer # NoWriter => ~Names(s) /\ bringing[writer].found # s
    /\ present' = present \ {s}
    /\ created' = Without(s)
    /\ config' = IF Names(s) THEN Unset ELSE config
    /\ asking' = Disturbed(NoWriter)
    /\ UNCHANGED <<scope, writer, bringing>>

-----------------------------------------------------------------------------
(* getDivisionGeneralSpec: the row if there is one, *)
Ask(a) ==
    /\ asking[a].at = "new"
    /\ asking' = [asking EXCEPT ![a].at = "reading"]
    /\ UNCHANGED <<scope, present, created, config, writer, bringing>>

Answers(a, answer) == asking' = [asking EXCEPT ![a].at = "answered", ![a].answer = answer]
ReadConfig(a) ==
    /\ asking[a].at = "reading"
    /\ IF config # Unset THEN Answers(a, config)
       ELSE asking' = [asking EXCEPT ![a].at = "finding"]
    /\ UNCHANGED <<scope, present, created, config, writer, bringing>>

(* else the section with the number, *)
ReadExact(a) ==
    /\ asking[a].at = "finding"
    /\ LET found == FindExact(present)
       IN IF found = Unset THEN Answers(a, Unset)
          ELSE asking' = [asking EXCEPT ![a].at = "upserting", ![a].found = found]
    /\ UNCHANGED <<scope, present, created, config, writer, bringing>>

(* which becomes the row, and the answer whether or not it does.             *)
UpsertExact(a) ==
    /\ asking[a].at = "upserting"
    /\ writer = NoWriter
    /\ IF ~IsManual /\ asking[a].found \notin present
       THEN asking' = [asking EXCEPT ![a].at = "failed"] /\ UNCHANGED config
       ELSE /\ config' = Upserted(asking[a].found)
            /\ Answers(a, Automatic(asking[a].found))
    /\ UNCHANGED <<scope, present, created, writer, bringing>>

(* setDivisionGeneralSpec: findSpecInScope, *)
Choose(a) ==
    /\ asking[a].at = "new"
    /\ \E choice \in present \cup {Unset} :
          asking' = [asking EXCEPT ![a].at = "choosing", ![a].found = choice]
    /\ UNCHANGED <<scope, present, created, config, writer, bringing>>

(* and upsertManual, whose answer is then read like anybody's.               *)
UpsertManual(a) ==
    /\ asking[a].at = "choosing"
    /\ writer = NoWriter
    /\ IF asking[a].found \in present \cup {Unset}
       THEN /\ config' = Manual(asking[a].found)
            /\ asking' = [Disturbed(a) EXCEPT ![a].at = "reading", ![a].quiet = TRUE]
       ELSE asking' = [asking EXCEPT ![a].at = "failed"] /\ UNCHANGED config
    /\ UNCHANGED <<scope, present, created, writer, bringing>>

GeneralInit ==
    /\ scope \in {"library", "project"}
    /\ present = {} /\ created = <<>> /\ config = Unset /\ writer = NoWriter
    /\ bringing = [s \in Sections |-> [at |-> "idle", found |-> Unset]]
    /\ asking = [a \in Askers |-> [at |-> "new", found |-> Unset, quiet |-> TRUE, answer |-> Unset]]

GeneralNext ==
    \/ \E s \in Sections :
          \/ Bring(s) \/ Reconcile(s) \/ ReconcileWrites(s) \/ BringCommits(s) \/ RemoveSpec(s)
          \/ bringing[s].at # "idle" /\ BringFails(s)
    \/ \E a \in Gets : Ask(a)
    \/ \E a \in Puts : Choose(a) \/ UpsertManual(a)
    \/ \E a \in Askers : ReadConfig(a) \/ ReadExact(a) \/ UpsertExact(a)

GeneralSpec == GeneralInit /\ [][GeneralNext]_generalVars

-----------------------------------------------------------------------------
Chosen(a) == asking[a].at = "choosing" /\ asking'[a].at = "reading"
Answered(a) == asking[a].at # "answered" /\ asking'[a].at = "answered"

(* ADR-023: "automatic reconciliation does not overwrite manual decisions":  *)
(* a choice ends with another choice or with the spec that was chosen, and   *)
(* no import, added section or GET replaces it, whatever it had read before. *)
(* And where no choice or removal came between, what a call answers is what  *)
(* is stored when it answers.                                                *)
ManualChoiceStands ==
    [][/\ IsManual /\ config' # config =>
             (\E a \in Askers : Chosen(a)) \/ config.general \in present \ present'
       /\ \A a \in Askers : Answered(a) /\ asking[a].quiet =>
             asking'[a].answer = config']_generalVars
=============================================================================
