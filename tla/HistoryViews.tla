---------------------------- MODULE HistoryViews ----------------------------
(***************************************************************************)
(* What the history endpoints make of the tables (ADR-052 D3, D9): the     *)
(* sessions of a paragraph, the changes pending since the last checkpoint, *)
(* and the diff of two generations of a spec.  None of them runs in a      *)
(* transaction: each is a handful of SELECTs on the pool, so a writer of   *)
(* SpecStore may commit between two of them.  A call keeps what its        *)
(* statements have returned; the last statement's answer is computed from  *)
(* the tables as they are when it is due.  Calls write nothing, so one     *)
(* call at a time shows all that any of them can see.                      *)
(*                                                                         *)
(* Abstractions: time is a counter; a row of history has its actor, time   *)
(* and op in a function beside it; merges, the anchors of derived specs    *)
(* (origin) and those of issued revisions, which are stored whole, are     *)
(* left out.                                                               *)
(***************************************************************************)
EXTENDS SpecStore, SequencesExt

CONSTANTS
    Users,          \* actors
    Nobody,         \* a row without an actor
    SessionWindow,  \* the longest pause within a session
    NewTexts,       \* bound: the texts that insertions bring
    MaxTime         \* bound: how far the clock runs

ASSUME TimesAssumption == SessionWindow \in Nat /\ MaxTime \in Nat
ASSUME NewTextsAssumption == NewTexts \subseteq Texts
ASSUME NobodyAssumption == Nobody \notin Users

VARIABLES
    clock,        \* now(), when history was last written
    log,          \* the other columns of paragraph_versions: row -> [user, at, op]
    past,         \* history variable: what each generation of a spec showed
    importedAt,   \* history variable: the generation of a spec's last import
    call          \* the request under way: its next statement and what it has read

historyVars == <<clock, log, past, importedAt>>

NoCall == [due |-> "none"]

(* Nothing has been written to the spec since the call's first statement.    *)
Undisturbed == spec[call.spec].contentVersion = call.contentVersion

-----------------------------------------------------------------------------
(* paragraph_versions rows. *)

RowsOf(p) == {e \in hist : e.para = p}
RowsUpTo(p, v) == {e \in RowsOf(p) : e.contentVersion <= v}

(* Of a set of rows of one paragraph, the last in the order of generations.  *)
Latest(rows) ==
    CHOOSE e \in rows : \A f \in rows :
        \/ f.contentVersion < e.contentVersion
        \/ f.contentVersion = e.contentVersion /\ f.version <= e.version

(* getCheckpointBoundariesForSpec and getLatestCheckpointBoundary.           *)
Boundaries(s) == {r.contentVersion : r \in {x \in sealed : x.spec = s}}
LatestBoundary(s) == Max(Boundaries(s))

-----------------------------------------------------------------------------
(* The iterations of a paragraph: its row and the version of its spec, then *)
(* its history, then (to fold them into sessions) the boundaries.           *)

Entry(e) ==
    [version |-> e.version, text |-> e.text, contentVersion |-> e.contentVersion,
     user |-> log[e].user, at |-> log[e].at, op |-> log[e].op]

ParagraphContext(s, p) ==
    /\ call = NoCall /\ InSpec(p, s)
    /\ call' = [due |-> "history", spec |-> s, para |-> p,
                contentVersion |-> spec[s].contentVersion,
                version |-> para[p].baseVersion, text |-> para[p].text, rows |-> {}]

HistoryRows ==
    /\ call.due = "history"
    /\ call' = [call EXCEPT !.due = "boundaries",
                            !.rows = {Entry(e) : e \in RowsOf(call.para)}]

(* ORDER BY version *)
Ordered(rows) ==
    [i \in 1..Cardinality(rows) |->
        CHOOSE e \in rows : Cardinality({f \in rows : f.version < e.version}) = i - 1]

(* ensureCurrentTip: when the last iteration is not what the row said, one   *)
(* is made up from the columns of the row.                                   *)
Tip ==
    LET recorded == call.rows # {}
    IN [version |-> call.version, text |-> call.text, user |-> Nobody, at |-> 0,
        op |-> IF recorded THEN "edit" ELSE "insert",
        contentVersion |-> IF recorded THEN call.contentVersion ELSE 1]

Entries ==
    LET rows == Ordered(call.rows)
        current == /\ rows # <<>>
                   /\ Last(rows).version = call.version /\ Last(rows).text = call.text
    IN IF current THEN rows ELSE Append(rows, Tip)

-----------------------------------------------------------------------------
(* coalesceParagraphSessions. *)

CrossesCheckpointBoundary_After(s, prev, next) ==    \* mutant: prev < N <= next
    \E n \in Boundaries(s) : prev.contentVersion < n /\ n <= next.contentVersion
CrossesCheckpointBoundary(s, prev, next) ==
    \E n \in Boundaries(s) : prev.contentVersion <= n /\ n < next.contentVersion

ShouldStartNewSession(s, prev, next) ==
    \/ prev.user # next.user
    \/ next.at - prev.at > SessionWindow
    \/ CrossesCheckpointBoundary(s, prev, next)

(* A span is the interval of entries it takes; `open' is the first entry of  *)
(* the span in progress, 0 between spans.                                    *)
CloseSpan(state, i) ==
    IF state.open = 0 THEN state
    ELSE [spans |-> Append(state.spans, [first |-> state.open, last |-> i - 1]), open |-> 0]

AdvancePartition(s, entries, state, i) ==
    LET closed == CloseSpan(state, i)
    IN IF entries[i].user = Nobody
       THEN [closed EXCEPT !.spans = Append(@, [first |-> i, last |-> i])]
       ELSE IF \/ state.open = 0
               \/ ShouldStartNewSession(s, entries[i - 1], entries[i])
            THEN [closed EXCEPT !.open = i]
            ELSE state

PartitionIntoSpans(s, entries) ==
    LET after[i \in 0..Len(entries)] ==
            IF i = 0 THEN [spans |-> <<>>, open |-> 0]
            ELSE AdvancePartition(s, entries, after[i - 1], i)
    IN CloseSpan(after[Len(entries)], Len(entries) + 1).spans

(* findSealingCheckpointId: the first boundary at or past the last entry, 0  *)
(* while the session is pending.                                             *)
SealedBy(s, contentVersion) ==
    LET reached == {n \in Boundaries(s) : n >= contentVersion}
    IN IF reached = {} THEN 0 ELSE Min(reached)

ToSession(s, entries, span) ==
    LET first == entries[span.first]
        last == entries[span.last]
    IN [user |-> first.user, first |-> first, last |-> last,
        beforeText |-> IF first.op = "insert" \/ span.first = 1 THEN NoText
                       ELSE entries[span.first - 1].text,
        afterText |-> last.text,
        sealedBy |-> SealedBy(s, last.contentVersion)]

Sessions ==
    LET entries == Entries
        spans == PartitionIntoSpans(call.spec, entries)
    IN [k \in 1..Len(spans) |-> ToSession(call.spec, entries, spans[k])]

CheckpointBoundaries == call.due = "boundaries" /\ call' = NoCall

-----------------------------------------------------------------------------
(* getSpecPendingSummary: the version of the spec, then its last boundary    *)
(* (0 when it was never sealed), then the paragraphs written past it, each   *)
(* with the actor of its latest such row.                                    *)

SpecVersion(s) ==
    /\ call = NoCall /\ Exists(s)
    /\ call' = [due |-> "boundary", spec |-> s, contentVersion |-> spec[s].contentVersion,
                sealedVersion |-> 0]

LatestCheckpointBoundary ==
    /\ call.due = "boundary"
    /\ call' = [call EXCEPT !.due = "rollup",
                            !.sealedVersion = IF Boundaries(call.spec) = {} THEN 0
                                              ELSE LatestBoundary(call.spec)]

PendingRows_FromSeal ==    \* mutant: the sealed generation counts as pending
    {e \in hist : e.spec = call.spec /\ e.contentVersion >= call.sealedVersion}
PendingRows == {e \in hist : e.spec = call.spec /\ e.contentVersion > call.sealedVersion}

Pending == {e.para : e \in PendingRows}
PendingActor(p) == log[Latest(PendingRows \cap RowsOf(p))].user

ActorRollup == call.due = "rollup" /\ call' = NoCall

-----------------------------------------------------------------------------
(* getSpecHistoryDiff: the version of the spec, then for either side the     *)
(* rows that live and, in a statement of its own, the history they are read  *)
(* with.                                                                     *)

Current == 0    \* the anchor that is no generation

(* A number within the version read, or one that a checkpoint sealed.        *)
Anchors == {Current} \cup 1..call.contentVersion \cup Boundaries(call.spec)

DiffContext(s) ==
    /\ call = NoCall /\ Exists(s)
    /\ call' = [due |-> "live", spec |-> s, contentVersion |-> spec[s].contentVersion,
                anchor |-> Current, rows |-> <<>>, taken |-> <<>>]

RowsRead(s) ==
    [p \in Rows(s) |-> [text |-> para[p].text, hidden |-> RemovedRoot(p), above |-> Lineage[p]]]

LiveRows ==
    /\ call.due = "live"
    /\ \E v \in Anchors : call' = [call EXCEPT !.due = "versions", !.anchor = v,
                                               !.rows = RowsRead(call.spec)]

CreatesParagraph(e) == log[e].op \in {"insert", "accept-note"}
Switches(rows) == {e \in rows : log[e].op \in {"remove", "restore", "insert"}}

(* historicalNodeState: an imported row has no creation in its history.      *)
OwnVisible_Always(p, v) == TRUE    \* mutant: removals are not replayed
OwnVisible(p, v) ==
    LET switches == Switches(RowsUpTo(p, v))
        creations == {e \in RowsOf(p) : CreatesParagraph(e)}
    IN IF switches # {} THEN log[Latest(switches)].op # "remove"
       ELSE \A e \in creations : e.contentVersion <= v

(* The removals and restores of all its history.                             *)
Remains(p) ==
    LET switches == Switches(RowsOf(p)) IN switches = {} \/ log[Latest(switches)].op # "remove"

(* contentSnapshot: a row shows if it and all it hangs below do. *)
Visible(a) ==
    IF call.anchor = Current THEN ~call.rows[a].hidden /\ Remains(a) ELSE OwnVisible(a, call.anchor)

SnapshotText(p) ==
    LET rows == RowsUpTo(p, call.anchor)
    IN IF call.anchor = Current \/ rows = {} THEN call.rows[p].text ELSE Latest(rows).text

ContentSnapshot ==
    [p \in Paras |-> IF p \in DOMAIN call.rows /\ \A a \in call.rows[p].above : Visible(a)
                     THEN SnapshotText(p) ELSE NoText]

VersionRows ==
    /\ call.due = "versions"
    /\ call' = IF call.taken # <<>> THEN NoCall
               ELSE [call EXCEPT !.due = "live", !.anchor = Current, !.rows = <<>>,
                        !.taken = <<[anchor |-> call.anchor, shown |-> ContentSnapshot]>>]

CompareSnapshots(before, after) ==
    [added    |-> {p \in Paras : before[p] = NoText /\ after[p] # NoText},
     removed  |-> {p \in Paras : before[p] # NoText /\ after[p] = NoText},
     modified |-> {p \in Paras : NoText \notin {before[p], after[p]} /\ before[p] # after[p]}]

-----------------------------------------------------------------------------
(* The writers.  A row that opens a paragraph's life says so; any other row  *)
(* carries the op of the request.                                            *)

OpOf(e, op) ==
    IF e.version > 1 THEN op
    ELSE IF para'[e.para].type = "note" THEN "accept-note" ELSE "insert"

Stamped(user, op) ==    \* at any time since
    /\ clock' \in clock..MaxTime
    /\ log' = [e \in hist' |-> IF e \in hist THEN log[e]
                            ELSE [user |-> user, at |-> clock', op |-> OpOf(e, op)]]

(* What a generation shows once it is opened. *)
Shown(s) ==
    [p \in Paras |-> IF InSpec(p, s) /\ \A a \in Lineage[p] : ~RemovedRoot(a)
                     THEN para[p].text ELSE NoText]

Remembered ==
    past' = [s \in Specs |-> IF spec'[s].contentVersion > spec[s].contentVersion
                             THEN Append(past[s], Shown(s)') ELSE past[s]]

ByUser(user, s) ==
    \/ \E p \in Paras, t \in Texts :
          UpdateParagraphText(s, p, t, Unconditional) /\ Stamped(user, "edit")
    \/ \E a \in Paras, t \in NewTexts :
          InsertParagraphAfter(s, a, "pr", t, Unconditional) /\ Stamped(user, "insert")
    \/ \E p \in Paras, b \in Flag :
          SetParagraphVanish(s, p, b) /\ Stamped(user, IF b THEN "remove" ELSE "restore")
    \/ \E p \in Paras : AcceptCommentAsNote(s, p) /\ Stamped(user, "close-comment")

Import(s) ==
    /\ \E doc \in Documents : PersistParsedSpec(s, doc)
    /\ importedAt' = [importedAt EXCEPT ![s] = spec'[s].contentVersion]
    /\ log' = [e \in hist' |-> log[e]]
    /\ UNCHANGED clock

HistoryInit ==
    /\ Init
    /\ clock = 0
    /\ log = <<>>
    /\ past = [s \in Specs |-> <<>>]
    /\ importedAt = [s \in Specs |-> 0]
    /\ call = NoCall

Work ==
    \/ \E s \in Specs :
          /\ \/ Import(s)
             \/ \E user \in Users : ByUser(user, s) /\ UNCHANGED importedAt
          /\ Remembered
    \/ /\ \E c \in Checkpoints, scope \in Scopes : CreateCheckpoint(c, scope)
       /\ UNCHANGED historyVars

Read ==
    \/ \E s \in Specs :
          \/ \E p \in Paras : ParagraphContext(s, p)
          \/ SpecVersion(s)
          \/ DiffContext(s)
    \/ HistoryRows \/ CheckpointBoundaries
    \/ LatestCheckpointBoundary \/ ActorRollup
    \/ LiveRows \/ VersionRows

HistoryNext ==
    \/ Work /\ UNCHANGED call
    \/ Read /\ UNCHANGED <<vars, historyVars>>

HistorySpec == HistoryInit /\ [][HistoryNext]_<<vars, historyVars, call>>

-----------------------------------------------------------------------------
(* Properties: what the last statement of a call returns whenever it runs,   *)
(* whatever was committed since the first.                                   *)

(* ADR-052 D3: a session is the uninterrupted work of one actor, and no      *)
(* checkpoint falls inside it: every edit it folds is on the same side of    *)
(* every seal, so accepting at a checkpoint never accepts half a session.    *)
SessionsNeverStraddleASeal ==
    LET sessions == Sessions IN
    \A k \in 1..Len(sessions) : LET x == sessions[k] IN
        x.user # Nobody =>
            /\ \A e \in call.rows : e.version \in x.first.version..x.last.version
                                       => e.user = x.user
            /\ \A n \in Boundaries(call.spec) :
                  ~(x.first.contentVersion <= n /\ n < x.last.contentVersion)

(* Of a checkpoint up to the version the call began with, the last session   *)
(* it sealed ends with the very text it sealed, and the next one begins with *)
(* it.  (A checkpoint taken while the call runs may be shown to seal a       *)
(* session whose last edits the call came too early to read.)                *)
SealedSessionEndsAtSealedText ==
    \A r \in sealed : r.spec = call.spec /\ r.contentVersion <= call.contentVersion =>
        LET sessions == Sessions
            mine == {k \in 1..Len(sessions) : /\ sessions[k].user # Nobody
                                              /\ sessions[k].sealedBy = r.contentVersion}
        IN mine # {} =>
              /\ sessions[Max(mine)].afterText = r.texts[call.para]
              /\ \A k \in {Max(mine) + 1} \cap 1..Len(sessions) :
                    sessions[k].beforeText = r.texts[call.para]

(* A call no write fell into ends with what the row says, and makes up an    *)
(* iteration only for a paragraph without history.  (When a write does fall  *)
(* in, the row read first may be appended, as the latest iteration, after a  *)
(* newer one.)                                                               *)
IterationsEndAtTheRow ==
    Undisturbed =>
        /\ Last(Entries).text = para[call.para].text
        /\ Last(Entries).version = para[call.para].baseVersion
        /\ call.rows # {} => Entries = Ordered(call.rows)

(* The sessions of a paragraph and the checkpoints of its spec agree: no      *)
(* session straddles a seal, and what a seal covers ends at its text.        *)
SessionsFollowSeals ==
    call.due = "boundaries" =>
        SessionsNeverStraddleASeal /\ SealedSessionEndsAtSealedText /\ IterationsEndAtTheRow

(* ADR-052 D9: nothing that was written since the boundary the summary names *)
(* is left out of it, nothing older is in it, and each change is charged to  *)
(* whoever left the paragraph as it is.  The version it shows was read       *)
(* first: it is past the boundary only if nothing was written meanwhile.     *)
(* (A re-import since the boundary writes no history, so its rows are left   *)
(* out.)                                                                     *)
PendingIsWhatChanged ==
    call.due = "rollup" =>
        /\ Undisturbed /\ Pending # {} => call.contentVersion > call.sealedVersion
        /\ \A r \in sealed : r.spec = call.spec /\ r.contentVersion = call.sealedVersion =>
              \A p \in Rows(call.spec) :
                /\ r.texts[p] # NoText /\ r.texts[p] # para[p].text => p \in Pending
                /\ r.texts[p] = NoText /\ RowsOf(p) # {} => p \in Pending
                /\ p \in Pending =>
                      /\ r.texts[p] = NoText \/ para[p].baseVersion > 1
                      /\ \A e \in RowsOf(p) : e.version = para[p].baseVersion
                                                => PendingActor(p) = log[e].user

(* A generation put together from rows read first and history read later is  *)
(* the one that was, for every paragraph whose history reaches back to it:   *)
(* it has a row at or before that generation, or was never written, or was   *)
(* created later, and neither it nor what it hangs below was hidden when it  *)
(* was imported.  Edits that fall between the statements do not disturb it;  *)
(* only a re-import after that generation does.  The current state is what   *)
(* it was if nothing was written since the call began.                       *)
OnRecord(p, v) ==
    \/ RowsOf(p) = {}
    \/ RowsUpTo(p, v) # {}
    \/ \E e \in RowsOf(p) : CreatesParagraph(e)
ImportedVisible(s, p) ==
    \/ past[s][importedAt[s]][p] # NoText
    \/ \E e \in RowsOf(p) : CreatesParagraph(e)
SnapshotIsThatGeneration ==
    call.due = "versions" =>
        LET s == call.spec
            v == call.anchor
        IN IF v = Current THEN Undisturbed => ContentSnapshot = Shown(s)
           ELSE importedAt[s] <= v => \A p \in Rows(s) :
                   (\A a \in Lineage[p] : OnRecord(a, v) /\ ImportedVisible(s, a))
                       => ContentSnapshot[p] = past[s][v][p]

-----------------------------------------------------------------------------
(* openapi.yaml: "Compare two stored states of one spec": the diff from a    *)
(* generation since the last import to the current one, with no write        *)
(* between its statements, names the paragraphs that differ between the two. *)
(* (A spec with rows that Word had hidden is left out: an import records no  *)
(* removal of them either.)                                                  *)
DiffComparesStoredStates ==
    call.due = "versions" /\ Undisturbed =>
        LET s == call.spec IN
        \A k \in 1..Len(call.taken) :
            LET from == call.taken[k] IN
            importedAt[s] <= from.anchor /\ call.anchor = Current
              /\ (\A p \in Rows(s) : ImportedVisible(s, p)) =>
                CompareSnapshots(from.shown, ContentSnapshot)
                    = CompareSnapshots(past[s][from.anchor], Shown(s))
=============================================================================
