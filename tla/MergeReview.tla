----------------------------- MODULE MergeReview -----------------------------
(***************************************************************************)
(* The redline round trip (ADR-005): a DOCX is generated from a spec, goes *)
(* to a reviewer, comes back, is diffed against the database and accepted  *)
(* entry by entry, while writers keep editing the spec.                    *)
(*                                                                         *)
(* generateDocx and each of the reads of computeSpecDiff see one committed *)
(* state; the two snapshot reads of a diff run on separate connections,    *)
(* with no transaction around them, so writers may come between them.      *)
(* applyMerge is one transaction that holds the spec row, hence one action *)
(* here.  What the reviewer does offline shows only when computeDiff takes *)
(* the document he returned, so ComputeDiff draws it.                      *)
(*                                                                         *)
(* Abstractions: captured objects travel as blobs and are left out (their  *)
(* structural conflicts are not modelled); one document is out, and one    *)
(* diff is computed from it.                                               *)
(***************************************************************************)
EXTENDS SpecStore, SequencesExt

CONSTANTS
    Shown,        \* the text a returned document yields for a stored text
    AddedText,    \* what a reviewer writes in a paragraph of his own
    MaxRedlines,  \* bound: how many edits a reviewer makes
    None          \* nothing issued, computed or merged yet

(* Rendering rewrites section citations, and a blank paragraph is skipped   *)
(* by extraction: it comes back as no text at all.                          *)
ASSUME ShownAssumption ==
    /\ Shown \in [Texts -> Texts \cup {NoText}]
    /\ AddedText \in Texts
ASSUME MaxRedlinesAssumption == MaxRedlines \in Nat
ASSUME NoObjectsAssumption ==
    \A doc \in Documents : \A i \in 1..Len(doc.nodes) :
        doc.nodes[i].type \notin ObjectTypes \cup {"objectText"}

VARIABLES
    issued,       \* the generated document, and the spec's version it shows
    reading,      \* a diff request between its reads
    diff,         \* the DiffResult the client carries
    merged        \* what the last successful merge call was (history variable)

reviewVars == <<issued, reading, diff, merged>>

-----------------------------------------------------------------------------
(* Rows that are in the document, and in which order. *)

Removed_RootOnly(p) == RemovedRoot(p)    \* mutant: children of a removed row stay
(* REMOVED_SUBTREE_CTE, and the renderer's skip: a removed row hides all    *)
(* that hangs below it.                                                     *)
Removed(p) == \E a \in Lineage[p] : RemovedRoot(a)

(* Preorder of the tree by position. *)
Before(p, q) ==
    \/ p # q /\ p \in Lineage[q]
    \/ \E a \in Lineage[p], b \in Lineage[q] :
          /\ para[a].parent = para[b].parent
          /\ para[a].position < para[b].position

Rendered(s) == {p \in Rows(s) : \A a \in Lineage[p] : ~RemovedRoot(a)}

(* A document is a sequence of paragraphs, each in the content control of   *)
(* its uuid or, when the reviewer wrote it, in none.                        *)
Nth(s, i) == CHOOSE p \in Rendered(s) : Cardinality({q \in Rendered(s) : Before(q, p)}) = i - 1
Document(s) ==
    [i \in 1..Cardinality(Rendered(s)) |->
        [uuid |-> Nth(s, i), text |-> Shown[para[Nth(s, i)].text]]]

-----------------------------------------------------------------------------
(* What may come back. *)

Retyped(doc) ==
    {[doc EXCEPT ![i].text = t] : i \in 1..Len(doc), t \in Texts}
Struck(doc) == {RemoveAt(doc, i) : i \in 1..Len(doc)}
Extended(doc) ==
    {InsertAt(doc, i, [uuid |-> NoPara, text |-> AddedText]) : i \in 1..(Len(doc) + 1)}

Redlined[n \in Nat] ==
    IF n = 0 THEN {issued.doc}
    ELSE LET fewer == Redlined[n - 1]
         IN fewer \cup UNION {Retyped(d) \cup Struck(d) \cup Extended(d) : d \in fewer}

(* extractContentControls: the text of every anchored paragraph, and the    *)
(* unanchored ones in document order, each with the anchor it follows.      *)
Controlled(doc) ==
    [p \in Paras |-> IF \E i \in 1..Len(doc) : doc[i].uuid = p
                     THEN doc[CHOOSE i \in 1..Len(doc) : doc[i].uuid = p].text
                     ELSE NoText]

FollowedBy(doc, i) ==
    LET anchors == {j \in 1..(i - 1) : doc[j].uuid # NoPara /\ doc[j].text # NoText}
    IN IF anchors = {} THEN NoPara
       ELSE doc[CHOOSE j \in anchors : \A k \in anchors : k <= j].uuid

Orphans(doc) ==
    LET upTo[i \in 0..Len(doc)] ==
            IF i = 0 THEN <<>>
            ELSE IF doc[i].uuid # NoPara THEN upTo[i - 1]
            ELSE Append(upTo[i - 1], [text |-> doc[i].text, after |-> FollowedBy(doc, i)])
    IN upTo[Len(doc)]

-----------------------------------------------------------------------------
(* The diff. *)

(* getParagraphSnapshots: the recorded text of the row's base_version, or   *)
(* the row's own text when that version has no snapshot (COALESCE).         *)
BaseText(p) ==
    LET recorded == {e \in hist : e.para = p /\ e.version = para[p].baseVersion}
    IN IF recorded = {} THEN para[p].text ELSE (CHOOSE e \in recorded : TRUE).text

Visible(s) == {p \in Rows(s) : ~Removed(p)}
BaseSnapshots(s) == [p \in Paras |-> IF p \in Visible(s) THEN BaseText(p) ELSE NoText]
(* getCurrentParagraphSnapshots *)
OursSnapshots(s) == [p \in Paras |-> IF p \in Visible(s) THEN para[p].text ELSE NoText]

TextKinds == {"modified", "conflict"}
DeleteKinds == {"deleted", "deleteConflict"}

(* classifyRow; a row that the ours snapshot lacks counts as unchanged.     *)
Classify(base, ours, theirs) ==
    LET mine == IF ours = NoText THEN base ELSE ours
        kind == IF base = NoText \/ theirs = base THEN "unchanged"
                ELSE IF theirs = NoText
                     THEN IF mine = base THEN "deleted" ELSE "deleteConflict"
                     ELSE IF mine = base THEN "modified" ELSE "conflict"
    IN [kind |-> kind, theirs |-> theirs, ours |-> mine]

Entries(d) == {p \in Paras : d.entry[p].kind # "unchanged"}
AddedIds(d) == {d.added[k].id : k \in 1..Len(d.added)}

-----------------------------------------------------------------------------
(* The merge: what accepting the entries and additions in `accept' makes of *)
(* the rows of d.spec.                                                      *)

TextApplies_Unguarded(d, p) == InSpec(p, d.spec)    \* mutant: no stale-diff check
TextApplies(d, p) ==
    /\ InSpec(p, d.spec)
    /\ para[p].text \in {d.entry[p].theirs, d.entry[p].ours}

(* A plain deletion is not checked against the text the diff was taken from. *)
DeleteApplies(d, p) ==
    /\ InSpec(p, d.spec)
    /\ para[p].type \in BodyTypes
    /\ d.entry[p].kind = "deleteConflict" => para[p].text = d.entry[p].ours

EntryApplies(d, p) ==
    \/ d.entry[p].kind \in TextKinds /\ TextApplies(d, p)
    \/ d.entry[p].kind \in DeleteKinds /\ DeleteApplies(d, p)

(* applyTextChange (the choice tokens are not re-derived) and               *)
(* applyDeletedChange; a row that is already as asked is left alone.        *)
MergedRow(d, p) ==
    IF d.entry[p].kind \in TextKinds
    THEN IF para[p].text = d.entry[p].theirs THEN para[p]
         ELSE Touched(Retexted(para[p], d.entry[p].theirs))
    ELSE IF para[p].vanish THEN para[p] ELSE Vanished(para[p], TRUE)

(* resolveEffectiveAnchor: the closest addition before this one that hangs  *)
(* on the same anchor and is a row by now, inserted by this call or by an   *)
(* earlier one; failing that the anchor itself.                             *)
EffectiveAnchor_Original(rows, d, k) == d.added[k].after    \* mutant: never chained
EffectiveAnchor(rows, d, k) ==
    LET prior == {j \in 1..(k - 1) : /\ d.added[j].after = d.added[k].after
                                     /\ rows[d.added[j].id] # NoRow}
    IN IF prior = {} THEN d.added[k].after ELSE d.added[Max(prior)].id

(* applyAddedChange over insertSiblingRow with the entry's uuid: an         *)
(* addition hangs on a body paragraph, and one that is a row already stays  *)
(* as it is, provided it still has the diff's text.                         *)
InsertAdded_ShiftFirst(state, d, k) ==    \* mutant: room is made before the retry is seen
    LET new == d.added[k]
        anchor == EffectiveAnchor(state.rows, d, k)
        row == state.rows[anchor]
        shifted == ShiftedAfter(state.rows, row)
    IN IF anchor = NoPara \/ row = NoRow THEN [state EXCEPT !.ok = FALSE]
       ELSE IF shifted[new.id] # NoRow THEN [state EXCEPT !.rows = shifted]
       ELSE [state EXCEPT !.rows = [shifted EXCEPT ![new.id] = SiblingOf(row, row.type, new.text)]]
InsertAdded(state, d, k) ==
    LET new == d.added[k]
        anchor == EffectiveAnchor(state.rows, d, k)
        anchored == /\ new.after # NoPara
                    /\ state.rows[anchor] # NoRow
                    /\ state.rows[anchor].spec = d.spec
                    /\ state.rows[anchor].type \in BodyTypes
        row == state.rows[anchor]
    IN IF ~(state.ok /\ anchored) THEN [state EXCEPT !.ok = FALSE]
       ELSE IF state.rows[new.id] # NoRow
            THEN [state EXCEPT !.ok = state.rows[new.id].text = new.text]
       ELSE [ok |-> TRUE,
             rows |-> [ShiftedAfter(state.rows, row) EXCEPT
                          ![new.id] = SiblingOf(row, row.type, new.text)]]

(* applyAccepted: entries first, then the additions in document order.      *)
MergeOutcome(d, accept) ==
    LET entered == [p \in Paras |->
                       IF p \in accept \cap Entries(d) THEN MergedRow(d, p) ELSE para[p]]
        after[k \in 0..Len(d.added)] ==
            IF k = 0 THEN [ok |-> TRUE, rows |-> entered]
            ELSE IF d.added[k].id \in accept THEN InsertAdded(after[k - 1], d, k)
            ELSE after[k - 1]
    IN after[Len(d.added)]

Applicable(d, accept) ==
    /\ \A p \in accept \cap Entries(d) : EntryApplies(d, p)
    /\ MergeOutcome(d, accept).ok

(* The rows a call writes in more than their position: result.applied.      *)
Applied_Accepted(rows, accept) == accept    \* mutant: what was asked, not what was done
Applied(rows, accept) ==
    {p \in accept : rows[p] # NoRow /\ (para[p] = NoRow \/ rows[p].baseVersion # para[p].baseVersion)}

(* ON CONFLICT (paragraph_id, version) DO NOTHING, a row at a time.         *)
RecordAll(h, rows) == h \cup {e \in rows : Record(h, e) # h}

-----------------------------------------------------------------------------
GenerateDocx(s) ==
    /\ issued = None
    /\ Exists(s)
    /\ issued' = [spec |-> s, doc |-> Document(s), contentVersion |-> spec[s].contentVersion]
    /\ UNCHANGED <<vars, reading, diff, merged>>

(* POST /specs/:id/diff.  The client may have noted the content_version     *)
(* first, to make its merge conditional.                                    *)
StartDiff ==
    /\ issued # None /\ reading = None /\ diff = None
    /\ reading' = [base |-> None, ours |-> None, noted |-> spec[issued.spec].contentVersion]
    /\ UNCHANGED <<vars, issued, diff, merged>>

ReadBase ==
    /\ reading # None /\ reading.base = None
    /\ reading' = [reading EXCEPT !.base = BaseSnapshots(issued.spec)]
    /\ UNCHANGED <<vars, issued, diff, merged>>

ReadOurs ==
    /\ reading # None /\ reading.ours = None
    /\ reading' = [reading EXCEPT !.ours = OursSnapshots(issued.spec)]
    /\ UNCHANGED <<vars, issued, diff, merged>>

(* computeDiff gives every addition a fresh uuid; `theirs' is a history     *)
(* field, what the returned document said.                                  *)
DiffAgainst(doc) ==
    LET theirs == Controlled(doc)
        orphans == Orphans(doc)
    IN [spec |-> issued.spec, noted |-> reading.noted, theirs |-> theirs,
        entry |-> [p \in Paras |-> Classify(reading.base[p], reading.ours[p], theirs[p])],
        added |-> [k \in 1..Len(orphans) |->
            [id |-> drawn + k, text |-> orphans[k].text, after |-> orphans[k].after]]]

ComputeDiff ==
    /\ reading # None /\ reading.base # None /\ reading.ours # None
    /\ \E doc \in Redlined[MaxRedlines] :
          /\ drawn + Len(Orphans(doc)) <= MaxParas
          /\ drawn' = drawn + Len(Orphans(doc))
          /\ diff' = DiffAgainst(doc)
    /\ reading' = None
    /\ UNCHANGED <<spec, para, hist, sealed, issued, merged>>

(* POST /specs/:id/merge.  A call that fails anywhere rolls back, and one   *)
(* that applies nothing leaves content_version alone: both stutter.         *)
ApplyMerge(accept, expectedVersion) ==
    /\ AssertSpecWritable(diff.spec, expectedVersion)
    /\ Applicable(diff, accept)
    /\ LET rows == MergeOutcome(diff, accept).rows
           applied == Applied(rows, accept)
       IN /\ applied # {}
          /\ para' = rows
          /\ hist' = RecordAll(hist, {Snapshot(p, rows[p], NextGeneration(diff.spec)) : p \in applied})
    /\ BumpSpecContentVersion(diff.spec)
    /\ merged' = [accept |-> accept, conditional |-> expectedVersion # Unconditional,
                  left |-> spec'[diff.spec].contentVersion]
    /\ UNCHANGED <<drawn, sealed, issued, reading, diff>>

(* The writers' requests that the round trip can tell apart: imports, texts, *)
(* removals, insertions.                                                     *)
Writer(s) ==
    /\ \/ \E doc \in Documents : PersistParsedSpec(s, doc)
       \/ \E p \in Paras, t \in Texts : UpdateParagraphText(s, p, t, Unconditional)
       \/ \E p \in Paras, b \in Flag : SetParagraphVanish(s, p, b)
       \/ \E a \in Paras, type \in BodyTypes :
             InsertParagraphAfter(s, a, type, AddedText, Unconditional)
    /\ UNCHANGED reviewVars

ReviewInit ==
    /\ Init
    /\ issued = None /\ reading = None /\ diff = None /\ merged = None

ReviewNext ==
    \/ \E s \in Specs : Writer(s) \/ GenerateDocx(s)
    \/ StartDiff \/ ReadBase \/ ReadOurs \/ ComputeDiff
    \/ /\ diff # None
       /\ \E accept \in SUBSET (Entries(diff) \cup AddedIds(diff)),
             v \in {Unconditional, diff.noted} : ApplyMerge(accept, v)

ReviewSpec == ReviewInit /\ [][ReviewNext]_<<vars, reviewVars>>

-----------------------------------------------------------------------------
(* Properties. *)

(* What the generated document said of paragraph p. *)
IssuedText == Controlled(issued.doc)

(* As long as nobody has written to the spec since the document was         *)
(* generated, the diff reports the reviewer's edits and nothing else: a     *)
(* removed paragraph and what hangs below it are not reported as deleted,   *)
(* and nothing is a conflict.  (A text that rendering alters comes back     *)
(* different by itself; such paragraphs are left out.)                      *)
DiffIsExactWhenQuiet ==
    diff # None /\ spec[diff.spec].contentVersion = issued.contentVersion =>
        \A p \in Rows(diff.spec) : Shown[para[p].text] = para[p].text =>
            diff.entry[p].kind =
                IF diff.theirs[p] = IssuedText[p] THEN "unchanged"
                ELSE IF diff.theirs[p] = NoText THEN "deleted" ELSE "modified"

(* A merge replaces a paragraph's text, or discards a diverging edit in     *)
(* favour of a deletion, only if the text it destroys is the one the diff   *)
(* showed as ours, however much was written in between.  One made           *)
(* conditional on the version noted before the diff acts on the very rows   *)
(* the diff was taken from, plain deletions included.                       *)
MergeDestroysOnlyWhatWasShown ==
    [][merged' # merged =>
         \A p \in merged'.accept \cap Entries(diff) :
            /\ \/ para'[p].text # para[p].text
               \/ diff.entry[p].kind = "deleteConflict" /\ para'[p].vanish # para[p].vanish
               => para[p].text = diff.entry[p].ours
            /\ merged'.conditional =>
               InSpec(p, diff.spec) /\ para[p].text = diff.entry[p].ours]_<<para, merged>>

(* A client that never saw the answer may send the same merge again: as     *)
(* long as nothing else was written it succeeds and changes nothing.        *)
RetriedMergeIsNoOp ==
    merged # None /\ spec[diff.spec].contentVersion = merged.left =>
        /\ Applicable(diff, merged.accept)
        /\ MergeOutcome(diff, merged.accept).rows = para

(* Additions that follow the same paragraph stand in the order of the       *)
(* returned document, in one call or in several, whichever came first.      *)
AddedInDocumentOrder ==
    diff # None =>
        \A j, k \in 1..Len(diff.added) :
            LET a == diff.added[j]
                b == diff.added[k]
            IN j < k /\ a.after = b.after /\ Live(a.id) /\ Live(b.id)
                  => para[a.id].position < para[b.id].position
=============================================================================
