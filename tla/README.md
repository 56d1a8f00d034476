# SpecR in TLA+

SpecR keeps construction specifications as trees of paragraphs in PostgreSQL. It
imports them from DOCX, SEC, PDF or text, lets several people and agents edit
them over REST and MCP, sends them out as DOCX, takes redlined documents back,
and issues frozen revisions of packages of specs. This directory holds a TLA+
model of the part of SpecR that keeps that content right, the TLC runs that
check it and the proofs of its central invariants. Source paths below are
relative to the repository's `src/` unless they start with `docs/`.

`PROJECT.json` lists the runs, the mutants that show each property can fail, the
source lines of every definition, the hazards, the findings and the theorems.

## 1. Inventory

| Part | State it keeps | Operations | How it meets the others |
|---|---|---|---|
| Spec content store (`db/queries/paragraphs.ts`, `paragraph-*.ts`, `specs.ts`, `edit-gate.ts`, `content-version.ts`) | `specs`, `paragraphs`, `paragraph_versions` | import, retitle, edit, insert, remove, acknowledge, close a comment | all other parts read it; every writer takes the spec row first |
| Comments and classification (`reclassify.ts`) | a note's provenance, classification columns | accept a comment as a note, reclassify, override | writes through the store's helpers |
| Checkpoints and reject (`checkpoints.ts`, `paragraph-reject.ts`) | `checkpoints.content_version_map` | seal a spec or a project, revert a paragraph to a seal | joins history to seals on `content_version` |
| Redline diff and merge (`merge/`, `versions.ts`) | none: the diff travels with the client | generate, extract, diff, apply | reads two snapshots, writes through the store |
| Package issuance (`packages.ts`, `revisions.ts`, `revision-snapshot.ts`, `readiness-gate.ts`) | `design_packages`, `package_specs`, `package_revisions`, `package_revision_specs` | set membership, issue, delete | freezes trees, marks members issued |
| Project copies (`derive.ts`, `projects.ts`) | `project_specs`, lineage, `spec_references` | add a section (clone), remove it | clones a master while its writers go on |
| Division general specs (`division-general.ts`) | `division_general_specs` | ask (which may assign), choose, reconcile | reconciled by imports and added sections |
| Stored lists (`projects.ts`, `disciplines.ts`, `required-sections.ts`) | `project_sources`, `discipline_section_rules`, `required_sections` | replace, clear, seed | rank sources, file sections under disciplines, say what a project needs |
| Comparison report (`reporting/`) | none | align two sources, summarise, tell drift | reads live specs, frozen revisions and lineage |
| Import jobs and onboarding (`api/parse.ts`, `api/onboarding.ts`, `lib/jobs.ts`) | job maps in process memory, `onboarding_status` | start, poll, expire, finalize, reopen | steps that commit one by one through the store |
| Advisory locks (`locks.ts`) | `spec_locks` with an expiry | acquire, steal, release | not consulted by writers |
| MCP sessions (`mcp/sessions.ts`) | a map of transports | initialise, use, terminate | tool handlers call the same functions as REST |
| Optical reading of PDF (`parser/pdf/ocr.ts`) | a recogniser process and a timer while it runs | start, read pages, terminate | its pages are what the PDF parser reads |
| History views (`session-coalesce.ts`, `history*.ts`) | none | coalesce, diff, milestones | read history and seals |
| DOCX parser (`parser/docx/`, `lib/note-delimiters.ts`, `ast/labels.ts`) | none: a stack and a pending page break while it runs | classify paragraphs, nest lists, build the tree, strip labels and title block | its tree is what an import persists and the renderers number |
| Other parsers, generators, AST, reports, configuration CRUD | none of their own, or rows no guard reads | | deliver and consume trees |

What is hard in this system, and which parts meet it:

* **Two numbers that must agree.** A paragraph's `base_version` and its spec's
  `content_version` are advanced by a dozen handlers, tie history to checkpoints
  and are the tokens of optimistic concurrency. One handler that forgets one of
  them breaks history, reject or drift detection elsewhere, much later.
* **Reads that span statements.** A diff reads twice without a transaction; an
  issuance reads many rows under one snapshot; a clone reads its master in four
  statements under READ COMMITTED; the history endpoints run theirs on the pool, one
  by one; an import job reads what it persisted long
  after another import may have replaced it.
* **Values carried by clients.** A diff is applied hours after it was computed,
  perhaps twice, perhaps in parts.
* **Rules that only some writers follow.** Import and `updateSpec`, which changes
  title and section number, do not pass the edit gate.
* **Names that move.** References and additions name a section by its number, and
  the number of a master or of a copy may be changed at any time.
* **Reads that rebuild the past.** Sessions, pending changes and diffs put a
  generation together from the rows that live now and their history; every
  comparison of version numbers in them is a boundary, and a writer may come between
  the rows and the history.
* **State in process memory.** Jobs and MCP sessions are entries of a map beside
  background calls that outlive them, and a restart empties it.
* **A start that may never end.** The recogniser of scanned pages is raced against a
  timer, and may come, fail or hang after the call has given up; its thread lives
  before it has started.
* **Passes that must agree.** The DOCX parser decides about a paragraph in several
  passes, each over what the ones before it left: a tier, the votes for it, the
  label to strip and the owner of a page break are decided apart and must fit.
* **Wholesale replacement.** A list is deleted and inserted again, and a default is
  found and then written, beside other calls that do the same.
* **Waiting.** Issuances of a package queue on its row; what ends one of them
  early must not block the others.

What makes each part correct is listed with the runs in section 4; every hazard,
with its line, is in `PROJECT.json`.

## 2. Modules

| Module | Models |
|---|---|
| `SpecStore` | the content store, comment acceptance, checkpoints, what reject finds |
| `SpecStore_proofs` | proofs: types, history and seals of `SpecStore`, order of siblings, texts of objects, accepted comments, what the edit gate guarantees, and that the tables implement `VersionedSpecs`; its lemmas on numbers, recursion and ranks are used by the other modules of proofs |
| `MergeReview` | the redline round trip; extends `SpecStore` and composes it with the reviewer and the writers |
| `MergeReview_proofs` | proofs: what a diff says, what a merge does, and that a merge is one edit of `VersionedSpecs` |
| `Issuance` | package revisions; extends `SpecStore` and composes it with the issuing transactions |
| `Issuance_proofs` | proofs: what a revision holds, whatever ran beside the call that issued it |
| `ProjectCopy` | sections added to and removed from a project; extends `SpecStore` and composes it with the cloning transactions |
| `ProjectCopy_proofs` | proofs: drift, the shape of copies, references |
| `DivisionGeneral` | which spec is the general one of a division, found or chosen |
| `StoredLists` | lists that a call replaces, clears or seeds as a whole |
| `ProjectSettings_proofs` | proofs: `StoredLists` and `DivisionGeneral` |
| `Comparison` | two sources side by side, live or frozen, while writers go on |
| `Comparison_proofs` | proofs: the comparison is faithful |
| `VersionedSpecs` | what the store promises its clients, without tables; `SpecStore` and `MergeReview` implement it |
| `HistoryViews` | sessions, pending changes and generation diffs over the histories that `SpecStore`'s writers leave |
| `HistoryViews_proofs` | proofs: sessions, the pending summary and the rebuilt generations |
| `ImportJobs` | the parse and onboarding pipelines, their job table, finalize and reopen, the library's convention and derived templates |
| `DocxTree` | from the paragraphs of a Word document to the tree of a specification |
| `AdvisoryLocks` | the lock row of a spec |
| `McpSessions` | the map of stateful MCP sessions |
| `PdfOcr` | the optical reading of a PDF: starting a recogniser under a timeout, reading pages, letting go |
| `Services_proofs` | proofs: `ImportJobs`, `AdvisoryLocks`, `McpSessions`, `PdfOcr` |
| `MCSpecStore`, `MCMergeReview`, `MCIssuance`, `MCProjectCopy`, `MCHistoryViews`, `MCServices`, `MCDocxTree` | small instances for TLC |

### SpecStore

`spec`, `para`, `hist` and `sealed` are the tables, reduced to the columns some
handler reads. `drawn` counts the uuids handed out; row ids are numbers so that a
new row is never confused with a deleted one. A handler under `db/queries` opens
a transaction, takes the spec row `FOR UPDATE` in `assertSpecWritable` and holds
it to `COMMIT`. Two writers of one spec therefore never interleave, and **one
handler is one action**: its guard is the conjunction of the gate and the
handler's early returns, and its effect contains every write of the transaction:
the row, the shift of later siblings, the history row, the version bump. A
handler that refuses, finds nothing to do or rolls back is a stuttering step.

* `CommitRow` is the tail that the single-paragraph handlers share; `Edited`,
  `Vanished`, `Acknowledged`, `CommentSet` are what each does to the row.
* `PersistParsedSpec` and `UpdateSpec` do not call the gate, as in the code. A `title`
  is what names a spec, its section number and its title, so that `UpdateSpec` is a
  change of either or both. The unique indexes that refuse a number are in
  `ProjectCopy`, the one module that tells numbers apart. A document may be empty.
* `AcceptCommentAsNote` first looks for a note of the same provenance, in
  whatever spec, then writes the note and the closure in one generation.
* `CreateCheckpoint` seals the versions that are current; the field `texts` is a
  history field with which `SealedTextIsExact` compares what
  `SealedSnapshots` (`findSealedText`) would restore.
* Archiving and the upstream state are written by nothing in the repository
  (marked external in `map`); they change freely.

Abstractions: a text is a model value; `pr1`..`pr7`, which the guards treat
alike, are one type `pr`; the two object kinds are types of their own; the
choice tokens of a text are the flag `unresolved`; the captured blob of an
object is the field `blob` of the child whose text it holds; a paragraph has at
most one source comment. `reclassifySpec` and the editability override write
columns no guard of these handlers reads; the first is modelled in `ImportJobs`.
`withdraw`/`restore` only hide a spec from lists.

### VersionedSpecs

The promise behind ADR-018's token, in five variables: a spec has a title, a
body, a token and a read-only flag, and there are seals. `Edit` changes an open
spec's body and advances the token by one, `Retitle` and `Replace` do so on any
spec, a replacement keeps no paragraph, `Seal` names the generation that is
current under an id that is used once, `Create` and `Delete` are the life of a
copy. `SpecStore!Abstract` maps the tables to it: the body is the function from a
spec's live rows to their columns, the token is `content_version`, a seal is a
row of `content_version_map`. The same formula, `ImplementsVersionedSpecs`, is
checked of `SpecStore` (every handler) and of `MergeReview` (a merge of many
entries is one `Edit`, and none when nothing applied). A handler that wrote rows
without moving the token, moved it twice, or moved it for nothing would take a step
the abstract specification does not have.

### MergeReview

`GenerateDocx` freezes the sequence of rendered rows (`Document`: preorder,
without removed subtrees) with the text that comes out of rendering, `Shown`:
section citations are rewritten, so a text may come back different although
nobody touched it. `StartDiff`, `ReadBase`, `ReadOurs`, `ComputeDiff` are the
steps of one `POST /specs/:id/diff`; the two reads run on separate connections,
in either order, with writers between. The returned document is drawn from
`Redlined`: every sequence of at most `MaxRedlines` retypings, deletions and
additions. `ApplyMerge` accepts any subset of entries and additions, with or
without an expected version, any number of times. `Applicable` collects the
ways the whole call fails; `MergeOutcome` lets the additions in one by one, in
document order, over the rows the entries leave.

Captured objects and their structural conflicts are left out, and the
assumption `NoObjectsAssumption` says so. One document is out at a time.

### Issuance

`createPackageRevision` runs under REPEATABLE READ. Its first statement takes the
snapshot and only then waits for the package row, so a call that waited works on
what it saw before waiting. `IssueBegin` takes `Committed` into `tx[r].snapshot`;
`IssueLock`, `IssueNumber`, `FreezeMember` (one per member), `IssueGate`, `MarkRow`
(one per row of the UPDATE, in the order of some scan) and `IssueCommit` follow, all
reading through `View`. PostgreSQL's part is explicit: a duplicate `sort_order`
fails the INSERT, a package deleted meanwhile fails the lock, a row that another
call has updated and not committed is waited for, one that was updated since the
snapshot fails the UPDATE (`Conflicting`), and of calls that wait for each other's
rows one is ended (`DeadlockVictim`); each failure is a `Rollback`. From the gate to
the COMMIT the call shares its members' rows, because the rows it inserts refer to
them (`KeyShared`): that keeps the edit gate's `FOR UPDATE` out and lets a re-import
pass, and a row that is marked keeps everyone out.

There may be several packages, which share members. They are of one project whose
table of contents holds every spec; labels, nomenclature and the parent and base
relations are left out, and so is un-archiving. `seen` is a history field: what
package and specs said at every moment of the call, against which
`RevisionIsOnePointInTime` holds what was frozen.

### ProjectCopy

`addSectionToProject` is one transaction but READ COMMITTED: every statement sees
what is committed when it starts. So its statements are steps - `StartAdd`
(which master has the number), `ReadMaster` (its row, as it is by then),
`CloneSpecRow`, `CloneParagraphs`, `CloneRefs`, `InsertTocEntry`, `CommitAdd` - and
what they have written stays in `add[r]` until the COMMIT. Any of them may fail, and then the
whole call has done nothing (`Failed`).

PostgreSQL's part is explicit here too. `CloneSpecRow` waits while another call
is inserting a copy of the same section and fails when one is committed (UNIQUE
(section, project_id)); `InsertTocEntry` fails when another call has taken the
same position. Each foreign key takes a KEY SHARE lock on the row it refers to.
These locks, `KeyShared`, keep the edit gate's `FOR UPDATE` out of the master from
the moment its clone is inserted, a re-import out once its paragraphs are cloned,
and a removal out of a copy that a resolved reference points to; a retitle passes
them. So `Writer` and `Import` are the actions of `SpecStore` with the guard these
locks add. A call that meets a key that another is still inserting waits for it
and then fails; for the position the model lets it fail at once.

What a master is, and what number it has, are apart: `Number` is `specs.section`,
`Rename` is `updateSpec` of a master or a copy, title and number, without the gate, refused
or kept waiting by the unique indexes only (`Taken`). Renaming touches no reference.
`cloneRefs` resolves a cited number against the copies that have it then
(`CopyOf`), `insertTocEntry` repairs what waited for the number that was asked for
(`asked`), which the clone need not have if its master was renumbered in between, and
that is all: a copy that is given another number keeps the references it had, and one
that is given the number cited gets none. `asked`, `met` (the numbers of the adds that
were open together with this one) and `carried` (every number the copy was asked for
or has had) are history fields of its row, and `lapsed` of a reference: its target went
when it had another number than the one cited. The property needs them to say
which reference the code answers for.

The priority list of source libraries and withdrawal are left out, so masters have
different numbers; a master's references are one per number cited and the same in every
import; one project is modelled.

### DivisionGeneral

Imports and `addSectionToProject` reconcile the row of their division in the
transaction that brings the spec (`Bring`, `Reconcile`, `ReconcileWrites`,
`BringCommits`); a GET finds the row, or a spec with the number, and then writes the
row, each statement committed by itself (`ReadConfig`, `ReadExact`, `UpsertExact`);
a PUT checks the spec, writes and answers as a GET does (`Choose`, `UpsertManual`).
`writer` is the transaction that has the row in its hands: whoever else would write
it waits. `created` is the order by `created_at`, the beginning of the transaction
and not its COMMIT, so a spec that shows later may be the older one. `quiet` is a
history field: no choice and no removal since the call began to read.

### StoredLists

Four lists with one discipline: `DELETE`, then `INSERT`, then COMMIT. A `DELETE`
sees the rows that are committed when it begins (`DeleteBegins`) and waits for those
another call has deleted (`DeleteEnds`); an `INSERT` waits for rows it would collide
with (`Collide`) and fails on those that stay. `rules`, `baseline` and `package` are
`Locked`: their owner's row is taken first. `sources` is not, and there only the
unique priority keeps two lists from uniting. `seed` fills an empty list from the
table of contents or from the baseline.

### Comparison

The two kinds of source are `LiveSource` (the recursive query) and `FrozenSource`
(`flattenSpecTree` over a tree of a revision, with or without lineage embedded).
`Matrix` is `alignTrees`, by `OriginKeys` or `StructuralKeys`, `Differing` the
filter that the summary counts, `State` the baseline lens. They are pure; what makes them hard is
what writers do to a master and its copy in the meantime (`RewordLine`,
`RemoveLine`, `AddLine`, `ReimportMaster`, `FreezeCopy`), and that a report reads
paragraphs (`ReadParagraphs`) and drift (`ReadDrift`) by two statements.

`MCProjectCopy` runs `ProjectCopy`, `DivisionGeneral` and `StoredLists`, and
`MCIssuance` runs `Issuance` and `Comparison`, in the way of `MCServices` below: a
behaviour moves one of the components and leaves the others in an initial state.

### HistoryViews

The endpoints of ADR-052 run two to five SELECTs on the pool, each a transaction of
its own, and a writer may commit between any two of them. So a request is a `call`:
it holds what its statements have returned, and the properties are about the answer
it would give if its last statement ran now.

* `ParagraphContext`, `HistoryRows`, `CheckpointBoundaries`: the row of a paragraph
  with its spec's version, the rows of its history (`Entries` adds the tip that
  `ensureCurrentTip` makes up), the boundaries. `Sessions` folds them with
  `AdvancePartition` as `coalesceParagraphSessions` does.
* `SpecVersion`, `LatestCheckpointBoundary`, `ActorRollup`: the version, the last
  boundary, and the paragraphs past it (`Pending`, `PendingActor`).
* `DiffContext`, then twice `LiveRows` and `VersionRows`: the version that bounds the
  anchors, and per side the live rows and the history they are read with
  (`ContentSnapshot`, `CompareSnapshots`).

A call writes nothing and sees nothing of other calls, so one at a time is enough.
The state the calls meet comes from the writers of `SpecStore`, which
`HistoryNext` runs with an actor and a clock: `log` holds the actor, the time and
the op of every history row, which `SpecStore` has no use for. `past` is a history
variable with what each generation showed when it was opened, the reference that
`SnapshotIsThatGeneration` compares a rebuilt generation with; `importedAt` is the
generation of the last import. `Undisturbed` says that the version the call read first
still stands.

What a write between the statements does, the properties say: an edit after
`ParagraphContext` makes the made-up tip older than the last row before it, although
the endpoint promises "oldest first" (`IterationsEndAtTheRow` asks for an undisturbed
call); such a tip has no actor and is a session of its own, so that the sessions hold.
A seal that falls in may be shown to cover edits the call came too early to read, so
`SealedSessionEndsAtSealedText` is about checkpoints up to the version read. The
version shown with the pending changes may be at or below the seal; the changes
themselves are exact for the boundary named. A rebuilt generation stands up to edits
in between, and only an import over it tears it; the current side of a diff is exact
if undisturbed.

Sessions, the pending summary and the diff agree with the tables only where there
is history, and an import writes none. Each property says where that excuses it:
the entry that `ensureCurrentTip` makes up for a row without history carries
generation 1 and no actor and is left out of `SealedSessionEndsAtSealedText`; a
row whose history begins after a generation is left out of
`SnapshotIsThatGeneration` (that its text is then shown as today's is the finding
of `HistoryDiff`, which has no write between the statements of the diff).

Left out: `origin` entries and anchors of derived specs, what a merge's payload
says about visibility, anchors at issued revisions (stored whole), milestones and
operation counts.

### ImportJobs

A job is an entry of an in-memory map (`job`) and a background call (`worker`),
and the two are separate: a row expires by a timer whatever its call does, and an
update of an expired row is dropped (`Shows`). The call parses, persists, finds or
creates or refreshes the template named after the spec, assigns it, classifies,
and reads the tree back; each is a statement or a transaction of its own, hence an
action, and the values carried from one to the next are in `worker[j]`. `Failed`
is the `catch` of both pipelines, and `DatabaseFails` lets any step end there.
`FinalizeBegin` and `FinalizeCommit` are the two ends of a transaction that holds
the spec row: `Persist` and `AssignStyle` wait for it (`SpecRowFree`). A convention
set by `PUT` does not, which is the race that `SeedLibraryConvention` (ON CONFLICT
DO NOTHING) must survive. `Restart` is a crash or SIGTERM: the map and every call
are gone, open transactions are rolled back, what was committed stays.

Paragraphs are named by the import that left them, since classification is stored
by paragraph id and an import replaces them all: `StoreClassifications` writes
nothing when the rows it read are gone. `overlapped` and `deleted` are history
variables: imports of a spec that ran at the same time, and a user having deleted
a template. Of what users may do to a template, deletion is modelled, because it is what
the retry of a lost race must survive; a template that is renamed (`templates.ts:218`),
rules that are edited and a style source set by hand (`style-source.ts:60-103`) are
left out, and each would be one more excuse of `CompletedOnboardingIsWhole`, beside
`overlapped` and `deleted`.

### DocxTree

A run of the parser over one document. `Classify` is `buildClassification`: the
cascade of numbering, style, typed label and indentation (`Hits`, `Winner`), the
regions between asterisk rules (`Role`), and the promotion of lead-ins
(`NestLeadInSublists`). `Drop`, `Continue` and `Enter` are the three things
`buildTree` does with a paragraph - nothing, a continuation of the last structural
node, a structural node of its own - with the stack, the page break in hand and
the objects captured behind the paragraph. `Finish` drains the stack and
`StripTitleBlock` is `stripLeadingTitleBlockRoots`. The labels (`StripLabel`,
`RenderLabel`, `WordLabel`) are operators over the finished tree.

Abstractions: tiers 0 (PART) to 8 (pr7) stand for the node types, which they are
one to one with; a paragraph carries what its XML, style and numbering resolve to;
of its text are kept the class (blank, rule, separator, identity, words), the typed
label and whether it ends in a colon. `RegionOpen` says in closed form what the
code's flag is at a paragraph. Numbering profiles are left out, and so is a decimal label
at tier 0 (`2.0 PRODUCTS`, `heuristics.ts:23`): a typed PART label reads PART.

### AdvisoryLocks and McpSessions

`AdvisoryLocks` has one row with a holder and the time that is left, the two
statements of `acquireLock`, and callers that may release long after they lost the
lock. `McpSessions` takes a route from one `await` to the next as a step, which is
what the event loop does.

`PdfOcr` is one call of `parsePdf` in a worker thread, callback by callback:
`ReadPdf` decides which pages need reading and, in strict mode, refuses before
anything is started; `RecogniserStarts`, `RecogniserFails` and `InitTimesOut` are the
race of `initManagedRecognizer`, and the recogniser may still start or fail after the
timer has won. Its thread is spawned before the model is fetched, so "starting" is a live
thread, and `FetchStalls` is the fetch that is accepted and never answered: the factory does
not settle and nothing can end the thread (`ocr.ts:187-192`, ADR-039).
`RecognizePage` is the loop, `Terminate` and `Terminated` the
`finally`, whose own failure costs the results. `Degraded` is the `catch` of
`applyOcrIfNeeded`. A page that was read is known by not being blank, and confidence
is left out, since it only adds a warning. The thin pages are any set: which they are
is a count of characters.

`MCServices` runs these four components, which share no state, in one run: a
behaviour moves one of them and leaves the others in their initial state, so their
states add up. Nothing is lost, because none reads what another writes.

## 3. Bounds

Every bound is a constant: `MaxParas` (uuids drawn, hence rows ever inserted),
`MaxVersion` (the highest `content_version`), `MaxRedlines`, and the sets of
specs, texts, documents, checkpoints, requests, orders and member lists.

* Two texts tell apart every comparison the code makes (equal, different); one
  of them holds a choice token, and in `MergeReviews` one is altered by rendering.
* One spec suffices for the properties of one spec. A project checkpoint over
  several specs is one seal per spec; that it seals each exactly is proved for
  any `Scopes` (`RejectIsExact`). `Issuances` takes two specs because a package
  spans specs, `ProjectCopies` two masters and two copies.
* A torn clone needs one write to the master between two statements: version 2.
  Broken references need two sections that cite each other, a section that cites
  itself, and room for two clones of two rows after two imports: 8 rows. Two numbers
  exchange what a citation means, and a rename of either kind of spec is in reach at
  every moment. The one excuse the run does not reach is `lapsed`, which needs three adds and
  a third number; an instance with three of each, adding one after the other, reaches it
  and satisfies the property too, and the proof has no bound.
* An off-by-one between the two version numbers shows after one import, one
  edit, one checkpoint and another edit: content version 3 or 4.
* Ordering of additions needs two additions and two merge calls; the removed
  subtree needs a row below a row (`Nested`). `Bounded` stops `MergeReviews`
  of the nested document after three generations, and of the flat one after four rows
  and three generations, or four where the diff on its way holds one entry.
* `Issuances` begins in three situations, each the smallest in which its case can
  happen: one call among every writer, membership change and deletion, with a row
  below a removed one (`OneCall`); two calls of one package, of which one waits and
  numbers collide (`OnePackage`); two packages with the same two drafts, whose calls
  mark them in opposite orders (`TwoPackages`). A race needs one edit after the
  snapshot: version 2.
* A session that a seal must split needs an edit, a seal and another edit after
  an import: generation 3, with a second seal or a second actor beside them. A torn call
  needs one write between two statements, and what the write meets before it. Two
  users change sessions; `SessionWindow = 0` and `MaxTime = 1` make a pause either
  within the window or past it, which is all the code compares. The second
  document has a hidden paragraph, for the rows that are hidden from the start.
  An insertion brings one text (`NewTexts`), an edit either.
* A race of imports needs two. Four kinds of upload (two DOCX with different
  rules for the same node type, a DOCX without rules or another file, and a parse
  without onboarding) give every branch of the pipeline; both are imports of one
  section, the only case in which they meet.
* Three pages give a PDF a page of each kind (its own text, read, blank) and a failure
  before, between and after pages that were read.
* Two callers race for a list; lists of up to two entries can overlap, unite, collide
  in a priority or hold a discipline that the catalog lacks. For the division there
  are two sections with the number and one without, one GET and one PUT.
* A comparison begins with an outline of one paragraph or of three, among them a
  child, a removed one and a hidden note; two writes and one frozen tree make every difference that the
  keying tells apart, and 9 rows leave room for a re-import of three.
* A lock is taken over by a second caller while a third is refused, and a late
  release comes from the first: three holders. `TTL = 3` leaves room between grant
  and expiry. Two sessions with two requests in hand each are closed in any order.

* `DocxTrees` reads documents of three families. An outline is up to five paragraphs
  of seven kinds: a PART, an article, two numbered items, a typed and a numbered
  lead-in, a blank styled paragraph with an object; five are what a lead-in, its
  list and a peer with a list need. A document with pages is up to four paragraphs of
  ten kinds, under each way the identity can be known: a break, something that passes
  it on, something that owns it, something that shows it. One with an inferred title
  block is up to four of six kinds that repeat the title.

The bounded runs stop when the bounds are used up. Where no other step remains,
the cfg switches the deadlock check off; `SpecStore` always has one (archiving),
so its runs keep it. The runs over copies are symmetric in the copies and in the
calls.

## 4. Runs

`SpecStoreEdits` - every handler of the store on one spec with a commented
paragraph and a text box, with retitles, imports, a checkpoint, archiving and
upstream locks. `TypeOK`; `HistoryIsSound`: the history of a paragraph is gapless
and ends in its text, so `ON CONFLICT DO NOTHING` never swallows a write
(`HistoryTracksRows`), and along a paragraph both version numbers rise together
(`HistoryOrdered`); `SealedTextIsExact`: reject restores exactly what the seal
covered; `SiblingPositionsDistinct`; `OneNotePerComment`; `BlobMirrorsText`: the two
copies of a text in an object stay equal; `ImplementsVersionedSpecs`: every step is
one of the abstract store's or none; `GovernedRowsFrozen`: a paragraph of an archived
or locked spec is never edited in place, only replaced by a re-import.

`MergeReviews` - one reviewer, nested rows, two rounds of merging, and writers
between all steps of one: `DiffIsExactWhenQuiet`: without writers the diff is the
reviewer's edits and nothing else; `RetriedMergeIsNoOp`; `AddedInDocumentOrder`;
`MergeDestroysOnlyWhatWasShown`: a text that a merge replaces was on one side of the
diff, and a conditional merge acts on the very rows shown;
`ImplementsVersionedSpecs` for merges.

`Issuances` - calls of one and of two packages among writers, membership changes,
archiving and deletion. `RevisionIsOnePointInTime`: list, order and trees of a
revision are what the database said together at one moment; `DraftsAreIssuedAsFrozen`:
every member of a revision is marked, and a draft only with the text it has at that
commit;
`FinalRevisionsRenderClean`: a reader of a final revision sees no open matter;
`OpenOrderIsLast`; and the liveness property `IssuanceEnds`, for which a deadlock
must end. `ComparisonIsFaithful`, of a copy, its master and a frozen tree of it among
edits: each paragraph has one row in the report; by lineage it stands beside itself
or its own clone; a frozen copy and the live one differ in exactly what was reworded,
added or removed; and a report without drift on an unedited copy shows no difference.

`ProjectCopies` - two masters that cite each other, added by two calls and
removed, among new titles and numbers of masters and copies, edits, accepted
comments, re-imports and package membership. `DriftIsNeverHidden`: a copy that lineage shows as neither edited nor
behind has its master's title and rows, although the version, the rows and the
references were read by separate statements; it holds because the version is read
first, and because the columns that the clone leaves out are not compared (see
`ProjectLossless`). `CopiesKeepTheirShape`: a copy is a tree of its own, and
lineage commutes with parenthood whatever was edited since. `ReferencesFollowToc`:
a reference is broken exactly when it has no target, and a target is a copy of the
project that was asked for by the number cited or has carried it, which a package
that holds it keeps in the project; and beside a copy that was asked for by that
number and never had another, a reference stays broken only if the two were being added at the
same time or its target was given another number before it went. That the target
still has the number cited is not claimed, since it is not so (see below).
`LastCallWins`: after a call that replaced, cleared or
seeded a list, the list is what that call left, however two were interleaved.
`ManualChoiceStands`: no import, added section or GET replaces a manual choice,
whatever it had read before; and unless a choice or a removal came between, the
answer of a call is what is stored.

`HistoryViews` - two users, a clock, imports and two checkpoints, between any two
statements of the calls that show the history.
`SessionsFollowSeals`: a session is the uninterrupted work of one actor and
no checkpoint falls inside it (`SessionsNeverStraddleASeal`), and the last session
that a checkpoint sealed ends with the text it sealed, and the next begins with
it (`SealedSessionEndsAtSealedText`, for checkpoints up to the version the call began
with), and the iterations of a call that nothing was written during end with the row
(`IterationsEndAtTheRow`); `PendingIsWhatChanged`: the pending summary
misses nothing written since the boundary it names, holds nothing older and names the actor
who left the paragraph as it is, and undisturbed it shows a version past that boundary;
`SnapshotIsThatGeneration`: a generation rebuilt from rows read first and history
read later is the one that was, removals of ancestors included and edits in
between notwithstanding, unless it is imported over; the current state is what it was if
nothing was written during the call.

`Services` - import jobs, locks, sessions and optical reading. `CompletedOnboardingIsWhole`: after a
job that is shown complete, its rows are classified, and unless another import
overlapped, the spec uses its own template with every rule of this file;
`TemplateRaceIsHealed`: a lost race for the template's name fails no job;
`UserConventionKept`: a finalize never puts back what a user has replaced;
`JobsEnd`: under the fairness below no poll is answered with
a running stage for ever; `GrantIsShown`: whoever was granted the lock is who
everyone is shown for the whole time granted, so grants never overlap;
`ClosingIsFinal`: no request reaches a session that has begun to close;
`OcrEndsCleanly` (ADR-039): the start of a recogniser is never waited for for ever, and
one that comes late is ended; after the call no recogniser is up, and a thread is left
only where the timer ended the wait - in the end, only where the fetch of the model has
stalled; none is started in strict mode without a local model, none is down while it
reads, and each page keeps its own text, shows what was read, or is reported.

`DocxTrees` - typed, styled, numbered and indented outlines; page breaks of both
kinds among objects, notes, hidden lines and rules. `TreeIsTheOutline`: the tree
holds every content paragraph and object once, in document order, under the nearest
shallower node; `VotesAreKept`: after promotions each signal's vote still stands as
winner, agreement or conflict; `SublistsNestUnderTheirLeadIn`: what a lead-in
introduces becomes its children, loses its typed numbers, and a peer lead-in stays
its sibling; `TidyOutlinesAgree`: in an outline without gaps the label stripped, the
label of the Markdown and the label that Word counts are one; `BreaksReachTheNextPage`:
a break is shown before the next visible node, unless an object comes first, and
nowhere else; `NumberedContentStays`: asterisk rules that are out of step swallow no
numbered paragraph.

Five runs show where the documentation or a comment says something else than the
code does:

* `ProjectRefs`: `derive.ts` repairs a broken reference "when the section is later
  added"; when two sections that cite each other are added at the same time,
  neither call sees the other's rows and both references stay broken.
* `ProjectLossless`: the clone is "lossless by construction", but its column list
  names neither `object_data` nor `acknowledged`: a copied table or text box has
  lost its captured content.
* `HistoryDiff`: the diff endpoint compares "two stored states of one spec"; for
  an imported paragraph that was edited since, the state of before the edit is not
  stored, today's text is taken for it, and the diff shows no change.
* `DocxNesting`: ADR-059 calls the nesting pass idempotent; a promotion can make a
  collision that a second pass would promote again and the one pass leaves.
* `DocxTitles`: ADR-075 promises that a manual break survives; one on a title line is
  lost when the identity is inferred, because the line is stripped after the break
  was put on it.

What the model also shows about the code, without a run of its own:

* ADR-018 calls an archived spec read-only (line 66), but it can be retitled,
  renumbered and re-imported, since no such writer passes the gate (`specs.ts:254`,
  `specs.ts:443`).
* A new number for a copy (`specs.ts:259`) touches no reference, and only an add repairs
  any (`derive.ts:154`). So a resolved reference goes on pointing to a copy that now has
  another number, one that waits for a number stays broken when a copy is given it, and
  if the master is renumbered while it is added, what waited for the number asked
  for is pointed to a copy that has another.
* The history endpoints read statement by statement. If a paragraph is edited between
  the reads of its row and of its history, the row read is appended after a
  newer iteration (`history.ts:217`), though they are promised "oldest first". If
  somebody writes and seals between the statements of a pending summary
  (`pending-summary.ts:158`, `130`), the version it shows can be below the seal it
  names, beside changes since. If a spec is imported over between the two reads of a side of a
  diff (`history-diff.ts:191`), old rows meet the history that is left.
* A fetch of the OCR model that stalls leaves a thread behind that the timeout cannot
  end. `ocr.ts:187` and ADR-039 say so, and refuse to start it in strict
  mode; the comment at `ocr.ts:120` says that "a timed-out attempt never leaks a
  Tesseract worker process", which holds only of a fetch that ends some day.
* "Every recorded conflict is a nodeType mismatch" (`hierarchy-confidence.ts:37`), but
  a vote for the tier a lead-in was promoted to stays among its conflicts and lowers
  its confidence (`lead-in-nesting.ts:151`).
* The label stripped is said to equal the one rendered; a `pr` node at the root or
  directly below a PART is stripped by its type (`outline-label-strip.ts:44`) and
  rendered by its depth (`markdown.ts:143`).
* A paragraph that was imported and first edited after a checkpoint has no snapshot
  to return to: reject answers `no-checkpointed-state` (`paragraph-reject.ts:64`).
  A re-import after a checkpoint leaves nothing pending, and the entry made up for
  an imported row (generation 1) is reported as sealed by a checkpoint of before
  the import. The first edit of an imported paragraph has `beforeText` null, as an
  insertion has.
* The base of a diff is read when the diff runs: a writer's edit since the document
  went out is reported as the reviewer's (`versions.ts:43`; ADR-005 says that a
  change in ours only needs no action). `MergeDestroysOnlyWhatWasShown` holds
  nevertheless: the diff shows both texts.
* A clone copies the provenance of accepted comments (`derive.ts:115`): two notes
  then answer the look-up by provenance (`reclassify.ts:275`), and an accept on the
  copy's own paragraph inserts a second one.
* Under REPEATABLE READ the second of two concurrent issuances with an open order
  computes a number that is taken and fails with a conflict although its label is
  new; a first issuance fails when a member is edited while it runs.
* A re-import whose file yields fewer style rules leaves the other rules of the
  template as they were (`templates.ts:295` upserts by node type), and of two
  overlapping imports the rules of either may stay. A failed parse job keeps the
  stage it failed in (`parse.ts:251`), where a failed onboarding job ends in stage
  `failed`.
* Among the peers of a lead-in, one that precedes the first list or does not end in a
  colon is not promoted and ends a tier below the others. A typed number stays in the
  text, and is rendered a second time, where siblings of different tiers are counted
  together (`outline-label-strip.ts:50` counts any numbered sibling).
* A GET of a division's general spec that overlaps a PUT answers with the section it
  found, as assigned (`division-general.ts:258`), although its upsert did nothing
  because of the manual choice.
* `setRequiredSections` reads its answer after the COMMIT (`required-sections.ts:133`)
  and may answer with the list of another call.
* With alignment `auto`, a frozen spec and the same spec as it is are compared by
  structure once no paragraph is left in common, although "own ids trivially recur"
  (`align.ts:57`): when all that was frozen has been removed since, what was added
  stands beside it as modified.
* An acquire that is refused just before the lock is released answers with an error
  (`locks.ts:80`) although the lock is free.

### Fairness

Safety runs assume none. `FairIssueSpec` assumes weak fairness of each request's
steps: the server continues every call it began (an `async` function that awaits
one query after another and always releases its client in `finally`), and
PostgreSQL hands a free row lock to a waiter and ends one call of a deadlock. Nothing is assumed of clients:
writers, membership changes and calls may stop at any time. The number of
requests is finite, so a waiter is overtaken finitely often and weak fairness is
enough.

`JobsFairness` assumes that a background call goes on to its next statement (weak
fairness of `Work`) and that a finalize, once begun, goes on to its COMMIT. Users
may finalize and reopen a spec for ever, and each takes the spec row for a while;
`Persist` and `AssignStyle` therefore need strong fairness, which is PostgreSQL's
queue for a row lock: it is handed to whoever waits, not to whoever comes next.
`OcrFairness` assumes that a timer that is set fires and that a start comes to
something: the recogniser is up, fails, or its fetch has stalled for good
(`FetchStalls`), which nothing follows. It does not assume that a recogniser ever
answers for a page: the code sets no limit there.
Expiry, restarts, failures and users are not assumed to happen. Parse ends because
the worker returns or throws; a parser that never returns is outside the model.

## 5. Proofs

TLAPS checks 32 theorems, each for every value of the constants, in eight modules.
What they assume of the constants is what the modules name: bounds are naturals,
`NULL` is no text, no row, no spec and no call, requests and calls are of one kind
each, and

* `DocumentsAssumption`: a document is numbered as `flattenDfs` numbers it, parents
  first and siblings apart;
* `ScopesAssumption`, `MastersAssumption`, `MembershipsAssumption`: checkpoints, masters
  and packages name specs, and a package names one once (UNIQUE (package_id, spec_id));
  `NumbersAssumption`, `CitesAssumption`: what names a spec includes a number, and what
  a master cites are numbers; `OrdersAssumption`: a sort order that is sent is a number;
* `SentAssumption`: a list that is sent has an entry
  (`SetProjectSourcesBodySchema`, `min(1)`; an empty list is what the call that clears is for);
* `CallsAssumption`: a call of `DivisionGeneral` is a GET or a PUT;
* `OutlinesAssumption`: an outline to compare is numbered as `flattenDfs` numbers it, and the
  bound `MaxLines` leaves room for a master and its copy.

None of them restricts how many specs, calls, masters, documents or seals there are.
The requests of `Issuance` and the masters of `ProjectCopy` need not be bounded either,
except that the requests are finitely many (`RequestsAssumption`), so that the places of
a package's revisions have a greatest.

Each theorem about an invariant is proved in three steps - the initial states satisfy an invariant, every
action keeps it, it implies the property - and the last line is temporal (PTL). An action
property follows from the same invariant and one step. The invariants were first given to
TLC on the runs' instances.

### The content store

`SpecStore_proofs`: `TypeCorrect`, `HistoryCorrect` (`HistoryIsSound`, that is
`HistoryTracksRows` and `HistoryOrdered`), `RejectIsExact` (`SealedTextIsExact`). None of
the three is inductive alone. The invariant is

    HistoryInv == TypeOK /\ HistoryTracksRows /\ HistoryOrdered /\ SealedTextIsExact

and each conjunct needs the others. `SealedTextIsExact` needs the bound in
`HistoryOrdered`: a write records its snapshot in a generation its spec has not
reached, hence above every seal, so no seal's look-up changes. `HistoryOrdered`
needs `HistoryTracksRows`: the new version number exceeds every recorded one.
`HistoryTracksRows` needs itself to show that `ON CONFLICT DO NOTHING` never
fires (`RecordIsInsert`), and a new seal needs all three: the last snapshot of a
paragraph is the one at its `base_version`, and that one holds its text
(`CheckpointHistory`).

The argument goes through one description of a handler. `Rewrites(s, T)` says
what a step does to spec `s` and a set `T` of rows: each row in `T` advances one
version, or is new at version 1; every other row keeps its spec, version and
text; one snapshot per row of `T` is added, in the next generation of `s`.
`WriteRewrites` proves, one step per handler, that every write but an import is
such a rewrite, and `RewritesHistory` that every rewrite keeps the invariant.
Import (`ImportHistory`), checkpoint and environment have a case of their own.

The same module: `DocumentOrderIsTotal`, `BlobsFollowText`,
`CommentsAreAcceptedOnce`. Here the description says where rows go. `WriteShapes` puts
every handler into one of three forms - it edits one row in place (`EditsRow`), it
shifts the later siblings and puts a new row in the gap (`InsertsRow`), or it replaces
the rows of a spec (`ReplacesRows`) - and each form keeps `RowsInv`, the types together
with the three properties. `NoteStands` is what the third says of one note: it is the only one
of its comment and a sibling of the commented row in the same spec, so that an edit touches
neither and a re-import takes both.

There too: `GovernedAreFrozen`, and the refinement
`TablesImplementVersionedSpecs` (`Spec => Abstract!Spec`). `GateRefuses` shows that of all
writers only import and retitle get past a governed spec, and `WriteIsLocal` that no
writer of another spec reaches its rows: neither the sibling shift nor a freshly drawn id
can meet one. With these the refinement goes handler by handler (`RequestImplements`,
`CheckpointImplements`, `EnvironmentImplements`): an editing handler is `Edit` of its spec
because it advances the token once and every other body is the same function, an import
is `Replace` because no id it drew was a row before.

### Redline round trip

`MergeReview_proofs`: `AdditionsKeepTheirOrder` (`AddedInDocumentOrder`), `QuietDiffsAreExact`
(`DiffIsExactWhenQuiet`), `MergesDestroyOnlyWhatWasShown`, `RetriesAreNoOps`
(`RetriedMergeIsNoOp`) and `MergesImplementVersionedSpecs`, for any number of rows, redlines,
merges and writes. Beyond the store's assumptions they need that what rendering makes of
a text is a text or nothing (`ShownAssumption`). `ReviewInv` is the invariants of the store
(`StoreInv`, with `RowsHang`: a row hangs in its own spec below an older row) and what
each participant knows, always up to the writes it has missed:

* `IssueTells`: the document out is made of the spec's rows and, if the version is still the
  issued one, is what the generator would produce now;
* `ReadingTells`: a read is what the spec says now if the version noted before it still
  stands. Base and ours then agree: the last snapshot of a row is its text
  (`BaseIsText`, from `HistoryInv`), and a row is visible to the reads exactly when it is
  rendered (`VisibleIsRendered`);
* `DiffTells`: the diff classifies the rows as they are if its noted version still
  stands (`DiffIsCurrent`), and always: an addition that is a row has the anchor's parent, stands below
  it (`Stand`) and in order with the others (`Ordered`);
* `MergeTells`: until somebody writes, all that was accepted is as asked (`Settled`).

Four arguments carry it. *Documents*: `Before` is a strict total order of the rows of a spec,
because two lineages part at siblings (`ForkFacts`) and siblings have different positions; so
`Document` has each rendered row once (`NthIs`), and what comes back is made
of pieces that went out and of new texts (`RedlinedIs`). *Writers*: a step that leaves a
spec's version alone leaves its rows and so every view of it alone (`WriteProceeds`), and
no writer reorders siblings or takes a row from between an addition and its anchor without
taking both (`WriteKeepsAdded`). *Merges*: `MergeOutcomeIs` shows that the recursive
function that lets additions in exists, by counting up, since no induction principle
can be instantiated; `GrownStep` keeps siblings apart, `Stand` and `Ordered` through one
insertion (`InsertedStands` is where the chaining of `resolveEffectiveAnchor` is needed: hung on
its original anchor, an addition would come before an earlier one), and `Merges` is what all of it leaves of
each row. From `Merges` follow the rewrite that keeps the history
(`ApplyMergeRewrites`), the store's invariants and `Edit`. *Retries*: on settled rows each
addition finds itself under an anchor that still stands, and no step of the
loop changes the table (`SettledIsKept`).

### Package revisions

`Issuance_proofs`: `RevisionsArePointsInTime`, `OpenPlacesAreLast`,
`NoDraftIsIssuedUnseen`, `FinalRevisionsAreClean`. The invariant `IssueInv` relates each
call to its snapshot:

* `StoreInv`: the types, and that a row's parent is older than the row (an insertion,
  an import, and nothing else sets a parent);
* `TxInv`: a call is `Closed`, or what it froze is what its snapshot said (`Reads`) and
  the rows it holds still stand as they were when it froze them (`Stands`: whoever
  advances a spec's token meets the locks of `KeyShared` or makes the call fail by
  `Conflicting`); the rows marked by two calls are disjoint;
* `RevisionsInv`: a revision was frozen from something that had been seen while its
  call was open, and is clean if it passed the gate.

`WriterAdvances` and `StandsAfter` are the two facts about `SpecStore` that the locks rest
on. `FinalRevisionsAreClean` compares two walks of one tree - the gate looks up the parents
of a row, the renderer walks down and drops suppressed subtrees - which is recursion over
data. `AboveIs` and `SuppressedIs` get by without an induction principle: a set of rows
that is closed under parents is all of them, because a least counterexample
(`ParentsComeFirst`) would have a parent outside.

### The comparison report

`Comparison_proofs`: `ComparisonsAreFaithful` (`ComparisonIsFaithful`), for any outlines,
wordings and number of writes. One half is about any two sources, the other about what writers leave.

A pair is `Comparable` if each source is a `Tree` whose clones have origins of their own
outside of it (`Clones`), and if two sources of different specs share no row and one
of them has no clones. Then no two paragraphs of a source have the same key (`KeysAre`).
For lineage this is `Clones`. For structure, like siblings have different ordinals, being ranks
of a finite order (`OrdinalsDiffer`), and two rows with one address would have parents
with one address (`AddressesDiffer`). So a cell is the paragraph with the key and not the first of several
(`CellIs`), and the three statements about the matrix follow: `NoneIsLeftOut`,
`LineageIsPaired`, `ChangesAreShown`.

`LinesInv` is what makes every pair comparable (`PairsAreComparable`): a live row hangs below an
older one of its spec, a row of the master has no origin, rows of the copy have
different origins, which were drawn already and are not in the copy, and what is frozen is
still in the copy. The bound on origins is needed for `AddLine`: a new
row must not get the id that another names as its origin. `ReportOK` is
about the report: while nobody has written, the rows are those of the start, and a report that
has read the paragraphs and found a difference implies a write since the start, which either
the drift it reads next or the copy's own version shows. That it finds none at the start is
`TwinsDoNotDiffer`: the copy's rows are the master's, a fixed number of ids further on, and
what is removed (`TwinsAreKept`), the ordinals and the addresses agree, so that
every alignment pairs the twins.

### Project copies

`ProjectCopy_proofs`: `DriftIsShown`, `CopiesAreTrees`, `ReferencesResolve`. The invariant
`ProjectInv` has two halves. `TablesInv` is about what is committed: the types, that the
rows of a copy have their parents in it (`RowsClosed`), that copies and entries of the table
of contents go together (`TocFollowsCopies`), and the three properties copy by copy. `CallsInv` is about what the open calls hold: each is `Fine`, any two are `Apart`.
`TocFollowsCopies` also keeps account of numbers: a copy has carried the one it has, which is
no other copy's. `Fine` says in step with
the phase of the call what its next statement may rely on:

* `Current`: the token and the name that were read with the master's row are those of
  the row, or the master has been written since and lineage will show the copy as behind;
* `Reserves`, `Early`: from `CloneSpecRow` on no copy has the number the clone has and none can
  get it, added or renamed, and the call holds nothing yet that a later statement writes;
* `Cloned`: the rows cloned follow the master's rows as they were when the
  statement read them (`RowsFollow`), and are those it has now unless it was written since
  (`RowsMirror`); `ClonedStays` is where `KeyShared` is needed;
* `Cited`: each reference points to a copy that has carried the number it cites, or is
  broken beside a copy that never had another number only if the two calls `Met`; and what
  waits for the number that was asked for will be repaired.

The proof has one lemma per action, and frames for what an action leaves alone
(`OthersStand`, `TablesKept`, `CallsGoOn`). The ids that a cloning statement draws are the
numbers after `drawn` in the order of the rows; that they are distinct and fill an
interval is `DrawnInOrder`, by the library's theorems on cardinality.

### Settings of a project

`ProjectSettings_proofs`: `ReplacementIsWhole` (`LastCallWins`) and `ChoicesStand`
(`ManualChoiceStands`).

`ListsInv` says of every open call what it `Knows`. Where the owner's row is locked, nobody
comes between its statements, so it knows the list. A call for a project's sources locks
nothing and knows less: the rows it found are all there are, or have been
replaced as a whole by another. What saves it is that a list has a first priority, that only
one call can hold it (`OneCallers`), and that rows are by calls that are over (`Settled`),
so that a call that meets the rows of another at its `INSERT` fails and never unites
with them. `SentAssumption` is needed: two empty lists would not collide.

`GeneralInv` orders the specs of a number by `created_at` without repetition, knows the
transaction that has the row in its hands (`WriterFound`), and says that an inferred
general spec is there (`FoundIsThere`) and that while the row is in an import's hands and was found there
nothing has been chosen (`NothingChosen`). `ChoicesStand` needs, beyond that, one fact per
step (`Stands`).

### History views

`HistoryViews_proofs`: `PendingSummaryIsExact` (`PendingIsWhatChanged`),
`SnapshotsAreExact` (`SnapshotIsThatGeneration`) and `SessionsKeepToSeals`
(`SessionsFollowSeals`), whatever is committed between the statements of a call. There
are two invariants (`ViewsCorrect`). What the endpoints show is put together from a log
and compared with what was, so `ViewsInv` says what the log tells, in terms
of the tables as they are now and of `past`:

* `SealsTell`: a seal has a generation, and per seal and row, a row written since is the same as a row whose
  text may differ from the sealed one, and one that has come since has all its history since;
* `LogTells`: there is an entry per row of history, and version 1 is a creation;
* `VanishTells`: the last removal, restoration or insertion in a row's history says whether
  it is removed now. A row with neither is not, if it was visible when it was imported;
* `PastTells`: each generation since the import that is over is recalled as it was
  (`Recalls`), and the one that is open is what is shown.

`PastTells` is what makes the second theorem inductive. A writer opens a generation. The
one that closes was recalled exactly while it was open, because of `VanishTells` (`NowIsRecalled`);
from then on a look-up that stops at it reads only entries that nobody touches
(`KeptRow`, `KeptRecall`), or none because the row has no history that far back, the case
the property excepts. `HistoryInv` is needed throughout: the latest row of any part of a
history is well defined (`LatestOf`) only because versions and generations rise together.
What a generation shows depends on ancestors, and `Lineage` is defined by recursion; that it stays
the same where the tree does (`LineageStays`) is again shown on a least counterexample.

`CallInv` says what the open call has read, in terms of the tables as they are by now:
a row as it is if `Undisturbed` (`RowWasRead`), a history whose last row up to any seal
that the call could know says what was sealed (`HistoryWasRead`), rows that differ from
the live ones only by what was written after the anchor (`RowsWereRead`). To one spec a
writer does one of three things - nothing but perhaps seal it (`Steady`), write rows of it
(`Written`), or import over it (`Replaced`) - and each keeps `CallInv` (`CallStays`): the
first changes nothing that was read, the others raise the version. What a call puts together is then
compared with `SnapshotAt`, the same generation as one statement would put it together:
`SidesAgree` for an anchor, whatever was edited between the two reads, `CurrentAgrees` for the
current side of an undisturbed call.

For the sessions, `PartitionIntoSpans` is a recursive function, and what it has built
after each entry (`Partial`) is shown by counting up: the spans lie one after another
from the first entry on (`Tiles`), and nothing within one starts a new session
(`Whole`). A boundary that fell inside a span would fall between two of its neighbours
(`UnbrokenIs`), which the code tests; that a test of neighbours is enough is because the
entries are the rows of the history and rise in both version numbers (`OrderedIs`, `EntriesAre`).
`SealedEnd` then needs both halves: the session after the last one
a checkpoint sealed ends behind it, so by the first half it begins behind it, so the last
entry of the sealed one is the last row up to the seal that the call has read, whose text is
the one sealed (`SealsMet`, from `SealedTextIsExact` at the time of the read). The entry
that `ensureCurrentTip` makes up has no actor and so folds with nothing; `EndAtRow` shows
that an undisturbed call makes one up only where there is no history.

### Services

`Services_proofs` has one invariant per component:

* `LocksInv` for `GrantsAreExclusive`: the row is the granted holder's as long as time is left;
* `SessionsInv` for `NoRequestMeetsAClosingSession`: a session that is listed has an open
  transport. (The code takes it off the list first and closes then.)
* `OcrInv` for `ReadingAccountsForAll`, the safety part of `OcrEndsCleanly`: by the phase
  of the call, whether a recogniser may be up, whether the timer runs and which pages have been read.
  A recogniser that starts after the timer has won is ended by whoever started it, so
  what may be left needs its state, too: after the return it is never up, and a thread
  that is alive is one whose timer has fired (and not one in strict mode without a local model);
* `JobsInv` for `TemplateRacesHeal`, `OnboardingCompletes` and `UsersSetTheConvention`: per
  job, what it has done so far is still so unless somebody else was at it. `Healed`: a job
  that lost the race for the name has found the winner's template, or it was deleted.
  `Classed` and `Styled`: rows classified, spec on its own template with the rules
  of its file. Only an import that overlaps (`Others`) can undo either, which
  is why the property has to except it.

### Checked by TLC only

* Liveness: `JobsEnd`, `IssuanceEnds`, and the leads-to half of `OcrEndsCleanly`. The proof
  system has neither ENABLED nor fairness.
* `DocxTree`: its operators are folds over a document with a stack, and what such
  a fold computes for every document is an induction over data that no installed prover can
  instantiate.

## 6. Plan

1. **Models**: withdrawal and the priority of sources in `ProjectCopy`, a merge on a
   copy, a torn read of `getSpecTree`, numbering profiles in `DocxTree`.

## 7. Not modelled

By far the most of the repository's lines are code that keeps no state: the SEC and
text parsers, the layout and fonts of a PDF, the reading of WordprocessingML, rendering, headers and footers and
style derivation are pure functions over text and layout, whose mistakes are wrong
outputs and not wrong interleavings. To the store's models the parser is the set `Documents`,
the renderer as the choice and order of rows. REST and MCP handlers validate input
and map results to status codes. Configuration CRUD (profiles, header and footer,
libraries, clients, users), search, coordination and the submittal register are single statements
on rows that no modelled guard reads. The web demo, the verification harness, the
scripts and the Revit add-in are clients of the API. The model therefore covers a
small share of the lines and nearly all of those in which several actors, several
statements or several versions meet. PostgreSQL itself is assumed to provide the
isolation levels and row locks the code asks for. The rest of what is left out is
in the plan above or with its component in `PROJECT.json`.
