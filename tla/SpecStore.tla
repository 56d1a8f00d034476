------------------------------ MODULE SpecStore ------------------------------
(***************************************************************************)
(* The committed content of the database: specs, their paragraphs, the     *)
(* paragraph history and the checkpoints.  Every handler under db/queries  *)
(* that writes content opens a transaction, takes the spec row FOR UPDATE  *)
(* in assertSpecWritable and keeps it to COMMIT, so two writers of a spec  *)
(* never interleave and one handler is one action here.  A handler that    *)
(* refuses or rolls back leaves the tables alone and is a stuttering step. *)
(*                                                                         *)
(* Abstractions: a text is a member of Texts; the pr1..pr7 tiers, which    *)
(* the guards treat alike, are one type "pr"; a paragraph carries at most  *)
(* one source comment; an objectText row carries what its parent's         *)
(* captured blob holds for it (`blob').  A number that another spec has is *)
(* refused by unique indexes that are left to the modules that read it.    *)
(***************************************************************************)
EXTENDS Integers, Sequences, FiniteSets

CONSTANTS
    Specs,        \* spec ids
    MaxParas,     \* bound: how many paragraph uuids the database may draw
    Texts,        \* paragraph texts
    Unresolved,   \* the texts in which DOCX import finds a choice token
    CommentText,  \* the text of a source comment
    Titles,       \* what names a spec: its section number and its title
    Documents,    \* what the parser may deliver: [title, nodes]
    Checkpoints,  \* checkpoint ids
    Scopes,       \* what a checkpoint seals: one spec, or the specs of a project
    MaxVersion,   \* bound: the highest content_version of a spec
    NoText,       \* SQL NULL in a text column
    NoRow         \* no paragraphs row with this id

Paras == 1..MaxParas        \* uuids, numbered in the order they are drawn
NoPara == 0                 \* SQL NULL in a column that names a paragraph
Unconditional == 0          \* expectedVersion omitted

BodyTypes == {"pr", "continuation"}
ObjectTypes == {"table", "textBox"}
NodeTypes == {"part", "article", "note", "objectText"} \cup BodyTypes \cup ObjectTypes
Lifecycles == {"draft", "issued", "archived"}
ExternalStates == {"editable", "locked"}
Flag == BOOLEAN             \* a boolean column
CommentStates == {"none", "open", "closed"}

(* One row of each table, reduced to the columns the handlers read. *)
SpecRow == [title : Titles \cup {NoText}, lifecycle : Lifecycles,
            external : ExternalStates, contentVersion : Nat]
ParaRow == [spec : Specs, parent : Paras \cup {NoPara}, position : Nat,
            type : NodeTypes, text : Texts, unresolved : Flag,
            baseVersion : Nat, vanish : Flag, acknowledged : Flag,
            comment : CommentStates, acceptedFrom : Paras \cup {NoPara},
            blob : Texts \cup {NoText}]
VersionRow == [para : Paras, spec : Specs, version : Nat, text : Texts,
               contentVersion : Nat]
(* `texts' is a history field: what the spec said when it was sealed.  The *)
(* program keeps only the number.                                          *)
SealRow == [id : Checkpoints, spec : Specs, contentVersion : Nat,
            texts : [Paras -> Texts \cup {NoText}]]
Node == [type : NodeTypes, parent : Nat, position : Nat, text : Texts,
         vanish : Flag, comment : CommentStates]

ASSUME SizesAssumption == MaxParas \in Nat /\ MaxVersion \in Nat
ASSUME TextsAssumption == /\ CommentText \in Texts
                          /\ Unresolved \subseteq Texts
                          /\ NoText \notin Texts
ASSUME ScopesAssumption == Scopes \subseteq SUBSET Specs
ASSUME NoRowAssumption == NoRow \notin ParaRow
(* flattenDfs: a node follows its parent, siblings are numbered from 1, and *)
(* an objectText is the child of an object.  A document may have no nodes.  *)
ASSUME DocumentsAssumption ==
    \A doc \in Documents :
        /\ doc.title \in Titles
        /\ doc.nodes \in Seq(Node)
        /\ \A i \in 1..Len(doc.nodes) :
              /\ doc.nodes[i].parent < i
              /\ \A j \in 1..Len(doc.nodes) :
                    i # j /\ doc.nodes[i].parent = doc.nodes[j].parent
                        => doc.nodes[i].position # doc.nodes[j].position

VARIABLES
    spec,         \* specs: id -> row; content_version 0 means there is no row
    para,         \* paragraphs: id -> row or NoRow
    drawn,        \* how many paragraph uuids have been drawn
    hist,         \* paragraph_versions
    sealed        \* checkpoints.content_version_map, one row per spec sealed

vars == <<spec, para, drawn, hist, sealed>>

-----------------------------------------------------------------------------
(* Reading the tables. *)

Exists(s) == spec[s].contentVersion > 0
Live(p) == para[p] # NoRow
InSpec(p, s) == Live(p) /\ para[p].spec = s
Rows(s) == {p \in Paras : InSpec(p, s)}

(* Notes materialised from the comment of paragraph p, whatever spec they  *)
(* are in: findExistingNoteByProvenance has no spec_id in its WHERE.       *)
NotesFrom(p) == {n \in Paras : Live(n) /\ para[n].type = "note" /\ para[n].acceptedFrom = p}

(* A row and all it hangs below.  A parent is drawn before its children, so *)
(* this recursion ends.                                                     *)
Lineage[p \in Paras] ==
    {p} \cup IF Live(p) /\ para[p].parent \in 1..(p - 1) THEN Lineage[para[p].parent] ELSE {}

(* A paragraph an owner has removed from the document, or Word had hidden.  *)
RemovedRoot(p) == para[p].vanish /\ para[p].type # "note"

AssertSpecWritable_Archived(s, expectedVersion) ==    \* mutant: no lifecycle check
    /\ Exists(s)
    /\ spec[s].external = "editable"
    /\ expectedVersion \in {Unconditional, spec[s].contentVersion}

AssertSpecWritable(s, expectedVersion) ==
    /\ Exists(s)
    /\ spec[s].lifecycle # "archived"
    /\ spec[s].external = "editable"
    /\ expectedVersion \in {Unconditional, spec[s].contentVersion}

(* The id a row is inserted under. *)
IsNextId(p) == p = drawn + 1 /\ p \in Paras

-----------------------------------------------------------------------------
(* Writing the tables. *)

(* The history row of a write that leaves `row' behind, in the generation   *)
(* the write's own bump is about to open.                                   *)
Snapshot(p, row, contentVersion) ==
    [para |-> p, spec |-> row.spec, version |-> row.baseVersion,
     text |-> row.text, contentVersion |-> contentVersion]

(* ON CONFLICT (paragraph_id, version) DO NOTHING *)
Record(h, e) ==
    IF \E f \in h : f.para = e.para /\ f.version = e.version THEN h ELSE h \cup {e}

BumpSpecContentVersion_Skipped(s) == UNCHANGED spec    \* mutant: no bump
BumpSpecContentVersion_PerRow(s) ==                    \* mutant: a bump per row touched
    /\ spec[s].contentVersion + 2 <= MaxVersion
    /\ spec' = [spec EXCEPT ![s].contentVersion = @ + 2]

Bumped(row) == [row EXCEPT !.contentVersion = @ + 1]

BumpSpecContentVersion(s) ==
    /\ spec[s].contentVersion < MaxVersion
    /\ spec' = [spec EXCEPT ![s] = Bumped(@)]

Retitled(row, title) == [row EXCEPT !.title = title]

NextGeneration_PreBump(s) == spec[s].contentVersion    \* mutant: the version the gate read
NextGeneration(s) == spec[s].contentVersion + 1

(* The tail every single-paragraph handler shares: the row, its snapshot,   *)
(* one bump, COMMIT.                                                        *)
CommitRow(s, p, row) ==
    /\ para' = [para EXCEPT ![p] = row]
    /\ hist' = Record(hist, Snapshot(p, row, NextGeneration(s)))
    /\ BumpSpecContentVersion(s)
    /\ UNCHANGED <<drawn, sealed>>

(* Every effective write of a paragraph advances its base_version by one.   *)
Touched(row) == [row EXCEPT !.baseVersion = @ + 1]

(* deriveNextSourceFacts: the choice tokens of the new text. *)
Rederived_Raw(row, t) == [row EXCEPT !.unresolved = t]    \* mutant: the text, not a flag
Rederived(row, t) == [row EXCEPT !.unresolved = t \in Unresolved]

(* rewriteObjectTextIfNeeded: the parent's captured blob follows the text.  *)
BlobRewritten_Kept(row, t) == row    \* mutant: the blob keeps the old text
BlobRewritten(row, t) == IF row.type = "objectText" THEN [row EXCEPT !.blob = t] ELSE row

Retexted(row, t) == BlobRewritten([row EXCEPT !.text = t], t)
Edited(row, t) == Touched(Rederived(Retexted(row, t), t))
Vanished(row, v) == Touched([row EXCEPT !.vanish = v])
Acknowledged(row, a) == Touched([row EXCEPT !.acknowledged = a])
CommentSet(row, c) == Touched([row EXCEPT !.comment = c])

(* A row as INSERT leaves it, next to the anchor: source_facts {},          *)
(* base_version 1 and every flag at its column default.                     *)
SiblingOf(anchor, type, t) ==
    [spec |-> anchor.spec, parent |-> anchor.parent, position |-> anchor.position + 1,
     type |-> type, text |-> t, unresolved |-> FALSE, baseVersion |-> 1,
     vanish |-> FALSE, acknowledged |-> FALSE, comment |-> "none",
     acceptedFrom |-> NoPara, blob |-> NoText]

(* Make room after the anchor among its siblings. *)
ShiftedAfter_NoShift(rows, anchor) == rows    \* mutant: later siblings stay
ShiftedAfter(rows, anchor) ==
    [q \in Paras |->
        IF /\ rows[q] # NoRow
           /\ rows[q].spec = anchor.spec
           /\ rows[q].parent = anchor.parent
           /\ rows[q].position > anchor.position
        THEN [rows[q] EXCEPT !.position = @ + 1]
        ELSE rows[q]]

(* A sibling must repeat the anchor's type, unless it is a continuation or  *)
(* the anchor carries no tier; nothing is inserted beside a part.           *)
InsertableAfter(anchor, type) ==
    /\ anchor.type # "part"
    /\ type \in BodyTypes \cup {"article"}
    /\ \/ type = anchor.type
       \/ type = "continuation"
       \/ anchor.type \in {"note", "continuation"}

Acknowledgeable(row) == row.type \in {"note", "textBox"}

-----------------------------------------------------------------------------
(* The handlers. *)

(* persistParsedSpec: a first import creates the spec, a later one replaces *)
(* every paragraph of it; the edit gate is not called.  paragraph_versions  *)
(* rows go with their paragraph (ON DELETE CASCADE).                        *)
ImportedRow(s, doc, first, i) ==
    LET n == doc.nodes[i]
    IN [spec |-> s, parent |-> IF n.parent = 0 THEN NoPara ELSE first + n.parent,
        position |-> n.position, type |-> n.type, text |-> n.text,
        unresolved |-> n.text \in Unresolved, baseVersion |-> 1,
        vanish |-> n.vanish, acknowledged |-> FALSE, comment |-> n.comment,
        acceptedFrom |-> NoPara,
        blob |-> IF n.type = "objectText" THEN n.text ELSE NoText]

PersistParsedSpec(s, doc) ==
    /\ drawn + Len(doc.nodes) <= MaxParas
    /\ spec[s].contentVersion < MaxVersion
    /\ spec' = [spec EXCEPT ![s] = Bumped(Retitled(@, doc.title))]
    /\ para' = [p \in Paras |->
                   IF p \in drawn + 1 .. drawn + Len(doc.nodes)
                   THEN ImportedRow(s, doc, drawn, p - drawn)
                   ELSE IF InSpec(p, s) THEN NoRow ELSE para[p]]
    /\ drawn' = drawn + Len(doc.nodes)
    /\ hist' = {e \in hist : ~InSpec(e.para, s)}
    /\ UNCHANGED sealed

(* updateSpec: one UPDATE of the number, the title or both, without the     *)
(* edit gate.                                                               *)
UpdateSpec(s, title) ==
    /\ Exists(s)
    /\ title # spec[s].title
    /\ spec[s].contentVersion < MaxVersion
    /\ spec' = [spec EXCEPT ![s] = Bumped(Retitled(@, title))]
    /\ UNCHANGED <<para, drawn, hist, sealed>>

UpdateParagraphText(s, p, t, expectedVersion) ==
    /\ AssertSpecWritable(s, expectedVersion)
    /\ InSpec(p, s)
    /\ para[p].type \notin ObjectTypes
    /\ CommitRow(s, p, Edited(para[p], t))

InsertParagraphAfter(s, a, type, t, expectedVersion) ==
    /\ AssertSpecWritable(s, expectedVersion)
    /\ InSpec(a, s)
    /\ InsertableAfter(para[a], type)
    /\ \E p \in Paras :
          LET row == SiblingOf(para[a], type, t) IN
          /\ IsNextId(p)
          /\ para' = [ShiftedAfter(para, para[a]) EXCEPT ![p] = row]
          /\ drawn' = p
          /\ hist' = Record(hist, Snapshot(p, row, NextGeneration(s)))
    /\ BumpSpecContentVersion(s)
    /\ UNCHANGED sealed

(* The three toggles: asking for the value the row already has writes       *)
(* nothing, and none of them takes an expected version.                     *)
SetParagraphVanish(s, p, vanish) ==
    /\ AssertSpecWritable(s, Unconditional)
    /\ InSpec(p, s)
    /\ para[p].type \in BodyTypes
    /\ para[p].vanish # vanish
    /\ CommitRow(s, p, Vanished(para[p], vanish))

SetParagraphAcknowledged(s, p, acknowledged) ==
    /\ AssertSpecWritable(s, Unconditional)
    /\ InSpec(p, s)
    /\ Acknowledgeable(para[p])
    /\ para[p].acknowledged # acknowledged
    /\ CommitRow(s, p, Acknowledged(para[p], acknowledged))

SetParagraphCommentClosed(s, p, closed) ==
    /\ AssertSpecWritable(s, Unconditional)
    /\ InSpec(p, s)
    /\ para[p].comment # "none"
    /\ (para[p].comment = "closed") # closed
    /\ CommitRow(s, p, CommentSet(para[p], IF closed THEN "closed" ELSE "open"))

(* The provenance look-up that makes a repeated accept a no-op. *)
NotYetAccepted_Unchecked(p) == TRUE    \* mutant: every accept inserts
NotYetAccepted(p) == NotesFrom(p) = {}

(* acceptCommentAsNote: the note and the closure of the comment it came     *)
(* from are one transaction and one generation.                             *)
NoteFrom(p, anchor) == [SiblingOf(anchor, "note", CommentText) EXCEPT !.acceptedFrom = p]
ClosedByAccept(row) == IF row.comment = "closed" THEN row ELSE CommentSet(row, "closed")

AcceptCommentAsNote(s, p) ==
    /\ InSpec(p, s)
    /\ NotYetAccepted(p)
    /\ AssertSpecWritable(s, Unconditional)
    /\ para[p].comment # "none"
    /\ \E n \in Paras :
          LET note == NoteFrom(p, para[p])
              anchor == ClosedByAccept(para[p])
              noted == Record(hist, Snapshot(n, note, NextGeneration(s)))
          IN /\ IsNextId(n)
             /\ para' = [ShiftedAfter(para, para[p]) EXCEPT ![p] = anchor, ![n] = note]
             /\ drawn' = n
             /\ hist' = IF anchor = para[p] THEN noted
                        ELSE Record(noted, Snapshot(p, anchor, NextGeneration(s)))
    /\ BumpSpecContentVersion(s)
    /\ UNCHANGED sealed

(* createCheckpoint reads the versions in the statement that seals them. *)
CreateCheckpoint(c, scope) ==
    /\ \A r \in sealed : r.id # c
    /\ \E s \in scope : Exists(s)
    /\ sealed' = sealed \cup
          {[id |-> c, spec |-> s, contentVersion |-> spec[s].contentVersion,
            texts |-> [p \in Paras |-> IF InSpec(p, s) THEN para[p].text ELSE NoText]] :
             s \in {x \in scope : Exists(x)}}
    /\ UNCHANGED <<spec, para, drawn, hist>>

(* findSealedText: the latest snapshot at or before the cutoff (ORDER BY    *)
(* content_version DESC, version DESC LIMIT 1), if there is one.            *)
SealedSnapshots(p, s, cutoff) ==
    LET rows == {e \in hist : e.para = p /\ e.spec = s /\ e.contentVersion <= cutoff}
    IN {e \in rows : \A f \in rows :
           \/ f.contentVersion < e.contentVersion
           \/ f.contentVersion = e.contentVersion /\ f.version <= e.version}

-----------------------------------------------------------------------------
(* Nothing under src/ archives a spec or changes its upstream state: an     *)
(* operator (archive) and a connector (external state) do.                  *)
SetLifecycle(s, state) ==
    /\ Exists(s)
    /\ state # spec[s].lifecycle
    /\ spec' = [spec EXCEPT ![s].lifecycle = state]
    /\ UNCHANGED <<para, drawn, hist, sealed>>

SetExternalState(s, state) ==
    /\ Exists(s)
    /\ state # spec[s].external
    /\ spec' = [spec EXCEPT ![s].external = state]
    /\ UNCHANGED <<para, drawn, hist, sealed>>

Init ==
    /\ spec = [s \in Specs |-> [title |-> NoText, lifecycle |-> "draft",
                                external |-> "editable", contentVersion |-> 0]]
    /\ para = [p \in Paras |-> NoRow]
    /\ drawn = 0
    /\ hist = {}
    /\ sealed = {}

(* What one request may do to spec s. *)
Write(s) ==
    \/ \E doc \in Documents : PersistParsedSpec(s, doc)
    \/ \E title \in Titles : UpdateSpec(s, title)
    \/ \E p \in Paras, t \in Texts, v \in {Unconditional, spec[s].contentVersion} :
          UpdateParagraphText(s, p, t, v)
    \/ \E a \in Paras, type \in NodeTypes, t \in Texts,
          v \in {Unconditional, spec[s].contentVersion} :
          InsertParagraphAfter(s, a, type, t, v)
    \/ \E p \in Paras, b \in Flag : SetParagraphVanish(s, p, b)
    \/ \E p \in Paras, b \in Flag : SetParagraphAcknowledged(s, p, b)
    \/ \E p \in Paras, b \in Flag : SetParagraphCommentClosed(s, p, b)
    \/ \E p \in Paras : AcceptCommentAsNote(s, p)

Environment(s) ==
    \/ \E state \in {"draft", "archived"} : SetLifecycle(s, state)
    \/ \E state \in ExternalStates : SetExternalState(s, state)

Next ==
    \/ \E s \in Specs : Write(s) \/ Environment(s)
    \/ \E c \in Checkpoints, scope \in Scopes : CreateCheckpoint(c, scope)

Spec == Init /\ [][Next]_vars

-----------------------------------------------------------------------------
(* Invariants. *)

(* The tables have their column types; only drawn uuids name rows. *)
TypeOK ==
    /\ spec \in [Specs -> SpecRow]
    /\ para \in [Paras -> ParaRow \cup {NoRow}]
    /\ drawn \in 0..MaxParas
    /\ hist \subseteq VersionRow
    /\ sealed \subseteq SealRow
    /\ \A p \in Paras : p > drawn => para[p] = NoRow

(* The history of a paragraph is gapless up to its base_version (only the   *)
(* version 1 of an imported row has no snapshot) and its last snapshot is   *)
(* the text the row holds: the ON CONFLICT DO NOTHING of                    *)
(* recordParagraphHistory never swallows a write.                           *)
HistoryTracksRows ==
    /\ \A e \in hist : /\ InSpec(e.para, e.spec)
                       /\ e.version \in 1..para[e.para].baseVersion
                       /\ e.version = para[e.para].baseVersion => e.text = para[e.para].text
    /\ \A p \in Paras : Live(p) =>
          \A v \in 2..para[p].baseVersion : \E e \in hist : e.para = p /\ e.version = v

(* ADR-052 D3 joins history to checkpoints on content_version: along one    *)
(* paragraph the two version numbers must rise together and no snapshot may *)
(* claim a generation its spec has not reached.                             *)
HistoryOrdered ==
    /\ \A e \in hist : e.contentVersion \in 1..spec[e.spec].contentVersion
    /\ \A e, f \in hist : e.para = f.para /\ e.version < f.version
                             => e.contentVersion < f.contentVersion

(* The two together: a paragraph's history misses nothing and its two        *)
(* version numbers tell the same story.                                      *)
HistoryIsSound == HistoryTracksRows /\ HistoryOrdered

(* What reject-to-checkpoint restores, when it restores anything, is the    *)
(* text the paragraph held when the checkpoint was sealed, whatever was     *)
(* written before or since.                                                 *)
SealedTextIsExact ==
    \A r \in sealed :
        /\ r.contentVersion <= spec[r.spec].contentVersion
        /\ \A p \in Paras : \A e \in SealedSnapshots(p, r.spec, r.contentVersion) :
              e.text = r.texts[p]

(* DOCX regeneration reads an object from its captured blob, never from     *)
(* paragraphs.text (#519, #520): the two must not drift apart.              *)
BlobMirrorsText ==
    \A p \in Paras : Live(p) /\ para[p].type = "objectText" => para[p].blob = para[p].text

(* Siblings never share a position, so document order is a total order.     *)
SiblingPositionsDistinct ==
    \A p, q \in Paras :
        /\ p # q /\ Live(p) /\ Live(q)
        /\ para[p].spec = para[q].spec
        /\ para[p].parent = para[q].parent
        => para[p].position # para[q].position

(* A source comment becomes at most one note, and the note stands in the    *)
(* spec, and under the parent, of the paragraph it was accepted from.       *)
OneNotePerComment ==
    \A n \in Paras : Live(n) /\ para[n].acceptedFrom # NoPara =>
        LET a == para[n].acceptedFrom IN
        /\ NotesFrom(a) = {n}
        /\ InSpec(a, para[n].spec)
        /\ para[a].parent = para[n].parent
        /\ para[a].comment # "none"

-----------------------------------------------------------------------------
(* Action properties. *)

(* A paragraph of an archived or upstream-governed spec is never edited in  *)
(* place: it stays as it is until a re-import discards it whole.            *)
Governed(s) == spec[s].lifecycle = "archived" \/ spec[s].external # "editable"
GovernedRowsFrozen ==
    [][\A s \in Specs : Governed(s) =>
          \A p \in Rows(s) : para'[p] \in {para[p], NoRow}]_vars

-----------------------------------------------------------------------------
(* The abstract store of versioned specs that the tables implement. *)
Abstract == INSTANCE VersionedSpecs WITH
    title <- [s \in Specs |-> spec[s].title],
    body <- [s \in Specs |-> [p \in Rows(s) |-> para[p]]],
    token <- [s \in Specs |-> spec[s].contentVersion],
    governed <- [s \in Specs |-> Governed(s)],
    seals <- {[id |-> r.id, spec |-> r.spec, token |-> r.contentVersion] : r \in sealed}

(* ADR-018: every handler, whatever rows it writes in however many          *)
(* statements, is one step of that store or none: an edit of an open spec,  *)
(* a new title, a replacement of the whole body, a seal of the generation   *)
(* that is current.  So content_version, the token of optimistic            *)
(* concurrency and drift, moves by one when what a spec says does or an     *)
(* import replaces it, and never otherwise.                                 *)
ImplementsVersionedSpecs == Abstract!Spec
=============================================================================
