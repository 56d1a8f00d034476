----------------------------- MODULE ProjectCopy -----------------------------
(***************************************************************************)
(* The sections of a project (ADR-015 D2, D3): a section is added by cloning *)
(* the master spec that holds it, and removed by deleting the clone, while   *)
(* writers edit, retitle and renumber masters and copies and other sections  *)
(* come and go.                                                              *)
(*                                                                         *)
(* addSectionToProject is one transaction, but READ COMMITTED: each of its   *)
(* statements sees what is committed when it starts.  So its statements are  *)
(* steps here, and what they write shows at COMMIT.  Its foreign keys take   *)
(* KEY SHARE locks as it goes, which keep out whoever takes a row FOR UPDATE *)
(* (the edit gate, removal) and whoever deletes a row it refers to.          *)
(*                                                                         *)
(* Abstractions: one project and one library, so the priority list of its    *)
(* sources and withdrawal are left out; a master cites the same sections in  *)
(* every import, and its references are one per section cited; the division  *)
(* general spec, which nothing here reads, has a module.                     *)
(***************************************************************************)
EXTENDS SpecStore, FiniteSetsExt

CONSTANTS
    Masters,      \* the specs that are library masters; the others are copies
    Numbers,      \* section numbers
    NumberOf,     \* what names a spec -> the number in it (specs.section)
    Cites,        \* master -> the numbers its references name
    Requests,     \* the addSectionToProject calls that may come
    NoSpec,       \* SQL NULL in target_spec_id
    NoCopy        \* no project_specs row

Copies == Specs \ Masters

ASSUME MastersAssumption == Masters \subseteq Specs
ASSUME NumbersAssumption == NumberOf \in [Titles -> Numbers]
ASSUME CitesAssumption == Cites \in [Masters -> SUBSET Numbers]
ASSUME NoSpecAssumption == NoSpec \notin Specs

(* A project_specs row.  The last three are history fields: the number that  *)
(* the call asked for, the numbers of the calls it met (see StartAdd), and   *)
(* every number the copy was asked for or has carried.                       *)
TocRow == [of : Masters, originVersion : Nat, position : Nat,
           asked : Numbers, met : SUBSET Numbers, carried : SUBSET Numbers]
ASSUME NoCopyAssumption == NoCopy \notin TocRow

VARIABLES
    toc,          \* project_specs and a copy's lineage columns: copy -> row or NoCopy
    origin,       \* paragraphs.origin_paragraph_id
    refs,         \* spec_references of the project's copies
    packaged,     \* package_specs: the copies that are in some package
    add           \* what each call's transaction has read and written

projectVars == <<toc, origin, refs, packaged, add>>
allVars == <<vars, projectVars>>

InToc(c) == toc[c] # NoCopy
Number(s) == NumberOf[spec[s].title]
CopyOf(n) == {c \in Copies : InToc(c) /\ Number(c) = n}

Idle == [phase |-> "new"]
Holding == {"held", "cloned", "cited", "listed"}    \* a specs row is inserted
Open == {r \in Requests : add[r].phase \in {"resolved", "reading"} \cup Holding}
Holders == {r \in Requests : add[r].phase \in Holding}
Clones(t) == NumberOf[t.title]    \* the number on the row that a call clones

(* The specs rows that an open call holds FOR KEY SHARE: its clone's parent, *)
(* and the copies its references point to.                                   *)
Shared(r) == {add[r].of} \cup {e.target : e \in add[r].refs}
KeyShared == UNION {Shared(r) : r \in Holders}

-----------------------------------------------------------------------------
(* addSectionToProject, statement by statement. *)

(* BEGIN and resolveSection: the master that has the number asked for.       *)
(* `met' is a history field: the numbers asked for by the calls that were    *)
(* open together with this one.                                              *)
StartAdd(r, m) ==
    /\ add[r] = Idle
    /\ Exists(m)
    /\ add' = [x \in Requests |->
                 IF x = r
                 THEN [phase |-> "resolved", asked |-> Number(m), of |-> m,
                       met |-> {add[o].asked : o \in Open},
                       title |-> NoText, version |-> 0, id |-> NoSpec, rows |-> <<>>,
                       refs |-> {}, repaired |-> {}, position |-> 0]
                 ELSE IF x \in Open THEN [add[x] EXCEPT !.met = @ \cup {Number(m)}] ELSE add[x]]
    /\ UNCHANGED <<vars, toc, origin, refs, packaged>>

(* The SELECT of cloneSpecRow: the master's row as it is by now, which may   *)
(* have another number.  Then it comes to the foreign key and the unique     *)
(* index, and may have to wait there.                                        *)
ReadMaster(r) ==
    /\ add[r].phase = "resolved"
    /\ add' = [add EXCEPT ![r].phase = "reading",
                          ![r].title = spec[add[r].of].title,
                          ![r].version = spec[add[r].of].contentVersion]
    /\ UNCHANGED <<vars, toc, origin, refs, packaged>>

(* ROLLBACK, whatever failed. *)
Failed(r) ==
    /\ add' = [add EXCEPT ![r] = [phase |-> "failed"]]
    /\ UNCHANGED <<vars, toc, origin, refs, packaged>>

(* The INSERT of cloneSpecRow goes through: nobody else is inserting a copy  *)
(* with the number.  UNIQUE (section, project_id) refuses a second one.      *)
CloneSpecRow(r) ==
    /\ add[r].phase = "reading"
    /\ \A o \in Holders : Clones(add[o]) # Clones(add[r])
    /\ IF CopyOf(Clones(add[r])) # {}
       THEN Failed(r)
       ELSE /\ \E c \in Copies :
                  /\ ~InToc(c) /\ \A o \in Holders : add[o].id # c
                  /\ add' = [add EXCEPT ![r].phase = "held", ![r].id = c]
            /\ UNCHANGED <<vars, toc, origin, refs, packaged>>

(* The UUID-map CTE: the rows of a spec get ids in the order they are drawn. *)
NewId(m, q) == IF q = NoPara THEN NoPara ELSE drawn + Cardinality({x \in Rows(m) : x <= q})

(* The columns the clone statement names.  object_data is not among them:    *)
(* the captured blob is gone, and with it the object's kind (an object       *)
(* without one passes the guards a table passes).  Nor is acknowledgement.   *)
(* source_facts, the comment and a note's provenance, goes over as it is.    *)
Uncaptured(row) ==
    [row EXCEPT !.acknowledged = FALSE, !.blob = NoText,
                !.type = IF @ \in ObjectTypes THEN "table" ELSE @]
ClonedRow_SameParent(c, m, q) ==    \* mutant: parent_id not remapped
    [Uncaptured(para[q]) EXCEPT !.spec = c]
ClonedRow(c, m, q) ==
    [Uncaptured(para[q]) EXCEPT !.spec = c, !.parent = NewId(m, para[q].parent)]

CloneParagraphs(r) ==
    LET m == add[r].of
        ids == {NewId(m, q) : q \in Rows(m)}
        source == [p \in ids |-> CHOOSE q \in Rows(m) : NewId(m, q) = p]
    IN /\ add[r].phase = "held"
       /\ drawn + Cardinality(ids) <= MaxParas
       /\ add' = [add EXCEPT ![r].phase = "cloned",
                    ![r].rows = [p \in ids |-> [row |-> ClonedRow(add[r].id, m, source[p]),
                                                origin |-> source[p]]]]
       /\ drawn' = drawn + Cardinality(ids)
       /\ UNCHANGED <<spec, para, hist, sealed, toc, origin, refs, packaged>>

(* cloneRefs: a number that one of the project's specs has, this copy        *)
(* included, resolves; any other is broken.  `lapsed' is a history field,    *)
(* see UnresolvedRef.                                                        *)
ClonedRef(r, cited) ==
    LET found == CopyOf(cited) \cup (IF cited = Clones(add[r]) THEN {add[r].id} ELSE {})
    IN [source |-> add[r].id, cites |-> cited, broken |-> found = {}, lapsed |-> FALSE,
        target |-> IF found = {} THEN NoSpec ELSE CHOOSE c \in found : TRUE]

CloneRefs(r) ==
    /\ add[r].phase = "cloned"
    /\ add' = [add EXCEPT ![r].phase = "cited",
                          ![r].refs = {ClonedRef(r, cited) : cited \in Cites[add[r].of]}]
    /\ UNCHANGED <<vars, toc, origin, refs, packaged>>

(* insertTocEntry: the position after the last, refused when another call    *)
(* has inserted the same one, and the references that waited for the number  *)
(* asked for, whatever number the clone has.                                 *)
NextPosition == Max({0} \cup {toc[c].position : c \in {x \in Copies : InToc(x)}}) + 1
Waiting_None(n) == {}    \* mutant: the repairing UPDATE is left out
Waiting(n) == {e \in refs : e.cites = n /\ e.broken}

InsertTocEntry(r) ==
    /\ add[r].phase = "cited"
    /\ IF \E o \in Requests : add[o].phase = "listed" /\ add[o].position = NextPosition
       THEN Failed(r)
       ELSE /\ add' = [add EXCEPT ![r].phase = "listed", ![r].position = NextPosition,
                                  ![r].repaired = Waiting(add[r].asked)]
            /\ UNCHANGED <<vars, toc, origin, refs, packaged>>

(* origin_version: the content_version that cloneSpecRow read.               *)
OriginVersion_AtCommit(r) == spec[add[r].of].contentVersion    \* mutant: read last
OriginVersion(r) == add[r].version

(* The clone's specs row: content_version starts anew.                       *)
CopyRow(t) ==
    [title |-> t.title, lifecycle |-> "draft", external |-> "editable", contentVersion |-> 1]

(* A reference that another call has repaired in the meantime, whose row lock *)
(* this one waited for, is broken no more and is left alone.                 *)
CommitAdd(r) ==
    LET t == add[r]
        ids == DOMAIN t.rows
        repaired == t.repaired \cap refs
    IN /\ t.phase = "listed"
       /\ spec' = [spec EXCEPT ![t.id] = CopyRow(t)]
       /\ para' = [p \in Paras |-> IF p \in ids THEN t.rows[p].row ELSE para[p]]
       /\ origin' = [p \in Paras |-> IF p \in ids THEN t.rows[p].origin ELSE origin[p]]
       /\ toc' = [toc EXCEPT ![t.id] = [of |-> t.of, originVersion |-> OriginVersion(r),
                                        position |-> t.position, asked |-> t.asked, met |-> t.met,
                                        carried |-> {t.asked, Clones(t)}]]
       /\ refs' = (refs \ repaired) \cup t.refs
                     \cup {[e EXCEPT !.target = t.id, !.broken = FALSE] : e \in repaired}
       /\ add' = [add EXCEPT ![r] = [phase |-> "added"]]
       /\ UNCHANGED <<drawn, hist, sealed, packaged>>

AddStep(r) ==
    \/ ReadMaster(r) \/ CloneSpecRow(r) \/ CloneParagraphs(r)
    \/ CloneRefs(r) \/ InsertTocEntry(r) \/ CommitAdd(r)
    \/ r \in Open /\ Failed(r)    \* a statement fails

-----------------------------------------------------------------------------
(* removeSectionFromProject.  Its FOR UPDATE waits for calls that refer to   *)
(* the copy, its DELETE for calls that repair a reference of the copy, and   *)
(* then nobody else reaches the rows it writes: one step.                    *)
Blocked(c, force) ==
    \/ ~force /\ spec[c].contentVersion > 1
    \/ c \in packaged

(* markIncomingRefsBroken, and what ON DELETE SET NULL does to the target.   *)
(* `lapsed' is a history field: the copy had another number by then, so that *)
(* one with the number cited may be there and stay there.                    *)
UnresolvedRef(e, c) ==
    IF e.target = c
    THEN [e EXCEPT !.target = NoSpec, !.broken = TRUE, !.lapsed = Number(c) # e.cites]
    ELSE e

RemoveSection(c, force) ==
    /\ InToc(c)
    /\ c \notin KeyShared
    /\ \A r \in Holders : \A e \in add[r].repaired : e.source # c
    /\ ~Blocked(c, force)
    /\ refs' = {UnresolvedRef(e, c) : e \in {x \in refs : x.source # c}}
    /\ toc' = [toc EXCEPT ![c] = NoCopy]
    /\ spec' = [spec EXCEPT ![c] = [title |-> NoText, lifecycle |-> "draft",
                                    external |-> "editable", contentVersion |-> 0]]
    /\ para' = [p \in Paras |-> IF InSpec(p, c) THEN NoRow ELSE para[p]]
    /\ origin' = [p \in Paras |-> IF InSpec(p, c) THEN NoPara ELSE origin[p]]
    /\ hist' = {e \in hist : e.spec # c}
    /\ UNCHANGED <<drawn, sealed, packaged, add>>

(* setPackageSpecs of some package of the project. *)
SetPackageSpecs(members) ==
    /\ members # packaged
    /\ \A c \in members : InToc(c)
    /\ packaged' = members
    /\ UNCHANGED <<vars, toc, origin, refs, add>>

-----------------------------------------------------------------------------
(* The writers of SpecStore.  An import finds its spec by the number.  It    *)
(* deletes a master's paragraphs, which waits for the calls that have cloned *)
(* them; a copy's origin is SET NULL.                                        *)
Import(m, doc) ==
    /\ \A x \in Masters : Exists(x) => (x = m <=> Number(x) = NumberOf[doc.title])
    /\ \A r \in Requests : add[r].phase \in Holding \ {"held"} => add[r].of # m
    /\ PersistParsedSpec(m, doc)
    /\ origin' = [p \in Paras |-> IF origin[p] # NoPara /\ InSpec(origin[p], m)
                                  THEN NoPara ELSE origin[p]]
    /\ UNCHANGED <<toc, refs, packaged, add>>

(* A new title, a new number or both, without the gate.  The unique indexes  *)
(* refuse a number that another master, or another copy, has, and make it    *)
(* wait for a call that is inserting one.  spec_references stay as they are. *)
Taken(s, n) ==
    \/ s \in Masters /\ \E m \in Masters \ {s} : Exists(m) /\ Number(m) = n
    \/ s \in Copies /\ (CopyOf(n) \ {s} # {} \/ \E r \in Holders : Clones(add[r]) = n)
Rename(s, title) ==
    /\ ~Taken(s, NumberOf[title])
    /\ UpdateSpec(s, title)
    /\ toc' = [c \in Copies |-> IF c = s /\ InToc(c)
                                THEN [toc[c] EXCEPT !.carried = @ \cup {NumberOf[title]}]
                                ELSE toc[c]]
    /\ UNCHANGED <<origin, refs, packaged, add>>

(* An edit, or an accepted comment, goes by way of the gate, whose FOR       *)
(* UPDATE waits for the calls that share the row.                            *)
Writer(s) ==
    /\ s \notin KeyShared
    /\ \/ \E p \in Paras, t \in Texts : UpdateParagraphText(s, p, t, Unconditional)
       \/ \E p \in Paras : AcceptCommentAsNote(s, p)
    /\ UNCHANGED projectVars

ProjectInit ==
    /\ Init
    /\ toc = [c \in Copies |-> NoCopy]
    /\ origin = [p \in Paras |-> NoPara]
    /\ refs = {}
    /\ packaged = {}
    /\ add = [r \in Requests |-> Idle]

ProjectNext ==
    \/ \E m \in Masters, doc \in Documents : Import(m, doc)
    \/ \E s \in Specs : Writer(s) \/ \E title \in Titles : Rename(s, title)
    \/ \E r \in Requests : AddStep(r) \/ \E m \in Masters : StartAdd(r, m)
    \/ \E c \in Copies, force \in Flag : RemoveSection(c, force)
    \/ \E members \in SUBSET Copies : SetPackageSpecs(members)

ProjectSpec == ProjectInit /\ [][ProjectNext]_allVars

-----------------------------------------------------------------------------
(* Properties. *)

(* A copy nobody has edited, whose master still has the content_version the  *)
(* copy was taken at: what the lineage view shows as neither edited nor      *)
(* behind.                                                                   *)
Clean(c) ==
    /\ InToc(c)
    /\ spec[c].contentVersion = 1
    /\ spec[toc[c].of].contentVersion = toc[c].originVersion

(* Row by row, up to the ids, through a column view `v' of the rows.         *)
Mirrors(c, v) ==
    LET m == toc[c].of IN
    /\ {origin[p] : p \in Rows(c)} = Rows(m)
    /\ \A p, q \in Rows(c) : origin[p] = origin[q] => p = q
    /\ \A p \in Rows(c) : v[p] = v[origin[p]]

(* What the clone statement copies, the ids apart. *)
Copied == [p \in Paras |-> IF Live(p) THEN [Uncaptured(para[p]) EXCEPT !.spec = NoSpec, !.parent = NoPara]
                           ELSE NoRow]
(* All that a paragraph says, the ids apart. *)
Said == [p \in Paras |-> IF Live(p) THEN [para[p] EXCEPT !.spec = NoSpec, !.parent = NoPara]
                         ELSE NoRow]

(* ADR-015 D2: drift is never hidden.  A copy that is shown as neither edited *)
(* nor behind its master says what the master says, although the version,    *)
(* the paragraphs and the references were read by three statements among     *)
(* writers.                                                                  *)
DriftIsNeverHidden ==
    \A c \in Copies : Clean(c) =>
        spec[c].title = spec[toc[c].of].title /\ Mirrors(c, Copied)

(* A copy is a tree of its own that keeps the shape of its master: no row    *)
(* hangs below a row of another spec, and lineage commutes with parenthood,  *)
(* however master and copy were edited since.                                *)
CopiesKeepTheirShape ==
    \A c \in Copies : \A p \in Rows(c) :
        LET up == para[p].parent IN
        /\ up # NoPara => InSpec(up, c)
        /\ origin[p] # NoPara =>
              /\ InSpec(origin[p], toc[c].of)
              /\ para[origin[p]].parent = IF up = NoPara THEN NoPara ELSE origin[up]

(* A reference is broken exactly when it has no target, a target is a copy   *)
(* of the project's own that was asked for by the number cited or has        *)
(* carried it, and no copy goes while a package holds it (migration 020),    *)
(* forced or not.  No more than that: a copy that is given another number    *)
(* keeps the references it had.                                              *)
TargetsAreOwn ==
    /\ \A e \in refs :
          /\ InToc(e.source)
          /\ IF e.broken THEN e.target = NoSpec
             ELSE /\ e.target # NoSpec /\ InToc(e.target)
                  /\ e.cites \in toc[e.target].carried
    /\ \A c \in packaged : InToc(c)

(* References follow the table of contents: they resolve within the project, *)
(* and one stays broken, although a copy was added for its number and never  *)
(* had another, only when the two sections were being added at the same      *)
(* time, or when it had a target whose number was changed before it went.    *)
(* (A copy that is given the number later, or was asked for by it and has    *)
(* another, resolves nothing.)                                               *)
BrokenMeansAbsent(e, c) ==
    e.broken /\ InToc(c) => toc[c].carried # {e.cites}
ReferencesFollowToc ==
    /\ TargetsAreOwn
    /\ \A e \in refs : \A c \in Copies :
          \/ BrokenMeansAbsent(e, c)
          \/ e.cites \in toc[e.source].met
          \/ toc[e.source].asked \in toc[c].met
          \/ e.lapsed

-----------------------------------------------------------------------------
(* Claims of the documentation the code does not keep. *)

(* derive.ts: a reference to a section the project lacks is "repaired when   *)
(* the section is later added".                                              *)
ReferencesAreRepaired == \A e \in refs : \A c \in Copies : BrokenMeansAbsent(e, c)

(* derive.ts: the clone is "lossless by construction".                       *)
CloneIsLossless == \A c \in Copies : Clean(c) => Mirrors(c, Said)
=============================================================================
