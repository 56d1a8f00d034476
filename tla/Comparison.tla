----------------------------- MODULE Comparison -----------------------------
(***************************************************************************)
(* The comparison report (ADR-047, ADR-053, ADR-078): two sources are laid  *)
(* side by side, paragraph against paragraph.  A source is a spec as it is,  *)
(* or as a revision froze it.  Paragraphs are paired by lineage (`origin'),  *)
(* or by their place in the outline (`structure').                           *)
(*                                                                         *)
(* The specs compared here are a master and a copy of it, which writers      *)
(* edit, and a revision that has frozen the copy.  The report is not one     *)
(* transaction: it reads the paragraphs and then how far the copy is behind. *)
(*                                                                         *)
(* Abstractions: of the content store only what a comparison reads; rows of  *)
(* the matrix are a set, their order is layout; both specs have one section. *)
(***************************************************************************)
EXTENDS Integers, Sequences, FiniteSets

CONSTANTS
    Wordings,      \* paragraph texts
    Outlines,      \* what the master may say: sequences of [parent, position, type, text, vanish]
    MaxLines,      \* bound: how many paragraph uuids the database may draw
    MaxWrites,     \* bound: the writes to the two specs
    Absent         \* no paragraph, SQL NULL

Lines == 1..MaxLines
Master == "master"
Copy == "copy"

(* NodeType; "pr" is any of pr1 to pr7. *)
LineTypes == {"part", "article", "pr", "continuation", "note", "object", "objectText"}
LineRow == [spec : {Master, Copy}, parent : Lines \cup {Absent}, position : Int,
            type : LineTypes, text : Wordings, vanish : BOOLEAN,
            origin : Lines \cup {Absent}]
OutlineRow == [parent : Nat, position : Int, type : LineTypes, text : Wordings,
               vanish : BOOLEAN]

ASSUME LinesAssumption == MaxLines \in Nat /\ MaxWrites \in Nat
ASSUME AbsentAssumption == Absent \notin Lines /\ Absent \notin LineRow
(* flattenDfs: a node follows its parent.  And the bound leaves room for a    *)
(* master and its copy.                                                      *)
ASSUME OutlinesAssumption ==
    \A o \in Outlines :
        /\ o \in Seq(OutlineRow)
        /\ \A i \in 1..Len(o) : o[i].parent < i
        /\ 2 * Len(o) <= MaxLines

VARIABLES
    line,          \* paragraphs: id -> row or Absent
    drawnLines,    \* ids drawn
    generation,    \* specs.content_version
    frozen,        \* package_revision_specs.tree of the copy, or Absent
    report         \* a report on master and copy that is being built

comparisonVars == <<line, drawnLines, generation, frozen, report>>

LinesOf(s) == {p \in Lines : line[p] # Absent /\ line[p].spec = s}

-----------------------------------------------------------------------------
(* The sources. *)

OwnerRemoved(row) == row.vanish /\ row.type # "note"

(* Neither removed nor below a removed paragraph: WITH RECURSIVE removed. *)
Kept(rows) ==
    LET kept[p \in DOMAIN rows] ==
            /\ ~OwnerRemoved(rows[p])
            /\ rows[p].parent \in DOMAIN rows => kept[rows[p].parent]
    IN [p \in {q \in DOMAIN rows : kept[q]} |-> rows[p]]

Stands(rows, p, q) ==
    \/ rows[p].position < rows[q].position
    \/ rows[p].position = rows[q].position /\ p < q
Siblings(rows, p) == {q \in DOMAIN rows : rows[q].parent = rows[p].parent}

(* getComparisonParagraphs *)
LiveSource(s) == [spec |-> s, rows |-> Kept([p \in LinesOf(s) |-> line[p]])]

(* flattenSpecTree: what is removed goes first, then siblings are numbered   *)
(* from 0 in their order.  A revision frozen before #392 has no origins.     *)
FrozenSource ==
    LET rows == Kept(frozen.rows)
    IN [spec |-> Copy,
        rows |-> [p \in DOMAIN rows |->
                    [rows[p] EXCEPT
                        !.position = Cardinality({q \in Siblings(rows, p) : Stands(rows, q, p)}),
                        !.origin = IF frozen.embedded THEN @ ELSE Absent]]]

-----------------------------------------------------------------------------
(* The alignment of two sources, pair[1] and pair[2]. *)

(* originKeyerFor: within one spec the paragraph itself, across specs the     *)
(* paragraph it was cloned from, if any.                                     *)
SameSpec(pair) == pair[1].spec = pair[2].spec
OriginOrOwn(rows, p) == IF rows[p].origin # Absent THEN rows[p].origin ELSE p
OriginKeys_Always(pair, i) ==    \* mutant: by lineage within one spec too
    [p \in DOMAIN pair[i].rows |-> OriginOrOwn(pair[i].rows, p)]
OriginKeys(pair, i) ==
    [p \in DOMAIN pair[i].rows |-> IF SameSpec(pair) THEN p ELSE OriginOrOwn(pair[i].rows, p)]

(* computeStructuralKeys: the path of <<type, ordinal among its like>> from  *)
(* the root, over the rows of this source alone.                             *)
Ordinal(rows, p) ==
    Cardinality({q \in Siblings(rows, p) : rows[q].type = rows[p].type /\ Stands(rows, q, p)})
StructuralKeys(pair, i) ==
    LET rows == pair[i].rows
        address[p \in DOMAIN rows] ==
            Append(IF rows[p].parent \in DOMAIN rows THEN address[rows[p].parent] ELSE <<>>,
                   <<rows[p].type, Ordinal(rows, p)>>)
    IN address

KeySet(keys) == {keys[p] : p \in DOMAIN keys}

(* resolveAlignment; the sections of a master and its copies are the same.   *)
SharesOrigin(pair) == KeySet(OriginKeys(pair, 1)) \cap KeySet(OriginKeys(pair, 2)) # {}
AlignedBy(pair, requested) ==
    IF requested # "auto" THEN requested
    ELSE IF SharesOrigin(pair) THEN "origin" ELSE "structure"
Keys(pair, i, mode) ==
    IF mode = "origin" THEN OriginKeys(pair, i) ELSE StructuralKeys(pair, i)

(* buildSourceMap, cellFor: the first paragraph with the key. *)
Cell(source, keys, k) ==
    LET found == {p \in DOMAIN keys : keys[p] = k}
    IN IF found = {} THEN Absent
       ELSE CHOOSE p \in found : \A q \in found \ {p} : Stands(source.rows, p, q)

(* alignTrees: one row for each key. *)
Matrix(pair, requested) ==
    LET mode == AlignedBy(pair, requested)
        keys == <<Keys(pair, 1, mode), Keys(pair, 2, mode)>>
    IN {[key |-> k, cells |-> [i \in 1..2 |-> Cell(pair[i], keys[i], k)]] :
            k \in KeySet(keys[1]) \cup KeySet(keys[2])}

TextOf(pair, i, p) == pair[i].rows[p].text
IsIdentical(pair, row) ==
    /\ \A i \in 1..2 : row.cells[i] # Absent
    /\ TextOf(pair, 1, row.cells[1]) = TextOf(pair, 2, row.cells[2])

(* filterToDifferences, which is what the summary counts as differing. *)
Differing(pair, requested) == {row \in Matrix(pair, requested) : ~IsIdentical(pair, row)}

(* classifyState, with pair[1] the baseline. *)
State(pair, row) ==
    CASE row.cells[1] = Absent -> "added"
      [] row.cells[2] = Absent -> "removed"
      [] OTHER -> IF IsIdentical(pair, row) THEN "unchanged" ELSE "modified"

-----------------------------------------------------------------------------
(* What writers do to the two specs. *)

Writes(s) ==
    /\ generation[Master] + generation[Copy] < MaxWrites + 2
    /\ generation' = [generation EXCEPT ![s] = @ + 1]
    /\ UNCHANGED <<frozen, report>>

RewordLine(p, t) ==
    /\ line[p] # Absent /\ line[p].text # t
    /\ line' = [line EXCEPT ![p].text = t]
    /\ Writes(line[p].spec)
    /\ UNCHANGED drawnLines

RemoveLine(p, removed) ==
    /\ line[p] # Absent /\ line[p].type = "pr" /\ line[p].vanish # removed
    /\ line' = [line EXCEPT ![p].vanish = removed]
    /\ Writes(line[p].spec)
    /\ UNCHANGED drawnLines

(* A sibling after the anchor, of its type or a continuation, and the later   *)
(* ones make room.                                                           *)
AddLine(a, type) ==
    /\ line[a] # Absent
    /\ type = line[a].type \/ type = "continuation" \/ line[a].type # "pr"
    /\ drawnLines < MaxLines
    /\ drawnLines' = drawnLines + 1
    /\ line' = [p \in Lines |->
                  IF p = drawnLines'
                  THEN [line[a] EXCEPT !.position = @ + 1, !.type = type,
                                       !.vanish = FALSE, !.origin = Absent]
                  ELSE IF /\ line[p] # Absent /\ line[p].spec = line[a].spec
                          /\ line[p].parent = line[a].parent
                          /\ line[p].position > line[a].position
                       THEN [line[p] EXCEPT !.position = @ + 1] ELSE line[p]]
    /\ Writes(line[a].spec)

(* The master is imported again, with new paragraphs; the copy's rows that    *)
(* name the old ones forget them (ON DELETE SET NULL).                       *)
Imported(s, outline, first, origins) ==
    [p \in first..(first + Len(outline) - 1) |->
        LET n == outline[p - first + 1]
        IN [spec |-> s, parent |-> IF n.parent = 0 THEN Absent ELSE first + n.parent - 1,
            position |-> n.position, type |-> n.type, text |-> n.text, vanish |-> n.vanish,
            origin |-> IF origins THEN p - first + 1 ELSE Absent]]
ReimportMaster(outline) ==
    /\ drawnLines + Len(outline) <= MaxLines
    /\ drawnLines' = drawnLines + Len(outline)
    /\ LET new == Imported(Master, outline, drawnLines + 1, FALSE)
       IN line' = [p \in Lines |->
                     IF p \in DOMAIN new THEN new[p]
                     ELSE IF line[p] = Absent \/ line[p].spec = Master THEN Absent
                     ELSE [line[p] EXCEPT !.origin = Absent]]
    /\ Writes(Master)

(* A revision freezes the copy: snapshotMemberTrees, with embedOriginIds      *)
(* since #392.                                                               *)
FreezeCopy(embedded) ==
    /\ frozen = Absent
    /\ frozen' = [rows |-> [p \in LinesOf(Copy) |-> line[p]], embedded |-> embedded]
    /\ UNCHANGED <<line, drawnLines, generation, report>>

-----------------------------------------------------------------------------
(* buildComparisonReport on the master and the copy: the paragraphs are read *)
(* first, and aligned, *)
ReadParagraphs(requested) ==
    /\ report.phase = "new"
    /\ LET pair == <<LiveSource(Master), LiveSource(Copy)>>
       IN report' = [phase |-> "aligned", differs |-> Differing(pair, requested) # {}, behind |-> 0]
    /\ UNCHANGED <<line, drawnLines, generation, frozen>>

(* then the drift (origin_version is 1). *)
Behind == generation[Master] - 1
ReadDrift ==
    /\ report.phase = "aligned"
    /\ report' = [report EXCEPT !.phase = "done", !.behind = Behind]
    /\ UNCHANGED <<line, drawnLines, generation, frozen>>

(* The copy has just been made. *)
StartsFrom(outline) ==
    /\ LET n == Len(outline)
           master == Imported(Master, outline, 1, FALSE)
           copy == Imported(Copy, outline, n + 1, TRUE)
       IN /\ line = [p \in Lines |-> IF p \in DOMAIN master THEN master[p]
                                     ELSE IF p \in DOMAIN copy THEN copy[p] ELSE Absent]
          /\ drawnLines = 2 * n
    /\ generation = [s \in {Master, Copy} |-> 1]
    /\ frozen = Absent
    /\ report = [phase |-> "new"]

ComparisonInit == \E outline \in Outlines : StartsFrom(outline)

ComparisonNext ==
    \/ \E p \in Lines, t \in Wordings : RewordLine(p, t)
    \/ \E p \in Lines, removed \in BOOLEAN : RemoveLine(p, removed)
    \/ \E p \in Lines, type \in {"pr", "continuation"} : AddLine(p, type)
    \/ \E outline \in Outlines : ReimportMaster(outline)
    \/ \E embedded \in BOOLEAN : FreezeCopy(embedded)
    \/ \E requested \in {"origin", "structure", "auto"} : ReadParagraphs(requested)
    \/ ReadDrift

ComparisonSpec == ComparisonInit /\ [][ComparisonNext]_comparisonVars

-----------------------------------------------------------------------------
Pairs ==
    {<<LiveSource(Master), LiveSource(Copy)>>}
      \cup IF frozen = Absent THEN {}
           ELSE {<<FrozenSource, LiveSource(s)>> : s \in {Master, Copy}}

(* ADR-047: nothing is left out of a comparison and nothing shown twice: each *)
(* paragraph that stands in a source has one row.                            *)
NothingIsLeftOut(pair, matrix) ==
    \A i \in 1..2 : \A p \in DOMAIN pair[i].rows :
        Cardinality({row \in matrix : row.cells[i] = p}) = 1

(* By lineage, a paragraph stands beside itself or its own clone and nothing  *)
(* else.                                                                     *)
SameLine(pair, p, q) ==
    IF SameSpec(pair) THEN p = q
    ELSE pair[2].rows[q].origin = p \/ pair[1].rows[p].origin = q
PairedByLineage(pair, matrix) ==
    {row.cells : row \in {x \in matrix : \A i \in 1..2 : x.cells[i] # Absent}}
      = {c \in (DOMAIN pair[1].rows) \X (DOMAIN pair[2].rows) : SameLine(pair, c[1], c[2])}

(* Between a frozen copy and the copy as it is, whatever the revision keeps   *)
(* of its lineage, the differences are the paragraphs that were reworded,     *)
(* added or removed since, as long as one is left.                           *)
ShowsWhatChanged(pair) ==
    SameSpec(pair) /\ SharesOrigin(pair) =>
        LET was == pair[1].rows
            is == pair[2].rows
        IN {row.key : row \in Differing(pair, "auto")} =
             {p \in DOMAIN was \cup DOMAIN is :
                ~(p \in DOMAIN was \cap DOMAIN is /\ was[p].text = is[p].text)}

(* And a report on an unedited copy that shows no drift shows no difference,  *)
(* although master and drift were read by two statements among writers.      *)
NoDriftNoDifference ==
    report.phase = "done" /\ report.behind = 0 /\ generation[Copy] = 1 => ~report.differs

ComparisonIsFaithful ==
    /\ \A pair \in Pairs :
          /\ \A mode \in {"origin", "structure"} :
                LET matrix == Matrix(pair, mode) IN
                /\ NothingIsLeftOut(pair, matrix)
                /\ mode = "origin" => PairedByLineage(pair, matrix)
          /\ ShowsWhatChanged(pair)
    /\ NoDriftNoDifference
=============================================================================
