------------------------ MODULE HistoryViews_proofs ------------------------
(***************************************************************************)
(* Proofs about the sessions, the pending summary and the rebuilt          *)
(* generations of HistoryViews, for any users, texts, documents and        *)
(* checkpoints, and whatever is committed between two statements of the    *)
(* request that shows them.  They rest on two invariants.  ViewsInv says   *)
(* what the log tells about the tables; its proof goes from what a writer  *)
(* does to the tables (Rewrites, of SpecStore_proofs) to what it appends   *)
(* to the log (Logs), and from there to what is read of the rows it left   *)
(* alone (Keeps) and of those it wrote.  CallInv says what a request has   *)
(* read in terms of the tables as they are by now: a writer leaves it in   *)
(* force, because what it changes of a spec it was seen to change          *)
(* (Undisturbed) or because history is only appended to.  The sessions are *)
(* cut where two entries do not go together, and the proof is about where  *)
(* cuts fall among entries that rise with the generations.                 *)
(***************************************************************************)
EXTENDS HistoryViews, SpecStore_proofs, FiniteSetTheorems, SequenceTheorems

-----------------------------------------------------------------------------
(* A generation as it would be put together by one statement: what a call,   *)
(* whose statements are apart, is measured by.                              *)
TextAsOf(p, v) ==
    LET rows == RowsUpTo(p, v)
    IN IF rows = {} THEN para[p].text ELSE Latest(rows).text
SnapshotAt(s, v) ==
    [p \in Paras |-> IF InSpec(p, s) /\ \A a \in Lineage[p] : OwnVisible(a, v)
                     THEN TextAsOf(p, v) ELSE NoText]

-----------------------------------------------------------------------------
(* The inductive invariant of the tables. *)

(* One row of history per paragraph and version, and versions begin at 1.   *)
KeysDistinct ==
    /\ \A e, f \in hist : e.para = f.para /\ e.version = f.version => e = f
    /\ \A p \in Paras : Live(p) => para[p].baseVersion \in Nat \ {0}

(* What has been written since a seal, by what the seal says of a row.      *)
Since(r, p) == {e \in RowsOf(p) : e.contentVersion > r.contentVersion}
SealTells(r, p) ==
    IF r.texts[p] = NoText THEN Since(r, p) = RowsOf(p)
    ELSE /\ r.texts[p] # para[p].text => Since(r, p) # {}
         /\ Since(r, p) # {} => para[p].baseVersion > 1
SealsTell ==
    \A r \in sealed : /\ r.contentVersion > 0
                      /\ \A p \in Rows(r.spec) : SealTells(r, p)
                      /\ \A p \in Paras : p > drawn => r.texts[p] = NoText

(* The log has an entry for every row of history, by a user.  A version 1   *)
(* is the creation of its row.                                              *)
Creations == {"insert", "accept-note"}
Ops == Creations \cup {"edit", "remove", "restore", "close-comment"}
LogRow == [user : Users, at : Nat, op : Ops]
LogTells ==
    /\ log \in [hist -> LogRow]
    /\ clock \in Nat
    /\ \A e \in hist : log[e].at <= clock
    /\ \A e \in hist : e.version = 1 <=> CreatesParagraph(e)

(* Whether a row is removed can be told from its log, unless it was hidden  *)
(* when it was imported and not touched since.                              *)
VanishTells(p) ==
    LET switches == Switches(RowsOf(p)) IN
    IF switches # {} THEN log[Latest(switches)].op = "remove" <=> RemovedRoot(p)
    ELSE ImportedVisible(para[p].spec, p) => ~RemovedRoot(p)

Generation == [Paras -> Texts \cup {NoText}]
Recalls(s, v, p) ==
    (\A a \in Lineage[p] : OnRecord(a, v) /\ ImportedVisible(s, a))
        => SnapshotAt(s, v)[p] = past[s][v][p]
PastTells ==
    /\ past \in [Specs -> Seq(Generation)]
    /\ \A s \in Specs : Len(past[s]) = spec[s].contentVersion
    /\ importedAt \in [Specs -> Nat]
    /\ \A s \in Specs : Exists(s) => /\ importedAt[s] \in 1..spec[s].contentVersion
                                     /\ past[s][spec[s].contentVersion] = Shown(s)
    /\ \A s \in Specs : \A v \in 1..Len(past[s]) : \A p \in Paras :
          p > drawn => past[s][v][p] = NoText
    /\ \A s \in Specs : \A v \in importedAt[s]..(spec[s].contentVersion - 1) : \A p \in Rows(s) :
          Exists(s) => Recalls(s, v, p)

ViewsInv ==
    /\ HistoryInv /\ KeysDistinct /\ RowsHang /\ SealsTell
    /\ LogTells /\ PastTells
    /\ \A p \in Paras : Live(p) => VanishTells(p)

-----------------------------------------------------------------------------
(* The latest of a set of rows is the one that comes after all others.      *)
LEMMA LatestIs ==
    ASSUME NEW rows \in SUBSET VersionRow, NEW e \in rows,
           \A f \in rows : f = e \/ f.contentVersion < e.contentVersion
    PROVE  Latest(rows) = e
  <1>1. \A f \in rows : f.contentVersion \in Nat /\ f.version \in Nat
    BY DEF VersionRow
  <1> DEFINE Is(x) == \A f \in rows : \/ f.contentVersion < x.contentVersion
                                      \/ f.contentVersion = x.contentVersion /\ f.version <= x.version
  <1>2. Is(e)
    BY <1>1
  <1>3. ASSUME NEW x \in rows, Is(x)  PROVE x = e
    BY <1>1, <1>3
  <1>4. Latest(rows) = CHOOSE x \in rows : Is(x)
    BY DEF Latest
  <1> QED
    BY <1>2, <1>3, <1>4

-----------------------------------------------------------------------------
(* What a user's request does to the rows, beyond Rewrites: which op says   *)
(* that a row has been removed or restored, and where a new row hangs.      *)
Toggled(p, op) == op = "remove" \/ (op # "restore" /\ RemovedRoot(p))
StaysPut(p, op) ==
    /\ Live(p)'
    /\ para'[p].parent = para[p].parent
    /\ RemovedRoot(p)' <=> IF para'[p].baseVersion = para[p].baseVersion THEN RemovedRoot(p)
                           ELSE Toggled(p, op)
    /\ para'[p].baseVersion # para[p].baseVersion => op # "insert"
ComesIn(p, s) ==
    /\ drawn < p /\ p <= drawn' /\ ~RemovedRoot(p)'
    /\ para'[p].parent # NoPara =>
          para'[p].parent < p /\ InSpec(para'[p].parent, s)
RowMoves(s, op) ==
    /\ drawn' \in Nat /\ drawn <= drawn'
    /\ \A p \in Paras : IF Live(p) THEN StaysPut(p, op)
                        ELSE Live(p)' => ComesIn(p, s)

(* The columns that these facts are about.                                  *)
Placed(old, new) == new.parent = old.parent /\ new.type = old.type
LEMMA EditedPlaced ==
    ASSUME NEW row \in ParaRow, NEW t \in Texts
    PROVE  Placed(row, Edited(row, t)) /\ Edited(row, t).vanish = row.vanish
  <1> DEFINE r == Retexted(row, t)
             d == [r EXCEPT !.unresolved = t \in Unresolved]
  <1>1. r \in ParaRow
    BY RetextedType
  <1>2. Placed(row, r) /\ r.vanish = row.vanish
    BY DEF Retexted, BlobRewritten, ParaRow, Placed
  <1> HIDE DEF r
  <1>3. Placed(r, d) /\ d.vanish = r.vanish
    BY <1>1 DEF ParaRow, Placed
  <1>4. d \in ParaRow
    BY <1>1, FlagType DEF ParaRow
  <1> HIDE DEF d
  <1>5. Placed(d, Touched(d)) /\ Touched(d).vanish = d.vanish
    BY <1>4 DEF Touched, ParaRow, Placed
  <1>6. Edited(row, t) = Touched(d)
    BY DEF Edited, Rederived, d, r
  <1> QED
    BY <1>2, <1>3, <1>5, <1>6 DEF Placed

LEMMA ToggledPlaced ==
    ASSUME NEW row \in ParaRow, NEW b \in Flag, NEW c \in CommentStates
    PROVE  /\ Placed(row, Vanished(row, b)) /\ Vanished(row, b).vanish = b
           /\ Placed(row, CommentSet(row, c)) /\ CommentSet(row, c).vanish = row.vanish
  <1> DEFINE v == [row EXCEPT !.vanish = b]
             k == [row EXCEPT !.comment = c]
  <1>1. v \in ParaRow /\ Placed(row, v) /\ v.vanish = b
    BY DEF ParaRow, Placed
  <1>2. k \in ParaRow /\ Placed(row, k) /\ k.vanish = row.vanish
    BY DEF ParaRow, Placed
  <1> HIDE DEF v, k
  <1>3. ASSUME NEW r \in ParaRow
        PROVE  Placed(r, Touched(r)) /\ Touched(r).vanish = r.vanish
    BY DEF Touched, ParaRow, Placed
  <1> QED
    BY <1>1, <1>2, <1>3 DEF Vanished, CommentSet, Placed, v, k

LEMMA ShiftedPlaced ==
    ASSUME NEW rows \in [Paras -> ParaRow \cup {NoRow}], NEW anchor, NEW q \in Paras
    PROVE  /\ ShiftedAfter(rows, anchor)[q] = NoRow <=> rows[q] = NoRow
           /\ rows[q] # NoRow =>
                 /\ Placed(rows[q], ShiftedAfter(rows, anchor)[q])
                 /\ ShiftedAfter(rows, anchor)[q].vanish = rows[q].vanish
                 /\ ShiftedAfter(rows, anchor)[q].baseVersion = rows[q].baseVersion
  <1> DEFINE new == [rows[q] EXCEPT !.position = @ + 1]
  <1>1. ShiftedAfter(rows, anchor)[q] \in {rows[q], new}
    BY DEF ShiftedAfter
  <1>2. rows[q] = NoRow => ShiftedAfter(rows, anchor)[q] = NoRow
    BY DEF ShiftedAfter
  <1>3. ASSUME rows[q] # NoRow
        PROVE  /\ new \in ParaRow /\ Placed(rows[q], new)
               /\ new.vanish = rows[q].vanish /\ new.baseVersion = rows[q].baseVersion
    BY <1>3 DEF ParaRow, Placed
  <1> HIDE DEF new
  <1> QED
    BY <1>1, <1>2, <1>3, NoRowAssumption DEF Placed

LEMMA SiblingPlaced ==
    ASSUME NEW anchor \in ParaRow, NEW type \in NodeTypes, NEW t \in Texts, NEW p \in Paras
    PROVE  /\ SiblingOf(anchor, type, t).vanish = FALSE
           /\ SiblingOf(anchor, type, t).parent = anchor.parent
           /\ SiblingOf(anchor, type, t).type = type
           /\ NoteFrom(p, anchor).parent = anchor.parent
           /\ NoteFrom(p, anchor).type = "note"
  BY DEF SiblingOf, NoteFrom

(* The shared tail moves the row it writes and no other.                     *)
LEMMA CommitMoves ==
    ASSUME HistoryInv, NEW s \in Specs, NEW p \in Paras, NEW row \in ParaRow, NEW op,
           InSpec(p, s), Placed(para[p], row), row.baseVersion = para[p].baseVersion + 1,
           (row.vanish /\ row.type # "note") <=> Toggled(p, op), op # "insert",
           CommitRow(s, p, row)
    PROVE  RowMoves(s, op)
  <1>1. /\ para \in [Paras -> ParaRow \cup {NoRow}] /\ drawn \in Nat
        /\ para[p] \in ParaRow /\ para[p].baseVersion \in Nat
    BY SizesAssumption DEF HistoryInv, TypeOK, InSpec, Live, ParaRow
  <1>2. para'[p] = row /\ (\A q \in Paras \ {p} : para'[q] = para[q]) /\ drawn' = drawn
    BY <1>1 DEF CommitRow
  <1>3. StaysPut(p, op)
    BY <1>1, <1>2, NoRowAssumption DEF StaysPut, Live, RemovedRoot, Placed
  <1>4. ASSUME NEW q \in Paras, q # p, Live(q)  PROVE StaysPut(q, op)
    BY <1>2, <1>4 DEF StaysPut, Live, RemovedRoot
  <1>5. ASSUME NEW q \in Paras, q # p, ~Live(q)  PROVE ~Live(q)'
    BY <1>2, <1>5 DEF Live
  <1> QED
    BY <1>1, <1>2, <1>3, <1>4, <1>5 DEF RowMoves, InSpec

(* An insertion takes the next id; the rows it shifts stay where they hang. *)
LEMMA InsertMoves ==
    ASSUME HistoryInv, RowsHang, NEW s \in Specs, NEW a \in Paras, NEW n \in Paras, NEW op,
           NEW row, NEW anchor,
           InSpec(a, s), IsNextId(n), drawn' = n, row \in ParaRow,
           row.parent = para[a].parent, ~(row.vanish /\ row.type # "note"),
           anchor \in ParaRow, Placed(para[a], anchor), anchor.vanish = para[a].vanish,
           para' = [ShiftedAfter(para, para[a]) EXCEPT ![a] = anchor, ![n] = row],
           op \notin {"remove", "restore"}, anchor = para[a] \/ op # "insert"
    PROVE  RowMoves(s, op)
  <1>1. /\ para \in [Paras -> ParaRow \cup {NoRow}] /\ drawn \in Nat
        /\ Live(a) /\ para[a] \in ParaRow /\ ~Live(n) /\ n = drawn + 1 /\ a # n /\ a < n
        /\ Paras \in SUBSET Nat
    BY SizesAssumption DEF HistoryInv, TypeOK, InSpec, Live, IsNextId, Paras
  <1> DEFINE moved == ShiftedAfter(para, para[a])
  <1>2. /\ DOMAIN moved = Paras
        /\ \A q \in Paras : /\ moved[q] = NoRow <=> para[q] = NoRow
                            /\ Live(q) => /\ Placed(para[q], moved[q])
                                          /\ moved[q].vanish = para[q].vanish
                                          /\ moved[q].baseVersion = para[q].baseVersion
    BY <1>1, ShiftedPlaced DEF ShiftedAfter, Live
  <1> HIDE DEF moved
  <1>3. /\ para'[n] = row /\ para'[a] = anchor
        /\ \A q \in Paras \ {a, n} : para'[q] = moved[q]
    BY <1>1, <1>2 DEF moved
  <1>4. StaysPut(a, op)
    BY <1>1, <1>3, NoRowAssumption DEF StaysPut, Live, RemovedRoot, Placed, Toggled
  <1>5. ASSUME NEW q \in Paras \ {a, n}, Live(q)  PROVE StaysPut(q, op)
    BY <1>2, <1>3, <1>5 DEF StaysPut, Live, RemovedRoot, Placed
  <1>6. ASSUME NEW q \in Paras \ {a, n}, ~Live(q)  PROVE ~Live(q)'
    BY <1>2, <1>3, <1>6 DEF Live
  <1>7. ComesIn(n, s)
    <2>1. para[a].parent # NoPara => para[a].parent < a /\ InSpec(para[a].parent, s)
      BY <1>1 DEF RowsHang, InSpec
    <2>2. para[a].parent # NoPara => para[a].parent \in Nat
      BY <1>1 DEF ParaRow
    <2>3. para'[n].parent # NoPara => para'[n].parent < n /\ InSpec(para'[n].parent, s)
      BY <1>1, <1>3, <2>1, <2>2
    <2>4. ~RemovedRoot(n)'
      BY <1>3 DEF RemovedRoot
    <2> QED
      BY <1>1, <2>3, <2>4 DEF ComesIn
  <1> QED
    BY <1>1, <1>4, <1>5, <1>6, <1>7 DEF RowMoves

(* Each of the requests, with the op it is logged under.                     *)
UserOps == {"edit", "insert", "remove", "restore", "close-comment"}
LEMMA UserMoves ==
    ASSUME HistoryInv, RowsHang, NEW s \in Specs, NEW user \in Users, ByUser(user, s)
    PROVE  /\ Write(s)
           /\ \E op \in UserOps : RowMoves(s, op) /\ Stamped(user, op)
           /\ \E p \in Paras : InSpec(p, s)
  <1>0. /\ para \in [Paras -> ParaRow \cup {NoRow}]
        /\ \A p \in Paras : InSpec(p, s) => Live(p) /\ para[p] \in ParaRow
        /\ \A p \in Paras : Live(p) => para[p] \in ParaRow /\ para[p].baseVersion \in Nat
        /\ \A p \in Paras : IsNextId(p) => ~Live(p)
    BY SizesAssumption DEF HistoryInv, TypeOK, InSpec, Live, IsNextId, Paras, ParaRow
  <1>1. ASSUME NEW p \in Paras, NEW t \in Texts,
               UpdateParagraphText(s, p, t, Unconditional), Stamped(user, "edit")
        PROVE  Write(s) /\ RowMoves(s, "edit") /\ InSpec(p, s)
    <2>1. InSpec(p, s) /\ CommitRow(s, p, Edited(para[p], t))
      BY <1>1 DEF UpdateParagraphText
    <2>2. /\ Placed(para[p], Edited(para[p], t)) /\ Edited(para[p], t).vanish = para[p].vanish
          /\ Edited(para[p], t) \in ParaRow
          /\ Edited(para[p], t).baseVersion = para[p].baseVersion + 1
      BY <1>0, <2>1, EditedPlaced, EditedType
    <2>3. RowMoves(s, "edit")
      <3> DEFINE row == Edited(para[p], t)
      <3>1. (row.vanish /\ row.type # "note") <=> Toggled(p, "edit")
        BY <2>2 DEF Toggled, RemovedRoot, Placed
      <3> HIDE DEF row
      <3> QED
        BY <2>1, <2>2, <3>1, CommitMoves DEF row
    <2> QED
      BY <1>1, <2>1, <2>3 DEF Write, Unconditional
  <1>2. ASSUME NEW a \in Paras, NEW t \in NewTexts,
               InsertParagraphAfter(s, a, "pr", t, Unconditional), Stamped(user, "insert")
        PROVE  Write(s) /\ RowMoves(s, "insert") /\ InSpec(a, s)
    <2> DEFINE row == SiblingOf(para[a], "pr", t)
    <2>1. InSpec(a, s) /\ t \in Texts /\ "pr" \in NodeTypes
      BY <1>2, NewTextsAssumption DEF InsertParagraphAfter, NodeTypes, BodyTypes
    <2>2. row \in ParaRow /\ row.parent = para[a].parent /\ row.vanish = FALSE
      <3>1. para[a] \in ParaRow
        BY <1>0, <2>1
      <3>2. row \in ParaRow
        BY <2>1, <3>1, SiblingType
      <3> QED
        BY <3>2 DEF SiblingOf
    <2>3. PICK n \in Paras : /\ IsNextId(n) /\ drawn' = n
                             /\ para' = [ShiftedAfter(para, para[a]) EXCEPT ![n] = row]
      BY <1>2 DEF InsertParagraphAfter
    <2> HIDE DEF row
    <2>4. a # n
      BY <1>0, <2>1, <2>3
    <2>5. ShiftedAfter(para, para[a])[a] = para[a]
      BY <1>0, <2>1, ShiftedPlace DEF ParaRow
    <2>6. para' = [ShiftedAfter(para, para[a]) EXCEPT ![a] = para[a], ![n] = row]
      BY <2>3, <2>4, <2>5 DEF ShiftedAfter
    <2>7. RowMoves(s, "insert")
      <3>1. para[a] \in ParaRow /\ Placed(para[a], para[a]) /\ ~(row.vanish /\ row.type # "note")
        BY <1>0, <2>1, <2>2 DEF Placed
      <3> QED
        BY <2>1, <2>2, <2>3, <2>6, <3>1, InsertMoves
    <2> QED
      BY <1>2, <2>1, <2>7 DEF Write
  <1>3. ASSUME NEW p \in Paras, NEW b \in Flag, SetParagraphVanish(s, p, b)
        PROVE  /\ Write(s) /\ InSpec(p, s)
               /\ RowMoves(s, IF b THEN "remove" ELSE "restore")
    <2>1. InSpec(p, s) /\ para[p].type \in BodyTypes /\ CommitRow(s, p, Vanished(para[p], b))
      BY <1>3 DEF SetParagraphVanish
    <2>2. "none" \in CommentStates
      BY DEF CommentStates
    <2>3. /\ Placed(para[p], Vanished(para[p], b)) /\ Vanished(para[p], b).vanish = b
          /\ Vanished(para[p], b) \in ParaRow
          /\ Vanished(para[p], b).baseVersion = para[p].baseVersion + 1
      BY <1>0, <2>1, <2>2, ToggledPlaced, ToggleType
    <2>4. RowMoves(s, IF b THEN "remove" ELSE "restore")
      <3> DEFINE row == Vanished(para[p], b)
                 op == IF b THEN "remove" ELSE "restore"
      <3>1. row.type # "note"
        BY <2>1, <2>3 DEF Placed, BodyTypes
      <3>2. (row.vanish /\ row.type # "note") <=> Toggled(p, op)
        <4>1. CASE b = TRUE
          BY <2>3, <3>1, <4>1 DEF Toggled
        <4>2. CASE b = FALSE
          BY <2>3, <3>1, <4>2 DEF Toggled
        <4> QED
          BY <4>1, <4>2 DEF Flag
      <3>3. op # "insert"
        OBVIOUS
      <3> HIDE DEF row, op
      <3>4. RowMoves(s, op)
        BY <2>1, <2>3, <3>2, <3>3, CommitMoves DEF row
      <3> QED
        BY <3>4 DEF op
    <2> QED
      BY <1>3, <2>1, <2>4 DEF Write
  <1>4. ASSUME NEW p \in Paras, AcceptCommentAsNote(s, p)
        PROVE  Write(s) /\ RowMoves(s, "close-comment") /\ InSpec(p, s)
    <2> DEFINE note == NoteFrom(p, para[p])
               anchor == ClosedByAccept(para[p])
    <2>1. InSpec(p, s) /\ "closed" \in CommentStates
      BY <1>4 DEF AcceptCommentAsNote, CommentStates
    <2>2. note \in ParaRow /\ note.parent = para[p].parent /\ note.type = "note"
      BY <1>0, <2>1, NoteType
    <2>3. /\ anchor \in ParaRow /\ Placed(para[p], anchor) /\ anchor.vanish = para[p].vanish
      BY <1>0, <2>1, ToggledPlaced, ToggleType, FlagType DEF ClosedByAccept, Placed
    <2>4. PICK n \in Paras :
             /\ IsNextId(n) /\ drawn' = n
             /\ para' = [ShiftedAfter(para, para[p]) EXCEPT ![p] = anchor, ![n] = note]
      BY <1>4 DEF AcceptCommentAsNote
    <2> HIDE DEF note, anchor
    <2>5. RowMoves(s, "close-comment")
      BY <2>1, <2>2, <2>3, <2>4, InsertMoves
    <2> QED
      BY <1>4, <2>1, <2>5 DEF Write
  <1> QED
    <2>1. CASE \E p \in Paras, t \in Texts :
                  UpdateParagraphText(s, p, t, Unconditional) /\ Stamped(user, "edit")
      BY <1>1, <2>1 DEF UserOps
    <2>2. CASE \E a \in Paras, t \in NewTexts :
                  InsertParagraphAfter(s, a, "pr", t, Unconditional) /\ Stamped(user, "insert")
      BY <1>2, <2>2 DEF UserOps
    <2>3. CASE \E p \in Paras, b \in Flag :
                  SetParagraphVanish(s, p, b) /\ Stamped(user, IF b THEN "remove" ELSE "restore")
      <3>1. PICK p \in Paras, b \in Flag :
                  SetParagraphVanish(s, p, b) /\ Stamped(user, IF b THEN "remove" ELSE "restore")
        BY <2>3
      <3>2. (IF b THEN "remove" ELSE "restore") \in UserOps
        BY DEF UserOps
      <3> QED
        BY <1>3, <3>1, <3>2
    <2>4. CASE \E p \in Paras : AcceptCommentAsNote(s, p) /\ Stamped(user, "close-comment")
      BY <1>4, <2>4 DEF UserOps
    <2> QED
      BY <2>1, <2>2, <2>3, <2>4 DEF ByUser

(* What a user's request leaves in the tables and in the log: one row of     *)
(* history, by the user, for every row it writes.                           *)
NewRow(s, p) == Snapshot(p, para'[p], NextGeneration(s))
Logs(s, T, user, op) ==
    /\ Rewrites(s, T) /\ RowMoves(s, op)
    /\ log' \in [hist' -> LogRow] /\ clock' \in Nat /\ clock <= clock'
    /\ \A e \in hist : log'[e] = log[e]
    /\ \A p \in T : /\ NewRow(s, p) \notin hist
                    /\ log'[NewRow(s, p)].user = user /\ log'[NewRow(s, p)].at = clock'
                    /\ IF Live(p) THEN log'[NewRow(s, p)].op = op /\ op \notin Creations
                       ELSE log'[NewRow(s, p)].op \in Creations

LEMMA NewRowIs ==
    ASSUME NEW s, NEW p
    PROVE  /\ NewRow(s, p).para = p /\ NewRow(s, p).spec = para'[p].spec
           /\ NewRow(s, p).version = para'[p].baseVersion
           /\ NewRow(s, p).text = para'[p].text
           /\ NewRow(s, p).contentVersion = spec[s].contentVersion + 1
  BY DEF NewRow, Snapshot, NextGeneration

LEMMA UserLogs ==
    ASSUME HistoryInv, KeysDistinct, RowsHang, LogTells,
           NEW s \in Specs, NEW user \in Users, ByUser(user, s)
    PROVE  \E T \in SUBSET Paras, op \in UserOps : Logs(s, T, user, op)
  <1>1. PICK op \in UserOps : RowMoves(s, op) /\ Stamped(user, op)
    BY UserMoves
  <1>0. clock \in Nat /\ clock' \in Nat /\ clock <= clock'
    BY <1>1, TimesAssumption DEF Stamped, LogTells
  <1>2. PICK T \in SUBSET Paras : Rewrites(s, T)
    <2>1. PICK p \in Paras : InSpec(p, s)
      BY UserMoves
    <2>2. p <= drawn /\ drawn \in Nat /\ Paras \in SUBSET Nat
      BY <2>1, SizesAssumption DEF HistoryInv, TypeOK, InSpec, Live, Paras
    <2>3. ASSUME NEW doc \in Documents, PersistParsedSpec(s, doc)  PROVE FALSE
      <3>1. doc.nodes \in Seq(Node)
        BY DocumentsAssumption
      <3>2. p \notin drawn + 1 .. drawn + Len(doc.nodes)
        BY <2>2, <3>1
      <3>3. para'[p] = NoRow
        BY <2>1, <2>3, <3>2 DEF PersistParsedSpec
      <3>4. Live(p)'
        BY <1>1, <2>1 DEF RowMoves, StaysPut, InSpec
      <3> QED
        BY <3>3, <3>4 DEF Live
    <2> QED
      BY <2>3, UserMoves, WriteRewrites
  <1>3. /\ spec[s].contentVersion \in Nat
        /\ \A e \in hist : e.contentVersion <= spec[e.spec].contentVersion
    BY DEF HistoryInv, TypeOK, SpecRow, HistoryOrdered
  <1>4. ASSUME NEW p \in T
        PROVE  /\ NewRow(s, p) \notin hist /\ NewRow(s, p) \in hist'
               /\ IF Live(p) THEN NewRow(s, p).version > 1 /\ op # "insert"
                  ELSE NewRow(s, p).version = 1
    <2>1. /\ para'[p].spec = s
          /\ \/ InSpec(p, s) /\ para'[p].baseVersion = para[p].baseVersion + 1
             \/ ~Live(p) /\ para'[p].baseVersion = 1
      BY <1>2 DEF Rewrites
    <2>2. NewRow(s, p) \notin hist
      BY <1>3, <2>1, NewRowIs
    <2>3. NewRow(s, p) \in hist'
      BY <1>2 DEF Rewrites, NewRow
    <2>4. Live(p) => para[p].baseVersion \in Nat \ {0}
      BY DEF KeysDistinct
    <2>5. Live(p) => NewRow(s, p).version > 1
      BY <2>1, <2>4, NewRowIs DEF InSpec
    <2>6. Live(p) => op # "insert"
      BY <1>1, <2>1, <2>4 DEF RowMoves, StaysPut, InSpec
    <2>7. ~Live(p) => NewRow(s, p).version = 1
      BY <2>1, NewRowIs DEF InSpec
    <2> QED
      BY <2>2, <2>3, <2>5, <2>6, <2>7
  <1> DEFINE stamp(e) == [user |-> user, at |-> clock', op |-> OpOf(e, op)]
  <1>5. log' = [e \in hist' |-> IF e \in hist THEN log[e] ELSE stamp(e)]
    BY <1>1 DEF Stamped
  <1>6. \A e : stamp(e) \in LogRow
    <2>1. \A e : OpOf(e, op) \in Ops
      BY DEF OpOf, Ops, Creations, UserOps
    <2>2. clock' \in Nat
      BY <1>0
    <2> QED
      BY <2>1, <2>2 DEF LogRow
  <1>7. \A e : /\ stamp(e).user = user /\ stamp(e).at = clock'
               /\ e.version > 1 => stamp(e).op = op
               /\ ~(e.version > 1) => stamp(e).op \in Creations
    BY DEF OpOf, Creations
  <1> HIDE DEF stamp
  <1>8. log' \in [hist' -> LogRow]
    BY <1>5, <1>6 DEF LogTells
  <1>9. hist \subseteq hist'
    BY <1>2 DEF Rewrites
  <1>10. \A e \in hist : log'[e] = log[e]
    BY <1>5, <1>9
  <1>11. ASSUME NEW p \in T
         PROVE  /\ log'[NewRow(s, p)].user = user /\ log'[NewRow(s, p)].at = clock'
                /\ IF Live(p) THEN log'[NewRow(s, p)].op = op /\ op \notin Creations
                   ELSE log'[NewRow(s, p)].op \in Creations
    <2>1. log'[NewRow(s, p)] = stamp(NewRow(s, p))
      BY <1>4, <1>5
    <2>2. op # "insert" => op \notin Creations
      BY DEF UserOps, Creations
    <2>3. CASE Live(p)
      BY <1>4, <1>7, <2>1, <2>2, <2>3
    <2>4. CASE ~Live(p)
      <3>1. ~(NewRow(s, p).version > 1)
        BY <1>4, <2>4
      <3> QED
        BY <1>7, <2>1, <2>4, <3>1
    <2> QED
      BY <2>3, <2>4
  <1> QED
    BY <1>0, <1>1, <1>2, <1>4, <1>8, <1>10, <1>11 DEF Logs

-----------------------------------------------------------------------------
(* A user's request keeps the parts of the invariant. *)

(* How a row's history grows: by the new row, in a generation that is new.  *)
LEMMA HistoryGrows ==
    ASSUME HistoryInv, NEW s \in Specs, NEW T \in SUBSET Paras, Rewrites(s, T)
    PROVE  /\ hist \subseteq hist'
           /\ \A p \in Paras :
                 /\ RowsOf(p)' = IF p \in T THEN RowsOf(p) \cup {NewRow(s, p)} ELSE RowsOf(p)
                 /\ \A v \in Nat : v <= spec[s].contentVersion => RowsUpTo(p, v)' = RowsUpTo(p, v)
                 /\ \A e \in RowsOf(p) : e \in VersionRow /\ e.version >= 1
                                         /\ Live(p) /\ e.version <= para[p].baseVersion
                                         /\ e.spec = para[p].spec
                                         /\ e.contentVersion <= spec[para[p].spec].contentVersion
  <1>1. hist' = hist \cup {NewRow(s, p) : p \in T}
    BY DEF Rewrites, NewRow
  <1>2. ASSUME NEW p \in Paras
        PROVE  RowsOf(p)' = IF p \in T THEN RowsOf(p) \cup {NewRow(s, p)} ELSE RowsOf(p)
    BY <1>1, NewRowIs DEF RowsOf
  <1>3. ASSUME NEW p \in Paras, NEW v \in Nat, v <= spec[s].contentVersion
        PROVE  RowsUpTo(p, v)' = RowsUpTo(p, v)
    <2>1. ~(NewRow(s, p).contentVersion <= v)
      BY <1>3, NewRowIs DEF HistoryInv, TypeOK, SpecRow
    <2> QED
      BY <1>2, <2>1 DEF RowsUpTo
  <1>4. ASSUME NEW p \in Paras, NEW e \in RowsOf(p)
        PROVE  e \in VersionRow /\ e.version >= 1
               /\ Live(p) /\ e.version <= para[p].baseVersion
               /\ e.spec = para[p].spec
               /\ e.contentVersion <= spec[para[p].spec].contentVersion
    <2>1. e \in hist /\ e.para = p /\ e \in VersionRow
      BY <1>4 DEF RowsOf, HistoryInv, TypeOK
    <2>2. InSpec(p, e.spec) /\ e.version \in 1..para[p].baseVersion
      BY <2>1 DEF HistoryInv, HistoryTracksRows
    <2>3. e.contentVersion \in 1..spec[e.spec].contentVersion
      BY <2>1 DEF HistoryInv, HistoryOrdered
    <2> QED
      BY <2>1, <2>2, <2>3 DEF InSpec
  <1> QED
    BY <1>1, <1>2, <1>3, <1>4

LEMMA UserKeepsKeys ==
    ASSUME HistoryInv, KeysDistinct, NEW s \in Specs, NEW T \in SUBSET Paras, Rewrites(s, T)
    PROVE  KeysDistinct'
  <1>1. \A p \in Paras : Live(p) => para[p].baseVersion \in Nat \ {0}
    BY DEF KeysDistinct
  <1>2. ASSUME NEW p \in Paras, Live(p)'  PROVE para'[p].baseVersion \in Nat \ {0}
    <2>1. CASE p \in T
      BY <1>1, <2>1 DEF Rewrites, InSpec
    <2>2. CASE p \notin T
      BY <1>1, <1>2, <2>2 DEF Rewrites, Live
    <2> QED
      BY <2>1, <2>2
  <1>3. ASSUME NEW p \in T, NEW f \in hist, f.para = p
        PROVE  f.version # NewRow(s, p).version
    <2>1. f \in RowsOf(p) /\ p \in Paras
      BY <1>3 DEF RowsOf
    <2>2. Live(p) /\ f.version <= para[p].baseVersion /\ f.version \in Nat
      BY <2>1, HistoryGrows DEF VersionRow
    <2>3. para'[p].baseVersion = para[p].baseVersion + 1
      BY <1>3, <2>2 DEF Rewrites
    <2> QED
      BY <1>1, <2>1, <2>2, <2>3, NewRowIs
  <1>4. hist' = hist \cup {NewRow(s, p) : p \in T}
    BY DEF Rewrites, NewRow
  <1>5. ASSUME NEW e \in hist', NEW f \in hist', e.para = f.para, e.version = f.version
        PROVE  e = f
    <2>1. CASE e \in hist /\ f \in hist
      BY <1>5, <2>1 DEF KeysDistinct
    <2>2. CASE e \notin hist
      <3>1. PICK p \in T : e = NewRow(s, p)
        BY <1>4, <2>2
      <3> QED
        BY <1>3, <1>4, <1>5, <3>1, NewRowIs
    <2>3. CASE f \notin hist
      <3>1. PICK p \in T : f = NewRow(s, p)
        BY <1>4, <2>3
      <3> QED
        BY <1>3, <1>4, <1>5, <3>1, NewRowIs
    <2> QED
      BY <2>1, <2>2, <2>3
  <1> QED
    BY <1>2, <1>5 DEF KeysDistinct

(* Every row that was there is there, in its place, with its spec.          *)
LEMMA RowsRemain ==
    ASSUME NEW s \in Specs, NEW T \in SUBSET Paras, NEW op,
           HistoryInv, Rewrites(s, T), RowMoves(s, op), NEW p \in Paras
    PROVE  /\ Live(p) => /\ Live(p)' /\ para'[p].parent = para[p].parent
                         /\ para'[p].spec = para[p].spec
           /\ ~Live(p) /\ Live(p)' => /\ ComesIn(p, s) /\ p \in T /\ para'[p].spec = s
           /\ p \in T => Live(p)' /\ para'[p].spec = s
  <1>1. Live(p) => Live(p)' /\ para'[p].parent = para[p].parent
    BY DEF RowMoves, StaysPut
  <1>2. Live(p) => para'[p].spec = para[p].spec
    BY DEF Rewrites, InSpec
  <1>3. ~Live(p) /\ Live(p)' => ComesIn(p, s) /\ p \in T
    BY DEF RowMoves, Rewrites, Live
  <1>4. p \in T => Live(p)' /\ para'[p].spec = s
    BY NoRowAssumption DEF Rewrites, Live
  <1> QED
    BY <1>1, <1>2, <1>3, <1>4

LEMMA UserKeepsTrees ==
    ASSUME HistoryInv, RowsHang, NEW s \in Specs, NEW T \in SUBSET Paras, NEW op,
           Rewrites(s, T), RowMoves(s, op)
    PROVE  RowsHang'
  <1>3. ASSUME NEW p \in Paras, Live(p)'  PROVE Exists(para[p].spec)'
    <2>1. para'[p].spec = s \/ (Live(p) /\ para'[p].spec = para[p].spec)
      BY <1>3, RowsRemain
    <2>2. \A x \in Specs : spec[x].contentVersion \in Nat
      BY DEF HistoryInv, TypeOK, SpecRow
    <2>3. Live(p) => para[p].spec \in Specs /\ Exists(para[p].spec)
      BY DEF RowsHang, HistoryInv, TypeOK, Live, ParaRow
    <2> QED
      BY <2>1, <2>2, <2>3 DEF Rewrites, Exists
  <1> SUFFICES ASSUME NEW p \in Paras, Live(p)', para'[p].parent # NoPara
               PROVE  /\ para'[p].parent < p
                      /\ para'[para'[p].parent] # NoRow
                      /\ para'[para'[p].parent].spec = para'[p].spec
    BY <1>3 DEF RowsHang, InSpec, Live
  <1>0. Paras \in SUBSET Nat /\ \A q \in Nat : q < p => q = 0 \/ q \in Paras
    BY SizesAssumption DEF Paras
  <1>1. CASE Live(p)
    <2>1. para'[p].parent = para[p].parent /\ para'[p].spec = para[p].spec
      BY <1>1, RowsRemain
    <2>2. para[p].parent < p /\ InSpec(para[p].parent, para[p].spec)
      BY <1>1, <2>1 DEF RowsHang
    <2>3. para[p].parent \in Paras
      BY <1>1, <2>1 DEF HistoryInv, TypeOK, Live, ParaRow
    <2> QED
      BY <2>1, <2>2, <2>3, RowsRemain DEF InSpec, Live
  <1>2. CASE ~Live(p)
    <2>1. ComesIn(p, s) /\ p \in T /\ para'[p].spec = s
      BY <1>2, RowsRemain
    <2>2. para'[p].parent < p /\ InSpec(para'[p].parent, s)
      BY <2>1 DEF ComesIn
    <2>3. para'[p].parent \in Paras
      BY <2>1 DEF Rewrites, ParaRow
    <2> QED
      BY <2>1, <2>2, <2>3, RowsRemain DEF InSpec, Live
  <1> QED
    BY <1>1, <1>2

LEMMA UserKeepsSeals ==
    ASSUME HistoryInv, KeysDistinct, SealsTell, NEW s \in Specs, NEW T \in SUBSET Paras, NEW op,
           Rewrites(s, T), RowMoves(s, op)
    PROVE  SealsTell'
  <1> SUFFICES ASSUME NEW r \in sealed
               PROVE  /\ \A p \in Rows(r.spec)' : SealTells(r, p)'
                      /\ \A p \in Paras : p > drawn' => r.texts[p] = NoText
    BY DEF SealsTell, Rewrites
  <1>1. /\ \A p \in Rows(r.spec) : SealTells(r, p)
        /\ \A p \in Paras : p > drawn => r.texts[p] = NoText
    BY DEF SealsTell
  <1>2. /\ r.contentVersion <= spec[r.spec].contentVersion
        /\ r.contentVersion \in Nat /\ r.spec \in Specs
        /\ \A x \in Specs : spec[x].contentVersion \in Nat
        /\ drawn \in Nat /\ Paras \in SUBSET Nat /\ drawn' \in Nat
    <2>1. TypeOK /\ r \in SealRow
      BY DEF HistoryInv, TypeOK
    <2>2. drawn' \in Nat
      BY SizesAssumption, <2>1 DEF RowMoves, TypeOK
    <2> QED
      BY SizesAssumption, <2>1, <2>2 DEF HistoryInv, SealedTextIsExact, TypeOK, SealRow, SpecRow, Paras
  <1>3. ASSUME NEW p \in Rows(r.spec)'  PROVE SealTells(r, p)'
    <2>1. p \in Paras /\ Live(p)' /\ para'[p].spec = r.spec
      BY <1>3 DEF Rows, InSpec, Live
    <2>2. Since(r, p)' = {e \in RowsOf(p)' : e.contentVersion > r.contentVersion}
      BY DEF Since
    <2>3. CASE p \notin T
      <3>1. Live(p) /\ para[p].spec = r.spec /\ p \in Rows(r.spec)
        BY <2>1, <2>3, RowsRemain DEF Rows, InSpec
      <3>2. SealTells(r, p)
        BY <1>1, <3>1
      <3>3. para'[p].text = para[p].text /\ para'[p].baseVersion = para[p].baseVersion
        BY <2>1, <2>3, <3>1 DEF Rewrites
      <3>4. RowsOf(p)' = RowsOf(p) /\ Since(r, p)' = Since(r, p)
        BY <2>1, <2>2, <2>3, HistoryGrows DEF Since
      <3> QED
        BY <3>2, <3>3, <3>4 DEF SealTells
    <2>4. CASE p \in T
      <3>1. r.spec = s
        BY <2>1, <2>4, RowsRemain
      <3>2. NewRow(s, p).contentVersion > r.contentVersion
        BY <1>2, <3>1, NewRowIs
      <3>3. RowsOf(p)' = RowsOf(p) \cup {NewRow(s, p)}
        BY <2>1, <2>4, HistoryGrows
      <3>4. Since(r, p)' = Since(r, p) \cup {NewRow(s, p)}
        BY <2>2, <3>2, <3>3 DEF Since
      <3>5. CASE Live(p)
        <4>1. p \in Rows(r.spec) /\ para'[p].baseVersion > 1
          <5>1. para[p].baseVersion \in Nat \ {0}
            BY <2>1, <3>5 DEF KeysDistinct
          <5>2. para'[p].baseVersion = para[p].baseVersion + 1
            BY <2>4, <3>5 DEF Rewrites
          <5>3. p \in Rows(r.spec)
            BY <2>1, <3>5, RowsRemain DEF Rows, InSpec
          <5> QED
            BY <5>1, <5>2, <5>3
        <4>2. SealTells(r, p)
          BY <1>1, <4>1
        <4> QED
          BY <3>3, <3>4, <4>1, <4>2 DEF SealTells
      <3>6. CASE ~Live(p)
        <4>1. p > drawn
          BY <1>2, <2>1, <3>6, RowsRemain DEF ComesIn
        <4>2. r.texts[p] = NoText
          BY <1>1, <2>1, <4>1
        <4>3. RowsOf(p) = {} /\ Since(r, p) = {}
          BY <2>1, <3>6, HistoryGrows DEF Since
        <4> QED
          BY <3>3, <3>4, <4>2, <4>3 DEF SealTells
      <3> QED
        BY <3>5, <3>6
    <2> QED
      BY <2>3, <2>4
  <1>4. ASSUME NEW p \in Paras, p > drawn'  PROVE r.texts[p] = NoText
    BY <1>1, <1>2, <1>4 DEF RowMoves
  <1> QED
    BY <1>3, <1>4

LEMMA UserKeepsLog ==
    ASSUME HistoryInv, KeysDistinct, LogTells, NEW s \in Specs, NEW T \in SUBSET Paras,
           NEW user, NEW op, Logs(s, T, user, op)
    PROVE  LogTells'
  <1>1. /\ hist' = hist \cup {NewRow(s, p) : p \in T} /\ log' \in [hist' -> LogRow]
        /\ clock \in Nat /\ clock' \in Nat /\ clock <= clock'
    BY DEF Logs, Rewrites, NewRow, LogTells
  <1>2. ASSUME NEW e \in hist'
        PROVE  log'[e].at <= clock' /\ (e.version = 1 <=> CreatesParagraph(e)')
    <2>1. CASE e \in hist
      <3>1. log'[e] = log[e] /\ log[e] \in LogRow /\ log[e].at <= clock
        BY <2>1 DEF Logs, LogTells
      <3>2. log[e].at \in Nat
        BY <3>1 DEF LogRow
      <3>3. log'[e].at <= clock'
        BY <1>1, <3>1, <3>2
      <3> QED
        BY <2>1, <3>1, <3>3 DEF LogTells, CreatesParagraph
    <2>2. CASE e \notin hist
      <3>1. PICK p \in T : e = NewRow(s, p)
        BY <1>1, <2>2
      <3>2. log'[e].at = clock'
        BY <3>1 DEF Logs
      <3>3. CreatesParagraph(e)' <=> ~Live(p)
        BY <3>1 DEF Logs, CreatesParagraph, Creations
      <3>4. e.version = 1 <=> ~Live(p)
        <4>1. Live(p) => para[p].baseVersion \in Nat \ {0}
          BY DEF KeysDistinct
        <4>2. \/ InSpec(p, s) /\ para'[p].baseVersion = para[p].baseVersion + 1
              \/ ~Live(p) /\ para'[p].baseVersion = 1
          BY DEF Logs, Rewrites
        <4>3. e.version = para'[p].baseVersion
          BY <3>1, NewRowIs
        <4> QED
          BY <4>1, <4>2, <4>3 DEF InSpec
      <3> QED
        BY <1>1, <3>2, <3>3, <3>4
    <2> QED
      BY <2>1, <2>2
  <1> QED
    BY <1>1, <1>2 DEF LogTells

-----------------------------------------------------------------------------
(* What the views read of a row, while others write. *)

(* In a row's history versions and generations rise together, so any part of *)
(* it has a latest row, and the latest of all says what the row says.       *)
LEMMA LatestOf ==
    ASSUME HistoryInv, KeysDistinct, NEW p \in Paras, NEW S \in SUBSET RowsOf(p), S # {}
    PROVE  /\ Latest(S) \in S
           /\ \A f \in S : f = Latest(S) \/ (/\ f.contentVersion < Latest(S).contentVersion
                                            /\ f.version < Latest(S).version)
  <1>1. \A e \in S : /\ e \in hist /\ e \in VersionRow /\ e.para = p /\ Live(p)
                     /\ e.version \in 1..para[p].baseVersion
    BY DEF RowsOf, HistoryInv, TypeOK, HistoryTracksRows, InSpec
  <1>2. Live(p) /\ para[p].baseVersion \in Nat
    BY <1>1 DEF HistoryInv, TypeOK, Live, ParaRow
  <1> DEFINE V == {e.version : e \in S}
  <1>3. V \in SUBSET Nat /\ V # {} /\ \A n \in V : n <= para[p].baseVersion
    BY <1>1, <1>2
  <1>4. PICK n \in V : \A m \in V : m <= n
    <2> HIDE DEF V
    <2> QED
      BY <1>2, <1>3, GreatestOf
  <1>5. PICK e \in S : e.version = n
    BY <1>4
  <1>6. ASSUME NEW f \in S, f # e
        PROVE  f.version < e.version /\ f.contentVersion < e.contentVersion
    <2>1. f.version <= e.version /\ f.version # e.version
      BY <1>1, <1>4, <1>5, <1>6 DEF KeysDistinct
    <2>2. f.version < e.version
      BY <1>1, <2>1
    <2> QED
      BY <1>1, <2>2 DEF HistoryInv, HistoryOrdered
  <1>7. Latest(S) = e
    BY <1>1, <1>6, LatestIs
  <1> QED
    BY <1>5, <1>6, <1>7

LEMMA TipIs ==
    ASSUME HistoryInv, KeysDistinct, NEW p \in Paras, RowsOf(p) # {}
    PROVE  /\ Latest(RowsOf(p)).version = para[p].baseVersion
           /\ Latest(RowsOf(p)).text = para[p].text
  <1> DEFINE e == Latest(RowsOf(p))
  <1>1. e \in RowsOf(p) /\ \A f \in RowsOf(p) : f = e \/ f.version < e.version
    BY LatestOf
  <1> HIDE DEF e
  <1>2. /\ e \in hist /\ e.para = p /\ Live(p) /\ e.version \in 1..para[p].baseVersion
        /\ e.version = para[p].baseVersion => e.text = para[p].text
    BY <1>1 DEF RowsOf, HistoryInv, HistoryTracksRows, InSpec
  <1>3. para[p].baseVersion \in Nat
    BY <1>2 DEF HistoryInv, TypeOK, Live, ParaRow
  <1>4. ASSUME e.version # para[p].baseVersion  PROVE FALSE
    <2>1. para[p].baseVersion \in 2..para[p].baseVersion
      BY <1>2, <1>3, <1>4
    <2>2. PICK f \in hist : f.para = p /\ f.version = para[p].baseVersion
      BY <1>2, <2>1 DEF HistoryInv, HistoryTracksRows
    <2>3. f \in RowsOf(p)
      BY <2>2 DEF RowsOf
    <2> QED
      BY <1>1, <1>2, <1>3, <1>4, <2>2, <2>3
  <1> QED
    BY <1>2, <1>4 DEF e

(* A row that stays, with its history and log up to the generation its spec  *)
(* had reached; it has been written if there is more.                       *)
Keeps(p) ==
    /\ Live(p) /\ Live(p)'
    /\ para'[p].spec = para[p].spec /\ para'[p].parent = para[p].parent
    /\ RowsOf(p) \subseteq RowsOf(p)'
    /\ \A e \in RowsOf(p) : log'[e] = log[e]
    /\ \A e \in RowsOf(p)' : e \in RowsOf(p) \/
          (e.contentVersion = spec[para[p].spec].contentVersion + 1 /\ ~CreatesParagraph(e)')
    /\ RowsOf(p)' = RowsOf(p) => para'[p].text = para[p].text

LEMMA KeptLineage ==
    ASSUME TypeOK, RowsHang, NEW x \in Specs, \A p \in Rows(x) : Keeps(p)
    PROVE  \A p \in Rows(x) : /\ Lineage'[p] = Lineage[p]
                              /\ p \in Lineage[p] /\ Lineage[p] \subseteq Rows(x)
  <1> DEFINE Q == Rows(x)
  <1>1. Q \in SUBSET Paras
    BY DEF Rows
  <1>2. ASSUME NEW p \in Q
        PROVE  /\ Live(p) /\ para'[p] # NoRow
               /\ para'[p].parent = para[p].parent
               /\ para[p].parent # NoPara => para[p].parent \in Q
    <2>1. Keeps(p) /\ p \in Paras /\ para[p].spec = x
      BY DEF Rows, InSpec
    <2>2. para[p].parent \in Paras \cup {NoPara}
      BY <2>1 DEF Keeps, TypeOK, Live, ParaRow
    <2>3. para[p].parent # NoPara => InSpec(para[p].parent, x)
      BY <2>1 DEF Keeps, RowsHang
    <2> QED
      BY <2>1, <2>2, <2>3 DEF Keeps, Live, Rows
  <1>3. \A p \in Q : Lineage'[p] = Lineage[p]
    <2> HIDE DEF Q
    <2> QED
      BY <1>1, <1>2, LineageStays
  <1>4. \A p \in Q : p \in Lineage[p] /\ Lineage[p] \subseteq Q
    BY LineageWithin DEF Rows, InSpec
  <1> QED
    BY <1>3, <1>4

(* Up to the generation its spec had reached nothing changes.               *)
LEMMA KeptRow ==
    ASSUME HistoryInv, KeysDistinct, NEW x \in Specs, NEW p \in Rows(x), Keeps(p),
           NEW v \in Nat, v <= spec[x].contentVersion
    PROVE  /\ RowsUpTo(p, v)' = RowsUpTo(p, v)
           /\ OwnVisible(p, v)' <=> OwnVisible(p, v)
           /\ (\E e \in RowsOf(p) : CreatesParagraph(e))' <=> \E e \in RowsOf(p) : CreatesParagraph(e)
           /\ OnRecord(p, v)' => OnRecord(p, v)
           /\ OnRecord(p, v)' => \/ TextAsOf(p, v)' = TextAsOf(p, v)
                                 \/ ~OwnVisible(p, v)
  <1>0. p \in Paras /\ para[p].spec = x /\ spec[x].contentVersion \in Nat
    BY DEF Rows, InSpec, HistoryInv, TypeOK, SpecRow
  <1>1. ASSUME NEW e \in RowsOf(p)'
        PROVE  e \in RowsOf(p) \/ (~(e.contentVersion <= v) /\ ~CreatesParagraph(e)')
    BY <1>0, <1>1 DEF Keeps
  <1>2. RowsUpTo(p, v)' = RowsUpTo(p, v)
    BY <1>1 DEF RowsUpTo, Keeps
  <1>3. RowsUpTo(p, v) \subseteq RowsOf(p) /\ \A e \in RowsOf(p) : log'[e] = log[e]
    BY DEF RowsUpTo, Keeps
  <1>4. Switches(RowsUpTo(p, v))' = Switches(RowsUpTo(p, v))
    BY <1>2, <1>3 DEF Switches
  <1>5. Switches(RowsUpTo(p, v)) # {} =>
           LET e == Latest(Switches(RowsUpTo(p, v))) IN log'[e] = log[e]
    <2>1. Switches(RowsUpTo(p, v)) \in SUBSET RowsOf(p)
      BY <1>3 DEF Switches
    <2> QED
      BY <1>0, <1>3, <2>1, LatestOf
  <1> DEFINE C == {e \in RowsOf(p) : CreatesParagraph(e)}
  <1>6. C' = C
    <2>1. \A e \in RowsOf(p) : CreatesParagraph(e)' <=> CreatesParagraph(e)
      BY <1>3 DEF CreatesParagraph
    <2>2. RowsOf(p) \subseteq RowsOf(p)'
      BY DEF Keeps
    <2> QED
      BY <1>1, <2>1, <2>2
  <1>7. /\ (\E e \in RowsOf(p) : CreatesParagraph(e)) <=> C # {}
        /\ (\E e \in RowsOf(p) : CreatesParagraph(e))' <=> C' # {}
    OBVIOUS
  <1>8. /\ OwnVisible(p, v) <=> IF Switches(RowsUpTo(p, v)) # {}
                                THEN log[Latest(Switches(RowsUpTo(p, v)))].op # "remove"
                                ELSE \A e \in C : e.contentVersion <= v
        /\ OwnVisible(p, v)' <=> IF Switches(RowsUpTo(p, v))' # {}
                                 THEN log'[Latest(Switches(RowsUpTo(p, v))')].op # "remove"
                                 ELSE \A e \in C' : e.contentVersion <= v
    BY DEF OwnVisible, Latest
  <1> HIDE DEF C
  <1>9. OwnVisible(p, v)' <=> OwnVisible(p, v)
    BY <1>4, <1>5, <1>6, <1>8
  <1>10. RowsOf(p)' = {} => RowsOf(p) = {}
    BY DEF Keeps
  <1>11. OnRecord(p, v)' => OnRecord(p, v)
    BY <1>2, <1>6, <1>7, <1>10 DEF OnRecord
  <1>12. ASSUME OnRecord(p, v)', OwnVisible(p, v)  PROVE TextAsOf(p, v)' = TextAsOf(p, v)
    <2>1. CASE RowsUpTo(p, v) # {}
      BY <1>2, <2>1 DEF TextAsOf, Latest
    <2>2. CASE RowsUpTo(p, v) = {}
      <3>1. Switches(RowsUpTo(p, v)) = {}
        BY <2>2 DEF Switches
      <3>2. \A e \in C : ~(e.contentVersion <= v)
        BY <2>2 DEF RowsUpTo, C
      <3>3. C = {}
        BY <1>8, <1>12, <3>1, <3>2
      <3>4. RowsOf(p)' = {}
        BY <1>2, <1>6, <1>7, <1>12, <2>2, <3>3 DEF OnRecord
      <3>5. para'[p].text = para[p].text
        BY <1>10, <3>4 DEF Keeps
      <3> QED
        BY <1>2, <2>2, <3>5 DEF TextAsOf
    <2> QED
      BY <2>1, <2>2
  <1> QED
    BY <1>2, <1>6, <1>7, <1>9, <1>11, <1>12

(* So what a generation is recalled as is what it was recalled as.          *)
LEMMA KeptRecall ==
    ASSUME HistoryInv, KeysDistinct, RowsHang, NEW x \in Specs, \A p \in Rows(x) : Keeps(p),
           NEW v \in Nat, v <= spec[x].contentVersion, past'[x][v] = past[x][v],
           past'[x][importedAt'[x]] = past[x][importedAt[x]],
           NEW p \in Rows(x), Recalls(x, v, p)
    PROVE  Recalls(x, v, p)'
  <1> SUFFICES ASSUME \A a \in Lineage'[p] : OnRecord(a, v)' /\ ImportedVisible(x, a)'
               PROVE  SnapshotAt(x, v)'[p] = past'[x][v][p]
    BY DEF Recalls
  <1>1. Lineage'[p] = Lineage[p] /\ p \in Lineage[p] /\ Lineage[p] \subseteq Rows(x)
    BY KeptLineage DEF HistoryInv
  <1>2. ASSUME NEW a \in Lineage[p]
        PROVE  /\ OnRecord(a, v) /\ ImportedVisible(x, a)
               /\ OwnVisible(a, v)' <=> OwnVisible(a, v)
               /\ TextAsOf(a, v)' = TextAsOf(a, v) \/ ~OwnVisible(a, v)
    <2>1. a \in Rows(x) /\ Keeps(a) /\ OnRecord(a, v)' /\ ImportedVisible(x, a)'
      BY <1>1
    <2> QED
      BY <2>1, KeptRow DEF ImportedVisible
  <1>3. SnapshotAt(x, v)[p] = past[x][v][p]
    BY <1>2 DEF Recalls
  <1>4. p \in Paras /\ InSpec(p, x) /\ InSpec(p, x)'
    BY DEF Rows, Keeps, InSpec
  <1>5. /\ SnapshotAt(x, v)[p] = IF \A a \in Lineage[p] : OwnVisible(a, v)
                                THEN TextAsOf(p, v) ELSE NoText
        /\ SnapshotAt(x, v)'[p] = IF \A a \in Lineage'[p] : OwnVisible(a, v)'
                                 THEN TextAsOf(p, v)' ELSE NoText
    BY <1>4 DEF SnapshotAt
  <1> QED
    BY <1>1, <1>2, <1>3, <1>5

(* A row that is not written at all.                                        *)
Untouched(p) ==
    /\ Keeps(p) /\ RowsOf(p)' = RowsOf(p)
    /\ RemovedRoot(p)' <=> RemovedRoot(p)

LEMMA UntouchedShown ==
    ASSUME TypeOK, RowsHang, NEW x \in Specs, Rows(x)' = Rows(x),
           \A p \in Rows(x) : Untouched(p)
    PROVE  Shown(x)' = Shown(x)
  <1>1. \A p \in Rows(x) : /\ Lineage'[p] = Lineage[p] /\ Lineage[p] \subseteq Rows(x)
                           /\ Keeps(p) /\ para'[p].text = para[p].text
    BY KeptLineage DEF Untouched, Keeps
  <1>2. \A p \in Paras : (p \in Rows(x) <=> InSpec(p, x)) /\ (p \in Rows(x)' <=> InSpec(p, x)')
    BY DEF Rows
  <1>3. ASSUME NEW p \in Paras
        PROVE  (IF InSpec(p, x) /\ \A a \in Lineage[p] : ~RemovedRoot(a) THEN para[p].text ELSE NoText)'
               = IF InSpec(p, x) /\ \A a \in Lineage[p] : ~RemovedRoot(a) THEN para[p].text ELSE NoText
    <2>1. CASE InSpec(p, x)
      <3>1. p \in Rows(x) /\ InSpec(p, x)'
        BY <1>2, <2>1
      <3>2. (\A a \in Lineage[p] : ~RemovedRoot(a))' <=> \A a \in Lineage[p] : ~RemovedRoot(a)
        BY <1>1, <3>1 DEF Untouched
      <3> QED
        BY <1>1, <2>1, <3>1, <3>2
    <2>2. CASE ~InSpec(p, x)
      BY <1>2, <2>2
    <2> QED
      BY <2>1, <2>2
  <1> QED
    BY <1>3 DEF Shown

LEMMA UntouchedVanish ==
    ASSUME HistoryInv, KeysDistinct, NEW p \in Paras, Untouched(p), VanishTells(p),
           past'[para[p].spec][importedAt'[para[p].spec]] = past[para[p].spec][importedAt[para[p].spec]]
    PROVE  VanishTells(p)'
  <1>1. /\ RowsOf(p)' = RowsOf(p) /\ \A e \in RowsOf(p) : log'[e] = log[e]
        /\ RemovedRoot(p)' <=> RemovedRoot(p)
        /\ para'[p].spec = para[p].spec
    BY DEF Untouched, Keeps
  <1>2. Switches(RowsOf(p))' = Switches(RowsOf(p))
    BY <1>1 DEF Switches
  <1>3. Switches(RowsOf(p)) # {} =>
           LET e == Latest(Switches(RowsOf(p))) IN log'[e] = log[e]
    <2>1. Switches(RowsOf(p)) \in SUBSET RowsOf(p)
      BY DEF Switches
    <2> QED
      BY <1>1, <2>1, LatestOf
  <1>4. ImportedVisible(para[p].spec, p)' <=> ImportedVisible(para[p].spec, p)
    BY <1>1 DEF ImportedVisible, CreatesParagraph
  <1>5. /\ VanishTells(p) <=> IF Switches(RowsOf(p)) # {}
                             THEN log[Latest(Switches(RowsOf(p)))].op = "remove" <=> RemovedRoot(p)
                             ELSE ImportedVisible(para[p].spec, p) => ~RemovedRoot(p)
        /\ VanishTells(p)' <=> IF Switches(RowsOf(p))' # {}
                              THEN log'[Latest(Switches(RowsOf(p))')].op = "remove" <=> RemovedRoot(p)'
                              ELSE ImportedVisible(para[p].spec, p)' => ~RemovedRoot(p)'
    BY DEF VanishTells, Latest
  <1> QED
    BY <1>1, <1>2, <1>3, <1>4, <1>5

(* What the tables say now is what the log recalls of the generation that   *)
(* is open.                                                                 *)
LEMMA NowIsRecalled ==
    ASSUME ViewsInv, NEW s \in Specs, Exists(s), NEW p \in Rows(s),
           \A a \in Lineage[p] : ImportedVisible(s, a)
    PROVE  SnapshotAt(s, spec[s].contentVersion)[p] = Shown(s)[p]
  <1> DEFINE v == spec[s].contentVersion
  <1>1. v \in Nat /\ p \in Paras /\ InSpec(p, s)
    BY DEF ViewsInv, HistoryInv, TypeOK, SpecRow, Rows
  <1>2. \A a \in Lineage[p] : a \in Paras /\ InSpec(a, s) /\ Live(a)
    BY <1>1, LineageWithin DEF ViewsInv, HistoryInv, InSpec
  <1>3. ASSUME NEW a \in Paras, InSpec(a, s)  PROVE RowsUpTo(a, v) = RowsOf(a)
    <2>1. \A e \in RowsOf(a) : e.contentVersion <= v
      BY <1>3 DEF ViewsInv, HistoryInv, HistoryOrdered, HistoryTracksRows, RowsOf, InSpec
    <2> QED
      BY <2>1 DEF RowsUpTo
  <1>4. ASSUME NEW a \in Lineage[p]  PROVE OwnVisible(a, v) <=> ~RemovedRoot(a)
    <2>1. RowsUpTo(a, v) = RowsOf(a) /\ VanishTells(a) /\ ImportedVisible(para[a].spec, a)
      BY <1>2, <1>3 DEF ViewsInv, InSpec
    <2>2. \A e \in {f \in RowsOf(a) : CreatesParagraph(f)} : e.contentVersion <= v
      BY <2>1 DEF RowsUpTo
    <2> QED
      BY <2>1, <2>2 DEF OwnVisible, VanishTells
  <1>5. TextAsOf(p, v) = para[p].text
    BY <1>1, <1>3, TipIs DEF TextAsOf, ViewsInv
  <1> HIDE DEF v
  <1> QED
    BY <1>1, <1>4, <1>5 DEF SnapshotAt, Shown, v

(* A generation that opens is remembered, and none is forgotten.            *)
LEMMA PastGrows ==
    ASSUME TypeOK', PastTells, NEW s \in Specs, Remembered, spec[s].contentVersion \in Nat,
           spec'[s].contentVersion = spec[s].contentVersion + 1,
           \A x \in Specs \ {s} : spec'[x].contentVersion = spec[x].contentVersion /\
                                  spec[x].contentVersion \in Nat
    PROVE  /\ past' \in [Specs -> Seq(Generation)]
           /\ \A x \in Specs : Len(past'[x]) = spec'[x].contentVersion
           /\ \A x \in Specs \ {s} : past'[x] = past[x]
           /\ \A v \in 1..spec[s].contentVersion : past'[s][v] = past[s][v]
           /\ past'[s][spec'[s].contentVersion] = Shown(s)'
  <1>1. Shown(s)' \in Generation
    <2>1. \A p \in Paras : InSpec(p, s)' => para'[p].text \in Texts
      BY DEF TypeOK, InSpec, Live, ParaRow
    <2> QED
      BY <2>1 DEF Shown, Generation
  <1>2. /\ past \in [Specs -> Seq(Generation)]
        /\ \A x \in Specs : Len(past[x]) = spec[x].contentVersion
    BY DEF PastTells
  <1>3. /\ past' = [x \in Specs |-> past'[x]]
        /\ past'[s] = Append(past[s], Shown(s)')
        /\ \A x \in Specs \ {s} : past'[x] = past[x]
    BY DEF Remembered
  <1>4. /\ Append(past[s], Shown(s)') \in Seq(Generation)
        /\ Len(Append(past[s], Shown(s)')) = Len(past[s]) + 1
        /\ Append(past[s], Shown(s)')[Len(past[s]) + 1] = Shown(s)'
        /\ \A v \in 1..Len(past[s]) : Append(past[s], Shown(s)')[v] = past[s][v]
    <2> DEFINE g == Shown(s)'
    <2>1. g \in Generation /\ past[s] \in Seq(Generation)
      BY <1>1, <1>2
    <2> HIDE DEF g
    <2>2. /\ Append(past[s], g) \in Seq(Generation)
          /\ Len(Append(past[s], g)) = Len(past[s]) + 1
          /\ Append(past[s], g)[Len(past[s]) + 1] = g
          /\ \A v \in 1..Len(past[s]) : Append(past[s], g)[v] = past[s][v]
      BY <2>1
    <2> QED
      BY <2>2 DEF g
  <1> QED
    BY <1>2, <1>3, <1>4

(* A user's request: every row there was is kept, and only those of T, of    *)
(* its spec, are touched.                                                   *)
LEMMA UserKeepsRows ==
    ASSUME HistoryInv, NEW s \in Specs, NEW T \in SUBSET Paras, NEW user, NEW op,
           Logs(s, T, user, op), NEW p \in Paras, Live(p)
    PROVE  /\ Keeps(p)
           /\ p \notin T => Untouched(p)
           /\ p \in T => /\ RowsOf(p)' = RowsOf(p) \cup {NewRow(s, p)}
                         /\ op \notin Creations /\ log'[NewRow(s, p)].op = op
                         /\ RemovedRoot(p)' <=> Toggled(p, op)
  <1>1. /\ Rewrites(s, T) /\ RowMoves(s, op) /\ \A e \in hist : log'[e] = log[e]
    BY DEF Logs
  <1>2. Live(p)' /\ para'[p].parent = para[p].parent /\ para'[p].spec = para[p].spec
    BY <1>1, RowsRemain
  <1>3. /\ RowsOf(p)' = IF p \in T THEN RowsOf(p) \cup {NewRow(s, p)} ELSE RowsOf(p)
        /\ \A e \in RowsOf(p) : log'[e] = log[e]
    BY <1>1, HistoryGrows DEF RowsOf
  <1>4. CASE p \notin T
    <2>1. para'[p].text = para[p].text /\ para'[p].baseVersion = para[p].baseVersion
      BY <1>1, <1>4 DEF Rewrites
    <2>2. RemovedRoot(p)' <=> RemovedRoot(p)
      BY <1>1, <2>1 DEF RowMoves, StaysPut
    <2> QED
      BY <1>2, <1>3, <1>4, <2>1, <2>2 DEF Keeps, Untouched
  <1>5. CASE p \in T
    <2>1. /\ para[p].spec = s /\ NewRow(s, p) \notin hist
          /\ NewRow(s, p).contentVersion = spec[s].contentVersion + 1
          /\ log'[NewRow(s, p)].op = op /\ op \notin Creations
      BY <1>1, <1>2, <1>5, NewRowIs DEF Logs, Rewrites
    <2>2. \A e : e = NewRow(s, p) => ~CreatesParagraph(e)'
      BY <2>1 DEF CreatesParagraph, Creations
    <2>3. NewRow(s, p) \notin RowsOf(p)
      BY <2>1 DEF RowsOf
    <2>4. RemovedRoot(p)' <=> Toggled(p, op)
      <3>1. para'[p].baseVersion = para[p].baseVersion + 1 /\ para[p].baseVersion \in Nat
        BY <1>1, <1>5 DEF Rewrites, HistoryInv, TypeOK, Live, ParaRow
      <3> QED
        BY <1>1, <3>1 DEF RowMoves, StaysPut
    <2> QED
      BY <1>2, <1>3, <1>5, <2>1, <2>2, <2>3, <2>4 DEF Keeps
  <1> QED
    BY <1>4, <1>5

LEMMA UserKeepsVanish ==
    ASSUME HistoryInv, KeysDistinct, \A p \in Paras : Live(p) => VanishTells(p), TypeOK',
           NEW s \in Specs, NEW T \in SUBSET Paras, NEW user, NEW op \in UserOps,
           Logs(s, T, user, op),
           \A p \in Paras : Live(p) => past'[para[p].spec][importedAt'[para[p].spec]] =
                                       past[para[p].spec][importedAt[para[p].spec]],
           NEW p \in Paras, Live(p)'
    PROVE  VanishTells(p)'
  <1> DEFINE new == NewRow(s, p)
             sw == Switches(RowsOf(p))
             toggles == {"remove", "restore", "insert"}
  <1>0. Rewrites(s, T) /\ RowMoves(s, op)
    BY DEF Logs
  <1>1. CASE Live(p) /\ p \notin T
    BY <1>1, UserKeepsRows, UntouchedVanish
  <1>2. ASSUME p \in T, sw' = {new}  \/ (Live(p) /\ sw' = sw \cup {new})
        PROVE  Latest(sw') = new
    <2>1. \A e \in sw : e \in VersionRow /\ e.contentVersion <= spec[s].contentVersion
                        /\ spec[s].contentVersion \in Nat
      <3>1. Live(p) => para[p].spec = s
        BY <1>0, <1>2, RowsRemain
      <3>2. \A e \in sw : e \in RowsOf(p)
        BY DEF Switches
      <3> QED
        BY <1>0, <1>2, <3>1, <3>2, HistoryGrows DEF HistoryInv, TypeOK, SpecRow
    <2>2. new.contentVersion = spec[s].contentVersion + 1
      BY NewRowIs
    <2>3. new \in hist'
      BY <1>0, <1>2 DEF Rewrites, NewRow
    <2>4. new \in VersionRow
      BY <2>3 DEF TypeOK
    <2> HIDE DEF new, sw
    <2>5. sw' \in SUBSET VersionRow /\ new \in sw'
          /\ \A f \in sw' : f = new \/ f.contentVersion < new.contentVersion
      BY <1>2, <2>1, <2>2, <2>4 DEF VersionRow
    <2> QED
      BY <2>5, LatestIs
  <1>3. CASE Live(p) /\ p \in T
    <2>1. /\ RowsOf(p)' = RowsOf(p) \cup {new} /\ op \notin Creations /\ log'[new].op = op
          /\ RemovedRoot(p)' <=> Toggled(p, op)
          /\ Keeps(p)
      BY <1>3, UserKeepsRows
    <2>2. \A e \in RowsOf(p) : log'[e] = log[e]
      BY <2>1 DEF Keeps
    <2>3. CASE op \in toggles
      <3>1. sw' = sw \cup {new}
        BY <2>1, <2>2, <2>3 DEF Switches
      <3>2. Latest(sw') = new
        BY <1>2, <1>3, <3>1
      <3>3. op \in {"remove", "restore"}
        BY <2>1, <2>3 DEF Creations
      <3> QED
        BY <2>1, <3>1, <3>2, <3>3 DEF VanishTells, Toggled
    <2>4. CASE op \notin toggles
      <3>1. sw' = sw
        BY <2>1, <2>2, <2>4 DEF Switches
      <3>2. RemovedRoot(p)' <=> RemovedRoot(p)
        BY <2>1, <2>4 DEF Toggled
      <3>3. VanishTells(p) /\ para'[p].spec = para[p].spec
        BY <1>3, <2>1 DEF Keeps
      <3>4. CASE sw # {}
        <4>1. Latest(sw) \in RowsOf(p)
          BY <3>4, LatestOf DEF Switches
        <4>2. log'[Latest(sw)] = log[Latest(sw)]
          BY <2>2, <4>1
        <4>3. Latest(sw') = Latest(sw)
          BY <3>1 DEF Latest
        <4> QED
          BY <3>1, <3>2, <3>3, <3>4, <4>2, <4>3 DEF VanishTells
      <3>5. CASE sw = {}
        <4>1. ImportedVisible(para[p].spec, p)' => ImportedVisible(para[p].spec, p)
          BY <1>3, <2>1, <2>2, <3>3 DEF ImportedVisible, CreatesParagraph, Creations
        <4> QED
          BY <3>1, <3>2, <3>3, <3>5, <4>1 DEF VanishTells
      <3> QED
        BY <3>4, <3>5
    <2> QED
      BY <2>3, <2>4
  <1>4. CASE ~Live(p)
    <2>1. p \in T /\ ~RemovedRoot(p)' /\ para'[p].spec = s
      BY <1>0, <1>4, RowsRemain DEF ComesIn
    <2>2. RowsOf(p) = {}
      BY <1>0, <1>4, HistoryGrows
    <2>3. RowsOf(p)' = {new}
      BY <1>0, <2>1, <2>2, HistoryGrows
    <2>4. log'[new].op \in Creations
      BY <1>4, <2>1 DEF Logs
    <2>5. CASE log'[new].op = "insert"
      <3>1. sw' = {new}
        BY <2>3, <2>5 DEF Switches
      <3>2. Latest(sw') = new
        BY <1>2, <2>1, <3>1
      <3> QED
        BY <2>1, <2>5, <3>1, <3>2 DEF VanishTells
    <2>6. CASE log'[new].op = "accept-note"
      <3>1. sw' = {}
        BY <2>3, <2>6 DEF Switches
      <3> QED
        BY <2>1, <3>1 DEF VanishTells
    <2> QED
      BY <2>4, <2>5, <2>6 DEF Creations
  <1> QED
    BY <1>1, <1>3, <1>4

(* The past is kept, and what was open is recalled as it was.               *)
LEMMA UserKeepsPast ==
    ASSUME ViewsInv, TypeOK', NEW s \in Specs, NEW T \in SUBSET Paras, NEW user, NEW op \in UserOps,
           Logs(s, T, user, op), Exists(s), Remembered, UNCHANGED importedAt
    PROVE  /\ PastTells'
           /\ \A x \in Specs : Exists(x) => past'[x][importedAt'[x]] = past[x][importedAt[x]]
  <1>0. /\ TypeOK /\ HistoryInv /\ KeysDistinct /\ RowsHang /\ PastTells
        /\ Rewrites(s, T) /\ RowMoves(s, op)
        /\ \A x \in Specs : spec[x].contentVersion \in Nat
        /\ drawn \in Nat /\ drawn' \in Nat /\ Paras \in SUBSET Nat
    BY SizesAssumption DEF ViewsInv, HistoryInv, TypeOK, SpecRow, Logs, RowMoves, Paras
  <1>1. /\ spec'[s].contentVersion = spec[s].contentVersion + 1
        /\ \A x \in Specs \ {s} : spec'[x].contentVersion = spec[x].contentVersion
    BY <1>0 DEF Rewrites
  <1>2. /\ past' \in [Specs -> Seq(Generation)]
        /\ \A x \in Specs : Len(past'[x]) = spec'[x].contentVersion
        /\ \A x \in Specs \ {s} : past'[x] = past[x]
        /\ \A v \in 1..spec[s].contentVersion : past'[s][v] = past[s][v]
        /\ past'[s][spec'[s].contentVersion] = Shown(s)'
    BY <1>0, <1>1, PastGrows
  <1>3. /\ importedAt \in [Specs -> Nat] /\ importedAt' = importedAt
        /\ \A x \in Specs : Len(past[x]) = spec[x].contentVersion
        /\ \A x \in Specs : Exists(x) => /\ importedAt[x] \in 1..spec[x].contentVersion
                                         /\ past[x][spec[x].contentVersion] = Shown(x)
    BY <1>0 DEF PastTells
  <1>4. \A x \in Specs : Exists(x)' <=> Exists(x)
    BY <1>0, <1>1 DEF Exists
  <1>5. \A x \in Specs : \A v \in 1..spec[x].contentVersion : past'[x][v] = past[x][v]
    BY <1>2
  <1>6. \A x \in Specs : Exists(x) => past'[x][importedAt'[x]] = past[x][importedAt[x]]
    BY <1>3, <1>5
  <1>7. ASSUME NEW x \in Specs, NEW p \in Rows(x)
        PROVE  p \in Paras /\ Live(p) /\ Keeps(p) /\ (x # s => Untouched(p))
    <2>1. p \in Paras /\ Live(p) /\ para[p].spec = x
      BY DEF Rows, InSpec
    <2>2. p \in T => para'[p].spec = s
      BY <1>0 DEF Rewrites
    <2> QED
      BY <1>0, <2>1, <2>2, UserKeepsRows DEF Keeps
  <1>8. ASSUME NEW x \in Specs, NEW p \in Rows(x)', p \notin Rows(x)
        PROVE  x = s /\ p \in Paras /\ p \in T /\ ~Live(p) /\ ComesIn(p, s)
    <2>1. p \in Paras /\ Live(p)' /\ para'[p].spec = x
      BY <1>8 DEF Rows, InSpec, Live
    <2> QED
      BY <1>0, <1>8, <2>1, RowsRemain DEF Rows, InSpec
  <1>9. ASSUME NEW x \in Specs, Exists(x)'
        PROVE  /\ importedAt'[x] \in 1..spec'[x].contentVersion
               /\ past'[x][spec'[x].contentVersion] = Shown(x)'
    <2>1. importedAt'[x] \in 1..spec'[x].contentVersion
      BY <1>0, <1>1, <1>3, <1>4, <1>9
    <2>2. CASE x = s
      BY <1>2, <2>1, <2>2
    <2>3. CASE x # s
      <3>1. Rows(x)' = Rows(x)
        <4>1. \A p \in Rows(x) : p \in Rows(x)'
          BY <1>7 DEF Keeps, Rows, InSpec
        <4> QED
          BY <1>8, <2>3, <4>1
      <3>2. Shown(x)' = Shown(x)
        BY <1>0, <1>7, <2>3, <3>1, UntouchedShown
      <3> QED
        BY <1>1, <1>2, <1>3, <1>4, <1>9, <2>1, <2>3, <3>2
    <2> QED
      BY <2>2, <2>3
  <1>10. ASSUME NEW x \in Specs, NEW v \in 1..Len(past'[x]), NEW p \in Paras, p > drawn'
         PROVE  past'[x][v][p] = NoText
    <2>1. p > drawn
      BY <1>0, <1>10 DEF RowMoves
    <2>2. CASE v \in 1..spec[x].contentVersion
      <3>1. past[x][v][p] = NoText
        BY <1>0, <1>3, <2>1, <2>2 DEF PastTells
      <3> QED
        BY <1>5, <2>2, <3>1
    <2>3. CASE v \notin 1..spec[x].contentVersion
      <3>1. x = s /\ v = spec'[s].contentVersion
        <4>1. /\ v \in 1..spec'[x].contentVersion
              /\ spec[x].contentVersion \in Nat /\ spec[s].contentVersion \in Nat
          <5>1. Len(past'[x]) = spec'[x].contentVersion
            BY <1>2
          <5>2. v \in 1..Len(past'[x])
            BY <1>10
          <5> QED
            BY <1>0, <5>1, <5>2
        <4>2. x = s
          BY <1>1, <2>3, <4>1
        <4> QED
          BY <1>1, <2>3, <4>1, <4>2
      <3>2. ~Live(p)'
        BY <1>10 DEF TypeOK, Live
      <3>3. Shown(s)'[p] = NoText
        BY <3>2 DEF Shown, InSpec
      <3> QED
        BY <1>2, <3>1, <3>3
    <2> QED
      BY <2>2, <2>3
  <1>11. ASSUME NEW x \in Specs, NEW v \in importedAt'[x]..(spec'[x].contentVersion - 1),
                NEW p \in Rows(x)', Exists(x)'
         PROVE  Recalls(x, v, p)'
    <2>1. /\ v \in Nat /\ v >= 1 /\ v <= spec[x].contentVersion
          /\ v \in importedAt[x]..spec[x].contentVersion
          /\ x # s => v \in importedAt[x]..(spec[x].contentVersion - 1)
      <3>1. Exists(x) /\ importedAt[x] \in Nat /\ importedAt[x] >= 1
        BY <1>3, <1>4, <1>11
      <3> QED
        BY <1>0, <1>1, <1>3, <1>11, <3>1
    <2>2. CASE p \in Rows(x)
      <3>1. Recalls(x, v, p)
        <4>1. CASE v <= spec[x].contentVersion - 1
          <5>1. v \in importedAt[x]..(spec[x].contentVersion - 1)
            BY <1>0, <2>1, <4>1
          <5> QED
            BY <1>0, <1>4, <1>11, <2>2, <5>1 DEF PastTells
        <4>2. CASE v = spec[x].contentVersion
          BY <1>3, <1>4, <1>11, <2>2, <4>2, NowIsRecalled DEF Recalls
        <4> QED
          BY <1>0, <2>1, <4>1, <4>2
      <3>2. past'[x][v] = past[x][v] /\ past'[x][importedAt'[x]] = past[x][importedAt[x]]
        BY <1>4, <1>5, <1>6, <1>11, <2>1
      <3> QED
        BY <1>0, <1>7, <2>1, <2>2, <3>1, <3>2, KeptRecall
    <2>3. CASE p \notin Rows(x)
      <3>1. x = s /\ p \in Paras /\ p \in T /\ ~Live(p) /\ ComesIn(p, s)
        BY <1>8, <2>3
      <3>2. RowsOf(p)' = {NewRow(s, p)} /\ ~(NewRow(s, p).contentVersion <= v)
        <4>1. RowsOf(p) = {}
          BY <1>0, <3>1, HistoryGrows
        <4>2. RowsOf(p)' = {NewRow(s, p)}
          BY <1>0, <3>1, <4>1, HistoryGrows
        <4>3. v \in Nat /\ v <= spec[s].contentVersion /\ spec[s].contentVersion \in Nat
          BY <1>0, <2>1, <3>1
        <4>4. NewRow(s, p).contentVersion = spec[s].contentVersion + 1
          BY NewRowIs
        <4>5. ~(NewRow(s, p).contentVersion <= v)
          BY <4>3, <4>4
        <4> QED
          BY <4>2, <4>5
      <3>3. log'[NewRow(s, p)].op \in Creations
        BY <3>1 DEF Logs
      <3>4. RowsUpTo(p, v)' = {}
        BY <3>2 DEF RowsUpTo
      <3>5. ~OwnVisible(p, v)'
        <4>1. Switches(RowsUpTo(p, v))' = {}
          BY <3>4 DEF Switches
        <4>2. \E e \in RowsOf(p)' : CreatesParagraph(e)' /\ ~(e.contentVersion <= v)
          BY <3>2, <3>3 DEF CreatesParagraph, Creations
        <4> QED
          BY <4>1, <4>2 DEF OwnVisible
      <3>6. p \in Lineage'[p]
        BY <3>1, LineageWillBe DEF LineageFits
      <3>7. SnapshotAt(x, v)'[p] = NoText
        BY <3>1, <3>5, <3>6 DEF SnapshotAt
      <3>8. past'[x][v][p] = NoText
        <4>1. p > drawn
          BY <1>0, <3>1 DEF ComesIn
        <4>2. past[x][v][p] = NoText
          BY <1>0, <1>3, <2>1, <3>1, <4>1 DEF PastTells
        <4> QED
          BY <1>5, <2>1, <4>2
      <3> QED
        BY <3>7, <3>8 DEF Recalls
    <2> QED
      BY <2>2, <2>3
  <1> QED
    BY <1>2, <1>3, <1>6, <1>9, <1>10, <1>11 DEF PastTells

LEMMA UserStep ==
    ASSUME ViewsInv, NEW s \in Specs, NEW user \in Users, ByUser(user, s),
           Remembered, UNCHANGED importedAt
    PROVE  ViewsInv'
  <1>1. PICK T \in SUBSET Paras, op \in UserOps : Logs(s, T, user, op)
    BY UserLogs DEF ViewsInv
  <1>2. HistoryInv /\ HistoryInv' /\ TypeOK'
    <2>1. Next
      BY UserMoves DEF ViewsInv, Next
    <2> QED
      BY <2>1, NextHistory DEF ViewsInv, HistoryInv
  <1>3. Rewrites(s, T) /\ RowMoves(s, op)
    BY <1>1 DEF Logs
  <1>4. Exists(s)
    <2>1. \E p \in Paras : InSpec(p, s)
      BY UserMoves DEF ViewsInv
    <2> QED
      BY <2>1 DEF ViewsInv, RowsHang, InSpec
  <1>5. KeysDistinct' /\ RowsHang' /\ SealsTell' /\ LogTells'
    BY <1>1, <1>2, <1>3, UserKeepsKeys, UserKeepsTrees, UserKeepsSeals, UserKeepsLog DEF ViewsInv
  <1>6. /\ PastTells'
        /\ \A x \in Specs : Exists(x) => past'[x][importedAt'[x]] = past[x][importedAt[x]]
    BY <1>1, <1>2, <1>4, UserKeepsPast
  <1>7. ASSUME NEW p \in Paras, Live(p)
        PROVE  past'[para[p].spec][importedAt'[para[p].spec]] =
               past[para[p].spec][importedAt[para[p].spec]]
    <2>1. para[p].spec \in Specs /\ Exists(para[p].spec)
      BY <1>2, <1>7 DEF ViewsInv, RowsHang, HistoryInv, TypeOK, Live, ParaRow
    <2> QED
      BY <1>6, <2>1
  <1>8. \A p \in Paras : Live(p)' => VanishTells(p)'
    BY <1>1, <1>2, <1>7, UserKeepsVanish DEF ViewsInv
  <1> QED
    BY <1>2, <1>5, <1>6, <1>8 DEF ViewsInv

-----------------------------------------------------------------------------
(* A re-import. *)

(* The rows of the spec are new, without history; those of the others stay.  *)
Imports(s) ==
    /\ drawn \in Nat /\ drawn' \in Nat /\ drawn <= drawn'
    /\ spec'[s].contentVersion = spec[s].contentVersion + 1
    /\ \A x \in Specs : spec[x].contentVersion \in Nat
    /\ \A x \in Specs \ {s} : spec'[x].contentVersion = spec[x].contentVersion
    /\ sealed' = sealed /\ hist' \subseteq hist
    /\ \A p \in Rows(s)' : /\ p > drawn /\ ~Live(p) /\ RowsOf(p) = {} /\ RowsOf(p)' = {}
                           /\ para'[p].baseVersion = 1
                           /\ para'[p].parent # NoPara =>
                                 \E q \in Rows(s)' : para'[p].parent = q /\ q < p
    /\ \A x \in Specs \ {s} : /\ Rows(x)' = Rows(x)
                              /\ \A p \in Rows(x) : para'[p] = para[p] /\ RowsOf(p)' = RowsOf(p)

LEMMA ImportIs ==
    ASSUME HistoryInv, NEW s \in Specs, NEW doc \in Documents, PersistParsedSpec(s, doc)
    PROVE  Imports(s)
  <1> DEFINE fresh == drawn + 1 .. drawn + Len(doc.nodes)
  <1>0. /\ drawn \in Nat /\ Len(doc.nodes) \in Nat /\ drawn + Len(doc.nodes) <= MaxParas
        /\ spec \in [Specs -> SpecRow] /\ MaxParas \in Nat
        /\ para \in [Paras -> ParaRow \cup {NoRow}]
        /\ \A p \in Paras : p > drawn => ~Live(p)
    BY DocumentsAssumption, SizesAssumption DEF HistoryInv, TypeOK, PersistParsedSpec, Live
  <1>1. /\ drawn' = drawn + Len(doc.nodes) /\ sealed' = sealed
        /\ hist' = {e \in hist : ~InSpec(e.para, s)}
    BY DEF PersistParsedSpec
  <1>2. ASSUME NEW i \in 1..Len(doc.nodes)
        PROVE  /\ drawn + i \in Paras /\ drawn + i \in fresh
               /\ para'[drawn + i] = ImportedRow(s, doc, drawn, i)
               /\ para'[drawn + i] \in ParaRow /\ para'[drawn + i] # NoRow
               /\ para'[drawn + i].spec = s /\ para'[drawn + i].baseVersion = 1
               /\ para'[drawn + i].parent = IF doc.nodes[i].parent = 0 THEN NoPara
                                            ELSE drawn + doc.nodes[i].parent
    <2>1. drawn + i \in Paras /\ drawn + i \in fresh /\ (drawn + i) - drawn = i
      BY <1>0 DEF Paras
    <2>2. para'[drawn + i] = ImportedRow(s, doc, drawn, i)
      BY <2>1 DEF PersistParsedSpec
    <2>3. ImportedRow(s, doc, drawn, i) \in ParaRow
      BY <1>0, ImportedType
    <2>4. /\ ImportedRow(s, doc, drawn, i).spec = s
          /\ ImportedRow(s, doc, drawn, i).baseVersion = 1
          /\ ImportedRow(s, doc, drawn, i).parent = IF doc.nodes[i].parent = 0 THEN NoPara
                                                    ELSE drawn + doc.nodes[i].parent
      BY DEF ImportedRow
    <2> QED
      BY <2>1, <2>2, <2>3, <2>4, NoRowAssumption
  <1>3. \A p \in Paras : p \notin fresh => para'[p] = IF InSpec(p, s) THEN NoRow ELSE para[p]
    BY DEF PersistParsedSpec
  <1>4. /\ spec'[s].contentVersion = spec[s].contentVersion + 1
        /\ \A x \in Specs : spec[x].contentVersion \in Nat
        /\ \A x \in Specs \ {s} : spec'[x].contentVersion = spec[x].contentVersion
    <2>1. spec' = [spec EXCEPT ![s] = Bumped(Retitled(@, doc.title))] /\ doc.title \in Titles
      BY DocumentsAssumption DEF PersistParsedSpec
    <2>2. \A x \in Specs : spec[x] \in SpecRow /\ spec[x].contentVersion \in Nat
      BY <1>0 DEF SpecRow
    <2> QED
      BY <1>0, <2>1, <2>2, BumpedType, RetitledType
  <1>5. \A p \in fresh : p > drawn /\ \E i \in 1..Len(doc.nodes) : p = drawn + i
    <2> SUFFICES ASSUME NEW p \in fresh
                 PROVE  p > drawn /\ p - drawn \in 1..Len(doc.nodes) /\ p = drawn + (p - drawn)
      OBVIOUS
    <2> QED
      BY <1>0
  <1> HIDE DEF fresh
  <1>6. ASSUME NEW p \in Paras, ~Live(p)  PROVE RowsOf(p) = {}
    BY <1>6 DEF RowsOf, HistoryInv, HistoryTracksRows, InSpec
  <1>7. ASSUME NEW p \in Rows(s)'
        PROVE  /\ p > drawn /\ ~Live(p) /\ RowsOf(p) = {} /\ RowsOf(p)' = {}
               /\ para'[p].baseVersion = 1
               /\ para'[p].parent # NoPara =>
                     \E q \in Rows(s)' : para'[p].parent = q /\ q < p
    <2>1. p \in Paras /\ para'[p] # NoRow /\ para'[p].spec = s
      BY DEF Rows, InSpec, Live
    <2>2. p \in fresh
      BY <1>3, <2>1 DEF InSpec, Live
    <2>3. PICK i \in 1..Len(doc.nodes) : p = drawn + i
      BY <1>5, <2>2
    <2>4. ~Live(p) /\ RowsOf(p) = {} /\ p > drawn
      BY <1>0, <1>5, <1>6, <2>1, <2>2
    <2>5. RowsOf(p)' = {}
      BY <1>1, <2>4 DEF RowsOf
    <2>6. ASSUME para'[p].parent # NoPara
          PROVE  \E q \in Rows(s)' : para'[p].parent = q /\ q < p
      <3> DEFINE j == doc.nodes[i].parent
      <3>1. j # 0 /\ para'[p].parent = drawn + j
        BY <1>2, <2>3, <2>6
      <3>2. doc.nodes[i] \in Node /\ j < i
        BY DocumentsAssumption
      <3>3. j \in Nat
        BY <3>2 DEF Node
      <3> HIDE DEF j
      <3>4. j \in 1..Len(doc.nodes)
        BY <1>0, <3>1, <3>2, <3>3
      <3>5. /\ para'[drawn + j] # NoRow /\ para'[drawn + j].spec = s
            /\ drawn + j \in Paras
        BY <1>2, <3>4
      <3>6. drawn + j < p
        BY <1>0, <2>3, <3>2, <3>3
      <3> QED
        BY <3>1, <3>5, <3>6 DEF Rows, InSpec, Live
    <2> QED
      BY <1>2, <2>3, <2>4, <2>5, <2>6
  <1>8. ASSUME NEW x \in Specs \ {s}
        PROVE  /\ Rows(x)' = Rows(x)
               /\ \A p \in Rows(x) : para'[p] = para[p] /\ RowsOf(p)' = RowsOf(p)
    <2>1. ASSUME NEW p \in Rows(x)  PROVE para'[p] = para[p] /\ RowsOf(p)' = RowsOf(p) /\ p \in Rows(x)'
      <3>1. p \in Paras /\ Live(p) /\ para[p].spec = x /\ ~InSpec(p, s)
        BY DEF Rows, InSpec
      <3>2. p \notin fresh
        BY <1>0, <1>5, <3>1
      <3>3. para'[p] = para[p]
        BY <1>3, <3>1, <3>2
      <3> QED
        BY <1>1, <3>1, <3>3 DEF RowsOf, Rows, InSpec, Live
    <2>2. ASSUME NEW p \in Rows(x)'  PROVE p \in Rows(x)
      <3>1. p \in Paras /\ para'[p] # NoRow /\ para'[p].spec = x
        BY DEF Rows, InSpec, Live
      <3>2. p \notin fresh
        BY <1>2, <1>5, <3>1
      <3> QED
        BY <1>3, <3>1, <3>2 DEF Rows, InSpec, Live
    <2> QED
      BY <2>1, <2>2
  <1> QED
    BY <1>0, <1>1, <1>4, <1>7, <1>8 DEF Imports

LEMMA ImportKeepsOthers ==
    ASSUME HistoryInv, NEW s \in Specs, Imports(s), log' = [e \in hist' |-> log[e]],
           NEW x \in Specs \ {s}, NEW p \in Rows(x)
    PROVE  Untouched(p)
  <1>1. /\ p \in Rows(x)' /\ para'[p] = para[p] /\ RowsOf(p)' = RowsOf(p)
    BY DEF Imports
  <1>2. \A e \in RowsOf(p) : e \in hist'
    BY <1>1 DEF RowsOf
  <1>3. \A e \in RowsOf(p) : log'[e] = log[e]
    BY <1>2
  <1>4. Live(p) /\ Live(p)'
    BY <1>1 DEF Rows, InSpec, Live
  <1>5. RemovedRoot(p)' <=> RemovedRoot(p)
    BY <1>1 DEF RemovedRoot
  <1> QED
    BY <1>1, <1>3, <1>4, <1>5 DEF Untouched, Keeps

LEMMA ImportKeepsTables ==
    ASSUME ViewsInv, TypeOK', NEW s \in Specs, Imports(s), log' = [e \in hist' |-> log[e]],
           clock' = clock
    PROVE  KeysDistinct' /\ RowsHang' /\ SealsTell' /\ LogTells'
  <1>0. /\ TypeOK /\ HistoryInv /\ KeysDistinct /\ RowsHang /\ SealsTell /\ LogTells
        /\ hist' \subseteq hist /\ sealed' = sealed
        /\ \A x \in Specs : spec[x].contentVersion \in Nat
        /\ spec'[s].contentVersion = spec[s].contentVersion + 1
        /\ \A x \in Specs \ {s} : spec'[x].contentVersion = spec[x].contentVersion
        /\ Paras \in SUBSET Nat
    BY SizesAssumption DEF ViewsInv, HistoryInv, Imports, Paras
  <1>1. ASSUME NEW p \in Paras, Live(p)'
        PROVE  \E x \in Specs : /\ para'[p].spec = x /\ p \in Rows(x)'
                                /\ x # s => p \in Rows(x)
    <2>1. para'[p] \in ParaRow
      BY <1>1 DEF TypeOK, Live
    <2>2. PICK x \in Specs : para'[p].spec = x
      BY <2>1 DEF ParaRow
    <2>3. p \in Rows(x)'
      BY <1>1, <2>2 DEF Rows, InSpec, Live
    <2> QED
      BY <2>2, <2>3 DEF Imports
  <1>2. KeysDistinct'
    <2>1. ASSUME NEW p \in Paras, Live(p)'  PROVE para'[p].baseVersion \in Nat \ {0}
      <3>1. PICK x \in Specs : para'[p].spec = x /\ p \in Rows(x)' /\ (x # s => p \in Rows(x))
        BY <1>1, <2>1
      <3>2. CASE x = s
        BY <3>1, <3>2 DEF Imports
      <3>3. CASE x # s
        BY <1>0, <3>1, <3>3 DEF Imports, KeysDistinct, Rows, InSpec
      <3> QED
        BY <3>2, <3>3
    <2> QED
      BY <1>0, <2>1 DEF KeysDistinct
  <1>3. RowsHang'
    <2> SUFFICES ASSUME NEW p \in Paras, NEW x \in Specs, Live(p)', para'[p].spec = x,
                        p \in Rows(x)', x # s => p \in Rows(x)
                 PROVE  /\ Exists(x)'
                        /\ para'[p].parent # NoPara =>
                              \E q \in Rows(x)' : para'[p].parent = q /\ q < p
      <3>1. \A x, q : q \in Rows(x)' => InSpec(q, x)'
        BY DEF Rows
      <3> QED
        BY <1>1, <3>1 DEF RowsHang
    <2>1. CASE x = s
      BY <1>0, <2>1 DEF Imports, Exists
    <2>2. CASE x # s
      <3>1. /\ p \in Rows(x) /\ para'[p] = para[p] /\ Rows(x)' = Rows(x) /\ Live(p)
            /\ para[p].spec = x
        BY <2>2 DEF Imports, Rows, InSpec
      <3>2. Exists(x)'
        BY <1>0, <2>2, <3>1 DEF RowsHang, Exists
      <3>3. ASSUME para[p].parent # NoPara
            PROVE  \E q \in Rows(x) : para[p].parent = q /\ q < p
        <4>1. para[p].parent \in Paras
          BY <1>0, <3>1, <3>3 DEF TypeOK, Live, ParaRow
        <4> QED
          BY <1>0, <3>1, <3>3, <4>1 DEF RowsHang, Rows
      <3> QED
        BY <3>1, <3>2, <3>3
    <2> QED
      BY <2>1, <2>2
  <1>4. SealsTell'
    <2> SUFFICES ASSUME NEW r \in sealed
                 PROVE  /\ \A p \in Rows(r.spec)' : SealTells(r, p)'
                        /\ \A p \in Paras : p > drawn' => r.texts[p] = NoText
      BY <1>0 DEF SealsTell
    <2>1. /\ \A p \in Rows(r.spec) : SealTells(r, p)
          /\ \A p \in Paras : p > drawn => r.texts[p] = NoText
          /\ r.spec \in Specs
      BY <1>0 DEF SealsTell, TypeOK, SealRow
    <2>2. \A p \in Paras : p > drawn' => r.texts[p] = NoText
      BY <1>0, <2>1 DEF Imports
    <2>3. ASSUME NEW p \in Rows(r.spec)'  PROVE SealTells(r, p)'
      <3>0. p \in Paras
        BY DEF Rows
      <3>1. CASE r.spec = s
        <4>1. p > drawn /\ RowsOf(p)' = {}
          BY <3>1 DEF Imports
        <4>2. r.texts[p] = NoText /\ Since(r, p)' = {}
          BY <2>1, <3>0, <4>1 DEF Since
        <4> QED
          BY <4>1, <4>2 DEF SealTells
      <3>2. CASE r.spec # s
        <4>1. p \in Rows(r.spec) /\ para'[p] = para[p] /\ RowsOf(p)' = RowsOf(p)
          BY <2>1, <3>2 DEF Imports
        <4>2. Since(r, p)' = Since(r, p) /\ SealTells(r, p)
          BY <2>1, <4>1 DEF Since
        <4> QED
          BY <4>1, <4>2 DEF SealTells
      <3> QED
        BY <3>1, <3>2
    <2> QED
      BY <2>2, <2>3
  <1>5. LogTells'
    BY <1>0 DEF LogTells, CreatesParagraph
  <1> QED
    BY <1>2, <1>3, <1>4, <1>5

(* An import forgets nothing of the past: it opens a generation from which   *)
(* on the history of its spec reaches back.                                 *)
LEMMA ImportKeepsPast ==
    ASSUME ViewsInv, TypeOK', RowsHang', NEW s \in Specs, Imports(s),
           log' = [e \in hist' |-> log[e]], Remembered,
           importedAt' = [importedAt EXCEPT ![s] = spec'[s].contentVersion]
    PROVE  /\ PastTells'
           /\ \A p \in Paras : Live(p)' => VanishTells(p)'
  <1>0. /\ TypeOK /\ HistoryInv /\ KeysDistinct /\ RowsHang /\ PastTells
        /\ \A x \in Specs : spec[x].contentVersion \in Nat
        /\ spec'[s].contentVersion = spec[s].contentVersion + 1
        /\ \A x \in Specs \ {s} : spec'[x].contentVersion = spec[x].contentVersion
        /\ drawn \in Nat /\ drawn' \in Nat /\ drawn <= drawn' /\ Paras \in SUBSET Nat
    BY SizesAssumption DEF ViewsInv, HistoryInv, Imports, Paras
  <1>1. /\ past' \in [Specs -> Seq(Generation)]
        /\ \A x \in Specs : Len(past'[x]) = spec'[x].contentVersion
        /\ \A x \in Specs \ {s} : past'[x] = past[x]
        /\ \A v \in 1..spec[s].contentVersion : past'[s][v] = past[s][v]
        /\ past'[s][spec'[s].contentVersion] = Shown(s)'
    BY <1>0, PastGrows
  <1>2. /\ importedAt' \in [Specs -> Nat]
        /\ importedAt'[s] = spec'[s].contentVersion
        /\ \A x \in Specs \ {s} : importedAt'[x] = importedAt[x]
        /\ \A x \in Specs : Len(past[x]) = spec[x].contentVersion
        /\ \A x \in Specs : Exists(x) => /\ importedAt[x] \in 1..spec[x].contentVersion
                                         /\ past[x][spec[x].contentVersion] = Shown(x)
    BY <1>0 DEF PastTells
  <1>3. \A x \in Specs \ {s} : Exists(x)' <=> Exists(x)
    BY <1>0 DEF Exists
  <1>4. \A x \in Specs \ {s} : \A p \in Rows(x) : Untouched(p) /\ Keeps(p)
    BY <1>0, ImportKeepsOthers DEF Untouched
  <1>5. ASSUME NEW x \in Specs, Exists(x)'
        PROVE  /\ importedAt'[x] \in 1..spec'[x].contentVersion
               /\ past'[x][spec'[x].contentVersion] = Shown(x)'
    <2>1. CASE x = s
      BY <1>0, <1>1, <1>2, <2>1
    <2>2. CASE x # s
      <3>1. Shown(x)' = Shown(x)
        BY <1>0, <1>4, <2>2, UntouchedShown DEF Imports
      <3> QED
        BY <1>0, <1>1, <1>2, <1>3, <1>5, <2>2, <3>1
    <2> QED
      BY <2>1, <2>2
  <1>6. ASSUME NEW x \in Specs, NEW v \in 1..Len(past'[x]), NEW p \in Paras, p > drawn'
        PROVE  past'[x][v][p] = NoText
    <2>1. p > drawn
      BY <1>0, <1>6
    <2>2. CASE v \in 1..spec[x].contentVersion
      <3>1. past[x][v][p] = NoText
        <4>1. v \in 1..Len(past[x])
          BY <1>2, <2>2
        <4> QED
          BY <1>0, <2>1, <4>1, Zenon DEF PastTells
      <3> QED
        BY <1>1, <2>2, <3>1
    <2>3. CASE v \notin 1..spec[x].contentVersion
      <3>1. x = s /\ v = spec'[s].contentVersion
        <4>1. /\ v \in 1..spec'[x].contentVersion
              /\ spec[x].contentVersion \in Nat /\ spec[s].contentVersion \in Nat
          <5>1. Len(past'[x]) = spec'[x].contentVersion
            BY <1>1
          <5>2. v \in 1..Len(past'[x])
            BY <1>6
          <5> QED
            BY <1>0, <5>1, <5>2
        <4>2. x = s
          BY <1>0, <2>3, <4>1
        <4> QED
          BY <1>0, <2>3, <4>1, <4>2
      <3>2. ~Live(p)'
        BY <1>6 DEF TypeOK, Live
      <3>3. Shown(s)'[p] = NoText
        BY <3>2 DEF Shown, InSpec
      <3> QED
        BY <1>1, <3>1, <3>3
    <2> QED
      BY <2>2, <2>3
  <1>7. ASSUME NEW x \in Specs, NEW v \in importedAt'[x]..(spec'[x].contentVersion - 1),
               NEW p \in Rows(x)', Exists(x)'
        PROVE  Recalls(x, v, p)'
    <2>1. x # s
      <3>1. spec'[s].contentVersion \notin Nat \/ \A w \in Nat : ~(spec'[s].contentVersion <= w /\ w <= spec'[s].contentVersion - 1)
        BY <1>0
      <3>2. v \in Nat /\ importedAt'[x] <= v /\ v <= spec'[x].contentVersion - 1
        BY <1>0, <1>2, <1>7
      <3> QED
        BY <1>0, <1>2, <3>1, <3>2
    <2>2. /\ v \in importedAt[x]..(spec[x].contentVersion - 1) /\ p \in Rows(x) /\ Exists(x)
          /\ importedAt[x] \in Nat
      BY <1>0, <1>2, <1>3, <1>7, <2>1 DEF Imports
    <2>3. Recalls(x, v, p)
      BY <1>0, <2>2 DEF PastTells
    <2>4. v \in Nat /\ v <= spec[x].contentVersion
      BY <1>0, <2>2
    <2>5. past'[x] = past[x] /\ importedAt'[x] = importedAt[x]
      BY <1>1, <1>2, <2>1
    <2> QED
      BY <1>0, <1>4, <2>1, <2>2, <2>3, <2>4, <2>5, KeptRecall
  <1>8. PastTells'
    BY <1>1, <1>2, <1>5, <1>6, <1>7 DEF PastTells
  <1>9. ASSUME NEW p \in Paras, Live(p)'  PROVE VanishTells(p)'
    <2>1. PICK x \in Specs : para'[p].spec = x
      BY <1>9 DEF TypeOK, Live, ParaRow
    <2>2. p \in Rows(x)'
      BY <1>9, <2>1 DEF Rows, InSpec, Live
    <2>3. CASE x = s
      <3>1. RowsOf(p)' = {}
        BY <2>2, <2>3 DEF Imports
      <3>2. Switches(RowsOf(p))' = {}
        BY <3>1 DEF Switches
      <3>3. ASSUME ImportedVisible(s, p)'  PROVE ~RemovedRoot(p)'
        <4>1. past'[s][importedAt'[s]][p] # NoText
          BY <3>1, <3>3 DEF ImportedVisible
        <4>2. Shown(s)'[p] # NoText
          BY <1>1, <1>2, <4>1
        <4>3. \A a \in Lineage'[p] : ~RemovedRoot(a)'
          BY <4>2 DEF Shown
        <4>4. p \in Lineage'[p]
          BY LineageWillBe DEF LineageFits
        <4> QED
          BY <4>3, <4>4
      <3> QED
        BY <2>1, <2>3, <3>2, <3>3 DEF VanishTells
    <2>4. CASE x # s
      <3>1. p \in Rows(x) /\ para[p].spec = x /\ Live(p)
        BY <2>2, <2>4 DEF Imports, Rows, InSpec
      <3>2. VanishTells(p) /\ Untouched(p)
        BY <1>4, <2>4, <3>1 DEF ViewsInv
      <3>3. past'[x] = past[x] /\ importedAt'[x] = importedAt[x]
        BY <1>1, <1>2, <2>4
      <3> QED
        BY <1>0, <3>1, <3>2, <3>3, UntouchedVanish
    <2> QED
      BY <2>3, <2>4
  <1> QED
    BY <1>8, <1>9

LEMMA ImportStep ==
    ASSUME ViewsInv, NEW s \in Specs, Import(s), Remembered
    PROVE  ViewsInv'
  <1>1. PICK doc \in Documents : PersistParsedSpec(s, doc)
    BY DEF Import
  <1>2. /\ importedAt' = [importedAt EXCEPT ![s] = spec'[s].contentVersion]
        /\ log' = [e \in hist' |-> log[e]] /\ clock' = clock
    BY DEF Import
  <1>3. HistoryInv' /\ TypeOK'
    <2>1. Next
      BY <1>1 DEF Next, Write
    <2> QED
      BY <2>1, NextHistory DEF ViewsInv, HistoryInv
  <1>4. Imports(s)
    BY <1>1, ImportIs DEF ViewsInv
  <1>5. KeysDistinct' /\ RowsHang' /\ SealsTell' /\ LogTells'
    BY <1>2, <1>3, <1>4, ImportKeepsTables
  <1>6. PastTells' /\ \A p \in Paras : Live(p)' => VanishTells(p)'
    BY <1>2, <1>3, <1>4, <1>5, ImportKeepsPast
  <1> QED
    BY <1>3, <1>5, <1>6 DEF ViewsInv

-----------------------------------------------------------------------------
(* The steps that write no paragraph, and the empty database. *)

LEMMA QuietStep ==
    ASSUME ViewsInv, UNCHANGED <<spec, para, drawn, hist, log, past, importedAt>>
    PROVE  KeysDistinct' /\ RowsHang' /\ PastTells' /\ \A p \in Paras : Live(p)' => VanishTells(p)'
  <1>0. /\ TypeOK /\ HistoryInv /\ KeysDistinct /\ RowsHang /\ PastTells
        /\ \A x \in Specs : spec[x].contentVersion \in Nat
    BY DEF ViewsInv, HistoryInv, TypeOK, SpecRow
  <1>1. KeysDistinct' /\ RowsHang'
    BY <1>0 DEF KeysDistinct, RowsHang, Live, InSpec, Exists
  <1>2. ASSUME NEW p \in Paras, Live(p)  PROVE Untouched(p) /\ Keeps(p)
    <2>1. RowsOf(p)' = RowsOf(p)
      BY DEF RowsOf
    <2>2. Live(p)' /\ (RemovedRoot(p)' <=> RemovedRoot(p))
      BY <1>2 DEF Live, RemovedRoot
    <2> QED
      BY <1>2, <2>1, <2>2 DEF Untouched, Keeps
  <1>3. ASSUME NEW x \in Specs
        PROVE  Rows(x)' = Rows(x) /\ \A p \in Rows(x) : p \in Paras /\ Live(p)
    BY DEF Rows, InSpec, Live
  <1>4. ASSUME NEW x \in Specs  PROVE Shown(x)' = Shown(x) /\ (Exists(x)' <=> Exists(x))
    BY <1>0, <1>2, <1>3, UntouchedShown DEF Exists
  <1>5. ASSUME NEW x \in Specs, NEW v \in importedAt[x]..(spec[x].contentVersion - 1),
               NEW p \in Rows(x), Exists(x)
        PROVE  Recalls(x, v, p)'
    <2>1. importedAt[x] \in Nat
      BY <1>0 DEF PastTells
    <2>2. v \in Nat /\ v <= spec[x].contentVersion
      BY <1>0, <2>1
    <2>3. Recalls(x, v, p)
      BY <1>0, <1>5 DEF PastTells
    <2> QED
      BY <1>0, <1>2, <1>3, <2>2, <2>3, KeptRecall
  <1>6. PastTells'
    BY <1>0, <1>3, <1>4, <1>5 DEF PastTells
  <1>7. ASSUME NEW p \in Paras, Live(p)'  PROVE VanishTells(p)'
    <2>1. Live(p)
      BY <1>7 DEF Live
    <2> QED
      BY <1>0, <1>2, <2>1, UntouchedVanish DEF ViewsInv
  <1> QED
    BY <1>1, <1>6, <1>7

LEMMA CheckpointStep ==
    ASSUME ViewsInv, NEW c \in Checkpoints, NEW scope \in Scopes, CreateCheckpoint(c, scope),
           UNCHANGED historyVars
    PROVE  ViewsInv'
  <1>1. UNCHANGED <<spec, para, drawn, hist, log, past, importedAt>> /\ clock' = clock
    BY DEF CreateCheckpoint, historyVars
  <1>2. HistoryInv /\ HistoryInv'
    <2>1. Next
      BY DEF Next
    <2> QED
      BY <2>1, NextHistory DEF ViewsInv
  <1>3. LogTells'
    BY <1>1 DEF ViewsInv, LogTells, CreatesParagraph
  <1>4. ASSUME NEW r \in sealed'
        PROVE  /\ r.contentVersion > 0
               /\ \A p \in Rows(r.spec)' : SealTells(r, p)'
               /\ \A p \in Paras : p > drawn' => r.texts[p] = NoText
    <2>1. Rows(r.spec)' = Rows(r.spec) /\ \A p \in Paras : SealTells(r, p)' <=> SealTells(r, p)
      BY <1>1 DEF Rows, InSpec, Live, SealTells, Since, RowsOf
    <2>2. CASE r \in sealed
      BY <1>1, <2>1, <2>2 DEF ViewsInv, SealsTell, Rows
    <2>3. CASE r \notin sealed
      <3>1. PICK s \in scope :
               /\ Exists(s) /\ r.spec = s /\ r.contentVersion = spec[s].contentVersion
               /\ r.texts = [p \in Paras |-> IF InSpec(p, s) THEN para[p].text ELSE NoText]
        BY <2>3 DEF CreateCheckpoint
      <3>2. s \in Specs /\ spec[s].contentVersion \in Nat
        BY <1>2, ScopesAssumption DEF HistoryInv, TypeOK, SpecRow
      <3>3. ASSUME NEW p \in Rows(s)  PROVE SealTells(r, p)
        <4>1. p \in Paras /\ InSpec(p, s) /\ r.texts[p] = para[p].text /\ para[p].text \in Texts
          BY <1>2, <3>1 DEF Rows, InSpec, Live, HistoryInv, TypeOK, ParaRow
        <4>2. r.texts[p] # NoText
          BY <4>1, TextsAssumption
        <4>3. \A e \in RowsOf(p) : e.spec = s /\ e.contentVersion \in 1..spec[s].contentVersion
          BY <1>2, <4>1 DEF RowsOf, HistoryInv, HistoryTracksRows, HistoryOrdered, InSpec
        <4>4. Since(r, p) = {}
          BY <3>1, <3>2, <4>3 DEF Since
        <4> QED
          BY <4>1, <4>2, <4>4 DEF SealTells
      <3>4. \A p \in Paras : p > drawn => r.texts[p] = NoText
        BY <1>2, <3>1 DEF HistoryInv, TypeOK, InSpec, Live
      <3> QED
        BY <1>1, <2>1, <3>1, <3>3, <3>4 DEF Rows, Exists
    <2> QED
      BY <2>2, <2>3
  <1>5. SealsTell'
    BY <1>4 DEF SealsTell
  <1> QED
    BY <1>1, <1>2, <1>3, <1>5, QuietStep DEF ViewsInv

LEMMA IdleStep ==
    ASSUME ViewsInv, UNCHANGED <<vars, historyVars>>
    PROVE  ViewsInv'
  <1>1. UNCHANGED <<spec, para, drawn, hist, sealed, log, past, importedAt, clock, vars>>
    BY DEF vars, historyVars
  <1>2. HistoryInv'
    BY <1>1, NextHistory DEF ViewsInv
  <1>3. LogTells'
    BY <1>1 DEF ViewsInv, LogTells, CreatesParagraph
  <1>4. SealsTell'
    BY <1>1 DEF ViewsInv, SealsTell, SealTells, Since, RowsOf, Rows, InSpec, Live
  <1> QED
    BY <1>1, <1>2, <1>3, <1>4, QuietStep DEF ViewsInv

LEMMA InitViews == HistoryInit => ViewsInv
  <1> SUFFICES ASSUME HistoryInit  PROVE ViewsInv
    OBVIOUS
  <1>1. HistoryInv
    BY InitHistory DEF HistoryInit
  <1>2. /\ hist = {} /\ sealed = {} /\ \A p \in Paras : ~Live(p)
        /\ \A s \in Specs : spec[s].contentVersion = 0 /\ ~Exists(s)
        /\ clock = 0 /\ log = <<>> /\ past = [s \in Specs |-> <<>>]
        /\ importedAt = [s \in Specs |-> 0]
    BY DEF HistoryInit, Init, Live, Exists
  <1>3. KeysDistinct /\ RowsHang /\ SealsTell
    BY <1>2 DEF KeysDistinct, RowsHang, SealsTell
  <1>4. LogTells
    BY <1>2 DEF LogTells
  <1>5. PastTells
    <2>1. past \in [Specs -> Seq(Generation)] /\ importedAt \in [Specs -> Nat]
      BY <1>2
    <2>2. \A s \in Specs : Len(past[s]) = 0
      BY <1>2
    <2>3. \A s \in Specs : \A v \in 1..Len(past[s]) : FALSE
      BY <2>2
    <2> QED
      BY <1>2, <2>1, <2>2, <2>3 DEF PastTells
  <1> QED
    BY <1>1, <1>2, <1>3, <1>4, <1>5 DEF ViewsInv

LEMMA NextViews == ViewsInv /\ [Work]_<<vars, historyVars>> => ViewsInv'
  <1> SUFFICES ASSUME ViewsInv, [Work]_<<vars, historyVars>>  PROVE ViewsInv'
    OBVIOUS
  <1>1. ASSUME NEW s \in Specs, Import(s), Remembered  PROVE ViewsInv'
    BY <1>1, ImportStep
  <1>2. ASSUME NEW s \in Specs, NEW user \in Users, ByUser(user, s), UNCHANGED importedAt,
               Remembered
        PROVE  ViewsInv'
    BY <1>2, UserStep
  <1>3. ASSUME NEW c \in Checkpoints, NEW scope \in Scopes, CreateCheckpoint(c, scope),
               UNCHANGED historyVars
        PROVE  ViewsInv'
    BY <1>3, CheckpointStep
  <1>4. CASE UNCHANGED <<vars, historyVars>>
    BY <1>4, IdleStep
  <1> QED
    BY <1>1, <1>2, <1>3, <1>4 DEF Work

-----------------------------------------------------------------------------
(* What a call has read, in terms of the tables as they are now.            *)

ParaCall == {"due", "spec", "para", "contentVersion", "version", "text", "rows"}
SpecCall == {"due", "spec", "contentVersion", "sealedVersion"}
DiffCall == {"due", "spec", "contentVersion", "anchor", "rows", "taken"}

(* The spec was there, at a generation it has reached.                      *)
Begun == call.spec \in Specs /\ call.contentVersion \in 1..spec[call.spec].contentVersion

(* The row read is the row, unless something was written since; its id is     *)
(* not given to a row of another spec.                                       *)
RowWasRead ==
    /\ call.para \in Paras /\ call.para <= drawn
    /\ Live(call.para) => para[call.para].spec = call.spec
    /\ Undisturbed => /\ InSpec(call.para, call.spec)
                      /\ call.version = para[call.para].baseVersion
                      /\ call.text = para[call.para].text

(* A history has one row per version, and generations rise with versions.   *)
EntryRow == [version : Nat \ {0}, text : Texts, contentVersion : Nat, user : Users, at : Nat, op : Ops]
Rises(rows) ==
    /\ rows \in SUBSET EntryRow /\ IsFiniteSet(rows)
    /\ \A e, f \in rows : e.version = f.version => e = f
    /\ \A e, f \in rows : e.version < f.version => e.contentVersion < f.contentVersion
    /\ \A e \in rows : e.op = "insert" => e.version = 1

(* The last row read that a checkpoint covers says what it sealed.          *)
LastUpTo(rows, n, e) ==
    e \in rows /\ e.contentVersion <= n
       /\ \A f \in rows : f.contentVersion <= n => f.contentVersion <= e.contentVersion
SealsMet ==
    \A r \in sealed : r.spec = call.spec /\ r.contentVersion <= call.contentVersion =>
        \A e \in call.rows : LastUpTo(call.rows, r.contentVersion, e) => e.text = r.texts[call.para]
HistoryWasRead ==
    /\ Rises(call.rows)
    /\ Undisturbed => call.rows = {Entry(e) : e \in RowsOf(call.para)}
    /\ SealsMet

(* The rows read are the rows, but for what was written after the anchor;    *)
(* unless there was a re-import after it.                                    *)
Later(p, v) ==
    /\ \E e \in RowsOf(p) : CreatesParagraph(e)
    /\ \A e \in RowsOf(p) : ~(e.contentVersion <= v)
RowsStand(s, rows, v) ==
    /\ DOMAIN rows \subseteq Rows(s)
    /\ \A p \in DOMAIN rows :
          /\ rows[p].above = Lineage[p]
          /\ rows[p].text = para[p].text \/ \E e \in RowsOf(p) : ~(e.contentVersion <= v)
    /\ \A p \in Rows(s) \ DOMAIN rows : Later(p, v)
RowsWereRead ==
    /\ call.anchor \in 0..spec[call.spec].contentVersion
    /\ Undisturbed => call.rows = RowsRead(call.spec)
    /\ importedAt[call.spec] <= call.anchor => RowsStand(call.spec, call.rows, call.anchor)

CallInv ==
    \/ call = NoCall
    \/ /\ Begun
       /\ \/ DOMAIN call = ParaCall /\ call.due = "history" /\ RowWasRead
          \/ DOMAIN call = ParaCall /\ call.due = "boundaries" /\ RowWasRead /\ HistoryWasRead
          \/ DOMAIN call = SpecCall /\ call.due = "boundary"
          \/ DOMAIN call = SpecCall /\ call.due = "rollup" /\ call.sealedVersion \in Nat
          \/ DOMAIN call = DiffCall /\ call.due = "live"
          \/ DOMAIN call = DiffCall /\ call.due = "versions" /\ RowsWereRead

-----------------------------------------------------------------------------
(* What the writers do to one spec: nothing, except that a checkpoint may    *)
(* seal it as it is; a write, which keeps every row; or a re-import.         *)
Steady(x) ==
    /\ spec'[x].contentVersion = spec[x].contentVersion /\ importedAt'[x] = importedAt[x]
    /\ Rows(x)' = Rows(x)
    /\ \A p \in Rows(x) : Untouched(p) /\ para'[p].baseVersion = para[p].baseVersion
    /\ \A r \in sealed' : r \in sealed \/
          (r.spec = x => /\ r.contentVersion = spec[x].contentVersion
                         /\ \A p \in Rows(x) : r.texts[p] = para[p].text)
Written(x) ==
    /\ spec'[x].contentVersion = spec[x].contentVersion + 1 /\ importedAt'[x] = importedAt[x]
    /\ \A p \in Rows(x) : Keeps(p)
    /\ \A v \in 0..spec[x].contentVersion : \A p \in Rows(x)' : p \in Rows(x) \/ Later(p, v)'
    /\ sealed' = sealed
Replaced(x) ==
    /\ spec'[x].contentVersion = spec[x].contentVersion + 1
    /\ importedAt'[x] = spec[x].contentVersion + 1
    /\ sealed' = sealed

LEMMA UserWrites ==
    ASSUME ViewsInv, NEW s \in Specs, NEW user \in Users, ByUser(user, s),
           UNCHANGED importedAt, NEW x \in Specs
    PROVE  Steady(x) \/ Written(x)
  <1>1. PICK T \in SUBSET Paras, op \in UserOps : Logs(s, T, user, op)
    BY UserLogs DEF ViewsInv
  <1>2. HistoryInv /\ Rewrites(s, T) /\ RowMoves(s, op)
    BY <1>1 DEF Logs, ViewsInv
  <1>3. \A p \in Paras :
           /\ Live(p) => Live(p)' /\ para'[p].spec = para[p].spec
           /\ ~Live(p) /\ Live(p)' => p \in T /\ para'[p].spec = s
           /\ p \in T => para'[p].spec = s
    BY <1>2, RowsRemain
  <1>4. \A p \in Paras : Live(p) => Keeps(p) /\ (p \notin T => Untouched(p))
    BY <1>1, <1>2, UserKeepsRows
  <1>5. sealed' = sealed
    BY <1>2 DEF Rewrites
  <1>6. CASE x = s
    <2>1. \A p \in Rows(x) : Keeps(p)
      BY <1>4 DEF Rows, InSpec
    <2>2. ASSUME NEW p \in Rows(x)', p \notin Rows(x), NEW v \in 0..spec[x].contentVersion
          PROVE  Later(p, v)'
      <3>0. PICK e : e = NewRow(s, p)
        OBVIOUS
      <3>1. p \in Paras /\ p \in T /\ ~Live(p)
        BY <1>3, <1>6, <2>2 DEF Rows, InSpec
      <3>2. RowsOf(p) = {}
        BY <1>2, <3>1 DEF RowsOf, HistoryInv, HistoryTracksRows, InSpec
      <3>3. RowsOf(p)' = {e}
        BY <1>2, <3>0, <3>1, <3>2, HistoryGrows
      <3>4. log'[e].op \in Creations
        BY <1>1, <3>0, <3>1 DEF Logs
      <3>5. e.contentVersion = spec[x].contentVersion + 1
        BY <1>6, <3>0, NewRowIs
      <3>6. spec[x].contentVersion \in Nat
        BY <1>2 DEF HistoryInv, TypeOK, SpecRow
      <3>7. CreatesParagraph(e)'
        BY <3>4 DEF CreatesParagraph, Creations
      <3> QED
        BY <3>3, <3>5, <3>6, <3>7 DEF Later
    <2>3. spec'[x].contentVersion = spec[x].contentVersion + 1
      BY <1>2, <1>6 DEF Rewrites
    <2> QED
      BY <1>5, <2>1, <2>2, <2>3 DEF Written
  <1>7. CASE x # s
    <2>1. Rows(x)' = Rows(x)
      BY <1>3, <1>7 DEF Rows, InSpec
    <2>2. ASSUME NEW p \in Rows(x)
          PROVE  Untouched(p) /\ para'[p].baseVersion = para[p].baseVersion
      <3>1. p \in Paras /\ Live(p) /\ p \notin T
        BY <1>3, <1>7 DEF Rows, InSpec
      <3> QED
        BY <1>2, <1>4, <3>1 DEF Rewrites
    <2>3. spec'[x].contentVersion = spec[x].contentVersion
      BY <1>2, <1>7 DEF Rewrites
    <2> QED
      BY <1>5, <2>1, <2>2, <2>3 DEF Steady
  <1> QED
    BY <1>6, <1>7

LEMMA ImportReplaces ==
    ASSUME ViewsInv, NEW s \in Specs, Import(s), NEW x \in Specs
    PROVE  Steady(x) \/ Replaced(x)
  <1>1. PICK doc \in Documents : PersistParsedSpec(s, doc)
    BY DEF Import
  <1>2. /\ Imports(s) /\ HistoryInv /\ log' = [e \in hist' |-> log[e]]
        /\ importedAt' = [importedAt EXCEPT ![s] = spec'[s].contentVersion]
        /\ importedAt \in [Specs -> Nat]
    BY <1>1, ImportIs DEF ViewsInv, Import, PastTells
  <1>3. CASE x = s
    BY <1>2, <1>3 DEF Replaced, Imports
  <1>4. CASE x # s
    <2>1. /\ Rows(x)' = Rows(x) /\ sealed' = sealed
          /\ spec'[x].contentVersion = spec[x].contentVersion
          /\ \A p \in Rows(x) : para'[p] = para[p]
      BY <1>2, <1>4 DEF Imports
    <2>2. \A p \in Rows(x) : Untouched(p)
      BY <1>2, <1>4, ImportKeepsOthers
    <2>3. importedAt'[x] = importedAt[x]
      BY <1>2, <1>4
    <2> QED
      BY <2>1, <2>2, <2>3 DEF Steady
  <1> QED
    BY <1>3, <1>4

(* When the tables stand still nothing of a spec is written.                 *)
LEMMA NothingWritten ==
    ASSUME UNCHANGED <<spec, para, hist, log, importedAt>>, NEW x \in Specs
    PROVE  /\ spec'[x].contentVersion = spec[x].contentVersion /\ importedAt'[x] = importedAt[x]
           /\ Rows(x)' = Rows(x)
           /\ \A p \in Rows(x) : Untouched(p) /\ para'[p].baseVersion = para[p].baseVersion
  <1>1. Rows(x)' = Rows(x)
    BY DEF Rows, InSpec, Live
  <1>2. ASSUME NEW p \in Rows(x)  PROVE Untouched(p)
    <2>1. RowsOf(p)' = RowsOf(p)
      BY DEF RowsOf
    <2>2. Live(p) /\ Live(p)' /\ (RemovedRoot(p)' <=> RemovedRoot(p))
      BY DEF Rows, InSpec, Live, RemovedRoot
    <2> QED
      BY <2>1, <2>2 DEF Untouched, Keeps
  <1> QED
    BY <1>1, <1>2

LEMMA WorkMoves ==
    ASSUME ViewsInv, [Work]_<<vars, historyVars>>, NEW x \in Specs
    PROVE  Steady(x) \/ Written(x) \/ Replaced(x)
  <1>1. ASSUME NEW s \in Specs, Import(s)  PROVE Steady(x) \/ Replaced(x)
    BY <1>1, ImportReplaces
  <1>2. ASSUME NEW s \in Specs, NEW user \in Users, ByUser(user, s), UNCHANGED importedAt
        PROVE  Steady(x) \/ Written(x)
    BY <1>2, UserWrites
  <1>3. ASSUME NEW c \in Checkpoints, NEW scope \in Scopes, CreateCheckpoint(c, scope),
               UNCHANGED historyVars
        PROVE  Steady(x)
    <2>1. UNCHANGED <<spec, para, hist, log, importedAt>>
      BY <1>3 DEF CreateCheckpoint, historyVars
    <2>2. ASSUME NEW r \in sealed', r \notin sealed, r.spec = x
          PROVE  /\ r.contentVersion = spec[x].contentVersion
                 /\ \A p \in Rows(x) : r.texts[p] = para[p].text
      <3>1. PICK s \in scope :
               /\ r.spec = s /\ r.contentVersion = spec[s].contentVersion
               /\ r.texts = [p \in Paras |-> IF InSpec(p, s) THEN para[p].text ELSE NoText]
        BY <1>3, <2>2 DEF CreateCheckpoint
      <3> QED
        BY <2>2, <3>1 DEF Rows
    <2> QED
      BY <2>1, <2>2, NothingWritten DEF Steady
  <1>4. CASE UNCHANGED <<vars, historyVars>>
    <2>1. UNCHANGED <<spec, para, hist, log, importedAt, sealed>>
      BY <1>4 DEF vars, historyVars
    <2> QED
      BY <2>1, NothingWritten DEF Steady
  <1> QED
    BY <1>1, <1>2, <1>3, <1>4 DEF Work

(* A uuid that has been drawn names the same row of the same spec, or none.  *)
LEMMA StaysHome ==
    ASSUME ViewsInv, [Work]_<<vars, historyVars>>, NEW p \in Paras, p <= drawn
    PROVE  p <= drawn' /\ (Live(p)' => Live(p) /\ para'[p].spec = para[p].spec)
  <1>0. /\ drawn \in Nat /\ Paras \in SUBSET Nat
        /\ \A q \in Paras : Live(q) => para[q].spec \in Specs
    BY SizesAssumption DEF ViewsInv, HistoryInv, TypeOK, Paras, Live, ParaRow
  <1>1. ASSUME NEW s \in Specs, Import(s)
        PROVE  p <= drawn' /\ (Live(p)' => Live(p) /\ para'[p].spec = para[p].spec)
    <2>1. PICK doc \in Documents : PersistParsedSpec(s, doc)
      BY <1>1 DEF Import
    <2>2. Len(doc.nodes) \in Nat
      BY DocumentsAssumption
    <2>3. drawn' = drawn + Len(doc.nodes) /\ p \notin drawn + 1 .. drawn + Len(doc.nodes)
      BY <1>0, <2>1, <2>2 DEF PersistParsedSpec
    <2>4. para'[p] = IF InSpec(p, s) THEN NoRow ELSE para[p]
      BY <2>1, <2>3 DEF PersistParsedSpec
    <2> QED
      BY <1>0, <2>2, <2>3, <2>4 DEF Live
  <1>2. ASSUME NEW s \in Specs, NEW user \in Users, ByUser(user, s)
        PROVE  p <= drawn' /\ (Live(p)' => Live(p) /\ para'[p].spec = para[p].spec)
    <2>1. PICK T \in SUBSET Paras, op \in UserOps : Logs(s, T, user, op)
      BY <1>2, UserLogs DEF ViewsInv
    <2>2. HistoryInv /\ Rewrites(s, T) /\ RowMoves(s, op)
      BY <2>1 DEF Logs, ViewsInv
    <2>3. drawn' \in Nat /\ drawn <= drawn'
      BY <2>2 DEF RowMoves
    <2>4. ~Live(p) /\ Live(p)' => drawn < p
      BY <2>2, RowsRemain DEF ComesIn
    <2>5. Live(p) => para'[p].spec = para[p].spec
      BY <2>2, RowsRemain
    <2> QED
      BY <1>0, <2>3, <2>4, <2>5
  <1>3. CASE UNCHANGED <<para, drawn>>
    BY <1>3 DEF Live
  <1> QED
    BY <1>1, <1>2, <1>3 DEF Work, CreateCheckpoint, vars

-----------------------------------------------------------------------------
(* The writers leave what a call has read in force.                         *)

LEMMA Types ==
    ASSUME ViewsInv
    PROVE  /\ HistoryInv /\ KeysDistinct /\ LogTells /\ TypeOK /\ RowsHang
           /\ \A x \in Specs : spec[x].contentVersion \in Nat /\ importedAt[x] \in Nat
           /\ \A p \in Paras : Live(p) => /\ para[p].spec \in Specs /\ para[p].text \in Texts
                                          /\ para[p].baseVersion \in Nat
           /\ \A r \in sealed : /\ r.contentVersion \in Nat \ {0} /\ r.spec \in Specs
                                /\ r.contentVersion <= spec[r.spec].contentVersion
           /\ \A p \in Paras : \A e \in RowsOf(p) :
                 /\ e \in hist /\ e.para = p /\ e \in VersionRow /\ Live(p) /\ e.spec = para[p].spec
                 /\ e.version \in 1..para[p].baseVersion
                 /\ e.contentVersion \in Nat /\ e.contentVersion <= spec[para[p].spec].contentVersion
  BY DEF ViewsInv, HistoryInv, TypeOK, SpecRow, PastTells, ParaRow, Live, SealsTell, SealRow,
         SealedTextIsExact, RowsOf, HistoryTracksRows, HistoryOrdered, VersionRow, InSpec

(* The last entry of a history read undisturbed is what the row says.        *)
LEMMA LastReadSays ==
    ASSUME ViewsInv, NEW p \in Paras, NEW e \in {Entry(x) : x \in RowsOf(p)},
           \A f \in {Entry(x) : x \in RowsOf(p)} : f.contentVersion <= e.contentVersion
    PROVE  e.text = para[p].text /\ e.version = para[p].baseVersion
  <1>1. PICK g \in RowsOf(p) : e = Entry(g)
    OBVIOUS
  <1>2. PICK t : t = Latest(RowsOf(p))
    OBVIOUS
  <1>3. t \in RowsOf(p) /\ \A f \in RowsOf(p) : f = t \/ f.contentVersion < t.contentVersion
    BY <1>1, <1>2, LatestOf, Types
  <1>4. Entry(t).contentVersion <= e.contentVersion
    BY <1>3
  <1>5. t.contentVersion <= g.contentVersion
    BY <1>1, <1>4 DEF Entry
  <1>6. t.contentVersion \in Nat /\ g.contentVersion \in Nat
    BY <1>1, <1>3, Types
  <1>7. g = t
    BY <1>1, <1>3, <1>5, <1>6
  <1>8. t.text = para[p].text /\ t.version = para[p].baseVersion
    BY <1>1, <1>2, TipIs, Types
  <1> QED
    BY <1>1, <1>7, <1>8 DEF Entry

LEMMA SteadyRead ==
    ASSUME ViewsInv, Begun, call' = call, Steady(call.spec) \/ Written(call.spec) \/ Replaced(call.spec)
    PROVE  /\ Begun'
           /\ spec[call.spec].contentVersion \in Nat
           /\ spec[call.spec].contentVersion <= spec'[call.spec].contentVersion
           /\ Undisturbed' => Undisturbed /\ Steady(call.spec)
  <1>1. spec[call.spec].contentVersion \in Nat
    BY Types DEF Begun
  <1> QED
    BY <1>1 DEF Begun, Undisturbed, Steady, Written, Replaced

LEMMA RowStays ==
    ASSUME ViewsInv, Begun, call' = call, RowWasRead, Undisturbed' => Undisturbed /\ Steady(call.spec),
           [Work]_<<vars, historyVars>>
    PROVE  RowWasRead'
  <1>0. /\ call.para <= drawn'
        /\ Live(call.para)' => para'[call.para].spec = call.spec
    BY StaysHome DEF RowWasRead
  <1> SUFFICES ASSUME Undisturbed'
               PROVE  /\ InSpec(call.para, call.spec)'
                      /\ call.version = para'[call.para].baseVersion
                      /\ call.text = para'[call.para].text
    BY <1>0 DEF RowWasRead
  <1>1. call.para \in Rows(call.spec)
    BY DEF RowWasRead, Rows
  <1> QED
    BY <1>1 DEF RowWasRead, Steady, Untouched, Keeps, InSpec, Rows

LEMMA HistoryStays ==
    ASSUME ViewsInv, Begun, call' = call, RowWasRead, HistoryWasRead,
           Undisturbed' => Undisturbed /\ Steady(call.spec),
           Steady(call.spec) \/ Written(call.spec) \/ Replaced(call.spec)
    PROVE  HistoryWasRead'
  <1>1. Rises(call.rows)'
    BY DEF HistoryWasRead, Rises, EntryRow
  <1>2. ASSUME Undisturbed'  PROVE call.rows = {Entry(e) : e \in RowsOf(call.para)}'
    <2>1. call.rows = {Entry(e) : e \in RowsOf(call.para)} /\ call.para \in Rows(call.spec)
      BY <1>2 DEF HistoryWasRead, RowWasRead, Rows
    <2>2. RowsOf(call.para)' = RowsOf(call.para) /\ \A e \in RowsOf(call.para) : log'[e] = log[e]
      BY <1>2, <2>1 DEF Steady, Untouched, Keeps
    <2>3. \A e \in RowsOf(call.para) : Entry(e)' = Entry(e)
      BY <2>2 DEF Entry
    <2> QED
      BY <2>1, <2>2, <2>3
  <1>3. SealsMet'
    <2> SUFFICES ASSUME NEW r \in sealed', r.spec = call.spec,
                        r.contentVersion <= call.contentVersion, NEW e \in call.rows,
                        LastUpTo(call.rows, r.contentVersion, e)
                 PROVE  e.text = r.texts[call.para]
      BY DEF SealsMet, LastUpTo
    <2>1. CASE r \in sealed
      BY <2>1 DEF HistoryWasRead, SealsMet
    <2>2. CASE r \notin sealed
      <3>1. /\ Steady(call.spec)
            /\ r.contentVersion = spec[call.spec].contentVersion
            /\ \A p \in Rows(call.spec) : r.texts[p] = para[p].text
        BY <2>2 DEF Steady, Written, Replaced
      <3>2. Undisturbed
        BY <3>1, Types DEF Undisturbed, Begun
      <3>3. call.para \in Rows(call.spec) /\ call.para \in Paras
            /\ call.rows = {Entry(x) : x \in RowsOf(call.para)} /\ para[call.para].spec = call.spec
        BY <3>2 DEF RowWasRead, HistoryWasRead, Rows, InSpec
      <3>4. \A f \in call.rows : f.contentVersion <= r.contentVersion
        <4>1. \A x \in RowsOf(call.para) : x.contentVersion <= spec[call.spec].contentVersion
          BY <3>3, Types
        <4> QED
          BY <3>1, <3>3, <4>1 DEF Entry
      <3>5. e.text = para[call.para].text
        BY <3>3, <3>4, LastReadSays DEF LastUpTo
      <3> QED
        BY <3>1, <3>3, <3>5
    <2> QED
      BY <2>1, <2>2
  <1> QED
    BY <1>1, <1>2, <1>3 DEF HistoryWasRead

(* Rows that stand at an anchor go on standing while rows are kept.          *)
LEMMA RowsGoOnStanding ==
    ASSUME ViewsInv, NEW s \in Specs, NEW rows, NEW v \in 0..spec[s].contentVersion,
           RowsStand(s, rows, v), \A p \in Rows(s) : Keeps(p),
           \A p \in Rows(s)' : p \in Rows(s) \/ Later(p, v)'
    PROVE  RowsStand(s, rows, v)'
  <1>0. spec[s].contentVersion \in Nat /\ v \in Nat /\ v <= spec[s].contentVersion
    BY Types
  <1>1. \A p \in Rows(s) : Lineage'[p] = Lineage[p]
    BY Types, KeptLineage
  <1>2. \A p \in Rows(s) : p \in Rows(s)'
    BY DEF Keeps, Rows, InSpec
  <1>3. ASSUME NEW p \in Rows(s)
        PROVE  \A e \in RowsOf(p)' : e \in RowsOf(p) \/ (~(e.contentVersion <= v) /\ e \notin RowsOf(p))
    <2>1. para[p].spec = s
      BY DEF Rows, InSpec
    <2> QED
      BY <1>0, <2>1 DEF Keeps
  <1>4. ASSUME NEW p \in DOMAIN rows
        PROVE  /\ rows[p].above = Lineage'[p]
               /\ rows[p].text = para'[p].text \/ \E e \in RowsOf(p)' : ~(e.contentVersion <= v)
    <2>1. p \in Rows(s) /\ rows[p].above = Lineage[p] /\ Keeps(p)
      BY DEF RowsStand
    <2>2. rows[p].text = para[p].text \/ \E e \in RowsOf(p) : ~(e.contentVersion <= v)
      BY DEF RowsStand
    <2>3. CASE \E e \in RowsOf(p) : ~(e.contentVersion <= v)
      BY <1>1, <2>1, <2>3 DEF Keeps
    <2>4. CASE rows[p].text = para[p].text /\ RowsOf(p)' = RowsOf(p)
      BY <1>1, <2>1, <2>4 DEF Keeps
    <2>5. CASE RowsOf(p)' # RowsOf(p)
      <3>1. \E e \in RowsOf(p)' : e \notin RowsOf(p)
        BY <2>1, <2>5 DEF Keeps
      <3> QED
        BY <1>1, <1>3, <2>1, <3>1
    <2> QED
      BY <2>2, <2>3, <2>4, <2>5
  <1>5. ASSUME NEW p \in Rows(s)', p \notin DOMAIN rows  PROVE Later(p, v)'
    <2>1. CASE p \notin Rows(s)
      BY <2>1
    <2>2. CASE p \in Rows(s)
      <3>1. Later(p, v) /\ Keeps(p)
        BY <1>5, <2>2 DEF RowsStand
      <3>2. \E e \in RowsOf(p)' : CreatesParagraph(e)'
        BY <3>1 DEF Later, Keeps, CreatesParagraph
      <3>3. \A e \in RowsOf(p)' : ~(e.contentVersion <= v)
        BY <1>3, <2>2, <3>1 DEF Later
      <3> QED
        BY <3>2, <3>3 DEF Later
    <2> QED
      BY <2>1, <2>2
  <1> QED
    BY <1>2, <1>4, <1>5 DEF RowsStand

LEMMA RowsReadStay ==
    ASSUME ViewsInv, NEW s \in Specs, Steady(s)
    PROVE  RowsRead(s)' = RowsRead(s)
  <1>1. \A p \in Rows(s) : Keeps(p) /\ RowsOf(p)' = RowsOf(p) /\ (RemovedRoot(p)' <=> RemovedRoot(p))
    BY DEF Steady, Untouched
  <1>2. \A p \in Rows(s) : Lineage'[p] = Lineage[p]
    BY <1>1, Types, KeptLineage
  <1>3. \A p \in Rows(s) : para'[p].text = para[p].text
    BY <1>1 DEF Keeps
  <1>4. \A p \in Rows(s) : /\ RemovedRoot(p) \in BOOLEAN /\ RemovedRoot(p)' \in BOOLEAN
                           /\ RemovedRoot(p)' = RemovedRoot(p)
    BY <1>1 DEF RemovedRoot
  <1>5. Rows(s)' = Rows(s)
    BY DEF Steady
  <1> QED
    BY <1>2, <1>3, <1>4, <1>5 DEF RowsRead

LEMMA RowsReadOn ==
    ASSUME ViewsInv, Begun, call' = call, RowsWereRead,
           Undisturbed' => Undisturbed /\ Steady(call.spec),
           Steady(call.spec) \/ Written(call.spec) \/ Replaced(call.spec)
    PROVE  RowsWereRead'
  <1>0. /\ call.spec \in Specs /\ spec[call.spec].contentVersion \in Nat
        /\ call.anchor \in 0..spec[call.spec].contentVersion
    BY Types DEF Begun, RowsWereRead
  <1>1. call.anchor \in 0..spec'[call.spec].contentVersion
    BY <1>0 DEF Steady, Written, Replaced
  <1>2. Undisturbed' => call.rows = RowsRead(call.spec)'
    BY <1>0, RowsReadStay DEF RowsWereRead
  <1>3. ASSUME importedAt'[call.spec] <= call.anchor
        PROVE  RowsStand(call.spec, call.rows, call.anchor)'
    <2>1. ~Replaced(call.spec)
      BY <1>0, <1>3 DEF Replaced
    <2>2. importedAt[call.spec] <= call.anchor
      BY <1>3, <2>1 DEF Steady, Written
    <2>3. RowsStand(call.spec, call.rows, call.anchor)
      BY <2>2 DEF RowsWereRead
    <2>4. \A p \in Rows(call.spec) : Keeps(p)
      BY <2>1 DEF Steady, Written, Untouched
    <2>5. \A p \in Rows(call.spec)' : p \in Rows(call.spec) \/ Later(p, call.anchor)'
      BY <1>0, <2>1 DEF Steady, Written
    <2> QED
      BY <1>0, <2>3, <2>4, <2>5, RowsGoOnStanding
  <1> QED
    BY <1>1, <1>2, <1>3 DEF RowsWereRead

LEMMA CallStays ==
    ASSUME ViewsInv, CallInv, [Work]_<<vars, historyVars>>, call' = call
    PROVE  CallInv'
  <1>1. CASE call = NoCall
    BY <1>1 DEF CallInv
  <1>2. CASE call # NoCall
    <2>1. Begun /\ call.spec \in Specs
      BY <1>2 DEF CallInv, Begun
    <2>2. Steady(call.spec) \/ Written(call.spec) \/ Replaced(call.spec)
      BY <2>1, WorkMoves
    <2>3. Begun' /\ (Undisturbed' => Undisturbed /\ Steady(call.spec))
      BY <2>1, <2>2, SteadyRead
    <2>4. RowWasRead => RowWasRead'
      BY <2>1, <2>3, RowStays
    <2>5. RowWasRead /\ HistoryWasRead => HistoryWasRead'
      BY <2>1, <2>2, <2>3, HistoryStays
    <2>6. RowsWereRead => RowsWereRead'
      BY <2>1, <2>2, <2>3, RowsReadOn
    <2> QED
      BY <1>2, <2>3, <2>4, <2>5, <2>6 DEF CallInv
  <1> QED
    BY <1>1, <1>2

-----------------------------------------------------------------------------
(* The statements of the calls.  Each writes nothing, so that what holds of  *)
(* the tables goes on holding.                                              *)
StandStill == UNCHANGED <<vars, historyVars>>

LEMMA StillTables ==
    ASSUME StandStill
    PROVE  /\ UNCHANGED <<spec, para, drawn, hist, sealed, log, past, importedAt>>
           /\ \A s \in Specs : Rows(s)' = Rows(s)
           /\ \A p : RowsOf(p)' = RowsOf(p)
           /\ \A e : (CreatesParagraph(e)' <=> CreatesParagraph(e)) /\ Entry(e)' = Entry(e)
  BY DEF StandStill, vars, historyVars, Rows, InSpec, Live, RowsOf, CreatesParagraph, Entry

LEMMA StillLineage ==
    ASSUME ViewsInv, StandStill, NEW s \in Specs
    PROVE  \A p \in Rows(s) : Lineage'[p] = Lineage[p]
  <1>1. \A p \in Rows(s) : Untouched(p)
    BY StillTables, NothingWritten
  <1>2. \A p \in Rows(s) : Keeps(p)
    BY <1>1 DEF Untouched
  <1> QED
    BY <1>2, Types, KeptLineage

(* The first statements. *)
LEMMA ContextRead ==
    ASSUME ViewsInv, StandStill, NEW s \in Specs, NEW p \in Paras, ParagraphContext(s, p)
    PROVE  CallInv'
  <1>1. /\ call'.due = "history" /\ call'.spec = s /\ call'.para = p
        /\ call'.contentVersion = spec[s].contentVersion
        /\ call'.version = para[p].baseVersion /\ call'.text = para[p].text
        /\ DOMAIN call' = ParaCall /\ InSpec(p, s)
    BY DEF ParagraphContext, ParaCall
  <1>2. spec[s].contentVersion \in Nat /\ Exists(s)
    BY <1>1, Types DEF RowsHang, InSpec
  <1>3. spec' = spec /\ para' = para
    BY StillTables
  <1>4. Begun'
    BY <1>1, <1>2, <1>3 DEF Begun, Exists
  <1>5. RowWasRead'
    <2>1. p <= drawn /\ drawn' = drawn
      BY <1>1, Types, StillTables, SizesAssumption DEF TypeOK, InSpec, Live, Paras
    <2> QED
      BY <1>1, <1>3, <2>1 DEF RowWasRead, InSpec, Live
  <1> QED
    BY <1>1, <1>4, <1>5 DEF CallInv

LEMMA VersionRead ==
    ASSUME ViewsInv, StandStill, NEW s \in Specs, SpecVersion(s) \/ DiffContext(s)
    PROVE  CallInv'
  <1>1. /\ call'.spec = s /\ call'.contentVersion = spec[s].contentVersion /\ Exists(s)
        /\ \/ call'.due = "boundary" /\ DOMAIN call' = SpecCall
           \/ call'.due = "live" /\ DOMAIN call' = DiffCall
    BY DEF SpecVersion, DiffContext, SpecCall, DiffCall
  <1>2. spec[s].contentVersion \in Nat /\ spec' = spec
    BY Types, StillTables
  <1>3. Begun'
    BY <1>1, <1>2 DEF Begun, Exists
  <1> QED
    BY <1>1, <1>3 DEF CallInv

(* The history of a paragraph. *)
LEMMA EntriesRise ==
    ASSUME ViewsInv, NEW p \in Paras
    PROVE  Rises({Entry(e) : e \in RowsOf(p)})
  <1> DEFINE S == RowsOf(p)
             E == {Entry(e) : e \in S}
  <1>1. \A e \in S : /\ e \in hist /\ e \in VersionRow /\ e.version \in 1..para[p].baseVersion
                     /\ Live(p) /\ para[p].baseVersion \in Nat /\ e.para = p
    BY Types
  <1>2. \A e \in S : log[e] \in LogRow /\ (log[e].op = "insert" => e.version = 1)
    BY <1>1, Types DEF LogTells, CreatesParagraph
  <1>3. \A e, f \in S : e.version = f.version => e = f
    BY <1>1, Types DEF KeysDistinct
  <1>4. \A e, f \in S : e.version < f.version => e.contentVersion < f.contentVersion
    BY <1>1, Types DEF HistoryInv, HistoryOrdered
  <1>5. IsFiniteSet(S)
    <2> HIDE DEF S
    <2>1. CASE S = {}
      BY <2>1, FS_EmptySet
    <2>2. CASE S # {}
      <3>1. PICK b : b = para[p].baseVersion
        OBVIOUS
      <3>2. b \in Nat /\ b \in Int /\ 1 \in Int
        BY <1>1, <2>2, <3>1
      <3>3. IsFiniteSet(1..b)
        BY <3>2, FS_Interval
      <3>4. [e \in S |-> e.version] \in [S -> 1..b]
        BY <1>1, <3>1
      <3>5. [e \in S |-> e.version] \in Injection(S, 1..b)
        BY <1>3, <3>4 DEF Injection, IsInjective
      <3> QED
        BY <3>3, <3>5, FS_Injection
    <2> QED
      BY <2>1, <2>2
  <1>6. IsFiniteSet(E)
    <2> DEFINE F == [e \in S |-> Entry(e)]
    <2>1. F \in Surjection(S, E)
      BY DEF Surjection
    <2> HIDE DEF F, S, E
    <2> QED
      BY <1>5, <2>1, FS_Surjection
  <1>7. \A e \in S : /\ Entry(e) \in EntryRow /\ Entry(e).version = e.version
                     /\ Entry(e).contentVersion = e.contentVersion /\ Entry(e).op = log[e].op
    BY <1>1, <1>2 DEF Entry, EntryRow, VersionRow, LogRow
  <1>8. \A x \in E : \E e \in S : x = Entry(e)
    OBVIOUS
  <1> HIDE DEF S, E
  <1>9. E \in SUBSET EntryRow
    BY <1>7, <1>8
  <1>10. \A x, y \in E : x.version = y.version => x = y
    BY <1>3, <1>7, <1>8
  <1>11. \A x, y \in E : x.version < y.version => x.contentVersion < y.contentVersion
    BY <1>4, <1>7, <1>8
  <1>12. \A x \in E : x.op = "insert" => x.version = 1
    BY <1>2, <1>7, <1>8
  <1>13. Rises(E)
    BY <1>6, <1>9, <1>10, <1>11, <1>12 DEF Rises
  <1> QED
    BY <1>13 DEF E, S

LEMMA HistoryRead ==
    ASSUME ViewsInv, CallInv, StandStill, HistoryRows
    PROVE  CallInv'
  <1> DEFINE E == {Entry(e) : e \in RowsOf(call.para)}
  <1>1. DOMAIN call = ParaCall /\ call.due = "history" /\ RowWasRead /\ Begun
    BY DEF CallInv, HistoryRows, NoCall
  <1>2. /\ call'.due = "boundaries" /\ DOMAIN call' = ParaCall /\ call'.rows = E
        /\ call'.spec = call.spec /\ call'.para = call.para
        /\ call'.contentVersion = call.contentVersion
        /\ call'.version = call.version /\ call'.text = call.text
    BY <1>1 DEF HistoryRows, ParaCall
  <1>3. UNCHANGED <<spec, para, drawn, sealed>> /\ E' = {Entry(e) : e \in RowsOf(call'.para)}
    BY <1>2, StillTables
  <1>4. /\ Begun' /\ RowWasRead'
    BY <1>1, <1>2, <1>3 DEF Begun, RowWasRead, Undisturbed, InSpec, Live
  <1>5. Rises(E)
    BY <1>1, EntriesRise DEF RowWasRead
  <1>6. ASSUME NEW r \in sealed, r.spec = call.spec, r.contentVersion <= call.contentVersion,
               NEW e \in E, LastUpTo(E, r.contentVersion, e)
        PROVE  e.text = r.texts[call.para]
    <2>1. PICK g \in RowsOf(call.para) : e = Entry(g)
      OBVIOUS
    <2>2. call.para \in Paras /\ r.contentVersion \in Nat
      BY <1>1, Types DEF RowWasRead
    <2>3. Live(call.para) /\ para[call.para].spec \in Specs
      BY <2>1, <2>2, Types
    <2>4. g.contentVersion <= r.contentVersion /\ g \in hist /\ g.para = call.para
          /\ g.spec = para[call.para].spec
      BY <1>6, <2>1, <2>2, Types DEF LastUpTo, Entry
    <2>5. para[call.para].spec = call.spec
      BY <1>1, <2>3 DEF RowWasRead
    <2>6. e.text = r.texts[call.para]
      <3>1. ASSUME NEW f \in hist, f.para = call.para, f.contentVersion <= r.contentVersion
            PROVE  \/ f.contentVersion < g.contentVersion
                   \/ f.contentVersion = g.contentVersion /\ f.version <= g.version
        <4>1. f \in RowsOf(call.para)
          BY <3>1 DEF RowsOf
        <4>2. Entry(f) \in E /\ Entry(f).contentVersion = f.contentVersion
          BY <4>1 DEF Entry
        <4>3. f.contentVersion <= g.contentVersion
          BY <1>6, <2>1, <3>1, <4>2 DEF LastUpTo, Entry
        <4>4. f.contentVersion \in Nat /\ g.contentVersion \in Nat /\ f.version \in Nat /\ g.version \in Nat
          BY <2>2, <2>1, <4>1, Types DEF VersionRow
        <4>5. f.version > g.version => f.contentVersion > g.contentVersion
          BY <2>4, <3>1, <4>4, Types DEF HistoryInv, HistoryOrdered
        <4> QED
          BY <4>3, <4>4, <4>5
      <3>2. g \in SealedSnapshots(call.para, r.spec, r.contentVersion)
        BY <1>6, <2>4, <2>5, <3>1 DEF SealedSnapshots
      <3>3. g.text = r.texts[call.para]
        BY <2>2, <3>2, Types DEF HistoryInv, SealedTextIsExact
      <3> QED
        BY <2>1, <3>3 DEF Entry
    <2> QED
      BY <2>6
  <1> HIDE DEF E
  <1>7. HistoryWasRead'
    BY <1>2, <1>3, <1>5, <1>6 DEF HistoryWasRead, Rises, EntryRow, SealsMet, LastUpTo, E
  <1> QED
    BY <1>2, <1>4, <1>7 DEF CallInv

(* The last boundary. *)
LEMMA BoundaryRead ==
    ASSUME ViewsInv, CallInv, StandStill, LatestCheckpointBoundary
    PROVE  CallInv'
  <1>1. DOMAIN call = SpecCall /\ call.due = "boundary" /\ Begun
    BY DEF CallInv, LatestCheckpointBoundary, NoCall
  <1>2. /\ call'.due = "rollup" /\ DOMAIN call' = SpecCall /\ call'.spec = call.spec
        /\ call'.contentVersion = call.contentVersion
        /\ call'.sealedVersion = IF Boundaries(call.spec) = {} THEN 0 ELSE LatestBoundary(call.spec)
    BY <1>1 DEF LatestCheckpointBoundary, SpecCall
  <1>3. Boundaries(call.spec) # {} => LatestBoundary(call.spec) \in Boundaries(call.spec)
    <2>1. \A n \in Boundaries(call.spec) : n \in Nat /\ n <= spec[call.spec].contentVersion
      BY Types DEF Boundaries
    <2>2. spec[call.spec].contentVersion \in Nat
      BY <1>1, Types DEF Begun
    <2> DEFINE B == Boundaries(call.spec)
               Greatest(x) == \A y \in B : x >= y
    <2>3. LatestBoundary(call.spec) = CHOOSE x \in B : Greatest(x)
      BY DEF LatestBoundary, Max
    <2> HIDE DEF B
    <2>4. ASSUME B # {}  PROVE \E x \in B : Greatest(x)
      <3>1. B \in SUBSET Nat /\ \A m \in B : m <= spec[call.spec].contentVersion
        BY <2>1 DEF B
      <3>2. PICK K \in B : \A m \in B : m <= K
        BY <2>2, <2>4, <3>1, GreatestOf
      <3> QED
        BY <3>1, <3>2
    <2> QED
      BY <2>3, <2>4 DEF B
  <1>4. call'.sealedVersion \in Nat
    BY <1>2, <1>3, Types DEF Boundaries
  <1>5. Begun'
    BY <1>1, <1>2, StillTables DEF Begun
  <1> QED
    BY <1>2, <1>4, <1>5 DEF CallInv

(* The rows of the spec, and the first of two sides being done.              *)
LEMMA LiveRead ==
    ASSUME ViewsInv, CallInv, StandStill, LiveRows
    PROVE  CallInv'
  <1>1. DOMAIN call = DiffCall /\ call.due = "live" /\ Begun
    BY DEF CallInv, LiveRows, NoCall
  <1>2. PICK v \in Anchors :
           call' = [call EXCEPT !.due = "versions", !.anchor = v, !.rows = RowsRead(call.spec)]
    BY DEF LiveRows
  <1>3. /\ call'.due = "versions" /\ DOMAIN call' = DiffCall /\ call'.spec = call.spec
        /\ call'.contentVersion = call.contentVersion /\ call'.anchor = v
        /\ call'.rows = RowsRead(call.spec)
    BY <1>1, <1>2 DEF DiffCall
  <1>4. /\ call.spec \in Specs /\ spec[call.spec].contentVersion \in Nat
        /\ call.contentVersion \in 1..spec[call.spec].contentVersion
    BY <1>1, Types DEF Begun
  <1>5. v \in 0..spec[call.spec].contentVersion
    <2>1. \A n \in Boundaries(call.spec) : n \in 0..spec[call.spec].contentVersion
      BY Types DEF Boundaries
    <2> QED
      BY <1>4, <2>1 DEF Anchors, Current
  <1>6. /\ UNCHANGED <<spec, para, importedAt>> /\ Rows(call.spec)' = Rows(call.spec)
        /\ \A p \in Rows(call.spec) : Lineage'[p] = Lineage[p]
    <2>1. UNCHANGED <<spec, para, importedAt>> /\ Rows(call.spec)' = Rows(call.spec)
      BY <1>3, <1>4, StillTables
    <2>2. \A p \in Rows(call.spec) : Lineage'[p] = Lineage[p]
      BY <1>3, <1>4, StillLineage
    <2> QED
      BY <2>1, <2>2
  <1>7. RowsRead(call.spec)' = RowsRead(call.spec)
    BY <1>6 DEF RowsRead, RemovedRoot
  <1>8. RowsStand(call.spec, RowsRead(call.spec), v)'
    <2>1. /\ DOMAIN RowsRead(call.spec) = Rows(call.spec)
          /\ \A p \in Rows(call.spec) : /\ RowsRead(call.spec)[p].above = Lineage[p]
                                        /\ RowsRead(call.spec)[p].text = para[p].text
      BY DEF RowsRead
    <2> QED
      BY <1>6, <1>7, <2>1 DEF RowsStand
  <1>9. RowsWereRead'
    BY <1>3, <1>5, <1>6, <1>7, <1>8 DEF RowsWereRead
  <1>10. Begun'
    BY <1>1, <1>3, <1>6 DEF Begun
  <1> QED
    BY <1>3, <1>9, <1>10 DEF CallInv

LEMMA SideRead ==
    ASSUME ViewsInv, CallInv, StandStill, VersionRows
    PROVE  CallInv'
  <1>1. DOMAIN call = DiffCall /\ call.due = "versions" /\ Begun
    BY DEF CallInv, VersionRows, NoCall
  <1>2. CASE call' = NoCall
    BY <1>2 DEF CallInv, NoCall
  <1>3. CASE call' # NoCall
    <2>1. /\ call'.due = "live" /\ DOMAIN call' = DiffCall /\ call'.spec = call.spec
          /\ call'.contentVersion = call.contentVersion
      BY <1>1, <1>3 DEF VersionRows, DiffCall
    <2>2. Begun'
      BY <1>1, <2>1, StillTables DEF Begun
    <2> QED
      BY <2>1, <2>2 DEF CallInv
  <1> QED
    BY <1>2, <1>3

LEMMA CallReads ==
    ASSUME ViewsInv, CallInv, Read, UNCHANGED <<vars, historyVars>>
    PROVE  CallInv'
  <1>0. StandStill
    BY DEF StandStill
  <1>1. ASSUME NEW s \in Specs, NEW p \in Paras, ParagraphContext(s, p)  PROVE CallInv'
    BY <1>0, <1>1, ContextRead
  <1>2. ASSUME NEW s \in Specs, SpecVersion(s) \/ DiffContext(s)  PROVE CallInv'
    BY <1>0, <1>2, VersionRead
  <1>3. CASE HistoryRows
    BY <1>0, <1>3, HistoryRead
  <1>4. CASE CheckpointBoundaries \/ ActorRollup
    BY <1>4 DEF CheckpointBoundaries, ActorRollup, CallInv, NoCall
  <1>5. CASE LatestCheckpointBoundary
    BY <1>0, <1>5, BoundaryRead
  <1>6. CASE LiveRows
    BY <1>0, <1>6, LiveRead
  <1>7. CASE VersionRows
    BY <1>0, <1>7, SideRead
  <1> QED
    BY <1>1, <1>2, <1>3, <1>4, <1>5, <1>6, <1>7 DEF Read

(* Whatever a call has read is in force when its last statement is due.      *)
LEMMA ViewsCorrect == HistorySpec => [](ViewsInv /\ CallInv)
  <1>1. HistoryInit => ViewsInv /\ CallInv
    BY InitViews DEF HistoryInit, CallInv
  <1>2. ViewsInv /\ CallInv /\ [HistoryNext]_<<vars, historyVars, call>> => (ViewsInv /\ CallInv)'
    <2> SUFFICES ASSUME ViewsInv, CallInv, [HistoryNext]_<<vars, historyVars, call>>
                 PROVE  ViewsInv' /\ CallInv'
      OBVIOUS
    <2>1. CASE [Work]_<<vars, historyVars>> /\ call' = call
      BY <2>1, NextViews, CallStays
    <2>2. CASE Read /\ UNCHANGED <<vars, historyVars>>
      BY <2>2, NextViews, CallReads
    <2> QED
      BY <2>1, <2>2 DEF HistoryNext
  <1> QED
    BY <1>1, <1>2, PTL DEF HistorySpec

-----------------------------------------------------------------------------
(* What the endpoints return. *)

(* The rows past the boundary that was read are those written since.         *)
LEMMA PendingIsSince ==
    ASSUME HistoryInv, NEW r \in sealed, r.spec = call.spec, r.contentVersion = call.sealedVersion,
           NEW p \in Rows(r.spec)
    PROVE  /\ PendingRows \cap RowsOf(p) = Since(r, p)
           /\ p \in Pending <=> Since(r, p) # {}
  <1>2. PendingRows = {e \in hist : e.spec = r.spec /\ e.contentVersion > r.contentVersion}
    BY DEF PendingRows
  <1>3. \A e \in RowsOf(p) : e \in hist /\ e.para = p /\ e.spec = r.spec
    BY DEF RowsOf, Rows, InSpec, HistoryInv, HistoryTracksRows
  <1>4. PendingRows \cap RowsOf(p) = Since(r, p)
    BY <1>2, <1>3 DEF Since
  <1>5. p \in Pending <=> \E e \in PendingRows : e.para = p
    BY DEF Pending
  <1>6. \A e \in PendingRows : e.para = p <=> e \in RowsOf(p)
    BY <1>2 DEF RowsOf
  <1> QED
    BY <1>4, <1>5, <1>6

(* The pending summary misses no change since the boundary it names, holds   *)
(* nothing older, and charges each change to its last writer, whatever was   *)
(* committed between its three statements; the version it shows is past the  *)
(* boundary when nothing was.                                               *)
THEOREM PendingSummaryIsExact == HistorySpec => []PendingIsWhatChanged
  <1>1. ASSUME ViewsInv, CallInv, call.due = "rollup", Undisturbed, Pending # {}
        PROVE  call.contentVersion > call.sealedVersion
    <2>1. DOMAIN call = SpecCall /\ call.sealedVersion \in Nat /\ Begun
      BY <1>1 DEF CallInv, NoCall
    <2>2. PICK e \in hist : e.spec = call.spec /\ e.contentVersion > call.sealedVersion
      BY <1>1 DEF Pending, PendingRows
    <2>3. e.contentVersion \in Nat /\ e.contentVersion <= spec[call.spec].contentVersion
      BY <1>1, <2>2, Types DEF HistoryInv, HistoryOrdered, TypeOK, VersionRow
    <2>4. spec[call.spec].contentVersion \in Nat
      BY <1>1, <2>1, Types DEF Begun
    <2> QED
      BY <1>1, <2>1, <2>2, <2>3, <2>4 DEF Undisturbed
  <1>2. ASSUME ViewsInv, NEW r \in sealed, r.spec = call.spec,
               r.contentVersion = call.sealedVersion, NEW p \in Rows(r.spec)
        PROVE  /\ r.texts[p] # NoText /\ r.texts[p] # para[p].text => p \in Pending
               /\ r.texts[p] = NoText /\ RowsOf(p) # {} => p \in Pending
               /\ p \in Pending =>
                     /\ r.texts[p] = NoText \/ para[p].baseVersion > 1
                     /\ \A e \in RowsOf(p) : e.version = para[p].baseVersion
                                               => PendingActor(p) = log[e].user
    <2>0. /\ HistoryInv /\ KeysDistinct /\ SealTells(r, p)
          /\ p \in Paras /\ Live(p) /\ para[p].spec = r.spec /\ r.spec \in Specs
          /\ r.contentVersion \in Nat /\ spec[r.spec].contentVersion \in Nat
      BY <1>2 DEF ViewsInv, HistoryInv, SealsTell, Rows, InSpec, TypeOK, SealRow, SpecRow
    <2>1. /\ PendingRows \cap RowsOf(p) = Since(r, p)
          /\ p \in Pending <=> Since(r, p) # {}
      BY <1>2, <2>0, PendingIsSince
    <2>2. \A e \in RowsOf(p) : /\ e \in hist /\ e.para = p /\ e \in VersionRow
                               /\ e.version \in 1..para[p].baseVersion
                               /\ e.contentVersion \in 1..spec[r.spec].contentVersion
      BY <2>0 DEF RowsOf, HistoryInv, TypeOK, HistoryTracksRows, HistoryOrdered, InSpec
    <2>3. ASSUME Since(r, p) # {}
          PROVE  /\ r.texts[p] = NoText \/ para[p].baseVersion > 1
                 /\ \A e \in RowsOf(p) : e.version = para[p].baseVersion
                                           => PendingActor(p) = log[e].user
      <3> DEFINE last == Latest(Since(r, p))
      <3>1. /\ last \in Since(r, p) /\ Since(r, p) \subseteq RowsOf(p)
            /\ \A f \in Since(r, p) : f = last \/ f.version < last.version
        <4>1. Since(r, p) \in SUBSET RowsOf(p)
          BY DEF Since
        <4> QED
          BY <2>0, <2>3, <4>1, LatestOf
      <3> HIDE DEF last
      <3>2. last \in RowsOf(p) /\ last.contentVersion > r.contentVersion
        BY <3>1 DEF Since
      <3>4. r.texts[p] = NoText \/ para[p].baseVersion > 1
        BY <2>0, <2>3 DEF SealTells
      <3>5. ASSUME NEW e \in RowsOf(p), e.version = para[p].baseVersion  PROVE e = last
        <4> SUFFICES ASSUME e # last  PROVE FALSE
          OBVIOUS
        <4>1. last.version # e.version
          BY <2>0, <2>2, <3>2, <3>5 DEF KeysDistinct
        <4>2. last.version < e.version
          BY <2>2, <3>2, <3>5, <4>1 DEF VersionRow
        <4>3. last.contentVersion < e.contentVersion
          BY <2>0, <2>2, <3>2, <4>2 DEF HistoryInv, HistoryOrdered
        <4>4. e.contentVersion > r.contentVersion
          BY <2>0, <2>2, <3>2, <4>3 DEF VersionRow
        <4>5. e \in Since(r, p)
          BY <4>4 DEF Since
        <4> QED
          BY <2>2, <3>1, <3>2, <4>2, <4>5 DEF VersionRow
      <3>6. PendingActor(p) = log[last].user
        BY <2>1 DEF PendingActor, last
      <3> QED
        BY <3>4, <3>5, <3>6
    <2>4. r.texts[p] # NoText /\ r.texts[p] # para[p].text => Since(r, p) # {}
      BY <2>0 DEF SealTells
    <2>5. r.texts[p] = NoText /\ RowsOf(p) # {} => Since(r, p) # {}
      BY <2>0 DEF SealTells
    <2> QED
      BY <2>1, <2>3, <2>4, <2>5
  <1>3. ViewsInv /\ CallInv => PendingIsWhatChanged
    BY <1>1, <1>2 DEF PendingIsWhatChanged
  <1> QED
    BY <1>3, ViewsCorrect, PTL

(* A generation put together from rows that stand at it and their history is *)
(* the one a single statement would have put together.                      *)
LEMMA SidesAgree ==
    ASSUME ViewsInv, NEW s \in Specs, NEW v \in Nat, v # Current, call.anchor = v,
           RowsStand(s, call.rows, v), NEW p \in Rows(s), OnRecord(p, v)
    PROVE  ContentSnapshot[p] = SnapshotAt(s, v)[p]
  <1>1. p \in Paras /\ InSpec(p, s) /\ p \in Lineage[p]
    BY LineageWithin, Types DEF Rows, InSpec
  <1>2. Later(p, v) => ~OwnVisible(p, v)
    <2> SUFFICES ASSUME Later(p, v)  PROVE ~OwnVisible(p, v)
      OBVIOUS
    <2>1. Switches(RowsUpTo(p, v)) = {}
      BY DEF Later, RowsUpTo, Switches
    <2>2. \E e \in {f \in RowsOf(p) : CreatesParagraph(f)} : ~(e.contentVersion <= v)
      BY DEF Later
    <2> QED
      BY <2>1, <2>2 DEF OwnVisible
  <1>3. Later(p, v) => SnapshotAt(s, v)[p] = NoText
    BY <1>1, <1>2 DEF SnapshotAt
  <1>4. CASE p \notin DOMAIN call.rows
    <2>1. Later(p, v)
      BY <1>4 DEF RowsStand
    <2> QED
      BY <1>1, <1>3, <1>4, <2>1 DEF ContentSnapshot
  <1>5. CASE p \in DOMAIN call.rows
    <2>1. /\ call.rows[p].above = Lineage[p]
          /\ call.rows[p].text = para[p].text \/ \E e \in RowsOf(p) : ~(e.contentVersion <= v)
      BY <1>5 DEF RowsStand
    <2>2. \A a : Visible(a) <=> OwnVisible(a, v)
      BY DEF Visible
    <2>3. ContentSnapshot[p] = IF \A a \in Lineage[p] : OwnVisible(a, v)
                               THEN SnapshotText(p) ELSE NoText
      BY <1>1, <1>5, <2>1, <2>2 DEF ContentSnapshot
    <2>4. SnapshotAt(s, v)[p] = IF \A a \in Lineage[p] : OwnVisible(a, v)
                                THEN TextAsOf(p, v) ELSE NoText
      BY <1>1 DEF SnapshotAt
    <2>5. CASE Later(p, v)
      BY <1>1, <1>2, <2>3, <2>4, <2>5
    <2>6. CASE ~Later(p, v)
      <3>1. RowsUpTo(p, v) = {} => call.rows[p].text = para[p].text
        BY <2>1, <2>6 DEF OnRecord, Later, RowsUpTo
      <3>2. SnapshotText(p) = TextAsOf(p, v)
        BY <3>1 DEF SnapshotText, TextAsOf
      <3> QED
        BY <2>3, <2>4, <3>2
    <2> QED
      BY <2>5, <2>6
  <1> QED
    BY <1>4, <1>5

(* The current state shows what the tables show.                             *)
LEMMA CurrentAgrees ==
    ASSUME ViewsInv, NEW s \in Specs, call.anchor = Current, call.rows = RowsRead(s)
    PROVE  ContentSnapshot = Shown(s)
  <1>1. ASSUME NEW p \in Rows(s)
        PROVE  /\ call.rows[p].above = Lineage[p] /\ call.rows[p].text = para[p].text
               /\ \A a \in Lineage[p] : Visible(a) <=> ~RemovedRoot(a)
    <2>1. p \in Paras /\ InSpec(p, s)
      BY DEF Rows
    <2>2. \A a \in Lineage[p] : a \in Paras /\ InSpec(a, s) /\ Live(a)
      BY <2>1, LineageWithin, Types DEF HistoryInv, InSpec
    <2>3. ASSUME NEW a \in Lineage[p]  PROVE Visible(a) <=> ~RemovedRoot(a)
      <3>1. a \in Rows(s) /\ call.rows[a].hidden = RemovedRoot(a)
        BY <2>2 DEF Rows, RowsRead
      <3>2. VanishTells(a)
        BY <2>2 DEF ViewsInv
      <3>3. ~RemovedRoot(a) => Remains(a)
        BY <3>2 DEF VanishTells, Remains
      <3> QED
        BY <3>1, <3>3 DEF Visible
    <2> QED
      BY <2>3 DEF RowsRead
  <1>2. DOMAIN call.rows = Rows(s) /\ \A p \in Paras : p \in Rows(s) <=> InSpec(p, s)
    BY DEF RowsRead, Rows
  <1>3. ASSUME NEW p \in Paras  PROVE ContentSnapshot[p] = Shown(s)[p]
    BY <1>1, <1>2 DEF ContentSnapshot, SnapshotText, Shown
  <1> QED
    BY <1>3 DEF ContentSnapshot, Shown

(* A generation put together from rows read first and history read later is  *)
(* the one that was, for every paragraph whose history reaches back to it,   *)
(* unless a re-import fell between it and the end of the call.              *)
THEOREM SnapshotsAreExact == HistorySpec => []SnapshotIsThatGeneration
  <1>1. ViewsInv /\ CallInv => SnapshotIsThatGeneration
    <2> SUFFICES ASSUME ViewsInv, CallInv, call.due = "versions"
                 PROVE  SnapshotIsThatGeneration
      BY DEF SnapshotIsThatGeneration
    <2> DEFINE s == call.spec
               v == call.anchor
    <2>1. RowsWereRead /\ Begun
      BY DEF CallInv, NoCall
    <2>2. /\ s \in Specs /\ Exists(s) /\ v \in 0..spec[s].contentVersion
          /\ spec[s].contentVersion \in Nat /\ importedAt[s] \in 1..spec[s].contentVersion
          /\ past[s][spec[s].contentVersion] = Shown(s)
      <3>1. s \in Specs /\ spec[s].contentVersion \in Nat /\ v \in 0..spec[s].contentVersion
        BY <2>1, Types DEF Begun, RowsWereRead
      <3>2. Exists(s)
        BY <2>1, <3>1 DEF Begun, Exists
      <3> QED
        BY <3>1, <3>2 DEF ViewsInv, PastTells
    <2>3. CASE v = Current
      <3>1. Undisturbed => ContentSnapshot = Shown(s)
        BY <2>1, <2>2, <2>3, CurrentAgrees DEF RowsWereRead
      <3> QED
        BY <2>3, <3>1 DEF SnapshotIsThatGeneration
    <2>4. CASE v # Current
      <3> SUFFICES ASSUME importedAt[s] <= v, NEW p \in Rows(s),
                          \A a \in Lineage[p] : OnRecord(a, v) /\ ImportedVisible(s, a)
                   PROVE  ContentSnapshot[p] = past[s][v][p]
        BY <2>4 DEF SnapshotIsThatGeneration
      <3>1. RowsStand(s, call.rows, v) /\ v \in Nat
        BY <2>1, <2>2 DEF RowsWereRead
      <3>2. OnRecord(p, v)
        BY LineageWithin, Types DEF Rows, InSpec
      <3>3. ContentSnapshot[p] = SnapshotAt(s, v)[p]
        BY <2>2, <2>4, <3>1, <3>2, SidesAgree
      <3>4. CASE v = spec[s].contentVersion
        BY <2>2, <3>3, <3>4, NowIsRecalled
      <3>5. CASE v # spec[s].contentVersion
        <4>1. v \in importedAt[s]..(spec[s].contentVersion - 1)
          BY <2>2, <3>5
        <4>2. Recalls(s, v, p)
          BY <2>2, <4>1 DEF ViewsInv, PastTells
        <4> QED
          BY <3>3, <4>2 DEF Recalls
      <3> QED
        BY <3>4, <3>5
    <2> QED
      BY <2>3, <2>4
  <1> QED
    BY <1>1, ViewsCorrect, PTL

-----------------------------------------------------------------------------
(* The spans of a paragraph's iterations.  They are laid one after another   *)
(* from the first entry on, and nothing within one starts a new session.     *)
Span == [first : Int, last : Int]
Partition == [spans : Seq(Span), open : Nat]
Tiles(spans, m) ==
    /\ spans \in Seq(Span)
    /\ \A k \in 1..Len(spans) :
          /\ spans[k].first = IF k = 1 THEN 1 ELSE spans[k - 1].last + 1
          /\ 1 <= spans[k].first /\ spans[k].first <= spans[k].last /\ spans[k].last <= m
    /\ m = IF Len(spans) = 0 THEN 0 ELSE spans[Len(spans)].last
Unbroken(s, entries, first, last) ==
    \A j \in (first + 1)..last : ~ShouldStartNewSession(s, entries[j - 1], entries[j])
Whole(s, entries, spans) ==
    \A k \in 1..Len(spans) : Unbroken(s, entries, spans[k].first, spans[k].last)
Partial(s, entries, state, i) ==
    /\ state \in Partition /\ state.open <= i
    /\ Tiles(state.spans, IF state.open = 0 THEN i ELSE state.open - 1)
    /\ Whole(s, entries, state.spans)
    /\ state.open # 0 => Unbroken(s, entries, state.open, i)

LEMMA NextTile ==
    ASSUME NEW s, NEW entries, NEW m \in Nat, NEW l \in Nat, m < l, NEW spans,
           Tiles(spans, m), Whole(s, entries, spans), Unbroken(s, entries, m + 1, l)
    PROVE  /\ Tiles(Append(spans, [first |-> m + 1, last |-> l]), l)
           /\ Whole(s, entries, Append(spans, [first |-> m + 1, last |-> l]))
  <1> DEFINE x == [first |-> m + 1, last |-> l]
             new == Append(spans, x)
             n == Len(spans)
  <1>1. x \in Span /\ x.first = m + 1 /\ x.last = l
    BY DEF Span
  <1>2. spans \in Seq(Span) /\ n \in Nat /\ \A k \in 1..n : spans[k] \in Span
    BY LenProperties, ElementOfSeq DEF Tiles
  <1> HIDE DEF x
  <1>3. /\ new \in Seq(Span) /\ Len(new) = n + 1 /\ new[n + 1] = x
        /\ \A k \in 1..n : new[k] = spans[k]
    BY <1>1, <1>2, AppendProperties
  <1> HIDE DEF new, n
  <1>4. ASSUME NEW k \in 1..(n + 1)
        PROVE  /\ new[k].first = IF k = 1 THEN 1 ELSE new[k - 1].last + 1
               /\ 1 <= new[k].first /\ new[k].first <= new[k].last /\ new[k].last <= l
               /\ Unbroken(s, entries, new[k].first, new[k].last)
    <2>1. CASE k = n + 1
      <3>1. new[k].first = m + 1 /\ new[k].last = l
        BY <1>1, <1>3, <2>1
      <3>2. m + 1 = IF k = 1 THEN 1 ELSE new[k - 1].last + 1
        <4>1. CASE n = 0
          BY <1>2, <2>1, <4>1 DEF Tiles, n
        <4>2. CASE n # 0
          <5>1. n \in 1..n /\ k - 1 = n /\ k # 1
            BY <1>2, <2>1, <4>2
          <5>2. m = spans[n].last /\ new[n] = spans[n]
            BY <1>3, <4>2, <5>1 DEF Tiles, n
          <5> QED
            BY <5>1, <5>2
        <4> QED
          BY <4>1, <4>2
      <3> QED
        BY <3>1, <3>2
    <2>2. CASE k # n + 1
      <3>1. k \in 1..n /\ (k # 1 => k - 1 \in 1..n)
        BY <1>2, <2>2
      <3>2. new[k] = spans[k] /\ (k # 1 => new[k - 1] = spans[k - 1])
        BY <1>3, <3>1
      <3>3. /\ spans[k].first = IF k = 1 THEN 1 ELSE spans[k - 1].last + 1
            /\ 1 <= spans[k].first /\ spans[k].first <= spans[k].last /\ spans[k].last <= m
            /\ Unbroken(s, entries, spans[k].first, spans[k].last)
        BY <3>1 DEF Tiles, Whole, n
      <3>4. spans[k].last \in Int
        BY <1>2, <3>1 DEF Span
      <3>5. spans[k].last <= l
        BY <3>3, <3>4
      <3> QED
        BY <3>2, <3>3, <3>5
    <2> QED
      BY <2>1, <2>2
  <1>5. l = new[n + 1].last /\ n + 1 # 0
    BY <1>1, <1>2, <1>3
  <1>6. Tiles(new, l)
    BY <1>3, <1>4, <1>5 DEF Tiles
  <1>7. Whole(s, entries, new)
    BY <1>3, <1>4 DEF Whole
  <1> QED
    BY <1>6, <1>7 DEF new, x

LEMMA ClosedIs ==
    ASSUME NEW s, NEW entries, NEW i \in Nat, NEW state, Partial(s, entries, state, i)
    PROVE  /\ Partial(s, entries, CloseSpan(state, i + 1), i)
           /\ CloseSpan(state, i + 1).open = 0
  <1>0. state \in Partition /\ state.open \in Nat /\ state.spans \in Seq(Span) /\ state.open <= i
    BY DEF Partial, Partition
  <1>1. CASE state.open = 0
    BY <1>1 DEF CloseSpan
  <1>2. CASE state.open # 0
    <2> DEFINE m == state.open - 1
               new == Append(state.spans, [first |-> state.open, last |-> i])
               c == [spans |-> new, open |-> 0]
    <2>1. m \in Nat /\ m < i /\ m + 1 = state.open
      BY <1>0, <1>2
    <2>2. Tiles(state.spans, m) /\ Whole(s, entries, state.spans) /\ Unbroken(s, entries, m + 1, i)
      BY <1>2, <2>1 DEF Partial
    <2> HIDE DEF m
    <2>3. /\ Tiles(Append(state.spans, [first |-> m + 1, last |-> i]), i)
          /\ Whole(s, entries, Append(state.spans, [first |-> m + 1, last |-> i]))
      BY <2>1, <2>2, NextTile
    <2>4. new = Append(state.spans, [first |-> m + 1, last |-> i])
      BY <2>1
    <2>5. CloseSpan(state, i + 1) = c
      <3>1. (i + 1) - 1 = i
        OBVIOUS
      <3> QED
        BY <1>2, <3>1 DEF CloseSpan
    <2>6. Tiles(new, i) /\ Whole(s, entries, new) /\ new \in Seq(Span)
      BY <2>3, <2>4 DEF Tiles
    <2> HIDE DEF new
    <2>7. c \in Partition /\ c.open = 0 /\ c.spans = new
      BY <2>6 DEF Partition
    <2> HIDE DEF c
    <2>8. Partial(s, entries, c, i)
      BY <2>6, <2>7 DEF Partial
    <2> QED
      BY <2>5, <2>7, <2>8
  <1> QED
    BY <1>1, <1>2

LEMMA AdvanceIs ==
    ASSUME NEW s, NEW entries, NEW i \in Nat, NEW state, Partial(s, entries, state, i)
    PROVE  Partial(s, entries, AdvancePartition(s, entries, state, i + 1), i + 1)
  <1> DEFINE n == i + 1
             new == AdvancePartition(s, entries, state, n)
             opens == state.open = 0 \/ ShouldStartNewSession(s, entries[n - 1], entries[n])
  <1>0. n \in Nat /\ n # 0 /\ i < n /\ n <= n /\ n - 1 = i
    OBVIOUS
  <1> HIDE DEF n
  <1>1. PICK closed : closed = CloseSpan(state, n)
    OBVIOUS
  <1>2. /\ closed \in Partition /\ closed.open = 0
        /\ Tiles(closed.spans, i) /\ Whole(s, entries, closed.spans)
        /\ closed.spans \in Seq(Span)
    BY <1>1, ClosedIs DEF Partial, n, Partition
  <1>3. CASE entries[n].user = Nobody
    <2>1. new = [closed EXCEPT !.spans = Append(@, [first |-> n, last |-> n])]
      BY <1>1, <1>3 DEF AdvancePartition
    <2>2. Unbroken(s, entries, n, n)
      BY <1>0 DEF Unbroken
    <2>3. /\ Tiles(Append(closed.spans, [first |-> i + 1, last |-> n]), n)
          /\ Whole(s, entries, Append(closed.spans, [first |-> i + 1, last |-> n]))
      <3>1. Unbroken(s, entries, i + 1, n)
        BY <2>2 DEF n
      <3> QED
        BY <1>0, <1>2, <3>1, NextTile
    <2>4. PICK laid : laid = Append(closed.spans, [first |-> n, last |-> n])
      OBVIOUS
    <2>5. Tiles(laid, n) /\ Whole(s, entries, laid) /\ laid \in Seq(Span)
      <3>1. n = i + 1
        BY DEF n
      <3>2. laid = Append(closed.spans, [first |-> i + 1, last |-> n])
        BY <2>4, <3>1
      <3> QED
        BY <2>3, <3>2 DEF Tiles
    <2>6. new \in Partition /\ new.open = 0 /\ new.spans = laid
      <3>1. new = [closed EXCEPT !.spans = laid]
        BY <2>1, <2>4, <1>2 DEF Partition
      <3> QED
        BY <1>2, <2>5, <3>1 DEF Partition
    <2> HIDE DEF new
    <2>7. Partial(s, entries, new, n)
      BY <1>0, <2>5, <2>6 DEF Partial
    <2> QED
      BY <2>7 DEF new, n
  <1>4. CASE entries[n].user # Nobody /\ opens
    <2>1. new = [closed EXCEPT !.open = n]
      BY <1>1, <1>4 DEF AdvancePartition
    <2>2. new \in Partition /\ new.open = n /\ new.spans = closed.spans
      BY <1>0, <1>2, <2>1 DEF Partition
    <2>3. Unbroken(s, entries, n, n)
      BY <1>0 DEF Unbroken
    <2> HIDE DEF new
    <2>4. Partial(s, entries, new, n)
      BY <1>0, <1>2, <2>2, <2>3 DEF Partial
    <2> QED
      BY <2>4 DEF new, n
  <1>5. CASE entries[n].user # Nobody /\ ~opens
    <2>1. new = state
      BY <1>1, <1>5 DEF AdvancePartition
    <2>2. /\ state \in Partition /\ state.open \in Nat /\ state.open <= i /\ state.open # 0
          /\ Tiles(state.spans, state.open - 1) /\ Whole(s, entries, state.spans)
          /\ Unbroken(s, entries, state.open, i)
      BY <1>5 DEF Partial, Partition
    <2>3. Unbroken(s, entries, state.open, n)
      <3> SUFFICES ASSUME NEW j \in (state.open + 1)..n
                   PROVE  ~ShouldStartNewSession(s, entries[j - 1], entries[j])
        BY DEF Unbroken
      <3>1. CASE j = n
        BY <1>5, <3>1
      <3>2. CASE j # n
        <4>1. j \in (state.open + 1)..i
          BY <1>0, <2>2, <3>2
        <4> QED
          BY <2>2, <4>1 DEF Unbroken
      <3> QED
        BY <3>1, <3>2
    <2>4. state.open <= n
      BY <1>0, <2>2
    <2>5. Partial(s, entries, state, n)
      BY <2>2, <2>3, <2>4 DEF Partial
    <2> QED
      BY <2>1, <2>5 DEF new, n
  <1> QED
    BY <1>3, <1>4, <1>5

(* The partition of a paragraph's entries.                                   *)
LEMMA PartitionIs ==
    ASSUME NEW s, NEW entries, Len(entries) \in Nat
    PROVE  /\ Tiles(PartitionIntoSpans(s, entries), Len(entries))
           /\ Whole(s, entries, PartitionIntoSpans(s, entries))
  <1> DEFINE n == Len(entries)
             none == [spans |-> <<>>, open |-> 0]
             b == [i \in Nat |-> [x \in Partition |-> AdvancePartition(s, entries, x, i + 1)]]
             Fits(f) == f = [i \in 0..Len(entries) |->
                              IF i = 0 THEN [spans |-> <<>>, open |-> 0]
                              ELSE AdvancePartition(s, entries, f[i - 1], i)]
  <1>1. ASSUME NEW x \in Partition, NEW i \in Nat
        PROVE  AdvancePartition(s, entries, x, i + 1) \in Partition
    <2>1. x.spans \in Seq(Span) /\ x.open \in Nat /\ (i + 1) - 1 = i /\ i + 1 \in Nat
      BY DEF Partition
    <2>2. [first |-> x.open, last |-> i] \in Span /\ [first |-> i + 1, last |-> i + 1] \in Span
      BY <2>1 DEF Span
    <2>3. PICK c : c = CloseSpan(x, i + 1)
      OBVIOUS
    <2>4. c = x \/ c = [spans |-> Append(x.spans, [first |-> x.open, last |-> i]), open |-> 0]
      BY <2>1, <2>3 DEF CloseSpan
    <2>5. Append(x.spans, [first |-> x.open, last |-> i]) \in Seq(Span)
      BY <2>1, <2>2, AppendProperties
    <2>6. c \in Partition
      BY <2>4, <2>5 DEF Partition
    <2>7. c.spans \in Seq(Span)
      BY <2>6 DEF Partition
    <2>8. Append(c.spans, [first |-> i + 1, last |-> i + 1]) \in Seq(Span)
      BY <2>2, <2>7, AppendProperties
    <2>9. /\ [c EXCEPT !.spans = Append(@, [first |-> i + 1, last |-> i + 1])] \in Partition
          /\ [c EXCEPT !.open = i + 1] \in Partition
      BY <2>1, <2>6, <2>8 DEF Partition
    <2>10. AdvancePartition(s, entries, x, i + 1) \in
              {[c EXCEPT !.spans = Append(@, [first |-> i + 1, last |-> i + 1])],
               [c EXCEPT !.open = i + 1], x}
      BY <2>3 DEF AdvancePartition
    <2> QED
      BY <2>9, <2>10
  <1>2. none \in Partition /\ b \in [Nat -> [Partition -> Partition]]
    <2>1. none \in Partition
      BY DEF Partition
    <2> QED
      BY <1>1, <2>1
  <1>3. \E f \in [Nat -> Partition] : Iterates(f, none, b)
    <2> HIDE DEF none, b
    <2> QED
      BY <1>2, Iterated, Zenon
  <1>4. PICK f \in [Nat -> Partition] : f[0] = none /\ \A i \in Nat : f[i + 1] = b[i][f[i]]
    BY <1>3 DEF Iterates
  <1>5. ASSUME NEW i \in Nat
        PROVE  f[i] = IF i = 0 THEN none ELSE AdvancePartition(s, entries, f[i - 1], i)
    <2>1. CASE i = 0
      BY <1>4, <2>1
    <2>2. CASE i # 0
      <3>1. PICK m \in Nat : i = m + 1 /\ i - 1 = m
        BY <2>2
      <3>2. f[i] = b[m][f[m]] /\ f[m] \in Partition
        BY <1>4, <3>1
      <3> QED
        BY <2>2, <3>1, <3>2
    <2> QED
      BY <2>1, <2>2
  <1>6. PICK g : g = [i \in 0..n |-> f[i]]
    OBVIOUS
  <1>7. Fits(g)
    <2>1. ASSUME NEW i \in 0..n
          PROVE  g[i] = IF i = 0 THEN none ELSE AdvancePartition(s, entries, g[i - 1], i)
      <3>1. i \in Nat /\ (i # 0 => i - 1 \in 0..n)
        OBVIOUS
      <3>2. g[i] = f[i] /\ (i # 0 => g[i - 1] = f[i - 1])
        BY <1>6, <3>1
      <3> QED
        BY <1>5, <3>1, <3>2
    <2>2. g = [i \in 0..n |-> g[i]]
      BY <1>6
    <2>3. g = [i \in 0..n |-> IF i = 0 THEN none ELSE AdvancePartition(s, entries, g[i - 1], i)]
      BY <2>1, <2>2
    <2> QED
      BY <2>3
  <1>8. PICK after : after = CHOOSE h : Fits(h)
    OBVIOUS
  <1>9. Fits(after)
    <2> HIDE DEF Fits
    <2> QED
      BY <1>7, <1>8
  <1>10. PartitionIntoSpans(s, entries) = CloseSpan(after[n], n + 1).spans
    BY <1>8 DEF PartitionIntoSpans
  <1>11. \A i \in 0..n : after[i] = IF i = 0 THEN none ELSE AdvancePartition(s, entries, after[i - 1], i)
    BY <1>9, Zenon
  <1> DEFINE T == {i \in Nat : i <= n => Partial(s, entries, after[i], i)}
  <1>12. 0 \in T
    <2>1. after[0] = none
      BY <1>11
    <2>2. Partial(s, entries, none, 0)
      <3>1. none.spans = <<>> /\ none.open = 0 /\ Len(<<>>) = 0
        OBVIOUS
      <3>2. Tiles(<<>>, 0) /\ Whole(s, entries, <<>>)
        BY DEF Tiles, Whole
      <3> HIDE DEF none
      <3> QED
        BY <1>2, <3>1, <3>2 DEF Partial
    <2> QED
      BY <2>1, <2>2
  <1>13. ASSUME NEW i \in Nat, i \in T  PROVE i + 1 \in T
    <2> SUFFICES ASSUME i + 1 <= n  PROVE Partial(s, entries, after[i + 1], i + 1)
      OBVIOUS
    <2>1. i + 1 \in 0..n /\ i + 1 # 0 /\ (i + 1) - 1 = i /\ i <= n
      OBVIOUS
    <2>2. after[i + 1] = AdvancePartition(s, entries, after[i], i + 1)
      BY <1>11, <2>1
    <2>3. Partial(s, entries, after[i], i)
      BY <1>13, <2>1
    <2> QED
      BY <2>2, <2>3, AdvanceIs
  <1>14. Partial(s, entries, after[n], n)
    <2>1. Nat \subseteq T
      <3> HIDE DEF T
      <3> QED
        BY <1>12, <1>13, CountUp
    <2> QED
      BY <2>1
  <1>15. Partial(s, entries, CloseSpan(after[n], n + 1), n) /\ CloseSpan(after[n], n + 1).open = 0
    BY <1>14, ClosedIs
  <1> QED
    BY <1>10, <1>15 DEF Partial

(* A session is one actor's, and lies between two checkpoints.               *)
LEMMA UnbrokenIs ==
    ASSUME NEW s, NEW entries, NEW first \in Nat, NEW last \in Nat, first <= last,
           Unbroken(s, entries, first, last), Boundaries(s) \subseteq Nat,
           \A j \in first..last : entries[j].contentVersion \in Nat
    PROVE  /\ \A j \in first..last : entries[j].user = entries[first].user
           /\ \A n \in Boundaries(s) :
                 ~(entries[first].contentVersion <= n /\ n < entries[last].contentVersion)
  <1>1. ASSUME NEW j \in (first + 1)..last
        PROVE  /\ entries[j - 1].user = entries[j].user
               /\ \A n \in Boundaries(s) :
                     ~(entries[j - 1].contentVersion <= n /\ n < entries[j].contentVersion)
    BY DEF Unbroken, ShouldStartNewSession, CrossesCheckpointBoundary
  <1>2. ASSUME NEW n \in Boundaries(s), entries[first].contentVersion <= n,
               n < entries[last].contentVersion
        PROVE  FALSE
    <2> DEFINE later == {i \in first..last : n < entries[i].contentVersion}
    <2>1. later \in SUBSET Nat /\ last \in later
      BY <1>2
    <2>2. PICK i \in later : \A m \in later : i <= m
      <3> HIDE DEF later
      <3> QED
        BY <2>1, LeastOf
    <2>3. i \in first..last /\ n < entries[i].contentVersion /\ n \in Nat
      BY <2>2
    <2>4. i # first
      BY <1>2, <2>3
    <2>5. i \in (first + 1)..last /\ i - 1 \in first..last /\ ~(i <= i - 1)
      BY <2>3, <2>4
    <2>6. entries[i - 1].contentVersion <= n
      <3>1. i - 1 \notin later
        BY <2>2, <2>5
      <3> QED
        BY <2>3, <2>5, <3>1
    <2> QED
      BY <1>1, <2>3, <2>5, <2>6
  <1>3. ASSUME NEW j \in first..last, entries[j].user # entries[first].user  PROVE FALSE
    <2> DEFINE other == {i \in first..last : entries[i].user # entries[first].user}
    <2>1. other \in SUBSET Nat /\ j \in other
      BY <1>3
    <2>2. PICK i \in other : \A m \in other : i <= m
      <3> HIDE DEF other
      <3> QED
        BY <2>1, LeastOf
    <2>3. i \in first..last /\ entries[i].user # entries[first].user
      BY <2>2
    <2>4. i # first
      BY <2>3
    <2>5. i \in (first + 1)..last /\ i - 1 \in first..last /\ ~(i <= i - 1)
      BY <2>3, <2>4
    <2>6. i - 1 \notin other
      BY <2>2, <2>5
    <2> QED
      BY <1>1, <2>3, <2>5, <2>6
  <1> QED
    BY <1>2, <1>3

(* The checkpoint that seals a generation is the first at or past it.        *)
Seals(s, v, n) == n \in Boundaries(s) /\ v <= n /\ \A b \in Boundaries(s) : v <= b => n <= b
LEMMA SealedByIs ==
    ASSUME NEW s, Boundaries(s) \subseteq Nat, NEW v \in Nat, NEW n \in Nat, n # 0
    PROVE  SealedBy(s, v) = n <=> Seals(s, v, n)
  <1> DEFINE reached == {b \in Boundaries(s) : b >= v}
             Least(x) == \A y \in reached : x <= y
  <1>1. \A b : b \in reached <=> b \in Boundaries(s) /\ b \in Nat /\ v <= b
    OBVIOUS
  <1>2. SealedBy(s, v) = IF reached = {} THEN 0 ELSE CHOOSE x \in reached : Least(x)
    BY DEF SealedBy, Min
  <1> HIDE DEF reached
  <1>3. CASE reached = {}
    BY <1>1, <1>2, <1>3 DEF Seals
  <1>4. CASE reached # {}
    <2>1. \E x \in reached : Least(x)
      <3>1. reached \in SUBSET Nat
        BY <1>1
      <3> QED
        BY <1>4, <3>1, LeastOf
    <2>2. PICK m : m = SealedBy(s, v)
      OBVIOUS
    <2>3. m \in reached /\ Least(m)
      BY <1>2, <1>4, <2>1, <2>2
    <2>4. Seals(s, v, n) => n = m
      <3> HAVE Seals(s, v, n)
      <3>1. n \in reached /\ n <= m
        BY <1>1, <2>3 DEF Seals
      <3>2. m <= n /\ m \in Nat
        BY <1>1, <2>3, <3>1
      <3> QED
        BY <3>1, <3>2
    <2>5. Seals(s, v, m)
      BY <1>1, <2>3 DEF Seals
    <2> QED
      BY <2>2, <2>4, <2>5
  <1> QED
    BY <1>3, <1>4

(* ORDER BY version numbers the rows read, with rising versions and          *)
(* generations.                                                             *)
LEMMA OrderedIs ==
    ASSUME NEW rows, Rises(rows)
    PROVE  /\ Len(Ordered(rows)) \in Nat
           /\ \A i \in 1..Len(Ordered(rows)) : Ordered(rows)[i] \in rows
           /\ \A e \in rows : \E i \in 1..Len(Ordered(rows)) : Ordered(rows)[i] = e
           /\ \A i, j \in 1..Len(Ordered(rows)) : i < j =>
                 /\ Ordered(rows)[i].version < Ordered(rows)[j].version
                 /\ Ordered(rows)[i].contentVersion < Ordered(rows)[j].contentVersion
  <1> DEFINE R == {t \in rows \X rows : t[1].version < t[2].version}
             n == Cardinality(rows)
             O == Ordered(rows)
  <1>1. /\ \A e \in rows : e.version \in Nat
        /\ \A e, f \in rows : e.version = f.version => e = f
        /\ \A e, f \in rows : e.version < f.version => e.contentVersion < f.contentVersion
        /\ IsFiniteSet(rows)
    BY DEF Rises, EntryRow
  <1>4. \A e, f \in rows : <<e, f>> \in R <=> e.version < f.version
    OBVIOUS
  <1> HIDE DEF R
  <1>6. TotallyOrders(R, rows)
    <2>1. \A e \in rows : ~(e.version < e.version)
      BY <1>1
    <2>2. \A e, f \in rows : e # f => e.version < f.version \/ f.version < e.version
      BY <1>1
    <2>3. \A e, f, g \in rows : e.version < f.version /\ f.version < g.version => e.version < g.version
      BY <1>1
    <2> QED
      BY <1>4, <2>1, <2>2, <2>3 DEF TotallyOrders
  <1>7. /\ n \in Nat
        /\ \A e \in rows : Cardinality(Ahead(rows, R, e)) \in 0..(n - 1)
        /\ \A e, f \in rows : <<e, f>> \in R =>
              Cardinality(Ahead(rows, R, e)) < Cardinality(Ahead(rows, R, f))
        /\ \A e, f \in rows : Cardinality(Ahead(rows, R, e)) = Cardinality(Ahead(rows, R, f)) => e = f
        /\ \A i \in 1..n : \E e \in rows : Cardinality(Ahead(rows, R, e)) = i - 1
    <2> HIDE DEF n
    <2> QED
      BY <1>1, <1>6, Ranked DEF n
  <1>8. \A e \in rows : {f \in rows : f.version < e.version} = Ahead(rows, R, e)
    BY <1>4 DEF Ahead
  <1>9. O = [i \in 1..n |-> CHOOSE e \in rows : Cardinality({f \in rows : f.version < e.version}) = i - 1]
    BY DEF Ordered
  <1> HIDE DEF O, n
  <1>10. Len(O) = n
    BY <1>7, <1>9
  <1>11. ASSUME NEW i \in 1..n
         PROVE  O[i] \in rows /\ Cardinality(Ahead(rows, R, O[i])) = i - 1
    <2>1. O[i] = CHOOSE e \in rows : Cardinality({f \in rows : f.version < e.version}) = i - 1
      BY <1>9
    <2>2. \E e \in rows : Cardinality({f \in rows : f.version < e.version}) = i - 1
      BY <1>7, <1>8
    <2>3. O[i] \in rows /\ Cardinality({f \in rows : f.version < O[i].version}) = i - 1
      BY <2>1, <2>2
    <2> QED
      BY <1>8, <2>3
  <1>12. ASSUME NEW e \in rows  PROVE \E i \in 1..n : O[i] = e
    <2>1. PICK k : k = Cardinality(Ahead(rows, R, e))
      OBVIOUS
    <2>2. k \in 0..(n - 1)
      BY <1>7, <2>1
    <2>3. k + 1 \in 1..n /\ (k + 1) - 1 = k
      BY <1>7, <2>2
    <2>4. O[k + 1] \in rows /\ Cardinality(Ahead(rows, R, O[k + 1])) = k
      BY <1>11, <2>3
    <2> QED
      BY <1>7, <2>1, <2>3, <2>4
  <1>13. ASSUME NEW i \in 1..n, NEW j \in 1..n, i < j
         PROVE  O[i].version < O[j].version /\ O[i].contentVersion < O[j].contentVersion
    <2>1. PICK e, f : e = O[i] /\ f = O[j]
      OBVIOUS
    <2>2. PICK k, l : k = Cardinality(Ahead(rows, R, e)) /\ l = Cardinality(Ahead(rows, R, f))
      OBVIOUS
    <2>3. e \in rows /\ f \in rows /\ k = i - 1 /\ l = j - 1
      BY <1>11, <2>1, <2>2
    <2>4. i \in Int /\ j \in Int /\ ~(l < k) /\ k # l
      BY <1>7, <1>13, <2>3
    <2>5. e # f /\ ~(<<f, e>> \in R)
      BY <1>7, <2>2, <2>3, <2>4
    <2>6. <<e, f>> \in R
      BY <1>6, <2>3, <2>5 DEF TotallyOrders
    <2>7. e.version < f.version
      BY <1>4, <2>3, <2>6
    <2> QED
      BY <1>1, <2>1, <2>3, <2>7
  <1> QED
    BY <1>7, <1>10, <1>11, <1>12, <1>13 DEF O

(* The iterations are the rows read, in that order, and perhaps one made up  *)
(* from the columns of the row.                                              *)
LEMMA EntriesAre ==
    ASSUME Rises(call.rows), NEW n, n = Len(Ordered(call.rows)), NEW m, m = Len(Entries)
    PROVE  /\ n \in Nat /\ m \in Nat \ {0} /\ (m = n \/ m = n + 1)
           /\ n = 0 <=> call.rows = {}
           /\ \A i \in 1..n : Entries[i] = Ordered(call.rows)[i]
           /\ m = n + 1 => Entries[m] = Tip
           /\ m = n + 1 <=> ~(n # 0 /\ Ordered(call.rows)[n].version = call.version
                                    /\ Ordered(call.rows)[n].text = call.text)
  <1>1. PICK O, tip : O = Ordered(call.rows) /\ tip = Tip
    OBVIOUS
  <1>2. n \in Nat /\ (\A i \in 1..n : O[i] \in call.rows)
        /\ \A e \in call.rows : \E i \in 1..n : O[i] = e
    BY <1>1, OrderedIs
  <1>3. O = [i \in 1..n |-> O[i]]
    <2> DEFINE Ranks(i) == CHOOSE e \in call.rows :
                              Cardinality({f \in call.rows : f.version < e.version}) = i - 1
    <2>0. O = [i \in 1..Cardinality(call.rows) |-> Ranks(i)]
      BY <1>1 DEF Ordered
    <2> HIDE DEF Ranks
    <2>1. DOMAIN O = 1..Cardinality(call.rows) /\ O = [i \in 1..Cardinality(call.rows) |-> O[i]]
      BY <2>0
    <2>2. Cardinality(call.rows) \in Nat
      BY FS_CardinalityType DEF Rises
    <2>3. Cardinality(call.rows) = n
      BY <1>1, <2>1, <2>2
    <2> QED
      BY <2>1, <2>3
  <1>4. O # <<>> <=> n # 0
    BY <1>2, <1>3
  <1>5. Last(O) = O[n]
    BY <1>1 DEF Last
  <1>6. Entries = IF n # 0 /\ O[n].version = call.version /\ O[n].text = call.text
                  THEN O ELSE Append(O, tip)
    BY <1>1, <1>4, <1>5 DEF Entries
  <1>7. Len(Append(O, tip)) = n + 1 /\ Append(O, tip)[n + 1] = tip
        /\ \A i \in 1..n : Append(O, tip)[i] = O[i]
    <2>1. O \in Seq(call.rows \cup {tip})
      BY <1>2, <1>3
    <2> QED
      BY <1>1, <1>2, <2>1, AppendProperties
  <1>8. n = 0 <=> call.rows = {}
    BY <1>2
  <1> QED
    BY <1>1, <1>2, <1>6, <1>7, <1>8

(* Every iteration has a generation; one of a user is a row that was read.   *)
LEMMA EntryIs ==
    ASSUME ViewsInv, Begun, HistoryWasRead, NEW i \in 1..Len(Entries)
    PROVE  /\ Entries[i].contentVersion \in Nat
           /\ Entries[i].user # Nobody => i \in 1..Len(Ordered(call.rows))
           /\ i \in 1..Len(Ordered(call.rows)) => /\ Entries[i] = Ordered(call.rows)[i]
                                                  /\ Entries[i] \in call.rows
                                                  /\ Entries[i] \in EntryRow
                                                  /\ Entries[i].user # Nobody
  <1>1. PICK n, m, O : n = Len(O) /\ m = Len(Entries) /\ O = Ordered(call.rows)
    OBVIOUS
  <1>2. Rises(call.rows)
    BY DEF HistoryWasRead
  <1>3. /\ n \in Nat /\ (m = n \/ m = n + 1)
        /\ \A j \in 1..n : Entries[j] = O[j]
        /\ m = n + 1 => Entries[m] = Tip
    BY <1>1, <1>2, EntriesAre
  <1>4. \A j \in 1..n : O[j] \in call.rows
    BY <1>1, <1>2, OrderedIs
  <1>5. CASE i \in 1..n
    <2>1. Entries[i] = O[i] /\ Entries[i] \in call.rows /\ Entries[i] \in EntryRow
      BY <1>2, <1>3, <1>4, <1>5 DEF Rises
    <2> QED
      BY <1>1, <1>5, <2>1, NobodyAssumption DEF EntryRow
  <1>6. CASE i \notin 1..n
    <2>1. i = m /\ m = n + 1
      BY <1>1, <1>3, <1>6
    <2>2. Entries[i] = Tip
      BY <1>3, <2>1
    <2>3. Tip.user = Nobody /\ Tip.contentVersion \in {1, call.contentVersion}
      BY DEF Tip
    <2>4. call.contentVersion \in Nat
      BY Types DEF Begun
    <2> QED
      BY <1>1, <1>6, <2>2, <2>3, <2>4
  <1> QED
    BY <1>5, <1>6

(* The sessions of a paragraph, by the spans they come from.                 *)
LEMMA SessionsAre ==
    ASSUME ViewsInv, Begun, HistoryWasRead,
           NEW spans, spans = PartitionIntoSpans(call.spec, Entries)
    PROVE  /\ Len(Entries) \in Nat /\ Len(spans) \in Nat
           /\ Tiles(spans, Len(Entries)) /\ Whole(call.spec, Entries, spans)
           /\ Len(Sessions) = Len(spans)
           /\ \A k \in 1..Len(spans) : Sessions[k] = ToSession(call.spec, Entries, spans[k])
           /\ \A k \in 1..Len(spans) : /\ spans[k].first \in Nat /\ spans[k].last \in Nat
                                       /\ spans[k].first \in 1..spans[k].last
                                       /\ spans[k].last \in 1..Len(Entries)
  <1>1. Len(Entries) \in Nat
    BY EntriesAre DEF HistoryWasRead
  <1>2. Tiles(spans, Len(Entries)) /\ Whole(call.spec, Entries, spans)
    BY <1>1, PartitionIs
  <1>3. spans \in Seq(Span) /\ Len(spans) \in Nat
    BY <1>2, LenProperties DEF Tiles
  <1>4. Sessions = [k \in 1..Len(spans) |-> ToSession(call.spec, Entries, spans[k])]
    BY DEF Sessions
  <1>5. ASSUME NEW k \in 1..Len(spans)
        PROVE  /\ spans[k].first \in Nat /\ spans[k].last \in Nat
               /\ spans[k].first \in 1..spans[k].last /\ spans[k].last \in 1..Len(Entries)
    <2>1. /\ 1 <= spans[k].first /\ spans[k].first <= spans[k].last
          /\ spans[k].last <= Len(Entries)
      BY <1>2 DEF Tiles
    <2>2. spans[k] \in Span
      BY <1>3, ElementOfSeq
    <2>3. spans[k].first \in Int /\ spans[k].last \in Int
      BY <2>2 DEF Span
    <2> QED
      BY <1>1, <2>1, <2>3
  <1>6. Len(Sessions) = Len(spans)
    BY <1>3, <1>4
  <1> QED
    BY <1>1, <1>2, <1>3, <1>4, <1>5, <1>6

(* A user's session takes rows only, and no boundary falls inside it.        *)
LEMMA SessionIs ==
    ASSUME ViewsInv, Begun, HistoryWasRead,
           NEW spans, spans = PartitionIntoSpans(call.spec, Entries),
           NEW k \in 1..Len(spans), Sessions[k].user # Nobody,
           NEW f, f = spans[k].first, NEW l, l = spans[k].last, NEW O, O = Ordered(call.rows)
    PROVE  /\ f \in Nat /\ l \in Nat /\ f \in 1..l /\ l \in 1..Len(O) /\ f \in 1..Len(O)
           /\ Sessions[k].first = O[f] /\ Sessions[k].last = O[l]
           /\ Sessions[k].user = O[f].user /\ Sessions[k].afterText = O[l].text
           /\ Sessions[k].sealedBy = SealedBy(call.spec, O[l].contentVersion)
           /\ \A j \in f..l : O[j].user = O[f].user
           /\ \A b \in Boundaries(call.spec) : ~(O[f].contentVersion <= b /\ b < O[l].contentVersion)
  <1>1. PICK E : E = Entries
    OBVIOUS
  <1>2. /\ f \in Nat /\ l \in Nat /\ f \in 1..l /\ l \in 1..Len(E) /\ Len(E) \in Nat
        /\ Unbroken(call.spec, E, f, l)
        /\ Sessions[k] = ToSession(call.spec, E, spans[k])
    BY <1>1, SessionsAre DEF Whole
  <1>3. /\ Sessions[k].first = E[f] /\ Sessions[k].last = E[l] /\ Sessions[k].user = E[f].user
        /\ Sessions[k].afterText = E[l].text
        /\ Sessions[k].sealedBy = SealedBy(call.spec, E[l].contentVersion)
    BY <1>2 DEF ToSession
  <1>4. /\ \A j \in f..l : E[j].user = E[f].user
        /\ \A b \in Boundaries(call.spec) : ~(E[f].contentVersion <= b /\ b < E[l].contentVersion)
    <2>1. \A j \in f..l : E[j].contentVersion \in Nat
      <3>1. \A j \in f..l : j \in 1..Len(E)
        BY <1>2
      <3> QED
        BY <1>1, <3>1, EntryIs
    <2>2. f <= l
      BY <1>2
    <2>3. Boundaries(call.spec) \subseteq Nat
      BY Types DEF Boundaries
    <2>4. PICK s : s = call.spec
      OBVIOUS
    <2>5. Unbroken(s, E, f, l) /\ Boundaries(s) \subseteq Nat /\ f \in Nat /\ l \in Nat
      BY <1>2, <2>3, <2>4
    <2>6. ASSUME NEW a \in Nat, NEW z \in Nat, a = f, z = l
          PROVE  /\ \A j \in a..z : E[j].user = E[a].user
                 /\ \A b \in Boundaries(s) : ~(E[a].contentVersion <= b /\ b < E[z].contentVersion)
      <3>1. Unbroken(s, E, a, z) /\ a <= z /\ \A j \in a..z : E[j].contentVersion \in Nat
        BY <2>1, <2>2, <2>5, <2>6
      <3> QED
        BY <2>5, <3>1, UnbrokenIs
    <2> QED
      BY <2>4, <2>5, <2>6
  <1>5. ASSUME NEW j \in f..l  PROVE j \in 1..Len(O) /\ E[j] = O[j]
    <2>1. j \in 1..Len(E) /\ E[j].user # Nobody
      BY <1>2, <1>3, <1>4
    <2> QED
      BY <1>1, <2>1, EntryIs
  <1>6. f \in f..l /\ l \in f..l
    BY <1>2
  <1> QED
    BY <1>2, <1>3, <1>4, <1>5, <1>6

(* A checkpoint never falls inside a session, nor does another actor's edit. *)
LEMMA NeverStraddle ==
    ASSUME ViewsInv, Begun, HistoryWasRead
    PROVE  SessionsNeverStraddleASeal
  <1> SUFFICES ASSUME NEW k \in 1..Len(Sessions), Sessions[k].user # Nobody
               PROVE  /\ \A e \in call.rows :
                            e.version \in Sessions[k].first.version..Sessions[k].last.version
                               => e.user = Sessions[k].user
                      /\ \A n \in Boundaries(call.spec) :
                            ~(Sessions[k].first.contentVersion <= n
                                /\ n < Sessions[k].last.contentVersion)
    BY DEF SessionsNeverStraddleASeal
  <1>1. PICK spans, f, l, O : /\ spans = PartitionIntoSpans(call.spec, Entries)
                              /\ f = spans[k].first /\ l = spans[k].last /\ O = Ordered(call.rows)
    OBVIOUS
  <1>2. k \in 1..Len(spans)
    BY <1>1, SessionsAre
  <1>3. /\ f \in Nat /\ l \in Nat /\ f \in 1..l /\ l \in 1..Len(O) /\ f \in 1..Len(O)
        /\ Sessions[k].first = O[f] /\ Sessions[k].last = O[l] /\ Sessions[k].user = O[f].user
        /\ \A j \in f..l : O[j].user = O[f].user
        /\ \A b \in Boundaries(call.spec) : ~(O[f].contentVersion <= b /\ b < O[l].contentVersion)
    BY <1>1, <1>2, SessionIs
  <1>4. ASSUME NEW e \in call.rows, e.version \in O[f].version..O[l].version
        PROVE  e.user = O[f].user
    <2>1. Rises(call.rows)
      BY DEF HistoryWasRead
    <2>2. /\ Len(O) \in Nat /\ \A i \in 1..Len(O) : O[i] \in call.rows
          /\ \A i, j \in 1..Len(O) : i < j => O[i].version < O[j].version
      BY <1>1, <2>1, OrderedIs
    <2>3. PICK j \in 1..Len(O) : O[j] = e
      BY <1>1, <2>1, OrderedIs
    <2>4. \A i \in 1..Len(O) : O[i].version \in Nat
      BY <2>1, <2>2 DEF Rises, EntryRow
    <2>5. O[f].version <= e.version /\ e.version <= O[l].version
      BY <1>3, <1>4, <2>4
    <2>6. ~(j < f) /\ ~(l < j)
      BY <1>3, <2>2, <2>3, <2>4, <2>5
    <2>7. j \in f..l
      BY <1>3, <2>2, <2>6
    <2> QED
      BY <1>3, <2>3, <2>7
  <1> QED
    BY <1>3, <1>4

(* The last session a checkpoint sealed and the first it did not meet at the *)
(* text it sealed.                                                          *)
LEMMA SealedEnd ==
    ASSUME ViewsInv, Begun, HistoryWasRead
    PROVE  SealedSessionEndsAtSealedText
  <1> SUFFICES ASSUME NEW r \in sealed, r.spec = call.spec, r.contentVersion <= call.contentVersion,
                      {k \in 1..Len(Sessions) : /\ Sessions[k].user # Nobody
                                                /\ Sessions[k].sealedBy = r.contentVersion} # {}
               PROVE  LET mine == {k \in 1..Len(Sessions) :
                                     /\ Sessions[k].user # Nobody
                                     /\ Sessions[k].sealedBy = r.contentVersion}
                      IN /\ Sessions[Max(mine)].afterText = r.texts[call.para]
                         /\ \A k \in {Max(mine) + 1} \cap 1..Len(Sessions) :
                               Sessions[k].beforeText = r.texts[call.para]
    BY DEF SealedSessionEndsAtSealedText
  <1>1. PICK s, v, sessions, entries, spans, O, n :
           /\ s = call.spec /\ v = r.contentVersion /\ sessions = Sessions
           /\ entries = Entries /\ spans = PartitionIntoSpans(s, entries)
           /\ O = Ordered(call.rows) /\ n = Len(O)
    OBVIOUS
  <1> DEFINE mine == {k \in 1..Len(sessions) : sessions[k].user # Nobody /\ sessions[k].sealedBy = v}
             Greatest(x) == \A y \in mine : x >= y
  <1>2. /\ Rises(call.rows) /\ Boundaries(s) \subseteq Nat /\ v \in Nat /\ v # 0
    BY <1>1, Types DEF Boundaries, HistoryWasRead
  <1>3. /\ Len(entries) \in Nat /\ Len(spans) \in Nat /\ Tiles(spans, Len(entries))
        /\ Len(sessions) = Len(spans)
        /\ \A k \in 1..Len(spans) : sessions[k] = ToSession(s, entries, spans[k])
        /\ \A k \in 1..Len(spans) : /\ spans[k].first \in Nat /\ spans[k].last \in Nat
                                    /\ spans[k].first \in 1..spans[k].last
                                    /\ spans[k].last \in 1..Len(entries)
    BY <1>1, SessionsAre
  <1>4. PICK K \in mine : \A x \in mine : x <= K
    <2>1. mine # {}
      BY <1>1
    <2>2. mine \in SUBSET Nat /\ \A x \in mine : x <= Len(spans)
      BY <1>3
    <2> HIDE DEF mine
    <2> QED
      BY <1>3, <2>1, <2>2, GreatestOf
  <1>5. Max(mine) = K
    <2>1. mine \in SUBSET Nat
      BY <1>3
    <2>2. Max(mine) = CHOOSE x \in mine : Greatest(x)
      BY DEF Max
    <2> HIDE DEF mine
    <2>3. Greatest(K)
      BY <1>4, <2>1
    <2>4. \A x \in mine : Greatest(x) => x = K
      BY <1>4, <2>1
    <2> HIDE DEF Greatest
    <2> QED
      BY <2>2, <2>3, <2>4
  <1>6. K \in 1..Len(spans) /\ sessions[K].user # Nobody /\ sessions[K].sealedBy = v
    BY <1>3, <1>4
  <1>7. PICK f, l : f = spans[K].first /\ l = spans[K].last
    OBVIOUS
  <1>8. /\ f \in Nat /\ l \in Nat /\ f \in 1..l /\ l \in 1..n
        /\ sessions[K].afterText = O[l].text
        /\ sessions[K].sealedBy = SealedBy(s, O[l].contentVersion)
    BY <1>1, <1>6, <1>7, SessionIs
  <1>9. /\ n \in Nat /\ Len(entries) \in Nat /\ (Len(entries) = n \/ Len(entries) = n + 1)
        /\ Len(entries) = n + 1 => entries[n + 1] = Tip
    BY <1>1, <1>2, EntriesAre
  <1>10. \A i \in 1..n : /\ i \in 1..Len(entries) /\ entries[i] = O[i] /\ O[i] \in call.rows
                         /\ O[i] \in EntryRow /\ entries[i].user # Nobody
    <2>1. \A i \in 1..n : i \in 1..Len(entries)
      BY <1>9
    <2> QED
      BY <1>1, <2>1, EntryIs
  <1>11. /\ \A e \in call.rows : \E i \in 1..n : O[i] = e
         /\ \A i, j \in 1..n : i < j => /\ O[i].version < O[j].version
                                        /\ O[i].contentVersion < O[j].contentVersion
    BY <1>1, <1>2, OrderedIs
  <1>13. \A i \in 1..n : O[i].version \in Nat \ {0} /\ O[i].contentVersion \in Nat
    BY <1>10 DEF EntryRow
  <1> HIDE DEF mine, Greatest
  <1>14. Seals(s, O[l].contentVersion, v)
    <2>1. SealedBy(s, O[l].contentVersion) = v /\ O[l].contentVersion \in Nat
      BY <1>6, <1>8, <1>13
    <2> QED
      BY <1>2, <2>1, SealedByIs
  (* What follows the session was written after the checkpoint. *)
  <1>15. ASSUME NEW j \in 1..n, l < j  PROVE v < O[j].contentVersion
    <2>1. PICK k : k = K + 1
      OBVIOUS
    <2>2. K # Len(spans)
      <3> SUFFICES ASSUME K = Len(spans)  PROVE FALSE
        OBVIOUS
      <3>1. Len(spans) # 0 /\ Len(entries) = spans[K].last
        BY <1>3, <1>6 DEF Tiles
      <3> QED
        BY <1>7, <1>8, <1>9, <1>15, <3>1
    <2>3. k \in 1..Len(spans) /\ k # 1 /\ k - 1 = K /\ ~(k <= K)
      BY <1>3, <1>6, <2>1, <2>2
    <2>4. PICK g, m : g = spans[k].first /\ m = spans[k].last
      OBVIOUS
    <2>5. g = l + 1 /\ g \in 1..n
      <3>1. spans[k].first = spans[k - 1].last + 1
        BY <1>3, <2>3 DEF Tiles
      <3>2. g = l + 1
        BY <1>7, <2>3, <2>4, <3>1
      <3> QED
        BY <1>8, <1>9, <1>15, <3>2
    <2>6. sessions[k].user # Nobody
      <3>1. sessions[k] = ToSession(s, entries, spans[k])
        BY <1>3, <2>3
      <3>2. sessions[k].user = entries[g].user
        BY <2>4, <3>1 DEF ToSession
      <3> QED
        BY <1>10, <2>5, <3>2
    <2>7. /\ g \in 1..m /\ m \in 1..n /\ m \in Nat
          /\ sessions[k].sealedBy = SealedBy(s, O[m].contentVersion)
          /\ \A b \in Boundaries(s) : ~(O[g].contentVersion <= b /\ b < O[m].contentVersion)
      BY <1>1, <2>3, <2>4, <2>6, SessionIs
    <2>8. v < O[m].contentVersion
      <3> SUFFICES ASSUME ~(v < O[m].contentVersion)  PROVE FALSE
        OBVIOUS
      <3>1. O[m].contentVersion \in Nat /\ O[l].contentVersion \in Nat
        BY <1>8, <1>13, <2>7
      <3>2. O[l].contentVersion < O[m].contentVersion
        <4>1. l < m
          BY <1>8, <2>5, <2>7
        <4> QED
          BY <1>8, <1>11, <2>7, <4>1
      <3>3. O[m].contentVersion <= v
        BY <1>2, <3>1
      <3>4. Seals(s, O[m].contentVersion, v)
        <4>1. v \in Boundaries(s) /\ \A b \in Boundaries(s) : O[l].contentVersion <= b => v <= b
          BY <1>14 DEF Seals
        <4>2. \A b \in Boundaries(s) : O[m].contentVersion <= b => O[l].contentVersion <= b
          BY <1>2, <3>1, <3>2
        <4> QED
          BY <3>3, <4>1, <4>2 DEF Seals
      <3>5. sessions[k].sealedBy = v
        BY <1>2, <2>7, <3>1, <3>4, SealedByIs
      <3>6. k \in mine
        BY <1>3, <2>3, <2>6, <3>5 DEF mine
      <3> QED
        BY <1>4, <2>3, <3>6
    <2>9. v < O[g].contentVersion
      <3>1. v \in Boundaries(s) /\ O[g].contentVersion \in Nat
        BY <1>13, <1>14, <2>5 DEF Seals
      <3> QED
        BY <1>2, <2>7, <2>8, <3>1
    <2>10. g = j \/ g < j
      BY <1>8, <1>9, <1>15, <2>5
    <2>11. O[g].contentVersion \in Nat /\ O[j].contentVersion \in Nat
      BY <1>13, <2>5
    <2>12. CASE g = j
      BY <2>9, <2>12
    <2>13. CASE g < j
      <3>1. O[g].contentVersion < O[j].contentVersion
        BY <1>11, <2>5, <2>13
      <3> QED
        BY <1>2, <2>9, <2>11, <3>1
    <2> QED
      BY <2>10, <2>12, <2>13
  <1>16. LastUpTo(call.rows, v, O[l])
    <2>1. O[l] \in call.rows /\ O[l].contentVersion <= v
      BY <1>8, <1>10, <1>14 DEF Seals
    <2>2. ASSUME NEW e \in call.rows, e.contentVersion <= v
          PROVE  e.contentVersion <= O[l].contentVersion
      <3>1. PICK j \in 1..n : O[j] = e
        BY <1>11
      <3>2. ~(l < j)
        BY <1>2, <1>13, <1>15, <2>2, <3>1
      <3>3. CASE j = l
        BY <1>13, <3>1, <3>3
      <3>4. CASE j # l
        <4>1. j < l
          BY <1>8, <1>9, <3>2, <3>4
        <4>2. O[j].contentVersion < O[l].contentVersion
          BY <1>8, <1>11, <4>1
        <4> QED
          BY <1>8, <1>13, <3>1, <4>2
      <3> QED
        BY <3>3, <3>4
    <2> QED
      BY <2>1, <2>2 DEF LastUpTo
  <1>17. O[l].text = r.texts[call.para]
    <2>1. O[l] \in call.rows /\ SealsMet
      BY <1>8, <1>10 DEF HistoryWasRead
    <2> QED
      BY <1>1, <1>16, <2>1 DEF SealsMet
  <1>18. sessions[K].afterText = r.texts[call.para]
    BY <1>8, <1>17
  <1>19. ASSUME K + 1 \in 1..Len(sessions)  PROVE sessions[K + 1].beforeText = r.texts[call.para]
    <2>1. PICK k : k = K + 1
      OBVIOUS
    <2>2. k \in 1..Len(spans) /\ k # 1 /\ k - 1 = K
      BY <1>3, <1>6, <1>19, <2>1
    <2>3. PICK g : g = spans[k].first
      OBVIOUS
    <2>4. g = l + 1 /\ g \in 1..Len(entries) /\ g # 1 /\ g - 1 = l
      <3>1. spans[k].first = spans[k - 1].last + 1
        BY <1>3, <2>2 DEF Tiles
      <3>2. g = l + 1
        BY <1>7, <2>2, <2>3, <3>1
      <3>3. spans[k].first \in 1..spans[k].last /\ spans[k].last \in 1..Len(entries)
        BY <1>3, <2>2
      <3> QED
        BY <1>3, <1>8, <2>3, <3>2, <3>3
    <2>7. entries[g].op # "insert"
      <3>1. g \in 1..n => entries[g].op # "insert"
        <4> SUFFICES ASSUME g \in 1..n  PROVE entries[g].op # "insert"
          OBVIOUS
        <4>1. l < g /\ O[l].version < O[g].version
          BY <1>8, <1>11, <2>4
        <4>2. O[g].version # 1
          <5>1. O[l].version \in Nat \ {0} /\ O[g].version \in Nat
            BY <1>8, <1>13
          <5> QED
            BY <4>1, <5>1
        <4> QED
          BY <1>2, <1>10, <4>2 DEF Rises
      <3>2. g \notin 1..n => entries[g].op # "insert"
        <4> SUFFICES ASSUME g \notin 1..n  PROVE entries[g].op # "insert"
          OBVIOUS
        <4>1. g = n + 1 /\ Len(entries) = n + 1
          BY <1>9, <2>4
        <4>2. entries[g] = Tip /\ call.rows # {}
          BY <1>8, <1>9, <1>10, <4>1
        <4> QED
          BY <4>2 DEF Tip
      <3> QED
        BY <3>1, <3>2
    <2>8. sessions[k] = ToSession(s, entries, spans[k])
      BY <1>3, <2>2
    <2>9. sessions[k].beforeText = IF entries[g].op = "insert" \/ g = 1 THEN NoText
                                   ELSE entries[g - 1].text
      BY <2>3, <2>8 DEF ToSession
    <2>10. sessions[k].beforeText = O[l].text
      BY <1>8, <1>10, <2>4, <2>7, <2>9
    <2> QED
      BY <1>17, <2>1, <2>10
  <1> QED
    BY <1>1, <1>5, <1>18, <1>19 DEF mine

(* A call that nothing was written into ends with the row.                   *)
LEMMA EndAtRow ==
    ASSUME ViewsInv, Begun, RowWasRead, HistoryWasRead
    PROVE  IterationsEndAtTheRow
  <1> SUFFICES ASSUME Undisturbed
               PROVE  /\ Last(Entries).text = para[call.para].text
                      /\ Last(Entries).version = para[call.para].baseVersion
                      /\ call.rows # {} => Entries = Ordered(call.rows)
    BY DEF IterationsEndAtTheRow
  <1>1. PICK O, n, m : O = Ordered(call.rows) /\ n = Len(O) /\ m = Len(Entries)
    OBVIOUS
  <1>2. /\ call.para \in Paras /\ call.rows = {Entry(e) : e \in RowsOf(call.para)}
        /\ call.version = para[call.para].baseVersion /\ call.text = para[call.para].text
        /\ Rises(call.rows)
    BY DEF RowWasRead, HistoryWasRead
  <1>3. /\ n \in Nat /\ (n = 0 <=> call.rows = {}) /\ (m = n \/ m = n + 1)
        /\ m = n + 1 => Entries[m] = Tip
        /\ \A i \in 1..n : Entries[i] = O[i]
        /\ m = n + 1 <=> ~(n # 0 /\ O[n].version = call.version /\ O[n].text = call.text)
    BY <1>1, <1>2, EntriesAre
  <1>4. Last(Entries) = Entries[m]
    BY <1>1 DEF Last
  <1>7. /\ \A i \in 1..n : O[i] \in call.rows
        /\ \A e \in call.rows : \E i \in 1..n : O[i] = e
        /\ \A i, j \in 1..n : i < j => O[i].contentVersion < O[j].contentVersion
    <2>1. Rises(call.rows)
      BY DEF HistoryWasRead
    <2>2. /\ \A i \in 1..Len(O) : O[i] \in call.rows
          /\ \A e \in call.rows : \E i \in 1..Len(O) : O[i] = e
          /\ \A i, j \in 1..Len(O) : i < j => O[i].contentVersion < O[j].contentVersion
      BY <1>1, <2>1, OrderedIs
    <2> QED
      BY <1>1, <2>2
  <1>5. CASE call.rows = {}
    <2>1. Entries[m] = Tip
      BY <1>3, <1>5
    <2> QED
      BY <1>2, <1>4, <1>5, <2>1 DEF Tip
  <1>6. CASE call.rows # {}
    <2>1. n \in 1..n /\ O[n] \in call.rows
      <3>1. n \in 1..n
        BY <1>3, <1>6
      <3> QED
        BY <1>7, <3>1
    <2>2. \A e \in call.rows : e.contentVersion <= O[n].contentVersion
      <3> SUFFICES ASSUME NEW e \in call.rows  PROVE e.contentVersion <= O[n].contentVersion
        OBVIOUS
      <3>1. PICK j \in 1..n : O[j] = e
        BY <1>7
      <3>2. e.contentVersion \in Nat /\ O[n].contentVersion \in Nat
        BY <1>2, <2>1 DEF Rises, EntryRow
      <3>3. CASE j = n
        BY <3>1, <3>2, <3>3
      <3>4. CASE j # n
        <4>1. j < n
          BY <1>3, <3>4
        <4>2. O[j].contentVersion < O[n].contentVersion
          BY <1>7, <2>1, <4>1
        <4> QED
          BY <3>1, <3>2, <4>2
      <3> QED
        BY <3>3, <3>4
    <2>3. O[n].text = para[call.para].text /\ O[n].version = para[call.para].baseVersion
      BY <1>2, <2>1, <2>2, LastReadSays
    <2>4. m = n
      BY <1>2, <1>3, <1>6, <2>3
    <2>5. Entries = O
      <3>1. n # 0 /\ O # <<>>
        BY <1>1, <1>3, <1>6
      <3>2. Last(O) = O[n]
        BY <1>1 DEF Last
      <3> QED
        BY <1>1, <1>2, <2>3, <3>1, <3>2 DEF Entries
    <2> QED
      BY <1>1, <1>4, <2>3, <2>4, <2>5
  <1> QED
    BY <1>5, <1>6

(* The sessions of a paragraph follow the checkpoints of its spec, whatever  *)
(* was committed between the three statements of the call: none straddles a  *)
(* seal, what a seal covers ends at the sealed text, and a call that nothing *)
(* was written into ends with the row.                                      *)
THEOREM SessionsKeepToSeals == HistorySpec => []SessionsFollowSeals
  <1>1. ASSUME ViewsInv, CallInv, call.due = "boundaries"
        PROVE  SessionsNeverStraddleASeal /\ SealedSessionEndsAtSealedText /\ IterationsEndAtTheRow
    <2>1. Begun /\ RowWasRead /\ HistoryWasRead
      BY <1>1 DEF CallInv, NoCall
    <2> QED
      BY <1>1, <2>1, NeverStraddle, SealedEnd, EndAtRow
  <1>2. ViewsInv /\ CallInv => SessionsFollowSeals
    BY <1>1 DEF SessionsFollowSeals
  <1> QED
    BY <1>2, ViewsCorrect, PTL

=============================================================================
