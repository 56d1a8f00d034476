------------------------------ MODULE DocxTree ------------------------------
(***************************************************************************)
(* From the paragraphs of a Word document to the tree of a specification:  *)
(* the cascade of signals that gives a paragraph its tier, the regions     *)
(* that asterisk rules enclose, the promotion of lead-ins (ADR-059), the   *)
(* stack that builds the tree and carries page breaks (ADR-075), the       *)
(* typed labels that are stripped, and the title block (ADR-076).          *)
(*                                                                         *)
(* Abstractions: tiers 0 (PART) to 8 (pr7) stand for the node types, which *)
(* are one to one with them; a paragraph carries what its XML, its style   *)
(* and its numbering resolve to; of its text only the class, the typed     *)
(* label and a final colon are kept.  Numbering profiles are left out.     *)
(***************************************************************************)
EXTENDS Naturals, Sequences, FiniteSets, SequencesExt, FiniteSetsExt

CONSTANTS
    Families,     \* bound: kinds of documents: [paragraphs, length, heads]
    MaxLength,    \* bound: paragraphs in a document
    NoTier

Tiers == 0..8
NoLabel == <<>>
Scheme == <<"PART", "N.N", "A.", "1.", "a.", "1)", "a)", "1)", "a)">>
Label(tier, n) == <<Scheme[tier + 1], n>>

ASSUME TierAssumption == NoTier \notin Tiers
ASSUME FamiliesAssumption ==
    \A f \in Families : f.length \in 1..MaxLength
ASSUME ParagraphsAssumption ==
    \A f \in Families : \A p \in f.paragraphs :
        /\ p.text \in {"blank", "stars", "separator", "identity", "words"}
        /\ p.numId \in {"none", "off", "list", "spec"}
        /\ {p.level, p.style, p.indent} \subseteq Tiers \cup {NoTier}
        /\ p.indent # 0

VARIABLES
    doc,          \* the paragraphs of the document
    head,         \* where its identity comes from, and an object before the first paragraph
    phase,        \* "classify", "build", "built", "done"
    classified,   \* what inference makes of each paragraph
    next,         \* the paragraph that buildTree comes to
    stack,        \* open structural nodes
    children,     \* owner -> its children; owner 0 holds the roots
    attach,       \* lastNonContChildren: whose children take what follows
    pending,      \* pendingPageBreak
    breaks        \* nodes with meta.pageBreakBefore

vars == <<doc, head, phase, classified, next, stack, children, attach, pending, breaks>>

Object(i) == MaxLength + 1 + i    \* the object behind paragraph i; 0: before the first

-----------------------------------------------------------------------------
(* Signals.  A hit is [signal, tier]. *)

LabelTier(label) ==
    IF label[1] = "deep" THEN label[2]
    ELSE (CHOOSE k \in 1..9 : Scheme[k] = label[1] /\ \A j \in 1..(k - 1) : Scheme[j] # label[1]) - 1

Signal1(p) ==
    {[signal |-> 1, tier |-> t] : t \in
        {t \in {p.level} \ {NoTier} :
            /\ p.numId \in {"list", "spec"}
            /\ t = 0 => p.numId = "spec" \/ (p.label # NoLabel /\ p.label[1] = "PART")}}
Signal2(p) ==
    {[signal |-> 2, tier |-> t] : t \in {t \in {p.style} \ {NoTier} : p.numId # "off"}}
Signal4(p) ==
    IF p.label = NoLabel THEN {} ELSE {[signal |-> 4, tier |-> LabelTier(p.label)]}
Signal5(p) ==
    {[signal |-> 5, tier |-> t] : t \in {p.indent} \ {NoTier}}

Hits(p) == Signal1(p) \cup Signal2(p) \cup Signal4(p) \cup Signal5(p)
First(hits) == CHOOSE h \in hits : \A g \in hits : h.signal <= g.signal

(* correctMisalignedArticle: an article by its numbering alone that is      *)
(* indented like a list item is one.                                        *)
Misaligned(hits) ==
    /\ First(hits).tier = 1 /\ First(hits).signal \in {1, 2}
    /\ Cardinality({h \in hits : h.signal # 5 /\ h.tier = 1}) = 1
    /\ \E h \in hits : h.signal = 5 /\ h.tier >= 3

Winner(hits) == First(IF Misaligned(hits) THEN {h \in hits : h.tier # 1} ELSE hits)

-----------------------------------------------------------------------------
(* Regions between rules of asterisks. *)

HasStructuralNumbering(p) == p.numId \in {"list", "spec"} \/ Signal2(p) # {}
IsHeading(p) == p.label # NoLabel /\ LabelTier(p.label) \in {0, 1}

(* Every rule flips the flag, a heading lowers it. *)
RegionOpen(d, i) ==
    LET from == Max({0} \cup {j \in 1..(i - 1) : IsHeading(d[j])})
    IN Cardinality({j \in (from + 1)..(i - 1) : d[j].text = "stars"}) % 2 = 1

Enclosed(d, i) == d[i].text # "stars" /\ ~IsHeading(d[i]) /\ RegionOpen(d, i)

Drifted_Never(d) == FALSE                               \* mutant: no drift guard
Drifted(d) == \E i \in DOMAIN d : Enclosed(d, i) /\ HasStructuralNumbering(d[i])

Role(d, i) ==
    CASE Drifted(d) -> "none"
      [] ~Drifted(d) /\ d[i].text = "stars" -> "rule"
      [] ~Drifted(d) /\ Enclosed(d, i) -> "note"
      [] OTHER -> "none"

-----------------------------------------------------------------------------
(* classifyParagraphs. *)

IsNote(d, i) == Role(d, i) # "rule" /\ (Role(d, i) = "note" \/ d[i].note)

IsStructural(d, i) ==
    /\ Role(d, i) # "rule"
    /\ ~d[i].hidden /\ ~IsNote(d, i)
    /\ d[i].text \notin {"stars", "separator"}
    /\ Hits(d[i]) # {}

(* prevNonContIlvl *)
PreviousTier(d, i) ==
    LET before == {j \in 1..(i - 1) : IsStructural(d, j)}
    IN IF before = {} THEN 0 ELSE Winner(Hits(d[Max(before)])).tier

Structural(d, i) ==
    LET hits == Hits(d[i])
        won == Winner(hits)
    IN [at |-> i, structural |-> TRUE, tier |-> won.tier, signal |-> won.signal,
        agreed |-> {h.signal : h \in {g \in hits : g # won /\ g.tier = won.tier}},
        conflicts |-> {h \in hits : h.tier # won.tier},
        vanish |-> FALSE, note |-> FALSE, suppressed |-> FALSE]

Continuation(d, i) ==
    [at |-> i, structural |-> FALSE, tier |-> PreviousTier(d, i), signal |-> 3,
     agreed |-> {}, conflicts |-> {},
     vanish |-> d[i].hidden \/ IsNote(d, i), note |-> IsNote(d, i),
     suppressed |-> Role(d, i) = "rule"]

ClassifyParagraphs(d) ==
    [i \in DOMAIN d |-> IF IsStructural(d, i) THEN Structural(d, i) ELSE Continuation(d, i)]

-----------------------------------------------------------------------------
(* nestLeadInSublists, over the paragraphs that are content. *)

IsContent(c) == doc[c.at].text # "blank" /\ ~c.suppressed

Signal4Fired(c) == c.signal = 4 \/ 4 \in c.agreed \/ \E h \in c.conflicts : h.signal = 4
IsLeadInCandidate(c) == c.structural /\ ~Signal4Fired(c) /\ c.tier >= 2

RunItem(c, tier) == c.signal = 4 /\ c.tier = tier

RestartRunLength(content, from, tier) ==
    Cardinality({k \in from..Len(content) : \A j \in from..k : RunItem(content[j], tier)})

StructuralParentTier(content, k, tier) ==     \* one more than the code's: 0 is none
    LET above == {j \in 1..(k - 1) : content[j].structural /\ content[j].tier < tier}
    IN IF above = {} THEN 0 ELSE content[Max(above)].tier + 1

(* leadingMarkerOrdinal = 1: of the single marks only, not PART or decimals. *)
Restarts(label) == label[1] \notin {"PART", "N.N", "deep"} /\ label[2] = 1

IsPrimaryPromotion(content, k) ==
    LET x == content[k]
    IN /\ IsLeadInCandidate(x)
       /\ k < Len(content)
       /\ RunItem(content[k + 1], x.tier)
       /\ Restarts(doc[content[k + 1].at].label)
       /\ RestartRunLength(content, k + 1, x.tier) >= (IF doc[x.at].colon THEN 1 ELSE 2)
       /\ StructuralParentTier(content, k, x.tier) < x.tier

Primaries(content) == {k \in DOMAIN content : IsPrimaryPromotion(content, k)}

IsStrandedPeer_OwnList(content, k) ==    \* mutant: peers without a list stay behind
    FALSE
IsStrandedPeer(content, k) ==
    LET y == content[k]
    IN /\ IsLeadInCandidate(y) /\ doc[y.at].colon
       /\ \E j \in Primaries(content) :
            /\ j < k /\ content[j].tier = y.tier
            /\ \A m \in j..(k - 1) : content[m].tier >= y.tier

Promote_Agreed(c) ==                     \* mutant: old agreement is kept
    [c EXCEPT !.tier = @ - 1, !.conflicts = @ \cup {[signal |-> c.signal, tier |-> c.tier]}]
Promote(c) ==
    [c EXCEPT !.tier = @ - 1, !.agreed = {},
              !.conflicts = @ \cup {[signal |-> s, tier |-> c.tier] : s \in {c.signal} \cup c.agreed}]

Promoted(cs) ==
    LET content == SelectSeq(cs, IsContent)
    IN {content[k].at : k \in {k \in DOMAIN content :
            IsPrimaryPromotion(content, k) \/ IsStrandedPeer(content, k)}}

NestLeadInSublists(cs) ==
    LET promoted == Promoted(cs)
    IN [i \in DOMAIN cs |-> IF i \in promoted THEN Promote(cs[i]) ELSE cs[i]]

-----------------------------------------------------------------------------
(* The title block: leading lines that repeat the section's identity. *)

HiddenContent(c) == c.vanish /\ ~c.note     \* a node that every renderer drops
RepeatsIdentity(c) == ~c.structural /\ ~c.vanish /\ doc[c.at].text = "identity"
Skipped(c) == ~IsContent(c) \/ (~c.structural /\ HiddenContent(c))

LeadingTitleBlock ==
    {i \in DOMAIN doc :
        /\ head.identity = "metadata"
        /\ IsContent(classified[i]) /\ RepeatsIdentity(classified[i])
        /\ \A j \in 1..(i - 1) : Skipped(classified[j]) \/ RepeatsIdentity(classified[j])}

-----------------------------------------------------------------------------
(* The tree. *)

Init ==
    /\ \E f \in Families :
          \E n \in 1..f.length : doc \in [1..n -> f.paragraphs] /\ head \in f.heads
    /\ phase = "classify"
    /\ classified = <<>>
    /\ next = 1
    /\ stack = <<>>
    /\ children = [o \in 0..MaxLength |->
                        IF o = 0 /\ head.objectFirst THEN <<Object(0)>> ELSE <<>>]
    /\ attach = 0
    /\ pending = FALSE
    /\ breaks = {}

(* buildClassification *)
Classify ==
    /\ phase = "classify"
    /\ classified' = NestLeadInSublists(ClassifyParagraphs(doc))
    /\ phase' = "build"
    /\ UNCHANGED <<doc, head, next, stack, children, attach, pending, breaks>>

(* resolvePageBreakBefore: an object in between owns what was forwarded.     *)
ObjectBehind(i) == i >= 1 /\ doc[i].object
EffectiveBreak ==
    \/ doc[next].ownBreak
    \/ /\ ~ObjectBehind(next - 1)
       /\ pending \/ (next > 1 /\ doc[next - 1].endsPage)

(* The stack down to its first k nodes: each of the others joins the one     *)
(* that it stands on.                                                        *)
Below(j) == IF j = 1 THEN 0 ELSE stack[j - 1]
Drained(k) ==
    [o \in DOMAIN children |->
        children[o] \o [j \in 1..Cardinality({j \in (k + 1)..Len(stack) : Below(j) = o}) |->
                            stack[CHOOSE m \in (k + 1)..Len(stack) : Below(m) = o]]]

Kept(tier) == Max({0} \cup {j \in DOMAIN stack : classified[stack[j]].tier < tier})

WithObject(kids, owner) ==
    IF doc[next].object THEN [kids EXCEPT ![owner] = Append(@, Object(next))] ELSE kids

Emits == IsContent(classified[next]) /\ next \notin LeadingTitleBlock

(* Nothing comes of this paragraph, and a break due here moves on. *)
Drop ==
    /\ phase = "build" /\ next <= Len(doc)
    /\ ~Emits
    /\ pending' = EffectiveBreak
    /\ children' = WithObject(children, attach)
    /\ next' = next + 1
    /\ UNCHANGED <<doc, head, phase, classified, stack, attach, breaks>>

Continue_Consumes ==                     \* mutant: a hidden node consumes the break
    /\ phase = "build" /\ next <= Len(doc)
    /\ Emits /\ ~classified[next].structural
    /\ children' = WithObject([children EXCEPT ![attach] = Append(@, next)], attach)
    /\ pending' = FALSE
    /\ breaks' = IF EffectiveBreak THEN breaks \cup {next} ELSE breaks
    /\ next' = next + 1
    /\ UNCHANGED <<doc, head, phase, classified, stack, attach>>
Continue ==
    /\ phase = "build" /\ next <= Len(doc)
    /\ Emits /\ ~classified[next].structural
    /\ children' = WithObject([children EXCEPT ![attach] = Append(@, next)], attach)
    /\ pending' = (HiddenContent(classified[next]) /\ EffectiveBreak)
    /\ breaks' = IF EffectiveBreak /\ ~HiddenContent(classified[next])
                 THEN breaks \cup {next} ELSE breaks
    /\ next' = next + 1
    /\ UNCHANGED <<doc, head, phase, classified, stack, attach>>

Enter ==
    /\ phase = "build" /\ next <= Len(doc)
    /\ Emits /\ classified[next].structural
    /\ LET k == Kept(classified[next].tier)
       IN /\ stack' = Append(SubSeq(stack, 1, k), next)
          /\ children' = WithObject(Drained(k), next)
    /\ attach' = next
    /\ pending' = FALSE
    /\ breaks' = IF EffectiveBreak THEN breaks \cup {next} ELSE breaks
    /\ next' = next + 1
    /\ UNCHANGED <<doc, head, phase, classified>>

Finish_TopOnly ==                        \* mutant: only the last open node is closed
    /\ phase = "build" /\ next > Len(doc)
    /\ children' = Drained(IF stack = <<>> THEN 0 ELSE Len(stack) - 1)
    /\ stack' = <<>>
    /\ phase' = "built"
    /\ UNCHANGED <<doc, head, classified, next, attach, pending, breaks>>
Finish ==
    /\ phase = "build" /\ next > Len(doc)
    /\ children' = Drained(0)
    /\ stack' = <<>>
    /\ phase' = "built"
    /\ UNCHANGED <<doc, head, classified, next, attach, pending, breaks>>

(* stripLeadingTitleBlockRoots, once the identity is known by any means.     *)
RootRepeats(x) == x <= MaxLength /\ RepeatsIdentity(classified[x])
RootSkipped(x) == x <= MaxLength /\ ~classified[x].structural /\ HiddenContent(classified[x])
StripTitleBlock ==
    /\ phase = "built"
    /\ LET roots == children[0]
           strip == {k \in DOMAIN roots :
                        /\ head.identity # "unknown"
                        /\ RootRepeats(roots[k])
                        /\ \A j \in 1..(k - 1) : RootRepeats(roots[j]) \/ RootSkipped(roots[j])}
           Stays(x) == \A k \in strip : roots[k] # x
       IN children' = [children EXCEPT ![0] = SelectSeq(roots, Stays)]
    /\ phase' = "done"
    /\ UNCHANGED <<doc, head, classified, next, stack, attach, pending, breaks>>

Next == Classify \/ Drop \/ Continue \/ Enter \/ Finish \/ StripTitleBlock

Spec == Init /\ [][Next]_vars

-----------------------------------------------------------------------------
(* Labels: what stripOutlineLabels removes, what the Markdown renderer       *)
(* prepends, and what Word counts in the generated document.                 *)

Owner(x) == CHOOSE o \in DOMAIN children : \E k \in DOMAIN children[o] : children[o][k] = x
InTree(i) == \E o \in DOMAIN children : \E k \in DOMAIN children[o] : children[o][k] = i
Numbered(x) == x <= Len(doc) /\ classified[x].structural    \* consumesNumber

Ordinal_All(i) ==                        \* mutant: every sibling is counted
    LET siblings == children[Owner(i)]
        place == CHOOSE k \in DOMAIN siblings : siblings[k] = i
    IN place
Ordinal(i) ==                            \* from 1
    LET siblings == children[Owner(i)]
        place == CHOOSE k \in DOMAIN siblings : siblings[k] = i
    IN 1 + Cardinality({k \in 1..(place - 1) : Numbered(siblings[k])})

PartNumber[i \in 1..MaxLength] ==
    LET p == Owner(i)
    IN IF p = 0 THEN 1 ELSE IF classified[p].tier = 0 THEN Ordinal(p) ELSE PartNumber[p]

TypeLabel(i, part) ==
    IF classified[i].tier = 1 THEN <<"N.N", part, Ordinal(i)>>
    ELSE Label(classified[i].tier, Ordinal(i))

StripLabel(i) == TypeLabel(i, PartNumber[i])

(* The typed label that a node's text still opens with. *)
Remaining(i) ==
    LET typed == doc[i].label
        byHand == classified[i].signal = 4
    IN CASE typed = NoLabel -> NoLabel
         [] typed # NoLabel /\ classified[i].tier = 0 -> IF typed[1] = "PART" THEN NoLabel ELSE typed
         [] OTHER -> IF byHand /\ (typed[1] = "deep" \/ typed = StripLabel(i)) THEN NoLabel ELSE typed

(* renderPart, renderArticle, renderPrNode: by place, then by type. *)
RenderLabel(i) ==
    CASE Owner(i) = 0 -> <<"PART", Ordinal(i)>>
      [] Owner(i) # 0 /\ Owner(Owner(i)) = 0 -> <<"N.N", Ordinal(Owner(i)), Ordinal(i)>>
      [] OTHER -> TypeLabel(i, 1)

(* Word: a level counts its paragraphs since the last shallower one. *)
WordCount(i, tier) ==
    LET level(j) == classified[j].tier
        listed == {j \in 1..i : InTree(j) /\ classified[j].structural}
        from == Max({0} \cup {j \in listed : level(j) < tier})
    IN Cardinality({j \in listed : j > from /\ level(j) = tier})
WordLabel(i) ==
    LET tier == classified[i].tier
    IN IF tier = 1 THEN <<"N.N", WordCount(i, 0), WordCount(i, 1)>>
       ELSE Label(tier, WordCount(i, tier))

-----------------------------------------------------------------------------
(* Properties. *)

Done == phase = "done"
Outline == {i \in DOMAIN doc : classified[i].structural /\ IsContent(classified[i])}

(* Where each node belongs: a structural one under the nearest preceding     *)
(* shallower one, anything else under the nearest preceding structural one.  *)
Belongs(x) ==
    LET isObject == x > MaxLength
        at == IF isObject THEN x - MaxLength - 1 ELSE x
        above == IF isObject THEN {j \in Outline : j <= at}
                 ELSE IF at \in Outline
                 THEN {j \in Outline : j < at /\ classified[j].tier < classified[at].tier}
                 ELSE {j \in Outline : j < at}
    IN Max({0} \cup above)

(* The title block as a reader sees it: identity lines that only blanks,     *)
(* rules and hidden lines precede.                                           *)
TitleBlock ==
    {i \in DOMAIN doc :
        /\ RepeatsIdentity(classified[i]) /\ head.identity # "unknown"
        /\ \A j \in 1..(i - 1) : RepeatsIdentity(classified[j]) \/ Skipped(classified[j])
        /\ head.identity = "inferred" =>
             ~head.objectFirst /\ \A j \in 1..(i - 1) : ~doc[j].object}

InOrder(x, y) ==
    LET place(z) == IF z > MaxLength THEN 2 * (z - MaxLength - 1) + 1 ELSE 2 * z
    IN place(x) < place(y)

(* The tree is the outline: every content paragraph and every captured       *)
(* object is in it exactly once, in document order among its siblings, under *)
(* the node it belongs to (buildTree: the stack drains children upwards      *)
(* while continuations and objects are attached at once).                    *)
TreeIsTheOutline ==
    Done =>
        LET paras == {i \in DOMAIN doc : IsContent(classified[i])} \ TitleBlock
            objects == {Object(i) : i \in {j \in DOMAIN doc : doc[j].object}}
            first == IF head.objectFirst THEN {Object(0)} ELSE {}
        IN \A o \in DOMAIN children :
            /\ ToSet(children[o]) = {x \in paras \cup objects \cup first : Belongs(x) = o}
            /\ \A j, k \in DOMAIN children[o] : j < k => InOrder(children[o][j], children[o][k])

(* A break is shown before the first visible node behind it, unless an       *)
(* object comes first, and nowhere else (ADR-075): blanks, rules, the title  *)
(* block and hidden content pass it on.                                      *)
Visible == {i \in DOMAIN doc : InTree(i) /\ ~HiddenContent(classified[i])}
BreakDue(i) ==
    LET from == Max({0} \cup {j \in Visible : j < i})
        Clear(j) == \A k \in j..(i - 1) : ~doc[k].object
    IN \/ \E j \in (from + 1)..i : doc[j].ownBreak /\ Clear(j)
       \/ \E j \in from..(i - 1) : j > 0 /\ doc[j].endsPage /\ Clear(j)
BreaksReachTheNextPage ==
    Done => \A i \in 1..Len(doc) :
        i \in Visible => (i \in breaks <=> BreakDue(i))

(* A vote of a signal is never lost: what voted for the node's tier is the   *)
(* winner or agreed, and the rest stands in its conflicts, also after a      *)
(* promotion, when those that had agreed no longer do.                       *)
VotesAreKept ==
    phase # "classify" => \A i \in DOMAIN doc :
        LET c == classified[i]
        IN c.structural =>
            /\ \A h \in Hits(doc[i]) :
                \/ h \in c.conflicts
                \/ h.tier = c.tier /\ h.signal \in c.agreed \cup {c.signal}
            /\ \A s \in c.agreed : [signal |-> s, tier |-> c.tier] \in Hits(doc[i])

(* The list that a lead-in introduces becomes its children, its items        *)
(* numbered 1, 2, ... lose their typed labels, and a later lead-in beside it *)
(* that ends in a colon stays beside it (ADR-059).                           *)
SublistsNestUnderTheirLeadIn ==
    Done =>
        LET raw == ClassifyParagraphs(doc)
            content == SelectSeq(raw, IsContent)
            At(k) == content[k].at
            Run(k) == {m \in (k + 1)..Len(content) :
                        \A j \in (k + 1)..m : RunItem(content[j], content[k].tier)}
            Counted(k, m) == \A j \in (k + 1)..m : doc[At(j)].label = Label(content[k].tier, j - k)
        IN \A k \in Primaries(content) :
            /\ \A m \in Run(k) :
                /\ Owner(At(m)) = At(k)
                /\ Counted(k, m) => Remaining(At(m)) = NoLabel
            /\ \A m \in (k + 1)..Len(content) :
                (/\ IsLeadInCandidate(content[m]) /\ doc[At(m)].colon
                 /\ content[m].tier = content[k].tier
                 /\ \A j \in k..m : content[j].tier >= content[k].tier)
                    => Owner(At(m)) = Owner(At(k))

(* Rules of asterisks that are out of step never make a note of, or drop, a  *)
(* visible paragraph that its numbering or style makes part of the outline.  *)
NumberedContentStays ==
    Done => \A i \in DOMAIN doc :
        (doc[i].text = "words" /\ ~doc[i].hidden /\ ~doc[i].note /\ HasStructuralNumbering(doc[i]))
            => InTree(i) /\ ~classified[i].note

(* In an outline without gaps, the label that is stripped, the one that      *)
(* Markdown shows and the one that Word shows are the same.                  *)
Tidy ==
    \A i \in Outline :
        classified[i].tier = (IF Owner(i) = 0 THEN 0 ELSE classified[Owner(i)].tier + 1)
TidyOutlinesAgree ==
    Done /\ Tidy => \A i \in Outline :
        StripLabel(i) = RenderLabel(i) /\ StripLabel(i) = WordLabel(i)

(* A second application of the pass would change nothing (ADR-059: "The pass *)
(* is idempotent").                                                          *)
NestingIsIdempotent ==
    phase # "classify" => NestLeadInSublists(classified) = classified
=============================================================================
