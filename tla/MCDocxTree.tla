----------------------------- MODULE MCDocxTree -----------------------------
(* Small alphabets of paragraphs for TLC. *)
EXTENDS DocxTree, TLC

Words ==
    [text |-> "words", label |-> NoLabel, colon |-> FALSE, hidden |-> FALSE, note |-> FALSE,
     ownBreak |-> FALSE, endsPage |-> FALSE, object |-> FALSE, numId |-> "none",
     level |-> NoTier, style |-> NoTier, indent |-> NoTier]
With(fields) == fields @@ Words

Part == With([label |-> <<"PART", 1>>, style |-> 0])
Typed(label) == With([label |-> label])
LeadIn(tier) == With([indent |-> tier, colon |-> TRUE])

(* Typed outlines with lead-ins, one of them numbered; a blank paragraph in  *)
(* a PART style that holds an object.                                        *)
OutlineParagraphs ==
    {Part, Typed(<<"N.N", 1, 1>>), Typed(<<"1.", 1>>), Typed(<<"1.", 2>>), LeadIn(3),
     With([numId |-> "list", level |-> 3, indent |-> 3]),
     With([text |-> "blank", style |-> 0, object |-> TRUE])}

NestingParagraphs == {LeadIn(3), LeadIn(4), Typed(<<"1.", 1>>), Typed(<<"a.", 1>>)}

(* Notes, rules, hidden lines, breaks, objects and identity lines.           *)
PageParagraphs ==
    {With([style |-> 0, ownBreak |-> TRUE]), With([style |-> 1, indent |-> 3, endsPage |-> TRUE]),
     With([numId |-> "list"]), With([object |-> TRUE]), With([note |-> TRUE]),
     With([text |-> "blank", endsPage |-> TRUE]), With([hidden |-> TRUE]),
     With([text |-> "stars"]), With([text |-> "identity", ownBreak |-> TRUE]),
     With([text |-> "blank", object |-> TRUE, ownBreak |-> TRUE])}

TitleParagraphs ==
    {With([text |-> "identity"]), With([text |-> "identity", ownBreak |-> TRUE]), Part}

(* Lines that repeat an identity, without breaks.                            *)
RepeatingParagraphs ==
    {With([text |-> "identity"]), With([text |-> "identity", hidden |-> TRUE]),
     With([hidden |-> TRUE]), With([text |-> "blank", object |-> TRUE]), Words, Part}

Identities(s) == [identity : s, objectFirst : BOOLEAN]
Unknown == {[identity |-> "unknown", objectFirst |-> FALSE]}
Inferred == {[identity |-> "inferred", objectFirst |-> FALSE]}
Family(paragraphs, length, heads) ==
    [paragraphs |-> paragraphs, length |-> length, heads |-> heads]

Documents ==
    {Family(OutlineParagraphs, 5, Unknown),
     Family(PageParagraphs, 4, Identities({"metadata"}) \cup Unknown),
     Family(RepeatingParagraphs, 4, Identities({"inferred"}))}
NestingDocuments == {Family(NestingParagraphs, 5, Unknown)}
TitleDocuments == {Family(TitleParagraphs, 3, Inferred)}
=============================================================================
