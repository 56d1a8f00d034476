CONSTANTS
    Specs = {s1}
    MaxParas = 7
    A = A
    B = B
    Texts <- MCTexts
    Unresolved <- MCUnresolved
    CommentText = A
    Titles <- MCTitles
    Documents <- BoxedDocument
    Checkpoints = {c1}
    Scopes <- EachSpec
    MaxVersion = 4
    NoText = NoText
    NoRow = NoRow
SPECIFICATION Spec
INVARIANTS TypeOK HistoryIsSound SealedTextIsExact SiblingPositionsDistinct OneNotePerComment BlobMirrorsText
PROPERTIES GovernedRowsFrozen ImplementsVersionedSpecs
