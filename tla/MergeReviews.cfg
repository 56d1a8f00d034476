CONSTANTS
    Specs = {"s1"}
    MaxParas = 5
    A = A
    B = B
    Texts <- MCTexts
    Unresolved <- MCNoTexts
    CommentText = A
    Titles <- MCTitles
    Documents <- Both
    Checkpoints = {}
    Scopes = {}
    MaxVersion = 4
    NoText = NoText
    NoRow = NoRow
    Shown <- MCCited
    AddedText = A
    MaxRedlines = 2
    None = None
SPECIFICATION ReviewSpec
INVARIANTS DiffIsExactWhenQuiet RetriedMergeIsNoOp AddedInDocumentOrder
PROPERTIES MergeDestroysOnlyWhatWasShown ImplementsVersionedSpecs
CONSTRAINT Bounded
CHECK_DEADLOCK FALSE
