SPECIFICATION Spec
CONSTANTS
    NoTier = NoTier
    MaxLength = 3
    Families <- TitleDocuments
INVARIANT BreaksReachTheNextPage
CHECK_DEADLOCK FALSE
