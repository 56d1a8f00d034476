SPECIFICATION Spec
CONSTANTS
    NoTier = NoTier
    MaxLength = 5
    Families <- Documents
INVARIANT TreeIsTheOutline
INVARIANT VotesAreKept
INVARIANT SublistsNestUnderTheirLeadIn
INVARIANT TidyOutlinesAgree
INVARIANT BreaksReachTheNextPage
INVARIANT NumberedContentStays
CHECK_DEADLOCK FALSE
