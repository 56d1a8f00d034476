CONSTANTS
    Specs = {"s1", "s2"}
    MaxParas = 3
    A = A
    Texts <- MCTexts
    Unresolved <- MCNoTexts
    CommentText = A
    Titles <- MCTitles
    Documents <- CommentedOrNoted
    Checkpoints = {}
    Scopes = {}
    MaxVersion = 2
    NoText = NoText
    NoRow = NoRow
    Packages = {"k1", "k2"}
    Requests = {"r1", "r2"}
    Orders = {3}
    Memberships <- Both
    Wordings <- MCWordings
    Outlines <- MCOutlines
    MaxLines = 9
    MaxWrites = 2
    Absent = Absent
SPECIFICATION MCSpec
INVARIANTS FinalRevisionsRenderClean ComparisonIsFaithful
PROPERTIES RevisionIsOnePointInTime DraftsAreIssuedAsFrozen OpenOrderIsLast IssuanceEnds
CHECK_DEADLOCK FALSE
