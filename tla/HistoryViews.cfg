CONSTANTS
    Specs = {s1}
    MaxParas = 3
    A = A
    B = B
    Texts <- MCTexts
    Unresolved <- MCUnresolved
    CommentText = A
    Titles <- MCTitles
    Documents <- MCDocuments
    Checkpoints = {c1, c2}
    Scopes <- EachSpec
    MaxVersion = 3
    NoText = NoText
    NoRow = NoRow
    Users = {u1, u2}
    Nobody = Nobody
    SessionWindow = 0
    NewTexts = {A}
    MaxTime = 1
SPECIFICATION HistorySpec
SYMMETRY Interchangeable
CHECK_DEADLOCK FALSE
INVARIANTS SessionsFollowSeals PendingIsWhatChanged SnapshotIsThatGeneration
