CONSTANTS
    Specs = {m1, m2, c1, c2}
    Masters = {m1, m2}
    m1 = m1
    m2 = m2
    r1 = r1
    r2 = r2
    MaxParas = 8
    A = A
    Texts <- MCTexts
    Unresolved <- MCNoTexts
    CommentText = A
    Titles <- MCTwoTitles
    Documents <- Nested
    Checkpoints = {}
    Scopes = {}
    MaxVersion = 2
    NoText = NoText
    NoRow = NoRow
    Numbers <- MCNumbers
    NumberOf <- MCNumberOf
    Cites <- Mutual
    Requests = {r1, r2}
    NoSpec = NoSpec
    NoCopy = NoCopy
    Callers = {k1, k2}
    Sent <- MCSent
    Stored <- MCStored
    Toc <- MCToc
    Unknown <- MCUnknown
    Sections = {g1, g2, o1}
    Exact = {g1, g2}
    Gets = {a1}
    Puts = {a2}
    Unset = Unset
SPECIFICATION AllSpec
INVARIANTS DriftIsNeverHidden CopiesKeepTheirShape ReferencesFollowToc
PROPERTIES LastCallWins ManualChoiceStands
CHECK_DEADLOCK FALSE
SYMMETRY ProjectSymmetry
