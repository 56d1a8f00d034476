CONSTANTS
    Specs = {m1, m2, c1, c2}
    Masters = {m1, m2}
    m1 = m1
    m2 = m2
    r1 = r1
    r2 = r2
    MaxParas = 4
    A = A
    Texts <- MCTexts
    Unresolved <- MCNoTexts
    CommentText = A
    Titles <- MCTwoTitles
    Documents <- Plain
    Checkpoints = {}
    Scopes = {}
    MaxVersion = 2
    NoText = NoText
    NoRow = NoRow
    Numbers <- MCNumbers
    NumberOf <- MCNumberOf
    Cites <- Mutual
    Requests = {r1, r2}
    NoSpec = NoSpec
    NoCopy = NoCopy
    Callers = {}
    Sent = {}
    Stored <- MCStored
    Toc <- MCToc
    Unknown = {}
    Sections = {}
    Exact = {}
    Gets = {}
    Puts = {}
    Unset = Unset
SPECIFICATION AllSpec
INVARIANTS ReferencesAreRepaired
CHECK_DEADLOCK FALSE
