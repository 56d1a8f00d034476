CONSTANTS
    MaxJobs = 2
    Specs = {"s1"}
    Uploads <- MCUploads
    Conventions = {r1}
    BuiltIn = r0
    None = None
    Holders = {h1, h2, h3}
    TTL = 3
    NoLock = NoLock
    Ids = {id1, id2}
    MaxPending = 2
    NPages = 3
SPECIFICATION Spec
CHECK_DEADLOCK FALSE
INVARIANTS TemplateRaceIsHealed CompletedOnboardingIsWhole GrantIsShown
PROPERTIES UserConventionKept ClosingIsFinal JobsEnd OcrEndsCleanly
