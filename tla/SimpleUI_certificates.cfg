\* Certificate questions, in normal mode only; pages may close themselves.
SPECIFICATION Spec
CONSTANTS
    TabIds      <- MCTabIds
    NormalIds   <- MCNormalIds
    SecretSeeds <- MCSeed
    TabLimit    = 2
    MaxRestored = 2
    MaxPopups   = 2
    Faults      = {"pageCloses"}
INVARIANTS
    AnswerReachesItsView
PROPERTIES
    HiddenTabsStayAsleep
CONSTRAINT OneMode
