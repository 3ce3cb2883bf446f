\* The shell with everything that may go wrong outside: the adaptor fails to
\* generate an id, pages close themselves.
SPECIFICATION Spec
CONSTANTS
    TabIds      <- MCTabIds
    NormalIds   <- MCNormalIds
    SecretSeeds <- MCSeed
    TabLimit    = 2
    MaxRestored = 1
    MaxPopups   = 1
    Faults      = {"adaptorFails", "pageCloses"}
INVARIANTS
    TabsAgree
    SignalsAgree
    PageIsLive
PROPERTIES
    OtherModeUntouched
    LeavingSuspends
    ImplementsRecentTabs
CONSTRAINT NoQuestions
