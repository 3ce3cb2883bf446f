\* Three tabs: a page, the tab it opened and one used in between.  A session
\* with more tabs than the limit; nothing goes wrong outside, so that a page
\* shown always exists.
SPECIFICATION Spec
CONSTANTS
    TabIds      <- FourTabIds
    NormalIds   <- FourTabIds
    SecretSeeds <- MCSeed
    TabLimit    = 3
    MaxRestored = 4
    MaxPopups   = 1
    Faults      = {}
INVARIANTS
    LimitKept
    PageExists
PROPERTIES
    BackReturnsToOpener
CONSTRAINT OneModeNoQuestions
