\* The assertion of WebPageUI::setMainContent, with pages that close themselves.
SPECIFICATION Spec
CONSTANTS
    TabIds      <- MCTabIds
    NormalIds   <- MCNormalIds
    SecretSeeds <- MCSeed
    TabLimit    = 1
    MaxRestored = 0
    MaxPopups   = 1
    Faults      = {"pageCloses"}
INVARIANT PageExists
CONSTRAINT NoQuestions
