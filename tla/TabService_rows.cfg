\* One secret id is that of a normal tab, the other is not.
SPECIFICATION Spec
CONSTANTS
    TabIds      <- MCTabIds
    NormalIds   <- MCNormalIds
    SecretSeeds <- MCSeeds
    Seed        = 1
    TabLimit    = 2
    MaxShots    = 1
    Picture     <- SamePicture
INVARIANTS
    ClosedTabsStayClosed
PROPERTIES
    
    RestoredAsSaved
