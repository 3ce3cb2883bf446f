\* Two entries, which the user may move, rename, nest, share and delete.
SPECIFICATION Spec
CONSTANTS
    Urls     = {u1, u2}
    Names    = {n1, n2}
    NoUrl    = NoUrl
    MaxId    = 2
    MaxPath  = 3
    MaxQuick = 0
SYMMETRY Alike
VIEW Live
CONSTRAINT Small
INVARIANTS
    ListIsCurrent
    TickedAreListed
PROPERTIES
    DragsReachTheStore
