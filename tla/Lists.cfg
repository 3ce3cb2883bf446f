\* Two entries of the history over two days and three places for their items;
\* a link, three entries of two pages of which two are shown, and a tab; two names.
SPECIFICATION Spec
CONSTANTS
    Urls = {u1, u2}
    MaxRows = 2
    Addresses = {a1, a2, a3}
    Links = {l1}
    Sites = {s1, s2}
    MaxEntries = 3
    MaxVisits = 2
    Limit = 2
    MaxTabs = 1
    Names = {"ann", "bob"}
    Scrolls = {"SELECT_ALL", "PASSWORDS"}
    Filled = {"COOKIES"}
    MaxProfiles = 2
SYMMETRY Alike
CONSTRAINT Few
INVARIANTS
    TypeOK
    OneRowPerDay
    GridIsCurrent
    ForgetsWhatWasDeleted
PROPERTIES
    ShowsTheMostVisited
    OnlyTickedGo
