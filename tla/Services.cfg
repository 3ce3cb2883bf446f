\* Two tabs that show two documents; a setting of each kind; two hosts with a
\* certificate that can be read and one that cannot; four popups; two downloads;
\* five texts, of which three may be a password and two have the same hash.
SPECIFICATION Spec
CONSTANTS
    d1 = d1
    d2 = d2
    empty = empty
    w1 = w1
    w2 = w2
    long = long
    zoom = zoom
    js = js
    Tabs = {p1, p2}
    Docs = {d1, d2}
    Words = {empty, w1, w2, long}
    Long = {long}
    Empty = empty
    Matches <- MCMatches
    MaxCount = 5
    MaxAsks = 2
    Params = {zoom, js}
    ViewOf <- MCViewOf
    Default <- MCDefault
    Urls = {u1}
    Hosts = {h1, h2}
    Pems = {c1, c2}
    Readable = {c1}
    MaxQuestions = 2
    Popups <- MCPopups
    MaxLayouts = 5
    LastNumber = 1
    Downloads = {"d1", "d2"}
    Pages = {p1}
    Texts <- MCTexts
    Acceptable <- MCAcceptable
    Blank = "blank"
    Hashes <- MCHashes
    Hash <- MCHash
    NoPassword = "none"
INVARIANTS
    FindBarIsRight
    ChoicesAreKept
    CertificatesAgree
    PopupsInOrder
    RequestsAreServed
    ButtonTellsMode
    SecretIsDecided
    StoredIsAcceptable
PROPERTIES
    ImplementsGate
