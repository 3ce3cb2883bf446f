SPECIFICATION Spec
CONSTANTS
    NormalTabs = {t1, t2, t3}
    SecretTabs = {}
    Urls = {u1}
    Https = {u1}
    Site = u1
    Search = u1
    Ways = {back}
    Typable = {"", "home", "words"}
SYMMETRY Symmetry
CONSTRAINT Few
INVARIANT BarIsOfThePage
PROPERTY TypingIsKept
