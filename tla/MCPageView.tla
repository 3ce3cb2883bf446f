----------------------------- MODULE MCPageView -----------------------------
(* Three tabs: one that closes, one used last and one that opened it.  One   *)
(* address besides the home page.                                           *)
EXTENDS PageView, TLC

Symmetry == Permutations(NormalTabs)

(* Bound: at a time one page that loads, or has somewhere to go, or is not  *)
(* at the address, or one thing the page view was not told.  There is none  *)
(* with three tabs, when the user does not type either, and none while the  *)
(* entry keeps the focus behind another view or application.                *)
Few ==
    LET different ==
            Cardinality({t \in Ids : pages[t].loading})
            + Cardinality({t \in Ids : pages[t].ways # {}})
            + Cardinality({t \in eng.tabs : pages[t].uri # Site})
            + Cardinality(page.lost \ {"host"}) + Cardinality(eng.asked)
    IN  /\ different <= 1
        /\ eng.tabs = Ids => different = 0 /\ ~bar.focus
        /\ bar.focus => different = 0 \/ OnTop("page")
=============================================================================
