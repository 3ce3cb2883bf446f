---------------------------- MODULE MCBookmarks ----------------------------
(* Instances of Bookmarks for TLC. *)
EXTENDS Bookmarks

(* Addresses, and titles, are only compared. *)
Alike == Permutations(Urls) \cup Permutations(Names)

CONSTANTS MaxPath, MaxQuick

(* Bounds: the navigator grows with every folder picked, and how much is in *)
(* quick access makes no difference here.                                   *)
Small == Len(mgr.path) <= MaxPath /\ Cardinality(quick) <= MaxQuick

(* What the next steps can read: ticks are only read in the states that     *)
(* clear them when entered, the list of a manager that is off the stack is  *)
(* filled before it is read unless an order is pending, and so are the      *)
(* members of a flow that is off the stack, except its box.                 *)
LiveManager ==
    LET m == IF "manager" \in Range(stack) \/ mgr.reordered THEN mgr
             ELSE [mgr EXCEPT !.list = <<>>, !.added = <<>>, !.shown = Root]
    IN  IF mgr.state \in {"Delete", "Share"} THEN m
        ELSE [m EXCEPT !.selected = {}, !.count = 0]

LiveFlow == IF "flow" \in Range(stack) THEN flow ELSE [NewFlow EXCEPT !.qa = flow.qa]

Live == IF alive
        THEN <<store, next, page, stack, popup, LiveManager, LiveFlow, quick>>
        ELSE <<store, next, page, quick>>
=============================================================================
