------------------------------- MODULE MCLists -------------------------------
(***************************************************************************)
(* An instance of the lists for TLC.                                       *)
(***************************************************************************)
EXTENDS Lists, FiniteSets, Sequences, TLC

(* The places for items of the history are only compared.                   *)
Alike == Permutations(Addresses)

(* Bounds: one of the entries that are most visited is ticked for deletion; *)
(* one at a time has been visited more than once; those of earlier days are *)
(* of one page, always the same (pages are only compared); and with three   *)
(* entries at most one is of today, no link is kept and no tab is open.     *)
Few ==
    LET ofToday == {i \in DOMAIN entries : entries[i].today}
        earlier == {entries[i].page : i \in DOMAIN entries \ ofToday}
    IN  /\ Cardinality(picked) <= 1
        /\ Cardinality({i \in DOMAIN entries : entries[i].visits > 1}) <= 1
        /\ earlier \subseteq {CHOOSE s \in Sites : TRUE}
        /\ Len(entries) = 3 => Cardinality(ofToday) <= 1 /\ store = {} /\ tabs = 0
=============================================================================
