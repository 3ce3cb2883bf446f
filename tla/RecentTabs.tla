----------------------------- MODULE RecentTabs -----------------------------
(***************************************************************************)
(* What the browser promises about its tabs, whatever the engine's         *)
(* bookkeeping: each mode has its own list of tabs in the order of their   *)
(* last use, the current page is always the last of the list of the mode   *)
(* the user is in, and a step does one thing to one list.                  *)
(***************************************************************************)
EXTENDS Integers, Sequences, SequencesExt

CONSTANT Tab \* the identifiers of tabs

VARIABLES
    mode,   \* the mode the user is in
    recent, \* for each mode, its tabs, the most recently used last
    shown   \* the tab whose page is current, with its mode

AllModes == {"NORMAL", "SECRET"}
Nothing  == <<"NONE", -1>>

ShownOf(m, s) == IF s = <<>> THEN Nothing ELSE <<m, Last(s)>>

Init ==
    /\ mode = "NORMAL"
    /\ recent = [m \in AllModes |-> <<>>]
    /\ shown = Nothing

(* The list of the current mode becomes s. *)
Becomes(s) ==
    /\ mode' = mode
    /\ recent' = [recent EXCEPT ![mode] = s]
    /\ shown' = ShownOf(mode, s)

Drop(s, t) ==
    IF t \in ToSet(s)
    THEN RemoveAt(s, CHOOSE p \in DOMAIN s : s[p] = t)
    ELSE s

Open(t)  == t \notin ToSet(recent[mode]) /\ Becomes(Append(recent[mode], t))
Use(t)   == t \in ToSet(recent[mode]) /\ Becomes(Append(Drop(recent[mode], t), t))
Close(t) == t \in ToSet(recent[mode]) /\ Becomes(Drop(recent[mode], t))

(* Leaving a tab for the one that opened it. *)
Return(t, opener) ==
    /\ {t, opener} \subseteq ToSet(recent[mode]) /\ t # opener
    /\ t = Last(recent[mode])
    /\ Becomes(Append(Drop(Drop(recent[mode], t), opener), opener))

SwitchMode ==
    /\ mode' \in AllModes \ {mode}
    /\ recent' = recent
    /\ shown' = ShownOf(mode', recent[mode'])

Next ==
    \/ \E t \in Tab : Open(t) \/ Use(t) \/ Close(t)
    \/ \E t, opener \in Tab : Return(t, opener)
    \/ SwitchMode

Spec == Init /\ [][Next]_<<mode, recent, shown>>
=============================================================================
