----------------------------- MODULE SecretGate -----------------------------
(***************************************************************************)
(* What the password of secret mode promises, without views and buttons:   *)
(* once the user has decided about a password, it is changed, removed or   *)
(* passed only by somebody who has just typed it, and every password that  *)
(* is set was typed twice in a row.  Module SecretMode implements this.    *)
(***************************************************************************)
EXTENDS Naturals

CONSTANTS
    Texts,     \* what can be typed
    Hashes,    \* the results of std::hash
    Hash,      \* std::hash: different texts may have the same hash
    NoPassword \* the empty string, in the place of a hash

VARIABLES
    password, \* the stored hash, NoPassword if none is used
    decided,  \* whether the user has decided about a password
    secret,   \* whether secret mode is on
    entry,    \* what has been typed
    known,    \* whether the dialogue may change the password it asked for
    once      \* the hash of a new password that has been typed once

vars == <<password, decided, secret, entry, known, once>>

TypeOK ==
    /\ password \in Hashes \cup {NoPassword}
    /\ decided \in BOOLEAN
    /\ secret \in BOOLEAN
    /\ entry \in Texts
    /\ known \in BOOLEAN
    /\ once \in Hashes \cup {NoPassword}

Init ==
    /\ password = NoPassword /\ ~decided /\ ~secret
    /\ entry \in Texts /\ ~known /\ once = NoPassword

(* The user types the password that is stored. *)
TypedRight == password # NoPassword /\ Hash[entry] = password

(* The user may change the password. *)
May == password = NoPassword \/ known \/ ~decided

(* The user types, opens or leaves the dialogue, or starts a new password; *)
(* the same password typed twice is the only way out of "once" that counts.*)
Talk ==
    /\ known' => known \/ TypedRight
    /\ once' \in {once, NoPassword, Hash[entry]}
    /\ entry' \in Texts
    /\ UNCHANGED <<password, decided, secret>>

(* A new password, typed twice.  The first one also decides. *)
Set ==
    /\ May
    /\ once # NoPassword /\ Hash[entry] = once
    /\ password' = once
    /\ ~known' /\ once' = NoPassword /\ entry' \in Texts
    /\ UNCHANGED <<decided, secret>>

(* The password is not used any more. *)
Remove ==
    /\ TypedRight \/ ~decided
    /\ password' = NoPassword
    /\ ~known' /\ once' = NoPassword /\ entry' \in Texts
    /\ UNCHANGED <<decided, secret>>

(* The first decision leads into secret mode at once. *)
Decide ==
    /\ ~decided /\ decided'
    /\ secret' /\ ~known' /\ once' = NoPassword /\ entry' \in Texts
    /\ UNCHANGED password

Enter ==
    /\ decided /\ ~secret
    /\ password = NoPassword \/ TypedRight
    /\ secret' /\ ~known' /\ once' = NoPassword /\ entry' \in Texts
    /\ UNCHANGED <<password, decided>>

(* Secret mode is left freely, and with the process. *)
Leave ==
    /\ ~secret' /\ ~known' /\ once' = NoPassword /\ entry' \in Texts
    /\ UNCHANGED <<password, decided>>

Next == Talk \/ Set \/ Remove \/ Decide \/ Enter \/ Leave

Spec == Init /\ [][Next]_vars
=============================================================================
