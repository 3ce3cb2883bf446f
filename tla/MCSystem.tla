------------------------------ MODULE MCSystem ------------------------------
(***************************************************************************)
(* Instances for TLC of what the rest stands on: how the browser comes up, *)
(* and its sqlite layer.  Each starts in its initial state, and one of     *)
(* them, chosen in the initial state, moves.                               *)
(***************************************************************************)
EXTENDS Integers

VARIABLES moves,
          libs, todo, lock, created, cache, members, slots, initWith, app, request, opened,
          disk, work, conn, scope, job, folders, table, process, held

startupVars == <<libs, todo, lock, created, cache, members, slots, initWith, app,
                 request, opened>>
storageVars == <<disk, work, conn, scope, job, folders, table, process, held>>
vars == <<moves, startupVars, storageVars>>

Startup == INSTANCE Startup WITH Urls <- {"u1"}, NoUrl <- "none", MaxRequests <- 3

Storage == INSTANCE Storage WITH
    Names <- {"All", "Mobile", "a"}, All <- "All", Special <- "Mobile", MaxId <- 3,
    Memory <- {1}, MaxRemoved <- 1, RetryCount <- 1

ASSUME StartupAssumption == Startup!StartupAssumption
ASSUME StorageAssumption == Storage!StorageAssumption

Init == /\ moves \in {"startup", "storage"}
        /\ Startup!Init /\ Storage!Init
        /\ moves = "storage" => libs = Startup!Services

Next ==
    /\ UNCHANGED moves
    /\ \/ moves = "startup" /\ Startup!Next /\ UNCHANGED storageVars
       \/ moves = "storage" /\ Storage!Next /\ UNCHANGED startupVars

Fairness == Startup!Fairness /\ Storage!Fairness

Spec == Init /\ [][Next]_vars /\ Fairness

-----------------------------------------------------------------------------
(* One of each service is made, all is ready when the first request is       *)
(* served, and coming up ends.                                               *)
StartsRight == Startup!StartsRight

(* The two folders the browser makes are kept and made once, no transaction  *)
(* stays open, and every call ends.                                          *)
StorageIsSound == Storage!StorageIsSound
=============================================================================
