------------------------------ MODULE WorkQueue ------------------------------
(***************************************************************************)
(* parallel_for_each of core/Tools/WorkQueue.h: the caller starts a fixed  *)
(* number of threads over one vector of inputs, joins them one after the   *)
(* other, and returns the vector of results.                               *)
(*                                                                         *)
(* An input is known by its position, and the vector of results is kept as *)
(* the number of results each input has given: their order depends on the  *)
(* schedule, and nothing reads it.  Since getNext takes from the back, the *)
(* inputs still in the vector are 1 .. left.                               *)
(***************************************************************************)
EXTENDS Integers, FiniteSets

CONSTANTS
    Inputs,      \* how many inputs there are
    ThreadCount  \* the argument of the constructor: 4 in parallel_for_each

ASSUME CountAssumption == Inputs \in Nat /\ ThreadCount \in Nat \ {0}

VARIABLES
    throws,  \* the inputs for which the worker function throws
    left,    \* WorkData::data
    results, \* WorkData::results
    held,    \* who holds WorkData::lock, None if nobody
    pc,      \* where each thread is
    item,    \* the local variable t of threadWorker
    started, \* the number of threads run() has started
    joined,  \* the number of threads run() has joined
    returned, \* whether parallel_for_each has returned
    out      \* what it returned

output == <<returned, out>>

vars == <<throws, left, results, held, pc, item, started, joined, output>>

Positions == 1 .. Inputs
Threads   == 1 .. ThreadCount
None      == 0

TypeOK ==
    /\ throws \subseteq Positions
    /\ left \in 0 .. Inputs
    /\ results \in [Positions -> Nat]
    /\ held \in Threads \cup {None}
    /\ pc \in [Threads -> {"new", "next", "check", "pop", "throwing", "work",
                           "add", "done"}]
    /\ item \in [Threads -> Positions \cup {None}]
    /\ started \in 0 .. ThreadCount
    /\ joined \in 0 .. ThreadCount
    /\ returned \in BOOLEAN
    /\ out \in [Positions -> Nat]

(* setData and setWorker come before run(). *)
Init ==
    /\ throws \in SUBSET Positions
    /\ left = Inputs
    /\ results = [i \in Positions |-> 0]
    /\ held = None
    /\ pc = [t \in Threads |-> "new"]
    /\ item = [t \in Threads |-> None]
    /\ started = 0
    /\ joined = 0
    /\ returned = FALSE
    /\ out = results

Goto(t, where) == pc' = [pc EXCEPT ![t] = where]
-----------------------------------------------------------------------------
(***************************************************************************)
(* The calling thread: run() and getResults().                             *)
(***************************************************************************)

Start ==
    /\ started < ThreadCount
    /\ started' = started + 1
    /\ Goto(started + 1, "next")
    /\ UNCHANGED <<throws, left, results, held, item, joined, output>>

(* Mutant: the thread is not waited for. *)
JoinDetached ==
    /\ started = ThreadCount /\ joined < ThreadCount
    /\ joined' = joined + 1
    /\ UNCHANGED <<throws, left, results, held, pc, item, started, output>>

Join ==
    /\ started = ThreadCount /\ joined < ThreadCount
    /\ pc[joined + 1] = "done"
    /\ joined' = joined + 1
    /\ UNCHANGED <<throws, left, results, held, pc, item, started, output>>

(* getResults copies the vector without the lock. *)
Return ==
    /\ joined = ThreadCount /\ ~returned
    /\ returned' = TRUE
    /\ out' = results
    /\ UNCHANGED <<throws, left, results, held, pc, item, started, joined>>
-----------------------------------------------------------------------------
(***************************************************************************)
(* A worker thread: threadWorker with getNext and addResult.               *)
(***************************************************************************)

(* Mutant: getNext does not take the lock. *)
LockSkipped(t) ==
    /\ pc[t] = "next"
    /\ held' = t
    /\ Goto(t, "check")
    /\ UNCHANGED <<throws, left, results, item, started, joined, output>>

Lock(t) ==
    /\ pc[t] = "next" /\ held = None
    /\ held' = t
    /\ Goto(t, "check")
    /\ UNCHANGED <<throws, left, results, item, started, joined, output>>

(* Mutant: the lock is kept when the exception leaves getNext. *)
NoMoreKeepsLock(t) ==
    /\ pc[t] = "check" /\ left = 0
    /\ Goto(t, "throwing")
    /\ UNCHANGED <<throws, left, results, held, item, started, joined, output>>

(* Mutant: off by one. *)
NoMoreTooEarly(t) ==
    /\ pc[t] = "check" /\ left <= 1
    /\ held' = None
    /\ Goto(t, "throwing")
    /\ UNCHANGED <<throws, left, results, item, started, joined, output>>

(* data.size() == 0: unlock, then throw. *)
NoMore(t) ==
    /\ pc[t] = "check" /\ left = 0
    /\ held' = None
    /\ Goto(t, "throwing")
    /\ UNCHANGED <<throws, left, results, item, started, joined, output>>

(* Mutant: data.back() of an empty vector. *)
TakeUnchecked(t) ==
    /\ pc[t] = "check"
    /\ item' = [item EXCEPT ![t] = left]
    /\ Goto(t, "pop")
    /\ UNCHANGED <<throws, left, results, held, started, joined, output>>

(* T t = data.back() *)
Take(t) ==
    /\ pc[t] = "check" /\ left > 0
    /\ item' = [item EXCEPT ![t] = left]
    /\ Goto(t, "pop")
    /\ UNCHANGED <<throws, left, results, held, started, joined, output>>

(* data.pop_back(), unlock *)
Pop(t) ==
    /\ pc[t] = "pop"
    /\ left' = left - 1
    /\ held' = None
    /\ Goto(t, "work")
    /\ UNCHANGED <<throws, results, item, started, joined, output>>

Work(t) ==
    /\ pc[t] = "work"
    /\ Goto(t, IF item[t] \in throws THEN "throwing" ELSE "add")
    /\ UNCHANGED <<throws, left, results, held, item, started, joined, output>>

(* addResult: push_back under the lock of the results, which is released   *)
(* again within the call.                                                  *)
AddResult(t) ==
    /\ pc[t] = "add"
    /\ results' = [results EXCEPT ![item[t]] = @ + 1]
    /\ Goto(t, "next")
    /\ UNCHANGED <<throws, left, held, item, started, joined, output>>

(* catch (std::exception&): whoever threw, the thread is done. *)
Catch(t) ==
    /\ pc[t] = "throwing"
    /\ Goto(t, "done")
    /\ UNCHANGED <<throws, left, results, held, item, started, joined, output>>

Caller == Start \/ Join \/ Return

Worker(t) ==
    Lock(t) \/ NoMore(t) \/ Take(t) \/ Pop(t) \/ Work(t) \/ AddResult(t) \/ Catch(t)

Next == Caller \/ \E t \in Threads : Worker(t)

Spec == Init /\ [][Next]_vars

(* The operating system runs the caller and every thread.  Nobody waits    *)
(* for the mutex for ever, because every turn of a loop takes an input.    *)
FairSpec == Spec /\ WF_vars(Caller) /\ \A t \in Threads : WF_vars(Worker(t))
-----------------------------------------------------------------------------
(***************************************************************************)
(* Properties.                                                             *)
(***************************************************************************)

(* A thread between reading the last input and adding its result. *)
Busy(t) == pc[t] \in {"pop", "work", "add"}

(* No input is worked on twice: no two threads have the same input in      *)
(* hand, an input in hand has given no result yet, one that is still in    *)
(* the vector is in no hand but that of the thread about to remove it, and *)
(* none gives two results.                                                 *)
EachInputOnce ==
    /\ \A t, u \in Threads : Busy(t) /\ Busy(u) /\ item[t] = item[u] => t = u
    /\ \A t \in Threads : Busy(t) => results[item[t]] = 0
    /\ \A t \in Threads : pc[t] \in {"work", "add"} => item[t] > left
    /\ \A i \in Positions : results[i] <= IF i <= left THEN 0 ELSE 1

(* While fewer inputs throw than there are threads, the exceptions that    *)
(* end threads lose no other input: what is returned holds the result of   *)
(* every input whose worker does not throw.                                *)
NothingLost ==
    returned /\ Cardinality(throws) < ThreadCount
        => \A i \in Positions : out[i] = IF i \in throws THEN 0 ELSE 1

(* getResults reads the vector without a lock; that is sound because no    *)
(* thread adds a result once all of them are joined.                       *)
ReturnedIsFinal == returned => out = results

(* parallel_for_each returns, whatever the workers throw. *)
Returns == <>returned
=============================================================================
