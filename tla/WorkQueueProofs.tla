--------------------------- MODULE WorkQueueProofs ---------------------------
(***************************************************************************)
(* Proofs about module WorkQueue, for every number of inputs and threads.  *)
(*                                                                         *)
(* That no input is worked on twice is not inductive by itself: it needs   *)
(* the lock (a thread between the size test and pop_back is its holder)    *)
(* and the position of every item relative to the end of the vector.  That *)
(* nothing is lost needs, on top, that the threads that ended early ended  *)
(* on different inputs, all of which throw: if inputs are left when every  *)
(* thread is done, at least ThreadCount inputs throw.                      *)
(***************************************************************************)
EXTENDS WorkQueue, FiniteSetTheorems, TLAPS

(* The thread that reads or shortens the vector holds the lock. *)
LockOK == \A t \in Threads : held = t <=> pc[t] \in {"check", "pop"}

(* An item in hand is the last of the vector, or was removed from it. *)
ItemsOK ==
    \A t \in Threads :
        /\ pc[t] = "pop" => left > 0 /\ item[t] = left
        /\ pc[t] \in {"work", "add"} =>
              item[t] \in Positions /\ item[t] > left /\ results[item[t]] = 0
        /\ pc[t] = "add" => item[t] \notin throws

(* While inputs are left, a thread stops only because its item throws. *)
Stopped(t) == pc[t] \in {"throwing", "done"} /\ left > 0

StoppedOK ==
    \A t \in Threads : Stopped(t) => item[t] \in throws /\ item[t] > left

Owns(t) == pc[t] \in {"work", "add"} \/ Stopped(t)

OwnersDiffer ==
    \A t, u \in Threads : Owns(t) /\ Owns(u) /\ item[t] = item[u] => t = u

(* A removed input has its result, throws, or is being worked on. *)
Accounted ==
    \A i \in Positions :
        i > left => \/ results[i] = 1
                    \/ i \in throws
                    \/ \E t \in Threads : pc[t] \in {"work", "add"} /\ item[t] = i

ResultsOK ==
    \A i \in Positions :
        /\ results[i] \in {0, 1}
        /\ i <= left \/ i \in throws => results[i] = 0

CallerOK ==
    /\ \A t \in Threads : pc[t] = "new" <=> t > started
    /\ joined > 0 => started = ThreadCount
    /\ \A t \in Threads : t <= joined => pc[t] = "done"
    /\ returned => joined = ThreadCount /\ out = results

IInv ==
    /\ TypeOK
    /\ LockOK
    /\ ItemsOK
    /\ StoppedOK
    /\ OwnersDiffer
    /\ Accounted
    /\ ResultsOK
    /\ CallerOK

USE DEF Positions, Threads, None
-----------------------------------------------------------------------------
LEMMA InitOK == ASSUME Init PROVE IInv
<1> USE CountAssumption
<1>1. TypeOK
  <2>1. Inputs \in 0 .. Inputs /\ 0 \in 0 .. ThreadCount
    OBVIOUS
  <2>2. results \in [Positions -> Nat] /\ out \in [Positions -> Nat]
    BY DEF Init
  <2> QED BY <2>1, <2>2 DEF Init, TypeOK
<1>2. LockOK /\ ItemsOK /\ StoppedOK /\ OwnersDiffer
  BY DEF Init, LockOK, ItemsOK, StoppedOK, Stopped, OwnersDiffer, Owns
<1>3. Accounted /\ ResultsOK /\ CallerOK
  BY DEF Init, Accounted, ResultsOK, CallerOK
<1> QED BY <1>1, <1>2, <1>3 DEF IInv

(* The caller touches no item and no result. *)
LEMMA StartOK == ASSUME IInv, Start PROVE IInv'
<1> USE CountAssumption DEF Start, Goto, output
<1> started + 1 \in Threads /\ pc[started + 1] = "new"
  BY DEF IInv, TypeOK, CallerOK
<1>1. TypeOK'
  BY DEF IInv, TypeOK
<1>2. \A t \in Threads : pc'[t] = IF t = started + 1 THEN "next" ELSE pc[t]
  BY DEF IInv, TypeOK
<1>3. LockOK'
  BY <1>2 DEF IInv, LockOK
<1>4. ItemsOK' /\ StoppedOK' /\ OwnersDiffer'
  BY <1>2 DEF IInv, ItemsOK, StoppedOK, Stopped, OwnersDiffer, Owns
<1>5. Accounted' /\ ResultsOK'
  BY <1>2 DEF IInv, Accounted, ResultsOK
<1>6. CallerOK'
  BY <1>2 DEF IInv, CallerOK, TypeOK
<1> QED BY <1>1, <1>3, <1>4, <1>5, <1>6 DEF IInv

LEMMA JoinOK == ASSUME IInv, Join \/ Return PROVE IInv'
<1> USE CountAssumption DEF Join, Return, output
<1>1. TypeOK'
  <2>1. CASE Join
    BY <2>1 DEF IInv, TypeOK
  <2>2. CASE Return
    BY <2>2 DEF IInv, TypeOK
  <2> QED BY <2>1, <2>2
<1>2. LockOK' /\ ItemsOK' /\ StoppedOK' /\ OwnersDiffer'
  BY DEF IInv, LockOK, ItemsOK, StoppedOK, Stopped, OwnersDiffer, Owns
<1>3. Accounted' /\ ResultsOK'
  BY DEF IInv, Accounted, ResultsOK
<1>4. CallerOK'
  BY DEF IInv, CallerOK, TypeOK
<1> QED BY <1>1, <1>2, <1>3, <1>4 DEF IInv
-----------------------------------------------------------------------------
(* What a step of thread t never does: move another thread, or join one.   *)
LEMMA OthersStay ==
    ASSUME IInv, NEW t \in Threads, Worker(t)
    PROVE  /\ \A u \in Threads \ {t} : pc'[u] = pc[u] /\ item'[u] = item[u]
           /\ pc[t] \notin {"new", "done"} /\ pc'[t] # "new"
           /\ UNCHANGED <<throws, started, joined, returned, out>>
  BY DEF IInv, TypeOK, Worker, Lock, NoMore, Take, Pop, Work, AddResult, Catch,
         Goto, output

(* Only a thread that is still running adds results, so the caller's view  *)
(* of the results stays right.                                             *)
LEMMA WorkerKeepsCaller ==
    ASSUME IInv, NEW t \in Threads, Worker(t)
    PROVE  CallerOK'
<1> USE CountAssumption
<1>1. ~returned
  BY OthersStay DEF IInv, CallerOK
<1> QED BY <1>1, OthersStay DEF IInv, CallerOK, TypeOK

LEMMA WorkerKeepsTypes ==
    ASSUME IInv, NEW t \in Threads, Worker(t)
    PROVE  TypeOK'
<1> USE CountAssumption DEF IInv, TypeOK, Goto, output
<1>1. CASE Lock(t) \/ NoMore(t) \/ Work(t) \/ Catch(t)
  BY <1>1 DEF Lock, NoMore, Work, Catch
<1>2. CASE Take(t)
  BY <1>2 DEF Take
<1>3. CASE Pop(t)
  BY <1>3 DEF Pop, ItemsOK
<1>4. CASE AddResult(t)
  <2>1. results[item[t]] \in Nat /\ item[t] \in Positions
    BY <1>4 DEF AddResult, ItemsOK
  <2>2. results' \in [Positions -> Nat]
    BY <1>4, <2>1 DEF AddResult
  <2>3. /\ pc' = [pc EXCEPT ![t] = "next"]
        /\ UNCHANGED <<throws, left, held, item, started, joined, returned, out>>
    BY <1>4 DEF AddResult
  <2> QED BY <2>2, <2>3
<1> QED BY <1>1, <1>2, <1>3, <1>4 DEF Worker

LEMMA WorkerKeepsLock ==
    ASSUME IInv, NEW t \in Threads, Worker(t)
    PROVE  LockOK'
<1> USE CountAssumption DEF IInv, TypeOK, LockOK, Goto
<1>1. CASE Lock(t)
  BY <1>1 DEF Lock
<1>2. CASE NoMore(t) \/ Pop(t)
  BY <1>2 DEF NoMore, Pop
<1>3. CASE Take(t) \/ Work(t) \/ AddResult(t) \/ Catch(t)
  BY <1>3 DEF Take, Work, AddResult, Catch
<1> QED BY <1>1, <1>2, <1>3 DEF Worker

LEMMA WorkerKeepsItems ==
    ASSUME IInv, NEW t \in Threads, Worker(t)
    PROVE  ItemsOK' /\ StoppedOK' /\ OwnersDiffer'
<1> USE CountAssumption DEF IInv, TypeOK, LockOK, ItemsOK, StoppedOK, Stopped,
                            OwnersDiffer, Owns, Goto
<1>1. CASE Lock(t)
  BY <1>1 DEF Lock
<1>2. CASE NoMore(t)
  BY <1>2 DEF NoMore
<1>3. CASE Take(t)
  BY <1>3 DEF Take
<1>5. CASE Pop(t)
  <2>1. /\ left' = left - 1 /\ left > 0 /\ item' = item
        /\ item[t] = left /\ results' = results /\ throws' = throws
        /\ \A u \in Threads : pc'[u] = IF u = t THEN "work" ELSE pc[u]
    BY <1>5 DEF Pop
  <2>2. \A u \in Threads \ {t} : pc[u] # "pop"
    BY <1>5 DEF Pop
  <2>3. results[left] = 0
    BY <2>1 DEF ResultsOK
  <2>4. ItemsOK'
    BY <2>1, <2>2, <2>3
  <2>5. StoppedOK'
    <3> SUFFICES ASSUME NEW u \in Threads, Stopped(u)'
                 PROVE  item'[u] \in throws' /\ item'[u] > left'
      OBVIOUS
    <3>1. Stopped(u) /\ left' < left
      BY <2>1
    <3>2. item[u] \in throws /\ item[u] > left /\ item[u] \in Int
      BY <3>1
    <3> QED BY <2>1, <3>1, <3>2
  <2>6. ASSUME NEW u \in Threads \ {t}, Owns(u)'
        PROVE  Owns(u) /\ item[u] > left
    <3>1. pc'[u] = pc[u] /\ left' < left
      BY <2>1
    <3>2. pc[u] \in {"work", "add"} \/ Stopped(u)
      BY <2>1, <2>6, <3>1
    <3> QED BY <3>2
  <2>7. OwnersDiffer'
    <3> SUFFICES ASSUME NEW u \in Threads, NEW w \in Threads, Owns(u)', Owns(w)',
                        item'[u] = item'[w], u # w
                 PROVE  FALSE
      OBVIOUS
    <3>1. CASE u # t /\ w # t
      BY <2>1, <2>6, <3>1
    <3>2. CASE u = t \/ w = t
      BY <2>1, <2>6, <3>2
    <3> QED BY <3>1, <3>2
  <2> QED BY <2>4, <2>5, <2>7
<1>6. CASE Work(t)
  BY <1>6 DEF Work
<1>7. CASE Catch(t)
  BY <1>7 DEF Catch
<1>4. CASE AddResult(t)
  BY <1>4 DEF AddResult
<1> QED BY <1>1, <1>2, <1>3, <1>4, <1>5, <1>6, <1>7 DEF Worker

LEMMA WorkerKeepsResults ==
    ASSUME IInv, NEW t \in Threads, Worker(t)
    PROVE  Accounted' /\ ResultsOK'
<1>0. \A u \in Threads \ {t} : pc'[u] = pc[u] /\ item'[u] = item[u]
  BY OthersStay
<1> USE CountAssumption DEF IInv, TypeOK, ItemsOK, Accounted, ResultsOK, Goto
<1>1. CASE Lock(t) \/ NoMore(t) \/ Take(t) \/ Catch(t)
  <2>1. /\ UNCHANGED <<left, results, throws>>
        /\ pc[t] \notin {"work", "add"}
    BY <1>1 DEF Lock, NoMore, Take, Catch
  <2>2. \A u \in Threads : pc[u] \in {"work", "add"} => pc'[u] = pc[u] /\ item'[u] = item[u]
    BY <1>0, <2>1
  <2>3. Accounted'
    <3> SUFFICES ASSUME NEW i \in Positions, i > left, results[i] # 1, i \notin throws
                 PROVE  \E u \in Threads : pc'[u] \in {"work", "add"} /\ item'[u] = i
      BY <2>1
    <3>1. PICK u \in Threads : pc[u] \in {"work", "add"} /\ item[u] = i
      OBVIOUS
    <3> QED BY <2>2, <3>1
  <2> QED BY <2>1, <2>3
<1>2. CASE Pop(t)
  BY <1>2 DEF Pop
<1>3. CASE Work(t)
  BY <1>3 DEF Work
<1>4. CASE AddResult(t)
  BY <1>4 DEF AddResult
<1> QED BY <1>1, <1>2, <1>3, <1>4 DEF Worker

THEOREM Invariance == Spec => []IInv
<1>1. Init => IInv
  BY InitOK
<1>2. IInv /\ [Next]_vars => IInv'
  <2> SUFFICES ASSUME IInv, [Next]_vars PROVE IInv'
    OBVIOUS
  <2>1. CASE Caller
    BY <2>1, StartOK, JoinOK DEF Caller
  <2>2. ASSUME NEW t \in Threads, Worker(t) PROVE IInv'
    BY <2>2, WorkerKeepsCaller, WorkerKeepsTypes, WorkerKeepsLock,
       WorkerKeepsItems, WorkerKeepsResults DEF IInv
  <2>3. CASE UNCHANGED vars
    BY <2>3 DEF vars, output, IInv, TypeOK, LockOK, ItemsOK, StoppedOK, Stopped,
                OwnersDiffer, Owns, Accounted, ResultsOK, CallerOK
  <2> QED BY <2>1, <2>2, <2>3 DEF Next
<1> QED BY <1>1, <1>2, PTL DEF Spec
-----------------------------------------------------------------------------
(* No input is worked on by two threads, or twice: the lock around size(), *)
(* back() and pop_back() suffices, whatever the schedule.                  *)
THEOREM WorkedOnOnce == Spec => []EachInputOnce
<1>1. IInv => EachInputOnce
  BY DEF IInv, TypeOK, LockOK, ItemsOK, ResultsOK, OwnersDiffer, Owns, Stopped,
         EachInputOnce, Busy
<1> QED BY <1>1, Invariance, PTL

(* The vector of results is not touched after the last join, so reading it *)
(* without its lock is sound.                                              *)
THEOREM ReturnedStays == Spec => []ReturnedIsFinal
<1>1. IInv => ReturnedIsFinal
  BY DEF IInv, CallerOK, ReturnedIsFinal
<1> QED BY <1>1, Invariance, PTL

LEMMA ThrowsFinite == ASSUME IInv PROVE IsFiniteSet(throws)
<1>1. IsFiniteSet(Positions)
  BY CountAssumption, FS_Interval
<1> QED BY <1>1, FS_Subset DEF IInv, TypeOK

(* If every thread is done and inputs are left, the items on which threads *)
(* ended are as many different inputs that throw.                          *)
LEMMA ManyThrow ==
    ASSUME IInv, left > 0, \A t \in Threads : pc[t] = "done"
    PROVE  Cardinality(throws) >= ThreadCount
<1> USE CountAssumption
<1>1. IsFiniteSet(Threads) /\ Cardinality(Threads) = ThreadCount
  BY FS_Interval
<1>2. IsFiniteSet(throws)
  BY ThrowsFinite
<1> DEFINE ended == [t \in Threads |-> item[t]]
<1>3. ended \in Injection(Threads, throws)
  BY DEF IInv, StoppedOK, Stopped, OwnersDiffer, Owns, Injection, IsInjective
<1> QED BY <1>1, <1>2, <1>3, FS_Injection DEF ExistsInjection

(* Fewer throwing inputs than threads: nothing is lost. *)
THEOREM NoResultMissing == Spec => []NothingLost
<1>1. IInv => NothingLost
  <2> SUFFICES ASSUME IInv, returned, Cardinality(throws) < ThreadCount,
                      NEW i \in Positions
               PROVE  out[i] = IF i \in throws THEN 0 ELSE 1
    BY DEF NothingLost
  <2> USE CountAssumption
  <2>1. \A t \in Threads : pc[t] = "done"
    BY DEF IInv, CallerOK
  <2>2. Cardinality(throws) \in Nat
    <3>1. IsFiniteSet(throws)
      BY ThrowsFinite
    <3> QED BY <3>1, FS_CardinalityType
  <2>3. left = 0
    BY <2>1, <2>2, ManyThrow DEF IInv, TypeOK
  <2>4. results[i] = 1 \/ i \in throws
    <3>1. i > left
      BY <2>3
    <3>2. \A t \in Threads : pc[t] \notin {"work", "add"}
      BY <2>1
    <3> QED BY <3>1, <3>2 DEF IInv, Accounted
  <2>5. i \in throws => results[i] = 0
    BY DEF IInv, ResultsOK
  <2> QED BY <2>4, <2>5 DEF IInv, CallerOK
<1> QED BY <1>1, Invariance, PTL
=============================================================================
