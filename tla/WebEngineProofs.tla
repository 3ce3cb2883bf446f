-------------------------- MODULE WebEngineProofs --------------------------
(***************************************************************************)
(* Every operation of the tab bookkeeping keeps its structures consistent, *)
(* whatever the tab ids: the lemmas the proofs about the shell rest on.    *)
(***************************************************************************)
EXTENDS WebEngine, SequenceTheorems, TLAPS

(* No tab is ever given the id NONE.  The adaptor's ids are natural        *)
(* numbers, so this is about the secret counter, which has to start at     *)
(* NONE or above.                                                          *)
NoneIsNoTab == NoTab \notin TabIds

(* The ids of secret tabs come from a counter that only grows. *)
CounterAhead(e) == \A t \in e.tabs["SECRET"] : t <= e.secretId

(* What the service must satisfy between two calls, and the part of it     *)
(* that does not depend on closed views being gone.                        *)
Consistent(e) ==
    /\ EngineTypeOK(e)
    /\ RecentListsTabs(e)
    /\ CurrentIsMostRecent(e)
    /\ ViewIsCurrent(e)
    /\ SignalsMatchFlag(e)
    /\ ListensToAView(e)
    /\ CounterAhead(e)

EngineOK(e) == Consistent(e) /\ NoGhosts(e)
-----------------------------------------------------------------------------
(***************************************************************************)
(* Lists without duplicates.                                               *)
(***************************************************************************)

(* What is left of a list when the element at p is gone. *)
LEMMA RemoveAtFacts ==
    ASSUME NEW S, NEW s \in Seq(S), NEW p \in 1 .. Len(s)
    PROVE  /\ RemoveAt(s, p) \in Seq(S)
           /\ Len(RemoveAt(s, p)) = Len(s) - 1
           /\ \A i \in 1 .. Len(s) - 1 :
                 RemoveAt(s, p)[i] = IF i < p THEN s[i] ELSE s[i + 1]
<1> DEFINE u == SubSeq(s, 1, p - 1)
           v == SubSeq(s, p + 1, Len(s))
<1>1. /\ u \in Seq(S) /\ Len(u) = p - 1
      /\ \A i \in 1 .. p - 1 : u[i] = s[i]
  <2>1. 1 \in 1 .. Len(s) + 1 /\ p - 1 \in 1 - 1 .. Len(s)
    OBVIOUS
  <2> QED BY <2>1, SubSeqProperties
<1>2. /\ v \in Seq(S) /\ Len(v) = Len(s) - p
      /\ \A i \in 1 .. Len(s) - p : v[i] = s[p + i]
  <2>1. p + 1 \in 1 .. Len(s) + 1 /\ Len(s) \in (p + 1) - 1 .. Len(s)
    OBVIOUS
  <2> QED BY <2>1, SubSeqProperties
<1> HIDE DEF u, v
<1>3. /\ u \o v \in Seq(S) /\ Len(u \o v) = Len(s) - 1
      /\ \A i \in 1 .. Len(s) - 1 :
            (u \o v)[i] = IF i <= p - 1 THEN u[i] ELSE v[i - (p - 1)]
  <2>1. Len(u) + Len(v) = Len(s) - 1
    BY <1>1, <1>2
  <2>2. /\ u \o v \in Seq(S) /\ Len(u \o v) = Len(u) + Len(v)
        /\ \A i \in 1 .. Len(u) + Len(v) :
              (u \o v)[i] = IF i <= Len(u) THEN u[i] ELSE v[i - Len(u)]
    BY <1>1, <1>2, ConcatProperties
  <2> QED BY <2>1, <2>2, <1>1
<1>4. RemoveAt(s, p) = u \o v
  BY DEF RemoveAt, u, v
<1>5. ASSUME NEW i \in 1 .. Len(s) - 1
      PROVE  (u \o v)[i] = IF i < p THEN s[i] ELSE s[i + 1]
  <2>1. CASE i < p
    BY <2>1, <1>1, <1>3
  <2>2. CASE ~(i < p)
    <3>1. i - (p - 1) \in 1 .. Len(s) - p /\ p + (i - (p - 1)) = i + 1
      BY <2>2
    <3>2. ~(i <= p - 1)
      BY <2>2
    <3>3. (u \o v)[i] = v[i - (p - 1)]
      BY <3>2, <1>3
    <3>4. v[i - (p - 1)] = s[p + (i - (p - 1))]
      BY <3>1, <1>2
    <3> QED BY <3>1, <3>3, <3>4, <2>2
  <2> QED BY <2>1, <2>2
<1> QED BY <1>3, <1>4, <1>5

(* Erasing t from a list that holds it once at most leaves the other       *)
(* elements, each once, and the last one in its place if it was not t.     *)
LEMMA WithoutFacts ==
    ASSUME NEW S, NEW s \in Seq(S), IsInjective(s), NEW t
    PROVE  /\ Without(s, t) \in Seq(S)
           /\ IsInjective(Without(s, t))
           /\ ToSet(Without(s, t)) = ToSet(s) \ {t}
           /\ s # <<>> /\ Last(s) # t
                 => Without(s, t) # <<>> /\ Last(Without(s, t)) = Last(s)
<1>1. CASE t \notin ToSet(s)
  BY <1>1 DEF Without, ToSet
<1>2. CASE t \in ToSet(s)
  <2> DEFINE p == CHOOSE p \in DOMAIN s : s[p] = t
             w == RemoveAt(s, p)
  <2>1. p \in 1 .. Len(s) /\ s[p] = t
    BY <1>2 DEF ToSet
  <2>2. /\ w \in Seq(S)
        /\ Len(w) = Len(s) - 1
        /\ \A i \in 1 .. Len(s) - 1 : w[i] = IF i < p THEN s[i] ELSE s[i + 1]
    BY <2>1, RemoveAtFacts
  <2>3. Without(s, t) = w
    BY <1>2 DEF Without
  <2> HIDE DEF p, w
  <2>4. \A i, j \in 1 .. Len(s) : s[i] = s[j] => i = j
    BY DEF IsInjective
  <2>5. IsInjective(w)
    BY <2>1, <2>2, <2>4 DEF IsInjective
  <2>6. ToSet(w) = ToSet(s) \ {t}
    <3>1. ASSUME NEW i \in 1 .. Len(s) - 1
          PROVE  w[i] \in ToSet(s) \ {t}
      BY <2>1, <2>2, <2>4 DEF ToSet
    <3>2. ASSUME NEW j \in 1 .. Len(s), s[j] # t
          PROVE  \E i \in 1 .. Len(s) - 1 : w[i] = s[j]
      <4>1. CASE j < p
        BY <4>1, <2>1, <2>2
      <4>2. CASE j > p
        <5>1. j - 1 \in 1 .. Len(s) - 1 /\ ~(j - 1 < p) /\ (j - 1) + 1 = j
          BY <4>2, <2>1
        <5> QED BY <5>1, <2>2
      <4> QED BY <4>1, <4>2, <3>2, <2>1
    <3>3. ToSet(w) = {w[i] : i \in 1 .. Len(s) - 1}
      BY <2>2 DEF ToSet
    <3>4. ToSet(s) = {s[i] : i \in 1 .. Len(s)}
      BY DEF ToSet
    <3>5. ToSet(w) \subseteq ToSet(s) \ {t}
      BY <3>1, <3>3
    <3>6. ASSUME NEW x \in ToSet(s), x # t
          PROVE  x \in ToSet(w)
      <4>1. PICK j \in 1 .. Len(s) : x = s[j]
        BY <3>4
      <4>2. s[j] # t
        BY <4>1, <3>6
      <4> QED BY <4>1, <4>2, <3>2, <3>3
    <3> QED BY <3>5, <3>6
  <2>7. ASSUME s # <<>>, Last(s) # t
        PROVE  w # <<>> /\ Last(w) = Last(s)
    <3>1. Len(s) >= 1 /\ p < Len(s)
      BY <2>7, <2>1 DEF Last
    <3>2. Len(s) - 1 >= 1 /\ ~(Len(s) - 1 < p)
      BY <3>1, <2>1
    <3> QED BY <3>1, <3>2, <2>2 DEF Last
  <2> QED BY <2>2, <2>3, <2>5, <2>6, <2>7
<1> QED BY <1>1, <1>2

(* Putting a new element at the end. *)
LEMMA AppendFacts ==
    ASSUME NEW S, NEW s \in Seq(S), IsInjective(s), NEW t \in S, t \notin ToSet(s)
    PROVE  /\ Append(s, t) \in Seq(S)
           /\ IsInjective(Append(s, t))
           /\ ToSet(Append(s, t)) = ToSet(s) \cup {t}
           /\ Append(s, t) # <<>>
           /\ Last(Append(s, t)) = t
<1> DEFINE a == Append(s, t)
<1>1. /\ a \in Seq(S)
      /\ Len(a) = Len(s) + 1
      /\ a[Len(s) + 1] = t
      /\ \A i \in 1 .. Len(s) : a[i] = s[i]
  OBVIOUS
<1> HIDE DEF a
<1>2. \A i \in 1 .. Len(s) : s[i] # t
  BY DEF ToSet
<1>3. IsInjective(a)
  BY <1>1, <1>2 DEF IsInjective
<1>4. ToSet(a) = ToSet(s) \cup {t}
  BY <1>1 DEF ToSet
<1>5. a # <<>> /\ Last(a) = t
  BY <1>1 DEF Last
<1> QED BY <1>1, <1>3, <1>4, <1>5 DEF a

(* An empty list is a list of nothing. *)
LEMMA EmptyList ==
    ASSUME NEW S, NEW s \in Seq(S)
    PROVE  /\ s = <<>> <=> ToSet(s) = {}
           /\ s # <<>> => Last(s) \in ToSet(s) /\ Last(s) \in S
  BY DEF ToSet, Last
-----------------------------------------------------------------------------
(***************************************************************************)
(* Suspending and resuming.                                                *)
(***************************************************************************)

(* e and f have the same tabs, in the same order, with the same current. *)
SameTabs(e, f) ==
    /\ f.mode = e.mode
    /\ f.tabs = e.tabs
    /\ f.mru = e.mru
    /\ f.cur = e.cur
    /\ f.view = e.view
    /\ f.origin = e.origin
    /\ f.secretId = e.secretId

(* f is what an operation in e's mode may make of e: it is right again,    *)
(* and the tabs of the other mode are what they were.                      *)
KeepsOther(e, f) ==
    /\ f.mode = e.mode
    /\ \A m \in Modes \ {e.mode} :
          /\ f.tabs[m] = e.tabs[m]
          /\ f.mru[m] = e.mru[m]
          /\ f.cur[m] = e.cur[m]

Follows(e, f) == EngineOK(f) /\ KeepsOther(e, f)

LEMMA FollowsReflexive ==
    ASSUME NEW e, EngineOK(e)
    PROVE  Follows(e, e)
  BY DEF Follows, KeepsOther

LEMMA FollowsTransitive ==
    ASSUME NEW e, NEW f, NEW g, Follows(e, f), Follows(f, g)
    PROVE  Follows(e, g)
  BY DEF Follows, KeepsOther

LEMMA SameTabsKeeps ==
    ASSUME NEW e, NEW f, SameTabs(e, f)
    PROVE  KeepsOther(e, f)
  BY DEF SameTabs, KeepsOther

(* Suspending touches no tab and leaves no view wired. *)
LEMMA SuspendFacts ==
    ASSUME NEW e \in EngineState, SignalsMatchFlag(e), ListensToAView(e)
    PROVE  /\ Suspend(e) \in EngineState
           /\ SameTabs(e, Suspend(e))
           /\ Suspend(e).awake \subseteq e.awake
           /\ ~Suspend(e).connected
           /\ Suspend(e).wired = {}
<1>1. CASE e.view = NoView
  BY <1>1 DEF Suspend, SameTabs, SignalsMatchFlag, ListensToAView, EngineState
<1>2. CASE e.view # NoView
  BY <1>2 DEF Suspend, Disconnect, SameTabs, SignalsMatchFlag, ListensToAView,
              EngineState
<1> QED BY <1>1, <1>2

(* Resuming touches no tab either, and keeps the flag right. *)
LEMMA ResumeFacts ==
    ASSUME NEW e \in EngineState, SignalsMatchFlag(e), ListensToAView(e)
    PROVE  /\ Resume(e) \in EngineState
           /\ SameTabs(e, Resume(e))
           /\ Resume(e).awake \subseteq e.awake \cup ({e.view} \ {NoView})
           /\ SignalsMatchFlag(Resume(e))
           /\ ListensToAView(Resume(e))
<1>1. CASE e.view = NoView
  BY <1>1 DEF Resume, SameTabs
<1>2. CASE e.view # NoView
  <2>1. e.view \in Views
    BY <1>2 DEF EngineState
  <2>2. e.wired \cup {e.view} = {e.view}
    BY DEF SignalsMatchFlag
  <2>3. e.connected => e.wired = {e.view}
    BY DEF SignalsMatchFlag
  <2> QED BY <1>2, <2>1, <2>2, <2>3
          DEF Resume, SameTabs, SignalsMatchFlag, ListensToAView, EngineState
<1> QED BY <1>1, <1>2

(* What Consistent says of tabs depends on the tabs only. *)
LEMMA SameTabsConsistent ==
    ASSUME NEW e \in EngineState, NEW f \in EngineState, Consistent(e),
           SameTabs(e, f), SignalsMatchFlag(f), ListensToAView(f)
    PROVE  Consistent(f)
  BY DEF Consistent, SameTabs, EngineTypeOK, RecentListsTabs,
         CurrentIsMostRecent, ViewIsCurrent, CounterAhead, Tabs, CurrentId

LEMMA SameTabsNoGhosts ==
    ASSUME NEW e, NEW f, NoGhosts(e), SameTabs(e, f), f.awake \subseteq Live(e)
    PROVE  NoGhosts(f)
  BY DEF NoGhosts, SameTabs, Live

(* In a consistent state the current view is a live one. *)
LEMMA CurrentIsLive ==
    ASSUME NEW e, Consistent(e), e.view # NoView
    PROVE  /\ e.view = <<e.mode, CurrentId(e)>>
           /\ CurrentId(e) \in Tabs(e)
           /\ e.view \in Live(e)
<1>1. e \in EngineState /\ e.mode \in Modes
  BY DEF Consistent, EngineTypeOK, EngineState
<1>2. e.view = <<e.mode, CurrentId(e)>> /\ Tabs(e) # {}
  BY DEF Consistent, ViewIsCurrent
<1>3. e.mru[e.mode] \in Seq(TabIds) /\ ToSet(e.mru[e.mode]) = Tabs(e)
  BY <1>1 DEF Consistent, RecentListsTabs, EngineState, Tabs
<1>4. CurrentId(e) = Last(e.mru[e.mode])
  BY <1>1, <1>2, <1>3, EmptyList DEF Consistent, CurrentIsMostRecent, CurrentId
<1>5. CurrentId(e) \in Tabs(e) /\ CurrentId(e) \in TabIds
  BY <1>2, <1>3, <1>4, EmptyList
<1> QED BY <1>1, <1>2, <1>5 DEF Live, Views, Tabs

LEMMA SuspendOK ==
    ASSUME NEW e, EngineOK(e)
    PROVE  Follows(e, Suspend(e)) /\ Suspend(e).tabs = e.tabs
<1>1. e \in EngineState /\ SignalsMatchFlag(e) /\ ListensToAView(e)
  BY DEF EngineOK, Consistent, EngineTypeOK
<1>2. SignalsMatchFlag(Suspend(e)) /\ ListensToAView(Suspend(e))
  BY <1>1, SuspendFacts DEF SignalsMatchFlag, ListensToAView
<1>3. Consistent(Suspend(e))
  BY <1>1, <1>2, SuspendFacts, SameTabsConsistent DEF EngineOK
<1>4. Suspend(e).awake \subseteq Live(e)
  BY <1>1, SuspendFacts DEF EngineOK, NoGhosts
<1>5. NoGhosts(Suspend(e))
  BY <1>1, <1>4, SuspendFacts, SameTabsNoGhosts DEF EngineOK
<1>6. SameTabs(e, Suspend(e)) /\ Suspend(e).tabs = e.tabs
  BY <1>1, SuspendFacts DEF SameTabs
<1> QED BY <1>3, <1>5, <1>6, SameTabsKeeps DEF EngineOK, Follows

LEMMA ResumeOK ==
    ASSUME NEW e, EngineOK(e)
    PROVE  Follows(e, Resume(e)) /\ Resume(e).tabs = e.tabs
<1>1. e \in EngineState /\ SignalsMatchFlag(e) /\ ListensToAView(e)
  BY DEF EngineOK, Consistent, EngineTypeOK
<1>2. Consistent(Resume(e))
  BY <1>1, ResumeFacts, SameTabsConsistent DEF EngineOK
<1>3. Resume(e).awake \subseteq Live(e)
  BY <1>1, ResumeFacts, CurrentIsLive DEF EngineOK, NoGhosts
<1>4. NoGhosts(Resume(e))
  BY <1>1, <1>3, ResumeFacts, SameTabsNoGhosts DEF EngineOK
<1>5. SameTabs(e, Resume(e)) /\ Resume(e).tabs = e.tabs
  BY <1>1, ResumeFacts DEF SameTabs
<1> QED BY <1>2, <1>4, <1>5, SameTabsKeeps DEF EngineOK, Follows

LEMMA ResumeIfSuspendedOK ==
    ASSUME NEW e, EngineOK(e)
    PROVE  Follows(e, ResumeIfSuspended(e))
  BY ResumeOK, FollowsReflexive DEF ResumeIfSuspended

LEMMA NewEngineOK ==
    ASSUME NEW seed \in SecretSeeds
    PROVE  EngineOK(NewEngine(seed))
<1> DEFINE e == NewEngine(seed)
<1>1. <<>> \in Seq(TabIds) /\ ToSet(<<>>) = {} /\ IsInjective(<<>>)
  BY DEF ToSet, IsInjective
<1>2. e \in EngineState
  BY <1>1, IdAssumption DEF NewEngine, EngineState, Modes, Origins, NoView
<1> QED BY <1>1, <1>2
        DEF NewEngine, EngineOK, Consistent, EngineTypeOK, RecentListsTabs,
            CurrentIsMostRecent, ViewIsCurrent, SignalsMatchFlag, ListensToAView,
            NoGhosts, CounterAhead, Tabs, Modes
-----------------------------------------------------------------------------
(***************************************************************************)
(* Choosing, creating and closing tabs.                                    *)
(***************************************************************************)

(* What switching to t needs of the structures: those of the current mode  *)
(* may miss t in mostRecentTab, or have a current id that is gone.         *)
Ready(e, t) ==
    /\ EngineTypeOK(e)
    /\ SignalsMatchFlag(e)
    /\ ListensToAView(e)
    /\ CounterAhead(e)
    /\ \A m \in Modes : IsInjective(e.mru[m])
    /\ \A m \in Modes \ {e.mode} :
          /\ ToSet(e.mru[m]) = e.tabs[m]
          /\ e.cur[m] = IF e.mru[m] = <<>> THEN NoTab ELSE Last(e.mru[m])
    /\ t \in Tabs(e)
    /\ ToSet(e.mru[e.mode]) \cup {t} = Tabs(e)

LEMMA MakeCurrentFacts ==
    ASSUME NEW e, NEW t, Ready(e, t)
    PROVE  /\ Consistent(MakeCurrent(e, t))
           /\ KeepsOther(e, MakeCurrent(e, t))
           /\ MakeCurrent(e, t).mode = e.mode
           /\ MakeCurrent(e, t).tabs = e.tabs
           /\ MakeCurrent(e, t).origin = e.origin
           /\ MakeCurrent(e, t).awake \subseteq e.awake
<1> DEFINE s == Suspend(e)
           f == MakeCurrent(e, t)
           l == Append(Without(e.mru[e.mode], t), t)
<1>1. /\ e \in EngineState /\ e.mode \in Modes /\ t \in TabIds
      /\ e.mru[e.mode] \in Seq(TabIds)
  BY DEF Ready, EngineTypeOK, EngineState, Tabs
<1>2. /\ s \in EngineState /\ SameTabs(e, s) /\ s.awake \subseteq e.awake
      /\ ~s.connected /\ s.wired = {}
  BY <1>1, SuspendFacts DEF Ready
<1>3. /\ Without(e.mru[e.mode], t) \in Seq(TabIds)
      /\ IsInjective(Without(e.mru[e.mode], t))
      /\ ToSet(Without(e.mru[e.mode], t)) = ToSet(e.mru[e.mode]) \ {t}
  BY <1>1, WithoutFacts DEF Ready
<1>4. /\ l \in Seq(TabIds) /\ IsInjective(l) /\ l # <<>> /\ Last(l) = t
      /\ ToSet(l) = Tabs(e)
  <2>1. t \notin ToSet(Without(e.mru[e.mode], t))
    BY <1>3
  <2>2. /\ l \in Seq(TabIds) /\ IsInjective(l) /\ l # <<>> /\ Last(l) = t
        /\ ToSet(l) = (ToSet(e.mru[e.mode]) \ {t}) \cup {t}
    BY <1>1, <1>3, <2>1, AppendFacts
  <2> QED BY <2>2 DEF Ready
<1> HIDE DEF s, l
<1>5. f = [s EXCEPT !.view = <<e.mode, t>>, !.cur[e.mode] = t, !.mru[e.mode] = l]
  BY <1>2 DEF MakeCurrent, SameTabs, s, l
<1> HIDE DEF f
<1>6. <<e.mode, t>> \in Views /\ <<e.mode, t>> # NoView
  BY <1>1 DEF Views, NoView, Modes
<1>7. /\ f \in EngineState
      /\ f.mode = e.mode /\ f.tabs = e.tabs /\ f.origin = e.origin
      /\ f.secretId = e.secretId
      /\ f.view = <<e.mode, t>> /\ f.awake = s.awake
      /\ ~f.connected /\ f.wired = {}
      /\ f.cur = [e.cur EXCEPT ![e.mode] = t]
      /\ f.mru = [e.mru EXCEPT ![e.mode] = l]
  BY <1>1, <1>2, <1>4, <1>5, <1>6 DEF EngineState, SameTabs
<1>8. e.mru \in [Modes -> Seq(TabIds)] /\ e.cur \in [Modes -> TabIds \cup {NoTab}]
  BY <1>1 DEF EngineState
<1>9. RecentListsTabs(f)
  BY <1>1, <1>4, <1>7, <1>8 DEF RecentListsTabs, Ready, Tabs
<1>10. CurrentIsMostRecent(f)
  BY <1>1, <1>4, <1>7, <1>8 DEF CurrentIsMostRecent, Ready
<1>11. ViewIsCurrent(f)
  BY <1>1, <1>7, <1>8 DEF ViewIsCurrent, Ready, Tabs, CurrentId
<1>12. SignalsMatchFlag(f) /\ ListensToAView(f) /\ CounterAhead(f)
  BY <1>7 DEF SignalsMatchFlag, ListensToAView, CounterAhead, Ready
<1>13. KeepsOther(e, f)
  BY <1>7, <1>8 DEF KeepsOther
<1> QED BY <1>2, <1>7, <1>9, <1>10, <1>11, <1>12, <1>13
        DEF Consistent, EngineTypeOK, f

LEMMA ResumeConsistent ==
    ASSUME NEW e, Consistent(e)
    PROVE  /\ Consistent(Resume(e))
           /\ SameTabs(e, Resume(e))
           /\ Resume(e).awake \subseteq e.awake \cup Live(e)
<1>1. e \in EngineState /\ SignalsMatchFlag(e) /\ ListensToAView(e)
  BY DEF Consistent, EngineTypeOK
<1> QED BY <1>1, ResumeFacts, SameTabsConsistent, CurrentIsLive

(* Switching to a tab that needs to be made current. *)
LEMMA MakeCurrentOK ==
    ASSUME NEW e, NEW t, Ready(e, t), NoGhosts(e)
    PROVE  /\ Follows(e, Resume(MakeCurrent(e, t)))
           /\ Resume(MakeCurrent(e, t)).tabs = e.tabs
<1> DEFINE f == MakeCurrent(e, t)
<1>1. /\ Consistent(f) /\ f.mode = e.mode /\ f.tabs = e.tabs
      /\ f.origin = e.origin /\ f.awake \subseteq e.awake
      /\ KeepsOther(e, f)
  BY MakeCurrentFacts
<1> HIDE DEF f
<1>2. NoGhosts(f)
  BY <1>1 DEF NoGhosts, Live
<1>3. EngineOK(f) /\ Follows(e, f)
  BY <1>1, <1>2 DEF EngineOK, Follows
<1> QED BY <1>1, <1>3, ResumeOK, FollowsTransitive DEF f

(* A consistent engine is ready to switch to any of its tabs. *)
LEMMA ConsistentReady ==
    ASSUME NEW e, Consistent(e), NEW t \in Tabs(e)
    PROVE  Ready(e, t)
<1>1. e.mode \in Modes
  BY DEF Consistent, EngineTypeOK, EngineState
<1> QED BY <1>1 DEF Consistent, Ready, RecentListsTabs, CurrentIsMostRecent, Tabs

LEMMA SwitchOK ==
    ASSUME NEW e, EngineOK(e), NEW t
    PROVE  Follows(e, SwitchToTab(e, t)) /\ SwitchToTab(e, t).tabs = e.tabs
<1>1. CASE t \notin Tabs(e)
  BY <1>1, FollowsReflexive DEF SwitchToTab
<1>2. CASE t \in Tabs(e) /\ t = CurrentId(e)
  BY <1>2, ResumeOK DEF SwitchToTab
<1>3. CASE t \in Tabs(e) /\ t # CurrentId(e)
  <2>1. Ready(e, t)
    BY <1>3, ConsistentReady DEF EngineOK
  <2>2. /\ Follows(e, Resume(MakeCurrent(e, t)))
        /\ Resume(MakeCurrent(e, t)).tabs = e.tabs
    BY <2>1, MakeCurrentOK DEF EngineOK
  <2> QED BY <1>3, <2>2 DEF SwitchToTab
<1> QED BY <1>1, <1>2, <1>3

(* An id that is not in use is not the current id, NONE or not. *)
LEMMA NewIsNotCurrent ==
    ASSUME NoneIsNoTab, NEW e, EngineOK(e), NEW t \in TabIds \ Tabs(e)
    PROVE  t # CurrentId(e)
<1>1. e \in EngineState /\ e.mode \in Modes /\ Consistent(e)
  BY DEF EngineOK, Consistent, EngineTypeOK, EngineState
<1>2. CASE Tabs(e) = {}
  <2>1. e.mru[e.mode] \in Seq(TabIds) /\ ToSet(e.mru[e.mode]) = {}
    BY <1>1, <1>2 DEF Consistent, RecentListsTabs, Tabs, EngineState
  <2>2. e.mru[e.mode] = <<>>
    BY <2>1, EmptyList
  <2>3. e.cur[e.mode] = NoTab
    BY <1>1, <2>2 DEF Consistent, CurrentIsMostRecent
  <2> QED BY <2>3 DEF NoneIsNoTab, CurrentId
<1>3. CASE Tabs(e) # {}
  <2>1. e.view = <<e.mode, CurrentId(e)>> /\ e.view # NoView
    BY <1>1, <1>3 DEF Consistent, ViewIsCurrent, NoView, Modes
  <2> QED BY <1>1, <2>1, CurrentIsLive
<1> QED BY <1>2, <1>3

(* The id a new tab gets is not in use. *)
LEMMA NewIdsFacts ==
    ASSUME NEW e, EngineOK(e), NEW t \in NewIds(e)
    PROVE  /\ t \in TabIds \ Tabs(e)
           /\ e.mode = "SECRET" => t = e.secretId + 1
<1>1. /\ e \in EngineState /\ e.mode \in Modes /\ CounterAhead(e)
      /\ e.tabs["SECRET"] \subseteq Int /\ e.secretId \in Int
  BY IdAssumption DEF EngineOK, Consistent, EngineTypeOK, EngineState, Modes
<1>2. CASE e.mode = "NORMAL"
  BY <1>1, <1>2, IdAssumption DEF NewIds, Tabs
<1>3. CASE e.mode # "NORMAL"
  <2>1. e.mode = "SECRET"
    BY <1>1, <1>3 DEF Modes
  <2>2. t = e.secretId + 1 /\ t \in TabIds
    BY <1>3 DEF NewIds
  <2>3. ~(t <= e.secretId)
    BY <1>1, <2>2
  <2> QED BY <1>1, <2>1, <2>2, <2>3 DEF CounterAhead, Tabs
<1> QED BY <1>2, <1>3

(* A new tab that is switched to at once. *)
LEMMA OpenOK ==
    ASSUME NoneIsNoTab, NEW e, EngineOK(e),
           NEW t \in TabIds \ Tabs(e), NEW o \in Origins,
           e.mode = "SECRET" => t = e.secretId + 1
    PROVE  /\ Follows(e, SwitchToTab(AddTab(e, t, o), t))
           /\ SwitchToTab(AddTab(e, t, o), t).tabs
                 = [e.tabs EXCEPT ![e.mode] = @ \cup {t}]
<1> DEFINE g == AddTab(e, t, o)
           v == <<e.mode, t>>
<1>1. e \in EngineState /\ e.mode \in Modes /\ Consistent(e) /\ NoGhosts(e)
  BY DEF EngineOK, Consistent, EngineTypeOK, EngineState
<1>2. v \in Views
  BY <1>1 DEF Views
<1>3. /\ g \in EngineState
      /\ g.mode = e.mode /\ g.mru = e.mru /\ g.cur = e.cur /\ g.view = e.view
      /\ g.connected = e.connected /\ g.wired = e.wired
      /\ g.tabs = [e.tabs EXCEPT ![e.mode] = @ \cup {t}]
      /\ g.awake = e.awake \cup {v}
      /\ g.origin = [e.origin EXCEPT ![v] = o]
      /\ g.secretId = IF e.mode = "SECRET" THEN t ELSE e.secretId
  BY <1>1, <1>2, IdAssumption DEF AddTab, EngineState
<1> HIDE DEF g
<1>4. e.tabs \in [Modes -> SUBSET TabIds] /\ e.origin \in [Views -> Origins]
  BY <1>1 DEF EngineState
<1>5. Tabs(g) = Tabs(e) \cup {t}
  BY <1>1, <1>3, <1>4 DEF Tabs
<1>6. SignalsMatchFlag(g) /\ ListensToAView(g)
  BY <1>1, <1>3 DEF Consistent, SignalsMatchFlag, ListensToAView
<1>7. \A m \in Modes : IsInjective(g.mru[m])
  BY <1>1, <1>3 DEF Consistent, RecentListsTabs
<1>8. \A m \in Modes \ {g.mode} :
          /\ ToSet(g.mru[m]) = g.tabs[m]
          /\ g.cur[m] = IF g.mru[m] = <<>> THEN NoTab ELSE Last(g.mru[m])
  BY <1>1, <1>3, <1>4 DEF Consistent, RecentListsTabs, CurrentIsMostRecent
<1>9. ToSet(g.mru[g.mode]) \cup {t} = Tabs(g)
  BY <1>1, <1>3, <1>5 DEF Consistent, RecentListsTabs, Tabs
<1>10. Ready(g, t)
  <2>1. CounterAhead(g)
    <3>1. e.secretId \in Int /\ t \in Int /\ e.tabs["SECRET"] \subseteq Int
      BY <1>1, <1>4, IdAssumption DEF EngineState, Modes
    <3>2. \A x \in e.tabs["SECRET"] : x <= e.secretId
      BY <1>1 DEF Consistent, CounterAhead
    <3>3. CASE e.mode = "SECRET"
      <4>1. g.tabs["SECRET"] = e.tabs["SECRET"] \cup {t} /\ g.secretId = e.secretId + 1
        BY <1>3, <1>4, <3>3 DEF Modes
      <4> QED BY <3>1, <3>2, <3>3, <4>1 DEF CounterAhead
    <3>4. CASE e.mode # "SECRET"
      <4>1. g.tabs["SECRET"] = e.tabs["SECRET"] /\ g.secretId = e.secretId
        BY <1>1, <1>3, <1>4, <3>4 DEF Modes
      <4> QED BY <3>2, <4>1 DEF CounterAhead
    <3> QED BY <3>3, <3>4
  <2> QED BY <1>3, <1>5, <1>6, <1>7, <1>8, <1>9, <2>1 DEF Ready, EngineTypeOK
<1>11. Live(g) = Live(e) \cup {v}
  BY <1>1, <1>2, <1>3, <1>4 DEF Live, Views
<1>12. NoGhosts(g)
  <2>1. g.awake \subseteq Live(g)
    BY <1>1, <1>3, <1>11 DEF NoGhosts
  <2>2. ASSUME NEW w \in Views \ Live(g)
        PROVE  g.origin[w] = Unknown
    BY <1>1, <1>3, <1>4, <1>11 DEF NoGhosts
  <2> QED BY <2>1, <2>2 DEF NoGhosts
<1>13. t # CurrentId(g)
  BY <1>1, <1>3, NewIsNotCurrent DEF CurrentId
<1>14. Follows(g, Resume(MakeCurrent(g, t))) /\ Resume(MakeCurrent(g, t)).tabs = g.tabs
  BY <1>10, <1>12, MakeCurrentOK
<1>15. SwitchToTab(g, t) = Resume(MakeCurrent(g, t))
  BY <1>5, <1>13 DEF SwitchToTab
<1>16. KeepsOther(e, g)
  BY <1>3, <1>4 DEF KeepsOther
<1>17. Follows(e, SwitchToTab(g, t))
  BY <1>14, <1>15, <1>16 DEF Follows, KeepsOther
<1> QED BY <1>3, <1>14, <1>15, <1>17 DEF g

(* Forgetting the closed views is what makes a consistent engine right. *)
LEMMA ReapOK ==
    ASSUME NEW e, Consistent(e)
    PROVE  Follows(e, Reap(e))
<1> DEFINE f == Reap(e)
<1>1. e \in EngineState /\ SignalsMatchFlag(e) /\ ListensToAView(e)
  BY DEF Consistent, EngineTypeOK
<1>2. e.wired \subseteq Live(e)
  BY <1>1, CurrentIsLive DEF SignalsMatchFlag, ListensToAView
<1>3. /\ f \in EngineState
      /\ f.mode = e.mode /\ f.tabs = e.tabs /\ f.mru = e.mru /\ f.cur = e.cur
      /\ f.view = e.view /\ f.connected = e.connected /\ f.wired = e.wired
      /\ f.secretId = e.secretId
      /\ f.awake = e.awake \cap Live(e)
      /\ \A w \in Views \ Live(e) : f.origin[w] = Unknown
  BY <1>1, <1>2 DEF Reap, EngineState, Origins
<1> HIDE DEF f
<1>4. Consistent(f)
  BY <1>1, <1>3 DEF Consistent, EngineTypeOK, RecentListsTabs, CurrentIsMostRecent,
     ViewIsCurrent, SignalsMatchFlag, ListensToAView, CounterAhead, Tabs, CurrentId
<1>5. NoGhosts(f)
  BY <1>3 DEF NoGhosts, Live
<1> QED BY <1>3, <1>4, <1>5 DEF EngineOK, Follows, KeepsOther, f

(* Closing any id: the current tab, another one, or one that is not open.  *)
LEMMA CloseOK ==
    ASSUME NEW e, EngineOK(e), NEW t
    PROVE  Follows(e, CloseTab(e, t))
<1> DEFINE r == Forget(e, t)
           l == r.mru[e.mode]
           closed == [Disconnect(r) EXCEPT !.cur[e.mode] = NoTab, !.view = NoView]
           next == IF Tabs(r) = {}
                   THEN closed
                   ELSE IF t = CurrentId(e) /\ l # <<>>
                        THEN SwitchToTab(r, Last(l))
                        ELSE r
<1>1. e \in EngineState /\ e.mode \in Modes /\ Consistent(e)
  BY DEF EngineOK, Consistent, EngineTypeOK, EngineState
<1>2. /\ e.tabs \in [Modes -> SUBSET TabIds] /\ e.mru \in [Modes -> Seq(TabIds)]
      /\ e.cur \in [Modes -> TabIds \cup {NoTab}]
  BY <1>1 DEF EngineState
<1>3. /\ e.mru[e.mode] \in Seq(TabIds) /\ IsInjective(e.mru[e.mode])
      /\ ToSet(e.mru[e.mode]) = Tabs(e)
  BY <1>1, <1>2 DEF Consistent, RecentListsTabs, Tabs
<1> DEFINE w == Without(e.mru[e.mode], t)
<1>4. /\ w \in Seq(TabIds) /\ IsInjective(w) /\ ToSet(w) = Tabs(e) \ {t}
      /\ e.mru[e.mode] # <<>> /\ Last(e.mru[e.mode]) # t
            => w # <<>> /\ Last(w) = Last(e.mru[e.mode])
  BY <1>3, WithoutFacts
<1> HIDE DEF w
<1>5. /\ r \in EngineState
      /\ r.mode = e.mode /\ r.cur = e.cur /\ r.view = e.view
      /\ r.connected = e.connected /\ r.wired = e.wired
      /\ r.secretId = e.secretId
      /\ r.tabs = [e.tabs EXCEPT ![e.mode] = @ \ {t}]
      /\ r.mru = [e.mru EXCEPT ![e.mode] = w]
  BY <1>1, <1>4 DEF Forget, EngineState, w
<1> HIDE DEF r
<1>6. Tabs(r) = Tabs(e) \ {t} /\ l = w /\ CurrentId(r) = CurrentId(e)
  BY <1>1, <1>2, <1>5 DEF Tabs, CurrentId
<1>7. SignalsMatchFlag(r) /\ ListensToAView(r) /\ CounterAhead(r)
  <2>1. SignalsMatchFlag(r) /\ ListensToAView(r)
    BY <1>1, <1>5 DEF Consistent, SignalsMatchFlag, ListensToAView
  <2>2. r.tabs["SECRET"] \subseteq e.tabs["SECRET"]
    BY <1>2, <1>5 DEF Modes
  <2> QED BY <1>1, <1>5, <2>1, <2>2 DEF Consistent, CounterAhead
<1>8. \A m \in Modes \ {e.mode} :
          /\ ToSet(r.mru[m]) = r.tabs[m]
          /\ r.cur[m] = IF r.mru[m] = <<>> THEN NoTab ELSE Last(r.mru[m])
  BY <1>1, <1>2, <1>5 DEF Consistent, RecentListsTabs, CurrentIsMostRecent
<1>9. \A m \in Modes : IsInjective(r.mru[m])
  BY <1>1, <1>2, <1>4, <1>5 DEF Consistent, RecentListsTabs
<1>10. RecentListsTabs(r)
  BY <1>4, <1>5, <1>6, <1>8, <1>9 DEF RecentListsTabs, Tabs
<1>11. KeepsOther(e, r)
  BY <1>2, <1>5 DEF KeepsOther
<1>12. ASSUME NEW f, Consistent(f), KeepsOther(r, f)
       PROVE  Follows(e, Reap(f)) /\ Follows(e, e)
  BY <1>11, <1>12, ReapOK, FollowsReflexive DEF Follows, KeepsOther
<1>13. CASE Tabs(r) = {}
  <2>1. w = <<>>
    BY <1>4, <1>6, <1>13, EmptyList
  <2>2. /\ closed \in EngineState
        /\ closed.mode = e.mode /\ closed.tabs = r.tabs /\ closed.mru = r.mru
        /\ closed.cur = [e.cur EXCEPT ![e.mode] = NoTab]
        /\ closed.view = NoView /\ ~closed.connected
        /\ closed.wired = {} /\ closed.secretId = r.secretId
    BY <1>1, <1>5, <1>7 DEF Disconnect, EngineState, SignalsMatchFlag
  <2> HIDE DEF closed
  <2>3. RecentListsTabs(closed)
    BY <1>10, <2>2 DEF RecentListsTabs
  <2>4. CurrentIsMostRecent(closed)
    BY <1>1, <1>2, <1>5, <1>6, <1>8, <2>1, <2>2 DEF CurrentIsMostRecent
  <2>5. /\ ViewIsCurrent(closed) /\ SignalsMatchFlag(closed) /\ ListensToAView(closed)
        /\ CounterAhead(closed)
    BY <1>5, <1>7, <1>13, <2>2
       DEF ViewIsCurrent, SignalsMatchFlag, ListensToAView, CounterAhead, Tabs
  <2>6. Consistent(closed)
    BY <2>2, <2>3, <2>4, <2>5 DEF Consistent, EngineTypeOK
  <2>7. KeepsOther(r, closed)
    BY <1>2, <1>5, <2>2 DEF KeepsOther
  <2> QED BY <1>13, <1>12, <2>6, <2>7 DEF CloseTab, r, closed
<1>14. CASE Tabs(r) # {} /\ t = CurrentId(e)
  <2>1. w # <<>> /\ Last(w) \in Tabs(r)
    BY <1>4, <1>6, <1>14, EmptyList
  <2>2. Last(w) # CurrentId(r)
    BY <1>6, <1>14, <2>1
  <2>3. ToSet(r.mru[r.mode]) \cup {Last(w)} = Tabs(r)
    BY <1>4, <1>5, <1>6, <2>1
  <2>4. Ready(r, Last(w))
    BY <1>5, <1>7, <1>8, <1>9, <2>1, <2>3 DEF Ready, EngineTypeOK
  <2> DEFINE c == MakeCurrent(r, Last(w))
  <2>5. /\ Consistent(c) /\ KeepsOther(r, c)
        /\ Consistent(Resume(c)) /\ SameTabs(c, Resume(c))
    BY <2>4, MakeCurrentFacts, ResumeConsistent
  <2>6. SwitchToTab(r, Last(w)) = Resume(c)
    BY <2>1, <2>2 DEF SwitchToTab
  <2> HIDE DEF c
  <2>7. KeepsOther(r, Resume(c))
    BY <2>5 DEF SameTabs, KeepsOther
  <2> QED BY <1>6, <1>14, <1>12, <2>1, <2>5, <2>6, <2>7 DEF CloseTab, r
<1>15. CASE Tabs(r) # {} /\ t # CurrentId(e)
  <2>1. e.mru[e.mode] # <<>>
    BY <1>3, <1>6, <1>15, EmptyList
  <2>2. CurrentId(e) = Last(e.mru[e.mode])
    BY <1>1, <2>1 DEF Consistent, CurrentIsMostRecent, CurrentId
  <2>3. w # <<>> /\ Last(w) = CurrentId(r)
    BY <1>4, <1>6, <1>15, <2>1, <2>2
  <2>4. CurrentIsMostRecent(r)
    BY <1>5, <1>6, <1>8, <2>3 DEF CurrentIsMostRecent, CurrentId
  <2>5. ViewIsCurrent(r)
    BY <1>1, <1>5, <1>6, <1>15 DEF ViewIsCurrent, Consistent
  <2>6. Consistent(r)
    BY <1>5, <1>7, <1>10, <2>4, <2>5 DEF Consistent, EngineTypeOK
  <2>7. KeepsOther(r, r)
    BY DEF KeepsOther
  <2> QED BY <1>15, <1>12, <2>6, <2>7 DEF CloseTab, r
<1> QED BY <1>13, <1>14, <1>15

(* Changing the mode suspends the page and leaves every tab where it is.   *)
LEMMA ChangeStateOK ==
    ASSUME NEW e, EngineOK(e)
    PROVE  /\ EngineOK(ChangeState(e))
           /\ ChangeState(e).tabs = e.tabs
           /\ ChangeState(e).mru = e.mru
           /\ ChangeState(e).cur = e.cur
<1> DEFINE s == Suspend(e)
           m == Other(e.mode)
           c == ChangeState(e)
<1>1. e \in EngineState /\ e.mode \in Modes /\ Consistent(e) /\ NoGhosts(e)
  BY DEF EngineOK, Consistent, EngineTypeOK, EngineState
<1>2. /\ s \in EngineState /\ SameTabs(e, s) /\ s.awake \subseteq e.awake
      /\ ~s.connected /\ s.wired = {}
  BY <1>1, SuspendFacts DEF Consistent
<1> HIDE DEF s
<1>3. m \in Modes
  BY DEF Other, Modes
<1>4. e.tabs[m] # {} => e.cur[m] \in e.tabs[m] /\ e.cur[m] \in TabIds
  <2>1. e.mru[m] \in Seq(TabIds) /\ ToSet(e.mru[m]) = e.tabs[m]
    BY <1>1, <1>3 DEF Consistent, RecentListsTabs, EngineState
  <2> QED BY <1>1, <1>3, <2>1, EmptyList DEF Consistent, CurrentIsMostRecent
<1>5. c = IF s.tabs[m] = {}
          THEN [s EXCEPT !.mode = m, !.view = NoView]
          ELSE [s EXCEPT !.mode = m, !.view = <<m, s.cur[m]>>,
                         !.tabs[m] = @ \cup {s.cur[m]}]
  BY DEF ChangeState, s
<1> HIDE DEF m, c
<1>6. /\ c \in EngineState
      /\ c.mode = m /\ c.tabs = e.tabs /\ c.mru = e.mru /\ c.cur = e.cur
      /\ c.origin = e.origin /\ c.awake = s.awake /\ c.secretId = e.secretId
      /\ ~c.connected /\ c.wired = {}
      /\ c.view = IF e.tabs[m] = {} THEN NoView ELSE <<m, e.cur[m]>>
  <2>1. CASE e.tabs[m] = {}
    BY <1>2, <1>3, <1>5, <2>1 DEF SameTabs, EngineState
  <2>2. CASE e.tabs[m] # {}
    <3>1. e.tabs[m] \cup {e.cur[m]} = e.tabs[m] /\ <<m, e.cur[m]>> \in Views
      BY <1>3, <1>4, <2>2 DEF Views
    <3>2. s.tabs \in [Modes -> SUBSET TabIds]
      BY <1>2 DEF EngineState
    <3> QED BY <1>2, <1>3, <1>5, <2>2, <3>1, <3>2 DEF SameTabs, EngineState
  <2> QED BY <2>1, <2>2
<1>7. Consistent(c)
  BY <1>1, <1>6 DEF Consistent, EngineTypeOK, RecentListsTabs, CurrentIsMostRecent,
     ViewIsCurrent, SignalsMatchFlag, ListensToAView, CounterAhead, Tabs, CurrentId
<1>8. NoGhosts(c)
  BY <1>1, <1>2, <1>6 DEF NoGhosts, Live
<1> QED BY <1>6, <1>7, <1>8 DEF EngineOK, c

(* Waking a live view, or putting any to sleep, touches nothing else. *)
LEMMA AwakeOK ==
    ASSUME NEW e, EngineOK(e), NEW S, S \subseteq Live(e)
    PROVE  Follows(e, [e EXCEPT !.awake = S])
<1> DEFINE f == [e EXCEPT !.awake = S]
<1>1. e \in EngineState /\ Consistent(e) /\ NoGhosts(e)
  BY DEF EngineOK, Consistent, EngineTypeOK
<1>2. /\ f \in EngineState /\ SameTabs(e, f) /\ f.awake = S
      /\ f.connected = e.connected /\ f.wired = e.wired
  BY <1>1 DEF EngineState, SameTabs, Live
<1> HIDE DEF f
<1>3. SignalsMatchFlag(f) /\ ListensToAView(f)
  BY <1>1, <1>2 DEF Consistent, SignalsMatchFlag, ListensToAView, SameTabs
<1> QED BY <1>1, <1>2, <1>3, SameTabsConsistent, SameTabsNoGhosts, SameTabsKeeps
        DEF EngineOK, Follows, f

LEMMA ConfirmationOK ==
    ASSUME NEW e, EngineOK(e), NEW t
    PROVE  Follows(e, ConfirmationResult(e, t))
<1>1. e \in EngineState
  BY DEF EngineOK, Consistent, EngineTypeOK
<1>2. t \in Tabs(e) => <<e.mode, t>> \in Live(e)
  BY <1>1 DEF Live, Views, Tabs, EngineState
<1>3. t \in Tabs(e) => e.awake \cup {<<e.mode, t>>} \subseteq Live(e)
  BY <1>2 DEF EngineOK, NoGhosts
<1> QED BY <1>3, AwakeOK, FollowsReflexive DEF ConfirmationResult
-----------------------------------------------------------------------------
(***************************************************************************)
(* What an operation does to the members, in full.                         *)
(***************************************************************************)

LEMMA SuspendAwake ==
    ASSUME NEW e \in EngineState
    PROVE  /\ Suspend(e).view = e.view /\ Suspend(e).mode = e.mode
           /\ Suspend(e).tabs = e.tabs /\ Suspend(e).mru = e.mru
           /\ Suspend(e).cur = e.cur /\ Suspend(e).origin = e.origin
           /\ Suspend(e).awake = e.awake \ {e.view}
  <1>1. NoView \notin e.awake
    BY DEF EngineState, NoView, Views, Modes
  <1>2. CASE e.view = NoView
    BY <1>1, <1>2 DEF Suspend
  <1>3. CASE e.view # NoView
    BY <1>3 DEF Suspend, Disconnect, EngineState
  <1> QED BY <1>2, <1>3

LEMMA ResumeAwake ==
    ASSUME NEW e \in EngineState
    PROVE  /\ Resume(e).view = e.view /\ Resume(e).mode = e.mode
           /\ Resume(e).tabs = e.tabs /\ Resume(e).mru = e.mru
           /\ Resume(e).origin = e.origin
           /\ e.view # NoView => /\ Resume(e).connected
                                 /\ Resume(e).awake = e.awake \cup {e.view}
           /\ e.view = NoView => Resume(e) = e
  BY DEF Resume, EngineState

(* The lists are those of the two modes: for an engine whose lists are not *)
(* in order yet, too.                                                      *)
LEMMA SwitchAwake ==
    ASSUME NEW e \in EngineState, NEW t \in Tabs(e), t # CurrentId(e)
    PROVE  LET f == SwitchToTab(e, t)
           IN  /\ f.view = <<e.mode, t>> /\ f.view # NoView /\ f.connected
               /\ f.mode = e.mode /\ f.tabs = e.tabs /\ f.origin = e.origin
               /\ f.mru = [e.mru EXCEPT ![e.mode] =
                             Append(Without(e.mru[e.mode], t), t)]
               /\ f.awake = (e.awake \ {e.view}) \cup {<<e.mode, t>>}
               /\ DOMAIN f = DOMAIN e
<1> DEFINE s == Suspend(e)
           v == <<e.mode, t>>
           l == Append(Without(s.mru[e.mode], t), t)
           c == MakeCurrent(e, t)
<1>1. /\ s.view = e.view /\ s.mode = e.mode /\ s.tabs = e.tabs /\ s.mru = e.mru
      /\ s.cur = e.cur /\ s.origin = e.origin /\ s.awake = e.awake \ {e.view}
  BY SuspendAwake
<1>2. DOMAIN s = DOMAIN e
  BY DEF Suspend, Disconnect, EngineState
<1>3. e.mode \in Modes /\ v # NoView
  BY DEF EngineState, NoView, Modes
<1>4. c = [s EXCEPT !.view = v, !.cur[e.mode] = t, !.mru[e.mode] = l]
  BY DEF MakeCurrent
<1>5. DOMAIN e = {"mode", "tabs", "mru", "cur", "view", "connected", "wired",
                  "awake", "origin", "secretId"}
  BY DEF EngineState
<1> HIDE DEF s, v, l, c
<1>6. /\ c.view = v /\ c.mode = s.mode /\ c.tabs = s.tabs /\ c.awake = s.awake
      /\ c.origin = s.origin
      /\ c.mru = [s.mru EXCEPT ![e.mode] = l] /\ DOMAIN c = DOMAIN e
  BY <1>2, <1>4, <1>5
<1>7. /\ Resume(c).view = v /\ Resume(c).mode = c.mode /\ Resume(c).tabs = c.tabs
      /\ Resume(c).mru = c.mru /\ Resume(c).origin = c.origin /\ Resume(c).connected
      /\ Resume(c).awake = c.awake \cup {v} /\ DOMAIN Resume(c) = DOMAIN c
  BY <1>3, <1>5, <1>6 DEF Resume
<1>8. SwitchToTab(e, t) = Resume(c)
  BY DEF SwitchToTab, c
<1>9. l = Append(Without(e.mru[e.mode], t), t)
  BY <1>1 DEF l
<1> QED BY <1>1, <1>3, <1>6, <1>7, <1>8, <1>9 DEF v
-----------------------------------------------------------------------------
(***************************************************************************)
(* What an operation does to the list of recent tabs, exactly.             *)
(***************************************************************************)

(* Switching to the last tab of a list leaves the list as it is. *)
LEMMA LastStays ==
    ASSUME NEW S, NEW s \in Seq(S), IsInjective(s), s # <<>>
    PROVE  Append(Without(s, Last(s)), Last(s)) = s
<1> DEFINE t == Last(s)
           w == Without(s, t)
           a == Append(w, t)
<1>1. Len(s) \in Nat \ {0} /\ t = s[Len(s)] /\ t \in S /\ t \in ToSet(s)
  BY EmptyList DEF Last
<1> DEFINE p == CHOOSE p \in DOMAIN s : s[p] = t
<1>2. p = Len(s)
  <2>1. \A i, j \in DOMAIN s : s[i] = s[j] => i = j
    BY DEF IsInjective
  <2>2. Len(s) \in DOMAIN s /\ s[Len(s)] = t
    BY <1>1
  <2> QED BY <2>1, <2>2
<1>3. w = RemoveAt(s, Len(s))
  BY <1>1, <1>2 DEF Without
<1> HIDE DEF t, w, p
<1>4. /\ w \in Seq(S) /\ Len(w) = Len(s) - 1
      /\ \A i \in 1 .. Len(s) - 1 : w[i] = s[i]
  <2>1. Len(s) \in 1 .. Len(s)
    BY <1>1
  <2> QED BY <1>3, <2>1, RemoveAtFacts
<1>5. /\ a \in Seq(S) /\ Len(a) = Len(s) /\ a[Len(s)] = t
      /\ \A i \in 1 .. Len(s) - 1 : a[i] = w[i]
  BY <1>1, <1>4, AppendProperties
<1> HIDE DEF a
<1>6. \A i \in 1 .. Len(s) : a[i] = s[i]
  BY <1>1, <1>4, <1>5
<1>7. a = s
  BY <1>5, <1>6, SeqEqual
<1> QED BY <1>7 DEF a, w, t

(* The list of the current mode, and what it says of the current tab. *)
LEMMA TheList ==
    ASSUME NEW e, EngineOK(e)
    PROVE  /\ e \in EngineState /\ e.mode \in Modes
           /\ e.mru \in [Modes -> Seq(TabIds)]
           /\ e.mru[e.mode] \in Seq(TabIds)
           /\ IsInjective(e.mru[e.mode])
           /\ ToSet(e.mru[e.mode]) = Tabs(e)
           /\ Tabs(e) \subseteq TabIds
           /\ e.mru[e.mode] = <<>> => e.view = NoView
           /\ e.mru[e.mode] # <<>> => /\ CurrentId(e) = Last(e.mru[e.mode])
                                      /\ e.view = <<e.mode, Last(e.mru[e.mode])>>
<1>1. e \in EngineState /\ e.mode \in Modes /\ Consistent(e)
      /\ e.mru \in [Modes -> Seq(TabIds)]
  BY DEF EngineOK, Consistent, EngineTypeOK, EngineState
<1>2. /\ e.mru[e.mode] \in Seq(TabIds) /\ IsInjective(e.mru[e.mode])
      /\ ToSet(e.mru[e.mode]) = Tabs(e)
  BY <1>1 DEF Consistent, RecentListsTabs, Tabs
<1>3. e.mru[e.mode] = <<>> <=> Tabs(e) = {}
  BY <1>2, EmptyList
<1>4. Tabs(e) \subseteq TabIds
  BY <1>1 DEF EngineState, Tabs
<1>5. e.mru[e.mode] # <<>> => CurrentId(e) = Last(e.mru[e.mode])
  BY <1>1 DEF Consistent, CurrentIsMostRecent, CurrentId
<1> QED BY <1>1, <1>2, <1>3, <1>4, <1>5 DEF Consistent, ViewIsCurrent

LEMMA SwitchList ==
    ASSUME NEW e, EngineOK(e), NEW t \in Tabs(e)
    PROVE  SwitchToTab(e, t).mru[e.mode] = Append(Without(e.mru[e.mode], t), t)
<1>1. CASE t = CurrentId(e)
  <2>1. e.mru[e.mode] # <<>> /\ t = Last(e.mru[e.mode])
    BY <1>1, TheList, EmptyList
  <2>2. Append(Without(e.mru[e.mode], t), t) = e.mru[e.mode]
    BY <2>1, TheList, LastStays
  <2>3. SwitchToTab(e, t) = Resume(e)
    BY <1>1 DEF SwitchToTab
  <2> QED BY <2>2, <2>3, TheList, ResumeAwake
<1>2. CASE t # CurrentId(e)
  <2>1. e \in EngineState /\ e.mode \in Modes /\ e.mru \in [Modes -> Seq(TabIds)]
    BY TheList
  <2>2. SwitchToTab(e, t).mru = [e.mru EXCEPT ![e.mode] =
                                   Append(Without(e.mru[e.mode], t), t)]
    BY <1>2, <2>1, SwitchAwake
  <2> QED BY <2>1, <2>2
<1> QED BY <1>1, <1>2

LEMMA OpenList ==
    ASSUME NoneIsNoTab, NEW e, EngineOK(e), NEW o \in Origins,
           NEW t \in TabIds \ Tabs(e)
    PROVE  SwitchToTab(AddTab(e, t, o), t).mru[e.mode] = Append(e.mru[e.mode], t)
<1> DEFINE g == AddTab(e, t, o)
<1>1. e \in EngineState /\ e.mode \in Modes /\ e.mru \in [Modes -> Seq(TabIds)]
      /\ ToSet(e.mru[e.mode]) = Tabs(e)
  BY TheList
<1>2. <<e.mode, t>> \in Views /\ t \in Int
  BY <1>1, IdAssumption DEF Views
<1>3. /\ g \in EngineState
      /\ g.mode = e.mode /\ g.mru = e.mru /\ g.cur = e.cur
      /\ g.tabs = [e.tabs EXCEPT ![e.mode] = @ \cup {t}]
  BY <1>1, <1>2 DEF AddTab, EngineState
<1> HIDE DEF g
<1>4. t \in Tabs(g) /\ CurrentId(g) = CurrentId(e)
  BY <1>1, <1>3 DEF Tabs, CurrentId, EngineState
<1>5. t # CurrentId(g)
  BY <1>4, NewIsNotCurrent
<1>6. SwitchToTab(g, t).mru = [g.mru EXCEPT ![g.mode] =
                                 Append(Without(g.mru[g.mode], t), t)]
  BY <1>3, <1>4, <1>5, SwitchAwake
<1>7. Without(e.mru[e.mode], t) = e.mru[e.mode]
  BY <1>1 DEF Without
<1> QED BY <1>1, <1>3, <1>6, <1>7 DEF g

LEMMA CloseList ==
    ASSUME NEW e, EngineOK(e), NEW t, t # NoTab
    PROVE  CloseTab(e, t).mru[e.mode] = Without(e.mru[e.mode], t)
<1> DEFINE r == Forget(e, t)
           w == Without(e.mru[e.mode], t)
           l == r.mru[e.mode]
           closed == [Disconnect(r) EXCEPT !.cur[e.mode] = NoTab, !.view = NoView]
           next == IF Tabs(r) = {}
                   THEN closed
                   ELSE IF t = CurrentId(e) /\ l # <<>>
                        THEN SwitchToTab(r, Last(l))
                        ELSE r
<1>1. /\ e \in EngineState /\ e.mode \in Modes
      /\ e.mru \in [Modes -> Seq(TabIds)] /\ e.mru[e.mode] \in Seq(TabIds)
      /\ IsInjective(e.mru[e.mode]) /\ ToSet(e.mru[e.mode]) = Tabs(e)
  BY TheList
<1>2. w \in Seq(TabIds) /\ IsInjective(w) /\ ToSet(w) = Tabs(e) \ {t}
  BY <1>1, WithoutFacts
<1> HIDE DEF w
<1>3. /\ r \in EngineState /\ r.mode = e.mode /\ r.cur = e.cur
      /\ r.mru = [e.mru EXCEPT ![e.mode] = w]
      /\ r.tabs = [e.tabs EXCEPT ![e.mode] = @ \ {t}]
  BY <1>1, <1>2 DEF Forget, EngineState, w
<1> HIDE DEF r
<1>4. l = w /\ Tabs(r) = ToSet(w) /\ CurrentId(r) = CurrentId(e)
  BY <1>1, <1>2, <1>3 DEF Tabs, CurrentId, EngineState
<1>5. next.mru[e.mode] = w
  <2>1. closed.mru = r.mru
    BY <1>3 DEF Disconnect, EngineState
  <2>2. CASE Tabs(r) # {} /\ t = CurrentId(e)
    <3>1. w # <<>> /\ Last(w) \in ToSet(w)
      BY <1>2, <1>4, <2>2, EmptyList
    <3>2. Last(w) # CurrentId(r)
      BY <1>2, <1>4, <2>2, <3>1
    <3>3. SwitchToTab(r, Last(w)).mru =
            [r.mru EXCEPT ![r.mode] = Append(Without(r.mru[r.mode], Last(w)), Last(w))]
      <4>1. Last(w) \in Tabs(r)
        BY <1>4, <3>1
      <4> HIDE DEF next, closed, l
      <4> QED BY <1>3, <4>1, <3>2, SwitchAwake
    <3>4. r.mru[r.mode] = w
      BY <1>3, <1>4
    <3>5. Append(Without(w, Last(w)), Last(w)) = w
      BY <1>2, <3>1, LastStays
    <3>6. SwitchToTab(r, Last(w)).mru[e.mode] = w
      BY <1>1, <1>3, <3>3, <3>4, <3>5
    <3> QED BY <1>4, <2>2, <3>1, <3>6
  <2> HIDE DEF closed
  <2> QED BY <1>4, <2>1, <2>2
<1>6. CloseTab(e, t) = Reap(next)
  BY DEF CloseTab, r
<1> HIDE DEF next
<1>7. Reap(next).mru = next.mru
  BY DEF Reap
<1> QED BY <1>5, <1>6, <1>7 DEF w
=============================================================================
