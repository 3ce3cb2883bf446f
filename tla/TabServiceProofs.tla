-------------------------- MODULE TabServiceProofs --------------------------
(***************************************************************************)
(* Theorems about the tabs a session saves and the next one restores, for  *)
(* any ids, limit, seed, pictures and number of snapshots.                 *)
(***************************************************************************)
EXTENDS TabService, WebEngineProofs, FiniteSetTheorems, WellFoundedInduction

(* A set of numbers that is not empty has a least one.                     *)
LEMMA Least ==
    ASSUME NEW T, T \subseteq Nat, T # {}
    PROVE  \E x \in T : \A y \in T : x <= y
<1> DEFINE R == OpToRel(<, Nat)
<1>1. IsWellFoundedOn(R, Nat)
  BY NatLessThanWellFounded
<1>2. \A y, x \in Nat : <<y, x>> \in R <=> y < x
  BY DEF OpToRel
<1> HIDE DEF R
<1>3. PICK x \in T : \A y \in T : ~(<<y, x>> \in R)
  BY <1>1, WFMin
<1>4. \A y \in T : ~(y < x)
  BY <1>2, <1>3
<1> QED BY <1>4

(* The service after each of the tabs that are restored.                   *)
Afterwards(order, k) ==
    \E g : g = [i \in 0 .. k |-> IF i = 0 THEN eng ELSE OpenSaved(g[i - 1], order[i])]

LEMMA OneMoreAfter ==
    ASSUME NEW order, NEW k \in Nat, Afterwards(order, k)
    PROVE  Afterwards(order, k + 1)
<1>1. PICK g : g = [i \in 0 .. k |-> IF i = 0 THEN eng ELSE OpenSaved(g[i - 1], order[i])]
  BY DEF Afterwards
<1> DEFINE h == [i \in 0 .. k + 1 |-> IF i <= k THEN g[i] ELSE OpenSaved(g[k], order[i])]
<1>2. \A i \in 0 .. k + 1 :
         h[i] = IF i = 0 THEN eng ELSE OpenSaved(h[i - 1], order[i])
  <2> SUFFICES ASSUME NEW i \in 0 .. k + 1
               PROVE  h[i] = IF i = 0 THEN eng ELSE OpenSaved(h[i - 1], order[i])
    OBVIOUS
  <2>1. CASE i = 0
    <3>1. i \in 0 .. k /\ h[i] = g[i]
      BY <2>1
    <3>2. g[i] = eng
      BY <1>1, <2>1, <3>1
    <3> QED BY <2>1, <3>1, <3>2
  <2>2. CASE i # 0 /\ i <= k
    <3>1. i \in 0 .. k /\ i - 1 \in 0 .. k /\ h[i] = g[i] /\ h[i - 1] = g[i - 1]
      BY <2>2
    <3>2. g[i] = OpenSaved(g[i - 1], order[i])
      BY <1>1, <2>2, <3>1
    <3> QED BY <2>2, <3>1, <3>2
  <2>3. CASE i = k + 1
    <3>1. i # 0 /\ i - 1 = k /\ h[i] = OpenSaved(g[k], order[i]) /\ h[i - 1] = g[k]
      BY <2>3
    <3> QED BY <3>1
  <2> QED BY <2>1, <2>2, <2>3
<1>3. h = [i \in 0 .. k + 1 |-> IF i = 0 THEN eng ELSE OpenSaved(h[i - 1], order[i])]
  <2> DEFINE f == [i \in 0 .. k + 1 |-> IF i = 0 THEN eng ELSE OpenSaved(h[i - 1], order[i])]
  <2>1. \A i \in 0 .. k + 1 : h[i] = f[i]
    BY <1>2
  <2>2. DOMAIN h = 0 .. k + 1 /\ DOMAIN f = 0 .. k + 1
    OBVIOUS
  <2>3. h = [i \in 0 .. k + 1 |-> h[i]] /\ f = [i \in 0 .. k + 1 |-> f[i]]
    OBVIOUS
  <2> HIDE DEF f, h
  <2>4. h = f
    BY <2>1, <2>2, <2>3
  <2> QED BY <2>4 DEF f
<1> HIDE DEF h
<1> QED BY <1>3 DEF Afterwards

LEMMA AfterAll ==
    ASSUME NEW order, NEW k \in Nat
    PROVE  Afterwards(order, k)
<1> DEFINE T == { j \in Nat : ~Afterwards(order, j) }
<1>1. ASSUME T # {} PROVE FALSE
  <2>1. PICK m \in T : \A j \in T : m <= j
    BY <1>1, Least
  <2>2. Afterwards(order, 0)
    <3> DEFINE g == [i \in 0 .. 0 |-> eng]
    <3>1. g = [i \in 0 .. 0 |-> IF i = 0 THEN eng ELSE OpenSaved(g[i - 1], order[i])]
      OBVIOUS
    <3> HIDE DEF g
    <3> QED BY <3>1 DEF Afterwards
  <2>3. m - 1 \in Nat /\ m - 1 \notin T /\ (m - 1) + 1 = m
    BY <2>1, <2>2
  <2>4. Afterwards(order, m - 1)
    BY <2>3
  <2>5. Afterwards(order, m)
    BY <2>3, <2>4, OneMoreAfter
  <2> QED BY <2>1, <2>5
<1> QED BY <1>1

(* Restoring is what opening the saved tabs one by one leads to.           *)
LEMMA RestoredOneByOne ==
    ASSUME NEW order, Len(order) \in Nat
    PROVE  \E g : /\ g[0] = eng
                  /\ \A i \in 1 .. Len(order) : g[i] = OpenSaved(g[i - 1], order[i])
                  /\ Restored(order) = g[Len(order)]
<1> DEFINE n == Len(order)
           P(g) == g = [i \in 0 .. n |-> IF i = 0 THEN eng ELSE OpenSaved(g[i - 1], order[i])]
           c == CHOOSE g : P(g)
<1>1. \E g : P(g)
  BY AfterAll DEF Afterwards
<1>2. P(c)
  BY <1>1
<1>3. Restored(order) = c[n]
  BY DEF Restored
<1> HIDE DEF c
<1>4. c = [i \in 0 .. n |-> IF i = 0 THEN eng ELSE OpenSaved(c[i - 1], order[i])]
  BY <1>2
<1> HIDE DEF P
<1>5. \A i \in 0 .. n : c[i] = IF i = 0 THEN eng ELSE OpenSaved(c[i - 1], order[i])
  BY <1>4
<1>6. c[0] = eng /\ \A i \in 1 .. n : c[i] = OpenSaved(c[i - 1], order[i])
  BY <1>5
<1> QED BY <1>3, <1>6

-----------------------------------------------------------------------------
(***************************************************************************)
(* What the service does to tabs and origins.                              *)
(***************************************************************************)

(* There are finitely many tabs, whatever the ids.                         *)
LEMMA TabsAreFinite ==
    ASSUME NEW e, EngineOK(e), NEW m \in Modes
    PROVE  IsFiniteSet(e.tabs[m])
<1>1. e.mru[m] \in Seq(TabIds) /\ ToSet(e.mru[m]) = e.tabs[m]
  BY DEF EngineOK, Consistent, EngineTypeOK, EngineState, RecentListsTabs
<1> DEFINE l == e.mru[m]
           n == Len(l)
<1>2. n \in Nat /\ DOMAIN l = 1 .. n /\ l = [i \in 1 .. n |-> l[i]]
  BY <1>1
<1>3. e.tabs[m] = { l[i] : i \in 1 .. n }
  BY <1>1, <1>2 DEF ToSet
<1> HIDE DEF l, n
<1>4. l \in [1 .. n -> e.tabs[m]]
  BY <1>2, <1>3
<1>5. l \in Surjection(1 .. n, e.tabs[m])
  BY <1>3, <1>4 DEF Surjection
<1>6. IsFiniteSet(1 .. n)
  BY <1>2, FS_Interval
<1> QED BY <1>5, <1>6, FS_Surjection

LEMMA OriginsKept ==
    ASSUME NEW e \in EngineState, NEW t
    PROVE  SwitchToTab(e, t).origin = e.origin
<1> DEFINE c == MakeCurrent(e, t)
<1>1. DOMAIN Suspend(e) = DOMAIN e /\ Suspend(e).origin = e.origin
  BY DEF Suspend, Disconnect, EngineState
<1>2. c.origin = e.origin /\ DOMAIN c = DOMAIN e
  BY <1>1 DEF MakeCurrent, EngineState
<1>3. ASSUME NEW y, DOMAIN y = DOMAIN e
      PROVE  Resume(y).origin = y.origin
  BY <1>3 DEF Resume, EngineState
<1> HIDE DEF c
<1>4. Resume(c).origin = e.origin
  BY <1>2, <1>3
<1>5. Resume(e).origin = e.origin
  BY <1>3
<1> QED BY <1>4, <1>5 DEF SwitchToTab, c

(* The id of a new secret tab is the incremented counter.                  *)
FreshId(e, t) == e.mode = "SECRET" => t = e.secretId + 1

(* What opening a tab t with origin o makes of the service e.              *)
Opened(e, t, o, f) ==
    /\ EngineOK(f) /\ f.mode = e.mode
    /\ f.tabs = [e.tabs EXCEPT ![e.mode] = @ \cup {t}]
    /\ f.origin = [e.origin EXCEPT ![<<e.mode, t>>] = o]

LEMMA OpenKeeps ==
    ASSUME NoneIsNoTab, NEW e, EngineOK(e), NEW o \in Origins,
           NEW t \in TabIds \ Tabs(e), FreshId(e, t)
    PROVE  Opened(e, t, o, SwitchToTab(AddTab(e, t, o), t))
<1> DEFINE g == AddTab(e, t, o)
<1>1. e \in EngineState /\ e.mode \in Modes
  BY TheList
<1>2. <<e.mode, t>> \in Views /\ t \in Int
  BY <1>1, IdAssumption DEF Views
<1>3. g \in EngineState /\ g.origin = [e.origin EXCEPT ![<<e.mode, t>>] = o]
  BY <1>1, <1>2 DEF AddTab, EngineState
<1>4. /\ Follows(e, SwitchToTab(g, t))
      /\ SwitchToTab(g, t).tabs = [e.tabs EXCEPT ![e.mode] = @ \cup {t}]
  BY OpenOK DEF FreshId
<1> HIDE DEF g
<1>5. SwitchToTab(g, t).origin = g.origin
  BY <1>3, OriginsKept
<1> QED BY <1>3, <1>4, <1>5 DEF Follows, KeepsOther, Opened, g

(* Closing a tab.                                                          *)
LEMMA CloseKeeps ==
    ASSUME NoneIsNoTab, NEW e, EngineOK(e), NEW t \in Tabs(e)
    PROVE  LET f == ResumeIfSuspended(CloseTab(e, t))
           IN  /\ EngineOK(f)
               /\ f.tabs = [e.tabs EXCEPT ![e.mode] = @ \ {t}]
<1> DEFINE c == CloseTab(e, t)
           f == ResumeIfSuspended(c)
<1>1. /\ e \in EngineState /\ e.mode \in Modes /\ e.mru[e.mode] \in Seq(TabIds)
      /\ IsInjective(e.mru[e.mode]) /\ ToSet(e.mru[e.mode]) = Tabs(e) /\ t \in TabIds
  BY TheList
<1>2. Follows(e, c) /\ Follows(c, f)
  BY CloseOK, ResumeIfSuspendedOK DEF Follows
<1>3. t # NoTab
  BY <1>1 DEF NoneIsNoTab
<1>4. c.mru[e.mode] = Without(e.mru[e.mode], t)
  BY <1>3, CloseList
<1>5. ToSet(c.mru[e.mode]) = Tabs(e) \ {t}
  BY <1>1, <1>4, WithoutFacts
<1>6. c.tabs[e.mode] = Tabs(e) \ {t}
  BY <1>1, <1>2, <1>5 DEF Follows, EngineOK, Consistent, RecentListsTabs
<1>7. /\ c.tabs \in [Modes -> SUBSET TabIds] /\ e.tabs \in [Modes -> SUBSET TabIds]
      /\ \A m \in Modes \ {e.mode} : c.tabs[m] = e.tabs[m]
  BY <1>2, <1>1 DEF Follows, KeepsOther, EngineOK, Consistent, EngineTypeOK, EngineState
<1>8. c.tabs = [e.tabs EXCEPT ![e.mode] = @ \ {t}]
  BY <1>1, <1>6, <1>7 DEF Tabs
<1>9. f.tabs = c.tabs
  BY <1>2, ResumeOK DEF ResumeIfSuspended, Follows
<1> QED BY <1>2, <1>8, <1>9 DEF Follows
-----------------------------------------------------------------------------
(***************************************************************************)
(* The rows and the pictures.                                              *)
(***************************************************************************)

RowsOK(r) ==
    /\ DOMAIN r \subseteq TabIds /\ IsFiniteSet(DOMAIN r)
    /\ \A t \in DOMAIN r : r[t] \in Row

ThumbsOK(p) == DOMAIN p \subseteq TabIds \cup {NoTab} /\ Range(p) \subseteq Views

(* Nothing that could be restored is made, or gets lost.                   *)
NoneSaved(r, s) == \A t : HasPage(s, t) => HasPage(r, t)
NoneLost(r, s)  == \A t : HasPage(r, t) => HasPage(s, t)

LEMMA RowOfOK ==
    ASSUME NEW r, RowsOK(r), NEW t
    PROVE  RowOf(r, t) \in Row /\ (RowOf(r, t).page <=> HasPage(r, t))
<1>1. NewRow \in Row /\ ~NewRow.page
  BY DEF NewRow, Row
<1> QED BY <1>1 DEF RowOf, RowsOK, HasPage

(* One row is written.                                                     *)
LEMMA PutRowOK ==
    ASSUME NEW r, RowsOK(r), NEW t \in TabIds, NEW row \in Row
    PROVE  /\ RowsOK(Put(r, t, row))
           /\ HasPage(Put(r, t, row), t) <=> row.page
           /\ \A u : u # t => (HasPage(Put(r, t, row), u) <=> HasPage(r, u))
<1> DEFINE p == Put(r, t, row)
<1>1. /\ DOMAIN p = DOMAIN r \cup {t} /\ p[t] = row
      /\ \A y \in DOMAIN r \ {t} : p[y] = r[y]
  BY DEF Put
<1> HIDE DEF p
<1>2. IsFiniteSet(DOMAIN r \cup {t})
  BY FS_AddElement DEF RowsOK
<1>3. RowsOK(p)
  BY <1>1, <1>2 DEF RowsOK
<1>4. row.page \in BOOLEAN
  BY DEF Row
<1> QED BY <1>1, <1>3, <1>4 DEF HasPage, p

LEMMA PutThumbOK ==
    ASSUME NEW p, ThumbsOK(p), NEW t \in TabIds \cup {NoTab}, NEW v \in Views
    PROVE  ThumbsOK(Put(p, t, v))
<1>1. /\ DOMAIN Put(p, t, v) = DOMAIN p \cup {t} /\ Put(p, t, v)[t] = v
      /\ \A y \in DOMAIN p \ {t} : Put(p, t, v)[y] = p[y]
  BY DEF Put
<1> QED BY <1>1 DEF ThumbsOK, Range

(* A row without a page is put where none was: nothing is saved or lost.   *)
LEMMA PutNewRowOK ==
    ASSUME NEW r, RowsOK(r), NEW t \in TabIds \ DOMAIN r
    PROVE  RowsOK(Put(r, t, NewRow)) /\ NoneSaved(r, Put(r, t, NewRow))
           /\ NoneLost(r, Put(r, t, NewRow))
<1>1. NewRow \in Row /\ ~NewRow.page
  BY DEF NewRow, Row
<1>2. ~HasPage(r, t)
  BY DEF HasPage
<1> QED BY <1>1, <1>2, PutRowOK DEF NoneSaved, NoneLost

(* A picture in a row is no page.                                          *)
LEMMA PutPictureOK ==
    ASSUME NEW r, RowsOK(r), NEW t \in TabIds, NEW v \in Views
    PROVE  LET s == Put(r, t, [RowOf(r, t) EXCEPT !.image = v])
           IN  RowsOK(s) /\ NoneSaved(r, s) /\ NoneLost(r, s)
<1> DEFINE row == [RowOf(r, t) EXCEPT !.image = v]
<1>1. RowOf(r, t) \in Row /\ (RowOf(r, t).page <=> HasPage(r, t))
  BY RowOfOK
<1>2. row \in Row /\ row.page = RowOf(r, t).page
  BY <1>1 DEF Row
<1> HIDE DEF row
<1>3. /\ RowsOK(Put(r, t, row))
      /\ HasPage(Put(r, t, row), t) <=> row.page
      /\ \A u : u # t => (HasPage(Put(r, t, row), u) <=> HasPage(r, u))
  BY <1>2, PutRowOK
<1> QED BY <1>1, <1>2, <1>3 DEF NoneSaved, NoneLost, row
-----------------------------------------------------------------------------
(***************************************************************************)
(* Restoring the last session.                                             *)
(***************************************************************************)

(* What is so after the first i tabs: those that are open are some of them,*)
(* with the origins they were saved with.                                  *)
Halfway(e, order, i) ==
    /\ EngineOK(e)
    /\ e.mode = "NORMAL"
    /\ e.tabs["NORMAL"] \subseteq {order[j] : j \in 1 .. i}
    /\ \A t \in e.tabs["NORMAL"] : e.origin[<<"NORMAL", t>>] = rows[t].index

LEMMA OrderFacts ==
    ASSUME RowsOK(rows), NEW order \in SetToSeqs(AllTabs)
    PROVE  /\ Len(order) \in Nat
           /\ \A i \in 1 .. Len(order) :
                 /\ order[i] \in AllTabs /\ order[i] \in TabIds
                 /\ rows[order[i]].index \in Origins
                 /\ \A j \in 1 .. i - 1 : order[j] # order[i]
<1> DEFINE n == Cardinality(AllTabs)
<1>1. AllTabs \subseteq DOMAIN rows /\ IsFiniteSet(DOMAIN rows)
  BY DEF AllTabs, RowsOK
<1>2. n \in Nat
  BY <1>1, FS_Subset, FS_CardinalityType
<1>3. /\ order \in [1 .. n -> AllTabs]
      /\ \A i, j \in 1 .. n : i # j => order[i] # order[j]
  BY DEF SetToSeqs
<1> HIDE DEF n
<1>4. Len(order) = n
  BY <1>2, <1>3
<1>5. \A t \in AllTabs : t \in TabIds /\ rows[t].index \in Origins
  BY DEF AllTabs, RowsOK, Row
<1>6. \A i \in 1 .. n : \A j \in 1 .. i - 1 : j \in 1 .. n /\ j # i
  BY <1>2
<1> QED BY <1>2, <1>3, <1>4, <1>5, <1>6

LEMMA OneMoreSaved ==
    ASSUME NoneIsNoTab, RowsOK(rows), NEW order \in SetToSeqs(AllTabs),
           NEW i \in 1 .. Len(order), NEW e, Halfway(e, order, i - 1)
    PROVE  Halfway(OpenSaved(e, order[i]), order, i)
<1> DEFINE t == order[i]
<1>1. /\ Len(order) \in Nat /\ i \in Nat /\ t \in TabIds /\ rows[t].index \in Origins
      /\ \A j \in 1 .. i - 1 : order[j] # t
  BY OrderFacts
<1>2. {order[j] : j \in 1 .. i} = {order[j] : j \in 1 .. i - 1} \cup {t}
  BY <1>1
<1>3. /\ EngineOK(e) /\ e.mode = "NORMAL"
      /\ e.tabs["NORMAL"] \subseteq {order[j] : j \in 1 .. i - 1}
      /\ \A u \in e.tabs["NORMAL"] : e.origin[<<"NORMAL", u>>] = rows[u].index
  BY DEF Halfway
<1>4. e \in EngineState
  BY <1>3, TheList
<1>5. CASE AtLimit(e)
  <2> DEFINE f == SwitchToTab(e, CurrentId(e))
  <2>1. EngineOK(f) /\ f.mode = e.mode /\ f.tabs = e.tabs
    BY <1>3, SwitchOK DEF Follows, KeepsOther
  <2>2. f.origin = e.origin
    BY <1>4, OriginsKept
  <2> HIDE DEF f
  <2>3. Halfway(f, order, i)
    BY <1>2, <1>3, <2>1, <2>2 DEF Halfway
  <2> QED BY <1>5, <2>3 DEF OpenSaved, f
<1>6. CASE ~AtLimit(e)
  <2> DEFINE o == rows[t].index
             f == SwitchToTab(AddTab(e, t, o), t)
  <2>1. t \in TabIds \ Tabs(e) /\ FreshId(e, t)
    BY <1>1, <1>3 DEF Tabs, FreshId
  <2>2. /\ EngineOK(f) /\ f.mode = e.mode
        /\ f.tabs = [e.tabs EXCEPT ![e.mode] = @ \cup {t}]
        /\ f.origin = [e.origin EXCEPT ![<<e.mode, t>>] = o]
    <3>1. Opened(e, t, o, f)
      BY <1>1, <1>3, <2>1, OpenKeeps
    <3> QED BY <1>3, <3>1 DEF Opened
  <2> HIDE DEF f
  <2>3. e.tabs \in [Modes -> SUBSET TabIds] /\ e.origin \in [Views -> Origins]
    BY <1>4 DEF EngineState
  <2>4. f.tabs["NORMAL"] = e.tabs["NORMAL"] \cup {t}
    BY <1>3, <2>2, <2>3 DEF Modes
  <2>5. \A u \in TabIds : <<"NORMAL", u>> \in Views
    BY DEF Views, Modes
  <2>6. ASSUME NEW u \in f.tabs["NORMAL"]
        PROVE  f.origin[<<"NORMAL", u>>] = rows[u].index
    <3>1. CASE u = t
      BY <1>1, <1>3, <2>2, <2>3, <2>5, <3>1
    <3>2. CASE u # t
      <4>1. u \in e.tabs["NORMAL"] /\ <<"NORMAL", u>> # <<"NORMAL", t>>
        BY <2>4, <2>6, <3>2
      <4>2. <<"NORMAL", u>> \in Views
        BY <2>3, <2>5, <4>1 DEF Modes
      <4> QED BY <1>3, <2>2, <2>3, <4>1, <4>2
    <3> QED BY <3>1, <3>2
  <2>7. Halfway(f, order, i)
    BY <1>2, <1>3, <2>2, <2>4, <2>6 DEF Halfway
  <2> QED BY <1>6, <2>7 DEF OpenSaved, f
<1> QED BY <1>5, <1>6

LEMMA RestoredOK ==
    ASSUME NoneIsNoTab, RowsOK(rows), eng = NewEngine(Seed),
           NEW order \in SetToSeqs(AllTabs)
    PROVE  Halfway(Restored(order), order, Len(order))
<1>1. Len(order) \in Nat
  BY OrderFacts
<1>2. PICK g : /\ g[0] = eng
               /\ \A i \in 1 .. Len(order) : g[i] = OpenSaved(g[i - 1], order[i])
               /\ Restored(order) = g[Len(order)]
  BY <1>1, RestoredOneByOne
<1>3. Halfway(g[0], order, 0)
  <2>1. EngineOK(eng)
    BY NewEngineOK, SeedAssumption
  <2>2. eng.mode = "NORMAL" /\ eng.tabs["NORMAL"] = {}
    BY DEF NewEngine, Modes
  <2> QED BY <1>2, <2>1, <2>2 DEF Halfway
<1> DEFINE T == { i \in 0 .. Len(order) : ~Halfway(g[i], order, i) }
<1>4. ASSUME T # {} PROVE FALSE
  <2>1. T \subseteq Nat
    OBVIOUS
  <2>2. PICK m \in T : \A j \in T : m <= j
    BY <1>4, <2>1, Least
  <2>3. m # 0
    BY <1>3, <2>2
  <2>4. m \in 1 .. Len(order) /\ m - 1 \in 0 .. Len(order) /\ m - 1 \notin T
    BY <1>1, <2>2, <2>3
  <2>5. Halfway(g[m - 1], order, m - 1)
    BY <2>4
  <2>6. Halfway(OpenSaved(g[m - 1], order[m]), order, m)
    BY <2>4, <2>5, OneMoreSaved
  <2> QED BY <1>2, <2>2, <2>4, <2>6
<1>5. Len(order) \notin T
  BY <1>4
<1> QED BY <1>1, <1>2, <1>5
-----------------------------------------------------------------------------
(***************************************************************************)
(* The inductive invariant.                                                *)
(***************************************************************************)

(* Normal tabs have ids of the adaptor.                                    *)
IdsOK(e) == e.tabs["NORMAL"] \subseteq NormalIds

Shapes ==
    /\ running \in BOOLEAN
    /\ RowsOK(rows) /\ ThumbsOK(thumbs)
    /\ shots \subseteq Views /\ heard \subseteq Views /\ older \subseteq TabIds

(* What closed tabs staying closed rests on: the engine is right, a row    *)
(* that could be restored has an id of a normal tab, also between two      *)
(* sessions, and no tab is open then.                                      *)
Inv ==
    /\ Shapes
    /\ EngineOK(eng) /\ IdsOK(eng)
    /\ ~running => eng = NewEngine(Seed)
    /\ \A t : HasPage(rows, t) => t \in NormalIds
    /\ running => \A t : HasPage(rows, t) => t \in eng.tabs["NORMAL"] \cup older

LEMMA InvEnough == Inv => TypeOK /\ ClosedTabsStayClosed
<1> SUFFICES ASSUME Inv PROVE TypeOK /\ ClosedTabsStayClosed
  OBVIOUS
<1>1. TypeOK
  BY DEF Inv, Shapes, RowsOK, ThumbsOK, EngineOK, Consistent, TypeOK
<1>2. ClosedTabsStayClosed
  BY DEF Inv, ClosedTabsStayClosed, HasPage
<1> QED BY <1>1, <1>2

LEMMA NewEngineIds == EngineOK(NewEngine(Seed)) /\ IdsOK(NewEngine(Seed))
<1>1. EngineOK(NewEngine(Seed))
  BY NewEngineOK, SeedAssumption
<1> QED BY <1>1 DEF NewEngine, IdsOK, Modes

LEMMA NoEntriesOK == RowsOK(NoEntries) /\ ThumbsOK(NoEntries) /\ DOMAIN NoEntries = {}
  BY FS_EmptySet DEF NoEntries, RowsOK, ThumbsOK, Range

LEMMA InvInit == Init => Inv
<1> SUFFICES ASSUME Init PROVE Inv
  OBVIOUS
<1>1. DOMAIN rows = {} /\ RowsOK(rows) /\ ThumbsOK(thumbs)
  BY NoEntriesOK DEF Init
<1>2. \A t : ~HasPage(rows, t)
  BY <1>1 DEF HasPage
<1> QED BY <1>1, <1>2, NewEngineIds DEF Init, Inv, Shapes

-----------------------------------------------------------------------------
(***************************************************************************)
(* The steps.                                                              *)
(***************************************************************************)

LEMMA EngineBecomesOK ==
    ASSUME NEW e, EngineOK(e), EngineBecomes(e)
    PROVE  eng' = e /\ heard' \subseteq Views /\ shots' \subseteq Views
  BY DEF EngineBecomes, Live

LEMMA SameTabsIds ==
    ASSUME NEW e, NEW f, IdsOK(e), f.tabs = e.tabs
    PROVE  IdsOK(f)
  BY DEF IdsOK

(* A step that saves nothing new and closes nothing keeps the invariant.   *)
LEMMA QuietStep ==
    ASSUME Inv, running, running' = running, older' = older,
           EngineOK(eng'), IdsOK(eng'),
           eng.tabs["NORMAL"] \subseteq eng'.tabs["NORMAL"],
           RowsOK(rows'), NoneSaved(rows, rows'), ThumbsOK(thumbs'),
           shots' \subseteq Views, heard' \subseteq Views
    PROVE  Inv'
  BY DEF Inv, Shapes, NoneSaved

LEMMA SameRows ==
    NoneSaved(rows, rows) /\ NoneLost(rows, rows)
  BY DEF NoneSaved, NoneLost

(* Steps that only choose, suspend or resume a view.                       *)
LEMMA ViewSteps ==
    ASSUME Inv,
           \/ \E t \in TabIds : TabClicked(t)
           \/ LeavePage \/ ReturnToPage \/ ChangeEngineState
    PROVE  Inv' /\ NoneLost(rows, rows')
<1>1. EngineOK(eng) /\ eng \in EngineState
  BY TheList DEF Inv
<1>2. ASSUME NEW e, EngineOK(e), EngineBecomes(e), e.tabs = eng.tabs,
             running, UNCHANGED <<running, rows, thumbs, older>>
      PROVE  Inv' /\ NoneLost(rows, rows')
  <2>1. eng' = e /\ heard' \subseteq Views /\ shots' \subseteq Views
    BY <1>2, EngineBecomesOK
  <2>2. IdsOK(e)
    BY <1>2, SameTabsIds DEF Inv
  <2>3. RowsOK(rows') /\ ThumbsOK(thumbs')
    BY <1>2 DEF Inv, Shapes
  <2>4. NoneSaved(rows, rows') /\ NoneLost(rows, rows')
    BY <1>2, SameRows
  <2> QED BY <1>2, <2>1, <2>2, <2>3, <2>4, QuietStep
<1>3. ASSUME NEW t \in TabIds, TabClicked(t) PROVE Inv' /\ NoneLost(rows, rows')
  <2>1. EngineOK(SwitchToTab(eng, t)) /\ SwitchToTab(eng, t).tabs = eng.tabs
    BY <1>1, SwitchOK DEF Follows
  <2> QED BY <1>2, <1>3, <2>1 DEF TabClicked
<1>4. CASE LeavePage
  <2>1. EngineOK(Suspend(eng)) /\ Suspend(eng).tabs = eng.tabs
    BY <1>1, SuspendOK DEF Follows
  <2> QED BY <1>2, <1>4, <2>1 DEF LeavePage
<1>5. CASE ReturnToPage
  <2>1. EngineOK(Resume(eng)) /\ Resume(eng).tabs = eng.tabs
    BY <1>1, ResumeOK DEF Follows
  <2> QED BY <1>2, <1>5, <2>1 DEF ReturnToPage
<1>6. CASE ChangeEngineState
  <2>1. EngineOK(ChangeState(eng)) /\ ChangeState(eng).tabs = eng.tabs
    BY <1>1, ChangeStateOK
  <2> QED BY <1>2, <1>6, <2>1 DEF ChangeEngineState
<1> QED BY <1>3, <1>4, <1>5, <1>6

LEMMA OpenStep ==
    ASSUME NoneIsNoTab, Inv, NEW origin \in NewOrigins, OpenNewTab(origin)
    PROVE  Inv' /\ NoneLost(rows, rows')
<1>1. /\ EngineOK(eng) /\ eng \in EngineState /\ eng.mode \in Modes
      /\ Tabs(eng) \subseteq TabIds
  BY TheList DEF Inv
<1>2. origin \in Origins
  BY <1>1 DEF NewOrigins, Origins
<1>3. running /\ UNCHANGED <<running, thumbs, older>> /\ ThumbsOK(thumbs)
      /\ RowsOK(rows) /\ IdsOK(eng)
  BY DEF OpenNewTab, Inv, Shapes
<1>4. eng.tabs \in [Modes -> SUBSET TabIds]
  BY <1>1 DEF EngineState
<1>5. CASE AtLimit(eng)
  <2> DEFINE e == SwitchToTab(eng, CurrentId(eng))
  <2>1. EngineOK(e) /\ e.tabs = eng.tabs
    BY <1>1, SwitchOK DEF Follows
  <2>2. IdsOK(e)
    BY <1>3, <2>1, SameTabsIds
  <2>3. EngineBecomes(e) /\ rows' = rows
    BY <1>5 DEF OpenNewTab
  <2>4. eng' = e /\ heard' \subseteq Views /\ shots' \subseteq Views
    BY <2>1, <2>3, EngineBecomesOK
  <2> HIDE DEF e
  <2> QED BY <1>3, <2>1, <2>2, <2>3, <2>4, SameRows, QuietStep
<1>6. CASE ~AtLimit(eng)
  <2>1. PICK t \in IF eng.mode = "NORMAL" THEN FreeIds ELSE NewIds(eng) :
           /\ EngineBecomes(SwitchToTab(AddTab(eng, t, origin), t))
           /\ rows' = IF eng.mode = "NORMAL" THEN Put(rows, t, NewRow) ELSE rows
    BY <1>6 DEF OpenNewTab
  <2> DEFINE e == SwitchToTab(AddTab(eng, t, origin), t)
  <2>2. /\ t \in TabIds \ Tabs(eng)
        /\ FreshId(eng, t)
        /\ eng.mode = "NORMAL" => t \in NormalIds \ DOMAIN rows
    <3>1. CASE eng.mode = "NORMAL"
      <4>1. t \in NormalIds \ (DOMAIN rows \cup eng.tabs["NORMAL"])
        BY <2>1, <3>1 DEF FreeIds
      <4>2. t \in TabIds /\ eng.mode # "SECRET" /\ Tabs(eng) = eng.tabs["NORMAL"]
        BY <3>1, <4>1, IdAssumption DEF Tabs
      <4> QED BY <4>1, <4>2 DEF FreshId
    <3>2. CASE eng.mode # "NORMAL"
      <4>1. t \in NewIds(eng)
        BY <2>1, <3>2
      <4>2. t \in TabIds \ Tabs(eng) /\ (eng.mode = "SECRET" => t = eng.secretId + 1)
        BY <1>1, <4>1, NewIdsFacts
      <4> QED BY <3>2, <4>2 DEF FreshId
    <3> QED BY <3>1, <3>2
  <2>3. /\ EngineOK(e)
        /\ e.tabs = [eng.tabs EXCEPT ![eng.mode] = @ \cup {t}]
    <3>1. /\ EngineOK(eng) /\ origin \in Origins /\ t \in TabIds \ Tabs(eng)
          /\ FreshId(eng, t)
      BY <1>1, <1>2, <2>2
    <3>2. Opened(eng, t, origin, e)
      BY <3>1, OpenKeeps
    <3> HIDE DEF e
    <3> QED BY <3>2 DEF Opened
  <2>4. eng' = e /\ heard' \subseteq Views /\ shots' \subseteq Views
    BY <2>1, <2>3, EngineBecomesOK
  <2> HIDE DEF e
  <2>6. CASE eng.mode = "NORMAL"
    <3>1. e.tabs["NORMAL"] = eng.tabs["NORMAL"] \cup {t}
      BY <1>4, <2>3, <2>6 DEF Modes
    <3>2. IdsOK(e)
      BY <1>3, <2>2, <2>6, <3>1 DEF IdsOK
    <3>3. RowsOK(rows') /\ NoneSaved(rows, rows') /\ NoneLost(rows, rows')
      BY <1>3, <2>1, <2>2, <2>6, PutNewRowOK
    <3> QED BY <1>3, <2>3, <2>4, <3>1, <3>2, <3>3, QuietStep
  <2>7. CASE eng.mode = "SECRET"
    <3>1. e.tabs["NORMAL"] = eng.tabs["NORMAL"]
      BY <1>4, <2>3, <2>7 DEF Modes
    <3>2. IdsOK(e)
      BY <1>3, <3>1 DEF IdsOK
    <3>3. rows' = rows
      BY <2>1, <2>7
    <3> QED BY <1>3, <2>3, <2>4, <3>1, <3>2, <3>3, SameRows, QuietStep
  <2> QED BY <1>1, <2>6, <2>7 DEF Modes
<1> QED BY <1>5, <1>6

(* A closed tab leaves its row with it, in whatever mode.                  *)
LEMMA CloseStep ==
    ASSUME NoneIsNoTab, Inv, NEW t \in TabIds, CloseTabOf(t)
    PROVE  /\ Inv'
           /\ \A u : HasPage(rows, u) /\ ~HasPage(rows', u) => u = t
           /\ eng'.tabs = [eng.tabs EXCEPT ![eng.mode] = @ \ {t}]
<1> DEFINE e == ResumeIfSuspended(CloseTab(eng, t))
<1>1. /\ EngineOK(eng) /\ eng \in EngineState /\ eng.mode \in Modes /\ IdsOK(eng)
      /\ t \in Tabs(eng)
  BY TheList DEF Inv, CloseTabOf
<1>2. /\ EngineOK(e)
      /\ e.tabs = [eng.tabs EXCEPT ![eng.mode] = @ \ {t}]
  BY <1>1, CloseKeeps
<1>3. eng' = e /\ heard' \subseteq Views /\ shots' \subseteq Views
  BY <1>2, EngineBecomesOK DEF CloseTabOf
<1> HIDE DEF e
<1>4. eng.tabs \in [Modes -> SUBSET TabIds]
  BY <1>1 DEF EngineState
<1>5. /\ \A m \in Modes : e.tabs[m] \subseteq eng.tabs[m]
      /\ eng.tabs["NORMAL"] \subseteq e.tabs["NORMAL"] \cup {t}
  BY <1>2, <1>4 DEF Modes
<1>6. IdsOK(e)
  BY <1>1, <1>5 DEF IdsOK, Modes
<1>7. /\ running /\ running' = running /\ older' = older \ {t}
      /\ rows' = [u \in DOMAIN rows \ {t} |-> rows[u]]
      /\ thumbs' = [u \in DOMAIN thumbs \ {t} |-> thumbs[u]]
  BY DEF CloseTabOf, Restrict
<1>8. RowsOK(rows) /\ ThumbsOK(thumbs) /\ older \subseteq TabIds
  BY DEF Inv, Shapes
<1>9. RowsOK(rows')
  <2>1. IsFiniteSet(DOMAIN rows \ {t})
    BY <1>8, FS_RemoveElement DEF RowsOK
  <2> QED BY <1>7, <1>8, <2>1 DEF RowsOK
<1>10. ThumbsOK(thumbs')
  BY <1>7, <1>8 DEF ThumbsOK, Range
<1>11. \A u : HasPage(rows', u) <=> HasPage(rows, u) /\ u # t
  BY <1>7 DEF HasPage
<1>12. Shapes'
  BY <1>3, <1>7, <1>8, <1>9, <1>10 DEF Inv, Shapes
<1>13. Inv'
  BY <1>2, <1>3, <1>5, <1>6, <1>7, <1>11, <1>12 DEF Inv
<1> QED BY <1>2, <1>3, <1>11, <1>13

(* A page is saved with the row of the current tab, which is open.         *)
LEMMA LoadStep ==
    ASSUME Inv, NEW v \in Views, LoadFinished(v)
    PROVE  Inv' /\ NoneLost(rows, rows')
<1>1. /\ EngineOK(eng) /\ eng \in EngineState /\ eng.mode \in Modes
      /\ running /\ UNCHANGED <<running, eng, thumbs, heard, older>>
      /\ RowsOK(rows) /\ shots' \subseteq Views
  BY TheList DEF Inv, Shapes, LoadFinished
<1>2. CASE v \in eng.wired /\ eng.mode = "NORMAL"
  <2> DEFINE t == CurrentId(eng)
             row == [RowOf(rows, t) EXCEPT !.page = TRUE, !.index = eng.origin[eng.view]]
  <2>1. eng.view # NoView /\ eng.view \in Views
    BY <1>1, <1>2 DEF EngineOK, Consistent, SignalsMatchFlag, ListensToAView, EngineState
  <2>2. t \in eng.tabs["NORMAL"] /\ t \in TabIds
    <3>1. eng.mru[eng.mode] # <<>> /\ t = Last(eng.mru[eng.mode])
      BY <1>1, <2>1, TheList
    <3>2. t \in Tabs(eng) /\ Tabs(eng) \subseteq TabIds
      BY <1>1, <3>1, TheList, EmptyList
    <3> QED BY <1>2, <3>2 DEF Tabs
  <2>3. eng.origin[eng.view] \in Origins
    BY <1>1, <2>1 DEF EngineState
  <2>4. RowOf(rows, t) \in Row
    BY <1>1, RowOfOK
  <2>5. row \in Row /\ row.page
    BY <2>3, <2>4 DEF Row
  <2>6. rows' = Put(rows, t, row)
    BY <1>2 DEF LoadFinished
  <2> HIDE DEF row
  <2>7. /\ RowsOK(rows') /\ HasPage(rows', t)
        /\ \A u : u # t => (HasPage(rows', u) <=> HasPage(rows, u))
    BY <1>1, <2>2, <2>5, <2>6, PutRowOK
  <2>8. NoneLost(rows, rows')
    BY <2>7 DEF NoneLost
  <2>9. t \in NormalIds
    BY <2>2 DEF Inv, IdsOK
  <2> HIDE DEF t
  <2>10. Shapes'
    BY <1>1, <2>7 DEF Inv, Shapes
  <2>11. Inv'
    BY <1>1, <2>2, <2>7, <2>9, <2>10 DEF Inv
  <2> QED BY <2>8, <2>11
<1>3. CASE ~(v \in eng.wired /\ eng.mode = "NORMAL")
  <2>1. rows' = rows
    BY <1>3 DEF LoadFinished
  <2>2. Inv'
    BY <1>1, <2>1 DEF Inv, Shapes
  <2> QED BY <2>1, <2>2, SameRows
<1> QED BY <1>2, <1>3

(* A late snapshot saves nothing, wherever it is filed.                    *)
LEMMA SnapshotStep ==
    ASSUME Inv, NEW v \in Views, OnSnapshotCaptured(v)
    PROVE  Inv' /\ NoneLost(rows, rows')
<1> DEFINE t == CurrentId(eng)
<1>1. /\ EngineOK(eng) /\ eng \in EngineState /\ eng.mode \in Modes /\ IdsOK(eng)
      /\ running /\ UNCHANGED <<running, eng, heard, older>>
      /\ RowsOK(rows) /\ ThumbsOK(thumbs) /\ shots' \subseteq Views /\ heard \subseteq Views
  BY TheList DEF Inv, Shapes, OnSnapshotCaptured
<1>2. t \in TabIds \cup {NoTab} /\ Picture(v) \in Views
  BY <1>1, PictureAssumption DEF EngineState, CurrentId
<1>3. ThumbsOK(Put(thumbs, t, Picture(v)))
  BY <1>1, <1>2, PutThumbOK
<1>4. ASSUME RowsOK(rows'), NoneSaved(rows, rows'), NoneLost(rows, rows'), ThumbsOK(thumbs')
      PROVE  Inv' /\ NoneLost(rows, rows')
  BY <1>1, <1>4, QuietStep
<1>5. CASE v \notin heard
  BY <1>1, <1>4, <1>5, SameRows DEF OnSnapshotCaptured
<1>6. CASE v \in heard /\ eng.mode = "SECRET"
  BY <1>1, <1>3, <1>4, <1>6, SameRows DEF OnSnapshotCaptured
<1>7. CASE v \in heard /\ eng.mode # "SECRET"
  <2>1. UpdateTabItemSnapshot(t, v)
    BY <1>7 DEF OnSnapshotCaptured
  <2>2. thumbs' = Put(thumbs, t, Picture(v))
    BY <2>1 DEF UpdateTabItemSnapshot
  <2>3. CASE t = NoTab
    <3>1. PICK new \in FreeIds : rows' = Put(rows, new, NewRow)
      BY <2>1, <2>3 DEF UpdateTabItemSnapshot
    <3>2. new \in TabIds \ DOMAIN rows
      BY <3>1, IdAssumption DEF FreeIds
    <3> QED BY <1>1, <1>3, <1>4, <2>2, <3>1, <3>2, PutNewRowOK
  <2>4. CASE t # NoTab
    <3>1. rows' = Put(rows, t, [RowOf(rows, t) EXCEPT !.image = Picture(v)])
      BY <2>1, <2>4 DEF UpdateTabItemSnapshot
    <3> HIDE DEF t
    <3> QED BY <1>1, <1>2, <1>3, <1>4, <2>2, <2>4, <3>1, PutPictureOK
  <2> QED BY <2>3, <2>4
<1> QED BY <1>5, <1>6, <1>7

(* Nor do the rows the tab manager makes.                                  *)
LEMMA ManagerStep ==
    ASSUME Inv, NEW loading \in BOOLEAN, ShowTabUI(loading)
    PROVE  Inv' /\ NoneLost(rows, rows')
<1> DEFINE again   == IF loading THEN {CurrentId(eng)} ELSE {}
           shot(t) == t \in again \/ (t \notin DOMAIN thumbs /\ RowOf(rows, t).image = NoView)
           taken   == {t \in Tabs(eng) : shot(t)}
           pic(t)  == Picture(<<eng.mode, t>>)
           shown(t) == IF t \in again THEN pic(t)
                       ELSE IF t \in Tabs(eng) THEN GetThumb(t) ELSE thumbs[t]
           row(t)  == IF t \in taken THEN [RowOf(rows, t) EXCEPT !.image = pic(t)]
                                     ELSE RowOf(rows, t)
<1>1. /\ EngineOK(eng) /\ eng \in EngineState /\ eng.mode \in Modes /\ IdsOK(eng)
      /\ running /\ UNCHANGED <<running, eng, heard, shots, older>>
      /\ RowsOK(rows) /\ ThumbsOK(thumbs) /\ shots \subseteq Views /\ heard \subseteq Views
      /\ Tabs(eng) \subseteq TabIds
  BY TheList DEF Inv, Shapes, ShowTabUI
<1>2. /\ thumbs' = [t \in DOMAIN thumbs \cup Tabs(eng) |-> shown(t)]
      /\ rows' = [t \in DOMAIN rows \cup Tabs(eng) |-> row(t)]
  BY DEF ShowTabUI
<1>3. \A t \in Tabs(eng) : pic(t) \in Views
  BY <1>1, PictureAssumption DEF Views
<1>4. again \subseteq Tabs(eng)
  <2>1. loading => Tabs(eng) # {}
    BY DEF ShowTabUI
  <2>2. Tabs(eng) # {} => CurrentId(eng) \in Tabs(eng)
    <3>1. Tabs(eng) # {} => eng.mru[eng.mode] # <<>>
      BY <1>1, TheList, EmptyList
    <3> QED BY <1>1, <3>1, TheList, EmptyList
  <2> QED BY <2>1, <2>2
<1>5. \A t : RowOf(rows, t) \in Row /\ (RowOf(rows, t).page <=> HasPage(rows, t))
  BY <1>1, RowOfOK
<1>6. \A t \in DOMAIN thumbs : thumbs[t] \in Views
  BY <1>1 DEF ThumbsOK, Range
<1> HIDE DEF again, pic
<1>7. \A t \in DOMAIN thumbs \cup Tabs(eng) : shown(t) \in Views
  <2> SUFFICES ASSUME NEW t \in DOMAIN thumbs \cup Tabs(eng) PROVE shown(t) \in Views
    OBVIOUS
  <2>1. t \in Tabs(eng) => GetThumb(t) \in Views
    <3>1. RowOf(rows, t).image \in Views \cup {NoView}
      BY <1>5 DEF Row
    <3>2. RowOf(rows, t).image # NoView => rows[t].image = RowOf(rows, t).image
      BY DEF RowOf, NewRow
    <3> QED BY <1>3, <1>6, <3>1, <3>2 DEF GetThumb, pic
  <2> QED BY <1>3, <1>4, <1>6, <2>1
<1>8. \A t \in DOMAIN rows \cup Tabs(eng) :
         row(t) \in Row /\ (row(t).page <=> HasPage(rows, t))
  BY <1>3, <1>5 DEF Row
<1> HIDE DEF shown, row
<1>9. ThumbsOK(thumbs')
  BY <1>1, <1>2, <1>7 DEF ThumbsOK, Range
<1>10. RowsOK(rows')
  <2>1. IsFiniteSet(DOMAIN rows \cup Tabs(eng))
    BY <1>1, TabsAreFinite, FS_Union DEF RowsOK, Tabs
  <2> QED BY <1>1, <1>2, <1>8, <2>1 DEF RowsOK
<1>11. NoneSaved(rows, rows') /\ NoneLost(rows, rows')
  BY <1>2, <1>8 DEF NoneSaved, NoneLost, HasPage
<1> QED BY <1>1, <1>9, <1>10, <1>11, QuietStep

(* A session starts with what the last one saved, and where it had it.     *)
LEMMA StartStep ==
    ASSUME NoneIsNoTab, Inv, NEW address \in BOOLEAN, Start(address)
    PROVE  /\ Inv' /\ rows' = rows
           /\ \A t \in eng'.tabs["NORMAL"] :
                 HasPage(rows, t) /\ eng'.origin[<<"NORMAL", t>>] = rows[t].index
<1>1. /\ ~running /\ running' /\ running' \in BOOLEAN /\ eng = NewEngine(Seed)
      /\ RowsOK(rows) /\ ThumbsOK(thumbs) /\ shots \subseteq Views /\ heard \subseteq Views
      /\ UNCHANGED <<rows, thumbs>> /\ older' = DOMAIN rows \ eng'.tabs["NORMAL"]
      /\ EngineOK(eng) /\ IdsOK(eng)
      /\ \A t : HasPage(rows, t) => t \in NormalIds
  BY DEF Start, Inv, Shapes
<1>2. ASSUME EngineOK(eng'), IdsOK(eng'), heard' \subseteq Views, shots' \subseteq Views
      PROVE  Inv'
  <2>1. older' \subseteq TabIds
    BY <1>1 DEF RowsOK
  <2>2. Shapes'
    BY <1>1, <1>2, <2>1 DEF Shapes
  <2>3. \A t : HasPage(rows, t) => t \in eng'.tabs["NORMAL"] \cup older'
    BY <1>1 DEF HasPage
  <2> QED BY <1>1, <1>2, <2>2, <2>3 DEF Inv
<1>3. CASE address
  <2>1. eng' = eng /\ heard' = heard /\ shots' = shots
    BY <1>3 DEF Start
  <2>2. eng'.tabs["NORMAL"] = {}
    BY <1>1, <2>1 DEF NewEngine, Modes
  <2> QED BY <1>1, <1>2, <2>1, <2>2
<1>4. CASE ~address
  <2>1. PICK order \in SetToSeqs(AllTabs) : EngineBecomes(Restored(order))
    BY <1>4 DEF Start
  <2> DEFINE e == Restored(order)
  <2>2. Halfway(e, order, Len(order))
    BY <1>1, RestoredOK
  <2>3. \A i \in 1 .. Len(order) : order[i] \in AllTabs
    BY <1>1, OrderFacts
  <2> HIDE DEF e
  <2>4. /\ EngineOK(e)
        /\ e.tabs["NORMAL"] \subseteq AllTabs
        /\ \A t \in e.tabs["NORMAL"] : e.origin[<<"NORMAL", t>>] = rows[t].index
    BY <2>2, <2>3 DEF Halfway
  <2>5. eng' = e /\ heard' \subseteq Views /\ shots' \subseteq Views
    BY <2>1, <2>4, EngineBecomesOK DEF e
  <2>6. \A t \in AllTabs : HasPage(rows, t)
    BY DEF AllTabs, HasPage
  <2>7. IdsOK(e)
    BY <1>1, <2>4, <2>6 DEF IdsOK
  <2> QED BY <1>1, <1>2, <2>4, <2>5, <2>6, <2>7
<1> QED BY <1>3, <1>4

LEMMA TerminateStep ==
    ASSUME Inv, Terminate
    PROVE  Inv' /\ rows' = rows
<1>1. /\ ~running' /\ running' \in BOOLEAN /\ eng' = NewEngine(Seed) /\ rows' = rows
      /\ thumbs' = NoEntries /\ shots' = {} /\ heard' = {} /\ older' = {}
  BY DEF Terminate
<1>2. Shapes'
  BY <1>1, NoEntriesOK DEF Inv, Shapes
<1> QED BY <1>1, <1>2, NewEngineIds DEF Inv

-----------------------------------------------------------------------------
(***************************************************************************)
(* The theorems.                                                           *)
(***************************************************************************)

(* A step of the running browser closes a tab, or loses nothing.           *)
LEMMA RunningStep ==
    ASSUME NoneIsNoTab, Inv, running, Next
    PROVE  /\ Inv'
           /\ \/ NoneLost(rows, rows')
              \/ \E t \in TabIds : CloseTabOf(t)
<1>1. CASE \E address \in BOOLEAN : Start(address)
  BY <1>1 DEF Start
<1>2. CASE Terminate
  BY <1>2, TerminateStep, SameRows
<1>3. CASE \E o \in NewOrigins : OpenNewTab(o)
  BY <1>3, OpenStep
<1>4. CASE \E t \in TabIds : CloseTabOf(t)
  BY <1>4, CloseStep
<1>5. CASE (\E t \in TabIds : TabClicked(t)) \/ LeavePage \/ ReturnToPage \/ ChangeEngineState
  BY <1>5, ViewSteps
<1>6. CASE \E v \in Views : LoadFinished(v)
  BY <1>6, LoadStep
<1>7. CASE \E v \in Views : OnSnapshotCaptured(v)
  BY <1>7, SnapshotStep
<1>8. CASE \E loading \in BOOLEAN : ShowTabUI(loading)
  BY <1>8, ManagerStep
<1> QED BY <1>1, <1>2, <1>3, <1>4, <1>5, <1>6, <1>7, <1>8 DEF Next

(* Before the browser runs it can only start.                              *)
LEMMA OnlyStarts ==
    ASSUME ~running, Next
    PROVE  \E address \in BOOLEAN : Start(address)
  BY DEF Next, Terminate, OpenNewTab, TabClicked, CloseTabOf, LeavePage, ReturnToPage,
         ChangeEngineState, LoadFinished, OnSnapshotCaptured, ShowTabUI

LEMMA InvNext ==
    ASSUME NoneIsNoTab, Inv, [Next]_vars
    PROVE  Inv'
<1>1. CASE Next /\ running
  BY <1>1, RunningStep
<1>2. CASE Next /\ ~running
  BY <1>2, OnlyStarts, StartStep
<1>3. CASE UNCHANGED vars
  BY <1>3 DEF vars, Inv, Shapes
<1> QED BY <1>1, <1>2, <1>3

LEMMA InvAlways == ASSUME NoneIsNoTab PROVE Spec => []Inv
<1>1. Inv /\ [Next]_vars => Inv'
  BY InvNext
<1> QED BY <1>1, InvInit, PTL DEF Spec

(* What the tab service keeps has its shape, in every session: rows and    *)
(* pictures of tabs, and an engine that is right.                          *)
THEOREM TypeCorrect == ASSUME NoneIsNoTab PROVE Spec => []TypeOK
<1>1. Inv => TypeOK
  BY InvEnough
<1> QED BY <1>1, InvAlways, PTL

(* A session never brings a closed tab back: a row that getAllTabs would   *)
(* restore belongs to an open normal tab or is one of an earlier session,  *)
(* also where ids of the two modes meet.                                   *)
THEOREM ClosedForGood == ASSUME NoneIsNoTab PROVE Spec => []ClosedTabsStayClosed
<1>1. Inv => ClosedTabsStayClosed
  BY InvEnough
<1> QED BY <1>1, InvAlways, PTL

(* A saved tab is only forgotten when a tab of its id is closed, in either *)
(* mode, wherever the uninitialised m_tabIdSecret makes the ids of secret  *)
(* tabs start: removeTab is called with the id of the closed tab, and with *)
(* nothing else.                                                           *)
THEOREM SavedTillClosed ==
    ASSUME NoneIsNoTab PROVE Spec => SavedUntilClosed
<1> DEFINE Kept == \A t \in DOMAIN rows :
                      rows[t].page /\ ~HasPage(rows', t)
                         => \E m \in Modes : t \in eng.tabs[m] \ eng'.tabs[m]
<1>1. Inv /\ [Next]_vars => [Kept]_vars
  <2> SUFFICES ASSUME Inv, Next PROVE Kept
    BY DEF vars
  <2> SUFFICES ASSUME NEW t, HasPage(rows, t), ~HasPage(rows', t)
               PROVE  \E m \in Modes : t \in eng.tabs[m] \ eng'.tabs[m]
    BY DEF HasPage
  <2>1. CASE ~running
    BY <2>1, OnlyStarts, StartStep
  <2>2. CASE running
    <3>1. PICK u \in TabIds : CloseTabOf(u)
      BY <2>2, RunningStep DEF NoneLost
    <3>2. t = u /\ eng'.tabs = [eng.tabs EXCEPT ![eng.mode] = @ \ {u}]
      BY <3>1, CloseStep
    <3>3. eng \in EngineState /\ eng.mode \in Modes /\ u \in eng.tabs[eng.mode]
      BY <3>1, TheList DEF Inv, CloseTabOf, Tabs
    <3>4. eng.tabs \in [Modes -> SUBSET TabIds]
      BY <3>3 DEF EngineState
    <3>5. t \in eng.tabs[eng.mode] \ eng'.tabs[eng.mode]
      BY <3>2, <3>3, <3>4
    <3> QED BY <3>3, <3>5
  <2> QED BY <2>1, <2>2
<1> QED BY <1>1, InvAlways, PTL DEF Spec, SavedUntilClosed

(* A restored tab was saved as a loaded page, and has the origin it was    *)
(* saved with, for any number of rows, in whatever order they are read and *)
(* whether or not all of them fit under the limit.                         *)
THEOREM RestoredWhereItWas ==
    ASSUME NoneIsNoTab PROVE Spec => RestoredAsSaved
<1> DEFINE AsSaved == ~running => \A t \in eng'.tabs["NORMAL"] :
                         /\ HasPage(rows, t)
                         /\ eng'.origin[<<"NORMAL", t>>] = rows[t].index
<1>1. Inv /\ [Next]_vars => [AsSaved]_vars
  <2> SUFFICES ASSUME Inv, Next, ~running PROVE AsSaved
    OBVIOUS
  <2>1. PICK address \in BOOLEAN : Start(address)
    BY OnlyStarts
  <2> QED BY <2>1, StartStep
<1> QED BY <1>1, InvAlways, PTL DEF Spec, RestoredAsSaved
=============================================================================
