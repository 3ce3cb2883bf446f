-------------------------- MODULE BookmarksProofs --------------------------
(***************************************************************************)
(* What the manager shows is what the database holds, for any titles and   *)
(* addresses and any number of entries.                                    *)
(*                                                                         *)
(* The invariant follows the copy wherever the manager is on the stack,    *)
(* and says of a manager that was left only what a pending order still     *)
(* needs: that each item is listed once, and that its order is the one in  *)
(* the database or 0, as of a new folder.                                  *)
(***************************************************************************)
EXTENDS Bookmarks, FiniteSetTheorems, SequenceTheorems, TLAPS

(* The view stacks there are: the flow may be above the manager, and the   *)
(* manager, which picks its folder, above the flow.                        *)
P   == <<"page">>
M   == <<"page", "manager">>
F   == <<"page", "flow">>
MF  == <<"page", "manager", "flow">>
FM  == <<"page", "flow", "manager">>
MFM == <<"page", "manager", "flow", "manager">>

Stacks == {P, M, F, MF, FM, MFM}

(* The manager is somewhere on the stack, or on top of it. *)
HasManager(s) == s \in {M, MF, FM, MFM}
ManagerOnTop(s) == s \in {M, FM, MFM}

Places == Ids \cup {Root}

IsStore(st, n) ==
    /\ DOMAIN st \subseteq Ids
    /\ \A i \in DOMAIN st : i < n /\ st[i] \in Entry
    /\ st = [i \in DOMAIN st |-> st[i]]

(* Each entry is listed once, under an id the database has given, and with *)
(* its order or none.                                                      *)
Listed(st, n, items) ==
    /\ items \in Seq(Item)
    /\ \A k \in DOMAIN items : items[k].id < n
    /\ \A j, k \in DOMAIN items :
          items[j].id = items[k].id /\ items[j].id # Root => j = k
    /\ \A k \in DOMAIN items :
          items[k].id \in DOMAIN st => items[k].order \in {0, st[items[k].id].seq}

(* What is listed is as in the database. *)
Agree(st, items) ==
    \A k \in DOMAIN items :
        items[k].id \in DOMAIN st =>
            /\ items[k].folder = st[items[k].id].folder
            /\ items[k].name = st[items[k].id].name
            /\ items[k].parent = st[items[k].id].parent

(* No entry of the folder is missing; in state s = "Share" no bookmark is. *)
Whole(st, m, s) ==
    \A i \in Children(st, m.shown) :
        /\ i \in IdsOf(m.added)
        /\ i \in IdsOf(m.list) \/ (s = "Share" /\ st[i].folder)

Current(st, m, s) == Agree(st, m.list) /\ Agree(st, m.added) /\ Whole(st, m, s)

TicksOK(m) == m.selected \subseteq IdsOf(m.list) /\ m.count = Cardinality(m.selected)

(* Items are only dragged where the order is written when that is left.    *)
DragsFit(m) ==
    /\ m.reordered => m.movable
    /\ m.movable => m.state \in {"Reorder", "SelectFolder"}

IsManager(st, n, m) ==
    /\ m \in Manager
    /\ Listed(st, n, m.list) /\ Listed(st, n, m.added)
    /\ DragsFit(m)

IsFlow(f) == f \in [url : Urls \cup Names \cup {NoUrl}, edit : BOOLEAN, folder : Places, qa : BOOLEAN]

IsPopup(p) ==
    \/ p = NoPopup
    \/ p.kind = "new" /\ p.parent \in Places
    \/ p.kind = "rename" /\ p.item \in Item

(* What the views below and above the flow may be. *)
StackFits ==
    /\ stack \in Stacks
    /\ stack \in {MF, MFM} => flow.edit
    /\ stack = MF => mgr.state = "Default"
    /\ stack \in {FM, MFM} => mgr.state = "SelectFolder"
    /\ popup # NoPopup =>
          /\ stack \notin {F, MF}
          /\ ManagerOnTop(stack) => mgr.state \in {"Default", "SelectFolder"}

Running ==
    /\ StackFits
    /\ IsFlow(flow) /\ IsPopup(popup)
    /\ IsManager(store, next, mgr)
    /\ HasManager(stack) => Current(store, mgr, mgr.state)
    /\ ManagerOnTop(stack) /\ mgr.state \in {"Delete", "Share"} => TicksOK(mgr)

Inv ==
    /\ next \in 1..(MaxId + 1)
    /\ IsStore(store, next)
    /\ alive \in BOOLEAN /\ page \in Urls \cup Names
    /\ alive => Running

-----------------------------------------------------------------------------
(***************************************************************************)
(* Sets in an order.                                                       *)
(***************************************************************************)

IsOrder(S, R) ==
    /\ R \subseteq S \X S
    /\ \A a \in S : <<a, a>> \in R
    /\ \A a, b \in S : <<a, b>> \in R \/ <<b, a>> \in R
    /\ \A a, b \in S : <<a, b>> \in R /\ <<b, a>> \in R => a = b
    /\ \A a, b, c \in S : <<a, b>> \in R /\ <<b, c>> \in R => <<a, c>> \in R

(* How many elements are not behind b. *)
Rank(S, R, b) == Cardinality({a \in S : <<a, b>> \in R})

(* Each rank is that of one element. *)
LEMMA RankOK ==
    ASSUME NEW S, IsFiniteSet(S), NEW R, IsOrder(S, R)
    PROVE  /\ Cardinality(S) \in Nat
           /\ \A b \in S : Rank(S, R, b) \in 1 .. Cardinality(S)
           /\ \A a, b \in S : Rank(S, R, a) < Rank(S, R, b) <=> a # b /\ <<a, b>> \in R
           /\ \A k \in 1 .. Cardinality(S) : \E b \in S : Rank(S, R, b) = k
<1> DEFINE n == Cardinality(S)
           D(b) == {a \in S : <<a, b>> \in R}
           r == [b \in S |-> Cardinality(D(b))]
<1>1. n \in Nat
  BY FS_CardinalityType
<1>2. \A b \in S : IsFiniteSet(D(b)) /\ r[b] \in 1 .. n
  <2> SUFFICES ASSUME NEW b \in S
               PROVE  IsFiniteSet(D(b)) /\ r[b] \in 1 .. n
    OBVIOUS
  <2>1. D(b) \subseteq S /\ D(b) # {}
    BY DEF IsOrder
  <2> HIDE DEF D
  <2>2. IsFiniteSet(D(b)) /\ Cardinality(D(b)) <= n
    BY <2>1, FS_Subset
  <2>3. Cardinality(D(b)) \in Nat /\ Cardinality(D(b)) # 0
    BY <2>1, <2>2, FS_CardinalityType, FS_EmptySet
  <2> QED BY <1>1, <2>2, <2>3
<1>3. \A a, b \in S : a # b /\ <<a, b>> \in R => r[a] < r[b]
  <2> SUFFICES ASSUME NEW a \in S, NEW b \in S, a # b, <<a, b>> \in R
               PROVE  r[a] < r[b]
    OBVIOUS
  <2>1. D(a) \subseteq D(b) /\ b \in D(b) /\ b \notin D(a)
    BY DEF IsOrder
  <2>2. IsFiniteSet(D(a)) /\ IsFiniteSet(D(b)) /\ r[a] \in 1 .. n /\ r[b] \in 1 .. n
    BY <1>2
  <2>3. r[a] = Cardinality(D(a)) /\ r[b] = Cardinality(D(b))
    OBVIOUS
  <2> HIDE DEF D, r, n
  <2>4. Cardinality(D(a)) <= Cardinality(D(b)) /\ Cardinality(D(a)) # Cardinality(D(b))
    BY <2>1, <2>2, FS_Subset
  <2> QED BY <1>1, <2>2, <2>3, <2>4
<1>4. \A a, b \in S : r[a] < r[b] <=> a # b /\ <<a, b>> \in R
  <2> SUFFICES ASSUME NEW a \in S, NEW b \in S, r[a] < r[b]
               PROVE  a # b /\ <<a, b>> \in R
    BY <1>3
  <2>1. r[a] \in Int /\ r[b] \in Int
    BY <1>1, <1>2
  <2>2. a # b
    <3> HIDE DEF r
    <3> QED BY <2>1
  <2>3. <<a, b>> \in R \/ <<b, a>> \in R
    BY DEF IsOrder
  <2>4. ~(<<b, a>> \in R)
    <3> SUFFICES ASSUME <<b, a>> \in R
                 PROVE  FALSE
      OBVIOUS
    <3> HIDE DEF r
    <3>1. r[b] < r[a]
      BY <1>3, <2>2
    <3> QED BY <2>1, <3>1
  <2> QED BY <2>2, <2>3, <2>4
<1>5. r \in Injection(S, 1 .. n)
  <2>1. r \in [S -> 1 .. n]
    BY <1>2
  <2>2. \A a, b \in S : r[a] = r[b] => a = b
    <3> SUFFICES ASSUME NEW a \in S, NEW b \in S, r[a] = r[b], a # b
                 PROVE  FALSE
      OBVIOUS
    <3>1. <<a, b>> \in R \/ <<b, a>> \in R
      BY DEF IsOrder
    <3>2. r[a] \in Int /\ r[b] \in Int
      BY <1>1, <1>2
    <3> HIDE DEF r
    <3>3. r[a] < r[b] \/ r[b] < r[a]
      BY <1>3, <3>1
    <3> QED BY <3>2, <3>3
  <2> HIDE DEF r
  <2> QED BY <2>1, <2>2 DEF Injection, IsInjective
<1>6. r \in Surjection(S, 1 .. n)
  <2>1. IsFiniteSet(1 .. n) /\ Cardinality(1 .. n) = n
    BY <1>1, FS_Interval
  <2> HIDE DEF r
  <2> QED BY <1>5, <2>1, FS_Injection
<1>7. \A k \in 1 .. n : \E b \in S : r[b] = k
  BY <1>6 DEF Surjection
<1>8. \A b \in S : r[b] = Rank(S, R, b)
  BY DEF Rank
<1> HIDE DEF r, n, D
<1>9. \A k \in 1 .. n : \E b \in S : Rank(S, R, b) = k
  BY <1>7, <1>8
<1> QED BY <1>1, <1>2, <1>4, <1>8, <1>9 DEF n

(* Enumerated in order, each element once.                                 *)
LEMMA InOrderOK ==
    ASSUME NEW S, IsFiniteSet(S), NEW R, IsOrder(S, R)
    PROVE  LET t == InOrder(S, R)
           IN  /\ Cardinality(S) \in Nat /\ t \in [1 .. Cardinality(S) -> S]
               /\ \A b \in S : \E k \in DOMAIN t : t[k] = b
               /\ \A j, k \in DOMAIN t : j < k <=> t[j] # t[k] /\ <<t[j], t[k]>> \in R
<1> DEFINE n == Cardinality(S)
           t == InOrder(S, R)
<1>1. t = [k \in 1 .. n |-> CHOOSE b \in S : Rank(S, R, b) = k]
  BY DEF InOrder, Rank
<1>2. \A k \in 1 .. n : t[k] \in S /\ Rank(S, R, t[k]) = k
  <2> HIDE DEF t
  <2> QED BY <1>1, RankOK
<1>3. DOMAIN t = 1 .. n /\ t \in [1 .. n -> S]
  <2> HIDE DEF t
  <2> QED BY <1>1, <1>2
<1>4. n \in Nat
  BY RankOK
<1> HIDE DEF t, n
<1>5. \A a, b \in S : Rank(S, R, a) = Rank(S, R, b) => a = b
  <2> SUFFICES ASSUME NEW a \in S, NEW b \in S, Rank(S, R, a) = Rank(S, R, b), a # b
               PROVE  FALSE
    OBVIOUS
  <2>1. Rank(S, R, a) \in Int /\ Rank(S, R, b) \in Int
    BY <1>4, RankOK DEF n
  <2>2. Rank(S, R, a) < Rank(S, R, b) \/ Rank(S, R, b) < Rank(S, R, a)
    BY RankOK DEF IsOrder
  <2> QED BY <2>1, <2>2
<1>6. \A b \in S : \E k \in 1 .. n : t[k] = b
  <2> SUFFICES ASSUME NEW b \in S
               PROVE  \E k \in 1 .. n : t[k] = b
    OBVIOUS
  <2>1. Rank(S, R, b) \in 1 .. n
    BY RankOK DEF n
  <2>2. t[Rank(S, R, b)] = b
    BY <1>2, <1>5, <2>1
  <2> QED BY <2>1, <2>2
<1>7. \A j, k \in 1 .. n : j < k <=> t[j] # t[k] /\ <<t[j], t[k]>> \in R
  <2> SUFFICES ASSUME NEW j \in 1 .. n, NEW k \in 1 .. n
               PROVE  j < k <=> t[j] # t[k] /\ <<t[j], t[k]>> \in R
    OBVIOUS
  <2>1. /\ t[j] \in S /\ t[k] \in S
        /\ Rank(S, R, t[j]) = j /\ Rank(S, R, t[k]) = k
    BY <1>2
  <2>2. Rank(S, R, t[j]) < Rank(S, R, t[k]) <=> t[j] # t[k] /\ <<t[j], t[k]>> \in R
    BY <2>1, RankOK
  <2> QED BY <2>1, <2>2
<1> QED BY <1>3, <1>4, <1>6, <1>7 DEF t, n

(* The first and the last of some numbers.                                 *)
LEMMA FirstAndLast ==
    ASSUME NEW S \in SUBSET Int, IsFiniteSet(S), S # {}
    PROVE  Min(S) \in S /\ Max(S) \in S
<1> DEFINE R == {p \in S \X S : p[1] <= p[2]}
           n == Cardinality(S)
<1>1. \A a, b \in S : <<a, b>> \in R <=> a <= b
  OBVIOUS
<1>2. IsOrder(S, R)
  <2>1. R \subseteq S \X S
    OBVIOUS
  <2> HIDE DEF R
  <2> QED BY <1>1, <2>1 DEF IsOrder
<1> HIDE DEF R
<1>3. n \in Nat /\ n # 0
  BY FS_CardinalityType, FS_EmptySet
<1>4. /\ \A b \in S : Rank(S, R, b) \in 1 .. n
      /\ \A a, b \in S : Rank(S, R, a) < Rank(S, R, b) <=> a # b /\ a <= b
      /\ \A k \in 1 .. n : \E b \in S : Rank(S, R, b) = k
  <2>1. /\ \A b \in S : Rank(S, R, b) \in 1 .. n
        /\ \A a, b \in S : Rank(S, R, a) < Rank(S, R, b) <=> a # b /\ <<a, b>> \in R
        /\ \A k \in 1 .. n : \E b \in S : Rank(S, R, b) = k
    BY <1>2, RankOK
  <2> HIDE DEF n
  <2> QED BY <1>1, <2>1
<1> HIDE DEF n
<1>5. 1 \in 1 .. n /\ n \in 1 .. n
  BY <1>3
<1>6. PICK a \in S : Rank(S, R, a) = 1
  BY <1>4, <1>5
<1>7. \A b \in S : a <= b
  <2> SUFFICES ASSUME NEW b \in S, ~(a <= b)
               PROVE  FALSE
    OBVIOUS
  <2>1. Rank(S, R, b) < Rank(S, R, a) /\ Rank(S, R, b) \in 1 .. n
    BY <1>4
  <2> QED BY <1>3, <1>6, <2>1
<1>8. PICK c \in S : Rank(S, R, c) = n
  BY <1>4, <1>5
<1>9. \A b \in S : c >= b
  <2> SUFFICES ASSUME NEW b \in S, ~(c >= b)
               PROVE  FALSE
    OBVIOUS
  <2>1. Rank(S, R, c) < Rank(S, R, b) /\ Rank(S, R, b) \in 1 .. n
    BY <1>4
  <2> QED BY <1>3, <1>8, <2>1
<1> QED BY <1>7, <1>9 DEF Min, Max

(* What is kept of a list stays in its order.                              *)
LEMMA KeptOK ==
    ASSUME NEW X, NEW s \in Seq(X), NEW K \in SUBSET DOMAIN s, NEW t, t = Kept(s, K)
    PROVE  /\ t \in Seq(X)
           /\ \E h \in [DOMAIN t -> K] :
                /\ \A k \in DOMAIN t : t[k] = s[h[k]]
                /\ \A j, k \in DOMAIN t : h[j] = h[k] => j = k
                /\ \A i \in K : \E k \in DOMAIN t : h[k] = i
<1> DEFINE R == {p \in K \X K : p[1] <= p[2]}
           f == InOrder(K, R)
           n == Cardinality(K)
<1>1. DOMAIN s = 1 .. Len(s) /\ Len(s) \in Nat
  OBVIOUS
<1>2. IsFiniteSet(K) /\ K \subseteq Int
  <2>1. IsFiniteSet(1 .. Len(s)) /\ K \subseteq 1 .. Len(s)
    BY <1>1, FS_Interval
  <2> QED BY <2>1, FS_Subset
<1>3. \A a, b \in K : <<a, b>> \in R <=> a <= b
  OBVIOUS
<1>4. IsOrder(K, R)
  <2>1. R \subseteq K \X K
    OBVIOUS
  <2> HIDE DEF R
  <2> QED BY <1>2, <1>3, <2>1 DEF IsOrder
<1>5. t = [k \in DOMAIN f |-> s[f[k]]]
  BY DEF Kept
<1> HIDE DEF R
<1>6. /\ n \in Nat /\ f \in [1 .. n -> K]
      /\ \A b \in K : \E k \in DOMAIN f : f[k] = b
      /\ \A j, k \in DOMAIN f : j < k <=> f[j] # f[k] /\ <<f[j], f[k]>> \in R
  BY <1>2, <1>4, InOrderOK
<1> HIDE DEF f, n
<1>7. \A j, k \in DOMAIN f : f[j] = f[k] => j = k
  <2> SUFFICES ASSUME NEW j \in DOMAIN f, NEW k \in DOMAIN f, f[j] = f[k]
               PROVE  j = k
    OBVIOUS
  <2>1. j \in Int /\ k \in Int
    BY <1>6
  <2>2. ~(j < k) /\ ~(k < j)
    BY <1>6
  <2> QED BY <2>1, <2>2
<1>8. DOMAIN t = 1 .. n /\ \A k \in 1 .. n : t[k] = s[f[k]] /\ t[k] \in X
  <2>1. DOMAIN f = 1 .. n /\ \A k \in 1 .. n : f[k] \in DOMAIN s
    BY <1>6
  <2>2. \A i \in DOMAIN s : s[i] \in X
    BY <1>1
  <2> QED BY <1>5, <2>1, <2>2
<1>9. t \in Seq(X)
  <2>1. t \in [1 .. n -> X] /\ n \in Nat
    BY <1>5, <1>6, <1>8
  <2> QED BY <2>1, SeqDef
<1>10. \E h \in [DOMAIN t -> K] :
          /\ \A k \in DOMAIN t : t[k] = s[h[k]]
          /\ \A j, k \in DOMAIN t : h[j] = h[k] => j = k
          /\ \A i \in K : \E k \in DOMAIN t : h[k] = i
  <2>1. DOMAIN f = DOMAIN t /\ f \in [DOMAIN t -> K]
    BY <1>6, <1>8
  <2>2. \A k \in DOMAIN t : t[k] = s[f[k]]
    BY <1>8
  <2>3. \A j, k \in DOMAIN t : f[j] = f[k] => j = k
    BY <1>7, <2>1
  <2>4. \A i \in K : \E k \in DOMAIN t : f[k] = i
    BY <1>6, <2>1
  <2> QED BY <2>1, <2>2, <2>3, <2>4
<1> QED BY <1>9, <1>10

(* What the database answers with.                                         *)
LEMMA ItemOfOK ==
    ASSUME NEW st, NEW n, IsStore(st, n), NEW i \in DOMAIN st
    PROVE  /\ ItemOf(st, i) \in Item /\ ItemOf(st, i).id = i
           /\ ItemOf(st, i).folder = st[i].folder /\ ItemOf(st, i).parent = st[i].parent
           /\ ItemOf(st, i).order = st[i].seq /\ ItemOf(st, i).name = st[i].name
<1>1. i \in Ids /\ st[i] \in Entry
  BY DEF IsStore
<1>2. /\ st[i].folder \in BOOLEAN /\ st[i].parent \in Ids \cup {Root}
      /\ st[i].seq \in Nat /\ st[i].name \in Urls \cup Names
  BY <1>1 DEF Entry
<1> QED BY <1>1, <1>2 DEF ItemOf, Item

LEMMA ItemsOK ==
    ASSUME NEW st, NEW n, IsStore(st, n), NEW f
    PROVE  LET g == GetAllBookmarkItems(st, f)
           IN  /\ g \in Seq(Item)
               /\ \A k \in DOMAIN g : /\ g[k].id \in Children(st, f)
                                      /\ g[k] = ItemOf(st, g[k].id)
               /\ \A i \in Children(st, f) : \E k \in DOMAIN g : g[k].id = i
               /\ \A j, k \in DOMAIN g : g[j].id = g[k].id => j = k
<1> DEFINE C == Children(st, f)
           R == {p \in C \X C : ~Before(st, p[2], p[1])}
           t == InOrder(C, R)
           m == Cardinality(C)
           g == GetAllBookmarkItems(st, f)
<1>1. IsFiniteSet(C) /\ C \subseteq DOMAIN st /\ C \subseteq Int
  <2>1. C \subseteq DOMAIN st /\ DOMAIN st \subseteq Ids
    BY DEF Children, IsStore
  <2>2. IsFiniteSet(Ids) /\ Ids \subseteq Int
    BY MaxIdAssumption, FS_Interval DEF Ids
  <2> HIDE DEF C
  <2> QED BY <2>1, <2>2, FS_Subset
<1>2. \A a \in C : st[a].seq \in Int
  BY <1>1 DEF IsStore, Entry
<1> HIDE DEF C
<1>3. \A a, b \in C : <<a, b>> \in R <=> ~Before(st, b, a)
  OBVIOUS
<1>4. IsOrder(C, R)
  <2>1. R \subseteq C \X C
    OBVIOUS
  <2> HIDE DEF R
  <2> DEFINE q(a) == st[a].seq
  <2>2. \A a \in C : q(a) \in Int
    BY <1>2
  <2>3. \A a, b \in C : <<a, b>> \in R <=> ~(q(b) < q(a) \/ (q(b) = q(a) /\ b < a))
    BY <1>3 DEF Before
  <2> HIDE DEF q
  <2> QED BY <1>1, <2>1, <2>2, <2>3 DEF IsOrder
<1>5. g = [k \in DOMAIN t |-> ItemOf(st, t[k])]
  BY DEF GetAllBookmarkItems, C
<1> HIDE DEF R
<1>6. /\ m \in Nat /\ t \in [1 .. m -> C]
      /\ \A b \in C : \E k \in DOMAIN t : t[k] = b
      /\ \A j, k \in DOMAIN t : j < k <=> t[j] # t[k] /\ <<t[j], t[k]>> \in R
  BY <1>1, <1>4, InOrderOK
<1> HIDE DEF t, m, g
<1>7. \A j, k \in DOMAIN t : t[j] = t[k] => j = k
  <2> SUFFICES ASSUME NEW j \in DOMAIN t, NEW k \in DOMAIN t, t[j] = t[k]
               PROVE  j = k
    OBVIOUS
  <2>1. j \in Int /\ k \in Int
    BY <1>6
  <2>2. ~(j < k) /\ ~(k < j)
    BY <1>6
  <2> QED BY <2>1, <2>2
<1>8. DOMAIN t = 1 .. m /\ DOMAIN g = 1 .. m
      /\ \A k \in 1 .. m : /\ t[k] \in C /\ g[k] = ItemOf(st, t[k])
                           /\ g[k] \in Item /\ g[k].id = t[k]
  BY <1>1, <1>5, <1>6, ItemOfOK
<1>9. g \in Seq(Item)
  <2>1. g \in [1 .. m -> Item]
    BY <1>5, <1>8
  <2> QED BY <1>6, <2>1, SeqDef
<1> QED BY <1>6, <1>7, <1>8, <1>9 DEF g, C

-----------------------------------------------------------------------------
(***************************************************************************)
(* Lists of items.                                                         *)
(***************************************************************************)

(* A list of some items of a good list, each once, is good.                *)
LEMMA SomeListed ==
    ASSUME NEW st, NEW n, NEW s, Listed(st, n, s), NEW t \in Seq(Item),
           NEW f, \A k \in DOMAIN t : f[k] \in DOMAIN s /\ t[k] = s[f[k]],
           \A j, k \in DOMAIN t : f[j] = f[k] => j = k
    PROVE  Listed(st, n, t) /\ (Agree(st, s) => Agree(st, t))
<1>1. \A k \in DOMAIN t : f[k] \in DOMAIN s /\ t[k] = s[f[k]]
  OBVIOUS
<1>2. \A k \in DOMAIN t : t[k].id < n
  BY <1>1 DEF Listed
<1>3. \A j, k \in DOMAIN t : t[j].id = t[k].id /\ t[j].id # Root => j = k
  <2> SUFFICES ASSUME NEW j \in DOMAIN t, NEW k \in DOMAIN t,
                      t[j].id = t[k].id, t[j].id # Root
               PROVE  j = k
    OBVIOUS
  <2>1. f[j] = f[k]
    BY <1>1 DEF Listed
  <2> QED BY <2>1
<1>4. \A k \in DOMAIN t : t[k].id \in DOMAIN st => t[k].order \in {0, st[t[k].id].seq}
  BY <1>1 DEF Listed
<1>5. ASSUME Agree(st, s)
      PROVE  Agree(st, t)
  BY <1>1, <1>5 DEF Agree
<1> QED BY <1>2, <1>3, <1>4, <1>5 DEF Listed

LEMMA KeptListed ==
    ASSUME NEW st, NEW n, NEW s, Listed(st, n, s), NEW K \in SUBSET DOMAIN s,
           NEW t, t = Kept(s, K)
    PROVE  /\ Listed(st, n, t) /\ (Agree(st, s) => Agree(st, t))
           /\ \A k \in K : s[k].id \in IdsOf(t)
<1>1. s \in Seq(Item)
  BY DEF Listed
<1>2. /\ t \in Seq(Item)
      /\ \E h \in [DOMAIN t -> K] :
           /\ \A k \in DOMAIN t : t[k] = s[h[k]]
           /\ \A j, k \in DOMAIN t : h[j] = h[k] => j = k
           /\ \A i \in K : \E k \in DOMAIN t : h[k] = i
  BY <1>1, KeptOK
<1>3. PICK h \in [DOMAIN t -> K] :
           /\ \A k \in DOMAIN t : t[k] = s[h[k]]
           /\ \A j, k \in DOMAIN t : h[j] = h[k] => j = k
           /\ \A i \in K : \E k \in DOMAIN t : h[k] = i
  BY <1>2
<1>4. \A k \in DOMAIN t : h[k] \in DOMAIN s /\ t[k] = s[h[k]]
  BY <1>3
<1>5. Listed(st, n, t) /\ (Agree(st, s) => Agree(st, t))
  BY <1>2, <1>3, <1>4, SomeListed
<1>6. ASSUME NEW k \in K
      PROVE  s[k].id \in IdsOf(t)
  BY <1>3 DEF IdsOf
<1> QED BY <1>5, <1>6

(* What the database answers with is current.                              *)
LEMMA FilledOK ==
    ASSUME NEW st, NEW n, IsStore(st, n), NEW f, NEW g, g = GetAllBookmarkItems(st, f)
    PROVE  /\ Listed(st, n, g) /\ Agree(st, g)
           /\ \A i \in Children(st, f) : i \in IdsOf(g)
<1>1. /\ g \in Seq(Item)
      /\ \A k \in DOMAIN g : /\ g[k].id \in Children(st, f)
                             /\ g[k] = ItemOf(st, g[k].id)
      /\ \A i \in Children(st, f) : \E k \in DOMAIN g : g[k].id = i
      /\ \A j, k \in DOMAIN g : g[j].id = g[k].id => j = k
  BY ItemsOK
<1>2. Children(st, f) \subseteq DOMAIN st /\ \A i \in DOMAIN st : i < n
  BY DEF Children, IsStore
<1>3. \A k \in DOMAIN g : /\ g[k].id < n
                          /\ g[k].folder = st[g[k].id].folder
                          /\ g[k].parent = st[g[k].id].parent
                          /\ g[k].order = st[g[k].id].seq
                          /\ g[k].name = st[g[k].id].name
  BY <1>1, <1>2, ItemOfOK
<1> QED BY <1>1, <1>3 DEF Listed, Agree, IdsOf

(* A new item goes behind the others.                                      *)
(* The item is as in the database, if it is there, and its order fits.     *)
AsStored(st, x) ==
    x.id \in DOMAIN st => /\ x.folder = st[x.id].folder
                          /\ x.name = st[x.id].name
                          /\ x.parent = st[x.id].parent

OrderFits(st, x) == x.id \in DOMAIN st => x.order \in {0, st[x.id].seq}

IsNewTo(s, n, x) == x.id < n /\ \A k \in DOMAIN s : s[k].id # x.id \/ x.id = Root

WithItem(s, x) == Append(s, x)

LEMMA AppendListed ==
    ASSUME NEW st, NEW n, NEW s, Listed(st, n, s), NEW x \in Item,
           IsNewTo(s, n, x), OrderFits(st, x), NEW t, t = WithItem(s, x)
    PROVE  /\ Listed(st, n, t)
           /\ IdsOf(t) = IdsOf(s) \cup {x.id}
           /\ Agree(st, s) /\ AsStored(st, x) => Agree(st, t)
<1>1. s \in Seq(Item) /\ Len(s) \in Nat /\ DOMAIN s = 1 .. Len(s)
  BY DEF Listed
<1>2. t \in Seq(Item) /\ DOMAIN t = 1 .. Len(s) + 1 /\ t[Len(s) + 1] = x
      /\ \A k \in 1 .. Len(s) : t[k] = s[k]
  BY <1>1, AppendProperties DEF WithItem
<1>3. \A k \in DOMAIN t : \/ k \in DOMAIN s /\ t[k] = s[k]
                          \/ k = Len(s) + 1 /\ t[k] = x
  <2> SUFFICES ASSUME NEW k \in 1 .. Len(s) + 1
               PROVE  \/ k \in DOMAIN s /\ t[k] = s[k]
                      \/ k = Len(s) + 1 /\ t[k] = x
    BY <1>2
  <2>1. k \in 1 .. Len(s) \/ k = Len(s) + 1
    BY <1>1
  <2> QED BY <1>1, <1>2, <2>1
<1>4. IdsOf(t) = IdsOf(s) \cup {x.id}
  <2>1. \A k \in DOMAIN s : k \in DOMAIN t /\ t[k] = s[k]
    BY <1>1, <1>2
  <2>2. Len(s) + 1 \in DOMAIN t
    BY <1>1, <1>2
  <2> QED BY <1>2, <1>3, <2>1, <2>2 DEF IdsOf
<1>5. \A k \in DOMAIN t : t[k].id < n
  BY <1>3 DEF Listed, IsNewTo
<1>6. \A j, k \in DOMAIN t : t[j].id = t[k].id /\ t[j].id # Root => j = k
  BY <1>3 DEF Listed, IsNewTo
<1>7. \A k \in DOMAIN t : t[k].id \in DOMAIN st => t[k].order \in {0, st[t[k].id].seq}
  BY <1>3 DEF Listed, OrderFits
<1>8. Agree(st, s) /\ AsStored(st, x) => Agree(st, t)
  BY <1>3 DEF Agree, AsStored
<1> QED BY <1>2, <1>4, <1>5, <1>6, <1>7, <1>8 DEF Listed

(* An item that is dragged leaves the others in their order.               *)
Dragged(j, k, i) ==
    IF i = k THEN j
    ELSE IF i < k THEN (IF i < j THEN i ELSE i + 1)
    ELSE (IF i <= j THEN i - 1 ELSE i)

DraggedFrom(s, j, k) == InsertAt(RemoveAt(s, j), k, s[j])

CameFrom(s, j, k) == [i \in DOMAIN s |-> Dragged(j, k, i)]

(* The list t has the entries of s, those at f in s.                       *)
Rearranged(s, t, f) ==
    /\ DOMAIN t = DOMAIN s
    /\ \A i \in DOMAIN s : f[i] \in DOMAIN s /\ t[i] = s[f[i]]
    /\ \A h, i \in DOMAIN s : f[h] = f[i] => h = i
    /\ \A h \in DOMAIN s : \E i \in DOMAIN s : f[i] = h

LEMMA DraggedOK ==
    ASSUME NEW X, NEW s \in Seq(X), NEW j \in DOMAIN s, NEW k \in DOMAIN s,
           NEW t, t = DraggedFrom(s, j, k)
    PROVE  t \in Seq(X) /\ Rearranged(s, t, CameFrom(s, j, k))
<1> DEFINE f == CameFrom(s, j, k)
           n == Len(s)
           a == SubSeq(s, 1, j - 1)
           b == SubSeq(s, j + 1, n)
           r == RemoveAt(s, j)
           c == SubSeq(r, 1, k - 1)
           d == SubSeq(r, k, Len(r))
           e == c \o <<s[j]>>
<1>1. n \in Nat /\ DOMAIN s = 1 .. n /\ j \in 1 .. n /\ k \in 1 .. n /\ s[j] \in X
  OBVIOUS
<1>2. /\ a \in Seq(X) /\ Len(a) = j - 1 /\ \A i \in 1 .. j - 1 : a[i] = s[i]
  BY <1>1
<1>3. /\ b \in Seq(X) /\ Len(b) = n - j
      /\ \A i \in 1 .. n - j : b[i] = s[j + i]
  BY <1>1
<1>4. r = a \o b
  BY DEF RemoveAt
<1>5. t = e \o d
  BY DEF DraggedFrom, InsertAt
<1> HIDE DEF a, b, r
<1>6. /\ r \in Seq(X) /\ Len(r) = n - 1
      /\ \A i \in 1 .. n - 1 : r[i] = IF i <= j - 1 THEN a[i] ELSE b[i - (j - 1)]
  <2>1. Len(a) + Len(b) = n - 1
    BY <1>1, <1>2, <1>3
  <2>2. /\ r \in Seq(X) /\ Len(r) = Len(a) + Len(b)
        /\ \A i \in 1 .. Len(a) + Len(b) : r[i] = IF i <= Len(a) THEN a[i] ELSE b[i - Len(a)]
    <3>1. a \in Seq(X) /\ b \in Seq(X)
      BY <1>2, <1>3
    <3> QED BY <1>4, <3>1, ConcatProperties
  <2>3. Len(a) = j - 1
    BY <1>2
  <2> HIDE DEF n
  <2> QED BY <2>1, <2>2, <2>3
<1>7. \A i \in 1 .. n - 1 : r[i] = IF i < j THEN s[i] ELSE s[i + 1]
  <2> SUFFICES ASSUME NEW i \in 1 .. n - 1
               PROVE  r[i] = IF i < j THEN s[i] ELSE s[i + 1]
    OBVIOUS
  <2>1. r[i] = IF i <= j - 1 THEN a[i] ELSE b[i - (j - 1)]
    BY <1>6
  <2>2. CASE i < j
    <3>1. i \in 1 .. j - 1 /\ i <= j - 1
      BY <1>1, <2>2
    <3>2. a[i] = s[i]
      BY <1>2, <3>1
    <3> QED BY <2>1, <2>2, <3>1, <3>2
  <2>3. CASE ~(i < j)
    <3>1. i - (j - 1) \in 1 .. n - j /\ j + (i - (j - 1)) = i + 1 /\ ~(i <= j - 1)
      BY <1>1, <2>3
    <3>2. b[i - (j - 1)] = s[i + 1]
      BY <1>3, <3>1
    <3> QED BY <2>1, <2>3, <3>1, <3>2
  <2> QED BY <2>2, <2>3
<1>8. /\ c \in Seq(X) /\ Len(c) = k - 1 /\ \A i \in 1 .. k - 1 : c[i] = r[i]
  <2>1. \A i \in 1 .. k - 1 : r[i] \in X
    BY <1>1, <1>6
  <2> HIDE DEF n
  <2> QED BY <1>1, <2>1, SubSeqProperties
<1>9. /\ d \in Seq(X) /\ Len(d) = n - k
      /\ \A i \in 1 .. n - k : d[i] = r[k + i - 1]
  <2>1. \A i \in k .. n - 1 : r[i] \in X
    BY <1>1, <1>6
  <2>2. /\ SubSeq(r, k, n - 1) \in Seq(X)
        /\ Len(SubSeq(r, k, n - 1)) = IF k <= n - 1 THEN n - 1 - k + 1 ELSE 0
        /\ \A i \in 1 .. n - 1 - k + 1 : SubSeq(r, k, n - 1)[i] = r[k + i - 1]
    <3> n - 1 \in Int /\ k \in Int
      BY <1>1
    <3> HIDE DEF n
    <3> QED BY <2>1, SubSeqProperties
  <2>3. n - 1 - k + 1 = n - k /\ (~(k <= n - 1) => n - k = 0)
    BY <1>1
  <2>4. d = SubSeq(r, k, n - 1)
    BY <1>6
  <2> HIDE DEF n, d
  <2> QED BY <2>2, <2>3, <2>4
<1> HIDE DEF c, d
<1>10. /\ e \in Seq(X) /\ Len(e) = k /\ e[k] = s[j]
       /\ \A i \in 1 .. k - 1 : e[i] = c[i]
  <2>1. e = Append(c, s[j])
    BY <1>1, <1>8, AppendIsConcat
  <2>2. /\ Append(c, s[j]) \in Seq(X) /\ Len(Append(c, s[j])) = Len(c) + 1
        /\ \A i \in 1.. Len(c) : Append(c, s[j])[i] = c[i]
        /\ Append(c, s[j])[Len(c) + 1] = s[j]
    BY <1>1, <1>8, AppendProperties
  <2>3. Len(c) + 1 = k
    BY <1>1, <1>8
  <2> QED BY <1>8, <2>1, <2>2, <2>3
<1> HIDE DEF e
<1>11. /\ t \in Seq(X) /\ DOMAIN t = 1 .. n
       /\ \A i \in 1 .. n : t[i] = IF i <= k THEN e[i] ELSE d[i - k]
  <2>1. Len(e) + Len(d) = n /\ Len(e) = k
    BY <1>1, <1>9, <1>10
  <2>2. /\ t \in Seq(X) /\ Len(t) = Len(e) + Len(d)
        /\ \A i \in 1 .. Len(e) + Len(d) : t[i] = IF i <= Len(e) THEN e[i] ELSE d[i - Len(e)]
    <3>1. e \in Seq(X) /\ d \in Seq(X)
      BY <1>9, <1>10
    <3> QED BY <1>5, <3>1, ConcatProperties
  <2> HIDE DEF n
  <2> QED BY <2>1, <2>2
<1>12. \A i \in 1 .. n : t[i] = s[Dragged(j, k, i)]
  <2> SUFFICES ASSUME NEW i \in 1 .. n
               PROVE  t[i] = s[Dragged(j, k, i)]
    OBVIOUS
  <2>0. t[i] = IF i <= k THEN e[i] ELSE d[i - k]
    BY <1>11
  <2>1. CASE i = k
    BY <1>1, <1>10, <2>0, <2>1 DEF Dragged
  <2>2. CASE i < k
    <3>1. i \in 1 .. k - 1 /\ i \in 1 .. n - 1 /\ i <= k /\ i # k
      BY <1>1, <2>2
    <3>2. t[i] = r[i]
      BY <1>8, <1>10, <2>0, <3>1
    <3>3. r[i] = IF i < j THEN s[i] ELSE s[i + 1]
      BY <1>7, <3>1
    <3> QED BY <2>2, <3>1, <3>2, <3>3 DEF Dragged
  <2>3. CASE i > k
    <3>1. i - k \in 1 .. n - k /\ k + (i - k) - 1 = i - 1 /\ i - 1 \in 1 .. n - 1
          /\ ~(i <= k) /\ (i - 1) + 1 = i
      BY <1>1, <2>3
    <3>2. t[i] = r[i - 1]
      BY <1>9, <2>0, <3>1
    <3>3. r[i - 1] = IF i - 1 < j THEN s[i - 1] ELSE s[i]
      BY <1>7, <3>1
    <3>4. ~(i < k) /\ i # k /\ (i - 1 < j <=> i <= j)
      BY <1>1, <2>3
    <3> QED BY <3>2, <3>3, <3>4 DEF Dragged
  <2> QED BY <1>1, <2>1, <2>2, <2>3
<1>13. \A i \in 1 .. n : Dragged(j, k, i) \in 1 .. n
  BY <1>1 DEF Dragged
<1>14. \A h, i \in 1 .. n : Dragged(j, k, h) = Dragged(j, k, i) => h = i
  <2> HIDE DEF n
  <2> QED BY <1>1 DEF Dragged
<1>15. \A h \in 1 .. n : \E i \in 1 .. n : Dragged(j, k, i) = h
  <2> SUFFICES ASSUME NEW h \in 1 .. n
               PROVE  \E i \in 1 .. n : Dragged(j, k, i) = h
    OBVIOUS
  <2> HIDE DEF n
  <2>1. CASE h = j
    BY <1>1, <2>1 DEF Dragged
  <2>2. CASE h # j /\ h < j
    <3>1. CASE h < k
      BY <1>1, <2>2, <3>1 DEF Dragged
    <3>2. CASE ~(h < k)
      <4>1. h + 1 \in 1 .. n /\ Dragged(j, k, h + 1) = h
        BY <1>1, <2>2, <3>2 DEF Dragged
      <4> QED BY <4>1
    <3> QED BY <3>1, <3>2
  <2>3. CASE h # j /\ ~(h < j)
    <3>1. CASE h > k
      BY <1>1, <2>3, <3>1 DEF Dragged
    <3>2. CASE ~(h > k)
      <4>1. h - 1 \in 1 .. n /\ Dragged(j, k, h - 1) = h
        BY <1>1, <2>3, <3>2 DEF Dragged
      <4> QED BY <4>1
    <3> QED BY <3>1, <3>2
  <2> QED BY <2>1, <2>2, <2>3
<1>16. \A i \in 1 .. n : f[i] = Dragged(j, k, i)
  BY <1>1 DEF CameFrom
<1> HIDE DEF f
<1>17. DOMAIN s = 1 .. n /\ DOMAIN t = 1 .. n /\ t \in Seq(X)
  BY <1>1, <1>11
<1> HIDE DEF n
<1>18. \A i \in DOMAIN s : f[i] \in DOMAIN s /\ t[i] = s[f[i]]
  BY <1>12, <1>13, <1>16, <1>17
<1>19. \A h, i \in DOMAIN s : f[h] = f[i] => h = i
  BY <1>14, <1>16, <1>17
<1>20. \A h \in DOMAIN s : \E i \in DOMAIN s : f[i] = h
  BY <1>15, <1>16, <1>17
<1>21. t \in Seq(X) /\ DOMAIN t = DOMAIN s
  BY <1>17
<1>22. Rearranged(s, t, f)
  BY <1>18, <1>19, <1>20, <1>21 DEF Rearranged
<1> QED BY <1>21, <1>22 DEF f

LEMMA DraggedListed ==
    ASSUME NEW st, NEW n, NEW s, Listed(st, n, s), NEW j \in DOMAIN s, NEW k \in DOMAIN s,
           NEW t, t = DraggedFrom(s, j, k)
    PROVE  /\ Listed(st, n, t) /\ (Agree(st, s) => Agree(st, t))
           /\ IdsOf(t) = IdsOf(s)
<1>1. s \in Seq(Item)
  BY DEF Listed
<1> DEFINE f == CameFrom(s, j, k)
<1>3. /\ t \in Seq(Item) /\ DOMAIN t = DOMAIN s
      /\ \A i \in DOMAIN s : f[i] \in DOMAIN s /\ t[i] = s[f[i]]
      /\ \A h, i \in DOMAIN s : f[h] = f[i] => h = i
      /\ \A h \in DOMAIN s : \E i \in DOMAIN s : f[i] = h
  <2>1. t \in Seq(Item) /\ Rearranged(s, t, f)
    BY <1>1, DraggedOK
  <2> HIDE DEF f
  <2> QED BY <2>1 DEF Rearranged
<1> HIDE DEF f
<1>4. Listed(st, n, t) /\ (Agree(st, s) => Agree(st, t))
  <2>1. \A i \in DOMAIN t : f[i] \in DOMAIN s /\ t[i] = s[f[i]]
    BY <1>3
  <2>2. \A h, i \in DOMAIN t : f[h] = f[i] => h = i
    BY <1>3
  <2>3. t \in Seq(Item)
    BY <1>3
  <2> QED BY <2>1, <2>2, <2>3, SomeListed
<1>5. IdsOf(t) = IdsOf(s)
  <2>1. \A i \in DOMAIN s : f[i] \in DOMAIN s /\ t[i].id = s[f[i]].id
    BY <1>3
  <2>2. \A h \in DOMAIN s : \E i \in DOMAIN s : t[i].id = s[h].id
    <3> SUFFICES ASSUME NEW h \in DOMAIN s
                 PROVE  \E i \in DOMAIN s : t[i].id = s[h].id
      OBVIOUS
    <3>1. PICK i \in DOMAIN s : f[i] = h
      BY <1>3
    <3>2. t[i] = s[f[i]]
      BY <1>3
    <3> QED BY <3>1, <3>2
  <2>3. DOMAIN t = DOMAIN s
    BY <1>3
  <2>4. ASSUME NEW x \in IdsOf(t)
        PROVE  x \in IdsOf(s)
    BY <2>1, <2>3 DEF IdsOf
  <2>5. ASSUME NEW x \in IdsOf(s)
        PROVE  x \in IdsOf(t)
    BY <2>2, <2>3 DEF IdsOf
  <2> QED BY <2>4, <2>5
<1> QED BY <1>4, <1>5

-----------------------------------------------------------------------------
(***************************************************************************)
(* The order of the list is written.                                       *)
(***************************************************************************)

(* Only the places of the entries may have changed. *)
SameEntries(st, st2) ==
    /\ DOMAIN st2 = DOMAIN st
    /\ \A i \in DOMAIN st : /\ st2[i].folder = st[i].folder
                            /\ st2[i].parent = st[i].parent
                            /\ st2[i].name = st[i].name

(* Only the orders of the items may have changed. *)
SameItems(s, t) ==
    /\ DOMAIN t = DOMAIN s
    /\ \A k \in DOMAIN s : /\ t[k].id = s[k].id
                           /\ t[k].folder = s[k].folder
                           /\ t[k].parent = s[k].parent
                           /\ t[k].name = s[k].name

(* What is listed has its place on the list in the database. *)
InPlace(st, s) == \A k \in DOMAIN s : s[k].id \in DOMAIN st => st[s[k].id].seq = k

LEMMA SameAgree ==
    ASSUME NEW st, NEW st2, SameEntries(st, st2), NEW s, NEW t, SameItems(s, t)
    PROVE  /\ Agree(st, s) => Agree(st2, t)
           /\ IdsOf(t) = IdsOf(s)
           /\ \A f : Children(st2, f) = Children(st, f)
<1>1. Agree(st, s) => Agree(st2, t)
  BY DEF SameEntries, SameItems, Agree
<1>2. IdsOf(t) = IdsOf(s)
  BY DEF SameItems, IdsOf
<1>3. \A f : Children(st2, f) = Children(st, f)
  BY DEF SameEntries, Children
<1> QED BY <1>1, <1>2, <1>3

LEMMA SameStays ==
    ASSUME NEW st, NEW s
    PROVE  SameEntries(st, st) /\ SameItems(s, s)
  BY DEF SameEntries, SameItems

LEMMA PositionOK ==
    ASSUME NEW st, NEW n, NEW s, Listed(st, n, s), NEW i \in IdsOf(s)
    PROVE  /\ Position(s, i) \in DOMAIN s /\ Position(s, i) \in Nat \ {0}
           /\ s[Position(s, i)].id = i
           /\ i # Root => \A k \in DOMAIN s : s[k].id = i => k = Position(s, i)
<1>1. \E k \in DOMAIN s : s[k].id = i
  BY DEF IdsOf
<1>2. Position(s, i) \in DOMAIN s /\ s[Position(s, i)].id = i
  BY <1>1 DEF Position
<1>3. DOMAIN s \subseteq Nat \ {0}
  BY DEF Listed
<1> HIDE DEF Position
<1>4. ASSUME i # Root, NEW k \in DOMAIN s, s[k].id = i
      PROVE  k = Position(s, i)
  BY <1>2, <1>4 DEF Listed
<1> QED BY <1>2, <1>3, <1>4

Renumbered(s, list) ==
    [k \in DOMAIN s |-> IF s[k].id \in IdsOf(list)
                        THEN [s[k] EXCEPT !.order = Position(list, s[k].id)]
                        ELSE s[k]]

LEMMA WrittenOrderOK ==
    ASSUME NEW st, NEW n, IsStore(st, n), NEW m, Listed(st, n, m.list),
           NEW st2, st2 = WrittenOrder(st, m)
    PROVE  /\ IsStore(st2, n) /\ SameEntries(st, st2) /\ InPlace(st2, m.list)
           /\ \A i \in DOMAIN st :
                 st2[i].seq = IF i \in IdsOf(m.list) THEN Position(m.list, i) ELSE st[i].seq
<1> DEFINE s == m.list
           moved == {k \in DOMAIN s : s[k].order # k /\ s[k].id \in DOMAIN st}
           Moved(i) == \E k \in moved : s[k].id = i
<1>1. st2 = [i \in DOMAIN st |-> IF Moved(i) THEN [st[i] EXCEPT !.seq = Position(s, i)]
                                 ELSE st[i]]
  BY DEF WrittenOrder
<1> HIDE DEF Moved
<1>2. DOMAIN st2 = DOMAIN st /\ st2 = [i \in DOMAIN st2 |-> st2[i]]
  BY <1>1
<1>3. ASSUME NEW i \in DOMAIN st
      PROVE  /\ st2[i] \in Entry
             /\ st2[i].folder = st[i].folder /\ st2[i].parent = st[i].parent
             /\ st2[i].name = st[i].name
             /\ st2[i].seq = IF i \in IdsOf(s) THEN Position(s, i) ELSE st[i].seq
  <2>1. st[i] \in Entry /\ i \in Ids
    BY DEF IsStore
  <2>2. i # Root
    BY <2>1 DEF Ids, Root
  <2>3. CASE Moved(i)
    <3>1. i \in IdsOf(s)
      BY <2>3 DEF Moved, IdsOf
    <3>2. Position(s, i) \in Nat
      BY <3>1, PositionOK
    <3>3. st2[i] = [st[i] EXCEPT !.seq = Position(s, i)]
      BY <1>1, <2>3
    <3> QED BY <2>1, <3>1, <3>2, <3>3 DEF Entry
  <2>4. CASE ~Moved(i) /\ i \in IdsOf(s)
    <3> DEFINE k == Position(s, i)
    <3>1. k \in DOMAIN s /\ k \in Nat \ {0} /\ s[k].id = i
      BY <2>4, PositionOK
    <3> HIDE DEF k
    <3>2. s[k].order = k
      BY <2>4, <3>1 DEF Moved
    <3>3. s[k].order \in {0, st[i].seq}
      BY <3>1 DEF Listed
    <3>4. st[i].seq = k
      BY <3>1, <3>2, <3>3
    <3>5. st2[i] = st[i]
      BY <1>1, <2>4
    <3> QED BY <2>1, <2>4, <3>4, <3>5 DEF k
  <2>5. CASE ~Moved(i) /\ i \notin IdsOf(s)
    <3>1. st2[i] = st[i]
      BY <1>1, <2>5
    <3> QED BY <2>1, <2>5, <3>1
  <2> QED BY <2>3, <2>4, <2>5
<1>4. IsStore(st2, n)
  BY <1>2, <1>3 DEF IsStore
<1>5. SameEntries(st, st2)
  BY <1>2, <1>3 DEF SameEntries
<1>6. InPlace(st2, s)
  <2> SUFFICES ASSUME NEW k \in DOMAIN s, s[k].id \in DOMAIN st
               PROVE  st2[s[k].id].seq = k
    BY <1>2 DEF InPlace
  <2>1. s[k].id \in IdsOf(s) /\ s[k].id # Root
    BY DEF IdsOf, IsStore, Ids, Root
  <2>2. k = Position(s, s[k].id)
    BY <2>1, PositionOK
  <2> QED BY <1>3, <2>1, <2>2
<1> QED BY <1>3, <1>4, <1>5, <1>6

LEMMA RenumberedOK ==
    ASSUME NEW st, NEW n, IsStore(st, n), NEW list, Listed(st, n, list),
           NEW s, Listed(st, n, s), NEW st2, DOMAIN st2 = DOMAIN st,
           \A i \in DOMAIN st :
              st2[i].seq = IF i \in IdsOf(list) THEN Position(list, i) ELSE st[i].seq,
           NEW t, t = Renumbered(s, list)
    PROVE  Listed(st2, n, t) /\ SameItems(s, t)
<1>1. s \in Seq(Item) /\ Len(s) \in Nat /\ DOMAIN s = 1 .. Len(s)
      /\ \A k \in DOMAIN s : s[k] \in Item
  BY DEF Listed
<1>2. DOMAIN t = DOMAIN s
  BY DEF Renumbered
<1>3. ASSUME NEW k \in DOMAIN s
      PROVE  /\ t[k] \in Item /\ t[k].id = s[k].id /\ t[k].folder = s[k].folder
             /\ t[k].parent = s[k].parent /\ t[k].name = s[k].name
             /\ s[k].id \in DOMAIN st2 => t[k].order \in {0, st2[s[k].id].seq}
  <2>1. s[k] \in Item
    BY <1>1
  <2>2. CASE s[k].id \in IdsOf(list)
    <3>1. Position(list, s[k].id) \in Nat
      BY <2>2, PositionOK
    <3>2. t[k] = [s[k] EXCEPT !.order = Position(list, s[k].id)]
      BY <2>2 DEF Renumbered
    <3>3. /\ t[k] \in Item /\ t[k].id = s[k].id /\ t[k].folder = s[k].folder
          /\ t[k].parent = s[k].parent /\ t[k].name = s[k].name
          /\ t[k].order = Position(list, s[k].id)
      BY <2>1, <3>1, <3>2 DEF Item
    <3> QED BY <2>2, <3>3
  <2>3. CASE s[k].id \notin IdsOf(list)
    <3>1. t[k] = s[k]
      BY <2>3 DEF Renumbered
    <3>2. s[k].id \in DOMAIN st => s[k].order \in {0, st[s[k].id].seq}
      BY DEF Listed
    <3> QED BY <2>1, <2>3, <3>1, <3>2
  <2> QED BY <2>2, <2>3
<1>4. SameItems(s, t)
  BY <1>2, <1>3 DEF SameItems
<1>5. t \in Seq(Item)
  <2>1. t \in [1 .. Len(s) -> Item]
    BY <1>1, <1>2, <1>3 DEF Renumbered
  <2> QED BY <1>1, <2>1, SeqDef
<1>6. Listed(st2, n, t)
  <2>1. \A k \in DOMAIN t : t[k].id < n
    BY <1>2, <1>3 DEF Listed
  <2>2. \A j, k \in DOMAIN t : t[j].id = t[k].id /\ t[j].id # Root => j = k
    BY <1>2, <1>3 DEF Listed
  <2>3. \A k \in DOMAIN t : t[k].id \in DOMAIN st2 => t[k].order \in {0, st2[t[k].id].seq}
    BY <1>2, <1>3
  <2> QED BY <1>5, <2>1, <2>2, <2>3 DEF Listed
<1> QED BY <1>4, <1>6

-----------------------------------------------------------------------------
(***************************************************************************)
(* The manager changes its state.                                          *)
(***************************************************************************)

HasFields(m) ==
    m = [state |-> m.state, path |-> m.path, added |-> m.added, list |-> m.list,
         reordered |-> m.reordered, movable |-> m.movable,
         selected |-> m.selected, count |-> m.count, shown |-> m.shown]

LEMMA ManagerFields ==
    ASSUME NEW m
    PROVE  m \in Manager <=>
              /\ HasFields(m)
              /\ m.state \in ManagerStates /\ m.path \in Seq(Places)
              /\ m.added \in Seq(Item) /\ m.list \in Seq(Item)
              /\ m.reordered \in BOOLEAN /\ m.movable \in BOOLEAN
              /\ m.selected \in SUBSET Places /\ m.count \in Int /\ m.shown \in Places
  BY DEF Manager, Places, HasFields

WithLists(m, a, b) == [m EXCEPT !.list = a, !.added = b]

LEMMA ListsChanged ==
    ASSUME NEW w, HasFields(w), NEW a, NEW b, NEW v, v = WithLists(w, a, b)
    PROVE  /\ HasFields(v) /\ v.state = w.state /\ v.path = w.path /\ v.shown = w.shown
           /\ v.list = a /\ v.added = b /\ v.reordered = w.reordered
           /\ v.movable = w.movable /\ v.selected = w.selected /\ v.count = w.count
  BY DEF HasFields, WithLists

(* The fields of a manager after changeState. *)
ChangedState(m, s, m2) ==
    /\ HasFields(m2) /\ m2.state = s /\ m2.path = m.path /\ m2.shown = m.shown
    /\ s \notin {"Share", "Default"} => m2.list = m.list
    /\ s = "Share" => m2.list = Websites(m.added)
    /\ s # "Default" => m2.added = m.added
    /\ s = "Default" /\ ~m.reordered => m2.list = m.list /\ m2.added = m.added
    /\ s = "Default" /\ m.reordered => /\ m2.list = Renumbered(m.list, m.list)
                                       /\ m2.added = Renumbered(m.added, m.list)
    /\ s = "Default" => m2.reordered = FALSE /\ m2.movable = FALSE
    /\ s = "Edit" => m2.reordered = FALSE
    /\ s \notin {"Default", "Edit"} => m2.reordered = m.reordered
    /\ s \notin {"Default", "Reorder"} => m2.movable = m.movable
    /\ s = "Reorder" => m2.movable = TRUE
    /\ s \in {"Delete", "Share"} => m2.selected = {} /\ m2.count = 0
    /\ s \notin {"Delete", "Share"} => m2.selected = m.selected /\ m2.count = m.count

LEMMA StateFields ==
    ASSUME NEW m \in Manager, NEW s \in ManagerStates, NEW m2, m2 = ChangeState(m, s)
    PROVE  ChangedState(m, s, m2)
<1> USE DEF ChangedState
<1> DEFINE w == [m EXCEPT !.state = s]
<1>1. /\ w \in Manager /\ w.state = s /\ w.path = m.path /\ w.shown = m.shown
      /\ w.list = m.list /\ w.added = m.added /\ w.reordered = m.reordered
      /\ w.movable = m.movable /\ w.selected = m.selected /\ w.count = m.count
  BY DEF Manager
<1>fields. HasFields(w)
  BY <1>1, ManagerFields
<1> HIDE DEF w
<1>2. CASE s = "Edit"
  <2>1. m2 = [w EXCEPT !.reordered = FALSE]
    BY <1>2 DEF ChangeState, w
  <2> QED BY <1>1, <1>fields, <1>2, <2>1 DEF HasFields
<1>3. CASE s = "Delete"
  <2>1. m2 = [w EXCEPT !.selected = {}, !.count = 0]
    BY <1>3 DEF ChangeState, w
  <2> QED BY <1>1, <1>fields, <1>3, <2>1 DEF HasFields
<1>4. CASE s = "Share"
  <2>1. m2 = [w EXCEPT !.selected = {}, !.count = 0, !.list = Websites(m.added)]
    BY <1>4 DEF ChangeState, w
  <2> QED BY <1>1, <1>fields, <1>4, <2>1 DEF HasFields
<1>5. CASE s = "Reorder"
  <2>1. m2 = [w EXCEPT !.movable = TRUE]
    BY <1>5 DEF ChangeState, w
  <2> QED BY <1>1, <1>fields, <1>5, <2>1 DEF HasFields
<1>6. CASE s = "Default" /\ m.reordered
  <2>1. m2 = [Numbered(w) EXCEPT !.reordered = FALSE, !.movable = FALSE]
    BY <1>6 DEF ChangeState, w
  <2>2. Numbered(w) = [w EXCEPT !.list = Renumbered(w.list, w.list),
                                !.added = Renumbered(w.added, w.list)]
    BY DEF Numbered, Renumbered
  <2> DEFINE v == [w EXCEPT !.list = Renumbered(w.list, w.list),
                          !.added = Renumbered(w.added, w.list)]
  <2>3. v = WithLists(w, Renumbered(w.list, w.list), Renumbered(w.added, w.list))
    BY DEF WithLists
  <2>4. m2 = [v EXCEPT !.reordered = FALSE, !.movable = FALSE]
    BY <2>1, <2>2
  <2> HIDE DEF v
  <2>6. /\ HasFields(v) /\ v.state = w.state /\ v.path = w.path /\ v.shown = w.shown
        /\ v.list = Renumbered(w.list, w.list) /\ v.added = Renumbered(w.added, w.list)
        /\ v.selected = w.selected /\ v.count = w.count
    BY <1>fields, <2>3, ListsChanged
  <2>5. /\ HasFields(m2) /\ m2.state = v.state /\ m2.path = v.path /\ m2.shown = v.shown
        /\ m2.list = v.list /\ m2.added = v.added /\ m2.reordered = FALSE
        /\ m2.movable = FALSE /\ m2.selected = v.selected /\ m2.count = v.count
    BY <2>4, <2>6 DEF HasFields
  <2> QED BY <1>1, <1>6, <2>5, <2>6
<1>7. CASE s = "Default" /\ ~m.reordered
  <2>1. m2 = [w EXCEPT !.reordered = FALSE, !.movable = FALSE]
    BY <1>7 DEF ChangeState, w
  <2> QED BY <1>1, <1>fields, <1>7, <2>1 DEF HasFields
<1>8. CASE s \notin {"Edit", "Delete", "Share", "Reorder", "Default"}
  <2>1. m2 = w
    BY <1>8 DEF ChangeState, w
  <2> QED BY <1>1, <1>fields, <1>8, <2>1
<1> QED BY <1>2, <1>3, <1>4, <1>5, <1>6, <1>7, <1>8

LEMMA WebsitesOK ==
    ASSUME NEW st, NEW n, NEW s, Listed(st, n, s), NEW t, t = Websites(s)
    PROVE  /\ Listed(st, n, t) /\ (Agree(st, s) => Agree(st, t))
           /\ \A k \in DOMAIN s : ~s[k].folder => s[k].id \in IdsOf(t)
<1> DEFINE K == {k \in DOMAIN s : IsWebsite(s[k])}
<1>1. t = Kept(s, K) /\ K \in SUBSET DOMAIN s
  BY DEF Websites
<1>2. \A k \in DOMAIN s : ~s[k].folder => k \in K
  BY DEF IsWebsite
<1> HIDE DEF K
<1> QED BY <1>1, <1>2, KeptListed

(* What changeState leaves, and that a pending order is written.           *)
LEMMA StateOK ==
    ASSUME NEW st, NEW n, IsStore(st, n), NEW m, IsManager(st, n, m),
           NEW s \in ManagerStates, m.movable => s \in {"Reorder", "SelectFolder", "Default"},
           NEW m2, m2 = ChangeState(m, s), NEW st2, st2 = AfterState(st, m, s)
    PROVE  /\ IsStore(st2, n) /\ SameEntries(st, st2) /\ IsManager(st2, n, m2)
           /\ m2.state = s /\ m2.path = m.path /\ m2.shown = m.shown
           /\ Current(st, m, "Default") => Current(st2, m2, s)
           /\ s \in {"Delete", "Share"} => TicksOK(m2)
           /\ m.reordered /\ ~m2.reordered => InPlace(st2, m.list)
           /\ s = "Default" => ~m2.reordered
<1>1. /\ m \in Manager /\ Listed(st, n, m.list) /\ Listed(st, n, m.added)
      /\ m.reordered => m.movable
  BY DEF IsManager, DragsFit
<1>2. /\ HasFields(m2) /\ m2.state = s /\ m2.path = m.path /\ m2.shown = m.shown
      /\ s \notin {"Share", "Default"} => m2.list = m.list
      /\ s = "Share" => m2.list = Websites(m.added)
      /\ s # "Default" => m2.added = m.added
      /\ s = "Default" /\ ~m.reordered => m2.list = m.list /\ m2.added = m.added
      /\ s = "Default" /\ m.reordered => /\ m2.list = Renumbered(m.list, m.list)
                                         /\ m2.added = Renumbered(m.added, m.list)
      /\ s = "Default" => m2.reordered = FALSE /\ m2.movable = FALSE
      /\ s = "Edit" => m2.reordered = FALSE
      /\ s \notin {"Default", "Edit"} => m2.reordered = m.reordered
      /\ s \notin {"Default", "Reorder"} => m2.movable = m.movable
      /\ s = "Reorder" => m2.movable = TRUE
      /\ s \in {"Delete", "Share"} => m2.selected = {} /\ m2.count = 0
      /\ s \notin {"Delete", "Share"} => m2.selected = m.selected /\ m2.count = m.count
  <2>1. ChangedState(m, s, m2)
    BY <1>1, StateFields
  <2> QED BY <2>1 DEF ChangedState
<1>3. /\ m.path \in Seq(Places) /\ m.added \in Seq(Item) /\ m.list \in Seq(Item)
      /\ m.reordered \in BOOLEAN /\ m.movable \in BOOLEAN
      /\ m.selected \in SUBSET Places /\ m.count \in Int /\ m.shown \in Places
  BY <1>1, ManagerFields
<1>4. /\ m2.reordered \in BOOLEAN /\ m2.movable \in BOOLEAN
      /\ m2.reordered => m2.movable
      /\ m2.movable => m2.state \in {"Reorder", "SelectFolder"}
      /\ m2.selected \in SUBSET Places /\ m2.count \in Int
  <2>1. CASE s = "Default"
    BY <1>2, <1>3, <2>1
  <2>2. CASE s = "Edit"
    <3>1. ~m.movable
      BY <2>2
    <3> QED BY <1>2, <1>3, <2>2, <3>1
  <2>3. CASE s = "Reorder"
    BY <1>2, <1>3, <2>3
  <2>4. CASE s \in {"Delete", "Share"}
    <3>1. ~m.movable
      BY <2>4
    <3> QED BY <1>1, <1>2, <1>3, <2>4, <3>1
  <2>5. CASE s \notin {"Default", "Edit", "Reorder", "Delete", "Share"}
    <3>1. m.movable => s = "SelectFolder"
      BY <2>5
    <3> QED BY <1>1, <1>2, <1>3, <2>5, <3>1
  <2> QED BY <2>1, <2>2, <2>3, <2>4, <2>5
<1>5. ASSUME m2.list \in Seq(Item), m2.added \in Seq(Item)
      PROVE  m2 \in Manager
  <2>1. m2.state \in ManagerStates /\ m2.path \in Seq(Places) /\ m2.shown \in Places
    BY <1>2, <1>3
  <2> QED BY <1>2, <1>4, <1>5, <2>1, ManagerFields
<1>6. ASSUME Listed(st2, n, m2.list), Listed(st2, n, m2.added)
      PROVE  IsManager(st2, n, m2)
  <2>1. m2 \in Manager
    BY <1>5, <1>6 DEF Listed
  <2> QED BY <1>4, <1>6, <2>1 DEF IsManager, DragsFit
<1>7. s \in {"Delete", "Share"} => TicksOK(m2)
  BY <1>2, FS_EmptySet DEF TicksOK
<1>8. s = "Default" => ~m2.reordered
  BY <1>2
<1>9. CASE s = "Default" /\ m.reordered
  <2>1. st2 = WrittenOrder(st, m)
    BY <1>9 DEF AfterState
  <2>2. /\ IsStore(st2, n) /\ SameEntries(st, st2) /\ InPlace(st2, m.list)
        /\ \A i \in DOMAIN st :
              st2[i].seq = IF i \in IdsOf(m.list) THEN Position(m.list, i) ELSE st[i].seq
    BY <1>1, <2>1, WrittenOrderOK
  <2>3. DOMAIN st2 = DOMAIN st
    BY <2>2 DEF SameEntries
  <2>4. m2.list = Renumbered(m.list, m.list) /\ m2.added = Renumbered(m.added, m.list)
    BY <1>2, <1>9
  <2>5. Listed(st2, n, m2.list) /\ SameItems(m.list, m2.list)
    BY <1>1, <2>2, <2>3, <2>4, RenumberedOK
  <2>6. Listed(st2, n, m2.added) /\ SameItems(m.added, m2.added)
    BY <1>1, <2>2, <2>3, <2>4, RenumberedOK
  <2>7. ASSUME Current(st, m, "Default")
        PROVE  Current(st2, m2, s)
    <3>1. Agree(st, m.list) /\ Agree(st, m.added) /\ Whole(st, m, "Default")
      BY <2>7 DEF Current
    <3>2. /\ Agree(st2, m2.list) /\ Agree(st2, m2.added)
          /\ IdsOf(m2.list) = IdsOf(m.list) /\ IdsOf(m2.added) = IdsOf(m.added)
          /\ Children(st2, m.shown) = Children(st, m.shown)
      BY <2>2, <2>5, <2>6, <3>1, SameAgree
    <3>3. Whole(st2, m2, s)
      BY <1>2, <1>9, <3>1, <3>2 DEF Whole
    <3> QED BY <3>2, <3>3 DEF Current
  <2>8. IsManager(st2, n, m2)
    BY <1>6, <2>5, <2>6
  <2> QED BY <1>2, <1>7, <1>8, <2>2, <2>7, <2>8
<1>10. CASE s = "Default" => ~m.reordered
  <2>1. st2 = st
    BY <1>10 DEF AfterState
  <2>2. IsStore(st2, n) /\ SameEntries(st, st2)
    BY <2>1, SameStays
  <2>3. m2.added = m.added
    BY <1>2, <1>10
  <2>4. ~(m.reordered /\ ~m2.reordered)
    BY <1>1, <1>2, <1>10
  <2>5. CASE s = "Share"
    <3>1. m2.list = Websites(m.added)
      BY <1>2, <2>5
    <3>2. /\ Listed(st, n, m2.list) /\ (Agree(st, m.added) => Agree(st, m2.list))
          /\ \A k \in DOMAIN m.added : ~m.added[k].folder => m.added[k].id \in IdsOf(m2.list)
      BY <1>1, <3>1, WebsitesOK
    <3>3. IsManager(st2, n, m2)
      BY <1>1, <1>6, <2>1, <2>3, <3>2
    <3>4. ASSUME Current(st, m, "Default")
          PROVE  Current(st2, m2, s)
      <4>1. Agree(st, m.added) /\ \A i \in Children(st, m.shown) : i \in IdsOf(m.added)
        BY <3>4 DEF Current, Whole
      <4>2. ASSUME NEW i \in Children(st, m.shown), ~st[i].folder
            PROVE  i \in IdsOf(m2.list)
        <5>1. PICK k \in DOMAIN m.added : m.added[k].id = i
          BY <4>1 DEF IdsOf
        <5>2. i \in DOMAIN st
          BY DEF Children
        <5>3. m.added[k].folder = st[i].folder
          BY <4>1, <5>1, <5>2 DEF Agree
        <5> QED BY <3>2, <4>2, <5>1, <5>3
      <4>3. Whole(st, m2, s)
        BY <1>2, <2>3, <2>5, <4>1, <4>2 DEF Whole
      <4> QED BY <2>1, <2>3, <3>2, <4>1, <4>3 DEF Current
    <3> QED BY <1>2, <1>7, <1>8, <2>2, <2>4, <3>3, <3>4
  <2>6. CASE s # "Share"
    <3>1. m2.list = m.list
      BY <1>2, <1>10, <2>6
    <3>2. IsManager(st2, n, m2)
      BY <1>1, <1>6, <2>1, <2>3, <3>1
    <3>3. ASSUME Current(st, m, "Default")
          PROVE  Current(st2, m2, s)
      BY <1>2, <2>1, <2>3, <3>1, <3>3 DEF Current, Whole
    <3> QED BY <1>2, <1>7, <1>8, <2>2, <2>4, <3>2, <3>3
  <2> QED BY <2>5, <2>6
<1> QED BY <1>9, <1>10

-----------------------------------------------------------------------------
(***************************************************************************)
(* The view stack.                                                         *)
(***************************************************************************)

Views == {"page", "manager", "flow"}

LEMMA Tops ==
    /\ Last(P) = "page" /\ Last(F) = "flow" /\ Last(MF) = "flow"
    /\ Last(M) = "manager" /\ Last(FM) = "manager" /\ Last(MFM) = "manager"
  BY DEF Last, P, M, F, MF, FM, MFM

LEMMA Pushes ==
    /\ "manager" \in Views /\ "flow" \in Views
    /\ P \in Seq(Views) /\ M \in Seq(Views) /\ F \in Seq(Views) /\ MF \in Seq(Views)
    /\ Append(P, "manager") = M /\ Append(P, "flow") = F
    /\ Append(M, "flow") = MF
    /\ Append(F, "manager") = FM /\ Append(MF, "manager") = MFM
<1>1. /\ P \in Seq(Views) /\ M \in Seq(Views) /\ F \in Seq(Views) /\ MF \in Seq(Views)
      /\ FM \in Seq(Views) /\ MFM \in Seq(Views)
  BY DEF Views, P, M, F, MF, FM, MFM
<1>0. "manager" \in Views /\ "flow" \in Views
  BY DEF Views
<1>2. Len(P) = 1 /\ Len(M) = 2 /\ Len(F) = 2 /\ Len(MF) = 3 /\ Len(FM) = 3 /\ Len(MFM) = 4
  BY DEF P, M, F, MF, FM, MFM
<1>3. ASSUME NEW s \in Seq(Views), NEW e \in Views, NEW t \in Seq(Views),
             Len(t) = Len(s) + 1, \A i \in 1 .. Len(s) : t[i] = s[i], t[Len(t)] = e
      PROVE  Append(s, e) = t
  <2> DEFINE u == Append(s, e)
  <2>1. /\ u \in Seq(Views) /\ Len(u) = Len(s) + 1 /\ u[Len(s) + 1] = e
        /\ \A i \in 1 .. Len(s) : u[i] = s[i]
    BY AppendProperties
  <2> HIDE DEF u
  <2>2. Len(u) = Len(t) /\ Len(s) \in Nat
    BY <1>3, <2>1
  <2>3. \A i \in 1 .. Len(u) : u[i] = t[i]
    <3> SUFFICES ASSUME NEW i \in 1 .. Len(s) + 1
                 PROVE  u[i] = t[i]
      BY <2>1
    <3>1. i \in 1 .. Len(s) \/ i = Len(s) + 1
      BY <2>2
    <3> QED BY <1>3, <2>1, <3>1
  <2>4. u = t
    BY <1>3, <2>1, <2>2, <2>3, SeqEqual
  <2> QED BY <2>4 DEF u
<1>4. \A i \in 1 .. Len(P) : M[i] = P[i] /\ F[i] = P[i]
  BY <1>2 DEF P, M, F
<1>5. \A i \in 1 .. Len(M) : MF[i] = M[i]
  <2>1. \A i \in 1 .. 2 : i = 1 \/ i = 2
    OBVIOUS
  <2> QED BY <1>2, <2>1 DEF M, MF
<1>6. \A i \in 1 .. Len(F) : FM[i] = F[i]
  <2>1. \A i \in 1 .. 2 : i = 1 \/ i = 2
    OBVIOUS
  <2> QED BY <1>2, <2>1 DEF F, FM
<1>7. \A i \in 1 .. Len(MF) : MFM[i] = MF[i]
  <2>1. \A i \in 1 .. 3 : i = 1 \/ i = 2 \/ i = 3
    OBVIOUS
  <2> QED BY <1>2, <2>1 DEF MF, MFM
<1>8. Append(P, "manager") = M
  <2>1. Len(M) = Len(P) + 1 /\ M[Len(M)] = "manager"
    BY <1>2 DEF M
  <2> QED BY <1>0, <1>1, <1>3, <1>4, <2>1
<1>9. Append(P, "flow") = F
  <2>1. Len(F) = Len(P) + 1 /\ F[Len(F)] = "flow"
    BY <1>2 DEF F
  <2> QED BY <1>0, <1>1, <1>3, <1>4, <2>1
<1>10. Append(M, "flow") = MF
  <2>1. Len(MF) = Len(M) + 1 /\ MF[Len(MF)] = "flow"
    BY <1>2 DEF MF
  <2> QED BY <1>0, <1>1, <1>3, <1>5, <2>1
<1>11. Append(F, "manager") = FM
  <2>1. Len(FM) = Len(F) + 1 /\ FM[Len(FM)] = "manager"
    BY <1>2 DEF FM
  <2> QED BY <1>0, <1>1, <1>3, <1>6, <2>1
<1>12. Append(MF, "manager") = MFM
  <2>1. Len(MFM) = Len(MF) + 1 /\ MFM[Len(MFM)] = "manager"
    BY <1>2 DEF MFM
  <2> QED BY <1>0, <1>1, <1>3, <1>7, <2>1
<1> QED BY <1>0, <1>1, <1>8, <1>9, <1>10, <1>11, <1>12

LEMMA FrontOfAppend ==
    ASSUME NEW s \in Seq(Views), NEW e \in Views
    PROVE  Front(Append(s, e)) = s
<1> DEFINE u == Append(s, e)
           w == SubSeq(u, 1, Len(s))
<1>1. /\ u \in Seq(Views) /\ Len(u) = Len(s) + 1
      /\ \A i \in 1 .. Len(s) : u[i] = s[i]
  BY AppendProperties
<1>2. Front(u) = w
  BY <1>1 DEF Front
<1>3. Len(s) \in Nat /\ \A i \in 1 .. Len(s) : s[i] \in Views
  OBVIOUS
<1> HIDE DEF u
<1>4. w \in Seq(Views) /\ Len(w) = Len(s) /\ \A i \in 1 .. Len(s) : w[i] = u[i]
  <2>1. \A i \in 1 .. Len(s) : u[i] \in Views
    BY <1>1, <1>3
  <2>2. /\ w \in Seq(Views) /\ Len(w) = IF 1 <= Len(s) THEN Len(s) - 1 + 1 ELSE 0
        /\ \A i \in 1 .. Len(s) - 1 + 1 : w[i] = u[1 + i - 1]
    BY <1>3, <2>1, SubSeqProperties
  <2>3. Len(s) - 1 + 1 = Len(s) /\ (~(1 <= Len(s)) => Len(s) = 0)
    BY <1>3
  <2>4. \A i \in 1 .. Len(s) : 1 + i - 1 = i
    BY <1>3
  <2> HIDE DEF w
  <2> QED BY <2>2, <2>3, <2>4
<1> HIDE DEF w
<1>5. w = s
  BY <1>1, <1>4, SeqEqual
<1> QED BY <1>2, <1>5 DEF u

LEMMA Pops ==
    /\ Front(M) = P /\ Front(F) = P /\ Front(MF) = M /\ Front(FM) = F /\ Front(MFM) = MF
<1>1. Front(Append(P, "manager")) = P
  BY Pushes, FrontOfAppend
<1>2. Front(Append(P, "flow")) = P
  BY Pushes, FrontOfAppend
<1>3. Front(Append(M, "flow")) = M
  BY Pushes, FrontOfAppend
<1>4. Front(Append(F, "manager")) = F
  BY Pushes, FrontOfAppend
<1>5. Front(Append(MF, "manager")) = MF
  BY Pushes, FrontOfAppend
<1> QED BY <1>1, <1>2, <1>3, <1>4, <1>5, Pushes

LEMMA Different ==
    /\ P \notin {M, F, MF, FM, MFM} /\ M \notin {F, MF, FM, MFM}
    /\ F \notin {MF, FM, MFM} /\ MF \notin {FM, MFM} /\ FM # MFM
<1>1. Len(P) = 1 /\ Len(M) = 2 /\ Len(F) = 2 /\ Len(MF) = 3 /\ Len(FM) = 3 /\ Len(MFM) = 4
  BY DEF P, M, F, MF, FM, MFM
<1> QED BY <1>1, Tops

-----------------------------------------------------------------------------
(***************************************************************************)
(* What the operations do to the manager's lists.                          *)
(***************************************************************************)

(* Filled again, the lists are current, whatever they were.                *)
LEMMA FillOK ==
    ASSUME NEW st, NEW n, IsStore(st, n), NEW m \in Manager, DragsFit(m), NEW f \in Places,
           NEW m2, m2 = Fill(m, st, f)
    PROVE  /\ IsManager(st, n, m2) /\ m2.state = m.state /\ m2.path = m.path
           /\ m2.reordered = m.reordered /\ m2.movable = m.movable
           /\ \A s : Current(st, m2, s)
<1> DEFINE g == GetAllBookmarkItems(st, f)
<1>1. m2 = [m EXCEPT !.added = g, !.list = g, !.shown = f]
  BY DEF Fill
<1>2. /\ Listed(st, n, g) /\ Agree(st, g)
      /\ \A i \in Children(st, f) : i \in IdsOf(g)
  BY FilledOK
<1> HIDE DEF g
<1>3. HasFields(m)
  BY ManagerFields
<1>4. /\ HasFields(m2) /\ m2.state = m.state /\ m2.path = m.path
      /\ m2.reordered = m.reordered /\ m2.movable = m.movable
      /\ m2.selected = m.selected /\ m2.count = m.count
      /\ m2.list = g /\ m2.added = g /\ m2.shown = f
  BY <1>1, <1>3 DEF HasFields
<1>5. g \in Seq(Item)
  BY <1>2 DEF Listed
<1>6. m2 \in Manager
  BY <1>4, <1>5, ManagerFields
<1>7. DragsFit(m2)
  BY <1>4 DEF DragsFit
<1>8. IsManager(st, n, m2)
  BY <1>2, <1>4, <1>6, <1>7 DEF IsManager
<1>9. \A s : Current(st, m2, s)
  BY <1>2, <1>4 DEF Current, Whole
<1> QED BY <1>4, <1>8, <1>9

LEMMA AddItemsOK ==
    ASSUME NEW st, NEW n, IsStore(st, n), NEW m \in Manager, DragsFit(m), NEW f \in Places,
           NEW m2, m2 = AddBookmarkItems(m, st, f)
    PROVE  /\ IsManager(st, n, m2) /\ m2.state = m.state
           /\ m2.reordered = m.reordered /\ m2.movable = m.movable
           /\ \A s : Current(st, m2, s)
<1> DEFINE w == Fill(m, st, f)
           p == IF m.path # <<>> /\ Last(m.path) = f THEN m.path
                ELSE IF f = Root THEN <<Root>> ELSE Append(m.path, f)
<1>1. m2 = [w EXCEPT !.path = p]
  BY DEF AddBookmarkItems
<1>2. p \in Seq(Places)
  <2>1. m.path \in Seq(Places)
    BY ManagerFields
  <2>2. <<Root>> \in Seq(Places) /\ Append(m.path, f) \in Seq(Places)
    BY <2>1 DEF Places
  <2> QED BY <2>1, <2>2
<1>3. /\ IsManager(st, n, w) /\ w.state = m.state
      /\ w.reordered = m.reordered /\ w.movable = m.movable
      /\ \A s : Current(st, w, s)
  BY FillOK
<1> HIDE DEF w, p
<1>4. w \in Manager /\ HasFields(w) /\ Listed(st, n, w.list) /\ Listed(st, n, w.added)
  BY <1>3, ManagerFields DEF IsManager
<1>5. /\ HasFields(m2) /\ m2.state = w.state /\ m2.path = p
      /\ m2.reordered = w.reordered /\ m2.movable = w.movable
      /\ m2.selected = w.selected /\ m2.count = w.count
      /\ m2.list = w.list /\ m2.added = w.added /\ m2.shown = w.shown
  BY <1>1, <1>4 DEF HasFields
<1>6. m2 \in Manager
  BY <1>2, <1>4, <1>5, ManagerFields
<1>7. DragsFit(m2)
  BY <1>3, <1>5 DEF DragsFit
<1>8. IsManager(st, n, m2)
  BY <1>4, <1>5, <1>6, <1>7 DEF IsManager
<1>9. \A s : Current(st, m2, s)
  BY <1>3, <1>5 DEF Current, Whole
<1> QED BY <1>3, <1>5, <1>8, <1>9

(* A new folder is listed with the others.                                 *)
LEMMA AddItemOK ==
    ASSUME NEW st, NEW n, NEW m, IsManager(st, n, m), NEW x \in Item,
           IsNewTo(m.list, n, x), IsNewTo(m.added, n, x), OrderFits(st, x),
           NEW m2, m2 = AddBookmarkItemCurrentFolder(m, x)
    PROVE  /\ IsManager(st, n, m2) /\ m2.state = m.state /\ m2.shown = m.shown
           /\ m2.reordered = m.reordered
           /\ IdsOf(m2.list) = IdsOf(m.list) \cup {x.id}
           /\ IdsOf(m2.added) = IdsOf(m.added) \cup {x.id}
           /\ AsStored(st, x) /\ Agree(st, m.list) => Agree(st, m2.list)
           /\ AsStored(st, x) /\ Agree(st, m.added) => Agree(st, m2.added)
<1> DEFINE a == Append(m.list, x)
           b == Append(m.added, x)
<1>1. m2 = WithLists(m, a, b)
  BY DEF AddBookmarkItemCurrentFolder, WithLists
<1>2. m \in Manager /\ Listed(st, n, m.list) /\ Listed(st, n, m.added) /\ DragsFit(m)
  BY DEF IsManager
<1>3. HasFields(m)
  BY <1>2, ManagerFields
<1>a. a = WithItem(m.list, x) /\ b = WithItem(m.added, x)
  BY DEF WithItem
<1> HIDE DEF a, b
<1>4. /\ Listed(st, n, a) /\ IdsOf(a) = IdsOf(m.list) \cup {x.id}
      /\ Agree(st, m.list) /\ AsStored(st, x) => Agree(st, a)
  <2>1. Listed(st, n, m.list)
    BY <1>2
  <2> QED BY <1>a, <2>1, AppendListed
<1>5. /\ Listed(st, n, b) /\ IdsOf(b) = IdsOf(m.added) \cup {x.id}
      /\ Agree(st, m.added) /\ AsStored(st, x) => Agree(st, b)
  <2>1. Listed(st, n, m.added)
    BY <1>2
  <2> QED BY <1>a, <2>1, AppendListed
<1>6. /\ HasFields(m2) /\ m2.state = m.state /\ m2.path = m.path /\ m2.shown = m.shown
      /\ m2.list = a /\ m2.added = b /\ m2.reordered = m.reordered
      /\ m2.movable = m.movable /\ m2.selected = m.selected /\ m2.count = m.count
  BY <1>1, <1>3, ListsChanged
<1>7. a \in Seq(Item) /\ b \in Seq(Item)
  BY <1>4, <1>5 DEF Listed
<1>8. m2 \in Manager
  BY <1>2, <1>6, <1>7, ManagerFields
<1>9. IsManager(st, n, m2)
  BY <1>2, <1>4, <1>5, <1>6, <1>8 DEF IsManager, DragsFit
<1> QED BY <1>4, <1>5, <1>6, <1>9

(* What is listed stays good when the database changes but for places.     *)
LEMMA StoreChanged ==
    ASSUME NEW st, NEW n \in Int, NEW m, IsManager(st, n, m), NEW n2 \in Int, n <= n2,
           NEW st2, \A i \in DOMAIN st2 : \/ i \in DOMAIN st /\ st2[i].seq = st[i].seq
                                          \/ i >= n
    PROVE  IsManager(st2, n2, m)
<1>1. ASSUME NEW s, Listed(st, n, s)
      PROVE  Listed(st2, n2, s)
  <2>1. s \in Seq(Item) /\ \A k \in DOMAIN s : s[k] \in Item
    BY <1>1 DEF Listed
  <2>2. \A k \in DOMAIN s : s[k].id \in Int /\ s[k].id < n
    BY <1>1, <2>1, MaxIdAssumption DEF Listed, Item, Ids, Root
  <2>3. \A k \in DOMAIN s : s[k].id < n2 /\ ~(s[k].id >= n)
    BY <2>2
  <2>4. \A k \in DOMAIN s : s[k].id \in DOMAIN st2 => s[k].order \in {0, st2[s[k].id].seq}
    BY <1>1, <2>3 DEF Listed
  <2> QED BY <1>1, <2>1, <2>3, <2>4 DEF Listed
<1> QED BY <1>1 DEF IsManager

-----------------------------------------------------------------------------
(***************************************************************************)
(* What the operations do to the database.                                 *)
(***************************************************************************)

LEMMA StoreFinite ==
    ASSUME NEW st, NEW n, IsStore(st, n), NEW S \in SUBSET DOMAIN st
    PROVE  IsFiniteSet(S) /\ S \subseteq Int
<1>1. IsFiniteSet(Ids) /\ Ids \subseteq Int
  BY MaxIdAssumption, FS_Interval DEF Ids
<1>2. S \subseteq Ids
  BY DEF IsStore
<1> QED BY <1>1, <1>2, FS_Subset

LEMMA EntryFields ==
    ASSUME NEW e
    PROVE  e \in Entry <=>
              /\ e = [folder |-> e.folder, parent |-> e.parent, seq |-> e.seq, name |-> e.name]
              /\ e.folder \in BOOLEAN /\ e.parent \in Places
              /\ e.seq \in Nat /\ e.name \in Urls \cup Names
  BY DEF Entry, Places

LEMMA LastSeqOK ==
    ASSUME NEW st, NEW n, IsStore(st, n), NEW f
    PROVE  LastSeq(st, f) \in Nat
<1> DEFINE C == Children(st, f)
           Q == {st[i].seq : i \in C}
           S == {0} \cup Q
<1>1. C \in SUBSET DOMAIN st
  BY DEF Children
<1>2. \A i \in DOMAIN st : st[i].seq \in Nat
  BY EntryFields DEF IsStore
<1>3. IsFiniteSet(C)
  <2> HIDE DEF C
  <2> QED BY <1>1, StoreFinite
<1>4. IsFiniteSet(Q) /\ Q \subseteq Nat
  <2>1. Q \subseteq Nat
    BY <1>1, <1>2
  <2>2. IsFiniteSet(Q)
    <3> DEFINE g == [i \in C |-> st[i].seq]
    <3> HIDE DEF C
    <3>1. g \in Surjection(C, Q)
      BY DEF Surjection
    <3> HIDE DEF g, Q
    <3> QED BY <1>3, <3>1, FS_Surjection
  <2> QED BY <2>1, <2>2
<1> HIDE DEF C, Q
<1>5. IsFiniteSet(S) /\ S \in SUBSET Nat /\ S # {}
  <2>1. IsFiniteSet({0})
    BY FS_Singleton
  <2>2. IsFiniteSet({0} \cup Q)
    BY <1>4, <2>1, FS_Union
  <2> QED BY <1>4, <2>2
<1>6. LastSeq(st, f) = Max(S)
  BY DEF LastSeq, Q, C
<1> HIDE DEF S
<1>7. S \in SUBSET Int
  BY <1>5
<1>8. Max(S) \in S
  BY <1>5, <1>7, FirstAndLast
<1> QED BY <1>5, <1>6, <1>8

(* A new entry comes to the others.                                        *)
LEMMA CreateOK ==
    ASSUME IsStore(store, next), next \in 1 .. MaxId, NEW folder \in BOOLEAN,
           NEW f \in Places, NEW name \in Urls \cup Names,
           NEW st2, st2 = Create(store, folder, f, name)
    PROVE  /\ IsStore(st2, next + 1)
           /\ DOMAIN st2 = DOMAIN store \cup {next} /\ next \notin DOMAIN store
           /\ \A i \in DOMAIN store : st2[i] = store[i]
           /\ st2[next].parent = f /\ st2[next].name = name
<1> DEFINE l == LastSeq(store, f)
           e == [folder |-> folder, parent |-> f, seq |-> l + 1, name |-> name]
<1>1. l \in Nat
  BY LastSeqOK
<1>2. st2 = [i \in DOMAIN store \cup {next} |-> IF i = next THEN e ELSE store[i]]
  BY DEF Create
<1>3. e \in Entry
  <2> HIDE DEF l
  <2> QED BY <1>1 DEF Entry, Places
<1>4. e.parent = f /\ e.name = name
  OBVIOUS
<1> HIDE DEF e
<1>5. DOMAIN store \subseteq Ids /\ \A i \in DOMAIN store : i \in Int /\ i < next /\ store[i] \in Entry
  BY MaxIdAssumption DEF IsStore, Ids
<1>6. next \notin DOMAIN store
  <2>1. next \in Int /\ ~(next < next)
    OBVIOUS
  <2> QED BY <1>5, <2>1
<1>7. \A i \in DOMAIN store : i # next
  BY <1>6
<1>8. DOMAIN st2 = DOMAIN store \cup {next} /\ st2[next] = e
  BY <1>2
<1>9. \A i \in DOMAIN store : st2[i] = store[i]
  BY <1>2, <1>7
<1>10. \A i \in DOMAIN st2 : i < next + 1 /\ st2[i] \in Entry
  <2> SUFFICES ASSUME NEW i \in DOMAIN store \cup {next}
               PROVE  i < next + 1 /\ st2[i] \in Entry
    BY <1>8
  <2>1. CASE i \in DOMAIN store
    <3>1. i \in Int /\ i < next /\ st2[i] \in Entry
      BY <1>5, <1>9, <2>1
    <3> QED BY <3>1
  <2>2. CASE i = next
    BY <1>3, <1>8, <2>2
  <2> QED BY <2>1, <2>2
<1>11. st2 = [i \in DOMAIN st2 |-> st2[i]]
  BY <1>2
<1>12. DOMAIN st2 \subseteq Ids
  BY <1>5, <1>8 DEF Ids
<1>13. IsStore(st2, next + 1)
  BY <1>10, <1>11, <1>12 DEF IsStore
<1> QED BY <1>4, <1>6, <1>8, <1>9, <1>13

(* What is deleted is gone, and the others are as they were.               *)
LEMMA DeleteOK ==
    ASSUME NEW st, NEW n, IsStore(st, n), NEW D, NEW st2, st2 = Delete(st, D)
    PROVE  /\ IsStore(st2, n) /\ DOMAIN st2 \subseteq DOMAIN st \ D
           /\ \A i \in DOMAIN st2 : st2[i] = st[i]
<1> DEFINE S == DOMAIN st \ (D \cup Below(st, D))
<1>1. st2 = [i \in S |-> st[i]] /\ S \subseteq DOMAIN st \ D
  BY DEF Delete, Restrict
<1> HIDE DEF S
<1>2. DOMAIN st2 = S /\ \A i \in DOMAIN st2 : st2[i] = st[i]
  BY <1>1
<1> QED BY <1>1, <1>2 DEF IsStore

(* An entry gets another name and another parent, and stays in its place.  *)
Renamed(st, i, name) == [st EXCEPT ![i].name = name]
Moved(st, i, name, f) == [st EXCEPT ![i].name = name, ![i].parent = f]

LEMMA ChangeOK ==
    ASSUME NEW st, NEW n, IsStore(st, n), NEW i \in DOMAIN st,
           NEW name \in Urls \cup Names, NEW f \in Places,
           NEW st2, st2 \in {Renamed(st, i, name), Moved(st, i, name, f)}
    PROVE  /\ IsStore(st2, n) /\ DOMAIN st2 = DOMAIN st
           /\ \A j \in DOMAIN st : st2[j].seq = st[j].seq
<1>1. \A j \in DOMAIN st : st[j] \in Entry
  BY DEF IsStore
<1> DEFINE e == st[i]
           e2 == [e EXCEPT !.name = name]
           e3 == [e2 EXCEPT !.parent = f]
<1>2. e \in Entry
  BY <1>1
<1>3. e2 \in Entry /\ e2.seq = e.seq /\ e3 \in Entry /\ e3.seq = e.seq
  <2> HIDE DEF e
  <2>1. e2 \in Entry /\ e2.seq = e.seq
    BY <1>2 DEF Entry
  <2> HIDE DEF e2
  <2>2. e3 \in Entry /\ e3.seq = e2.seq
    BY <2>1 DEF Entry, Places
  <2> QED BY <2>1, <2>2
<1>4. st2 = [st EXCEPT ![i] = e2] \/ st2 = [st EXCEPT ![i] = e3]
  <2>0. \/ st2 = [st EXCEPT ![i].name = name]
        \/ st2 = [st EXCEPT ![i].name = name, ![i].parent = f]
    BY DEF Renamed, Moved
  <2>1. CASE st2 = [st EXCEPT ![i].name = name]
    BY <2>1
  <2>2. CASE st2 = [st EXCEPT ![i].name = name, ![i].parent = f]
    <3> DEFINE w == [st EXCEPT ![i].name = name]
    <3>1. st2 = [w EXCEPT ![i].parent = f]
      BY <2>2
    <3>2. w = [st EXCEPT ![i] = e2]
      OBVIOUS
    <3>3. w[i] = e2 /\ DOMAIN w = DOMAIN st
      BY <3>2 DEF IsStore
    <3> HIDE DEF w, e2
    <3>4. st2 = [w EXCEPT ![i] = [w[i] EXCEPT !.parent = f]]
      BY <3>1
    <3>5. st2 = [w EXCEPT ![i] = e3]
      BY <3>3, <3>4
    <3> HIDE DEF e3
    <3>6. st2 = [st EXCEPT ![i] = e3]
      BY <3>2, <3>5 DEF IsStore
    <3> QED BY <3>6
  <2> QED BY <2>0, <2>1, <2>2
<1> HIDE DEF e2, e3
<1>5. PICK x : x \in Entry /\ x.seq = e.seq /\ st2 = [st EXCEPT ![i] = x]
  BY <1>3, <1>4
<1> HIDE DEF e
<1>6. /\ DOMAIN st2 = DOMAIN st /\ st2 = [j \in DOMAIN st2 |-> st2[j]]
      /\ \A j \in DOMAIN st : st2[j] = IF j = i THEN x ELSE st[j]
  BY <1>5 DEF IsStore
<1> QED BY <1>1, <1>5, <1>6 DEF IsStore, e

(* The bookmark of an address is one of those that have it.                *)
LEMMA BookmarkFound ==
    ASSUME NEW st, NEW n, IsStore(st, n), NEW url, BookmarkExists(st, url)
    PROVE  GetBookmarkId(st, url) \in DOMAIN st
<1> DEFINE S == WithUrl(st, url)
<1>1. S \in SUBSET DOMAIN st /\ S # {}
  BY DEF WithUrl, BookmarkExists
<1> HIDE DEF S
<1>2. IsFiniteSet(S) /\ S \in SUBSET Int
  BY <1>1, StoreFinite
<1>3. Min(S) \in S
  BY <1>1, <1>2, FirstAndLast
<1> QED BY <1>1, <1>3 DEF GetBookmarkId, S

-----------------------------------------------------------------------------
(***************************************************************************)
(* Ticks.                                                                  *)
(***************************************************************************)

LEMMA UntickedOK ==
    ASSUME NEW st, NEW n, NEW s, Listed(st, n, s), NEW ticks, NEW t, t = Unticked(s, ticks)
    PROVE  /\ Listed(st, n, t) /\ (Agree(st, s) => Agree(st, t))
           /\ \A i \in IdsOf(s) \ ticks : i \in IdsOf(t)
<1> DEFINE K == {k \in DOMAIN s : s[k].id \notin ticks}
<1>1. t = Kept(s, K) /\ K \in SUBSET DOMAIN s
  BY DEF Unticked
<1>2. \A k \in DOMAIN s : s[k].id \notin ticks => k \in K
  OBVIOUS
<1> HIDE DEF K
<1>3. /\ Listed(st, n, t) /\ (Agree(st, s) => Agree(st, t))
      /\ \A k \in K : s[k].id \in IdsOf(t)
  BY <1>1, KeptListed
<1>4. ASSUME NEW i \in IdsOf(s), i \notin ticks
      PROVE  i \in IdsOf(t)
  <2>1. PICK k \in DOMAIN s : s[k].id = i
    BY DEF IdsOf
  <2> QED BY <1>2, <1>3, <1>4, <2>1
<1> QED BY <1>3, <1>4

LEMMA PlacesFinite ==
    ASSUME NEW S \in SUBSET Places
    PROVE  IsFiniteSet(S)
<1>1. IsFiniteSet(Ids)
  BY MaxIdAssumption, FS_Interval DEF Ids
<1>2. IsFiniteSet(Places)
  BY <1>1, FS_AddElement DEF Places
<1> QED BY <1>2, FS_Subset

LEMMA IdsArePlaces ==
    ASSUME NEW s \in Seq(Item)
    PROVE  IdsOf(s) \subseteq Places
<1>1. \A k \in DOMAIN s : s[k] \in Item
  OBVIOUS
<1>2. \A x \in Item : x.id \in Places
  BY DEF Item, Places
<1> QED BY <1>1, <1>2 DEF IdsOf

WithTicks(m, ticks, c) == [m EXCEPT !.selected = ticks, !.count = c]

LEMMA TicksChanged ==
    ASSUME NEW st, NEW n, NEW m, IsManager(st, n, m), NEW ticks \in SUBSET Places,
           NEW c \in Int, NEW m2, m2 = WithTicks(m, ticks, c)
    PROVE  /\ IsManager(st, n, m2) /\ m2.state = m.state /\ m2.reordered = m.reordered
           /\ m2.list = m.list /\ m2.selected = ticks /\ m2.count = c
           /\ \A s : Current(st, m, s) => Current(st, m2, s)
<1>1. m \in Manager /\ Listed(st, n, m.list) /\ Listed(st, n, m.added) /\ DragsFit(m)
  BY DEF IsManager
<1>2. HasFields(m)
  BY <1>1, ManagerFields
<1>3. /\ HasFields(m2) /\ m2.state = m.state /\ m2.path = m.path /\ m2.shown = m.shown
      /\ m2.list = m.list /\ m2.added = m.added /\ m2.reordered = m.reordered
      /\ m2.movable = m.movable /\ m2.selected = ticks /\ m2.count = c
  BY <1>2 DEF HasFields, WithTicks
<1>4. m2 \in Manager
  BY <1>1, <1>3, ManagerFields
<1>5. IsManager(st, n, m2)
  BY <1>1, <1>3, <1>4 DEF IsManager, DragsFit
<1>6. \A s : Current(st, m, s) => Current(st, m2, s)
  BY <1>3 DEF Current, Whole
<1> QED BY <1>3, <1>5, <1>6

(* A tick more or less is counted.                                         *)
LEMMA TickOK ==
    ASSUME NEW st, NEW n, NEW m, IsManager(st, n, m), TicksOK(m), NEW k \in DOMAIN m.list,
           NEW m2, m2 = UpdateDeleteClick(m, m.list[k].id)
    PROVE  /\ IsManager(st, n, m2) /\ m2.state = m.state /\ m2.reordered = m.reordered
           /\ TicksOK(m2)
           /\ \A s : Current(st, m, s) => Current(st, m2, s)
<1> DEFINE i == m.list[k].id
<1>1. m \in Manager /\ m.list \in Seq(Item) /\ m.selected \in SUBSET Places /\ m.count \in Int
  BY ManagerFields DEF IsManager
<1>2. i \in IdsOf(m.list) /\ i \in Places
  BY <1>1, IdsArePlaces DEF IdsOf
<1>3. IsFiniteSet(m.selected) /\ Cardinality(m.selected) \in Nat
  BY <1>1, PlacesFinite, FS_CardinalityType
<1>4. m.selected \subseteq IdsOf(m.list) /\ m.count = Cardinality(m.selected)
  BY DEF TicksOK
<1>5. \/ i \in m.selected /\ m2 = WithTicks(m, m.selected \ {i}, m.count - 1)
      \/ i \notin m.selected /\ m2 = WithTicks(m, m.selected \cup {i}, m.count + 1)
  BY DEF UpdateDeleteClick, WithTicks
<1> HIDE DEF i
<1>6. CASE i \in m.selected /\ m2 = WithTicks(m, m.selected \ {i}, m.count - 1)
  <2> DEFINE t == m.selected \ {i}
             c == m.count - 1
  <2>1. t \in SUBSET Places /\ c \in Int /\ t \subseteq IdsOf(m.list)
    BY <1>1, <1>4
  <2>2. c = Cardinality(t)
    BY <1>3, <1>4, <1>6, FS_RemoveElement
  <2>3. m2 = WithTicks(m, t, c)
    BY <1>6
  <2> HIDE DEF t, c
  <2>4. /\ IsManager(st, n, m2) /\ m2.state = m.state /\ m2.reordered = m.reordered
        /\ m2.list = m.list /\ m2.selected = t /\ m2.count = c
        /\ \A s : Current(st, m, s) => Current(st, m2, s)
    BY <2>1, <2>3, TicksChanged
  <2> QED BY <2>1, <2>2, <2>4 DEF TicksOK
<1>7. CASE i \notin m.selected /\ m2 = WithTicks(m, m.selected \cup {i}, m.count + 1)
  <2> DEFINE t == m.selected \cup {i}
             c == m.count + 1
  <2>1. t \in SUBSET Places /\ c \in Int /\ t \subseteq IdsOf(m.list)
    BY <1>1, <1>2, <1>4
  <2>2. c = Cardinality(t)
    BY <1>3, <1>4, <1>7, FS_AddElement
  <2>3. m2 = WithTicks(m, t, c)
    BY <1>7
  <2> HIDE DEF t, c
  <2>4. /\ IsManager(st, n, m2) /\ m2.state = m.state /\ m2.reordered = m.reordered
        /\ m2.list = m.list /\ m2.selected = t /\ m2.count = c
        /\ \A s : Current(st, m, s) => Current(st, m2, s)
    BY <2>1, <2>3, TicksChanged
  <2> QED BY <2>1, <2>2, <2>4 DEF TicksOK
<1> QED BY <1>5, <1>6, <1>7

(* So are the ticks of a whole list.                                       *)
NoneTicked(m, ids) ==
    WithTicks(m, m.selected \ ids, m.count - Cardinality(ids \cap m.selected))
AllTicked(m, ids) ==
    WithTicks(m, m.selected \cup ids, m.count + Cardinality(ids \ m.selected))

LEMMA TickAllOK ==
    ASSUME NEW st, NEW n, NEW m, IsManager(st, n, m), TicksOK(m), NEW ids, ids = IdsOf(m.list),
           NEW m2, m2 \in {NoneTicked(m, ids), AllTicked(m, ids)}
    PROVE  /\ IsManager(st, n, m2) /\ m2.state = m.state /\ m2.reordered = m.reordered
           /\ TicksOK(m2)
           /\ \A s : Current(st, m, s) => Current(st, m2, s)
<1>1. m \in Manager /\ m.list \in Seq(Item) /\ m.selected \in SUBSET Places /\ m.count \in Int
  BY ManagerFields DEF IsManager
<1>2. ids \in SUBSET Places
  BY <1>1, IdsArePlaces
<1>3. /\ IsFiniteSet(m.selected) /\ Cardinality(m.selected) \in Nat
      /\ IsFiniteSet(ids) /\ Cardinality(ids) \in Nat
  BY <1>1, <1>2, PlacesFinite, FS_CardinalityType
<1>4. m.selected \subseteq ids /\ m.count = Cardinality(m.selected)
  BY DEF TicksOK
<1>5. ids \cap m.selected = m.selected /\ m.selected \cap ids = m.selected
  BY <1>4
<1>6. CASE m2 = NoneTicked(m, ids)
  <2> DEFINE t == m.selected \ ids
             c == m.count - Cardinality(ids \cap m.selected)
  <2>1. t \in SUBSET Places /\ t \subseteq IdsOf(m.list)
    BY <1>1, <1>4
  <2>2. Cardinality(t) = Cardinality(m.selected) - Cardinality(m.selected \cap ids)
    BY <1>3, FS_Difference
  <2>3. c = Cardinality(t) /\ c \in Int
    <3> DEFINE x == Cardinality(ids \cap m.selected)
               y == Cardinality(m.selected)
    <3>1. x = y /\ Cardinality(m.selected \cap ids) = y
      BY <1>5
    <3>2. c = m.count - x /\ y \in Nat /\ m.count = y
      BY <1>3, <1>4
    <3> HIDE DEF x, y, c, t
    <3> QED BY <2>2, <3>1, <3>2 DEF y
  <2>4. m2 = WithTicks(m, t, c)
    BY <1>6 DEF NoneTicked
  <2> HIDE DEF t, c
  <2>5. /\ IsManager(st, n, m2) /\ m2.state = m.state /\ m2.reordered = m.reordered
        /\ m2.list = m.list /\ m2.selected = t /\ m2.count = c
        /\ \A s : Current(st, m, s) => Current(st, m2, s)
    BY <2>1, <2>3, <2>4, TicksChanged
  <2> QED BY <2>1, <2>3, <2>5 DEF TicksOK
<1>7. CASE m2 = AllTicked(m, ids)
  <2> DEFINE t == m.selected \cup ids
             c == m.count + Cardinality(ids \ m.selected)
  <2>1. t \in SUBSET Places /\ t \subseteq IdsOf(m.list)
    BY <1>1, <1>2, <1>4
  <2>2. Cardinality(ids \ m.selected) = Cardinality(ids) - Cardinality(ids \cap m.selected)
    BY <1>3, FS_Difference
  <2>3. t = ids
    BY <1>4
  <2>4. c = Cardinality(t) /\ c \in Int
    <3> DEFINE x == Cardinality(ids \ m.selected)
               y == Cardinality(m.selected)
               z == Cardinality(ids)
    <3>1. x = z - y
      BY <1>5, <2>2
    <3>2. c = m.count + x /\ y \in Nat /\ z \in Nat /\ m.count = y /\ Cardinality(t) = z
      BY <1>3, <1>4, <2>3
    <3> HIDE DEF x, y, z, c, t
    <3> QED BY <3>1, <3>2
  <2>5. m2 = WithTicks(m, t, c)
    BY <1>7 DEF AllTicked
  <2> HIDE DEF t, c
  <2>6. /\ IsManager(st, n, m2) /\ m2.state = m.state /\ m2.reordered = m.reordered
        /\ m2.list = m.list /\ m2.selected = t /\ m2.count = c
        /\ \A s : Current(st, m, s) => Current(st, m2, s)
    BY <2>1, <2>4, <2>5, TicksChanged
  <2> QED BY <2>1, <2>4, <2>6 DEF TicksOK
<1> QED BY <1>6, <1>7

-----------------------------------------------------------------------------
(***************************************************************************)
(* Each step keeps the invariant, and a pending order is not forgotten     *)
(* before it is written.                                                   *)
(***************************************************************************)

Drags(st2, m, m2) == m.reordered /\ ~m2.reordered => InPlace(st2, m.list)

Goes == Inv' /\ Drags(store', mgr, mgr')

LEMMA FlowFields ==
    ASSUME NEW f
    PROVE  IsFlow(f) <=>
              /\ f = [url |-> f.url, edit |-> f.edit, folder |-> f.folder, qa |-> f.qa]
              /\ f.url \in Urls \cup Names \cup {NoUrl} /\ f.edit \in BOOLEAN
              /\ f.folder \in Places /\ f.qa \in BOOLEAN
  BY DEF IsFlow

LEMMA FromInv ==
    ASSUME Inv, alive
    PROVE  /\ next \in 1 .. (MaxId + 1) /\ next \in Int /\ IsStore(store, next)
           /\ page \in Urls \cup Names
           /\ StackFits /\ IsFlow(flow) /\ IsPopup(popup)
           /\ IsManager(store, next, mgr) /\ mgr \in Manager /\ DragsFit(mgr)
           /\ HasManager(stack) => Current(store, mgr, mgr.state)
           /\ ManagerOnTop(stack) /\ mgr.state \in {"Delete", "Share"} => TicksOK(mgr)
<1>1. MaxId + 1 \in Int
  BY MaxIdAssumption
<1> QED BY <1>1 DEF Inv, Running, IsManager

LEMMA OnTop ==
    ASSUME Inv
    PROVE  /\ On("page") => stack = P
           /\ On("flow") => stack \in {F, MF}
           /\ On("manager") => stack \in {M, FM, MFM} /\ Current(store, mgr, mgr.state)
           /\ \A v : On(v) => alive /\ popup = NoPopup
<1>1. ASSUME alive
      PROVE  stack \in Stacks /\ (HasManager(stack) => Current(store, mgr, mgr.state))
  BY <1>1, FromInv DEF StackFits
<1> QED BY <1>1, Tops DEF On, Top, Stacks, HasManager

LEMMA ToInv ==
    ASSUME next' \in 1 .. (MaxId + 1), IsStore(store', next'), page' \in Urls \cup Names,
           alive' = TRUE, StackFits', IsFlow(flow'), IsPopup(popup'),
           IsManager(store', next', mgr'),
           HasManager(stack') => Current(store', mgr', mgr'.state),
           ManagerOnTop(stack') /\ mgr'.state \in {"Delete", "Share"} => TicksOK(mgr'),
           Drags(store', mgr, mgr')
    PROVE  Goes
  BY DEF Goes, Inv, Running

LEMMA Dead ==
    ASSUME Inv, alive, Die, IsStore(store', next)
    PROVE  Goes
<1>1. /\ alive' = FALSE /\ next' = next /\ page' = page /\ mgr' = mgr
  BY DEF Die, ui
<1> QED BY <1>1 DEF Goes, Inv, Drags

LEMMA WholeList ==
    ASSUME NEW st, NEW m, NEW s, Current(st, m, s), s # "Share"
    PROVE  \A z : Current(st, m, z)
  BY DEF Current, Whole

LEMMA ShownOK ==
    ASSUME NEW s, NEW m, NEW st, NEW n, IsStore(st, n), IsManager(st, n, m), ShowStack(s, m, st)
    PROVE  /\ stack' = s /\ IsStore(store', n) /\ IsManager(store', n, mgr')
           /\ mgr'.state = m.state /\ Drags(store', m, mgr')
           /\ m.state # "Share" /\ Current(st, m, m.state) => Current(store', mgr', mgr'.state)
<1>1. m.state \in ManagerStates /\ DragsFit(m)
  BY ManagerFields DEF IsManager
<1>2. m.movable => m.state \in {"Reorder", "SelectFolder", "Default"}
  BY <1>1 DEF DragsFit
<1>3. CASE mgr' = ChangeState(m, m.state) /\ store' = AfterState(st, m, m.state)
  <2>1. /\ IsStore(store', n) /\ IsManager(store', n, mgr') /\ mgr'.state = m.state
        /\ Current(st, m, "Default") => Current(store', mgr', m.state)
        /\ m.reordered /\ ~mgr'.reordered => InPlace(store', m.list)
    BY <1>1, <1>2, <1>3, StateOK
  <2>2. stack' = s
    BY DEF ShowStack
  <2>3. m.state # "Share" /\ Current(st, m, m.state) => Current(st, m, "Default")
    BY WholeList
  <2> QED BY <2>1, <2>2, <2>3 DEF Drags
<1>4. CASE mgr' = m /\ store' = st
  BY <1>4 DEF ShowStack, Drags
<1> QED BY <1>3, <1>4 DEF ShowStack

LEMMA NavigateOK ==
    ASSUME Inv, NEW url \in Urls, Navigate(url)
    PROVE  Goes
<1>1. /\ alive /\ alive' = alive /\ page' = url /\ store' = store /\ next' = next
      /\ stack' = stack /\ popup' = popup /\ mgr' = mgr /\ flow' = flow
  BY DEF Navigate
<1> QED BY <1>1 DEF Goes, Inv, Running, StackFits, Drags

LEMMA OpenURLOK ==
    ASSUME Inv, alive, NEW url \in Urls \cup Names \cup {NoUrl}, OpenURL(url),
           UNCHANGED <<alive, next, popup, flow, quick>>
    PROVE  Goes
<1>1. /\ alive' = TRUE /\ next' = next /\ popup' = popup /\ flow' = flow
      /\ page' = IF url = NoUrl THEN page ELSE url
      /\ ShowStack(P, mgr, store)
  BY DEF OpenURL, P, Inv
<1>2. /\ next \in 1 .. (MaxId + 1) /\ IsStore(store, next) /\ page \in Urls \cup Names
      /\ StackFits /\ IsFlow(flow) /\ IsPopup(popup) /\ IsManager(store, next, mgr)
  BY FromInv
<1>3. /\ stack' = P /\ IsStore(store', next) /\ IsManager(store', next, mgr')
      /\ Drags(store', mgr, mgr')
  BY <1>1, <1>2, ShownOK
<1>4. ~HasManager(P) /\ ~ManagerOnTop(P) /\ P \in Stacks /\ P \notin {F, MF, FM, MFM}
  BY Different DEF HasManager, ManagerOnTop, Stacks
<1>5. StackFits'
  BY <1>3, <1>4 DEF StackFits
<1>6. page' \in Urls \cup Names
  BY <1>1, <1>2
<1> QED BY <1>1, <1>2, <1>3, <1>4, <1>5, <1>6, ToInv

LEMMA OpenFromOutsideOK ==
    ASSUME Inv, NEW url \in Urls, OpenFromOutside(url)
    PROVE  Goes
  BY OpenURLOK DEF OpenFromOutside

LEMMA ShowFlowOK ==
    ASSUME IsFlow(flow), NEW url \in Urls \cup Names \cup {NoUrl}, NEW edit \in BOOLEAN,
           NEW f \in Places, ShowFlow(url, edit, f)
    PROVE  \/ HasItem(store, f) /\ IsFlow(flow') /\ flow'.edit = edit
              /\ stack' = Append(stack, "flow")
              /\ UNCHANGED <<alive, next, page, popup, quick>>
           \/ ~HasItem(store, f) /\ Die
<1>1. CASE HasItem(store, f)
  <2>1. /\ flow' = [flow EXCEPT !.url = url, !.edit = edit, !.folder = f]
        /\ stack' = Append(stack, "flow")
        /\ UNCHANGED <<alive, next, page, popup, quick>>
    BY <1>1 DEF ShowFlow
  <2>2. /\ flow = [url |-> flow.url, edit |-> flow.edit, folder |-> flow.folder, qa |-> flow.qa]
        /\ flow.qa \in BOOLEAN
    BY FlowFields
  <2>3. flow' = [url |-> url, edit |-> edit, folder |-> f, qa |-> flow.qa]
    BY <2>1, <2>2
  <2>4. IsFlow(flow') /\ flow'.edit = edit
    BY <2>2, <2>3 DEF IsFlow
  <2> QED BY <1>1, <2>1, <2>4
<1>2. CASE ~HasItem(store, f)
  BY <1>2 DEF ShowFlow
<1> QED BY <1>1, <1>2

LEMMA ShowBookmarkFlowUIOK ==
    ASSUME Inv, ShowBookmarkFlowUI
    PROVE  Goes
<1> DEFINE known == BookmarkExists(store, page)
           f == IF known THEN store[GetBookmarkId(store, page)].parent ELSE Root
<1>1. /\ On("page") /\ ShowFlow(page, known, f) /\ store' = store /\ mgr' = mgr
  BY DEF ShowBookmarkFlowUI
<1>2. alive /\ popup = NoPopup /\ stack = P
  BY <1>1, OnTop
<1>3. /\ next \in 1 .. (MaxId + 1) /\ IsStore(store, next) /\ page \in Urls \cup Names
      /\ IsFlow(flow) /\ IsPopup(popup) /\ IsManager(store, next, mgr)
  BY <1>2, FromInv
<1>4. known \in BOOLEAN
  BY DEF BookmarkExists
<1>5. f \in Places
  <2>1. CASE known
    <3>1. GetBookmarkId(store, page) \in DOMAIN store
      BY <1>3, <2>1, BookmarkFound
    <3>2. store[GetBookmarkId(store, page)].parent \in Places
      BY <1>3, <3>1, EntryFields DEF IsStore
    <3> QED BY <2>1, <3>2
  <2>2. CASE ~known
    BY <2>2 DEF Places
  <2> QED BY <2>1, <2>2
<1> HIDE DEF known, f
<1>6. \/ HasItem(store, f) /\ IsFlow(flow') /\ flow'.edit = known
         /\ stack' = Append(stack, "flow")
         /\ UNCHANGED <<alive, next, page, popup, quick>>
      \/ ~HasItem(store, f) /\ Die
  BY <1>1, <1>3, <1>4, <1>5, ShowFlowOK
<1>7. CASE Die
  BY <1>1, <1>2, <1>3, <1>7, Dead
<1>8. CASE /\ IsFlow(flow') /\ stack' = Append(stack, "flow")
           /\ UNCHANGED <<alive, next, page, popup, quick>>
  <2>1. stack' = F /\ alive' = TRUE /\ next' = next /\ page' = page /\ popup' = NoPopup
    BY <1>2, <1>8, Pushes DEF Inv
  <2>2. ~HasManager(F) /\ ~ManagerOnTop(F) /\ F \in Stacks /\ F \notin {MF, FM, MFM}
    BY Different DEF HasManager, ManagerOnTop, Stacks
  <2>3. StackFits'
    BY <2>1, <2>2 DEF StackFits
  <2>4. Drags(store', mgr, mgr')
    BY <1>1 DEF Drags
  <2>5. IsPopup(popup')
    BY <1>2, <1>3, <2>1
  <2> QED BY <1>1, <1>3, <1>8, <2>1, <2>2, <2>3, <2>4, <2>5, ToInv
<1> QED BY <1>6, <1>7, <1>8

LEMMA DeleteBookmarkOK ==
    ASSUME Inv, DeleteBookmark
    PROVE  Goes
<1> DEFINE D == {GetBookmarkId(store, page)}
<1>1. /\ On("page") /\ store' = Delete(store, D) /\ alive' = alive /\ next' = next
      /\ page' = page /\ stack' = stack /\ popup' = popup /\ mgr' = mgr /\ flow' = flow
  BY DEF DeleteBookmark, ui
<1> HIDE DEF D
<1>2. alive /\ stack = P
  BY <1>1, OnTop
<1>3. /\ next \in 1 .. (MaxId + 1) /\ next \in Int /\ IsStore(store, next)
      /\ page \in Urls \cup Names /\ StackFits /\ IsFlow(flow) /\ IsPopup(popup)
      /\ IsManager(store, next, mgr)
  BY <1>2, FromInv
<1>4. IsStore(store', next) /\ \A i \in DOMAIN store' : i \in DOMAIN store /\ store'[i] = store[i]
  BY <1>1, <1>3, DeleteOK
<1>5. IsManager(store', next, mgr)
  BY <1>3, <1>4, StoreChanged
<1>6. ~HasManager(P) /\ ~ManagerOnTop(P)
  BY Different DEF HasManager, ManagerOnTop
<1>7. StackFits'
  BY <1>1, <1>3 DEF StackFits
<1>8. Drags(store', mgr, mgr') /\ alive' = TRUE
  BY <1>1, <1>2 DEF Drags, Inv
<1> QED BY <1>1, <1>2, <1>3, <1>4, <1>5, <1>6, <1>7, <1>8, ToInv

LEMMA ShowManagerOK ==
    ASSUME Inv, alive, NEW f \in Places, NEW s \in {"Default", "SelectFolder"},
           ShowBookmarkManagerUI(f, s)
    PROVE  /\ IsStore(store', next) /\ IsManager(store', next, mgr')
           /\ mgr'.state = s /\ Current(store', mgr', s) /\ Drags(store', mgr, mgr')
           /\ alive' = TRUE /\ next' = next /\ page' = page /\ popup' = popup /\ flow' = flow
           /\ stack' = Append(stack, "manager")
<1> DEFINE m == ChangeState(mgr, s)
<1>1. /\ stack' = Append(stack, "manager") /\ store' = AfterState(store, mgr, s)
      /\ mgr' = AddBookmarkItems(m, store', f)
      /\ alive' = alive /\ next' = next /\ page' = page /\ popup' = popup /\ flow' = flow
  BY DEF ShowBookmarkManagerUI
<1>2. s \in ManagerStates /\ (mgr.movable => s \in {"Reorder", "SelectFolder", "Default"})
  BY DEF ManagerStates
<1>3. IsStore(store, next) /\ IsManager(store, next, mgr)
  BY FromInv
<1>4. /\ IsStore(store', next) /\ IsManager(store', next, m) /\ m.state = s
      /\ mgr.reordered /\ ~m.reordered => InPlace(store', mgr.list)
  BY <1>1, <1>2, <1>3, StateOK
<1> HIDE DEF m
<1>5. m \in Manager /\ DragsFit(m)
  BY <1>4 DEF IsManager
<1>6. /\ IsManager(store', next, mgr') /\ mgr'.state = m.state
      /\ mgr'.reordered = m.reordered
      /\ \A z : Current(store', mgr', z)
  BY <1>1, <1>4, <1>5, AddItemsOK
<1>7. Drags(store', mgr, mgr') /\ alive' = TRUE
  BY <1>1, <1>4, <1>6 DEF Drags, Inv
<1> QED BY <1>1, <1>4, <1>6, <1>7

LEMMA OpenManagerOK ==
    ASSUME Inv, OpenManager
    PROVE  Goes
<1>1. On("page") /\ ShowBookmarkManagerUI(Root, "Default") /\ Root \in Places
  BY DEF OpenManager, Places
<1>2. alive /\ stack = P /\ popup = NoPopup
  BY <1>1, OnTop
<1>3. /\ next \in 1 .. (MaxId + 1) /\ page \in Urls \cup Names
      /\ IsFlow(flow) /\ IsPopup(popup)
  BY <1>2, FromInv
<1>4. /\ IsStore(store', next) /\ IsManager(store', next, mgr')
      /\ mgr'.state = "Default" /\ Current(store', mgr', "Default") /\ Drags(store', mgr, mgr')
      /\ alive' = TRUE /\ next' = next /\ page' = page /\ popup' = popup /\ flow' = flow
      /\ stack' = Append(stack, "manager")
  BY <1>1, <1>2, ShowManagerOK
<1>5. stack' = M
  BY <1>2, <1>4, Pushes
<1>6. M \in Stacks /\ M \notin {F, MF, FM, MFM}
  BY Different DEF Stacks
<1>7. StackFits'
  BY <1>2, <1>4, <1>5, <1>6 DEF StackFits
<1> QED BY <1>3, <1>4, <1>7, ToInv

LEMMA SelectFolderOK ==
    ASSUME Inv, SelectFolder
    PROVE  Goes
<1>1. On("flow") /\ ShowBookmarkManagerUI(flow.folder, "SelectFolder")
  BY DEF SelectFolder
<1>2. alive /\ stack \in {F, MF} /\ popup = NoPopup
  BY <1>1, OnTop
<1>3. /\ next \in 1 .. (MaxId + 1) /\ page \in Urls \cup Names
      /\ IsFlow(flow) /\ IsPopup(popup) /\ StackFits
  BY <1>2, FromInv
<1>4. flow.folder \in Places
  BY <1>3, FlowFields
<1>5. /\ IsStore(store', next) /\ IsManager(store', next, mgr')
      /\ mgr'.state = "SelectFolder" /\ Current(store', mgr', "SelectFolder")
      /\ Drags(store', mgr, mgr')
      /\ alive' = TRUE /\ next' = next /\ page' = page /\ popup' = popup /\ flow' = flow
      /\ stack' = Append(stack, "manager")
  BY <1>1, <1>2, <1>4, ShowManagerOK
<1>6. stack' \in {FM, MFM} /\ (stack' = MFM => stack = MF)
  BY <1>2, <1>5, Pushes, Different
<1>7. stack' \in Stacks /\ stack' \notin {F, MF}
  BY <1>6, Different DEF Stacks
<1>8. StackFits'
  BY <1>2, <1>3, <1>5, <1>6, <1>7 DEF StackFits
<1> QED BY <1>3, <1>5, <1>8, ToInv

LEMMA TickQuickAccessOK ==
    ASSUME Inv, TickQuickAccess
    PROVE  Goes
<1>1. /\ On("flow") /\ flow' = [flow EXCEPT !.qa = ~@]
      /\ UNCHANGED <<alive, store, next, page, stack, popup, mgr>>
  BY DEF TickQuickAccess
<1>2. alive
  BY <1>1, OnTop
<1>3. /\ next \in 1 .. (MaxId + 1) /\ IsStore(store, next) /\ page \in Urls \cup Names
      /\ StackFits /\ IsFlow(flow) /\ IsPopup(popup) /\ IsManager(store, next, mgr)
      /\ HasManager(stack) => Current(store, mgr, mgr.state)
      /\ ManagerOnTop(stack) /\ mgr.state \in {"Delete", "Share"} => TicksOK(mgr)
  BY <1>2, FromInv
<1>4. /\ flow = [url |-> flow.url, edit |-> flow.edit, folder |-> flow.folder, qa |-> flow.qa]
      /\ flow.url \in Urls \cup Names \cup {NoUrl} /\ flow.edit \in BOOLEAN
      /\ flow.folder \in Places
  BY <1>3, FlowFields
<1>5. IsFlow(flow') /\ flow'.edit = flow.edit
  <2>1. flow' = [url |-> flow.url, edit |-> flow.edit, folder |-> flow.folder, qa |-> ~flow.qa]
    BY <1>1, <1>4
  <2>2. (~flow.qa) \in BOOLEAN
    OBVIOUS
  <2> QED BY <1>4, <2>1, <2>2 DEF IsFlow
<1>6. StackFits'
  BY <1>1, <1>3, <1>5 DEF StackFits
<1>7. Drags(store', mgr, mgr') /\ alive' = TRUE
  BY <1>1, <1>2 DEF Drags, Inv
<1> QED BY <1>1, <1>3, <1>5, <1>6, <1>7, ToInv

(* The flow is closed: the page is shown, or the manager below.            *)
LEMMA FlowClosed ==
    ASSUME Inv, On("flow"), NEW m, NEW st, ShowStack(Front(stack), m, st),
           NEW n \in 1 .. (MaxId + 1), next' = n, alive' = alive, page' = page, popup' = popup,
           IsStore(st, n), IsManager(st, n, m), IsFlow(flow'),
           m.state = mgr.state, m.reordered = mgr.reordered,
           stack = MF => Current(st, m, "Default")
    PROVE  Goes
<1>1. alive /\ stack \in {F, MF} /\ popup = NoPopup
  BY OnTop
<1>2. page \in Urls \cup Names /\ IsPopup(popup) /\ StackFits /\ DragsFit(mgr)
  BY <1>1, FromInv
<1>3. /\ stack' = Front(stack) /\ IsStore(store', n) /\ IsManager(store', n, mgr')
      /\ mgr'.state = m.state /\ Drags(store', m, mgr')
      /\ m.state # "Share" /\ Current(st, m, m.state) => Current(store', mgr', mgr'.state)
  BY ShownOK
<1>4. alive' = TRUE
  BY <1>1 DEF Inv
<1>5. CASE stack = F
  <2>1. stack' = P
    BY <1>3, <1>5, Pops
  <2>2. ~HasManager(P) /\ ~ManagerOnTop(P) /\ P \in Stacks /\ P \notin {F, MF, FM, MFM}
    BY Different DEF HasManager, ManagerOnTop, Stacks
  <2>3. StackFits'
    BY <2>1, <2>2 DEF StackFits
  <2>4. Drags(store', mgr, mgr')
    <3>1. Top = "flow" /\ Last(Front(stack)) = "page"
      BY <1>5, Pops, Tops DEF Top
    <3>2. mgr' = m
      BY <3>1 DEF ShowStack
    <3> QED BY <3>2 DEF Drags
  <2> QED BY <1>1, <1>2, <1>3, <1>4, <2>1, <2>2, <2>3, <2>4, ToInv
<1>6. CASE stack = MF
  <2>1. stack' = M /\ mgr.state = "Default"
    BY <1>2, <1>3, <1>6, Pops DEF StackFits
  <2>2. M \in Stacks /\ M \notin {F, MF, FM, MFM}
    BY Different DEF Stacks
  <2>3. StackFits'
    BY <1>1, <2>1, <2>2 DEF StackFits
  <2>4. ~mgr.reordered
    BY <1>2, <2>1 DEF DragsFit
  <2>5. Current(store', mgr', mgr'.state) /\ mgr'.state = "Default"
    BY <1>3, <1>6, <2>1
  <2>6. Drags(store', mgr, mgr')
    BY <2>4 DEF Drags
  <2> QED BY <1>1, <1>2, <1>3, <1>4, <2>3, <2>5, <2>6, ToInv
<1> QED BY <1>1, <1>5, <1>6

LEMMA BoxCleared ==
    ASSUME IsFlow(flow), NEW f, f = [flow EXCEPT !.qa = FALSE]
    PROVE  IsFlow(f)
<1>1. /\ flow = [url |-> flow.url, edit |-> flow.edit, folder |-> flow.folder, qa |-> flow.qa]
      /\ flow.url \in Urls \cup Names \cup {NoUrl} /\ flow.edit \in BOOLEAN
      /\ flow.folder \in Places
  BY FlowFields
<1>2. f = [url |-> flow.url, edit |-> flow.edit, folder |-> flow.folder, qa |-> FALSE]
  BY <1>1
<1> QED BY <1>1, <1>2 DEF IsFlow

LEMMA LeaveFlowOK ==
    ASSUME Inv, LeaveFlow
    PROVE  Goes
<1>1. /\ On("flow") /\ ShowStack(Front(stack), mgr, store)
      /\ flow' \in {flow, [flow EXCEPT !.qa = FALSE]}
      /\ alive' = alive /\ next' = next /\ page' = page /\ popup' = popup
  BY DEF LeaveFlow
<1>2. alive /\ stack \in {F, MF}
  BY <1>1, OnTop
<1>3. /\ next \in 1 .. (MaxId + 1) /\ IsStore(store, next) /\ IsFlow(flow)
      /\ IsManager(store, next, mgr) /\ StackFits
      /\ HasManager(stack) => Current(store, mgr, mgr.state)
  BY <1>2, FromInv
<1>4. IsFlow(flow')
  BY <1>1, <1>3, BoxCleared
<1>5. stack = MF => Current(store, mgr, "Default")
  BY <1>3 DEF StackFits, HasManager
<1> QED BY <1>1, <1>3, <1>4, <1>5, FlowClosed

LEMMA SaveBookmarkOK ==
    ASSUME Inv, SaveBookmark
    PROVE  Goes
<1>1. On("flow") /\ ~flow.edit
  BY DEF SaveBookmark
<1>2. alive /\ stack \in {F, MF}
  BY <1>1, OnTop
<1>3. /\ next \in 1 .. (MaxId + 1) /\ next \in Int /\ IsStore(store, next) /\ IsFlow(flow)
      /\ IsManager(store, next, mgr) /\ StackFits /\ page \in Urls \cup Names
  BY <1>2, FromInv
<1>4. stack = F /\ stack # MF
  BY <1>1, <1>2, <1>3, Different DEF StackFits
<1>5. CASE DatabaseFull
  <2>1. CloseFlow(mgr, store) /\ next' = next /\ alive' = alive
    BY <1>5 DEF SaveBookmark, CloseFlow
  <2>2. /\ ShowStack(Front(stack), mgr, store) /\ flow' = [flow EXCEPT !.qa = FALSE]
        /\ page' = page /\ popup' = popup
    BY <2>1 DEF CloseFlow
  <2>3. IsFlow(flow')
    BY <1>3, <2>2, BoxCleared
  <2> QED BY <1>1, <1>3, <1>4, <2>1, <2>2, <2>3, FlowClosed
<1>6. CASE ~DatabaseFull
  <2> DEFINE st == Create(store, FALSE, flow.folder, page)
  <2>1. CloseFlow(mgr, st) /\ next' = next + 1
    BY <1>6 DEF SaveBookmark
  <2>2. next \in 1 .. MaxId /\ next + 1 \in 1 .. (MaxId + 1) /\ next + 1 \in Int
    BY <1>3, <1>6, MaxIdAssumption DEF DatabaseFull
  <2>3. flow.folder \in Places /\ FALSE \in BOOLEAN
    BY <1>3, FlowFields
  <2>4. /\ IsStore(st, next + 1) /\ DOMAIN st = DOMAIN store \cup {next}
        /\ \A i \in DOMAIN store : st[i] = store[i]
    <3>1. \A b \in BOOLEAN : st = Create(store, b, flow.folder, page) =>
             /\ IsStore(st, next + 1) /\ DOMAIN st = DOMAIN store \cup {next}
             /\ \A i \in DOMAIN store : st[i] = store[i]
      <4> HIDE DEF st
      <4> SUFFICES ASSUME NEW b \in BOOLEAN, st = Create(store, b, flow.folder, page)
                   PROVE  /\ IsStore(st, next + 1) /\ DOMAIN st = DOMAIN store \cup {next}
                          /\ \A i \in DOMAIN store : st[i] = store[i]
        OBVIOUS
      <4>1. IsStore(store, next) /\ next \in 1 .. MaxId /\ page \in Urls \cup Names
        BY <1>3, <2>2
      <4>2. flow.folder \in Places
        BY <2>3
      <4>3. \A f \in Places : \A name \in Urls \cup Names : \A st2 :
               st2 = Create(store, b, f, name) =>
                 /\ IsStore(st2, next + 1) /\ DOMAIN st2 = DOMAIN store \cup {next}
                 /\ \A i \in DOMAIN store : st2[i] = store[i]
        BY <4>1, CreateOK
      <4> QED BY <4>1, <4>2, <4>3
    <3> QED BY <2>3, <3>1, Zenon
  <2> HIDE DEF st
  <2>5. \A i \in DOMAIN st : (i \in DOMAIN store /\ st[i].seq = store[i].seq) \/ i >= next
    BY <1>3, <2>4
  <2>6. IsManager(st, next + 1, mgr)
    BY <1>3, <2>2, <2>5, StoreChanged
  <2>7. /\ ShowStack(Front(stack), mgr, st) /\ flow' = [flow EXCEPT !.qa = FALSE]
        /\ page' = page /\ popup' = popup /\ alive' = alive
    BY <2>1 DEF CloseFlow
  <2>8. IsFlow(flow')
    BY <1>3, <2>7, BoxCleared
  <2> QED BY <1>1, <1>4, <2>1, <2>2, <2>4, <2>6, <2>7, <2>8, FlowClosed
<1> QED BY <1>5, <1>6

LEMMA EditBookmarkOK ==
    ASSUME Inv, NEW url \in Urls, EditBookmark(url)
    PROVE  Goes
<1>1. On("flow") /\ next' = next
  BY DEF EditBookmark
<1>2. alive /\ stack \in {F, MF}
  BY <1>1, OnTop
<1>3. /\ next \in 1 .. (MaxId + 1) /\ IsStore(store, next) /\ IsFlow(flow)
      /\ IsManager(store, next, mgr) /\ mgr \in Manager /\ DragsFit(mgr) /\ StackFits
      /\ HasManager(stack) => Current(store, mgr, mgr.state)
  BY <1>2, FromInv
<1>4. CASE flow.url = NoUrl
  <2>1. CloseFlow(mgr, store)
    BY <1>4 DEF EditBookmark
  <2>2. /\ ShowStack(Front(stack), mgr, store) /\ flow' = [flow EXCEPT !.qa = FALSE]
        /\ page' = page /\ popup' = popup /\ alive' = alive
    BY <2>1 DEF CloseFlow
  <2>3. IsFlow(flow')
    BY <1>3, <2>2, BoxCleared
  <2>4. stack = MF => Current(store, mgr, "Default")
    BY <1>3 DEF StackFits, HasManager
  <2> QED BY <1>1, <1>3, <2>2, <2>3, <2>4, FlowClosed
<1>5. CASE flow.url # NoUrl
  <2> DEFINE id == GetBookmarkId(store, flow.url)
             st == IF BookmarkExists(store, flow.url)
                   THEN [store EXCEPT ![id].name = url, ![id].parent = flow.folder]
                   ELSE store
             m == Fill(mgr, st, flow.folder)
  <2>1. CloseFlow(m, st)
    BY <1>5 DEF EditBookmark
  <2>2. /\ ShowStack(Front(stack), m, st) /\ flow' = [flow EXCEPT !.qa = FALSE]
        /\ page' = page /\ popup' = popup /\ alive' = alive
    BY <2>1 DEF CloseFlow
  <2>3. IsFlow(flow')
    BY <1>3, <2>2, BoxCleared
  <2>4. flow.folder \in Places
    BY <1>3, FlowFields
  <2>5. IsStore(st, next)
    <3>1. CASE BookmarkExists(store, flow.url)
      <4>1. id \in DOMAIN store
        BY <1>3, <3>1, BookmarkFound
      <4>2. st = Moved(store, id, url, flow.folder)
        BY <3>1 DEF Moved
      <4>3. url \in Urls \cup Names
        OBVIOUS
      <4> HIDE DEF id, st
      <4> QED BY <1>3, <2>4, <4>1, <4>2, <4>3, ChangeOK
    <3>2. CASE ~BookmarkExists(store, flow.url)
      BY <1>3, <3>2
    <3> QED BY <3>1, <3>2
  <2> HIDE DEF st
  <2>6. m = Fill(mgr, st, flow.folder)
    OBVIOUS
  <2> HIDE DEF m
  <2>7. /\ IsManager(st, next, m) /\ m.state = mgr.state /\ m.reordered = mgr.reordered
        /\ \A s : Current(st, m, s)
    BY <1>3, <2>4, <2>5, <2>6, FillOK
  <2> QED BY <1>1, <1>3, <2>2, <2>3, <2>5, <2>7, FlowClosed
<1> QED BY <1>4, <1>5

(* The manager is on top, in one of some states; unless it picks a folder, *)
(* it is above the page.                                                   *)
LEMMA OnState ==
    ASSUME Inv, NEW S, InState(S)
    PROVE  /\ On("manager") /\ mgr.state \in S /\ alive /\ popup = NoPopup
           /\ stack \in {M, FM, MFM}
           /\ mgr.state # "SelectFolder" => stack = M
           /\ Current(store, mgr, mgr.state)
<1>1. On("manager") /\ mgr.state \in S
  BY DEF InState
<1>2. alive /\ popup = NoPopup /\ stack \in {M, FM, MFM} /\ Current(store, mgr, mgr.state)
  BY <1>1, OnTop
<1>3. stack \in {FM, MFM} => mgr.state = "SelectFolder"
  BY <1>2, FromInv DEF StackFits
<1> QED BY <1>1, <1>2, <1>3

(* The manager changes, and the view stays.                                *)
LEMMA ManagerChanged ==
    ASSUME Inv, On("manager"), NEW m, ManagerBecomes(m), IsManager(store, next, m),
           m.state = mgr.state, Current(store, m, m.state),
           m.state \in {"Delete", "Share"} => TicksOK(m),
           mgr.reordered => m.reordered
    PROVE  Goes
<1>1. alive /\ popup = NoPopup
  BY OnTop
<1>2. /\ next \in 1 .. (MaxId + 1) /\ IsStore(store, next) /\ page \in Urls \cup Names
      /\ StackFits /\ IsFlow(flow) /\ IsPopup(popup)
  BY <1>1, FromInv
<1>3. /\ mgr' = m /\ alive' = TRUE /\ store' = store /\ next' = next /\ page' = page
      /\ stack' = stack /\ popup' = popup /\ flow' = flow
  BY <1>1 DEF ManagerBecomes, Inv
<1>4. StackFits'
  BY <1>1, <1>2, <1>3 DEF StackFits
<1>5. Drags(store', mgr, mgr')
  BY <1>3 DEF Drags
<1> QED BY <1>2, <1>3, <1>4, <1>5, ToInv

(* changeState by a manager that lists a whole folder.                     *)
LEMMA StateChanged ==
    ASSUME NEW n, NEW st, IsStore(st, n), NEW m, IsManager(st, n, m),
           Current(st, m, "Default"), mgr.reordered => m = mgr,
           NEW s \in ManagerStates, m.movable => s = "Default",
           mgr' = ChangeState(m, s), store' = AfterState(st, m, s)
    PROVE  /\ IsStore(store', n) /\ IsManager(store', n, mgr') /\ mgr'.state = s
           /\ Current(store', mgr', s)
           /\ s \in {"Delete", "Share"} => TicksOK(mgr')
           /\ Drags(store', mgr, mgr')
<1>1. m.movable => s \in {"Reorder", "SelectFolder", "Default"}
  OBVIOUS
<1>2. /\ IsStore(store', n) /\ IsManager(store', n, mgr')
      /\ mgr'.state = s
      /\ Current(st, m, "Default") => Current(store', mgr', s)
      /\ s \in {"Delete", "Share"} => TicksOK(mgr')
      /\ m.reordered /\ ~mgr'.reordered => InPlace(store', m.list)
  BY <1>1, StateOK
<1>3. Drags(store', mgr, mgr')
  BY <1>2 DEF Drags
<1> QED BY <1>2, <1>3

LEMMA OpenFolderOK ==
    ASSUME Inv, NEW k \in DOMAIN mgr.list, OpenFolder(k)
    PROVE  Goes
<1> DEFINE f == mgr.list[k].id
           m == AddBookmarkItems(mgr, store, f)
<1>1. InState({"Default", "SelectFolder"}) /\ ManagerBecomes(m)
  BY DEF OpenFolder
<1>2. alive /\ On("manager") /\ mgr.state \in {"Default", "SelectFolder"}
  BY <1>1, OnState
<1>3. IsStore(store, next) /\ mgr \in Manager /\ DragsFit(mgr)
  BY <1>2, FromInv
<1>4. f \in Places
  <2>1. mgr.list \in Seq(Item)
    BY <1>3, ManagerFields
  <2>2. mgr.list[k] \in Item
    BY <2>1
  <2> QED BY <2>2 DEF Item, Places
<1>5. m = AddBookmarkItems(mgr, store, f)
  OBVIOUS
<1> HIDE DEF m, f
<1>6. /\ IsManager(store, next, m) /\ m.state = mgr.state
      /\ m.reordered = mgr.reordered
      /\ \A s : Current(store, m, s)
  BY <1>3, <1>4, <1>5, AddItemsOK
<1> QED BY <1>1, <1>2, <1>6, ManagerChanged

LEMMA NavigatorFolderOK ==
    ASSUME Inv, NEW k \in DOMAIN mgr.path, NavigatorFolder(k)
    PROVE  Goes
<1> DEFINE f == mgr.path[k]
           w == [mgr EXCEPT !.path = SubSeq(mgr.path, 1, k)]
           m == AddBookmarkItems(w, store, f)
<1>1. InState({"Default", "SelectFolder"}) /\ ManagerBecomes(m)
  BY DEF NavigatorFolder
<1>2. alive /\ On("manager") /\ mgr.state \in {"Default", "SelectFolder"}
  BY <1>1, OnState
<1>3. IsStore(store, next) /\ mgr \in Manager /\ DragsFit(mgr)
  BY <1>2, FromInv
<1>4. HasFields(mgr) /\ mgr.path \in Seq(Places)
  BY <1>3, ManagerFields
<1>5. f \in Places /\ SubSeq(mgr.path, 1, k) \in Seq(Places)
  <2>1. DOMAIN mgr.path = 1 .. Len(mgr.path) /\ Len(mgr.path) \in Nat
    BY <1>4
  <2>2. \A i \in 1 .. k : mgr.path[i] \in Places
    BY <1>4, <2>1
  <2>3. SubSeq(mgr.path, 1, k) \in Seq(Places)
    BY <2>1, <2>2, SubSeqProperties
  <2> QED BY <1>4, <2>3
<1> DEFINE p == SubSeq(mgr.path, 1, k)
<1> HIDE DEF p
<1>6. w = [mgr EXCEPT !.path = p] /\ p \in Seq(Places)
  BY <1>5 DEF p
<1> HIDE DEF w
<1>7. /\ HasFields(w) /\ w.state = mgr.state /\ w.path = p /\ w.shown = mgr.shown
      /\ w.list = mgr.list /\ w.added = mgr.added /\ w.reordered = mgr.reordered
      /\ w.movable = mgr.movable /\ w.selected = mgr.selected /\ w.count = mgr.count
  BY <1>4, <1>6 DEF HasFields
<1>8. w \in Manager /\ DragsFit(w)
  <2>1. DragsFit(w)
    BY <1>3, <1>7 DEF DragsFit
  <2>2. w \in Manager
    BY <1>3, <1>6, <1>7, ManagerFields
  <2> QED BY <2>1, <2>2
<1>9. m = AddBookmarkItems(w, store, f)
  OBVIOUS
<1> HIDE DEF m, f
<1>10. /\ IsManager(store, next, m) /\ m.state = w.state
       /\ m.reordered = w.reordered
       /\ \A s : Current(store, m, s)
  BY <1>3, <1>5, <1>8, <1>9, AddItemsOK
<1> QED BY <1>1, <1>2, <1>7, <1>10, ManagerChanged

LEMMA OpenBookmarkOK ==
    ASSUME Inv, NEW k \in DOMAIN mgr.list, OpenBookmark(k)
    PROVE  Goes
<1>1. /\ InState({"Default", "SelectFolder"}) /\ OpenURL(mgr.list[k].name)
      /\ UNCHANGED <<alive, next, popup, flow, quick>>
  BY DEF OpenBookmark
<1>2. alive
  BY <1>1, OnState
<1>3. mgr.list[k] \in Item
  <2>1. mgr.list \in Seq(Item)
    BY <1>2, FromInv, ManagerFields
  <2> QED BY <2>1
<1>4. mgr.list[k].name \in Urls \cup Names \cup {NoUrl}
  BY <1>3 DEF Item
<1> QED BY <1>1, <1>2, <1>4, OpenURLOK

LEMMA EditFolderOK ==
    ASSUME Inv, NEW k \in DOMAIN mgr.list, EditFolder(k)
    PROVE  Goes
<1>1. /\ InState({"Edit"}) /\ StateBecomes("Default") /\ stack' = stack /\ flow' = flow
      /\ popup' = [kind |-> "rename", item |-> mgr.list[k],
                   bad |-> FolderNames(store, mgr.list[k].parent)]
  BY DEF EditFolder
<1>2. /\ alive /\ mgr.state = "Edit" /\ stack = M /\ Current(store, mgr, "Edit")
  BY <1>1, OnState
<1>3. /\ next \in 1 .. (MaxId + 1) /\ IsStore(store, next) /\ page \in Urls \cup Names
      /\ IsFlow(flow) /\ IsManager(store, next, mgr) /\ DragsFit(mgr) /\ mgr \in Manager
  BY <1>2, FromInv
<1>4. /\ mgr' = ChangeState(mgr, "Default") /\ store' = AfterState(store, mgr, "Default")
      /\ alive' = TRUE /\ next' = next /\ page' = page
  BY <1>1, <1>2 DEF StateBecomes, Inv
<1>5. Current(store, mgr, "Default") /\ "Default" \in ManagerStates
  BY <1>2, WholeList DEF ManagerStates
<1>6. /\ IsStore(store', next) /\ IsManager(store', next, mgr') /\ mgr'.state = "Default"
      /\ Current(store', mgr', "Default") /\ Drags(store', mgr, mgr')
  BY <1>3, <1>4, <1>5, StateChanged
<1>7. mgr.list[k] \in Item
  <2>1. mgr.list \in Seq(Item)
    BY <1>3, ManagerFields
  <2> QED BY <2>1
<1>8. IsPopup(popup')
  BY <1>1, <1>7 DEF IsPopup
<1>9. M \in Stacks /\ M \notin {F, MF, FM, MFM}
  BY Different DEF Stacks
<1>10. StackFits'
  BY <1>1, <1>2, <1>6, <1>9 DEF StackFits
<1> QED BY <1>1, <1>3, <1>4, <1>6, <1>8, <1>10, ToInv

LEMMA EditItemOK ==
    ASSUME Inv, NEW k \in DOMAIN mgr.list, EditItem(k)
    PROVE  Goes
<1> DEFINE x == mgr.list[k]
<1>1. /\ InState({"Edit"}) /\ ShowFlow(x.name, TRUE, x.parent)
      /\ IF HasItem(store, x.parent)
         THEN mgr' = ChangeState(mgr, "Default") /\ store' = AfterState(store, mgr, "Default")
         ELSE store' = store
  BY DEF EditItem
<1>2. /\ alive /\ mgr.state = "Edit" /\ stack = M /\ Current(store, mgr, "Edit")
      /\ popup = NoPopup
  BY <1>1, OnState
<1>3. /\ next \in 1 .. (MaxId + 1) /\ IsStore(store, next) /\ page \in Urls \cup Names
      /\ IsFlow(flow) /\ IsPopup(popup)
      /\ IsManager(store, next, mgr) /\ DragsFit(mgr) /\ mgr \in Manager
  BY <1>2, FromInv
<1>4. x.name \in Urls \cup Names \cup {NoUrl} /\ x.parent \in Places
  <2>1. mgr.list \in Seq(Item)
    BY <1>3, ManagerFields
  <2>2. x \in Item
    BY <2>1
  <2> QED BY <2>2 DEF Item, Places
<1> HIDE DEF x
<1>5. \/ HasItem(store, x.parent) /\ IsFlow(flow') /\ flow'.edit = TRUE
         /\ stack' = Append(stack, "flow")
         /\ UNCHANGED <<alive, next, page, popup, quick>>
      \/ ~HasItem(store, x.parent) /\ Die
  <2>1. \A b \in BOOLEAN : ShowFlow(x.name, b, x.parent) =>
           \/ HasItem(store, x.parent) /\ IsFlow(flow') /\ flow'.edit = b
              /\ stack' = Append(stack, "flow")
              /\ UNCHANGED <<alive, next, page, popup, quick>>
           \/ ~HasItem(store, x.parent) /\ Die
    BY <1>3, <1>4, ShowFlowOK
  <2> QED BY <1>1, <2>1, Zenon
<1>6. CASE ~HasItem(store, x.parent) /\ Die
  <2>1. store' = store
    BY <1>1, <1>6
  <2> QED BY <1>2, <1>3, <1>6, <2>1, Dead
<1>7. CASE /\ HasItem(store, x.parent) /\ IsFlow(flow') /\ flow'.edit = TRUE
           /\ stack' = Append(stack, "flow")
           /\ UNCHANGED <<alive, next, page, popup, quick>>
  <2>1. mgr' = ChangeState(mgr, "Default") /\ store' = AfterState(store, mgr, "Default")
    BY <1>1, <1>7
  <2>2. Current(store, mgr, "Default") /\ "Default" \in ManagerStates
    BY <1>2, WholeList DEF ManagerStates
  <2>3. /\ IsStore(store', next) /\ IsManager(store', next, mgr') /\ mgr'.state = "Default"
        /\ Current(store', mgr', "Default") /\ Drags(store', mgr, mgr')
    BY <1>3, <2>1, <2>2, StateChanged
  <2>4. /\ stack' = MF /\ flow'.edit /\ alive' = TRUE /\ next' = next /\ page' = page
        /\ popup' = NoPopup
    BY <1>2, <1>7, Pushes DEF Inv
  <2>5. MF \in Stacks /\ MF \notin {FM, MFM} /\ ~ManagerOnTop(MF)
    BY Different DEF Stacks, ManagerOnTop
  <2>6. StackFits'
    BY <2>3, <2>4, <2>5 DEF StackFits
  <2>7. IsPopup(popup')
    BY <1>2, <1>3, <2>4
  <2> QED BY <1>3, <1>7, <2>3, <2>4, <2>5, <2>6, <2>7, ToInv
<1> QED BY <1>5, <1>6, <1>7

(* The manager changes its state below the same popup and view, or leaves. *)
LEMMA ChooseOK ==
    ASSUME Inv, NEW s, Choose(s)
    PROVE  Goes
<1>1. /\ InState({"Default"}) /\ s \in {"Delete", "Share", "Reorder", "Edit"}
      /\ StateBecomes(s) /\ UNCHANGED <<stack, popup, flow>>
  BY DEF Choose
<1>2. /\ alive /\ mgr.state = "Default" /\ stack = M /\ Current(store, mgr, "Default")
      /\ popup = NoPopup
  BY <1>1, OnState
<1>3. /\ next \in 1 .. (MaxId + 1) /\ IsStore(store, next) /\ page \in Urls \cup Names
      /\ IsFlow(flow) /\ IsPopup(popup) /\ IsManager(store, next, mgr) /\ DragsFit(mgr)
  BY <1>2, FromInv
<1>4. /\ mgr' = ChangeState(mgr, s) /\ store' = AfterState(store, mgr, s)
      /\ alive' = TRUE /\ next' = next /\ page' = page
  BY <1>1, <1>2 DEF StateBecomes, Inv
<1>5. s \in ManagerStates /\ ~mgr.movable
  BY <1>1, <1>2, <1>3 DEF ManagerStates, DragsFit
<1>6. /\ IsStore(store', next) /\ IsManager(store', next, mgr') /\ mgr'.state = s
      /\ Current(store', mgr', s)
      /\ s \in {"Delete", "Share"} => TicksOK(mgr')
      /\ Drags(store', mgr, mgr')
  BY <1>2, <1>3, <1>4, <1>5, StateChanged
<1>7. M \in Stacks /\ M \notin {F, MF, FM, MFM}
  BY Different DEF Stacks
<1>8. StackFits'
  BY <1>1, <1>2, <1>7 DEF StackFits
<1>9. IsPopup(popup') /\ IsFlow(flow')
  BY <1>1, <1>3
<1>10. /\ HasManager(stack') => Current(store', mgr', mgr'.state)
       /\ ManagerOnTop(stack') /\ mgr'.state \in {"Delete", "Share"} => TicksOK(mgr')
  BY <1>6
<1> QED BY <1>3, <1>4, <1>6, <1>8, <1>9, <1>10, ToInv

LEMMA NewFolderOK ==
    ASSUME Inv, NewFolder
    PROVE  Goes
<1>1. /\ InState({"Default", "SelectFolder"}) /\ mgr.path # <<>>
      /\ popup' = [kind |-> "new", parent |-> Last(mgr.path),
                   bad |-> FolderNames(store, Last(mgr.path))]
      /\ UNCHANGED <<alive, store, next, page, stack, mgr, flow, quick>>
  BY DEF NewFolder
<1>2. /\ alive /\ mgr.state \in {"Default", "SelectFolder"} /\ stack \in {M, FM, MFM}
      /\ Current(store, mgr, mgr.state)
  BY <1>1, OnState
<1>3. /\ next \in 1 .. (MaxId + 1) /\ IsStore(store, next) /\ page \in Urls \cup Names
      /\ IsFlow(flow) /\ IsManager(store, next, mgr) /\ mgr \in Manager /\ StackFits
  BY <1>2, FromInv
<1>4. Last(mgr.path) \in Places
  <2>1. mgr.path \in Seq(Places) /\ Len(mgr.path) \in Nat /\ Len(mgr.path) # 0
    BY <1>1, <1>3, ManagerFields
  <2>2. Len(mgr.path) \in 1 .. Len(mgr.path)
    BY <2>1
  <2> QED BY <2>1, <2>2 DEF Last
<1>5. IsPopup(popup')
  BY <1>1, <1>4 DEF IsPopup
<1>6. stack \notin {F, MF}
  BY <1>2, Different
<1>7. StackFits'
  BY <1>1, <1>2, <1>3, <1>6 DEF StackFits
<1>8. alive' = TRUE /\ Drags(store', mgr, mgr')
  BY <1>1, <1>2 DEF Drags, Inv
<1> QED BY <1>1, <1>2, <1>3, <1>5, <1>7, <1>8, ToInv

LEMMA TickStepOK ==
    ASSUME Inv, NEW k \in DOMAIN mgr.list, Tick(k)
    PROVE  Goes
<1> DEFINE m == UpdateDeleteClick(mgr, mgr.list[k].id)
<1>1. InState({"Delete", "Share"}) /\ ManagerBecomes(m)
  BY DEF Tick
<1>2. /\ alive /\ On("manager") /\ mgr.state \in {"Delete", "Share"}
      /\ stack = M /\ Current(store, mgr, mgr.state)
  BY <1>1, OnState
<1>3. IsManager(store, next, mgr) /\ TicksOK(mgr)
  BY <1>2, FromInv DEF ManagerOnTop
<1>4. m = UpdateDeleteClick(mgr, mgr.list[k].id)
  OBVIOUS
<1> HIDE DEF m
<1>5. /\ IsManager(store, next, m) /\ m.state = mgr.state /\ m.reordered = mgr.reordered
      /\ TicksOK(m)
      /\ \A s : Current(store, mgr, s) => Current(store, m, s)
  BY <1>3, <1>4, TickOK
<1> QED BY <1>1, <1>2, <1>5, ManagerChanged

LEMMA SelectAllOK ==
    ASSUME Inv, SelectAll
    PROVE  Goes
<1> DEFINE ids == IdsOf(mgr.list)
<1>1. /\ InState({"Delete", "Share"})
      /\ ManagerBecomes(NoneTicked(mgr, ids)) \/ ManagerBecomes(AllTicked(mgr, ids))
  BY DEF SelectAll, NoneTicked, AllTicked, WithTicks
<1>2. PICK m \in {NoneTicked(mgr, ids), AllTicked(mgr, ids)} : ManagerBecomes(m)
  BY <1>1
<1>3. /\ alive /\ On("manager") /\ mgr.state \in {"Delete", "Share"}
      /\ stack = M /\ Current(store, mgr, mgr.state)
  BY <1>1, OnState
<1>4. IsManager(store, next, mgr) /\ TicksOK(mgr)
  BY <1>3, FromInv DEF ManagerOnTop
<1>5. /\ IsManager(store, next, m) /\ m.state = mgr.state /\ m.reordered = mgr.reordered
      /\ TicksOK(m)
      /\ \A s : Current(store, mgr, s) => Current(store, m, s)
  BY <1>2, <1>4, TickAllOK
<1> QED BY <1>2, <1>3, <1>5, ManagerChanged

(* A drag keeps what is listed, and is only made where its order is kept.  *)
LEMMA MoveOK ==
    ASSUME Inv, NEW j \in DOMAIN mgr.list, NEW k \in DOMAIN mgr.list, Move(j, k)
    PROVE  Goes
<1> DEFINE t == DraggedFrom(mgr.list, j, k)
           m == [mgr EXCEPT !.list = t, !.reordered = TRUE]
<1>1. On("manager") /\ mgr.movable /\ ManagerBecomes(m)
  BY DEF Move, DraggedFrom
<1>2. alive /\ Current(store, mgr, mgr.state)
  BY <1>1, OnTop
<1>3. /\ IsManager(store, next, mgr) /\ mgr \in Manager /\ DragsFit(mgr)
      /\ Listed(store, next, mgr.list) /\ Listed(store, next, mgr.added)
  BY <1>2, FromInv DEF IsManager
<1>4. t = DraggedFrom(mgr.list, j, k)
  OBVIOUS
<1> HIDE DEF t
<1>5. /\ Listed(store, next, t) /\ (Agree(store, mgr.list) => Agree(store, t))
      /\ IdsOf(t) = IdsOf(mgr.list)
  BY <1>3, <1>4, DraggedListed
<1>6. HasFields(mgr)
  BY <1>3, ManagerFields
<1>7. m = [mgr EXCEPT !.list = t, !.reordered = TRUE]
  OBVIOUS
<1> HIDE DEF m
<1>8. /\ HasFields(m) /\ m.state = mgr.state /\ m.path = mgr.path /\ m.shown = mgr.shown
      /\ m.list = t /\ m.added = mgr.added /\ m.reordered = TRUE
      /\ m.movable = mgr.movable /\ m.selected = mgr.selected /\ m.count = mgr.count
  BY <1>6, <1>7 DEF HasFields
<1>9. m \in Manager
  <2>1. t \in Seq(Item)
    BY <1>5 DEF Listed
  <2> QED BY <1>3, <1>8, <2>1, ManagerFields
<1>10. DragsFit(m)
  BY <1>1, <1>3, <1>8 DEF DragsFit
<1>11. IsManager(store, next, m)
  BY <1>3, <1>5, <1>8, <1>9, <1>10 DEF IsManager
<1>12. Current(store, m, m.state)
  BY <1>2, <1>5, <1>8 DEF Current, Whole
<1>13. m.state \notin {"Delete", "Share"}
  BY <1>1, <1>3, <1>8 DEF DragsFit
<1> QED BY <1>1, <1>8, <1>11, <1>12, <1>13, ManagerChanged

(* With another list of items the manager is as it was.                    *)
LEMMA OtherList ==
    ASSUME NEW st, NEW n, NEW w, IsManager(st, n, w), NEW t, Listed(st, n, t),
           NEW m, m = [w EXCEPT !.list = t]
    PROVE  /\ IsManager(st, n, m) /\ m.state = w.state /\ m.shown = w.shown
           /\ m.list = t /\ m.added = w.added /\ m.reordered = w.reordered
           /\ m.movable = w.movable /\ m.selected = w.selected /\ m.count = w.count
<1>1. w \in Manager /\ Listed(st, n, w.added) /\ DragsFit(w)
  BY DEF IsManager
<1>2. HasFields(w)
  BY <1>1, ManagerFields
<1>3. /\ HasFields(m) /\ m.state = w.state /\ m.path = w.path /\ m.shown = w.shown
      /\ m.list = t /\ m.added = w.added /\ m.reordered = w.reordered
      /\ m.movable = w.movable /\ m.selected = w.selected /\ m.count = w.count
  BY <1>2 DEF HasFields
<1>4. m \in Manager
  <2>1. t \in Seq(Item)
    BY DEF Listed
  <2> QED BY <1>1, <1>3, <2>1, ManagerFields
<1>5. DragsFit(m)
  BY <1>1, <1>3 DEF DragsFit
<1> QED BY <1>1, <1>3, <1>4, <1>5 DEF IsManager

(* The steps after which the manager is on top in its first state.         *)
LEMMA BackToList ==
    ASSUME Inv, alive, stack = M, popup = NoPopup, NEW m, NEW st,
           IsStore(st, next), IsManager(st, next, m), Current(st, m, "Default"),
           mgr.reordered => m = mgr,
           mgr' = ChangeState(m, "Default"), store' = AfterState(st, m, "Default"),
           alive' = alive, next' = next, page' = page, stack' = stack, popup' = popup,
           flow' = flow
    PROVE  Goes
<1>1. /\ next \in 1 .. (MaxId + 1) /\ page \in Urls \cup Names
      /\ IsFlow(flow) /\ IsPopup(popup)
  BY FromInv
<1>2. "Default" \in ManagerStates
  BY DEF ManagerStates
<1>3. /\ IsStore(store', next) /\ IsManager(store', next, mgr') /\ mgr'.state = "Default"
      /\ Current(store', mgr', "Default") /\ Drags(store', mgr, mgr')
  BY <1>2, StateChanged
<1>4. M \in Stacks /\ M \notin {F, MF, FM, MFM}
  BY Different DEF Stacks
<1>5. StackFits'
  BY <1>3, <1>4 DEF StackFits
<1>6. alive' = TRUE
  BY DEF Inv
<1> QED BY <1>1, <1>3, <1>5, <1>6, ToInv

LEMMA AcceptDeleteOK ==
    ASSUME Inv, AcceptDelete
    PROVE  Goes
<1> DEFINE ticks == mgr.selected
           t == Unticked(mgr.list, ticks)
           m == [mgr EXCEPT !.list = t]
           st == Delete(store, ticks)
<1>1. /\ InState({"Delete"})
      /\ mgr' = ChangeState(m, "Default") /\ store' = AfterState(st, m, "Default")
      /\ UNCHANGED <<alive, next, page, stack, popup, flow, quick>>
  BY DEF AcceptDelete
<1>2. /\ alive /\ mgr.state = "Delete" /\ stack = M /\ popup = NoPopup
      /\ Current(store, mgr, "Delete")
  BY <1>1, OnState
<1>3. /\ next \in Int /\ IsStore(store, next) /\ IsManager(store, next, mgr) /\ DragsFit(mgr)
  BY <1>2, FromInv
<1>4. st = Delete(store, ticks) /\ t = Unticked(mgr.list, ticks) /\ m = [mgr EXCEPT !.list = t]
  OBVIOUS
<1> HIDE DEF m, st, t, ticks
<1>5. /\ IsStore(st, next) /\ DOMAIN st \subseteq DOMAIN store \ ticks
      /\ \A i \in DOMAIN st : st[i] = store[i]
  BY <1>3, <1>4, DeleteOK
<1>6. IsManager(st, next, mgr)
  BY <1>3, <1>5, StoreChanged
<1>7. Agree(store, mgr.list) /\ Agree(store, mgr.added) /\ Whole(store, mgr, "Delete")
  BY <1>2 DEF Current
<1>8. Agree(st, mgr.list) /\ Agree(st, mgr.added)
  BY <1>5, <1>7 DEF Agree
<1>9. /\ Listed(st, next, t) /\ Agree(st, t)
      /\ \A i \in IdsOf(mgr.list) \ ticks : i \in IdsOf(t)
  <2>1. Listed(st, next, mgr.list)
    BY <1>6 DEF IsManager
  <2> QED BY <1>4, <1>8, <2>1, UntickedOK
<1>10. /\ IsManager(st, next, m) /\ m.shown = mgr.shown
       /\ m.list = t /\ m.added = mgr.added
  BY <1>4, <1>6, <1>9, OtherList
<1>11. Whole(st, m, "Default")
  <2> SUFFICES ASSUME NEW i \in Children(st, m.shown)
               PROVE  i \in IdsOf(m.added) /\ i \in IdsOf(m.list)
    BY DEF Whole
  <2>1. i \in Children(store, mgr.shown) /\ i \notin ticks
    BY <1>5, <1>10 DEF Children
  <2>2. i \in IdsOf(mgr.added) /\ i \in IdsOf(mgr.list)
    BY <1>7, <2>1 DEF Whole
  <2> QED BY <1>9, <1>10, <2>1, <2>2
<1>12. Current(st, m, "Default")
  BY <1>8, <1>9, <1>10, <1>11 DEF Current
<1>13. ~mgr.reordered
  BY <1>2, <1>3 DEF DragsFit
<1> QED BY <1>1, <1>2, <1>5, <1>10, <1>12, <1>13, BackToList

LEMMA LeaveShareOK ==
    ASSUME Inv, LeaveShare
    PROVE  Goes
<1> DEFINE m == [mgr EXCEPT !.list = mgr.added]
<1>1. /\ InState({"Share"})
      /\ mgr' = ChangeState(m, "Default") /\ store' = AfterState(store, m, "Default")
      /\ UNCHANGED <<alive, next, page, stack, popup, flow, quick>>
  BY DEF LeaveShare
<1>2. /\ alive /\ mgr.state = "Share" /\ stack = M /\ popup = NoPopup
      /\ Current(store, mgr, "Share")
  BY <1>1, OnState
<1>3. /\ IsStore(store, next) /\ IsManager(store, next, mgr) /\ DragsFit(mgr)
      /\ Listed(store, next, mgr.added)
  BY <1>2, FromInv DEF IsManager
<1>4. m = [mgr EXCEPT !.list = mgr.added]
  OBVIOUS
<1> HIDE DEF m
<1>5. /\ IsManager(store, next, m) /\ m.shown = mgr.shown
      /\ m.list = mgr.added /\ m.added = mgr.added
  BY <1>3, <1>4, OtherList
<1>6. Current(store, m, "Default")
  BY <1>2, <1>5 DEF Current, Whole
<1>7. ~mgr.reordered
  BY <1>2, <1>3 DEF DragsFit
<1> QED BY <1>1, <1>2, <1>3, <1>5, <1>6, <1>7, BackToList

LEMMA LeaveStateOK ==
    ASSUME Inv, LeaveState
    PROVE  Goes
<1>1. /\ InState({"Edit", "Delete", "Reorder"}) /\ StateBecomes("Default")
      /\ UNCHANGED <<stack, popup, flow>>
  BY DEF LeaveState
<1>2. /\ alive /\ mgr.state # "SelectFolder" /\ mgr.state # "Share" /\ stack = M
      /\ popup = NoPopup /\ Current(store, mgr, mgr.state)
  BY <1>1, OnState
<1>3. IsStore(store, next) /\ IsManager(store, next, mgr)
  BY <1>2, FromInv
<1>4. Current(store, mgr, "Default")
  BY <1>2, WholeList
<1>5. /\ mgr' = ChangeState(mgr, "Default") /\ store' = AfterState(store, mgr, "Default")
      /\ alive' = alive /\ next' = next /\ page' = page
  BY <1>1 DEF StateBecomes
<1> QED BY <1>1, <1>2, <1>3, <1>4, <1>5, BackToList

(* The manager is left: the page or the flow is shown.                     *)
LEMMA ManagerLeft ==
    ASSUME Inv, InState({"Default", "SelectFolder", "HistoryView"}), StateBecomes("Default"),
           stack' = Front(stack), popup' = popup, IsFlow(flow'), flow'.edit = flow.edit
    PROVE  Goes
<1>1. /\ alive /\ mgr.state \in {"Default", "SelectFolder", "HistoryView"}
      /\ popup = NoPopup /\ stack \in {M, FM, MFM} /\ Current(store, mgr, mgr.state)
  BY OnState
<1>2. /\ next \in 1 .. (MaxId + 1) /\ IsStore(store, next) /\ page \in Urls \cup Names
      /\ IsPopup(popup) /\ IsManager(store, next, mgr) /\ StackFits
  BY <1>1, FromInv
<1>3. /\ mgr' = ChangeState(mgr, "Default") /\ store' = AfterState(store, mgr, "Default")
      /\ alive' = TRUE /\ next' = next /\ page' = page
  BY <1>1 DEF StateBecomes, Inv
<1>4. Current(store, mgr, "Default") /\ "Default" \in ManagerStates
  BY <1>1, WholeList DEF ManagerStates
<1>5. /\ IsStore(store', next) /\ IsManager(store', next, mgr') /\ mgr'.state = "Default"
      /\ Current(store', mgr', "Default") /\ Drags(store', mgr, mgr')
  BY <1>2, <1>3, <1>4, StateChanged
<1>6. stack' \in {P, F, MF} /\ (stack' = MF => stack = MFM)
  BY <1>1, Pops, Different
<1>7. stack' \in Stacks /\ stack' \notin {FM, MFM}
  BY <1>6, Different DEF Stacks
<1>8. StackFits'
  BY <1>1, <1>2, <1>5, <1>6, <1>7 DEF StackFits
<1>9. /\ HasManager(stack') => Current(store', mgr', mgr'.state)
      /\ ManagerOnTop(stack') /\ mgr'.state \in {"Delete", "Share"} => TicksOK(mgr')
  BY <1>5
<1> QED BY <1>1, <1>2, <1>3, <1>5, <1>8, <1>9, ToInv

LEMMA CloseManagerOK ==
    ASSUME Inv, CloseManager
    PROVE  Goes
<1>1. /\ InState({"Default", "SelectFolder", "HistoryView"}) /\ StateBecomes("Default")
      /\ stack' = Front(stack) /\ popup' = popup /\ flow' = flow
  BY DEF CloseManager
<1>2. alive
  BY <1>1, OnState
<1>3. IsFlow(flow)
  BY <1>2, FromInv
<1> QED BY <1>1, <1>3, ManagerLeft

LEMMA AcceptFolderOK ==
    ASSUME Inv, AcceptFolder
    PROVE  Goes
<1>1. /\ InState({"SelectFolder"}) /\ mgr.path # <<>> /\ StateBecomes("Default")
      /\ stack' = Front(stack) /\ popup' = popup
      /\ flow' = [flow EXCEPT !.folder = Last(mgr.path)]
  BY DEF AcceptFolder
<1>2. InState({"Default", "SelectFolder", "HistoryView"}) /\ alive
  BY <1>1 DEF InState, On
<1>3. IsFlow(flow) /\ mgr \in Manager
  BY <1>2, FromInv
<1>4. Last(mgr.path) \in Places
  <2>1. mgr.path \in Seq(Places) /\ Len(mgr.path) \in Nat /\ Len(mgr.path) # 0
    BY <1>1, <1>3, ManagerFields
  <2>2. Len(mgr.path) \in 1 .. Len(mgr.path)
    BY <2>1
  <2> QED BY <2>1, <2>2 DEF Last
<1> DEFINE f == Last(mgr.path)
<1>5. flow' = [flow EXCEPT !.folder = f] /\ f \in Places
  BY <1>1, <1>4
<1> HIDE DEF f
<1>6. IsFlow(flow') /\ flow'.edit = flow.edit
  <2>1. /\ flow = [url |-> flow.url, edit |-> flow.edit, folder |-> flow.folder, qa |-> flow.qa]
        /\ flow.url \in Urls \cup Names \cup {NoUrl} /\ flow.edit \in BOOLEAN
        /\ flow.qa \in BOOLEAN
    BY <1>3, FlowFields
  <2>2. flow' = [url |-> flow.url, edit |-> flow.edit, folder |-> f, qa |-> flow.qa]
    BY <1>5, <2>1
  <2> QED BY <1>5, <2>1, <2>2 DEF IsFlow
<1> QED BY <1>1, <1>2, <1>6, ManagerLeft

LEMMA SwitchHistoryOK ==
    ASSUME Inv, SwitchHistory
    PROVE  Goes
<1>1. /\ InState({"Default", "HistoryView", "HistoryDeleteView"})
      /\ UNCHANGED <<stack, popup, flow>>
      /\ \E s \in {"Default", "HistoryView", "HistoryDeleteView"} : StateBecomes(s)
  BY DEF SwitchHistory, InState
<1>2. PICK s \in {"Default", "HistoryView", "HistoryDeleteView"} : StateBecomes(s)
  BY <1>1
<1>3. /\ alive /\ mgr.state \in {"Default", "HistoryView", "HistoryDeleteView"} /\ stack = M
      /\ Current(store, mgr, mgr.state) /\ popup = NoPopup
  BY <1>1, OnState
<1>4. /\ next \in 1 .. (MaxId + 1) /\ IsStore(store, next) /\ page \in Urls \cup Names
      /\ IsFlow(flow) /\ IsPopup(popup) /\ IsManager(store, next, mgr) /\ DragsFit(mgr)
  BY <1>3, FromInv
<1>5. /\ mgr' = ChangeState(mgr, s) /\ store' = AfterState(store, mgr, s)
      /\ alive' = TRUE /\ next' = next /\ page' = page
  BY <1>2, <1>3 DEF StateBecomes, Inv
<1>6. s \in ManagerStates /\ ~mgr.movable /\ Current(store, mgr, "Default")
      /\ s \notin {"Delete", "Share"}
  BY <1>3, <1>4, WholeList DEF ManagerStates, DragsFit
<1>7. /\ IsStore(store', next) /\ IsManager(store', next, mgr') /\ mgr'.state = s
      /\ Current(store', mgr', s) /\ Drags(store', mgr, mgr')
  BY <1>4, <1>5, <1>6, StateChanged
<1>8. M \in Stacks /\ M \notin {F, MF, FM, MFM}
  BY Different DEF Stacks
<1>9. StackFits'
  BY <1>1, <1>3, <1>8 DEF StackFits
<1>10. IsPopup(popup') /\ IsFlow(flow')
  BY <1>1, <1>4
<1>11. /\ HasManager(stack') => Current(store', mgr', mgr'.state)
       /\ ManagerOnTop(stack') /\ mgr'.state \in {"Delete", "Share"} => TicksOK(mgr')
  BY <1>6, <1>7
<1> QED BY <1>4, <1>5, <1>7, <1>9, <1>10, <1>11, ToInv

LEMMA DismissPopupOK ==
    ASSUME Inv, DismissPopup
    PROVE  Goes
<1>1. /\ alive /\ popup' = NoPopup
      /\ UNCHANGED <<alive, store, next, page, stack, mgr, flow, quick>>
  BY DEF DismissPopup
<1>2. /\ next \in 1 .. (MaxId + 1) /\ IsStore(store, next) /\ page \in Urls \cup Names
      /\ StackFits /\ IsFlow(flow) /\ IsManager(store, next, mgr)
      /\ HasManager(stack) => Current(store, mgr, mgr.state)
      /\ ManagerOnTop(stack) /\ mgr.state \in {"Delete", "Share"} => TicksOK(mgr)
  BY <1>1, FromInv
<1>3. IsPopup(popup')
  BY <1>1 DEF IsPopup
<1>4. StackFits'
  BY <1>1, <1>2 DEF StackFits
<1>5. alive' = TRUE /\ Drags(store', mgr, mgr')
  BY <1>1 DEF Drags, Inv
<1> QED BY <1>1, <1>2, <1>3, <1>4, <1>5, ToInv

(* A popup is answered; what it changes is in the manager on top, if any.  *)
LEMMA Answered ==
    ASSUME Inv, alive, popup # NoPopup, NEW n \in 1 .. (MaxId + 1), next' = n,
           IsStore(store', n), IsManager(store', n, mgr'),
           mgr'.state = mgr.state, mgr'.reordered = mgr.reordered,
           Top = "manager" => Current(store', mgr', mgr.state),
           alive' = alive, page' = page, stack' = stack, popup' = NoPopup, flow' = flow
    PROVE  Goes
<1>1. /\ page \in Urls \cup Names /\ StackFits /\ IsFlow(flow)
  BY FromInv
<1>2. stack \in {P, M, FM, MFM}
  BY <1>1 DEF StackFits, Stacks
<1>3. HasManager(stack) => Top = "manager" /\ mgr.state \in {"Default", "SelectFolder"}
  BY <1>1, <1>2, Tops, Different DEF Top, HasManager, StackFits, ManagerOnTop
<1>4. ManagerOnTop(stack) => HasManager(stack)
  BY DEF ManagerOnTop, HasManager
<1>5. StackFits'
  BY <1>1 DEF StackFits
<1>6. IsPopup(popup') /\ alive' = TRUE /\ Drags(store', mgr, mgr')
  BY DEF IsPopup, Drags, Inv
<1>7. /\ HasManager(stack') => Current(store', mgr', mgr'.state)
      /\ ManagerOnTop(stack') /\ mgr'.state \in {"Delete", "Share"} => TicksOK(mgr')
  BY <1>3, <1>4
<1> QED BY <1>1, <1>5, <1>6, <1>7, ToInv

(* The item of an entry that is new.                                       *)
LEMMA NewItemOK ==
    ASSUME NEW st, NEW n, IsStore(st, n), NEW i \in DOMAIN st,
           NEW x, x = [ItemOf(st, i) EXCEPT !.order = 0]
    PROVE  x \in Item /\ x.id = i /\ OrderFits(st, x) /\ AsStored(st, x)
<1> DEFINE y == ItemOf(st, i)
<1>1. /\ y \in Item /\ y.id = i /\ y.folder = st[i].folder /\ y.parent = st[i].parent
      /\ y.name = st[i].name
  BY ItemOfOK
<1> HIDE DEF y
<1>2. x = [y EXCEPT !.order = 0]
  BY DEF y
<1>3. /\ x \in Item /\ x.id = y.id /\ x.folder = y.folder /\ x.parent = y.parent
      /\ x.name = y.name /\ x.order = 0
  <2>1. /\ y = [id |-> y.id, folder |-> y.folder, parent |-> y.parent,
                order |-> y.order, name |-> y.name]
        /\ y.id \in Places /\ y.folder \in BOOLEAN /\ y.parent \in Places
        /\ y.name \in Urls \cup Names \cup {NoUrl}
    BY <1>1 DEF Item, Places
  <2>2. x = [id |-> y.id, folder |-> y.folder, parent |-> y.parent,
             order |-> 0, name |-> y.name]
    BY <1>2, <2>1
  <2>3. x \in Item
    <3>1. \A a, p \in Places : \A b \in BOOLEAN : \A name \in Urls \cup Names \cup {NoUrl} :
             [id |-> a, folder |-> b, parent |-> p, order |-> 0, name |-> name] \in Item
      BY DEF Item, Places
    <3>2. /\ y.id \in Places /\ y.folder \in BOOLEAN /\ y.parent \in Places
          /\ y.name \in Urls \cup Names \cup {NoUrl}
      BY <2>1
    <3>3. [id |-> y.id, folder |-> y.folder, parent |-> y.parent,
           order |-> 0, name |-> y.name] \in Item
      BY <3>1, <3>2, Zenon
    <3> QED BY <2>2, <3>3, Zenon
  <2>4. /\ x.id = y.id /\ x.parent = y.parent
        /\ x.name = y.name /\ x.order = 0
    BY <2>2
  <2>5. x.folder = y.folder
    BY <2>2
  <2> QED BY <2>3, <2>4, <2>5
<1> QED BY <1>1, <1>3 DEF OrderFits, AsStored

LEMMA CreateFolderOK ==
    ASSUME Inv, NEW name \in Names, CreateFolder(name)
    PROVE  Goes
<1> DEFINE parent == popup.parent
           st == Create(store, TRUE, parent, name)
           Shown(x) == IF Top = "manager" THEN AddBookmarkItemCurrentFolder(mgr, x) ELSE mgr
<1>1. /\ popup.kind = "new" /\ alive /\ popup # NoPopup
      /\ alive' = alive /\ page' = page /\ stack' = stack /\ popup' = NoPopup /\ flow' = flow
  BY DEF CreateFolder, Answers
<1>2. /\ next \in 1 .. (MaxId + 1) /\ next \in Int /\ IsStore(store, next)
      /\ IsPopup(popup) /\ StackFits /\ IsManager(store, next, mgr)
      /\ HasManager(stack) => Current(store, mgr, mgr.state)
  BY <1>1, FromInv
<1>3. Top = "manager" => /\ Current(store, mgr, mgr.state)
                         /\ mgr.state # "Share"
  <2>1. stack \in Stacks
    BY <1>2 DEF StackFits
  <2>2. Top = "manager" => stack \in {M, FM, MFM}
    BY <2>1, Tops DEF Top, Stacks
  <2> QED BY <1>1, <1>2, <2>2 DEF StackFits, HasManager, ManagerOnTop
<1>4. Listed(store, next, mgr.list) /\ Listed(store, next, mgr.added)
  BY <1>2 DEF IsManager
<1>5. CASE name \in FolderNames(store, parent)
  <2>1. store' = store /\ next' = next /\ mgr' = mgr
    BY <1>5 DEF CreateFolder
  <2> QED BY <1>1, <1>2, <1>3, <2>1, Answered
<1>6. CASE name \notin FolderNames(store, parent) /\ DatabaseFull
  <2>1. mgr' = Shown(EmptyItem) /\ store' = store /\ next' = next
    BY <1>6 DEF CreateFolder
  <2>2. CASE Top # "manager"
    <3>1. mgr' = mgr
      BY <2>1, <2>2
    <3> QED BY <1>1, <1>2, <2>1, <2>2, <3>1, Answered
  <2>3. CASE Top = "manager"
    <3> DEFINE x == EmptyItem
    <3>1. x \in Item /\ x.id = Root
      BY DEF EmptyItem, Item, Root
    <3>2. mgr' = AddBookmarkItemCurrentFolder(mgr, x)
      BY <2>1, <2>3
    <3> HIDE DEF x
    <3>3. Root < next /\ Root \notin DOMAIN store
      BY <1>2, MaxIdAssumption DEF IsStore, Ids, Root
    <3>4. IsNewTo(mgr.list, next, x) /\ IsNewTo(mgr.added, next, x)
      BY <3>1, <3>3 DEF IsNewTo
    <3>5. OrderFits(store, x) /\ AsStored(store, x)
      BY <3>1, <3>3 DEF OrderFits, AsStored
    <3>6. /\ IsManager(store, next, mgr') /\ mgr'.state = mgr.state /\ mgr'.shown = mgr.shown
          /\ mgr'.reordered = mgr.reordered
          /\ IdsOf(mgr'.list) = IdsOf(mgr.list) \cup {x.id}
          /\ IdsOf(mgr'.added) = IdsOf(mgr.added) \cup {x.id}
          /\ AsStored(store, x) /\ Agree(store, mgr.list) => Agree(store, mgr'.list)
          /\ AsStored(store, x) /\ Agree(store, mgr.added) => Agree(store, mgr'.added)
      BY <1>2, <3>1, <3>2, <3>4, <3>5, AddItemOK
    <3>7. Current(store, mgr', mgr.state)
      BY <1>3, <2>3, <3>5, <3>6 DEF Current, Whole
    <3> QED BY <1>1, <1>2, <2>1, <3>6, <3>7, Answered
  <2> QED BY <2>2, <2>3
<1>7. CASE name \notin FolderNames(store, parent) /\ ~DatabaseFull
  <2>1. /\ mgr' = Shown([ItemOf(st, next) EXCEPT !.order = 0])
        /\ store' = st /\ next' = next + 1
    BY <1>7 DEF CreateFolder
  <2>2. next \in 1 .. MaxId /\ next + 1 \in 1 .. (MaxId + 1) /\ next + 1 \in Int
    BY <1>2, <1>7, MaxIdAssumption DEF DatabaseFull
  <2>3. parent \in Places
    <3>1. "new" # "rename"
      OBVIOUS
    <3> QED BY <1>1, <1>2 DEF IsPopup
  <2>4. /\ IsStore(st, next + 1)
        /\ DOMAIN st = DOMAIN store \cup {next} /\ next \notin DOMAIN store
        /\ \A i \in DOMAIN store : st[i] = store[i]
    <3> HIDE DEF st, parent
    <3>1. name \in Urls \cup Names
      OBVIOUS
    <3>2. \A b \in BOOLEAN : \A st2 : st2 = Create(store, b, parent, name) =>
             /\ IsStore(st2, next + 1)
             /\ DOMAIN st2 = DOMAIN store \cup {next} /\ next \notin DOMAIN store
             /\ \A i \in DOMAIN store : st2[i] = store[i]
      BY <1>2, <2>2, <2>3, <3>1, CreateOK
    <3>3. st = Create(store, TRUE, parent, name) /\ TRUE \in BOOLEAN
      BY DEF st
    <3> QED BY <3>2, <3>3, Zenon
  <2> HIDE DEF st
  <2>5. \A i \in DOMAIN st : (i \in DOMAIN store /\ st[i].seq = store[i].seq) \/ i >= next
    BY <1>2, <2>4
  <2>6. IsManager(st, next + 1, mgr)
    BY <1>2, <2>2, <2>5, StoreChanged
  <2>7. CASE Top # "manager"
    <3>1. mgr' = mgr
      BY <2>1, <2>7
    <3> QED BY <1>1, <2>1, <2>2, <2>4, <2>6, <2>7, <3>1, Answered
  <2>8. CASE Top = "manager"
    <3> DEFINE x == [ItemOf(st, next) EXCEPT !.order = 0]
    <3>1. x \in Item /\ x.id = next /\ OrderFits(st, x) /\ AsStored(st, x)
      BY <2>4, NewItemOK
    <3>2. mgr' = AddBookmarkItemCurrentFolder(mgr, x)
      BY <2>1, <2>8
    <3> HIDE DEF x
    <3>3. ASSUME NEW s, Listed(store, next, s)
          PROVE  /\ \A k \in DOMAIN s : s[k].id \in Int /\ s[k].id < next
                 /\ Agree(store, s) => Agree(st, s)
                 /\ IsNewTo(s, next + 1, x)
      <4>1. \A k \in DOMAIN s : s[k] \in Item
        BY <3>3 DEF Listed
      <4>2. \A k \in DOMAIN s : s[k].id \in Int /\ s[k].id < next
        BY <3>3, <4>1, MaxIdAssumption DEF Listed, Item, Ids, Root
      <4>3. \A k \in DOMAIN s : s[k].id # next
        BY <1>2, <4>2
      <4>4. Agree(store, s) => Agree(st, s)
        BY <2>4, <4>3 DEF Agree
      <4>5. IsNewTo(s, next + 1, x)
        BY <1>2, <3>1, <4>3 DEF IsNewTo
      <4> QED BY <4>2, <4>4, <4>5
    <3>4. /\ IsNewTo(mgr.list, next + 1, x) /\ IsNewTo(mgr.added, next + 1, x)
          /\ Agree(store, mgr.list) => Agree(st, mgr.list)
          /\ Agree(store, mgr.added) => Agree(st, mgr.added)
      BY <1>4, <3>3
    <3>5. /\ IsManager(st, next + 1, mgr') /\ mgr'.state = mgr.state
          /\ mgr'.shown = mgr.shown /\ mgr'.reordered = mgr.reordered
          /\ IdsOf(mgr'.list) = IdsOf(mgr.list) \cup {x.id}
          /\ IdsOf(mgr'.added) = IdsOf(mgr.added) \cup {x.id}
          /\ AsStored(st, x) /\ Agree(st, mgr.list) => Agree(st, mgr'.list)
          /\ AsStored(st, x) /\ Agree(st, mgr.added) => Agree(st, mgr'.added)
      <4> DEFINE n == next + 1
      <4>1. IsManager(st, n, mgr) /\ IsNewTo(mgr.list, n, x) /\ IsNewTo(mgr.added, n, x)
        BY <2>6, <3>4
      <4> HIDE DEF n
      <4>2. /\ IsManager(st, n, mgr') /\ mgr'.state = mgr.state
            /\ mgr'.shown = mgr.shown /\ mgr'.reordered = mgr.reordered
            /\ IdsOf(mgr'.list) = IdsOf(mgr.list) \cup {x.id}
            /\ IdsOf(mgr'.added) = IdsOf(mgr.added) \cup {x.id}
            /\ AsStored(st, x) /\ Agree(st, mgr.list) => Agree(st, mgr'.list)
            /\ AsStored(st, x) /\ Agree(st, mgr.added) => Agree(st, mgr'.added)
        BY <3>1, <3>2, <4>1, AddItemOK
      <4> QED BY <4>2 DEF n
    <3>6. Agree(store, mgr.list) /\ Agree(store, mgr.added) /\ Whole(store, mgr, mgr.state)
      BY <1>3, <2>8 DEF Current
    <3>7. Whole(st, mgr', mgr.state)
      <4> SUFFICES ASSUME NEW i \in Children(st, mgr'.shown)
                   PROVE  i \in IdsOf(mgr'.added) /\ i \in IdsOf(mgr'.list)
        BY DEF Whole
      <4>1. i = next \/ i \in Children(store, mgr.shown)
        BY <2>4, <3>5 DEF Children
      <4> QED BY <1>3, <2>8, <3>1, <3>5, <3>6, <4>1 DEF Whole
    <3>8. Current(st, mgr', mgr.state)
      BY <3>1, <3>4, <3>5, <3>6, <3>7 DEF Current
    <3> QED BY <1>1, <2>1, <2>2, <2>4, <3>5, <3>8, Answered
  <2> QED BY <2>7, <2>8
<1> QED BY <1>5, <1>6, <1>7

LEMMA RenameFolderOK ==
    ASSUME Inv, NEW name \in Names, RenameFolder(name)
    PROVE  Goes
<1> DEFINE item == popup.item
           st == IF item.id \in DOMAIN store
                 THEN [store EXCEPT ![item.id].name = name] ELSE store
<1>1. popup.kind = "rename" /\ alive /\ popup # NoPopup /\ store' = st
  BY DEF RenameFolder, Answers
<1>2. /\ next \in 1 .. (MaxId + 1) /\ next \in Int /\ IsStore(store, next)
      /\ IsPopup(popup) /\ IsManager(store, next, mgr) /\ mgr \in Manager /\ DragsFit(mgr)
  BY <1>1, FromInv
<1>3. item.parent \in Places
  <2>1. item \in Item
    <3>1. "new" # "rename"
      OBVIOUS
    <3> QED BY <1>1, <1>2, <3>1 DEF IsPopup
  <2> HIDE DEF item
  <2> QED BY <2>1 DEF Item, Places
<1>4. IsStore(st, next) /\ DOMAIN st = DOMAIN store /\ \A i \in DOMAIN store : st[i].seq = store[i].seq
  <2>1. CASE item.id \in DOMAIN store
    <3>1. st = Renamed(store, item.id, name)
      BY <2>1 DEF Renamed
    <3>2. name \in Urls \cup Names
      OBVIOUS
    <3> HIDE DEF st, item
    <3> QED BY <1>2, <1>3, <2>1, <3>1, <3>2, ChangeOK
  <2>2. CASE item.id \notin DOMAIN store
    BY <1>2, <2>2
  <2> QED BY <2>1, <2>2
<1>5. CASE ~HasItem(store, item.parent) /\ Top = "manager"
  <2>1. Die
    BY <1>5 DEF RenameFolder
  <2>2. IsStore(store', next)
    BY <1>1, <1>4
  <2> QED BY <1>1, <2>1, <2>2, Dead
<1>6. CASE ~(~HasItem(store, item.parent) /\ Top = "manager")
  <2>1. /\ mgr' = IF Top = "manager" THEN Fill(mgr, st, item.parent) ELSE mgr
        /\ popup' = NoPopup
        /\ UNCHANGED <<alive, next, page, stack, flow, quick>>
    BY <1>6 DEF RenameFolder
  <2> HIDE DEF st, item
  <2>2. CASE Top = "manager"
    <3>1. mgr' = Fill(mgr, st, item.parent)
      BY <2>1, <2>2
    <3>2. /\ IsManager(st, next, mgr') /\ mgr'.state = mgr.state
          /\ mgr'.reordered = mgr.reordered
          /\ \A s : Current(st, mgr', s)
      BY <1>2, <1>3, <1>4, <3>1, FillOK
    <3> QED BY <1>1, <1>2, <1>4, <2>1, <3>2, Answered
  <2>3. CASE Top # "manager"
    <3>1. mgr' = mgr
      BY <2>1, <2>3
    <3>2. IsManager(st, next, mgr)
      BY <1>2, <1>4, StoreChanged
    <3> QED BY <1>1, <1>2, <1>4, <2>1, <2>3, <3>1, <3>2, Answered
  <2> QED BY <2>2, <2>3
<1> QED BY <1>5, <1>6

(* A manager that is new lists nothing.                                    *)
LEMMA NewManagerOK ==
    ASSUME NEW st, NEW n
    PROVE  IsManager(st, n, NewManager) /\ IsFlow(NewFlow)
<1>1. HasFields(NewManager)
  BY DEF HasFields, NewManager
<1>2. /\ NewManager.state = "Default" /\ NewManager.path = <<>> /\ NewManager.added = <<>>
      /\ NewManager.list = <<>> /\ NewManager.reordered = FALSE /\ NewManager.movable = FALSE
      /\ NewManager.selected = {} /\ NewManager.count = 0 /\ NewManager.shown = Root
  BY DEF NewManager
<1>3. <<>> \in Seq(Places) /\ <<>> \in Seq(Item) /\ DOMAIN <<>> = {}
  OBVIOUS
<1>4. NewManager \in Manager
  <2>1. "Default" \in ManagerStates /\ Root \in Places /\ {} \in SUBSET Places /\ 0 \in Int
    BY DEF ManagerStates, Places
  <2> QED BY <1>1, <1>2, <1>3, <2>1, ManagerFields
<1>5. Listed(st, n, <<>>)
  BY <1>3 DEF Listed
<1>6. DragsFit(NewManager)
  BY <1>2 DEF DragsFit
<1>7. IsFlow(NewFlow)
  BY DEF IsFlow, NewFlow, Places
<1> QED BY <1>2, <1>4, <1>5, <1>6, <1>7 DEF IsManager

(* The first view is the page, without a popup.                            *)
LEMMA Fresh ==
    ASSUME stack = P, popup = NoPopup, mgr = NewManager, flow = NewFlow
    PROVE  Running
<1>1. IsManager(store, next, mgr) /\ IsFlow(flow)
  BY NewManagerOK
<1>2. ~HasManager(P) /\ ~ManagerOnTop(P) /\ P \in Stacks /\ P \notin {F, MF, FM, MFM}
  BY Different DEF HasManager, ManagerOnTop, Stacks
<1>3. StackFits
  BY <1>2 DEF StackFits
<1>4. IsPopup(popup)
  BY DEF IsPopup
<1> QED BY <1>1, <1>2, <1>3, <1>4 DEF Running

LEMMA InitOK ==
    ASSUME Init
    PROVE  Inv
<1>1. /\ alive = TRUE /\ store = [i \in {} |-> 0] /\ next = 1 /\ page \in Urls
      /\ stack = P /\ popup = NoPopup /\ mgr = NewManager /\ flow = NewFlow
  BY DEF Init, P
<1>2. Running
  BY <1>1, Fresh
<1>3. DOMAIN store = {} /\ store = [i \in DOMAIN store |-> store[i]]
  BY <1>1
<1>4. IsStore(store, next)
  BY <1>3 DEF IsStore
<1>5. next \in 1 .. (MaxId + 1)
  BY <1>1, MaxIdAssumption
<1> QED BY <1>1, <1>2, <1>4, <1>5 DEF Inv

LEMMA RestartOK ==
    ASSUME Inv, Restart
    PROVE  Inv' /\ ~alive
<1>1. /\ ~alive /\ alive' = TRUE /\ stack' = P /\ popup' = NoPopup
      /\ mgr' = NewManager /\ flow' = NewFlow /\ store' = store /\ next' = next /\ page' = page
  BY DEF Restart, P
<1>2. Running'
  <2>1. IsManager(store', next', mgr') /\ IsFlow(flow')
    BY <1>1, NewManagerOK
  <2>2. ~HasManager(P) /\ ~ManagerOnTop(P) /\ P \in Stacks /\ P \notin {F, MF, FM, MFM}
    BY Different DEF HasManager, ManagerOnTop, Stacks
  <2>3. StackFits'
    BY <1>1, <2>2 DEF StackFits
  <2>4. IsPopup(popup')
    BY <1>1 DEF IsPopup
  <2> QED BY <1>1, <2>1, <2>2, <2>3, <2>4 DEF Running
<1> QED BY <1>1, <1>2 DEF Inv

LEMMA StepOK ==
    ASSUME Inv, [Next]_vars
    PROVE  Inv' /\ (alive => Drags(store', mgr, mgr'))
<1>1. CASE PageStep
  BY <1>1, NavigateOK, OpenFromOutsideOK, ShowBookmarkFlowUIOK, DeleteBookmarkOK, OpenManagerOK
  DEF PageStep, Goes
<1>2. CASE FlowStep
  BY <1>2, SelectFolderOK, TickQuickAccessOK, SaveBookmarkOK, EditBookmarkOK, LeaveFlowOK
  DEF FlowStep, Goes
<1>3. CASE ManagerStep
  BY <1>3, OpenFolderOK, NavigatorFolderOK, OpenBookmarkOK, EditFolderOK, EditItemOK, ChooseOK,
     NewFolderOK, TickStepOK, SelectAllOK, MoveOK, AcceptDeleteOK, AcceptFolderOK,
     CloseManagerOK, LeaveStateOK, LeaveShareOK, SwitchHistoryOK
  DEF ManagerStep, Goes
<1>4. CASE PopupStep
  BY <1>4, CreateFolderOK, RenameFolderOK, DismissPopupOK DEF PopupStep, Goes
<1>5. CASE Restart
  BY <1>5, RestartOK
<1>6. CASE UNCHANGED vars
  <2>1. /\ alive' = alive /\ store' = store /\ next' = next /\ page' = page
        /\ stack' = stack /\ popup' = popup /\ mgr' = mgr /\ flow' = flow
    BY <1>6 DEF vars
  <2> QED BY <2>1 DEF Inv, Running, StackFits, Drags
<1> QED BY <1>1, <1>2, <1>3, <1>4, <1>5, <1>6 DEF Next

LEMMA AlwaysInv == Spec => []Inv
<1>1. Init => Inv
  BY InitOK
<1>2. Inv /\ [Next]_vars => Inv'
  BY StepOK
<1> QED BY <1>1, <1>2, PTL DEF Spec

-----------------------------------------------------------------------------
(* In every reachable state no entry of the folder is missing from the     *)
(* manager's list, and what is listed has the name and the place it has in *)
(* the database.                                                           *)
THEOREM ListCurrent == Spec => []ListIsCurrent
<1>1. Inv => ListIsCurrent
  <2> SUFFICES ASSUME Inv, alive, Top = "manager"
               PROVE  /\ \A i \in Children(store, mgr.shown) :
                            (mgr.state = "Share" /\ store[i].folder) \/ i \in IdsOf(mgr.list)
                      /\ \A item \in Range(mgr.list) :
                            item.id \in DOMAIN store =>
                               /\ item.name = store[item.id].name
                               /\ item.parent = store[item.id].parent
    BY DEF ListIsCurrent
  <2>1. stack \in Stacks
    BY FromInv DEF StackFits
  <2>2. stack \in {M, FM, MFM}
    BY <2>1, Tops DEF Top, Stacks
  <2>3. Agree(store, mgr.list) /\ Whole(store, mgr, mgr.state)
    BY <2>2, FromInv DEF HasManager, Current
  <2> QED BY <2>3 DEF Agree, Whole, Range
<1> QED BY <1>1, AlwaysInv, PTL

(* What is ticked is on the screen, and as many items as are counted.      *)
THEOREM TickedListed == Spec => []TickedAreListed
<1>1. Inv => TickedAreListed
  <2> SUFFICES ASSUME Inv, alive, Top = "manager", mgr.state \in {"Delete", "Share"}
               PROVE  /\ mgr.selected \subseteq IdsOf(mgr.list)
                      /\ mgr.count = Cardinality(mgr.selected)
    BY DEF TickedAreListed
  <2>1. stack \in Stacks
    BY FromInv DEF StackFits
  <2>2. ManagerOnTop(stack)
    BY <2>1, Tops DEF Top, Stacks, ManagerOnTop
  <2>3. TicksOK(mgr)
    BY <2>2, FromInv
  <2> QED BY <2>3 DEF TicksOK
<1> QED BY <1>1, AlwaysInv, PTL

(* When a dragged order is forgotten it is in the database.                *)
THEOREM DragsStored == Spec => DragsReachTheStore
<1>1. Inv /\ [Next]_vars =>
        [ alive /\ mgr.reordered /\ ~mgr'.reordered =>
            \A j, k \in DOMAIN mgr.list :
                LET a == mgr.list[j].id
                    b == mgr.list[k].id
                IN  /\ j < k /\ {a, b} \subseteq DOMAIN store'
                    /\ store'[a].parent = store'[b].parent
                    => store'[a].seq < store'[b].seq ]_vars
  <2> SUFFICES ASSUME Inv, [Next]_vars, alive, mgr.reordered, ~mgr'.reordered,
                      NEW j \in DOMAIN mgr.list, NEW k \in DOMAIN mgr.list, j < k,
                      mgr.list[j].id \in DOMAIN store', mgr.list[k].id \in DOMAIN store'
               PROVE  store'[mgr.list[j].id].seq < store'[mgr.list[k].id].seq
    OBVIOUS
  <2>1. InPlace(store', mgr.list)
    BY StepOK DEF Drags
  <2> QED BY <2>1 DEF InPlace
<1> QED BY <1>1, AlwaysInv, PTL DEF Spec, DragsReachTheStore
=============================================================================
