---------------------------- MODULE ServicesProofs ----------------------------
(***************************************************************************)
(* What the services promise, for any constants: each has its inductive    *)
(* invariant, and the theorems at the end put them into Services.          *)
(***************************************************************************)
EXTENDS Services, Sequences, SequenceTheorems, WellFoundedInduction, TLAPS

-----------------------------------------------------------------------------
(***************************************************************************)
(* The find bar counts what its page has, for any documents, words, bounds *)
(* and answers of the engine.                                              *)
(***************************************************************************)

(* Only the page on screen has searches that were not given up.            *)
OthersAreOld ==
    \A p \in Tabs \ {current} : \A i \in DOMAIN asks[p] : asks[p][i].old

(* The bar leaves an empty entry behind; once the entry's signal is        *)
(* handled the bar has its word.                                           *)
EntryOK ==
    /\ ~bar.isVisible => entry = Empty
    /\ ~pending => bar.word = entry

(* Without a word nothing is searched for and nothing counted.             *)
NoWordOK ==
    bar.word = Empty =>
        /\ \A p \in Tabs : \A i \in DOMAIN asks[p] : asks[p][i].old
        /\ stray \/ shown.total = 0

(* The last search on its way is for the bar's word on the page on screen. *)
LastIsCurrent ==
    /\ asks[current] # <<>>
    /\ asks[current][Len(asks[current])] =
          [doc |-> doc[current], word |-> bar.word, old |-> FALSE]

Counted == stray \/ shown.total = Find!Capped(Matches[doc[current]][bar.word])

WordOK ==
    bar.word # Empty /\ entry # Empty =>
        LastIsCurrent \/ (asks[current] = <<>> /\ Counted)

CounterOK == Find!CounterInRange /\ bar.index \in Nat /\ bar.total \in Nat

(* The inductive invariant.  What is counted is not inductive by itself:   *)
(* an answer counts for the bar only because it is that of the last search *)
(* of the page on screen, and a tab change gives the other ones up.        *)
FindInv == Find!TypeOK /\ OthersAreOld /\ EntryOK /\ NoWordOK /\ WordOK /\ CounterOK

-----------------------------------------------------------------------------
(***************************************************************************)
(* The searches on their way.                                              *)
(***************************************************************************)

(* Giving the searches up keeps them, in their order, as old ones.         *)
LEMMA AbandonedOK ==
    ASSUME Find!TypeOK
    PROVE  /\ Find!Abandoned \in [Tabs -> Seq(Find!Search)]
           /\ \A p \in Tabs : \A i \in DOMAIN Find!Abandoned[p] : Find!Abandoned[p][i].old
<1>1. ASSUME NEW p \in Tabs
      PROVE  /\ Find!Abandoned[p] \in Seq(Find!Search)
             /\ \A i \in DOMAIN Find!Abandoned[p] : Find!Abandoned[p][i].old
  <2> DEFINE s == asks[p]
             u == [i \in DOMAIN s |-> [s[i] EXCEPT !.old = TRUE]]
  <2>1. s \in Seq(Find!Search)
    BY DEF Find!TypeOK
  <2>2. DOMAIN s = 1 .. Len(s) /\ Len(s) \in Nat /\ \A i \in 1 .. Len(s) : s[i] \in Find!Search
    BY <2>1
  <2>3. \A i \in 1 .. Len(s) : [s[i] EXCEPT !.old = TRUE] \in Find!Search
                               /\ [s[i] EXCEPT !.old = TRUE].old
    BY <2>2 DEF Find!Search
  <2>4. u \in [1 .. Len(s) -> Find!Search] /\ \A i \in DOMAIN u : u[i].old
    BY <2>2, <2>3
  <2>5. u \in Seq(Find!Search)
    BY <2>2, <2>4, SeqDef
  <2>6. Find!Abandoned[p] = u
    BY DEF Find!Abandoned
  <2> QED BY <2>4, <2>5, <2>6
<1> QED BY <1>1 DEF Find!Abandoned

(* A search is the last of its page, and of no other.                      *)
LEMMA FindWordOK ==
    ASSUME Find!TypeOK, NEW word \in Words, Find!FindWord(word)
    PROVE  /\ asks' \in [Tabs -> Seq(Find!Search)]
           /\ \A p \in Tabs \ {current} : asks'[p] = asks[p]
           /\ asks'[current] # <<>>
           /\ asks'[current][Len(asks'[current])] =
                 [doc |-> doc[current], word |-> word, old |-> FALSE]
<1> DEFINE s == asks[current]
           new == [doc |-> doc[current], word |-> word, old |-> FALSE]
<1>1. current \in Tabs /\ s \in Seq(Find!Search) /\ asks \in [Tabs -> Seq(Find!Search)]
      /\ doc[current] \in Docs
  BY DEF Find!TypeOK
<1>2. new \in Find!Search
  BY <1>1 DEF Find!Search
<1> HIDE DEF new
<1>3. /\ Append(s, new) \in Seq(Find!Search) /\ Append(s, new) # <<>>
      /\ Append(s, new)[Len(Append(s, new))] = new
  BY <1>1, <1>2
<1>4. asks' = [asks EXCEPT ![current] = Append(s, new)]
  BY DEF Find!FindWord, new
<1> QED BY <1>1, <1>3, <1>4 DEF new

(* An answer takes the first search of its page; the last one stays last.  *)
LEMMA AnswerTaken ==
    ASSUME Find!TypeOK, NEW p \in Tabs, asks[p] # <<>>,
           asks' = [asks EXCEPT ![p] = Tail(@)]
    PROVE  /\ Head(asks[p]) \in Find!Search
           /\ asks' \in [Tabs -> Seq(Find!Search)]
           /\ \A q \in Tabs \ {p} : asks'[q] = asks[q]
           /\ (\A i \in DOMAIN asks[p] : asks[p][i].old)
                 => Head(asks[p]).old /\ \A i \in DOMAIN asks'[p] : asks'[p][i].old
           /\ \/ asks'[p] = <<>> /\ Head(asks[p]) = asks[p][Len(asks[p])]
              \/ asks'[p] # <<>> /\ asks'[p][Len(asks'[p])] = asks[p][Len(asks[p])]
<1> DEFINE s == asks[p]
           u == Tail(s)
<1>1. s \in Seq(Find!Search) /\ s # <<>> /\ asks \in [Tabs -> Seq(Find!Search)]
  BY DEF Find!TypeOK
<1>2. asks' = [asks EXCEPT ![p] = u]
  OBVIOUS
<1> HIDE DEF s
<1>3. /\ Len(s) \in Nat \ {0} /\ DOMAIN s = 1 .. Len(s)
      /\ Head(s) = s[1] /\ Head(s) \in Find!Search
      /\ u \in Seq(Find!Search) /\ Len(u) = Len(s) - 1 /\ DOMAIN u = 1 .. Len(s) - 1
      /\ \A i \in 1 .. Len(s) - 1 : u[i] = s[i + 1]
  BY <1>1
<1> HIDE DEF u
<1>4. (\A i \in DOMAIN s : s[i].old) => Head(s).old /\ \A i \in DOMAIN u : u[i].old
  <2> SUFFICES ASSUME \A i \in 1 .. Len(s) : s[i].old
               PROVE  s[1].old /\ \A i \in 1 .. Len(s) - 1 : u[i].old
    BY <1>3
  <2>1. 1 \in 1 .. Len(s) /\ \A i \in 1 .. Len(s) - 1 : i + 1 \in 1 .. Len(s)
    BY <1>3
  <2> QED BY <1>3, <2>1
<1>5. \/ u = <<>> /\ Head(s) = s[Len(s)]
      \/ u # <<>> /\ u[Len(u)] = s[Len(s)]
  <2>1. CASE Len(s) = 1
    BY <1>3, <2>1
  <2>2. CASE Len(s) > 1
    <3>1. Len(s) - 1 \in 1 .. Len(s) - 1 /\ (Len(s) - 1) + 1 = Len(s)
      BY <1>3, <2>2
    <3>2. u[Len(s) - 1] = s[Len(s)]
      BY <1>3, <3>1
    <3> QED BY <1>3, <2>2, <3>2
  <2> QED BY <1>3, <2>1, <2>2
<1> QED BY <1>1, <1>2, <1>3, <1>4, <1>5 DEF s, u
-----------------------------------------------------------------------------
(***************************************************************************)
(* The counter.                                                            *)
(***************************************************************************)

LEMMA CappedOK ==
    ASSUME Find!FindAssumption, NEW d \in Docs, NEW w \in Words
    PROVE  Find!Capped(Matches[d][w]) \in 0 .. MaxCount - 1
  BY DEF Find!FindAssumption, Find!Capped

LEMMA FoundOK ==
    ASSUME Find!FindAssumption, NEW index \in Nat, NEW d \in Docs, NEW w \in Words
    PROVE  LET to == Find!Found(index, Matches[d][w])
           IN  /\ to \in Find!Counter /\ Find!InRange(to)
               /\ to.index \in Nat /\ to.total \in Nat
               /\ to.total = Find!Capped(Matches[d][w])
<1> DEFINE count == Matches[d][w]
           total == Find!Capped(count)
<1>1. total \in 0 .. MaxCount - 1 /\ MaxCount \in Nat /\ count \in Int
  BY CappedOK DEF Find!FindAssumption
<1>2. count = 0 => total = 0
  BY DEF Find!Capped, Find!FindAssumption
<1> HIDE DEF total, count
<1>3. Find!Found(index, count) =
        LET first == IF index = 0 THEN 1 ELSE index
            at == IF count = 0 THEN 0 ELSE first
        IN [index |-> IF at > total THEN total ELSE at, total |-> total]
  BY DEF Find!Found, total
<1> QED BY <1>1, <1>2, <1>3 DEF Find!InRange, Find!Counter, total, count
-----------------------------------------------------------------------------
(***************************************************************************)
(* The steps.                                                              *)
(***************************************************************************)

(* Closing the bar gives every search up, whatever page is shown then.     *)
LEMMA HiddenOK ==
    ASSUME Find!FindAssumption, FindInv, Find!Hidden, current' \in Tabs, doc' \in [Tabs -> Docs]
    PROVE  FindInv'
<1>1. asks' \in [Tabs -> Seq(Find!Search)]
      /\ \A p \in Tabs : \A i \in DOMAIN asks'[p] : asks'[p][i].old
  BY AbandonedOK DEF FindInv, Find!Hidden
<1>2. Empty \in Words /\ MaxCount \in Nat /\ MaxCount > 1
  BY DEF Find!FindAssumption
<1>3. bar' = [bar EXCEPT !.isVisible = FALSE, !.index = 0, !.total = 0] /\ bar \in Find!Bar
      /\ entry' = Empty /\ pending' = (pending \/ Empty # entry)
      /\ shown' = Find!None /\ stray' = FALSE
  BY DEF Find!Hidden, Find!SetEntry, FindInv, Find!TypeOK
<1>4. bar' \in Find!Bar /\ ~bar'.isVisible /\ bar'.index = 0 /\ bar'.total = 0
      /\ bar'.word = bar.word
  <2>1. 0 \in Int /\ bar.word \in Words
    BY <1>3 DEF Find!Bar
  <2>2. bar' = [index |-> 0, total |-> 0, word |-> bar.word, isVisible |-> FALSE]
    BY <1>3 DEF Find!Bar
  <2> QED BY <2>1, <2>2 DEF Find!Bar
<1>5. shown'.index = 0 /\ shown'.total = 0 /\ shown' \in Find!Counter
  BY <1>3 DEF Find!None, Find!Counter
<1>6. Find!TypeOK'
  BY <1>1, <1>2, <1>3, <1>4, <1>5 DEF Find!TypeOK, FindInv
<1>7. EntryOK'
  BY <1>3, <1>4 DEF EntryOK, FindInv
<1>8. OthersAreOld' /\ NoWordOK' /\ WordOK'
  BY <1>1, <1>3, <1>5 DEF OthersAreOld, NoWordOK, WordOK
<1>9. CounterOK'
  BY <1>2, <1>4, <1>5 DEF CounterOK, Find!CounterInRange, Find!InRange
<1> QED BY <1>6, <1>7, <1>8, <1>9 DEF FindInv

LEMMA FindInvInit == ASSUME Find!FindAssumption PROVE Find!Init => FindInv
<1> SUFFICES ASSUME Find!Init PROVE FindInv
  OBVIOUS
<1>1. Find!TypeOK
  <2>1. entry \in Words /\ pending \in BOOLEAN /\ stray \in BOOLEAN
        /\ current \in Tabs /\ doc \in [Tabs -> Docs]
    BY DEF Find!Init, Find!FindAssumption
  <2>2. bar \in Find!Bar
    BY DEF Find!Init, Find!Bar, Find!FindAssumption
  <2>3. shown \in Find!Counter
    BY DEF Find!Init, Find!Counter, Find!None
  <2>4. <<>> \in Seq(Find!Search)
    OBVIOUS
  <2>5. asks \in [Tabs -> Seq(Find!Search)]
    BY <2>4 DEF Find!Init
  <2> QED BY <2>1, <2>2, <2>3, <2>5 DEF Find!TypeOK
<1>2. \A p \in Tabs : asks[p] = <<>>
  BY DEF Find!Init
<1>3. OthersAreOld /\ NoWordOK
  BY <1>2 DEF OthersAreOld, NoWordOK, Find!Init, Find!None
<1>4. EntryOK /\ WordOK
  BY DEF Find!Init, EntryOK, WordOK
<1>5. CounterOK
  BY DEF Find!Init, CounterOK, Find!CounterInRange, Find!InRange, Find!None, Find!FindAssumption
<1> QED BY <1>1, <1>3, <1>4, <1>5 DEF FindInv

LEMMA FindInvNext ==
    ASSUME Find!FindAssumption, FindInv, [Find!Next]_(Find!vars)
    PROVE  FindInv'
<1> USE DEF FindInv
<1>0. /\ bar \in Find!Bar /\ bar.isVisible \in BOOLEAN /\ bar.word \in Words
      /\ pending \in BOOLEAN /\ entry \in Words /\ stray \in BOOLEAN
      /\ current \in Tabs /\ doc \in [Tabs -> Docs] /\ Empty \in Words
  BY DEF Find!TypeOK, Find!Bar, Find!FindAssumption
<1>1. ASSUME NEW w \in Words, Find!ShowFindOnPageUI(w)
      PROVE  FindInv'
  <2>1. bar' \in Find!Bar /\ bar'.isVisible /\ bar'.word = bar.word
        /\ bar'.index = bar.index /\ bar'.total = bar.total
    BY <1>0, <1>1 DEF Find!ShowFindOnPageUI, Find!Bar
  <2>2. /\ ~pending /\ entry' = w /\ pending' = (entry # Empty \/ w # Empty)
        /\ UNCHANGED <<shown, current, doc, asks, stray>>
    BY <1>1 DEF Find!ShowFindOnPageUI
  <2>3. Find!TypeOK' /\ OthersAreOld' /\ NoWordOK' /\ CounterOK'
    BY <2>1, <2>2 DEF Find!TypeOK, OthersAreOld, NoWordOK, CounterOK, Find!CounterInRange, Find!InRange
  <2>4. EntryOK' /\ bar.word = entry
    BY <2>1, <2>2 DEF EntryOK
  <2>5. WordOK'
    BY <2>1, <2>2, <2>4 DEF WordOK, LastIsCurrent, Counted
  <2> QED BY <2>3, <2>4, <2>5
<1>2. ASSUME NEW w \in Words, Find!Type(w)
      PROVE  FindInv'
  <2>1. /\ ~pending /\ entry' = w /\ pending' /\ bar.isVisible
        /\ UNCHANGED <<bar, shown, current, doc, asks, stray>>
    BY <1>2 DEF Find!Type, Find!SetEntry
  <2>2. pending' \in BOOLEAN
    BY <1>0, <1>2 DEF Find!Type, Find!SetEntry
  <2>3. Find!TypeOK' /\ OthersAreOld' /\ NoWordOK' /\ CounterOK' /\ EntryOK'
    BY <2>1, <2>2 DEF Find!TypeOK, OthersAreOld, NoWordOK, CounterOK, Find!CounterInRange, Find!InRange, EntryOK
  <2>4. bar.word = entry
    BY <2>1 DEF EntryOK
  <2>5. WordOK'
    BY <2>1, <2>4 DEF WordOK, LastIsCurrent, Counted
  <2> QED BY <2>3, <2>5
<1>3. CASE Find!CloseFindOnPageUI \/ Find!BackOrForward
  BY <1>0, <1>3, HiddenOK DEF Find!CloseFindOnPageUI, Find!BackOrForward
<1>4. ASSUME NEW d \in Docs, Find!LoadStarted(d)
      PROVE  FindInv'
  <2>1. doc' = [doc EXCEPT ![current] = d] /\ doc' \in [Tabs -> Docs] /\ current' = current
    BY <1>0, <1>4 DEF Find!LoadStarted
  <2>2. CASE bar.isVisible
    BY <1>0, <1>4, <2>1, <2>2, HiddenOK DEF Find!LoadStarted
  <2>3. CASE ~bar.isVisible
    <3>1. UNCHANGED <<entry, pending, bar, shown, current, asks, stray>>
      BY <1>4, <2>3 DEF Find!LoadStarted
    <3>2. entry = Empty
      BY <2>3 DEF EntryOK
    <3> QED BY <2>1, <3>1, <3>2
        DEF Find!TypeOK, OthersAreOld, NoWordOK, CounterOK, Find!CounterInRange, Find!InRange, EntryOK, WordOK
  <2> QED BY <2>2, <2>3
<1>5. ASSUME NEW p \in Tabs, NEW d \in Docs, Find!LoadInBackground(p, d)
      PROVE  FindInv'
  <2>1. /\ doc' = [doc EXCEPT ![p] = d] /\ doc' \in [Tabs -> Docs]
        /\ doc'[current] = doc[current]
        /\ UNCHANGED <<entry, pending, bar, shown, current, asks, stray>>
    BY <1>0, <1>5 DEF Find!LoadInBackground
  <2> QED BY <2>1
      DEF Find!TypeOK, OthersAreOld, NoWordOK, CounterOK, Find!CounterInRange, Find!InRange, EntryOK,
          WordOK, LastIsCurrent, Counted
<1>6. ASSUME NEW p \in Tabs, Find!SwitchToTab(p)
      PROVE  FindInv'
  BY <1>0, <1>6, HiddenOK DEF Find!SwitchToTab
<1>7. CASE Find!ClearClicked
  <2>1. /\ ~pending /\ bar.isVisible /\ entry' = Empty
        /\ pending' = (Empty # entry)
        /\ shown' = Find!None
        /\ UNCHANGED <<bar, current, doc, asks, stray>>
    BY <1>0, <1>7 DEF Find!ClearClicked, Find!SetEntry
  <2>2. shown' \in Find!Counter /\ shown'.index = 0 /\ shown'.total = 0
    BY <2>1 DEF Find!None, Find!Counter
  <2>3. Find!TypeOK' /\ OthersAreOld' /\ NoWordOK' /\ EntryOK' /\ WordOK'
    BY <1>0, <2>1, <2>2 DEF Find!TypeOK, OthersAreOld, NoWordOK, EntryOK, WordOK
  <2>4. CounterOK'
    BY <2>1, <2>2 DEF CounterOK, Find!CounterInRange, Find!InRange, Find!FindAssumption
  <2> QED BY <2>3, <2>4
<1>8. CASE Find!EntryChanged
  <2>0. pending /\ UNCHANGED <<current, doc>>
    BY <1>8 DEF Find!EntryChanged
  <2>1. CASE Find!EntryEmptied
    <3>1. /\ entry = Empty /\ UNCHANGED entry /\ shown' = Find!None /\ pending' = FALSE
          /\ asks' = Find!Abandoned /\ stray' = FALSE
          /\ bar' = [bar EXCEPT !.index = 1, !.word = Empty]
      BY <2>1 DEF Find!EntryEmptied
    <3>2. /\ bar' \in Find!Bar /\ bar'.isVisible = bar.isVisible /\ bar'.word = Empty
          /\ bar'.index = 1 /\ bar'.total = bar.total
      <4>1. bar' = [index |-> 1, total |-> bar.total, word |-> Empty,
                    isVisible |-> bar.isVisible]
        BY <1>0, <3>1 DEF Find!Bar
      <4>2. 1 \in Int /\ bar.total \in Int
        BY <1>0 DEF Find!Bar
      <4> QED BY <1>0, <4>1, <4>2 DEF Find!Bar
    <3>3. shown' \in Find!Counter /\ shown'.index = 0 /\ shown'.total = 0
      BY <3>1 DEF Find!None, Find!Counter
    <3>4. asks' \in [Tabs -> Seq(Find!Search)]
          /\ \A p \in Tabs : \A i \in DOMAIN asks'[p] : asks'[p][i].old
      BY <3>1, AbandonedOK
    <3>5. Find!TypeOK' /\ OthersAreOld' /\ NoWordOK' /\ EntryOK' /\ WordOK'
      BY <1>0, <2>0, <3>1, <3>2, <3>3, <3>4 DEF Find!TypeOK, OthersAreOld, NoWordOK, EntryOK, WordOK
    <3>6. CounterOK'
      BY <3>2, <3>3 DEF CounterOK, Find!CounterInRange, Find!InRange, Find!FindAssumption
    <3> QED BY <3>5, <3>6
  <2>2. CASE Find!EntryTooLong
    <3>1. /\ entry # Empty /\ entry' \in Words /\ UNCHANGED <<pending, shown, asks, stray>>
          /\ bar' = [bar EXCEPT !.index = 1]
      BY <2>2 DEF Find!EntryTooLong, Find!FindAssumption
    <3>2. /\ bar' \in Find!Bar /\ bar'.isVisible = bar.isVisible /\ bar'.word = bar.word
          /\ bar'.index = 1 /\ bar'.total = bar.total
      BY <1>0, <3>1 DEF Find!Bar
    <3>3. bar.isVisible
      BY <1>0, <3>1 DEF EntryOK
    <3> QED BY <2>0, <3>1, <3>2, <3>3
        DEF Find!TypeOK, OthersAreOld, NoWordOK, CounterOK, Find!CounterInRange, Find!InRange, EntryOK,
            WordOK, LastIsCurrent, Counted
  <2>3. CASE Find!EntryReadable
    <3>1. /\ entry # Empty /\ pending' = FALSE /\ UNCHANGED <<entry, shown, stray>>
          /\ bar' = [bar EXCEPT !.index = 1, !.word = entry]
      BY <2>3 DEF Find!EntryReadable
    <3>2. /\ bar' \in Find!Bar /\ bar'.isVisible = bar.isVisible /\ bar'.word = entry
          /\ bar'.index = 1 /\ bar'.total = bar.total
      <4>1. bar' = [index |-> 1, total |-> bar.total, word |-> entry,
                    isVisible |-> bar.isVisible]
        BY <1>0, <3>1 DEF Find!Bar
      <4>2. 1 \in Int /\ bar.total \in Int
        BY <1>0 DEF Find!Bar
      <4> QED BY <1>0, <4>1, <4>2 DEF Find!Bar
    <3>3. CounterOK' /\ EntryOK' /\ NoWordOK'
      BY <3>1, <3>2 DEF CounterOK, Find!CounterInRange, Find!InRange, EntryOK, NoWordOK
    <3>4. CASE entry = bar.word
      <4>1. UNCHANGED asks
        BY <2>3, <3>4 DEF Find!EntryReadable
      <4> QED BY <2>0, <3>1, <3>2, <3>3, <3>4, <4>1
          DEF Find!TypeOK, OthersAreOld, WordOK, LastIsCurrent, Counted
    <3>5. CASE entry # bar.word
      <4>1. Find!FindWord(entry)
        BY <2>3, <3>5 DEF Find!EntryReadable
      <4>2. Find!TypeOK' /\ OthersAreOld'
        BY <1>0, <2>0, <3>1, <3>2, <4>1, FindWordOK DEF Find!TypeOK, OthersAreOld
      <4>3. LastIsCurrent'
        BY <1>0, <2>0, <3>2, <4>1, FindWordOK DEF LastIsCurrent
      <4> QED BY <3>3, <4>2, <4>3 DEF WordOK
    <3> QED BY <3>4, <3>5
  <2> QED BY <1>8, <2>1, <2>2, <2>3 DEF Find!EntryChanged
<1>9. ASSUME NEW n \in Nat, Find!Step(n)
      PROVE  FindInv'
  <2>1. /\ bar' = [bar EXCEPT !.index = n]
        /\ UNCHANGED <<entry, pending, shown, current, doc, stray>>
    BY <1>9 DEF Find!Step
  <2>2. /\ bar' \in Find!Bar /\ bar'.isVisible = bar.isVisible /\ bar'.word = bar.word
        /\ bar'.index = n /\ bar'.total = bar.total
    BY <1>0, <2>1 DEF Find!Bar
  <2>3. CounterOK' /\ EntryOK'
    BY <2>1, <2>2 DEF CounterOK, Find!CounterInRange, Find!InRange, EntryOK
  <2>4. CASE bar.word = Empty
    <3>1. UNCHANGED asks
      BY <1>9, <2>4 DEF Find!Step
    <3> QED BY <2>1, <2>2, <2>3, <2>4, <3>1 DEF Find!TypeOK, OthersAreOld, NoWordOK, WordOK
  <2>5. CASE bar.word # Empty
    <3>1. Find!FindWord(bar.word)
      BY <1>9, <2>5 DEF Find!Step
    <3>2. Find!TypeOK' /\ OthersAreOld'
      BY <1>0, <2>1, <2>2, <3>1, FindWordOK DEF Find!TypeOK, OthersAreOld
    <3>3. LastIsCurrent'
      BY <1>0, <2>1, <2>2, <3>1, FindWordOK DEF LastIsCurrent
    <3> QED BY <2>2, <2>3, <2>5, <3>2, <3>3 DEF WordOK, NoWordOK
  <2> QED BY <2>4, <2>5
<1>10. CASE Find!DownClicked \/ Find!UpClicked
  <2>1. bar.index \in Nat /\ bar.total \in Nat
    BY DEF CounterOK
  <2>2. (IF bar.index + 1 > bar.total THEN 1 ELSE bar.index + 1) \in Nat
        /\ (IF bar.index - 1 < 1 THEN bar.total ELSE bar.index - 1) \in Nat
    BY <2>1
  <2> QED BY <1>9, <1>10, <2>2 DEF Find!DownClicked, Find!UpClicked
<1>11. ASSUME NEW p \in Tabs, Find!TextFound(p)
       PROVE  FindInv'
  <2> DEFINE ask == Head(asks[p])
             to == Find!Found(bar.index, Matches[ask.doc][ask.word])
  <2>1. /\ asks[p] # <<>> /\ asks' = [asks EXCEPT ![p] = Tail(@)]
        /\ shown' = to /\ stray' = ask.old
        /\ bar' = [bar EXCEPT !.index = to.index, !.total = to.total]
        /\ UNCHANGED <<entry, pending, current, doc>>
    BY <1>11 DEF Find!TextFound
  <2>2. ask \in Find!Search /\ ask.doc \in Docs /\ ask.word \in Words /\ ask.old \in BOOLEAN
    BY <2>1, AnswerTaken DEF Find!Search
  <2>3. /\ to \in Find!Counter /\ Find!InRange(to) /\ to.index \in Nat /\ to.total \in Nat
        /\ to.total = Find!Capped(Matches[ask.doc][ask.word])
    BY <2>2, FoundOK DEF CounterOK
  <2> HIDE DEF ask, to
  <2>4. /\ bar' \in Find!Bar /\ bar'.isVisible = bar.isVisible /\ bar'.word = bar.word
        /\ bar'.index = to.index /\ bar'.total = to.total
    BY <1>0, <2>1, <2>3 DEF Find!Bar, Find!Counter
  <2>5. Find!TypeOK' /\ EntryOK' /\ CounterOK'
    BY <2>1, <2>2, <2>3, <2>4, AnswerTaken
    DEF Find!TypeOK, EntryOK, CounterOK, Find!CounterInRange, Find!InRange
  <2>6. (\A i \in DOMAIN asks[p] : asks[p][i].old) => stray'
    BY <2>1, AnswerTaken DEF ask
  <2>7. OthersAreOld'
    <3> SUFFICES ASSUME NEW q \in Tabs \ {current}
                 PROVE  \A i \in DOMAIN asks'[q] : asks'[q][i].old
      BY <2>1 DEF OthersAreOld
    <3>1. \A i \in DOMAIN asks[q] : asks[q][i].old
      BY DEF OthersAreOld
    <3>2. CASE q = p
      BY <2>1, <3>1, <3>2, AnswerTaken
    <3>3. CASE q # p
      <4>1. asks'[q] = asks[q]
        BY <2>1, <3>3, AnswerTaken
      <4> QED BY <3>1, <4>1
    <3> QED BY <3>2, <3>3
  <2>8. NoWordOK'
    BY <2>1, <2>4, <2>6, AnswerTaken DEF NoWordOK
  <2>9. WordOK'
    <3> SUFFICES ASSUME bar.word # Empty, entry # Empty
                 PROVE  (LastIsCurrent \/ (asks[current] = <<>> /\ Counted))'
      BY <2>1, <2>4 DEF WordOK
    <3>1. CASE p # current
      <4>1. asks'[current] = asks[current] /\ stray'
        BY <1>0, <2>1, <2>6, <3>1, AnswerTaken DEF OthersAreOld
      <4> QED BY <2>1, <2>4, <4>1 DEF WordOK, LastIsCurrent, Counted
    <3>2. CASE p = current
      <4>1. LastIsCurrent
        BY <2>1, <3>2 DEF WordOK
      <4>2. CASE asks'[current] = <<>>
        <5>1. ask = asks[current][Len(asks[current])]
          BY <1>0, <2>1, <3>2, <4>2, AnswerTaken DEF ask
        <5>2. ask.doc = doc[current] /\ ask.word = bar.word
          BY <4>1, <5>1 DEF LastIsCurrent
        <5> QED BY <2>1, <2>3, <2>4, <4>2, <5>2 DEF Counted
      <4>3. CASE asks'[current] # <<>>
        <5>1. asks'[current][Len(asks'[current])] = asks[current][Len(asks[current])]
          BY <1>0, <2>1, <3>2, <4>3, AnswerTaken
        <5> QED BY <2>1, <2>4, <4>1, <4>3, <5>1 DEF LastIsCurrent
      <4> QED BY <4>2, <4>3
    <3> QED BY <3>1, <3>2
  <2> QED BY <2>5, <2>7, <2>8, <2>9
<1>12. CASE UNCHANGED Find!vars
  BY <1>12 DEF Find!vars, Find!TypeOK, OthersAreOld, NoWordOK, CounterOK, Find!CounterInRange, Find!InRange,
               EntryOK, WordOK, LastIsCurrent, Counted
<1> QED
  BY <1>1, <1>2, <1>3, <1>4, <1>5, <1>6, <1>7, <1>8, <1>10, <1>11, <1>12 DEF Find!Next

LEMMA FindInvEnough == FindInv => Find!FindBarIsRight
<1> SUFFICES ASSUME FindInv PROVE Find!FindBarIsRight
  OBVIOUS
<1>1. Find!CounterInRange
  BY DEF FindInv, CounterOK
<1>2. ASSUME Find!Settled
      PROVE  /\ bar.word = entry
             /\ shown.total = IF entry = Empty THEN 0
                              ELSE Find!Capped(Matches[doc[current]][entry])
  <2>1. bar.word = entry /\ asks[current] = <<>> /\ ~stray
    BY <1>2 DEF Find!Settled, FindInv, EntryOK, Find!TypeOK
  <2> QED BY <2>1 DEF FindInv, NoWordOK, WordOK, LastIsCurrent, Counted
<1> QED BY <1>1, <1>2 DEF Find!FindBarIsRight, Find!CountsItsPage

-----------------------------------------------------------------------------
(***************************************************************************)
(* The certificates: no host a wrong certificate was kept for is secure, and *)
(* none the user went on to is asked about again.                          *)
(***************************************************************************)

Row == [pem : Pems, allow : Certificates!HostTypes]

CertificateTyped ==
    /\ hostCert \in [Hosts -> Certificates!HostTypes]
    /\ rows \in [Hosts -> SUBSET Row]
    /\ page \in [host : Hosts, main : BOOLEAN]
    /\ questions \in Seq(Certificates!Question)
    /\ wrong \subseteq Hosts /\ continued \subseteq Hosts

(* The store holds one row of a host: replaced, never added to.            *)
OneRow == \A h \in Hosts : \A r, s \in rows[h] : r = s

(* A host of a wrong certificate is not a new one either: to a new one     *)
(* saveCertificateInfo gives the type of a secure host.                    *)
WrongIsKnown == \A h \in wrong : hostCert[h] \notin {Certificates!SECURE_HOST, Certificates!HOST_ABSENT}

CertificateInv == CertificateTyped /\ OneRow /\ WrongIsKnown /\ Certificates!ContinuedStays

-----------------------------------------------------------------------------
LEMMA TypesDiffer ==
    /\ {Certificates!SECURE_HOST, Certificates!UNSECURE_HOST_ALLOWED, Certificates!UNSECURE_HOST_UNKNOWN, Certificates!HOST_ABSENT} = Certificates!HostTypes
    /\ Certificates!UNSECURE_HOST_ALLOWED \notin {Certificates!SECURE_HOST, Certificates!HOST_ABSENT}
    /\ Certificates!UNSECURE_HOST_UNKNOWN \notin {Certificates!SECURE_HOST, Certificates!HOST_ABSENT, Certificates!UNSECURE_HOST_ALLOWED}
    /\ Certificates!SECURE_HOST # Certificates!HOST_ABSENT
BY DEF Certificates!HostTypes, Certificates!SECURE_HOST, Certificates!UNSECURE_HOST_ALLOWED, Certificates!UNSECURE_HOST_UNKNOWN, Certificates!HOST_ABSENT

(* What setCurrentTabCertData leaves in the map.                           *)
LEMMA CertificateSetOK ==
    ASSUME CertificateTyped, NEW h \in Hosts, NEW pem, NEW type \in Certificates!HostTypes,
           Certificates!SetCurrentTabCertData(h, pem, type)
    PROVE  /\ hostCert' \in [Hosts -> Certificates!HostTypes]
           /\ \A k \in Hosts \ {h} : hostCert'[k] = hostCert[k]
           /\ hostCert'[h] = IF Certificates!Parsed(pem) THEN type ELSE Certificates!UNSECURE_HOST_UNKNOWN
BY TypesDiffer DEF CertificateTyped, Certificates!SetCurrentTabCertData

(* A write replaces the row of its host, or fails.                         *)
LEMMA StoreOK ==
    ASSUME CertificateTyped, OneRow, NEW h \in Hosts, NEW pem \in Pems, NEW type \in Certificates!HostTypes,
           NEW stored \in BOOLEAN, Certificates!AddOrUpdate(h, pem, type, stored)
    PROVE  /\ rows' \in [Hosts -> SUBSET Row]
           /\ OneRow'
           /\ \A k \in Hosts \ {h} : rows'[k] = rows[k]
           /\ stored => \E r \in rows'[h] : r.allow = type
           /\ ~stored => rows' = rows
<1> DEFINE new == [pem |-> pem, allow |-> type]
<1>1. new \in Row /\ new.allow = type
  BY DEF Row
<1>2. rows' = IF stored THEN [rows EXCEPT ![h] = {new}] ELSE rows
  BY DEF Certificates!AddOrUpdate
<1> HIDE DEF new
<1>3. rows \in [Hosts -> SUBSET Row]
  BY DEF CertificateTyped
<1>4. CASE stored
  <2>1. rows' \in [Hosts -> SUBSET Row] /\ rows'[h] = {new}
        /\ \A k \in Hosts \ {h} : rows'[k] = rows[k]
    BY <1>1, <1>2, <1>3, <1>4
  <2>2. OneRow'
    BY <2>1 DEF OneRow
  <2> QED BY <1>1, <1>4, <2>1, <2>2
<1>5. CASE ~stored
  BY <1>2, <1>3, <1>5 DEF OneRow
<1> QED BY <1>4, <1>5

(* A certificate of the engine: whatever the write, the host's type stays, *)
(* a new host becomes secure, and one that cannot be read unknown.         *)
LEMMA SavedOK ==
    ASSUME CertificateInv, NEW h \in Hosts, NEW pem \in Pems, NEW stored \in BOOLEAN,
           Certificates!SaveCertificateInfo(h, pem, stored), UNCHANGED <<page, questions>>
    PROVE  CertificateInv'
<1> DEFINE type == Certificates!SavedType(h)
<1>1. hostCert[h] \in Certificates!HostTypes /\ type \in Certificates!HostTypes
      /\ type = IF hostCert[h] = Certificates!HOST_ABSENT THEN Certificates!SECURE_HOST ELSE hostCert[h]
  BY TypesDiffer DEF CertificateInv, CertificateTyped, Certificates!SavedType
<1>2. /\ Certificates!SetCurrentTabCertData(h, {pem}, type) /\ Certificates!AddOrUpdate(h, pem, type, stored)
      /\ continued' = (IF pem \in Readable THEN continued ELSE continued \ {h})
      /\ wrong' = wrong
  BY DEF Certificates!SaveCertificateInfo
<1>3. Certificates!Parsed({pem}) <=> pem \in Readable
  BY DEF Certificates!Parsed
<1> HIDE DEF type
<1>4. /\ hostCert' \in [Hosts -> Certificates!HostTypes]
      /\ \A k \in Hosts \ {h} : hostCert'[k] = hostCert[k]
      /\ hostCert'[h] = IF Certificates!Parsed({pem}) THEN type ELSE Certificates!UNSECURE_HOST_UNKNOWN
  BY <1>1, <1>2, CertificateSetOK DEF CertificateInv
<1>5. /\ rows' \in [Hosts -> SUBSET Row] /\ OneRow'
      /\ \A k \in Hosts \ {h} : rows'[k] = rows[k]
      /\ stored => \E r \in rows'[h] : r.allow = type
      /\ ~stored => rows' = rows
  BY <1>1, <1>2, StoreOK DEF CertificateInv
<1>6. CertificateTyped'
  BY <1>2, <1>4, <1>5 DEF CertificateInv, CertificateTyped
<1>7. WrongIsKnown'
  BY <1>1, <1>2, <1>4, TypesDiffer DEF CertificateInv, CertificateTyped, WrongIsKnown
<1>8. Certificates!ContinuedStays'
  <2> SUFFICES ASSUME NEW k \in continued'
               PROVE  /\ hostCert'[k] = Certificates!UNSECURE_HOST_ALLOWED
                      /\ \E r \in rows'[k] : r.allow = Certificates!UNSECURE_HOST_ALLOWED
    BY DEF Certificates!ContinuedStays
  <2>1. k \in continued /\ k \in Hosts /\ hostCert[k] = Certificates!UNSECURE_HOST_ALLOWED
        /\ \E r \in rows[k] : r.allow = Certificates!UNSECURE_HOST_ALLOWED
    BY <1>2 DEF CertificateInv, CertificateTyped, Certificates!ContinuedStays
  <2>2. CASE k # h
    BY <1>4, <1>5, <2>1, <2>2
  <2>3. CASE k = h
    <3>1. Certificates!Parsed({pem}) /\ type = Certificates!UNSECURE_HOST_ALLOWED
      BY <1>1, <1>2, <1>3, <2>1, <2>3, TypesDiffer
    <3> QED BY <1>4, <1>5, <2>1, <2>3, <3>1
  <2> QED BY <2>2, <2>3
<1> QED BY <1>5, <1>6, <1>7, <1>8 DEF CertificateInv

(* A wrong certificate, kept by the user or by the page.                   *)
LEMMA WrongOK ==
    ASSUME CertificateInv, NEW h \in Hosts, NEW pem \in Pems, NEW stored \in BOOLEAN,
           NEW asked \in BOOLEAN, Certificates!SaveWrongCertificateInfo(h, pem, stored, asked),
           page' = page, questions' \in Seq(Certificates!Question)
    PROVE  CertificateInv'
<1>1. /\ Certificates!SetCurrentTabCertData(h, {pem}, Certificates!UNSECURE_HOST_ALLOWED)
      /\ Certificates!AddOrUpdate(h, pem, Certificates!UNSECURE_HOST_ALLOWED, stored)
      /\ wrong' = wrong \cup {h}
      /\ continued' = IF pem \notin Readable THEN continued \ {h}
                      ELSE IF asked /\ stored THEN continued \cup {h}
                      ELSE continued
  BY DEF Certificates!SaveWrongCertificateInfo
<1>2. Certificates!Parsed({pem}) <=> pem \in Readable
  BY DEF Certificates!Parsed
<1>3. /\ hostCert' \in [Hosts -> Certificates!HostTypes]
      /\ \A k \in Hosts \ {h} : hostCert'[k] = hostCert[k]
      /\ hostCert'[h] = IF Certificates!Parsed({pem}) THEN Certificates!UNSECURE_HOST_ALLOWED
                        ELSE Certificates!UNSECURE_HOST_UNKNOWN
  BY <1>1, CertificateSetOK, TypesDiffer DEF CertificateInv
<1>4. /\ rows' \in [Hosts -> SUBSET Row] /\ OneRow'
      /\ \A k \in Hosts \ {h} : rows'[k] = rows[k]
      /\ stored => \E r \in rows'[h] : r.allow = Certificates!UNSECURE_HOST_ALLOWED
      /\ ~stored => rows' = rows
  BY <1>1, StoreOK, TypesDiffer DEF CertificateInv
<1>5. CertificateTyped'
  BY <1>1, <1>3, <1>4 DEF CertificateInv, CertificateTyped
<1>6. WrongIsKnown'
  BY <1>1, <1>3, TypesDiffer DEF CertificateInv, CertificateTyped, WrongIsKnown
<1>7. Certificates!ContinuedStays'
  <2> SUFFICES ASSUME NEW k \in continued'
               PROVE  /\ hostCert'[k] = Certificates!UNSECURE_HOST_ALLOWED
                      /\ \E r \in rows'[k] : r.allow = Certificates!UNSECURE_HOST_ALLOWED
    BY DEF Certificates!ContinuedStays
  <2>1. k \in Hosts /\ (k # h => k \in continued)
    BY <1>1 DEF CertificateInv, CertificateTyped
  <2>2. k \in continued => /\ hostCert[k] = Certificates!UNSECURE_HOST_ALLOWED
                           /\ \E r \in rows[k] : r.allow = Certificates!UNSECURE_HOST_ALLOWED
    BY DEF CertificateInv, Certificates!ContinuedStays
  <2>3. CASE k # h
    BY <1>3, <1>4, <2>1, <2>2, <2>3
  <2>4. CASE k = h
    <3>1. pem \in Readable /\ (stored \/ k \in continued)
      BY <1>1, <2>4
    <3> QED BY <1>2, <1>3, <1>4, <2>2, <2>4, <3>1
  <2> QED BY <2>3, <2>4
<1> QED BY <1>4, <1>5, <1>6, <1>7 DEF CertificateInv

LEMMA TopOK ==
    ASSUME CertificateTyped, Certificates!OnTop
    PROVE  Certificates!Top.host \in Hosts /\ Certificates!Top.pem \in Pems /\ Certificates!Answered \in Seq(Certificates!Question)
<1> DEFINE n == Len(questions)
<1>1. questions \in Seq(Certificates!Question) /\ questions # <<>>
  BY DEF CertificateTyped, Certificates!OnTop
<1>2. n \in Nat \ {0} /\ questions[n] \in Certificates!Question
  BY <1>1
<1>3. SubSeq(questions, 1, n - 1) \in Seq(Certificates!Question)
  BY <1>1, <1>2
<1> QED BY <1>2, <1>3 DEF Certificates!Top, Certificates!Answered, Certificates!Question

-----------------------------------------------------------------------------
LEMMA CertificateInvInit == Certificates!Init => CertificateInv
<1> SUFFICES ASSUME Certificates!Init PROVE CertificateInv
  OBVIOUS
<1>1. page \in [host : Hosts, main : BOOLEAN]
  BY DEF Certificates!Init
<1>2. questions \in Seq(Certificates!Question)
  BY DEF Certificates!Init
<1>3. hostCert \in [Hosts -> Certificates!HostTypes] /\ rows \in [Hosts -> SUBSET Row]
  BY TypesDiffer DEF Certificates!Init
<1>4. wrong = {} /\ continued = {} /\ \A h \in Hosts : rows[h] = {}
  BY DEF Certificates!Init
<1> QED BY <1>1, <1>2, <1>3, <1>4 DEF CertificateInv, CertificateTyped, OneRow, WrongIsKnown, Certificates!ContinuedStays

LEMMA CertificateInvNext == ASSUME CertificateInv, [Certificates!Next]_(Certificates!vars) PROVE CertificateInv'
<1> USE DEF CertificateInv
<1>0. page.host \in Hosts /\ page \in [host : Hosts, main : BOOLEAN]
  BY DEF CertificateTyped
<1>1. ASSUME NEW p \in Pems, NEW valid \in BOOLEAN, NEW stored \in BOOLEAN,
             Certificates!CertificateChanged(p, valid, stored)
      PROVE  CertificateInv'
  BY <1>0, <1>1, SavedOK, WrongOK DEF Certificates!CertificateChanged, CertificateTyped
<1>2. ASSUME NEW h \in Hosts, Certificates!Navigate(h)
      PROVE  CertificateInv'
  BY <1>0, <1>2 DEF Certificates!Navigate, CertificateTyped, OneRow, WrongIsKnown, Certificates!ContinuedStays
<1>3. CASE Certificates!ChangeView
  BY <1>0, <1>3 DEF Certificates!ChangeView, CertificateTyped, OneRow, WrongIsKnown, Certificates!ContinuedStays
<1>4. ASSUME NEW h \in Hosts, NEW p \in Pems, Certificates!HandleConfirmationRequest(h, p)
      PROVE  CertificateInv'
  <2> DEFINE new == [host |-> h, pem |-> p]
  <2>1. new \in Certificates!Question
    BY DEF Certificates!Question
  <2>2. questions' = Append(questions, new)
        /\ UNCHANGED <<hostCert, rows, page, wrong, continued>>
    BY <1>4 DEF Certificates!HandleConfirmationRequest
  <2> HIDE DEF new
  <2>3. questions' \in Seq(Certificates!Question)
    BY <2>1, <2>2 DEF CertificateTyped
  <2> QED BY <2>2, <2>3 DEF CertificateTyped, OneRow, WrongIsKnown, Certificates!ContinuedStays
<1>5. ASSUME NEW ok \in BOOLEAN, Certificates!ContinueClicked(ok)
      PROVE  CertificateInv'
  BY <1>5, TopOK, WrongOK DEF Certificates!ContinueClicked
<1>6. CASE Certificates!BackToSafetyClicked
  BY <1>6, TopOK DEF Certificates!BackToSafetyClicked, CertificateTyped, OneRow, WrongIsKnown, Certificates!ContinuedStays
<1>7. CASE Certificates!ViewCertificateClicked
  <2>1. /\ Certificates!SetCurrentTabCertData(Certificates!Top.host, {Certificates!Top.pem}, Certificates!UNSECURE_HOST_UNKNOWN)
        /\ continued' = continued \ {Certificates!Top.host}
        /\ UNCHANGED <<rows, page, questions, wrong>> /\ Certificates!OnTop
    BY <1>7 DEF Certificates!ViewCertificateClicked
  <2>2. Certificates!Top.host \in Hosts
    BY <2>1, TopOK
  <2>3. /\ hostCert' \in [Hosts -> Certificates!HostTypes]
        /\ \A k \in Hosts \ {Certificates!Top.host} : hostCert'[k] = hostCert[k]
        /\ hostCert'[Certificates!Top.host] = Certificates!UNSECURE_HOST_UNKNOWN
    BY <2>1, <2>2, CertificateSetOK, TypesDiffer
  <2> QED BY <2>1, <2>2, <2>3, TypesDiffer
      DEF CertificateTyped, OneRow, WrongIsKnown, Certificates!ContinuedStays
<1>8. ASSUME NEW ok \in BOOLEAN, Certificates!SecureIconClicked(ok)
      PROVE  CertificateInv'
  <2> DEFINE h == page.host
             pem == Certificates!StoredPem(h, ok)
  <2>1. /\ Certificates!SetCurrentTabCertData(h, pem, hostCert[h])
        /\ continued' = (IF Certificates!Parsed(pem) THEN continued ELSE continued \ {h})
        /\ UNCHANGED <<rows, page, questions, wrong>>
    BY <1>8 DEF Certificates!SecureIconClicked
  <2>2. hostCert[h] \in Certificates!HostTypes
    BY <1>0 DEF CertificateTyped
  <2> HIDE DEF pem
  <2>3. /\ hostCert' \in [Hosts -> Certificates!HostTypes]
        /\ \A k \in Hosts \ {h} : hostCert'[k] = hostCert[k]
        /\ hostCert'[h] = IF Certificates!Parsed(pem) THEN hostCert[h] ELSE Certificates!UNSECURE_HOST_UNKNOWN
    BY <1>0, <2>1, <2>2, CertificateSetOK
  <2>4. CertificateTyped' /\ OneRow' /\ WrongIsKnown'
    BY <1>0, <2>1, <2>3, TypesDiffer DEF CertificateTyped, OneRow, WrongIsKnown
  <2>5. Certificates!ContinuedStays'
    BY <2>1, <2>3 DEF CertificateTyped, Certificates!ContinuedStays
  <2> QED BY <2>4, <2>5
<1>9. CASE Certificates!CertificateClosed
  BY <1>9 DEF Certificates!CertificateClosed, CertificateTyped, OneRow, WrongIsKnown, Certificates!ContinuedStays
<1>10. ASSUME NEW read \in BOOLEAN, Certificates!Restart(read)
       PROVE  CertificateInv'
  <2>1. /\ hostCert' = [h \in Hosts |-> Certificates!Loaded(h, read)]
        /\ page' = [page EXCEPT !.main = TRUE] /\ questions' = <<>>
        /\ wrong' = { h \in wrong : Certificates!Loaded(h, read) \notin {Certificates!SECURE_HOST, Certificates!HOST_ABSENT} }
        /\ continued' = (IF read THEN continued ELSE {})
        /\ rows' = rows
    BY <1>10 DEF Certificates!Restart
  <2>2. ASSUME NEW h \in Hosts
        PROVE  /\ Certificates!Loaded(h, read) \in Certificates!HostTypes
               /\ read => \A r \in rows[h] : Certificates!Loaded(h, read) = r.allow
    <3>1. CASE read /\ rows[h] # {}
      <4> DEFINE c == CHOOSE r \in rows[h] : TRUE
      <4>1. c \in rows[h]
        BY <3>1
      <4>2. c \in Row /\ \A r \in rows[h] : r = c
        BY <4>1 DEF CertificateTyped, OneRow
      <4>3. Certificates!Loaded(h, read) = c.allow
        BY <3>1 DEF Certificates!Loaded
      <4> QED BY <4>2, <4>3 DEF Row
    <3>2. CASE ~(read /\ rows[h] # {})
      BY <3>2, TypesDiffer DEF Certificates!Loaded
    <3> QED BY <3>1, <3>2
  <2>3. CertificateTyped'
    <3>1. hostCert' \in [Hosts -> Certificates!HostTypes]
      BY <2>1, <2>2
    <3>2. page' \in [host : Hosts, main : BOOLEAN]
      BY <1>0, <2>1
    <3>3. questions' \in Seq(Certificates!Question)
      BY <2>1
    <3> QED BY <2>1, <3>1, <3>2, <3>3 DEF CertificateTyped
  <2>4. OneRow' /\ WrongIsKnown'
    BY <2>1 DEF CertificateTyped, OneRow, WrongIsKnown
  <2>5. ASSUME NEW h \in continued'
        PROVE  /\ hostCert'[h] = Certificates!UNSECURE_HOST_ALLOWED
               /\ \E r \in rows'[h] : r.allow = Certificates!UNSECURE_HOST_ALLOWED
    <3>1. read /\ h \in continued /\ h \in Hosts
      BY <2>1 DEF CertificateTyped
    <3>2. PICK r \in rows[h] : r.allow = Certificates!UNSECURE_HOST_ALLOWED
      BY <3>1 DEF Certificates!ContinuedStays
    <3>3. hostCert'[h] = Certificates!Loaded(h, read) /\ Certificates!Loaded(h, read) = r.allow
      BY <2>1, <2>2, <3>1
    <3> QED BY <2>1, <3>2, <3>3
  <2> QED BY <2>3, <2>4, <2>5 DEF Certificates!ContinuedStays
<1>11. CASE UNCHANGED Certificates!vars
  BY <1>11 DEF Certificates!vars, CertificateTyped, OneRow, WrongIsKnown, Certificates!ContinuedStays
<1> QED BY <1>1, <1>2, <1>3, <1>4, <1>5, <1>6, <1>7, <1>8, <1>9, <1>10, <1>11 DEF Certificates!Next

-----------------------------------------------------------------------------
(***************************************************************************)
(* The settings: the copies of a setting, the home page and the place for  *)
(* downloads.                                                              *)
(***************************************************************************)

(* A key of the table has one row.                                         *)
OneHome == db.home = {} \/ \E h \in Settings!Stored : db.home = {h}

(* The view that opens the popup listens to the card, and the popup that   *)
(* offers the card is only open while it is in.                            *)
CardIsHeard ==
    app.alive =>
      /\ views.top = "sub" => views.advanced
      /\ views.popup = "open" => views.advanced /\ device.card

SettingsInv == Settings!TypeOK /\ OneHome /\ CardIsHeard /\ Settings!ChoicesAreKept

-----------------------------------------------------------------------------
(* A write that fails leaves the table as it is, and no process.           *)
LEMMA WriteOK ==
    ASSUME Settings!TypeOK, NEW saved \in BOOLEAN, NEW table \in Settings!Table, Settings!SetParamString(saved, table)
    PROVE  /\ app' \in Settings!App /\ db' \in Settings!Table
           /\ app'.mode = app.mode /\ app'.at = app.at
           /\ saved => app' = app /\ db' = table
           /\ ~saved => ~app'.alive /\ db' = db
BY DEF Settings!TypeOK, Settings!App, Settings!SetParamString, Settings!Keep, Settings!Ends

LEMMA ReadOK ==
    ASSUME Settings!SettingsAssumption, db \in Settings!Table
    PROVE  Settings!InitWebEngineSettingsFromDB(db.params) \in Settings!EngineSettings
BY DEF Settings!SettingsAssumption, Settings!InitWebEngineSettingsFromDB, Settings!Table, Settings!EngineSettings

LEMMA ViewsOK ==
    ASSUME Settings!TypeOK, NEW top \in {"base", "home", "sub"}
    PROVE  /\ Settings!Shown(top) \in Settings!Views
           /\ Settings!Shown(top).top = top /\ Settings!Shown(top).boxes = settings
           /\ Settings!Shown(top).advanced = views.advanced /\ Settings!Shown(top).popup = views.popup
<1>1. [p \in Params |-> Settings!MadeFrom(p)] = settings
  BY DEF Settings!TypeOK, Settings!EngineSettings, Settings!MadeFrom
<1>2. settings \in [Params -> BOOLEAN]
  BY DEF Settings!TypeOK, Settings!EngineSettings
<1> QED BY <1>1, <1>2 DEF Settings!TypeOK, Settings!Shown, Settings!Views

(* A setting that is applied to a page.                                    *)
LEMMA PageOK ==
    ASSUME NEW x \in Settings!Page, x.on, NEW p \in Params, NEW value \in BOOLEAN
    PROVE  LET y == [x EXCEPT !.set[p] = value]
           IN  /\ y \in Settings!Page /\ y.on
               /\ \A q \in Params : y.set[q] = IF q = p THEN value ELSE x.set[q]
<1>1. x \in [on : {TRUE}, mode : Settings!Modes, set : Settings!EngineSettings]
  <2>1. ~Settings!NoPage.on
    BY DEF Settings!NoPage
  <2>2. x # Settings!NoPage
    BY <2>1
  <2> QED BY <2>2 DEF Settings!Page
<1>2. x.set \in [Params -> BOOLEAN]
  BY <1>1 DEF Settings!EngineSettings
<1> DEFINE s == [x.set EXCEPT ![p] = value]
           y == [x EXCEPT !.set = s]
<1>3. s \in Settings!EngineSettings /\ \A q \in Params : s[q] = IF q = p THEN value ELSE x.set[q]
  BY <1>2 DEF Settings!EngineSettings
<1>4. y = [x EXCEPT !.set[p] = value]
  OBVIOUS
<1> HIDE DEF s
<1>5. y \in [on : {TRUE}, mode : Settings!Modes, set : Settings!EngineSettings] /\ y.on /\ y.set = s
  BY <1>1, <1>3
<1> QED BY <1>3, <1>4, <1>5 DEF Settings!Page

-----------------------------------------------------------------------------
LEMMA SettingsInvInit == ASSUME Settings!SettingsAssumption PROVE Settings!Init => SettingsInv
<1> SUFFICES ASSUME Settings!Init PROVE SettingsInv
  OBVIOUS
<1>1. db \in Settings!Table /\ db.home = {}
  BY DEF Settings!Init, Settings!Table
<1>2. settings \in Settings!EngineSettings
  BY <1>1, ReadOK DEF Settings!Init
<1>3. views \in Settings!Views /\ views.top = "none" /\ views.popup = "none" /\ ~views.advanced
  BY DEF Settings!Init, Settings!NoViews, Settings!Views
<1>4. pages \in [Pages -> Settings!Page] /\ \A t \in Pages : ~pages[t].on
  BY DEF Settings!Init, Settings!NoPage, Settings!Page
<1>5. app \in Settings!App /\ device \in [card : BOOLEAN, place : Settings!Places] /\ missed = {}
      /\ chosen = "TizenPage" /\ chosen \in Settings!HomePages
  BY DEF Settings!Init, Settings!App, Settings!Modes, Settings!Places, Settings!HomePages, Settings!Specials
<1>6. Settings!TypeOK /\ OneHome /\ CardIsHeard
  BY <1>1, <1>2, <1>3, <1>4, <1>5 DEF Settings!TypeOK, OneHome, CardIsHeard
<1>7. Settings!SettingsAgree
  BY <1>3, <1>4 DEF Settings!Init, Settings!SettingsAgree
<1>8. Settings!HomeIsAsChosen
  BY <1>1, <1>5 DEF Settings!HomeIsAsChosen, Settings!ShowHomePage, Settings!HomePage, Settings!Plain
<1>9. Settings!NoCardNoSDCard
  BY <1>3 DEF Settings!NoCardNoSDCard
<1> QED BY <1>6, <1>7, <1>8, <1>9 DEF SettingsInv, Settings!ChoicesAreKept

-----------------------------------------------------------------------------
(* What the views that keep the settings, the pages and the choice of a    *)
(* home page apart leave alone.                                            *)
Quiet == UNCHANGED <<settings, pages, missed>>

LEMMA AgreeOK ==
    ASSUME Settings!SettingsAgree, Quiet, db'.params = db.params, app'.alive => app.alive,
           views'.top # "none" =>
             views'.boxes = settings \/ (views'.top = views.top /\ views'.boxes = views.boxes)
    PROVE  Settings!SettingsAgree'
BY DEF Settings!SettingsAgree, Quiet, Settings!InitWebEngineSettingsFromDB

LEMMA CheckOK ==
    ASSUME Settings!SettingsAssumption, SettingsInv, NEW p \in Params, NEW saved \in BOOLEAN,
           Settings!CheckPressed(p, saved)
    PROVE  SettingsInv'
<1> DEFINE value == Settings!Turned(p)
           table == [db EXCEPT !.params[p] = {value}]
<1>1. /\ app.alive /\ views.top = ViewOf[p] /\ views.top # "none"
      /\ views.boxes = settings
      /\ settings \in [Params -> BOOLEAN] /\ value \in BOOLEAN
  <2>1. views.boxes \in [Params -> BOOLEAN] /\ settings \in [Params -> BOOLEAN]
    BY DEF SettingsInv, Settings!TypeOK, Settings!Views, Settings!EngineSettings
  <2>2. app.alive /\ views.top = ViewOf[p] /\ views.top # "none"
    BY DEF Settings!CheckPressed, Settings!SettingsAssumption
  <2>3. \A q \in Params : views.boxes[q] = settings[q]
    BY <2>2 DEF SettingsInv, Settings!ChoicesAreKept, Settings!SettingsAgree
  <2>4. value \in BOOLEAN
    BY <2>1 DEF Settings!Turned
  <2> QED BY <2>1, <2>2, <2>3, <2>4
<1>2. /\ views' = [views EXCEPT !.boxes[p] = value]
      /\ settings' = [settings EXCEPT ![p] = value]
      /\ pages' = Settings!Applied(p, value) /\ Settings!SetParamString(saved, table)
      /\ missed' = Settings!MissedNow(p) /\ UNCHANGED <<device, chosen>>
  BY DEF Settings!CheckPressed
<1> HIDE DEF value
<1>3. /\ table \in Settings!Table /\ table.home = db.home
      /\ table.params = [db.params EXCEPT ![p] = {value}]
  BY <1>1 DEF SettingsInv, Settings!TypeOK, Settings!Table
<1> HIDE DEF table
<1>4. /\ app' \in Settings!App /\ db' \in Settings!Table /\ app'.mode = app.mode
      /\ saved => app' = app /\ db' = table
      /\ ~saved => ~app'.alive /\ db' = db
  BY <1>2, <1>3, WriteOK DEF SettingsInv
<1>5. views' \in Settings!Views /\ views'.boxes = settings' /\ views'.top = views.top
      /\ views'.popup = views.popup /\ views'.advanced = views.advanced
  BY <1>1, <1>2 DEF SettingsInv, Settings!TypeOK, Settings!Views
<1>6. settings' \in [Params -> BOOLEAN] /\ settings'[p] = value
      /\ \A q \in Params \ {p} : settings'[q] = settings[q]
  BY <1>1, <1>2
<1>7. /\ pages' \in [Pages -> Settings!Page]
      /\ \A t \in Pages :
           /\ pages'[t].on <=> pages[t].on
           /\ pages[t].on /\ pages[t].mode # app.mode => pages'[t] = pages[t]
           /\ pages[t].on /\ pages[t].mode = app.mode => pages'[t].set[p] = value
           /\ pages[t].on => \A q \in Params \ {p} : pages'[t].set[q] = pages[t].set[q]
  <2>1. SUFFICES ASSUME NEW t \in Pages
                 PROVE  /\ pages'[t] \in Settings!Page
                        /\ pages'[t].on <=> pages[t].on
                        /\ pages[t].on /\ pages[t].mode # app.mode => pages'[t] = pages[t]
                        /\ pages[t].on /\ pages[t].mode = app.mode => pages'[t].set[p] = value
                        /\ pages[t].on => \A q \in Params \ {p} :
                                            pages'[t].set[q] = pages[t].set[q]
    BY <1>2 DEF Settings!Applied
  <2>2. pages[t] \in Settings!Page
        /\ pages'[t] = IF pages[t].on /\ pages[t].mode = app.mode
                         THEN [pages[t] EXCEPT !.set[p] = value] ELSE pages[t]
    BY <1>2 DEF SettingsInv, Settings!TypeOK, Settings!Applied
  <2>3. CASE pages[t].on /\ pages[t].mode = app.mode
    <3>1. /\ pages'[t] \in Settings!Page /\ pages'[t].on
          /\ \A q \in Params : pages'[t].set[q] = IF q = p THEN value ELSE pages[t].set[q]
      BY <1>1, <2>2, <2>3, PageOK
    <3> QED BY <2>3, <3>1
  <2>4. CASE ~(pages[t].on /\ pages[t].mode = app.mode)
    BY <2>2, <2>4
  <2> QED BY <2>3, <2>4
<1>8. missed' \subseteq Pages \X Params
  BY <1>2 DEF SettingsInv, Settings!TypeOK, Settings!MissedNow
<1>9. Settings!TypeOK' /\ OneHome' /\ CardIsHeard'
  <2>1. Settings!TypeOK'
    BY <1>2, <1>4, <1>5, <1>6, <1>7, <1>8 DEF SettingsInv, Settings!TypeOK, Settings!EngineSettings
  <2>2. db'.home = db.home
    BY <1>3, <1>4
  <2> QED BY <1>2, <1>4, <1>5, <2>1, <2>2, <1>1 DEF SettingsInv, OneHome, CardIsHeard
<1>10. Settings!SettingsAgree'
  <2> SUFFICES ASSUME app'.alive PROVE Settings!SettingsAgree'
    BY DEF Settings!SettingsAgree
  <2>1. saved /\ db' = table /\ app' = app
    BY <1>4
  <2>2. settings' = Settings!InitWebEngineSettingsFromDB(db'.params)
    <3>1. db.params \in [Params -> SUBSET BOOLEAN]
          /\ settings = [q \in Params |->
               IF db.params[q] = {} THEN Default[q] ELSE db.params[q] = {TRUE}]
      BY <1>1 DEF SettingsInv, Settings!TypeOK, Settings!Table, Settings!ChoicesAreKept, Settings!SettingsAgree,
                  Settings!InitWebEngineSettingsFromDB
    <3>2. {value} # {} /\ (({value} = {TRUE}) = value)
      BY <1>1
    <3> QED BY <1>2, <1>3, <2>1, <3>1, <3>2 DEF Settings!InitWebEngineSettingsFromDB
  <2>3. ASSUME NEW t \in Pages, NEW q \in Params, pages'[t].on, <<t, q>> \notin missed'
        PROVE  pages'[t].set[q] = settings'[q]
    <3>1. pages[t].on
      BY <1>7, <2>3
    <3>2. CASE q = p
      <4>1. pages[t].mode = app.mode
        BY <1>2, <2>3, <3>1, <3>2 DEF Settings!MissedNow
      <4> QED BY <1>6, <1>7, <3>1, <3>2, <4>1
    <3>3. CASE q # p
      <4>1. <<t, q>> \notin missed
        BY <1>2, <2>3, <3>3 DEF Settings!MissedNow
      <4>2. pages[t].set[q] = settings[q]
        BY <1>1, <3>1, <4>1 DEF SettingsInv, Settings!ChoicesAreKept, Settings!SettingsAgree
      <4> QED BY <1>6, <1>7, <3>1, <3>3, <4>2
    <3> QED BY <3>2, <3>3
  <2> QED BY <1>5, <2>2, <2>3 DEF Settings!SettingsAgree
<1>11. Settings!HomeIsAsChosen'
  BY <1>2, <1>3, <1>4 DEF SettingsInv, Settings!ChoicesAreKept, Settings!HomeIsAsChosen, Settings!ShowHomePage, Settings!HomePage
<1>12. Settings!NoCardNoSDCard'
  BY <1>1, <1>2, <1>5 DEF SettingsInv, Settings!ChoicesAreKept, Settings!NoCardNoSDCard
<1> QED BY <1>9, <1>10, <1>11, <1>12 DEF SettingsInv, Settings!ChoicesAreKept

(* A tab gets the engine's settings; one that goes takes what it missed.   *)
LEMMA AddTabOK ==
    ASSUME SettingsInv, NEW t \in Pages, Settings!AddTab(t)
    PROVE  SettingsInv'
<1> DEFINE new == [on |-> TRUE, mode |-> app.mode, set |-> settings]
<1>1. /\ app.alive /\ ~pages[t].on /\ pages' = [pages EXCEPT ![t] = new]
      /\ UNCHANGED <<app, settings, views, db, device, missed, chosen>>
  BY DEF Settings!AddTab
<1>2. new \in Settings!Page /\ new.on /\ new.set = settings
  BY DEF SettingsInv, Settings!TypeOK, Settings!App, Settings!Page
<1> HIDE DEF new
<1>3. pages' \in [Pages -> Settings!Page] /\ pages'[t] = new
      /\ \A u \in Pages \ {t} : pages'[u] = pages[u]
  BY <1>1, <1>2 DEF SettingsInv, Settings!TypeOK
<1>4. Settings!TypeOK' /\ OneHome' /\ CardIsHeard'
  BY <1>1, <1>3 DEF SettingsInv, Settings!TypeOK, OneHome, CardIsHeard
<1>5. Settings!SettingsAgree'
  BY <1>1, <1>2, <1>3 DEF SettingsInv, Settings!ChoicesAreKept, Settings!SettingsAgree
<1>6. Settings!HomeIsAsChosen' /\ Settings!NoCardNoSDCard'
  BY <1>1 DEF SettingsInv, Settings!ChoicesAreKept, Settings!HomeIsAsChosen, Settings!ShowHomePage, Settings!HomePage, Settings!NoCardNoSDCard
<1> QED BY <1>4, <1>5, <1>6 DEF SettingsInv, Settings!ChoicesAreKept

LEMMA CloseTabOK ==
    ASSUME SettingsInv, NEW t \in Pages, Settings!CloseTab(t)
    PROVE  SettingsInv'
<1>1. /\ app.alive /\ pages' = [pages EXCEPT ![t] = Settings!NoPage]
      /\ missed' = { m \in missed : m[1] # t }
      /\ UNCHANGED <<app, settings, views, db, device, chosen>>
  BY DEF Settings!CloseTab
<1>2. Settings!NoPage \in Settings!Page /\ ~Settings!NoPage.on
  BY DEF Settings!Page, Settings!NoPage
<1>3. pages' \in [Pages -> Settings!Page] /\ pages'[t] = Settings!NoPage
      /\ \A u \in Pages \ {t} : pages'[u] = pages[u]
  BY <1>1, <1>2 DEF SettingsInv, Settings!TypeOK
<1>4. Settings!TypeOK' /\ OneHome' /\ CardIsHeard'
  BY <1>1, <1>3 DEF SettingsInv, Settings!TypeOK, OneHome, CardIsHeard
<1>5. Settings!SettingsAgree'
  <2>1. \A u \in Pages \ {t}, q \in Params : <<u, q>> \in missed => <<u, q>> \in missed'
    BY <1>1
  <2> QED BY <1>1, <1>2, <1>3, <2>1 DEF SettingsInv, Settings!ChoicesAreKept, Settings!SettingsAgree
<1>6. Settings!HomeIsAsChosen' /\ Settings!NoCardNoSDCard'
  BY <1>1 DEF SettingsInv, Settings!ChoicesAreKept, Settings!HomeIsAsChosen, Settings!ShowHomePage, Settings!HomePage, Settings!NoCardNoSDCard
<1> QED BY <1>4, <1>5, <1>6 DEF SettingsInv, Settings!ChoicesAreKept

-----------------------------------------------------------------------------
(* The home page. What one view marks the other unmarks, and the page that *)
(* showHomePage reads between the two is the same.                         *)
LEMMA ReadHome ==
    ASSUME Settings!TypeOK, OneHome
    PROVE  Settings!HomePage \in Settings!Stored
<1>1. Settings!Plain("TizenPage") \in Settings!Stored
  BY DEF Settings!Plain, Settings!Stored, Settings!HomePages, Settings!Specials
<1>2. ASSUME NEW h \in Settings!Stored, db.home = {h}
      PROVE  Settings!HomePage = h
  BY <1>2 DEF Settings!HomePage
<1> QED BY <1>1, <1>2 DEF OneHome, Settings!HomePage

LEMMA HomeWritten ==
    ASSUME NEW h \in Settings!Stored, db'.home = {h}
    PROVE  OneHome' /\ Settings!HomePage' = h
BY DEF OneHome, Settings!HomePage

LEMMA HomeKept ==
    ASSUME OneHome, Settings!HomeIsAsChosen, db'.home = db.home, chosen' = chosen
    PROVE  OneHome' /\ Settings!HomeIsAsChosen'
BY DEF OneHome, Settings!HomeIsAsChosen, Settings!ShowHomePage, Settings!HomePage

(* A row for the home page is written, or not.                             *)
LEMMA StoreHome ==
    ASSUME Settings!TypeOK, OneHome, NEW h \in Settings!Stored, NEW saved \in BOOLEAN,
           Settings!SetParamString(saved, [db EXCEPT !.home = {h}])
    PROVE  /\ app' \in Settings!App /\ db' \in Settings!Table
           /\ db'.params = db.params /\ db'.place = db.place
           /\ app'.alive => app' = app
           /\ OneHome'
           /\ saved => Settings!HomePage' = h
           /\ ~saved => db' = db
<1> DEFINE table == [db EXCEPT !.home = {h}]
<1>1. /\ table \in Settings!Table /\ table.home = {h}
      /\ table.params = db.params /\ table.place = db.place
  BY DEF Settings!TypeOK, Settings!Table
<1> HIDE DEF table
<1>2. /\ app' \in Settings!App /\ db' \in Settings!Table
      /\ saved => app' = app /\ db' = table
      /\ ~saved => ~app'.alive /\ db' = db
  BY <1>1, WriteOK DEF table
<1>3. OneHome' /\ (saved => Settings!HomePage' = h)
  BY <1>1, <1>2, HomeWritten DEF OneHome
<1> QED BY <1>1, <1>2, <1>3

LEMMA ShowBaseOK ==
    ASSUME SettingsInv, NEW saved \in BOOLEAN, Settings!ShowBase(saved)
    PROVE  SettingsInv'
<1>1. /\ app.alive /\ views' = Settings!Shown("base") /\ Settings!SetHomePageSubText(saved)
      /\ UNCHANGED <<settings, pages, device, missed, chosen>>
  BY DEF Settings!ShowBase
<1>2. /\ views' \in Settings!Views /\ views'.top = "base" /\ views'.boxes = settings
      /\ views'.advanced = views.advanced /\ views'.popup = views.popup
  BY <1>1, ViewsOK DEF SettingsInv
<1>3. /\ app' \in Settings!App /\ db' \in Settings!Table /\ OneHome'
      /\ db'.params = db.params /\ (app'.alive => app' = app)
      /\ Settings!HomePage'.page = Settings!HomePage.page
  <2>1. Settings!HomePage \in Settings!Stored
    BY ReadHome DEF SettingsInv
  <2>2. CASE Settings!HomePage.marked
    <3> DEFINE h == Settings!Plain(Settings!HomePage.page)
    <3>1. h \in Settings!Stored /\ h.page = Settings!HomePage.page
      BY <2>1 DEF Settings!Stored, Settings!Plain
    <3>2. Settings!SetParamString(saved, [db EXCEPT !.home = {h}])
      BY <1>1, <2>2 DEF Settings!SetHomePageSubText
    <3> HIDE DEF h
    <3>3. ~saved => Settings!HomePage' = Settings!HomePage
      BY <3>1, <3>2, StoreHome DEF SettingsInv, Settings!HomePage
    <3> QED BY <3>1, <3>2, <3>3, StoreHome DEF SettingsInv
  <2>3. CASE ~Settings!HomePage.marked
    BY <1>1, <2>3 DEF Settings!SetHomePageSubText, SettingsInv, Settings!TypeOK, OneHome, Settings!HomePage
  <2> QED BY <2>2, <2>3
<1>4. Settings!TypeOK' /\ CardIsHeard'
  BY <1>1, <1>2, <1>3 DEF SettingsInv, Settings!TypeOK, CardIsHeard
<1>5. Settings!SettingsAgree'
  BY <1>1, <1>2, <1>3, AgreeOK DEF SettingsInv, Settings!ChoicesAreKept, Quiet
<1>6. Settings!HomeIsAsChosen' /\ Settings!NoCardNoSDCard'
  BY <1>1, <1>2, <1>3 DEF SettingsInv, Settings!ChoicesAreKept, Settings!HomeIsAsChosen, Settings!ShowHomePage, Settings!NoCardNoSDCard
<1> QED BY <1>3, <1>4, <1>5, <1>6 DEF SettingsInv, Settings!ChoicesAreKept

LEMMA ChooseHomeOK ==
    ASSUME SettingsInv, NEW h \in Settings!Stored, NEW saved \in BOOLEAN, Settings!ChooseHome(h, saved)
    PROVE  SettingsInv'
<1>1. /\ app.alive /\ Settings!SetParamString(saved, [db EXCEPT !.home = {h}])
      /\ chosen' = IF saved THEN h.page ELSE chosen
      /\ UNCHANGED <<settings, pages, views, device, missed>>
  BY DEF Settings!ChooseHome
<1>2. /\ app' \in Settings!App /\ db' \in Settings!Table /\ OneHome'
      /\ db'.params = db.params /\ (app'.alive => app' = app)
      /\ saved => Settings!HomePage' = h
      /\ ~saved => db' = db
  BY <1>1, StoreHome DEF SettingsInv
<1>3. h.page \in Settings!HomePages
  BY DEF Settings!Stored
<1>4. Settings!TypeOK' /\ CardIsHeard'
  BY <1>1, <1>2, <1>3 DEF SettingsInv, Settings!TypeOK, CardIsHeard
<1>5. Settings!SettingsAgree'
  BY <1>1, <1>2, AgreeOK DEF SettingsInv, Settings!ChoicesAreKept, Quiet
<1>6. Settings!HomeIsAsChosen'
  <2>1. CASE saved
    BY <1>1, <1>2, <2>1 DEF Settings!HomeIsAsChosen, Settings!ShowHomePage
  <2>2. CASE ~saved
    BY <1>1, <1>2, <2>2, HomeKept DEF SettingsInv, Settings!ChoicesAreKept
  <2> QED BY <2>1, <2>2
<1>7. Settings!NoCardNoSDCard'
  BY <1>1, <1>2 DEF SettingsInv, Settings!ChoicesAreKept, Settings!NoCardNoSDCard
<1> QED BY <1>2, <1>4, <1>5, <1>6, <1>7 DEF SettingsInv, Settings!ChoicesAreKept

-----------------------------------------------------------------------------
(* The place for downloads. What is written is where the preference says.  *)
LEMMA PlaceOK ==
    ASSUME SettingsInv, NEW place \in Settings!Places, NEW saved \in BOOLEAN,
           Settings!SetParamString(saved, [db EXCEPT !.place = {place}]),
           Quiet, chosen' = chosen
    PROVE  /\ app' \in Settings!App /\ db' \in Settings!Table /\ db'.params = db.params
           /\ app'.alive => app' = app
           /\ OneHome' /\ Settings!HomeIsAsChosen'
<1> DEFINE table == [db EXCEPT !.place = {place}]
<1>1. table \in Settings!Table /\ table.home = db.home /\ table.params = db.params
  BY DEF SettingsInv, Settings!TypeOK, Settings!Table
<1> HIDE DEF table
<1>2. /\ app' \in Settings!App /\ db' \in Settings!Table
      /\ saved => app' = app /\ db' = table
      /\ ~saved => ~app'.alive /\ db' = db
  BY <1>1, WriteOK DEF table, SettingsInv
<1>3. db'.home = db.home
  BY <1>1, <1>2
<1> QED BY <1>1, <1>2, <1>3, HomeKept DEF SettingsInv, Settings!ChoicesAreKept

LEMMA DeviceOK == ASSUME Settings!TypeOK PROVE device \in [card : BOOLEAN, place : Settings!Places]
BY DEF Settings!TypeOK

LEMMA ShowAdvancedOK ==
    ASSUME SettingsInv, NEW saved \in BOOLEAN, Settings!ShowAdvanced(saved)
    PROVE  SettingsInv'
<1>1. /\ app.alive /\ views.top = "base"
      /\ views' = [Settings!Shown("sub") EXCEPT !.advanced = TRUE]
      /\ UNCHANGED <<settings, pages, missed, chosen>>
  BY DEF Settings!ShowAdvanced
<1>2. /\ views' \in Settings!Views /\ views'.top = "sub" /\ views'.boxes = settings
      /\ views'.advanced /\ views'.popup = views.popup
  <2>1. Settings!Shown("sub") \in Settings!Views /\ Settings!Shown("sub").top = "sub"
        /\ Settings!Shown("sub").boxes = settings /\ Settings!Shown("sub").popup = views.popup
    BY ViewsOK DEF SettingsInv
  <2> QED BY <1>1, <2>1 DEF Settings!Views
<1>3. CASE device.card
  <2>1. UNCHANGED <<app, db, device>>
    BY <1>3 DEF Settings!ShowAdvanced
  <2>2. Settings!TypeOK' /\ CardIsHeard'
    BY <1>1, <1>2, <1>3, <2>1 DEF SettingsInv, Settings!TypeOK, CardIsHeard
  <2>3. Settings!SettingsAgree'
    BY <1>1, <1>2, <2>1, AgreeOK DEF SettingsInv, Settings!ChoicesAreKept, Quiet
  <2>4. Settings!NoCardNoSDCard'
    BY <1>3, <2>1 DEF Settings!NoCardNoSDCard
  <2> QED BY <1>1, <2>1, <2>2, <2>3, <2>4, HomeKept DEF SettingsInv, Settings!ChoicesAreKept
<1>4. CASE ~device.card
  <2>1. device' = [device EXCEPT !.place = "Device"]
        /\ Settings!SetParamString(saved, [db EXCEPT !.place = {"Device"}])
    BY <1>4 DEF Settings!ShowAdvanced, Settings!SetContentDestination
  <2>2. /\ app' \in Settings!App /\ db' \in Settings!Table /\ db'.params = db.params
        /\ app'.alive => app' = app
        /\ OneHome' /\ Settings!HomeIsAsChosen'
    BY <1>1, <2>1, PlaceOK DEF Settings!Places, Quiet
  <2>3. device' \in [card : BOOLEAN, place : Settings!Places] /\ device'.card = device.card
        /\ device'.place = "Device"
    BY <2>1, DeviceOK DEF SettingsInv, Settings!Places
  <2>4. Settings!TypeOK' /\ CardIsHeard'
    BY <1>1, <1>2, <1>4, <2>2, <2>3 DEF SettingsInv, Settings!TypeOK, CardIsHeard
  <2>5. Settings!SettingsAgree'
    BY <1>1, <1>2, <2>2, AgreeOK DEF SettingsInv, Settings!ChoicesAreKept, Quiet
  <2>6. Settings!NoCardNoSDCard'
    BY <2>3 DEF Settings!NoCardNoSDCard
  <2> QED BY <2>2, <2>4, <2>5, <2>6 DEF SettingsInv, Settings!ChoicesAreKept
<1> QED BY <1>3, <1>4

LEMMA RadioOK ==
    ASSUME SettingsInv, NEW place \in Settings!Places, NEW saved \in BOOLEAN, Settings!RadioClicked(place, saved)
    PROVE  SettingsInv'
<1>1. /\ app.alive /\ views.popup = "open" /\ views' = [views EXCEPT !.popup = "none"]
      /\ device' = [device EXCEPT !.place = place]
      /\ Settings!SetParamString(saved, [db EXCEPT !.place = {place}])
      /\ UNCHANGED <<settings, pages, missed, chosen>>
  BY DEF Settings!RadioClicked, Settings!SetContentDestination
<1>2. device.card
  BY <1>1 DEF SettingsInv, CardIsHeard
<1>3. views' \in Settings!Views /\ views'.popup = "none" /\ views'.top = views.top
      /\ views'.boxes = views.boxes
  BY <1>1 DEF SettingsInv, Settings!TypeOK, Settings!Views
<1>4. device' \in [card : BOOLEAN, place : Settings!Places] /\ device'.card
  BY <1>1, <1>2, DeviceOK DEF SettingsInv
<1>5. /\ app' \in Settings!App /\ db' \in Settings!Table /\ db'.params = db.params
      /\ app'.alive => app' = app
      /\ OneHome' /\ Settings!HomeIsAsChosen'
  BY <1>1, PlaceOK DEF Quiet
<1>6. Settings!TypeOK' /\ CardIsHeard'
  BY <1>1, <1>3, <1>4, <1>5 DEF SettingsInv, Settings!TypeOK, CardIsHeard
<1>7. Settings!SettingsAgree' /\ Settings!NoCardNoSDCard'
  BY <1>1, <1>3, <1>4, <1>5, AgreeOK DEF SettingsInv, Settings!ChoicesAreKept, Quiet, Settings!NoCardNoSDCard
<1> QED BY <1>5, <1>6, <1>7 DEF SettingsInv, Settings!ChoicesAreKept

(* The card is taken out or put in. What the view does to the popup it     *)
(* does before anything can be chosen in it.                               *)
LEMMA NotifyOK ==
    ASSUME SettingsInv, NEW saved \in BOOLEAN, Settings!NotifyStorageChange(saved)
    PROVE  SettingsInv'
<1>1. app.alive /\ UNCHANGED <<settings, pages, missed, chosen>>
  BY DEF Settings!NotifyStorageChange
<1>2. CASE ~views.advanced
  <2>1. device' = [device EXCEPT !.card = ~@] /\ UNCHANGED <<app, db, views>>
    BY <1>2 DEF Settings!NotifyStorageChange
  <2>2. device' \in [card : BOOLEAN, place : Settings!Places]
    BY <2>1, DeviceOK DEF SettingsInv
  <2>3. Settings!TypeOK' /\ CardIsHeard'
    BY <1>1, <1>2, <2>1, <2>2 DEF SettingsInv, Settings!TypeOK, CardIsHeard
  <2>4. Settings!SettingsAgree' /\ Settings!NoCardNoSDCard'
    BY <1>1, <1>2, <2>1, AgreeOK DEF SettingsInv, Settings!ChoicesAreKept, Quiet, Settings!NoCardNoSDCard
  <2> QED BY <1>1, <2>1, <2>3, <2>4, HomeKept DEF SettingsInv, Settings!ChoicesAreKept
<1>3. CASE views.advanced
  <2>1. Settings!ChangeGenlistStorage(~device.card, saved)
        /\ views' = [views EXCEPT !.popup = "none"]
    BY <1>3 DEF Settings!NotifyStorageChange
  <2>2. views' \in Settings!Views /\ views'.popup = "none" /\ views'.top = views.top
        /\ views'.boxes = views.boxes /\ views'.advanced
    BY <1>3, <2>1 DEF SettingsInv, Settings!TypeOK, Settings!Views
  <2>3. /\ app' \in Settings!App /\ db' \in Settings!Table /\ db'.params = db.params
        /\ app'.alive => app' = app
        /\ OneHome' /\ Settings!HomeIsAsChosen'
        /\ device' \in [card : BOOLEAN, place : Settings!Places]
        /\ ~device'.card => device'.place = "Device"
    <3>1. CASE ~device.card
      <4>1. device' = [device EXCEPT !.card = TRUE] /\ UNCHANGED <<app, db>>
        <5>1. (~device.card) = TRUE
          BY <3>1
        <5> QED BY <2>1, <3>1, <5>1 DEF Settings!ChangeGenlistStorage
      <4>2. device' \in [card : BOOLEAN, place : Settings!Places] /\ device'.card
        BY <4>1, DeviceOK DEF SettingsInv
      <4> QED BY <1>1, <4>1, <4>2, HomeKept DEF SettingsInv, Settings!ChoicesAreKept, Settings!TypeOK
    <3>2. CASE device.card
      <4>1. /\ device' = [card |-> ~device.card, place |-> "Device"]
            /\ Settings!SetParamString(saved, [db EXCEPT !.place = {"Device"}])
        BY <2>1, <3>2 DEF Settings!ChangeGenlistStorage
      <4>2. device' \in [card : BOOLEAN, place : Settings!Places] /\ device'.place = "Device"
        BY <4>1 DEF Settings!Places
      <4> QED BY <1>1, <4>1, <4>2, PlaceOK DEF Settings!Places, Quiet
    <3> QED BY <3>1, <3>2
  <2>4. Settings!TypeOK' /\ CardIsHeard'
    BY <1>1, <2>2, <2>3 DEF SettingsInv, Settings!TypeOK, CardIsHeard
  <2>5. Settings!SettingsAgree' /\ Settings!NoCardNoSDCard'
    BY <1>1, <2>2, <2>3, AgreeOK DEF SettingsInv, Settings!ChoicesAreKept, Quiet, Settings!NoCardNoSDCard
  <2> QED BY <2>3, <2>4, <2>5 DEF SettingsInv, Settings!ChoicesAreKept
<1> QED BY <1>2, <1>3

LEMMA EndsOK ==
    ASSUME SettingsInv, Settings!Ends
    PROVE  app' \in Settings!App /\ ~app'.alive
BY DEF SettingsInv, Settings!TypeOK, Settings!App, Settings!Ends

LEMMA NotifyDeadPopupOK ==
    ASSUME SettingsInv, NEW saved \in BOOLEAN, Settings!NotifyDeadPopup(saved)
    PROVE  SettingsInv'
<1>1. /\ device' = [card |-> ~device.card,
                    place |-> IF device.card THEN "Device" ELSE device.place]
      /\ Settings!Ends /\ UNCHANGED <<settings, pages, views, missed, chosen>>
      /\ db' = [db EXCEPT !.place = {"Device"}] \/ db' = db
  BY DEF Settings!NotifyDeadPopup, Settings!Keep
<1>2. app' \in Settings!App /\ ~app'.alive
  BY <1>1, EndsOK
<1>3. db' \in Settings!Table /\ db'.home = db.home
  BY <1>1 DEF SettingsInv, Settings!TypeOK, Settings!Table, Settings!Places
<1>4. device' \in [card : BOOLEAN, place : Settings!Places]
  BY <1>1, DeviceOK DEF SettingsInv, Settings!Places
<1>5. Settings!TypeOK' /\ CardIsHeard' /\ Settings!SettingsAgree' /\ Settings!NoCardNoSDCard'
  BY <1>1, <1>2, <1>3, <1>4
     DEF SettingsInv, Settings!TypeOK, CardIsHeard, Settings!SettingsAgree, Settings!NoCardNoSDCard
<1> QED BY <1>1, <1>3, <1>5, HomeKept DEF SettingsInv, Settings!ChoicesAreKept

-----------------------------------------------------------------------------
LEMMA StartOK ==
    ASSUME Settings!SettingsAssumption, SettingsInv, Settings!Start
    PROVE  SettingsInv'
<1>1. /\ app' = [alive |-> TRUE, mode |-> "NORMAL", at |-> "TizenPage"]
      /\ settings' = Settings!InitWebEngineSettingsFromDB(db.params)
      /\ pages' = [p \in Pages |-> Settings!NoPage] /\ views' = Settings!NoViews /\ missed' = {}
      /\ UNCHANGED <<db, device, chosen>>
  BY DEF Settings!Start
<1>2. settings' \in Settings!EngineSettings
  BY <1>1, ReadOK DEF SettingsInv, Settings!TypeOK
<1>3. views' \in Settings!Views /\ views'.top = "none" /\ views'.popup = "none" /\ ~views'.advanced
  BY <1>1 DEF Settings!NoViews, Settings!Views
<1>4. pages' \in [Pages -> Settings!Page] /\ \A t \in Pages : ~pages'[t].on
  BY <1>1 DEF Settings!NoPage, Settings!Page
<1>5. app' \in Settings!App
  BY <1>1 DEF Settings!App, Settings!Modes
<1>6. Settings!TypeOK' /\ CardIsHeard'
  BY <1>1, <1>2, <1>3, <1>4, <1>5 DEF SettingsInv, Settings!TypeOK, CardIsHeard
<1>7. Settings!SettingsAgree' /\ Settings!NoCardNoSDCard'
  BY <1>1, <1>3, <1>4 DEF Settings!SettingsAgree, Settings!NoCardNoSDCard
<1> QED BY <1>1, <1>6, <1>7, HomeKept DEF SettingsInv, Settings!ChoicesAreKept

LEMMA SettingsInvNext == ASSUME Settings!SettingsAssumption, SettingsInv, [Settings!Next]_(Settings!vars) PROVE SettingsInv'
<1>1. ASSUME NEW saved \in BOOLEAN, Settings!ShowBase(saved) \/ Settings!ShowAdvanced(saved)
      PROVE  SettingsInv'
  BY <1>1, ShowBaseOK, ShowAdvancedOK
<1>2. ASSUME NEW saved \in BOOLEAN, Settings!NotifyStorageChange(saved) \/ Settings!NotifyDeadPopup(saved)
      PROVE  SettingsInv'
  BY <1>2, NotifyOK, NotifyDeadPopupOK
<1>3. ASSUME NEW saved \in BOOLEAN, Settings!CurrentClicked(saved)
      PROVE  SettingsInv'
  <2>1. [marked |-> TRUE, page |-> app.at] \in Settings!Stored
    BY DEF SettingsInv, Settings!TypeOK, Settings!App, Settings!Stored, Settings!HomePages, Settings!Specials
  <2> QED BY <1>3, <2>1, ChooseHomeOK DEF Settings!CurrentClicked
<1>4. ASSUME NEW saved \in BOOLEAN, NEW h \in Settings!HomePages, Settings!ChooseHome(Settings!Plain(h), saved)
      PROVE  SettingsInv'
  <2>1. Settings!Plain(h) \in Settings!Stored
    BY DEF Settings!Plain, Settings!Stored
  <2> QED BY <1>4, <2>1, ChooseHomeOK
<1>5. CASE Settings!ChangeMode
  <2>1. app' \in Settings!App /\ app'.alive = app.alive
        /\ UNCHANGED <<settings, pages, views, db, device, missed, chosen>>
    <3>1. \E m \in Settings!Modes : m # app.mode
      BY DEF Settings!Modes
    <3> QED BY <1>5, <3>1 DEF Settings!ChangeMode, SettingsInv, Settings!TypeOK, Settings!App
  <2> QED BY <2>1 DEF SettingsInv, Settings!TypeOK, OneHome, CardIsHeard, Settings!ChoicesAreKept, Settings!SettingsAgree,
              Settings!HomeIsAsChosen, Settings!ShowHomePage, Settings!HomePage, Settings!NoCardNoSDCard
<1>6. ASSUME NEW u \in Urls, Settings!UrlChanged(u)
      PROVE  SettingsInv'
  <2>1. app' \in Settings!App /\ app'.alive = app.alive
        /\ UNCHANGED <<settings, pages, views, db, device, missed, chosen>>
    BY <1>6 DEF Settings!UrlChanged, SettingsInv, Settings!TypeOK, Settings!App
  <2> QED BY <2>1 DEF SettingsInv, Settings!TypeOK, OneHome, CardIsHeard, Settings!ChoicesAreKept, Settings!SettingsAgree,
              Settings!HomeIsAsChosen, Settings!ShowHomePage, Settings!HomePage, Settings!NoCardNoSDCard
<1>7. ASSUME Settings!ShowHomePageView \/ Settings!LeaveSettings \/ Settings!SaveContentClicked \/ Settings!PopupDismissed
      PROVE  SettingsInv'
  <2>1. UNCHANGED <<app, settings, pages, db, device, missed, chosen>>
    BY <1>7 DEF Settings!ShowHomePageView, Settings!LeaveSettings, Settings!SaveContentClicked, Settings!PopupDismissed
  <2>2. /\ views' \in Settings!Views /\ views'.advanced = views.advanced
        /\ \/ views'.top = "home" /\ views'.boxes = settings
           \/ views'.top \in {"none", views.top} /\ views'.boxes = views.boxes
        /\ views'.popup = "open" =>
             views.popup = "open" \/ (device.card /\ views.top = "sub")
    <3>1. CASE Settings!ShowHomePageView
      BY <3>1, ViewsOK DEF Settings!ShowHomePageView, SettingsInv
    <3>2. CASE Settings!LeaveSettings \/ Settings!SaveContentClicked \/ Settings!PopupDismissed
      BY <3>2 DEF Settings!LeaveSettings, Settings!SaveContentClicked, Settings!PopupDismissed, SettingsInv, Settings!TypeOK, Settings!Views
    <3> QED BY <1>7, <3>1, <3>2
  <2>3. Settings!TypeOK' /\ CardIsHeard'
    BY <2>1, <2>2 DEF SettingsInv, Settings!TypeOK, CardIsHeard
  <2>4. Settings!SettingsAgree' /\ Settings!NoCardNoSDCard'
    BY <2>1, <2>2, AgreeOK DEF SettingsInv, Settings!ChoicesAreKept, Quiet, Settings!NoCardNoSDCard
  <2> QED BY <2>1, <2>3, <2>4, HomeKept DEF SettingsInv, Settings!ChoicesAreKept
<1>8. CASE Settings!Killed
  <2>1. app' \in Settings!App /\ ~app'.alive
        /\ UNCHANGED <<settings, pages, views, db, device, missed, chosen>>
    BY <1>8, EndsOK DEF Settings!Killed
  <2> QED BY <2>1, HomeKept DEF SettingsInv, Settings!TypeOK, CardIsHeard, Settings!ChoicesAreKept,
              Settings!SettingsAgree, Settings!NoCardNoSDCard
<1>9. CASE UNCHANGED Settings!vars
  BY <1>9 DEF Settings!vars, SettingsInv, Settings!TypeOK, OneHome, CardIsHeard, Settings!ChoicesAreKept, Settings!SettingsAgree,
              Settings!HomeIsAsChosen, Settings!ShowHomePage, Settings!HomePage, Settings!NoCardNoSDCard
<1>10. Settings!Specials \subseteq Settings!HomePages /\ Urls \subseteq Settings!HomePages
  BY DEF Settings!HomePages
<1> QED
  BY <1>1, <1>2, <1>3, <1>4, <1>5, <1>6, <1>7, <1>8, <1>9, <1>10, CheckOK, RadioOK,
     AddTabOK, CloseTabOK, StartOK
  DEF Settings!Next, Settings!SpecialClicked, Settings!OtherEntered

-----------------------------------------------------------------------------
(***************************************************************************)
(* What pages ask of the device: what was said to be saved is there, and   *)
(* one timer stops the motor.                                              *)
(***************************************************************************)
RequestsInv == Requests!TypeOK /\ Requests!RequestsAreServed

(* A name is looked for from the first on: a least free one is found.      *)
LEMMA Least ==
    ASSUME NEW T, T \subseteq Nat, T # {}
    PROVE  \E x \in T : \A y \in T : x <= y
<1> DEFINE R == OpToRel(<, Nat)
<1>1. IsWellFoundedOn(R, Nat)
  BY NatLessThanWellFounded
<1>2. \A y, x \in Nat : <<y, x>> \in R <=> y < x
  BY DEF OpToRel
<1> HIDE DEF R
<1>3. PICK x \in T : \A y \in T : ~(<<y, x>> \in R)
  BY <1>1, WFMin
<1>4. \A y \in T : ~(y < x)
  BY <1>2, <1>3
<1> QED BY <1>4

LEMMA LaunchOK ==
    ASSUME Requests!TypeOK, NEW app_ \in Requests!Apps, Requests!Launch(app_)
    PROVE  launched' \in Requests!Apps \cup {Requests!None}
BY DEF Requests!TypeOK, Requests!Launch

LEMMA HandleOK ==
    ASSUME Requests!TypeOK, NEW scheme, Requests!HandleScheme(scheme)
    PROVE  launched' \in Requests!Apps \cup {Requests!None}
BY DEF Requests!TypeOK, Requests!Launch, Requests!HandleScheme, Requests!Handler, Requests!Apps

(* A file put where none was leaves the others where they are.             *)
LEMMA SaveOK ==
    ASSUME Requests!PageRequestsAssumption, RequestsInv,
           NEW folder \in Requests!Folders, NEW content \in Downloads,
           Requests!DownloadData(folder, content)
    PROVE  RequestsInv'
<1>1. /\ files \in [Requests!Folders -> [Requests!Numbers -> Downloads \cup {Requests!None}]]
      /\ told \subseteq Downloads
      /\ UNCHANGED <<load, motor, timers, menu, launched>>
  BY DEF RequestsInv, Requests!TypeOK, Requests!DownloadData
<1>2. Requests!VibrationsEnd'
  BY <1>1 DEF RequestsInv, Requests!RequestsAreServed, Requests!VibrationsEnd
<1>3. CASE UNCHANGED <<files, told>>
  BY <1>1, <1>2, <1>3 DEF RequestsInv, Requests!TypeOK, Requests!RequestsAreServed,
                          Requests!SavedIsKept
<1>4. ASSUME ~UNCHANGED <<files, told>>
      PROVE  RequestsInv'
  <2> DEFINE free == Requests!FreeNames(folder)
             n == CHOOSE x \in free : \A k \in free : x <= k
             to == [files[folder] EXCEPT ![n] = content]
  <2>1. /\ free # {} /\ files' = [files EXCEPT ![folder][n] = content]
        /\ told' \subseteq told \cup {content}
    BY <1>4 DEF Requests!DownloadData, Requests!SaveFile
  <2>2. free \subseteq Nat /\ free \subseteq Requests!Numbers
    BY DEF Requests!FreeNames, Requests!Numbers, Requests!PageRequestsAssumption
  <2>3. n \in free
    BY <2>1, <2>2, Least
  <2> HIDE DEF n
  <2>4. n \in Requests!Numbers /\ files[folder][n] = Requests!None
    BY <2>2, <2>3 DEF Requests!FreeNames
  <2>5. /\ to \in [Requests!Numbers -> Downloads \cup {Requests!None}]
        /\ to[n] = content
        /\ \A k \in Requests!Numbers : k # n => to[k] = files[folder][k]
    BY <1>1, <2>4
  <2>6. files' = [files EXCEPT ![folder] = to]
    BY <2>1
  <2> HIDE DEF to
  <2>7. /\ files' \in [Requests!Folders -> [Requests!Numbers -> Downloads \cup {Requests!None}]]
        /\ files'[folder][n] = content
        /\ \A f \in Requests!Folders, k \in Requests!Numbers :
             files[f][k] # Requests!None => files'[f][k] = files[f][k]
    BY <1>1, <2>4, <2>5, <2>6
  <2>8. Requests!SavedIsKept'
    <3> SUFFICES ASSUME NEW d \in told'
                 PROVE  \E f \in Requests!Folders : \E k \in Requests!Numbers :
                          files'[f][k] = d
      BY DEF Requests!SavedIsKept
    <3>1. CASE d = content
      BY <2>4, <2>7, <3>1
    <3>2. CASE d # content
      <4>1. d \in told /\ d # Requests!None
        BY <1>1, <2>1, <3>2 DEF Requests!PageRequestsAssumption
      <4> QED BY <2>7, <4>1
            DEF RequestsInv, Requests!RequestsAreServed, Requests!SavedIsKept
    <3> QED BY <3>1, <3>2
  <2>9. Requests!TypeOK'
    BY <1>1, <2>1, <2>7 DEF RequestsInv, Requests!TypeOK
  <2> QED BY <1>2, <2>8, <2>9 DEF RequestsInv, Requests!RequestsAreServed
<1> QED BY <1>3, <1>4

LEMMA FileDeletedOK ==
    ASSUME RequestsInv, NEW folder \in Requests!Folders, NEW n \in Requests!Numbers,
           Requests!FileDeleted(folder, n)
    PROVE  RequestsInv'
<1> DEFINE to == [files[folder] EXCEPT ![n] = Requests!None]
<1>1. /\ files \in [Requests!Folders -> [Requests!Numbers -> Downloads \cup {Requests!None}]]
      /\ told \subseteq Downloads /\ told' = told \ {files[folder][n]}
      /\ files' = [files EXCEPT ![folder] = to]
      /\ UNCHANGED <<load, motor, timers, menu, launched>>
  BY DEF RequestsInv, Requests!TypeOK, Requests!FileDeleted
<1>2. /\ to \in [Requests!Numbers -> Downloads \cup {Requests!None}]
      /\ \A k \in Requests!Numbers : k # n => to[k] = files[folder][k]
  BY <1>1
<1> HIDE DEF to
<1>3. /\ files' \in [Requests!Folders -> [Requests!Numbers -> Downloads \cup {Requests!None}]]
      /\ \A f \in Requests!Folders, k \in Requests!Numbers :
           files[f][k] # files[folder][n] => files'[f][k] = files[f][k]
  BY <1>1, <1>2
<1>4. Requests!SavedIsKept'
  BY <1>1, <1>3 DEF RequestsInv, Requests!RequestsAreServed, Requests!SavedIsKept
<1>5. Requests!TypeOK' /\ Requests!VibrationsEnd'
  BY <1>1, <1>3 DEF RequestsInv, Requests!RequestsAreServed, Requests!TypeOK,
                    Requests!VibrationsEnd
<1> QED BY <1>4, <1>5 DEF RequestsInv, Requests!RequestsAreServed

LEMMA RequestsInvInit == ASSUME Requests!PageRequestsAssumption PROVE Requests!Init => RequestsInv
<1> SUFFICES ASSUME Requests!Init PROVE RequestsInv
  OBVIOUS
<1>1. motor.open = FALSE /\ motor.timer = FALSE /\ motor \in [open : BOOLEAN, timer : BOOLEAN]
  BY DEF Requests!Init
<1>2. menu \in [kind : Requests!MenuKinds \cup {Requests!None},
                link : Requests!Schemes \cup {Requests!None}]
  BY DEF Requests!Init, Requests!NoMenu
<1>3. files \in [Requests!Folders -> [Requests!Numbers -> Downloads \cup {Requests!None}]]
  BY DEF Requests!Init
<1> QED BY <1>1, <1>2, <1>3
  DEF Requests!Init, RequestsInv, Requests!TypeOK, Requests!RequestsAreServed,
      Requests!SavedIsKept, Requests!VibrationsEnd

LEMMA RequestsInvNext ==
    ASSUME Requests!PageRequestsAssumption, RequestsInv, [Requests!Next]_(Requests!vars)
    PROVE  RequestsInv'
<1> DEFINE Waits == {Requests!None, "navigation", "response", "undecided"}
<1>1. ASSUME NEW p \in Pages, NEW to \in Waits,
             load' = [load EXCEPT ![p] = to],
             launched' \in Requests!Apps \cup {Requests!None},
             UNCHANGED <<motor, timers, files, told, menu>>
      PROVE  RequestsInv'
  BY <1>1 DEF RequestsInv, Requests!TypeOK, Requests!RequestsAreServed,
              Requests!SavedIsKept, Requests!VibrationsEnd
<1>2. ASSUME NEW p \in Pages,
             \/ Requests!Navigate(p) \/ Requests!ResponseUsed(p)
             \/ Requests!ResponseNotDecided(p)
      PROVE  RequestsInv'
  BY <1>1, <1>2 DEF Requests!Navigate, Requests!ResponseUsed, Requests!ResponseNotDecided,
                    RequestsInv, Requests!TypeOK
<1>3. ASSUME NEW p \in Pages, NEW s \in Requests!Schemes,
             Requests!PolicyNavigationDecide(p, s)
      PROVE  RequestsInv'
  BY <1>1, <1>3, HandleOK DEF Requests!PolicyNavigationDecide, RequestsInv
<1>4. ASSUME NEW p \in Pages, NEW a \in BOOLEAN, Requests!ResponseDownloaded(p, a)
      PROVE  RequestsInv'
  <2>1. "downloader" \in Requests!Apps /\ "viewer" \in Requests!Apps
    BY DEF Requests!Apps
  <2> QED BY <1>1, <1>4, <2>1, LaunchOK DEF Requests!ResponseDownloaded, RequestsInv
<1>5. ASSUME launched' \in Requests!Apps \cup {Requests!None},
             menu' \in [kind : Requests!MenuKinds \cup {Requests!None},
                        link : Requests!Schemes \cup {Requests!None}],
             UNCHANGED <<load, motor, timers, files, told>>
      PROVE  RequestsInv'
  BY <1>5 DEF RequestsInv, Requests!TypeOK, Requests!RequestsAreServed,
              Requests!SavedIsKept, Requests!VibrationsEnd
<1>6. CASE Requests!DownloadWeb
  <2>1. "downloader" \in Requests!Apps
    BY DEF Requests!Apps
  <2> QED BY <1>5, <1>6, <2>1, LaunchOK DEF Requests!DownloadWeb, RequestsInv, Requests!TypeOK
<1>7. ASSUME motor' \in [open : BOOLEAN, timer : BOOLEAN], motor'.open = motor'.timer,
             timers' = IF motor'.timer THEN 1 ELSE 0,
             UNCHANGED <<load, files, told, menu, launched>>
      PROVE  RequestsInv'
  BY <1>7 DEF RequestsInv, Requests!TypeOK, Requests!RequestsAreServed,
              Requests!SavedIsKept, Requests!VibrationsEnd
<1>8. timers = IF motor.timer THEN 1 ELSE 0
  BY DEF RequestsInv, Requests!RequestsAreServed, Requests!VibrationsEnd
<1>9. CASE \/ \E opened \in BOOLEAN : Requests!VibrationCb(opened)
           \/ Requests!VibrationCancelCb \/ Requests!VibrationTimeoutCb
  <2>1. /\ \E to \in BOOLEAN : motor' = [open |-> to, timer |-> to]
        /\ UNCHANGED <<load, files, told, menu, launched>>
    BY <1>9 DEF Requests!VibrationCb, Requests!VibrationCancelCb,
                Requests!VibrationTimeoutCb, Requests!CancelVibration
  <2>2. timers' = IF motor'.timer THEN 1 ELSE 0
    BY <1>8, <1>9 DEF Requests!VibrationCb, Requests!VibrationCancelCb,
                      Requests!VibrationTimeoutCb, Requests!CancelVibration
  <2> QED BY <1>7, <2>1, <2>2
<1>10. ASSUME NEW tags, NEW image,
              NEW link \in {"mailto", "tel", "web"},
              Requests!ContextMenuCustomize(tags, image, link)
       PROVE  RequestsInv'
  <2>1. Requests!MenuType(tags, image) \in Requests!MenuKinds
    BY DEF Requests!MenuType, Requests!MenuKinds
  <2>2. menu' = [kind |-> Requests!MenuType(tags, image), link |-> link]
    BY <1>10 DEF Requests!ContextMenuCustomize
  <2>3. launched' \in Requests!Apps \cup {Requests!None}
        /\ UNCHANGED <<load, motor, timers, files, told>>
    BY <1>10 DEF Requests!ContextMenuCustomize, RequestsInv, Requests!TypeOK
  <2>4. link \in Requests!Schemes
    BY DEF Requests!Schemes
  <2> QED BY <1>5, <2>1, <2>2, <2>3, <2>4
<1>11. Requests!NoMenu \in [kind : Requests!MenuKinds \cup {Requests!None},
                            link : Requests!Schemes \cup {Requests!None}]
  BY DEF Requests!NoMenu
<1>12. ASSUME NEW item, Requests!ContextMenuSelected(item)
       PROVE  RequestsInv'
  <2>1. menu' = Requests!NoMenu /\ UNCHANGED <<load, motor, timers, files, told>>
    BY <1>12 DEF Requests!ContextMenuSelected
  <2>2. "contact" \in Requests!Apps
    BY DEF Requests!Apps
  <2>3. \/ \E s : Requests!HandleScheme(s)
        \/ Requests!Launch("contact") \/ UNCHANGED launched
    BY <1>12 DEF Requests!ContextMenuSelected
  <2>4. launched' \in Requests!Apps \cup {Requests!None}
    BY <2>2, <2>3, HandleOK, LaunchOK DEF RequestsInv, Requests!TypeOK
  <2> QED BY <1>5, <1>11, <2>1, <2>4
<1>13. CASE Requests!MenuDismissed
  BY <1>5, <1>11, <1>13 DEF Requests!MenuDismissed, RequestsInv, Requests!TypeOK
<1>14. CASE UNCHANGED Requests!vars
  BY <1>14 DEF Requests!vars, RequestsInv, Requests!TypeOK, Requests!RequestsAreServed,
               Requests!SavedIsKept, Requests!VibrationsEnd
<1> QED
  BY <1>2, <1>3, <1>4, <1>6, <1>9, <1>10, <1>12, <1>13, <1>14, SaveOK, FileDeletedOK
  DEF Requests!Next

-----------------------------------------------------------------------------
(***************************************************************************)
(* The popups: K is what each popup is, V the vector, L the layouts.       *)
(***************************************************************************)
Mades(K) == { p \in Popups : K[p] # Dialogs!None }
WithLayout(K) == { p \in Popups : K[p] \notin {Dialogs!None, "content"} }
KnownOf(L) == { k \in DOMAIN L : L[k].newest /\ ~L[k].dead }

(* The vector holds each popup that is made once.                          *)
Listed(K, V) ==
    /\ K \in [Popups -> Dialogs!Kinds \cup {Dialogs!None}]
    /\ V \in Seq(Popups)
    /\ \A i, j \in DOMAIN V : V[i] = V[j] => i = j
    /\ { V[i] : i \in DOMAIN V } = Mades(K)

(* The layouts that popups know are in the order of the vector; a layout   *)
(* whose popup is no more is known to be of none.                          *)
Stacked(K, V, L) ==
    /\ L \in Seq(Dialogs!Layout)
    /\ \A k \in DOMAIN L : /\ L[k].dead <=> K[L[k].of] = Dialogs!None
                           /\ L[k].newest => ~L[k].dead
    /\ \A k, l \in KnownOf(L) : \A i, j \in DOMAIN V :
         L[k].of = V[i] /\ L[l].of = V[j] => (k < l <=> i < j)

Covers(K, L) == { L[k].of : k \in KnownOf(L) } = WithLayout(K)

(* The inductive invariant, of a record of kind, vector, layouts and part. *)
GoodScreen(s) ==
    /\ s = [kind |-> s.kind, vector |-> s.vector, layouts |-> s.layouts, part |-> s.part]
    /\ Listed(s.kind, s.vector)
    /\ Stacked(s.kind, s.vector, s.layouts)
    /\ Covers(s.kind, s.layouts)
    /\ s.part \subseteq { p \in Popups : s.kind[p] = "content" }

(* A field of such a record set to something else.                         *)
LEMMA ScreenExcept ==
    ASSUME NEW s, NEW x,
           s = [kind |-> s.kind, vector |-> s.vector, layouts |-> s.layouts, part |-> s.part]
    PROVE  /\ [s EXCEPT !.kind = x] =
                [kind |-> x, vector |-> s.vector, layouts |-> s.layouts, part |-> s.part]
           /\ [s EXCEPT !.vector = x] =
                [kind |-> s.kind, vector |-> x, layouts |-> s.layouts, part |-> s.part]
           /\ [s EXCEPT !.layouts = x] =
                [kind |-> s.kind, vector |-> s.vector, layouts |-> x, part |-> s.part]
           /\ [s EXCEPT !.part = x] =
                [kind |-> s.kind, vector |-> s.vector, layouts |-> s.layouts, part |-> x]
OBVIOUS

DialogsInv == GoodScreen(Dialogs!Screen) /\ notice \in 0..1

LEMMA DialogsInvEnough == DialogsInv => Dialogs!PopupsInOrder
<1> SUFFICES ASSUME DialogsInv PROVE Dialogs!PopupsInOrder
  OBVIOUS
<1>1. Listed(kind, vector) /\ Stacked(kind, vector, layouts) /\ Covers(kind, layouts)
  BY DEF DialogsInv, GoodScreen, Dialogs!Screen
<1>2. KnownOf(layouts) = Dialogs!Known
  BY DEF KnownOf, Dialogs!Known
<1> QED BY <1>1, <1>2 DEF Listed, Stacked, Covers, Mades, WithLayout, Dialogs!PopupsInOrder,
                          Dialogs!EachShownOnce, Dialogs!StackedAsListed

(* What a sequence is without its n-th entry: an entry comes from Past.     *)
Past(n, i) == IF i < n THEN i ELSE i + 1

LEMMA RemoveAtOK ==
    ASSUME NEW X, NEW s \in Seq(X), NEW n \in DOMAIN s
    PROVE  LET t == Dialogs!RemoveAt(s, n)
           IN  /\ t \in Seq(X) /\ Len(t) \in Nat /\ DOMAIN t = 1 .. Len(t)
               /\ \A i \in DOMAIN t : Past(n, i) \in DOMAIN s \ {n} /\ t[i] = s[Past(n, i)]
               /\ \A j \in DOMAIN s \ {n} : \E i \in DOMAIN t : Past(n, i) = j
<1> DEFINE a == SubSeq(s, 1, n - 1)
           b == SubSeq(s, n + 1, Len(s))
           t == Dialogs!RemoveAt(s, n)
<1>1. Len(s) \in Nat /\ n \in 1 .. Len(s) /\ DOMAIN s = 1 .. Len(s)
  OBVIOUS
<1>2. /\ a \in Seq(X) /\ Len(a) = n - 1 /\ \A i \in 1 .. n - 1 : a[i] = s[i]
  BY <1>1
<1>3. /\ b \in Seq(X) /\ Len(b) = Len(s) - n
      /\ \A i \in 1 .. Len(s) - n : b[i] = s[n + i]
  BY <1>1
<1>4. t = a \o b
  BY DEF Dialogs!RemoveAt
<1> HIDE DEF a, b, t
<1>5. /\ t \in Seq(X) /\ Len(t) = Len(s) - 1 /\ DOMAIN t = 1 .. Len(s) - 1
      /\ \A i \in 1 .. Len(s) - 1 : t[i] = IF i <= n - 1 THEN a[i] ELSE b[i - (n - 1)]
  <2>1. Len(a) + Len(b) = Len(s) - 1
    BY <1>1, <1>2, <1>3
  <2>2. /\ t \in Seq(X) /\ Len(t) = Len(a) + Len(b)
        /\ \A i \in 1 .. Len(t) : t[i] = IF i <= Len(a) THEN a[i] ELSE b[i - Len(a)]
    BY <1>2, <1>3, <1>4, ConcatProperties
  <2>3. DOMAIN t = 1 .. Len(t)
    BY <2>2
  <2> QED BY <1>2, <2>1, <2>2, <2>3
<1>6. \A i \in 1 .. Len(s) - 1 : t[i] = s[Past(n, i)]
  <2> SUFFICES ASSUME NEW i \in 1 .. Len(s) - 1
               PROVE  t[i] = IF i < n THEN s[i] ELSE s[i + 1]
    BY DEF Past
  <2>1. CASE i < n
    <3>1. i \in 1 .. n - 1 /\ i <= n - 1
      BY <1>1, <2>1
    <3>2. a[i] = s[i]
      BY <1>2, <3>1
    <3>3. t[i] = IF i <= n - 1 THEN a[i] ELSE b[i - (n - 1)]
      BY <1>5
    <3> QED BY <2>1, <3>1, <3>2, <3>3
  <2>2. CASE ~(i < n)
    <3>1. i - (n - 1) \in 1 .. Len(s) - n /\ n + (i - (n - 1)) = i + 1 /\ ~(i <= n - 1)
      BY <1>1, <2>2
    <3> QED BY <1>3, <1>5, <2>2, <3>1
  <2> QED BY <2>1, <2>2
<1>7. \A j \in DOMAIN s \ {n} : \E i \in 1 .. Len(s) - 1 : Past(n, i) = j
  <2> SUFFICES ASSUME NEW j \in 1 .. Len(s), j # n
               PROVE  \E i \in 1 .. Len(s) - 1 : Past(n, i) = j
    BY <1>1
  <2>1. CASE j < n
    BY <1>1, <2>1 DEF Past
  <2>2. CASE j > n
    <3>1. j - 1 \in 1 .. Len(s) - 1 /\ ~(j - 1 < n) /\ (j - 1) + 1 = j
      BY <1>1, <2>2
    <3> QED BY <3>1 DEF Past
  <2> QED BY <1>1, <2>1, <2>2
<1>8. \A i \in 1 .. Len(s) - 1 : Past(n, i) \in 1 .. Len(s) /\ Past(n, i) # n
  BY <1>1 DEF Past
<1>9. Len(t) \in Nat
  BY <1>5
<1> QED BY <1>1, <1>5, <1>6, <1>7, <1>8, <1>9 DEF t

(* A new layout on top of the popup that is last in the vector.            *)
NewTop(L, p) ==
    Append([i \in DOMAIN L |-> IF L[i].of = p THEN [L[i] EXCEPT !.newest = FALSE] ELSE L[i]],
           [of |-> p, newest |-> TRUE, dead |-> FALSE])

LEMMA NewTopOK ==
    ASSUME NEW K, NEW V, NEW L, Listed(K, V), Stacked(K, V, L), V # <<>>,
           K[V[Len(V)]] # "content",
           { L[k].of : k \in KnownOf(L) } \cup {V[Len(V)]} = WithLayout(K)
    PROVE  Stacked(K, V, NewTop(L, V[Len(V)])) /\ Covers(K, NewTop(L, V[Len(V)]))
<1> DEFINE p == V[Len(V)]
           old == [i \in DOMAIN L |-> IF L[i].of = p THEN [L[i] EXCEPT !.newest = FALSE] ELSE L[i]]
           new == [of |-> p, newest |-> TRUE, dead |-> FALSE]
           M == NewTop(L, p)
<1>1. /\ Len(V) \in Nat \ {0} /\ DOMAIN V = 1 .. Len(V)
      /\ Len(V) \in DOMAIN V /\ p \in Popups /\ p \in Mades(K)
  BY DEF Listed
<1>2. L \in Seq(Dialogs!Layout) /\ Len(L) \in Nat /\ DOMAIN L = 1 .. Len(L)
      /\ \A k \in DOMAIN L : L[k] \in Dialogs!Layout
  BY DEF Stacked
<1>3. new \in Dialogs!Layout /\ new.of = p /\ new.newest = TRUE /\ new.dead = FALSE
  BY <1>1 DEF Dialogs!Layout
<1>4. \A k \in 1 .. Len(L) :
        /\ old[k] \in Dialogs!Layout /\ old[k].of = L[k].of /\ old[k].dead = L[k].dead
        /\ old[k].newest = IF L[k].of = p THEN FALSE ELSE L[k].newest
  <2> SUFFICES ASSUME NEW k \in 1 .. Len(L)
               PROVE  /\ old[k] \in Dialogs!Layout /\ old[k].of = L[k].of
                      /\ old[k].dead = L[k].dead
                      /\ old[k].newest = IF L[k].of = p THEN FALSE ELSE L[k].newest
    OBVIOUS
  <2>1. L[k] \in Dialogs!Layout
    BY <1>2
  <2>2. old[k] = IF L[k].of = p THEN [L[k] EXCEPT !.newest = FALSE] ELSE L[k]
    BY <1>2
  <2> HIDE DEF old
  <2> QED BY <2>1, <2>2 DEF Dialogs!Layout
<1>5. old \in Seq(Dialogs!Layout) /\ Len(old) = Len(L)
  <2>1. old \in [1 .. Len(L) -> Dialogs!Layout]
    BY <1>2, <1>4
  <2> HIDE DEF old
  <2> QED BY <1>2, <2>1
<1> HIDE DEF old, new, p
<1>6. M = Append(old, new)
  BY DEF NewTop, old, new
<1>7. /\ M \in Seq(Dialogs!Layout) /\ DOMAIN M = 1 .. Len(L) + 1
      /\ \A k \in 1 .. Len(L) : M[k] = old[k]
      /\ M[Len(L) + 1] = new
  BY <1>2, <1>3, <1>5, <1>6
<1> HIDE DEF M
<1>8. \A k \in DOMAIN M : k = Len(L) + 1 \/ k \in 1 .. Len(L)
  BY <1>2, <1>7
<1>9. KnownOf(M) = { k \in KnownOf(L) : L[k].of # p } \cup {Len(L) + 1}
  <2>1. \A k \in 1 .. Len(L) : k \in KnownOf(M) <=> k \in KnownOf(L) /\ L[k].of # p
    <3> SUFFICES ASSUME NEW k \in 1 .. Len(L)
                 PROVE  k \in KnownOf(M) <=> k \in KnownOf(L) /\ L[k].of # p
      OBVIOUS
    <3>1. k \in DOMAIN M /\ k \in DOMAIN L /\ M[k] = old[k]
      BY <1>2, <1>7
    <3>2. old[k].dead = L[k].dead /\ old[k].newest = IF L[k].of = p THEN FALSE ELSE L[k].newest
      BY <1>4
    <3> QED BY <3>1, <3>2 DEF KnownOf
  <2>2. Len(L) + 1 \in KnownOf(M) /\ Len(L) + 1 \notin 1 .. Len(L)
    BY <1>2, <1>3, <1>7 DEF KnownOf
  <2>3. \A k \in KnownOf(M) : k = Len(L) + 1 \/ k \in 1 .. Len(L)
    BY <1>8 DEF KnownOf
  <2>4. KnownOf(L) \subseteq 1 .. Len(L)
    BY <1>2 DEF KnownOf
  <2> QED BY <2>1, <2>2, <2>3, <2>4
<1>10. Covers(K, M)
  <2>1. \A k \in KnownOf(L) : L[k].of # p => k \in KnownOf(M) /\ M[k].of = L[k].of
    BY <1>2, <1>4, <1>7, <1>9 DEF KnownOf
  <2>2. Len(L) + 1 \in KnownOf(M) /\ M[Len(L) + 1].of = p
    BY <1>3, <1>7, <1>9
  <2>3. \A k \in KnownOf(M) : k = Len(L) + 1 \/ (k \in KnownOf(L) /\ M[k].of = L[k].of)
    BY <1>2, <1>4, <1>7, <1>9 DEF KnownOf
  <2>4. { M[k].of : k \in KnownOf(M) } = { L[k].of : k \in KnownOf(L) } \cup {p}
    BY <2>1, <2>2, <2>3
  <2> QED BY <2>4 DEF Covers, p
<1>11. ASSUME NEW k \in DOMAIN M
       PROVE  /\ M[k].dead <=> K[M[k].of] = Dialogs!None
              /\ M[k].newest => ~M[k].dead
  <2>1. K[p] # Dialogs!None
    BY <1>1 DEF Mades
  <2>2. CASE k \in 1 .. Len(L)
    <3>1. M[k] = old[k] /\ k \in DOMAIN L
      BY <1>2, <1>7, <2>2
    <3>2. /\ old[k].of = L[k].of /\ old[k].dead = L[k].dead
          /\ old[k].newest = IF L[k].of = p THEN FALSE ELSE L[k].newest
      BY <1>4, <2>2
    <3>3. /\ L[k].dead <=> K[L[k].of] = Dialogs!None
          /\ L[k].newest => ~L[k].dead
      BY <3>1 DEF Stacked
    <3> QED BY <3>1, <3>2, <3>3
  <2>3. CASE k = Len(L) + 1
    <3>1. M[k] = new
      BY <1>7, <2>3
    <3> QED BY <1>3, <2>1, <3>1
  <2> QED BY <1>8, <2>2, <2>3
<1>12. ASSUME NEW k \in KnownOf(M), NEW l \in KnownOf(M), NEW i \in DOMAIN V, NEW j \in DOMAIN V,
              M[k].of = V[i], M[l].of = V[j]
       PROVE  k < l <=> i < j
  <2>1. ASSUME NEW m \in KnownOf(M), NEW h \in DOMAIN V, M[m].of = V[h]
        PROVE  \/ m = Len(L) + 1 /\ h = Len(V)
               \/ /\ m \in KnownOf(L) /\ L[m].of = V[h]
                  /\ m \in 1 .. Len(L) /\ h \in 1 .. Len(V) - 1
    <3>1. CASE m = Len(L) + 1
      BY <1>1, <1>3, <1>7, <2>1, <3>1 DEF Listed, p
    <3>2. CASE m # Len(L) + 1
      <4>1. m \in KnownOf(L) /\ L[m].of # p /\ m \in 1 .. Len(L)
        BY <1>2, <1>9, <3>2 DEF KnownOf
      <4>2. L[m].of = V[h]
        BY <1>4, <1>7, <2>1, <4>1
      <4>3. h # Len(V)
        BY <4>1, <4>2 DEF p
      <4> QED BY <1>1, <4>1, <4>2, <4>3
    <3> QED BY <3>1, <3>2
  <2>2. \/ k = Len(L) + 1 /\ i = Len(V)
        \/ k \in KnownOf(L) /\ L[k].of = V[i] /\ k \in 1 .. Len(L) /\ i \in 1 .. Len(V) - 1
    BY <1>12, <2>1
  <2>3. \/ l = Len(L) + 1 /\ j = Len(V)
        \/ l \in KnownOf(L) /\ L[l].of = V[j] /\ l \in 1 .. Len(L) /\ j \in 1 .. Len(V) - 1
    BY <1>12, <2>1
  <2>4. CASE k \in KnownOf(L) /\ L[k].of = V[i] /\ l \in KnownOf(L) /\ L[l].of = V[j]
    BY <2>4 DEF Stacked
  <2> QED BY <1>1, <1>2, <2>2, <2>3, <2>4
<1> QED BY <1>7, <1>10, <1>11, <1>12 DEF Stacked, M, p

(* What is left when a popup's layout is deleted comes, in its order, from *)
(* the layouts there were, and only the layout the popup knew is gone.     *)
LEMMA KeptOK ==
    ASSUME NEW s, s.layouts \in Seq(Dialogs!Layout), NEW p,
           \A k, l \in Dialogs!Newest(s, p) : k = l
    PROVE  LET L == s.layouts
               M == Dialogs!Kept(s, p)
           IN  /\ M \in Seq(Dialogs!Layout)
               /\ \E f \in [DOMAIN M -> DOMAIN L] :
                    /\ \A k \in DOMAIN M : M[k] = L[f[k]] /\ f[k] \notin Dialogs!Newest(s, p)
                    /\ \A k, l \in DOMAIN M : k < l <=> f[k] < f[l]
                    /\ \A j \in DOMAIN L \ Dialogs!Newest(s, p) : \E k \in DOMAIN M : f[k] = j
<1> DEFINE L == s.layouts
           M == Dialogs!Kept(s, p)
           N == Dialogs!Newest(s, p)
<1>1. L \in Seq(Dialogs!Layout) /\ N \subseteq DOMAIN L /\ DOMAIN L \subseteq Int
  BY DEF Dialogs!Newest
<1>2. CASE N = {}
  <2> DEFINE f == [k \in DOMAIN L |-> k]
  <2>1. M = L
    BY <1>2 DEF Dialogs!Kept
  <2>2. f \in [DOMAIN M -> DOMAIN L] /\ \A k \in DOMAIN L : f[k] = k
    BY <2>1
  <2> HIDE DEF f, M, L, N
  <2>3. /\ \A k \in DOMAIN M : M[k] = L[f[k]] /\ f[k] \notin N
        /\ \A k, l \in DOMAIN M : k < l <=> f[k] < f[l]
        /\ \A j \in DOMAIN L \ N : \E k \in DOMAIN M : f[k] = j
    BY <1>2, <2>1, <2>2
  <2> QED BY <1>1, <2>1, <2>2, <2>3 DEF M, L, N
<1>3. CASE N # {}
  <2> DEFINE n == CHOOSE k \in N : TRUE
             f == [k \in DOMAIN M |-> Past(n, k)]
  <2>1. n \in N /\ N = {n} /\ M = Dialogs!RemoveAt(L, n) /\ n \in Int
    BY <1>1, <1>3 DEF Dialogs!Kept
  <2> HIDE DEF n, N, M, L
  <2>2. /\ M \in Seq(Dialogs!Layout) /\ DOMAIN M \subseteq Int
        /\ \A k \in DOMAIN M : Past(n, k) \in DOMAIN L \ {n} /\ M[k] = L[Past(n, k)]
        /\ \A j \in DOMAIN L \ {n} : \E k \in DOMAIN M : Past(n, k) = j
    BY <1>1, <2>1, RemoveAtOK
  <2>3. f \in [DOMAIN M -> DOMAIN L] /\ \A k \in DOMAIN M : f[k] = Past(n, k)
    BY <2>2
  <2>4. \A k, l \in DOMAIN M : k < l <=> Past(n, k) < Past(n, l)
    BY <2>1, <2>2 DEF Past
  <2> HIDE DEF f
  <2>5. /\ \A k \in DOMAIN M : M[k] = L[f[k]] /\ f[k] \notin N
        /\ \A k, l \in DOMAIN M : k < l <=> f[k] < f[l]
        /\ \A j \in DOMAIN L \ N : \E k \in DOMAIN M : f[k] = j
    BY <2>1, <2>2, <2>3, <2>4
  <2> QED BY <2>2, <2>3, <2>5 DEF M, L, N
<1> QED BY <1>2, <1>3

LEMMA RemovedListed ==
    ASSUME NEW K, NEW V, Listed(K, V), NEW n \in DOMAIN V
    PROVE  Listed([K EXCEPT ![V[n]] = Dialogs!None], Dialogs!RemoveAt(V, n))
<1> DEFINE p == V[n]
           J == [K EXCEPT ![p] = Dialogs!None]
           W == Dialogs!RemoveAt(V, n)
<1>1. V \in Seq(Popups) /\ p \in Popups /\ n \in Int /\ DOMAIN V \subseteq Int
  BY DEF Listed
<1>2. /\ W \in Seq(Popups) /\ DOMAIN W \subseteq Int
      /\ \A i \in DOMAIN W : Past(n, i) \in DOMAIN V \ {n} /\ W[i] = V[Past(n, i)]
      /\ \A j \in DOMAIN V \ {n} : \E i \in DOMAIN W : Past(n, i) = j
  BY <1>1, RemoveAtOK
<1>3. J \in [Popups -> Dialogs!Kinds \cup {Dialogs!None}] /\ Mades(J) = Mades(K) \ {p}
  BY <1>1 DEF Listed, Mades
<1> HIDE DEF J, W
<1>4. \A i, j \in DOMAIN W : W[i] = W[j] => i = j
  <2> SUFFICES ASSUME NEW i \in DOMAIN W, NEW j \in DOMAIN W, W[i] = W[j]
               PROVE  i = j
    OBVIOUS
  <2>1. Past(n, i) = Past(n, j)
    BY <1>2 DEF Listed
  <2> QED BY <1>1, <1>2, <2>1 DEF Past
<1>5. { W[i] : i \in DOMAIN W } = { V[j] : j \in DOMAIN V \ {n} }
  BY <1>2
<1>6. { V[j] : j \in DOMAIN V \ {n} } = Mades(K) \ {p}
  BY DEF Listed
<1> QED BY <1>2, <1>3, <1>4, <1>5, <1>6 DEF Listed, J, W

(* The layouts of a popup that is no more are of none.                     *)
Marked(L, p) ==
    [i \in DOMAIN L |-> IF L[i].of = p THEN [L[i] EXCEPT !.dead = TRUE] ELSE L[i]]

LEMMA MarkedOK ==
    ASSUME NEW L \in Seq(Dialogs!Layout), NEW p
    PROVE  /\ Marked(L, p) \in Seq(Dialogs!Layout)
           /\ DOMAIN Marked(L, p) = DOMAIN L
           /\ \A k \in DOMAIN L : /\ Marked(L, p)[k].of = L[k].of
                                  /\ Marked(L, p)[k].newest = L[k].newest
                                  /\ Marked(L, p)[k].dead <=> L[k].of = p \/ L[k].dead
<1> DEFINE M == Marked(L, p)
<1>1. Len(L) \in Nat /\ DOMAIN L = 1 .. Len(L) /\ \A k \in DOMAIN L : L[k] \in Dialogs!Layout
  OBVIOUS
<1>2. ASSUME NEW k \in DOMAIN L
      PROVE  /\ M[k] \in Dialogs!Layout /\ M[k].of = L[k].of /\ M[k].newest = L[k].newest
             /\ M[k].dead <=> L[k].of = p \/ L[k].dead
  <2>1. M[k] = IF L[k].of = p THEN [L[k] EXCEPT !.dead = TRUE] ELSE L[k]
    BY DEF Marked
  <2> HIDE DEF M
  <2>2. L[k] \in Dialogs!Layout
    BY <1>1
  <2> QED BY <2>1, <2>2 DEF Dialogs!Layout
<1>3. M \in [1 .. Len(L) -> Dialogs!Layout]
  BY <1>1, <1>2 DEF Marked
<1> HIDE DEF M
<1>4. M \in Seq(Dialogs!Layout) /\ DOMAIN M = DOMAIN L
  BY <1>1, <1>3
<1> QED BY <1>2, <1>4 DEF M

LEMMA RemovedStacked ==
    ASSUME NEW s, Listed(s.kind, s.vector), Stacked(s.kind, s.vector, s.layouts),
           Covers(s.kind, s.layouts), NEW n \in DOMAIN s.vector
    PROVE  LET p == s.vector[n]
               J == [s.kind EXCEPT ![p] = Dialogs!None]
               W == Dialogs!RemoveAt(s.vector, n)
               M == Marked(Dialogs!Kept(s, p), p)
           IN  Stacked(J, W, M) /\ Covers(J, M)
<1> DEFINE K == s.kind
           V == s.vector
           L == s.layouts
           p == V[n]
           J == [K EXCEPT ![p] = Dialogs!None]
           W == Dialogs!RemoveAt(V, n)
           H == Dialogs!Kept(s, p)
           M == Marked(H, p)
           N == Dialogs!Newest(s, p)
<1>1. /\ V \in Seq(Popups) /\ p \in Popups /\ n \in Int /\ DOMAIN V \subseteq Int
      /\ K \in [Popups -> Dialogs!Kinds \cup {Dialogs!None}]
      /\ K[p] # Dialogs!None
  BY DEF Listed, Mades
<1>2. /\ L \in Seq(Dialogs!Layout) /\ DOMAIN L \subseteq Int
      /\ \A k \in DOMAIN L : L[k] \in Dialogs!Layout
  BY DEF Stacked
<1>3. N = { k \in KnownOf(L) : L[k].of = p }
  <2>1. N = { k \in DOMAIN L : L[k].of = p /\ L[k].newest }
    BY DEF Dialogs!Newest
  <2>2. \A k \in DOMAIN L : L[k].newest => ~L[k].dead
    BY DEF Stacked
  <2> QED BY <2>1, <2>2 DEF KnownOf
<1>4. \A k, l \in N : k = l
  <2> SUFFICES ASSUME NEW k \in N, NEW l \in N
               PROVE  k = l
    OBVIOUS
  <2>1. ~(k < l) /\ ~(l < k)
    BY <1>1, <1>3 DEF Stacked
  <2> QED BY <1>2, <1>3, <2>1 DEF KnownOf
<1>5. /\ H \in Seq(Dialogs!Layout)
      /\ \E f \in [DOMAIN H -> DOMAIN L] :
           /\ \A k \in DOMAIN H : H[k] = L[f[k]] /\ f[k] \notin N
           /\ \A k, l \in DOMAIN H : k < l <=> f[k] < f[l]
           /\ \A j \in DOMAIN L \ N : \E k \in DOMAIN H : f[k] = j
  <2>1. L \in Seq(Dialogs!Layout)
    BY <1>2
  <2>2. \A k, l \in Dialogs!Newest(s, p) : k = l
    BY <1>4
  <2> HIDE DEF p
  <2> QED BY <2>1, <2>2, KeptOK
<1>6. PICK f \in [DOMAIN H -> DOMAIN L] :
           /\ \A k \in DOMAIN H : H[k] = L[f[k]] /\ f[k] \notin N
           /\ \A k, l \in DOMAIN H : k < l <=> f[k] < f[l]
           /\ \A j \in DOMAIN L \ N : \E k \in DOMAIN H : f[k] = j
  BY <1>5
<1>7. /\ M \in Seq(Dialogs!Layout) /\ DOMAIN M = DOMAIN H
      /\ \A k \in DOMAIN H : /\ M[k].of = H[k].of /\ M[k].newest = H[k].newest
                             /\ M[k].dead <=> H[k].of = p \/ H[k].dead
  <2>1. H \in Seq(Dialogs!Layout)
    BY <1>5
  <2> HIDE DEF H, p, N, J, W
  <2> QED BY <2>1, MarkedOK
<1>8. /\ DOMAIN W \subseteq Int
      /\ \A i \in DOMAIN W : Past(n, i) \in DOMAIN V \ {n} /\ W[i] = V[Past(n, i)]
  BY <1>1, RemoveAtOK
<1>9. J[p] = Dialogs!None /\ \A q \in Popups : q # p => J[q] = K[q]
  BY <1>1
<1> HIDE DEF J, W, H, M, N, p
<1>10. ASSUME NEW k \in KnownOf(M)
       PROVE  /\ k \in DOMAIN H /\ f[k] \in KnownOf(L) /\ M[k].of = L[f[k]].of
              /\ M[k].of # p
  <2>1. k \in DOMAIN H /\ M[k].newest /\ ~M[k].dead
    BY <1>7 DEF KnownOf
  <2>2. M[k].of = H[k].of /\ H[k].newest /\ H[k].of # p /\ ~H[k].dead
    BY <1>7, <2>1
  <2>3. H[k] = L[f[k]] /\ f[k] \in DOMAIN L
    BY <1>6, <2>1
  <2> QED BY <2>1, <2>2, <2>3 DEF KnownOf
<1>11. ASSUME NEW j \in KnownOf(L), L[j].of # p
       PROVE  \E k \in KnownOf(M) : M[k].of = L[j].of
  <2>1. j \in DOMAIN L \ N
    BY <1>3, <1>11 DEF KnownOf
  <2>2. PICK k \in DOMAIN H : f[k] = j
    BY <1>6, <2>1
  <2>3. H[k] = L[j] /\ L[j].newest /\ ~L[j].dead
    BY <1>6, <2>2 DEF KnownOf
  <2>4. k \in DOMAIN M /\ M[k].newest /\ ~M[k].dead /\ M[k].of = L[j].of
    BY <1>7, <1>11, <2>3
  <2> QED BY <2>4 DEF KnownOf
<1>12. Covers(J, M)
  <2>1. WithLayout(J) = WithLayout(K) \ {p}
    BY <1>9 DEF WithLayout
  <2>2. { M[k].of : k \in KnownOf(M) } = { L[k].of : k \in KnownOf(L) } \ {p}
    BY <1>10, <1>11
  <2> QED BY <2>1, <2>2 DEF Covers
<1>13. ASSUME NEW k \in DOMAIN M
       PROVE  /\ M[k].dead <=> J[M[k].of] = Dialogs!None
              /\ M[k].newest => ~M[k].dead
  <2>1. f[k] \in DOMAIN L /\ H[k] = L[f[k]] /\ f[k] \notin N /\ k \in DOMAIN H
    BY <1>6, <1>7
  <2>2. /\ L[f[k]].dead <=> K[L[f[k]].of] = Dialogs!None
        /\ L[f[k]].newest => ~L[f[k]].dead
    BY <2>1 DEF Stacked
  <2>3. L[f[k]] \in Dialogs!Layout /\ L[f[k]].of \in Popups
    BY <1>2, <2>1 DEF Dialogs!Layout
  <2>4. CASE L[f[k]].of = p
    <3>1. ~L[f[k]].newest
      BY <1>3, <2>1, <2>2, <2>4 DEF KnownOf
    <3> QED BY <1>7, <1>9, <2>1, <2>4, <3>1
  <2>5. CASE L[f[k]].of # p
    <3>1. /\ M[k].of = L[f[k]].of /\ (M[k].dead <=> L[f[k]].dead)
          /\ M[k].newest = L[f[k]].newest
      BY <1>7, <2>1, <2>5
    <3>2. J[L[f[k]].of] = K[L[f[k]].of]
      BY <1>9, <2>3, <2>5
    <3> QED BY <2>2, <3>1, <3>2
  <2> QED BY <2>4, <2>5
<1>14. ASSUME NEW k \in KnownOf(M), NEW l \in KnownOf(M), NEW i \in DOMAIN W, NEW j \in DOMAIN W,
              M[k].of = W[i], M[l].of = W[j]
       PROVE  k < l <=> i < j
  <2>1. f[k] \in KnownOf(L) /\ f[l] \in KnownOf(L) /\ (k < l <=> f[k] < f[l])
    BY <1>6, <1>10
  <2>2. /\ Past(n, i) \in DOMAIN V /\ Past(n, j) \in DOMAIN V
        /\ L[f[k]].of = V[Past(n, i)] /\ L[f[l]].of = V[Past(n, j)]
    BY <1>8, <1>10, <1>14
  <2>3. f[k] < f[l] <=> Past(n, i) < Past(n, j)
    BY <2>1, <2>2 DEF Stacked
  <2>4. Past(n, i) < Past(n, j) <=> i < j
    BY <1>1, <1>8 DEF Past
  <2> QED BY <2>1, <2>3, <2>4
<1>15. Stacked(J, W, M)
  BY <1>7, <1>13, <1>14 DEF Stacked
<1> QED BY <1>12, <1>15 DEF J, W, M, H, p

(* What createLayout, show and the destructor make of such a record.       *)
LEMMA CreateOK ==
    ASSUME NEW K, NEW V, NEW L, NEW P, NEW p,
           NEW s, s = [kind |-> K, vector |-> V, layouts |-> L, part |-> P]
    PROVE  Dialogs!CreateLayout(s, p) =
             [kind |-> K, vector |-> V, layouts |-> NewTop(L, p), part |-> P]
<1>1. s.kind = K /\ s.vector = V /\ s.layouts = L /\ s.part = P
  OBVIOUS
<1>2. Dialogs!CreateLayout(s, p) = [s EXCEPT !.layouts = NewTop(s.layouts, p)]
  BY DEF Dialogs!CreateLayout, NewTop
<1> QED BY <1>1, <1>2, ScreenExcept

LEMMA PushOK ==
    ASSUME NEW K, NEW V, NEW L, NEW P, NEW p,
           NEW s, s = [kind |-> K, vector |-> V, layouts |-> L, part |-> P]
    PROVE  [s EXCEPT !.vector = Append(@, p)] =
             [kind |-> K, vector |-> Append(V, p), layouts |-> L, part |-> P]
<1> DEFINE W == Append(V, p)
<1>1. [s EXCEPT !.vector = Append(@, p)] = [s EXCEPT !.vector = W]
  OBVIOUS
<1> HIDE DEF W
<1>2. s.kind = K /\ s.vector = V /\ s.layouts = L /\ s.part = P
  OBVIOUS
<1>3. [s EXCEPT !.vector = W] = [kind |-> K, vector |-> W, layouts |-> L, part |-> P]
  BY <1>2, ScreenExcept
<1> QED BY <1>1, <1>3 DEF W

LEMMA DeletedOK ==
    ASSUME NEW s, NEW p, NEW n,
           s = [kind |-> s.kind, vector |-> s.vector, layouts |-> s.layouts, part |-> s.part]
    PROVE  [Dialogs!Deleted(s, p) EXCEPT !.vector = Dialogs!RemoveAt(@, n)] =
             [kind |-> [s.kind EXCEPT ![p] = Dialogs!None],
              vector |-> Dialogs!RemoveAt(s.vector, n),
              layouts |-> Marked(Dialogs!Kept(s, p), p), part |-> s.part \ {p}]
<1> DEFINE J == [s.kind EXCEPT ![p] = Dialogs!None]
           M == Marked(Dialogs!Kept(s, p), p)
           W == Dialogs!RemoveAt(s.vector, n)
           d == Dialogs!Deleted(s, p)
<1>1. d = [s EXCEPT !.kind = J, !.part = s.part \ {p}, !.layouts = M]
  BY DEF Dialogs!Deleted, Marked
<1> HIDE DEF J, M, d
<1>2. d = [kind |-> J, vector |-> s.vector, layouts |-> M, part |-> s.part \ {p}]
  BY <1>1
<1>3. [d EXCEPT !.vector = Dialogs!RemoveAt(@, n)] = [d EXCEPT !.vector = W]
  BY <1>2
<1> HIDE DEF W
<1>4. d.kind = J /\ d.layouts = M /\ d.part = s.part \ {p} /\ d.vector = s.vector
  BY <1>2
<1>5. [d EXCEPT !.vector = W] = [kind |-> J, vector |-> W, layouts |-> M, part |-> s.part \ {p}]
  BY <1>2, <1>4, ScreenExcept
<1> QED BY <1>3, <1>5 DEF J, M, W, d

(* DismissPopup, and what the last popup of the vector does when it is     *)
(* shown again: the vector is the same, and its layout is a new one.       *)
LEMMA ShowLastOK ==
    ASSUME NEW s, GoodScreen(s)
    PROVE  GoodScreen(Dialogs!ShowLast(s))
<1> DEFINE V == s.vector
           p == V[Len(V)]
           r == [s EXCEPT !.vector = Dialogs!Front(V)]
           t == Dialogs!ShowLast(s)
<1>1. /\ s = [kind |-> s.kind, vector |-> V, layouts |-> s.layouts, part |-> s.part]
      /\ Listed(s.kind, V) /\ Stacked(s.kind, V, s.layouts) /\ Covers(s.kind, s.layouts)
      /\ s.part \subseteq { q \in Popups : s.kind[q] = "content" }
  BY DEF GoodScreen
<1>2. CASE V = <<>>
  BY <1>2 DEF Dialogs!ShowLast
<1>3. CASE V # <<>>
  <2>1. /\ V \in Seq(Popups) /\ Len(V) \in Nat \ {0} /\ Len(V) \in DOMAIN V
        /\ p \in Popups /\ s.kind[p] # Dialogs!None
    BY <1>1, <1>3 DEF Listed, Mades
  <2>2. Append(Dialogs!Front(V), p) = V
    <3>1. /\ Dialogs!Front(V) \in Seq(Popups) /\ Len(Dialogs!Front(V)) = Len(V) - 1
          /\ \A i \in 1 .. Len(V) - 1 : Dialogs!Front(V)[i] = V[i]
      BY <2>1 DEF Dialogs!Front
    <3> DEFINE u == Dialogs!Front(V)
    <3> HIDE DEF u
    <3>2. /\ Append(u, p) \in Seq(Popups) /\ Len(Append(u, p)) = Len(V)
          /\ \A i \in 1 .. Len(V) - 1 : Append(u, p)[i] = V[i]
          /\ Append(u, p)[Len(V)] = p
      BY <2>1, <3>1 DEF u
    <3>3. \A i \in 1 .. Len(V) : Append(u, p)[i] = V[i]
      BY <2>1, <3>2
    <3> QED BY <2>1, <3>2, <3>3, SeqEqual DEF u
  <2>3. t = Dialogs!Show(r, p)
    BY <1>3 DEF Dialogs!ShowLast, Dialogs!Last
  <2>4. r = [kind |-> s.kind, vector |-> Dialogs!Front(V), layouts |-> s.layouts, part |-> s.part]
    BY <1>1
  <2>5. CASE s.kind[p] \in Dialogs!Remade
    <3>1. Dialogs!CreateLayout(r, p) =
            [kind |-> s.kind, vector |-> Dialogs!Front(V), layouts |-> NewTop(s.layouts, p),
             part |-> s.part]
      BY <2>4, CreateOK
    <3>2. t = [kind |-> s.kind, vector |-> V, layouts |-> NewTop(s.layouts, p), part |-> s.part]
      <4> DEFINE c == Dialogs!CreateLayout(r, p)
      <4>1. t = [c EXCEPT !.vector = Append(@, p)]
        BY <2>3, <2>4, <2>5 DEF Dialogs!Show
      <4>2. c = [kind |-> s.kind, vector |-> Dialogs!Front(V), layouts |-> NewTop(s.layouts, p),
                 part |-> s.part]
        BY <3>1
      <4> HIDE DEF c, t
      <4> QED BY <2>2, <4>1, <4>2, PushOK
    <3>3. p \in WithLayout(s.kind) /\ s.kind[p] # "content"
      BY <2>1, <2>5 DEF WithLayout, Dialogs!Remade, Dialogs!None
    <3>4. { s.layouts[k].of : k \in KnownOf(s.layouts) } \cup {p} = WithLayout(s.kind)
      BY <1>1, <3>3 DEF Covers
    <3>5. Stacked(s.kind, V, NewTop(s.layouts, p)) /\ Covers(s.kind, NewTop(s.layouts, p))
      BY <1>1, <1>3, <3>3, <3>4, NewTopOK
    <3> QED BY <1>1, <3>2, <3>5 DEF GoodScreen
  <2>6. CASE s.kind[p] \notin Dialogs!Remade
    <3>1. t = [kind |-> s.kind, vector |-> V, layouts |-> s.layouts, part |-> s.part]
      <4>1. t = [r EXCEPT !.vector = Append(@, p)]
        BY <2>3, <2>4, <2>6 DEF Dialogs!Show
      <4> QED BY <2>2, <2>4, <4>1, PushOK
    <3> QED BY <1>1, <3>1
  <2> QED BY <2>5, <2>6
<1> QED BY <1>2, <1>3

LEMMA DismissOK ==
    ASSUME NEW s, GoodScreen(s), NEW p
    PROVE  GoodScreen(Dialogs!DismissPopup(s, p))
<1> DEFINE V == s.vector
           n == Dialogs!Found(s, p)
           J == [s.kind EXCEPT ![p] = Dialogs!None]
           W == Dialogs!RemoveAt(V, n)
           M == Marked(Dialogs!Kept(s, p), p)
           t == [Dialogs!Deleted(s, p) EXCEPT !.vector = Dialogs!RemoveAt(@, n)]
<1>1. /\ s = [kind |-> s.kind, vector |-> V, layouts |-> s.layouts, part |-> s.part]
      /\ Listed(s.kind, V) /\ Stacked(s.kind, V, s.layouts) /\ Covers(s.kind, s.layouts)
      /\ s.part \subseteq { q \in Popups : s.kind[q] = "content" }
  BY DEF GoodScreen
<1>2. CASE ~Dialogs!Contains(V, p)
  BY <1>2 DEF Dialogs!DismissPopup
<1>3. CASE Dialogs!Contains(V, p)
  <2>1. DOMAIN V = 1 .. Len(V) /\ Len(V) \in Nat
    BY <1>1 DEF Listed
  <2>2. PICK m \in DOMAIN V : V[m] = p
    BY <1>3, <2>1 DEF Dialogs!Contains
  <2>3. \A j \in DOMAIN V : V[j] = p => j <= m
    BY <1>1, <2>1, <2>2 DEF Listed
  <2>4. n \in DOMAIN V /\ V[n] = p
    BY <2>2, <2>3 DEF Dialogs!Found
  <2> HIDE DEF n
  <2>5. t = [kind |-> J, vector |-> W, layouts |-> M, part |-> s.part \ {p}]
    BY <1>1, DeletedOK
  <2>6. Listed(J, W)
    BY <1>1, <2>4, RemovedListed
  <2>7. Stacked(J, W, M) /\ Covers(J, M)
    BY <1>1, <2>4, RemovedStacked
  <2>8. s.part \ {p} \subseteq { q \in Popups : J[q] = "content" }
    BY <1>1 DEF Listed
  <2> HIDE DEF J, W, M
  <2>9. GoodScreen(t)
    BY <2>5, <2>6, <2>7, <2>8 DEF GoodScreen
  <2>10. Dialogs!DismissPopup(s, p) = Dialogs!ShowLast(t)
    BY <1>3 DEF Dialogs!DismissPopup, n
  <2> QED BY <2>9, <2>10, ShowLastOK
<1> QED BY <1>2, <1>3

LEMMA MadeOK ==
    ASSUME NEW s, GoodScreen(s), NEW p \in Popups, s.kind[p] = Dialogs!None,
           \A i \in DOMAIN s.layouts : s.layouts[i].of # p, NEW k \in Dialogs!Kinds
    PROVE  GoodScreen(Dialogs!Made(s, p, k))
<1> DEFINE K == s.kind
           V == s.vector
           L == s.layouts
           J == [K EXCEPT ![p] = k]
           W == Append(V, p)
           new == [s EXCEPT !.kind[p] = k]
           t == Dialogs!Made(s, p, k)
<1>1. /\ s = [kind |-> K, vector |-> V, layouts |-> L, part |-> s.part]
      /\ Listed(K, V) /\ Stacked(K, V, L) /\ Covers(K, L)
      /\ s.part \subseteq { q \in Popups : K[q] = "content" }
  BY DEF GoodScreen
<1>2. /\ V \in Seq(Popups) /\ Len(V) \in Nat /\ DOMAIN V = 1 .. Len(V)
      /\ \A i \in DOMAIN V : V[i] # p
  BY <1>1 DEF Listed, Mades
<1>3. /\ W \in Seq(Popups) /\ Len(W) = Len(V) + 1 /\ W # <<>> /\ W[Len(W)] = p
      /\ DOMAIN W = 1 .. Len(V) + 1 /\ \A i \in DOMAIN V : W[i] = V[i] /\ i \in DOMAIN W
      /\ \A i \in DOMAIN W : i = Len(V) + 1 \/ i \in DOMAIN V
  BY <1>2
<1>4. k # Dialogs!None /\ k \in {"text", "input", "radio", "content"}
  BY DEF Dialogs!Kinds, Dialogs!None
<1>5. /\ J \in [Popups -> Dialogs!Kinds \cup {Dialogs!None}] /\ J[p] = k
      /\ \A q \in Popups : q # p => J[q] = K[q]
      /\ Mades(J) = Mades(K) \cup {p}
  BY <1>1, <1>4 DEF Listed, Mades
<1>6. new = [kind |-> J, vector |-> V, layouts |-> L, part |-> s.part]
  BY <1>1
<1> HIDE DEF W, J, new
<1>7. Listed(J, W)
  <2>1. \A i, j \in DOMAIN W : W[i] = W[j] => i = j
    BY <1>1, <1>2, <1>3 DEF Listed
  <2>2. { W[i] : i \in DOMAIN W } = { V[i] : i \in DOMAIN V } \cup {p}
    BY <1>2, <1>3
  <2> QED BY <1>1, <1>3, <1>5, <2>1, <2>2 DEF Listed
<1>8. Stacked(J, W, L)
  <2>1. L \in Seq(Dialogs!Layout) /\ \A i \in DOMAIN L : L[i] \in Dialogs!Layout
    BY <1>1 DEF Stacked
  <2>2. \A i \in DOMAIN L : J[L[i].of] = K[L[i].of]
    BY <1>5, <2>1 DEF Dialogs!Layout
  <2>3. \A i \in DOMAIN L, j \in DOMAIN W : L[i].of = W[j] => j \in DOMAIN V /\ L[i].of = V[j]
    BY <1>2, <1>3
  <2>4. KnownOf(L) \subseteq DOMAIN L
    BY DEF KnownOf
  <2>5. \A a, b \in KnownOf(L) : \A i, j \in DOMAIN W :
          L[a].of = W[i] /\ L[b].of = W[j] => (a < b <=> i < j)
    BY <1>1, <2>3, <2>4 DEF Stacked
  <2> QED BY <1>1, <2>1, <2>2, <2>5 DEF Stacked
<1>9. CASE k = "content"
  <2>1. t = [kind |-> J, vector |-> W, layouts |-> L, part |-> {p}]
    <3>1. t = Dialogs!Show([new EXCEPT !.part = {p}], p)
      BY <1>9 DEF Dialogs!Made, new
    <3>2. [new EXCEPT !.part = {p}] = [kind |-> J, vector |-> V, layouts |-> L, part |-> {p}]
      BY <1>6
    <3>3. J[p] \notin Dialogs!Remade
      BY <1>5, <1>9 DEF Dialogs!Remade
    <3>4. t = [[new EXCEPT !.part = {p}] EXCEPT !.vector = Append(@, p)]
      BY <3>1, <3>2, <3>3 DEF Dialogs!Show
    <3> QED BY <3>2, <3>4, PushOK DEF W
  <2>2. WithLayout(J) = WithLayout(K)
    BY <1>5, <1>9 DEF WithLayout
  <2>3. Covers(J, L)
    BY <1>1, <2>2 DEF Covers
  <2>4. {p} \subseteq { q \in Popups : J[q] = "content" }
    BY <1>5, <1>9
  <2> QED BY <1>7, <1>8, <2>1, <2>3, <2>4 DEF GoodScreen
<1>10. CASE k # "content"
  <2>1. Dialogs!CreateLayout(new, p) =
          [kind |-> J, vector |-> V, layouts |-> NewTop(L, p), part |-> s.part]
    BY <1>6, CreateOK
  <2>2. t = [kind |-> J, vector |-> W, layouts |-> NewTop(L, p), part |-> s.part]
    <3>1. CASE k = "radio"
      <4>1. t = Dialogs!Show(Dialogs!CreateLayout(new, p), p)
        BY <3>1 DEF Dialogs!Made, new
      <4>2. J[p] \notin Dialogs!Remade
        BY <1>5, <3>1 DEF Dialogs!Remade
      <4> DEFINE c == Dialogs!CreateLayout(new, p)
      <4>3. t = [c EXCEPT !.vector = Append(@, p)]
        BY <2>1, <4>1, <4>2 DEF Dialogs!Show
      <4>4. c = [kind |-> J, vector |-> V, layouts |-> NewTop(L, p), part |-> s.part]
        BY <2>1
      <4> HIDE DEF c, t
      <4> QED BY <4>3, <4>4, PushOK DEF W
    <3>2. CASE k # "radio"
      <4>1. t = Dialogs!Show(new, p)
        BY <1>10, <3>2 DEF Dialogs!Made, new
      <4>2. J[p] \in Dialogs!Remade
        BY <1>4, <1>5, <1>10, <3>2 DEF Dialogs!Remade
      <4> DEFINE c == Dialogs!CreateLayout(new, p)
      <4>3. t = [c EXCEPT !.vector = Append(@, p)]
        BY <1>6, <4>1, <4>2 DEF Dialogs!Show
      <4>4. c = [kind |-> J, vector |-> V, layouts |-> NewTop(L, p), part |-> s.part]
        BY <2>1
      <4> HIDE DEF c, t
      <4> QED BY <4>3, <4>4, PushOK DEF W
    <3> QED BY <3>1, <3>2
  <2>3. WithLayout(J) = WithLayout(K) \cup {p}
    BY <1>4, <1>5, <1>10 DEF WithLayout
  <2>4. { L[i].of : i \in KnownOf(L) } \cup {p} = WithLayout(J)
    BY <1>1, <2>3 DEF Covers
  <2>5. Stacked(J, W, NewTop(L, p)) /\ Covers(J, NewTop(L, p))
    BY <1>3, <1>5, <1>7, <1>8, <1>10, <2>4, NewTopOK
  <2>6. s.part \subseteq { q \in Popups : J[q] = "content" }
    <3>1. p \notin s.part
      BY <1>1 DEF Dialogs!None
    <3> QED BY <1>1, <1>5, <3>1
  <2> QED BY <1>7, <2>2, <2>5, <2>6 DEF GoodScreen
<1> QED BY <1>9, <1>10

LEMMA BecomesOK ==
    ASSUME NEW s, GoodScreen(s), Dialogs!Becomes(s)
    PROVE  GoodScreen(Dialogs!Screen)'
<1>1. s = [kind |-> s.kind, vector |-> s.vector, layouts |-> s.layouts, part |-> s.part]
  BY DEF GoodScreen
<1>2. kind' = s.kind /\ vector' = s.vector /\ layouts' = s.layouts /\ part' = s.part
  BY DEF Dialogs!Becomes
<1>3. Dialogs!Screen' = s
  BY <1>1, <1>2 DEF Dialogs!Screen
<1>4. GoodScreen(Dialogs!Screen')
  BY <1>3
<1> QED BY <1>4 DEF GoodScreen

LEMMA NothingOK == GoodScreen(Dialogs!Nothing)
<1> DEFINE K == [p \in Popups |-> Dialogs!None]
<1>1. Dialogs!Nothing = [kind |-> K, vector |-> <<>>, layouts |-> <<>>, part |-> {}]
  BY DEF Dialogs!Nothing
<1>2. <<>> \in Seq(Popups) /\ <<>> \in Seq(Dialogs!Layout) /\ DOMAIN <<>> = {}
  OBVIOUS
<1>3. Mades(K) = {} /\ WithLayout(K) = {} /\ KnownOf(<<>>) = {}
  BY <1>2 DEF Mades, WithLayout, KnownOf
<1>4. Listed(K, <<>>)
  BY <1>2, <1>3 DEF Listed
<1>5. Stacked(K, <<>>, <<>>) /\ Covers(K, <<>>)
  BY <1>2, <1>3 DEF Stacked, Covers
<1> QED BY <1>1, <1>4, <1>5 DEF GoodScreen

LEMMA DialogsInvInit == Dialogs!Init => DialogsInv
<1> SUFFICES ASSUME Dialogs!Init PROVE DialogsInv
  OBVIOUS
<1>1. Dialogs!Screen = Dialogs!Nothing
  BY DEF Dialogs!Init, Dialogs!Screen, Dialogs!Nothing
<1> QED BY <1>1, NothingOK DEF DialogsInv, Dialogs!Init

LEMMA DialogsInvNext ==
    ASSUME DialogsInv, [Dialogs!Next]_(Dialogs!vars)
    PROVE  DialogsInv'
<1>1. GoodScreen(Dialogs!Screen) /\ notice \in 0..1
  BY DEF DialogsInv
<1>2. ASSUME NEW p \in Dialogs!Fresh, NEW k \in Dialogs!Kinds
      PROVE  GoodScreen(Dialogs!Made(Dialogs!Screen, p, k))
  <2>1. /\ p \in Popups /\ kind[p] = Dialogs!None
        /\ \A i \in DOMAIN layouts : layouts[i].of # p
    BY DEF Dialogs!Fresh, Dialogs!Free
  <2> QED BY <1>1, <2>1, MadeOK DEF Dialogs!Screen
<1>3. ASSUME NEW k \in Dialogs!Kinds, Dialogs!CreatePopup(k)
      PROVE  DialogsInv'
  BY <1>1, <1>2, <1>3, BecomesOK DEF Dialogs!CreatePopup, DialogsInv
<1>4. ASSUME NEW d \in BOOLEAN, Dialogs!ButtonClicked(d)
      PROVE  DialogsInv'
  <2>1. PICK slot \in Dialogs!Slot(kind[Dialogs!TopLayout.of]) :
          Dialogs!Becomes(IF d THEN Dialogs!DismissPopup(slot, Dialogs!TopLayout.of) ELSE slot)
    BY <1>4 DEF Dialogs!ButtonClicked
  <2>2. \A k : Dialogs!Opened(k) \subseteq Dialogs!Kinds
    BY DEF Dialogs!Opened, Dialogs!Kinds
  <2>3. GoodScreen(slot)
    BY <1>1, <1>2, <2>2 DEF Dialogs!Slot
  <2>4. GoodScreen(IF d THEN Dialogs!DismissPopup(slot, Dialogs!TopLayout.of) ELSE slot)
    BY <2>3, DismissOK
  <2>5. notice' = notice
    BY <1>4 DEF Dialogs!ButtonClicked
  <2> QED BY <1>1, <2>1, <2>4, <2>5, BecomesOK DEF DialogsInv
<1>5. CASE Dialogs!ContentClicked
  BY <1>1, <1>5, DismissOK, BecomesOK DEF Dialogs!ContentClicked, DialogsInv
<1>6. CASE Dialogs!OnBackPressed
  BY <1>1, <1>6, DismissOK, BecomesOK DEF Dialogs!OnBackPressed, DialogsInv
<1>7. CASE Dialogs!StaleLayoutClicked
  BY <1>7, NothingOK, BecomesOK DEF Dialogs!StaleLayoutClicked, DialogsInv
<1>8. CASE Dialogs!NotificationShown \/ Dialogs!HideCb \/ UNCHANGED Dialogs!vars
  <2>1. UNCHANGED <<kind, vector, layouts>> /\ part' \subseteq part /\ notice' \in 0..1
    BY <1>1, <1>8 DEF Dialogs!NotificationShown, Dialogs!HideCb, Dialogs!vars
  <2> QED BY <1>1, <2>1 DEF DialogsInv, GoodScreen, Dialogs!Screen
<1> QED BY <1>3, <1>4, <1>5, <1>6, <1>7, <1>8 DEF Dialogs!Next

-----------------------------------------------------------------------------
(***************************************************************************)
(* The password workflow, for all texts and every hash function, with      *)
(* collisions or without.                                                  *)
(***************************************************************************)

LEMMA TextsOK == Acceptable \subseteq Texts /\ Blank \in Texts \ Acceptable
  BY ServicesAssumption DEF ServicesAssumption, Password!TextAssumption

LEMMA HashOK == Hash \in [Texts -> Hashes] /\ NoPassword \notin Hashes
  BY ServicesAssumption DEF ServicesAssumption, Password!HashAssumption

(* The view asks for a new password. *)
Creating == /\ view = "passwordUI"
            /\ state \in {"CreatePassword", "ConfirmCreatePassword"}

(* The view asks for the stored password. *)
Asking == /\ view = "passwordUI"
          /\ state \in {"ConfirmPassword", "IncorrectPassword"}

(* Whatever leads to the first decision is on screen only before it. *)
DecisionOpen ==
    (\/ tabState = "PASSWORD_DECISION" \/ warning \/ writing # "none"
     \/ Creating /\ action = "CreatePasswordFirstTime") => ~decided /\ ~secret

(* What the action remembered by the view implies. *)
ActionFits ==
    /\ Creating /\ action = "UsePassword" => password = NoPassword
    /\ Creating => action # "ConfirmPasswordEnterSecret"
    /\ Asking => action # "CreatePasswordFirstTime"
    /\ Asking /\ action = "ConfirmPasswordEnterSecret" => decided /\ ~secret

(* The password view is never below the warning, and not yet there before  *)
(* the browser runs; the warning is gone when its handler runs.            *)
ViewFits ==
    /\ ~running \/ warning \/ writing = "noPassword" => view # "passwordUI"
    /\ writing # "none" => ~warning

HashOfAcceptable(h) == \E text \in Acceptable : Hash[text] = h

(* A new password that was typed once is acceptable. *)
UnconfirmedAcceptable ==
    view = "passwordUI" /\ state = "ConfirmCreatePassword"
        => HashOfAcceptable(unconfirmed)

PasswordInv ==
    /\ Password!TypeOK
    /\ Password!ButtonTellsMode
    /\ Password!SecretIsDecided
    /\ Password!StoredIsAcceptable
    /\ DecisionOpen
    /\ ActionFits
    /\ ViewFits
    /\ UnconfirmedAcceptable

(* The handlers of the tab manager, of the password view, and the rest. *)
LifeNext == Password!StartBrowser \/ Password!Terminate \/ Password!ShowTabUI
            \/ Password!LeaveTabUI \/ Password!ClosePasswordUI
TabNext == Password!EnableSecret \/ Password!DisableSecret \/ Password!SecretModeMenu
           \/ Password!CreatePasswordFirstTime
DecisionNext == Password!ShowNoPasswordWarning \/ Password!SwitchToSecretFirstTime
                \/ Password!DismissWarning \/ Password!Decide
-----------------------------------------------------------------------------
LEMMA PasswordInvInit == ASSUME Password!Init PROVE PasswordInv
  BY TextsOK, HashOK
     DEF Password!Init, PasswordInv, Password!TypeOK, Password!States,
        Password!ButtonTellsMode, Password!SecretIsDecided,
        Password!StoredIsAcceptable, DecisionOpen, ActionFits, UnconfirmedAcceptable,
        ViewFits, Creating, Asking

LEMMA StepTypes ==
    ASSUME PasswordInv, [Password!Next]_(Password!vars)
    PROVE  Password!TypeOK'
<1> USE TextsOK, HashOK
       DEF PasswordInv, Password!TypeOK, Password!States, Password!Actions,
          Password!settings, Password!dialogue, Password!Touchable, Password!Refetch,
          Password!ChangeState, Password!ShowPasswordUI
<1>1. CASE LifeNext
  <2>1. CASE Password!StartBrowser
    BY <2>1 DEF Password!StartBrowser
  <2>2. CASE Password!Terminate
    BY <2>2 DEF Password!Terminate
  <2>3. CASE Password!ShowTabUI \/ Password!LeaveTabUI \/ Password!ClosePasswordUI
    BY <2>3 DEF Password!ShowTabUI, Password!LeaveTabUI, Password!ClosePasswordUI
  <2> QED BY <1>1, <2>1, <2>2, <2>3 DEF LifeNext
<1>2. CASE TabNext
  BY <1>2
     DEF TabNext, Password!EnableSecret, Password!DisableSecret,
        Password!SecretModeMenu, Password!CreatePasswordFirstTime
<1>3. CASE DecisionNext
  <2>1. CASE Password!ShowNoPasswordWarning
    BY <2>1 DEF Password!ShowNoPasswordWarning
  <2>2. CASE Password!DismissWarning
    <3>1. warning' \in BOOLEAN
      BY <2>2 DEF Password!DismissWarning
    <3>2. UNCHANGED <<password, decided, running, secret, view, tabState, state,
                      action, unconfirmed, typed, writing>>
      BY <2>2 DEF Password!DismissWarning
    <3> QED BY <3>1, <3>2
  <2>3. CASE Password!SwitchToSecretFirstTime
    <3>1. /\ warning' \in BOOLEAN
          /\ password' = NoPassword
          /\ writing' = "noPassword"
      BY <2>3 DEF Password!SwitchToSecretFirstTime
    <3>2. UNCHANGED <<decided, running, secret, view, tabState, state, action,
                      unconfirmed, typed>>
      BY <2>3 DEF Password!SwitchToSecretFirstTime
    <3> QED BY <3>1, <3>2
  <2>4. CASE Password!Decide
    BY <2>4 DEF Password!Decide
  <2> QED BY <1>3, <2>1, <2>2, <2>3, <2>4 DEF DecisionNext
<1>4. CASE Password!UsePassword \/ Password!ChangePassword
           \/ \E text \in Texts : Password!Type(text)
  BY <1>4 DEF Password!UsePassword, Password!ChangePassword, Password!Type
<1>5. CASE Password!ConfirmPassword \/ Password!RejectPassword
  BY <1>5 DEF Password!ConfirmPassword, Password!RejectPassword, Password!Asked
<1>6. CASE Password!CreatePassword \/ Password!ConfirmCreatePassword
  BY <1>6 DEF Password!CreatePassword, Password!ConfirmCreatePassword
<1>7. CASE UNCHANGED Password!vars
  BY <1>7 DEF Password!vars
<1> QED
  BY <1>1, <1>2, <1>3, <1>4, <1>5, <1>6, <1>7
     DEF Password!Next, LifeNext, TabNext, DecisionNext

(* The state of the tab manager, the mode and the decision move together. *)
LEMMA StepModes ==
    ASSUME PasswordInv, [Password!Next]_(Password!vars)
    PROVE  /\ Password!ButtonTellsMode' /\ Password!SecretIsDecided'
           /\ DecisionOpen' /\ ActionFits' /\ ViewFits'
<1> USE HashOK
       DEF PasswordInv, Password!TypeOK, Password!States, Password!Actions,
          Password!settings, Password!dialogue, Password!Touchable, Password!Refetch,
          Password!ChangeState, Password!ShowPasswordUI, Password!ButtonTellsMode,
          Password!SecretIsDecided, DecisionOpen, ActionFits, ViewFits, Creating,
          Asking
<1>1. CASE LifeNext
  <2>1. CASE Password!StartBrowser
    BY <2>1 DEF Password!StartBrowser
  <2>2. CASE Password!Terminate
    BY <2>2 DEF Password!Terminate
  <2>3. CASE Password!ShowTabUI \/ Password!LeaveTabUI \/ Password!ClosePasswordUI
    BY <2>3 DEF Password!ShowTabUI, Password!LeaveTabUI, Password!ClosePasswordUI
  <2> QED BY <1>1, <2>1, <2>2, <2>3 DEF LifeNext
<1>2. CASE TabNext
  BY <1>2
     DEF TabNext, Password!EnableSecret, Password!DisableSecret,
        Password!SecretModeMenu, Password!CreatePasswordFirstTime
<1>3. CASE DecisionNext
  <2>1. CASE Password!ShowNoPasswordWarning \/ Password!DismissWarning
    BY <2>1 DEF Password!ShowNoPasswordWarning, Password!DismissWarning
  <2>2. CASE Password!SwitchToSecretFirstTime
    BY <2>2 DEF Password!SwitchToSecretFirstTime
  <2>3. CASE Password!Decide
    BY <2>3 DEF Password!Decide
  <2> QED BY <1>3, <2>1, <2>2, <2>3 DEF DecisionNext
<1>4. CASE Password!UsePassword \/ Password!ChangePassword
           \/ \E text \in Texts : Password!Type(text)
  BY <1>4 DEF Password!UsePassword, Password!ChangePassword, Password!Type
<1>5. CASE Password!ConfirmPassword \/ Password!RejectPassword
  BY <1>5 DEF Password!ConfirmPassword, Password!RejectPassword, Password!Asked
<1>6. CASE Password!CreatePassword \/ Password!ConfirmCreatePassword
  BY <1>6 DEF Password!CreatePassword, Password!ConfirmCreatePassword
<1>7. CASE UNCHANGED Password!vars
  BY <1>7 DEF Password!vars
<1> QED
  BY <1>1, <1>2, <1>3, <1>4, <1>5, <1>6, <1>7
     DEF Password!Next, LifeNext, TabNext, DecisionNext

(* A hash is stored only after an acceptable text was typed. *)
LEMMA StepAcceptable ==
    ASSUME PasswordInv, [Password!Next]_(Password!vars)
    PROVE  Password!StoredIsAcceptable' /\ UnconfirmedAcceptable'
<1> USE
       DEF PasswordInv, Password!StoredIsAcceptable, UnconfirmedAcceptable,
          HashOfAcceptable, Password!settings, Password!dialogue, Password!Touchable,
          Password!ChangeState, Password!ShowPasswordUI
<1>1. CASE LifeNext
  BY <1>1
     DEF LifeNext, Password!StartBrowser, Password!Terminate, Password!ShowTabUI,
        Password!LeaveTabUI, Password!ClosePasswordUI
<1>2. CASE TabNext
  BY <1>2
     DEF TabNext, Password!EnableSecret, Password!DisableSecret,
        Password!SecretModeMenu, Password!CreatePasswordFirstTime
<1>3. CASE DecisionNext
  BY <1>3
     DEF DecisionNext, Password!ShowNoPasswordWarning,
        Password!SwitchToSecretFirstTime, Password!DismissWarning, Password!Decide
<1>4. CASE Password!UsePassword \/ Password!ChangePassword
           \/ \E text \in Texts : Password!Type(text)
  BY <1>4 DEF Password!UsePassword, Password!ChangePassword, Password!Type
<1>5. CASE Password!ConfirmPassword \/ Password!RejectPassword
  BY <1>5 DEF Password!ConfirmPassword, Password!RejectPassword, Password!Asked
<1>6. CASE Password!CreatePassword \/ Password!ConfirmCreatePassword
  BY <1>6 DEF Password!CreatePassword, Password!ConfirmCreatePassword
<1>7. CASE UNCHANGED Password!vars
  BY <1>7 DEF Password!vars
<1> QED
  BY <1>1, <1>2, <1>3, <1>4, <1>5, <1>6, <1>7
     DEF Password!Next, LifeNext, TabNext, DecisionNext

-----------------------------------------------------------------------------
(***************************************************************************)
(* The refinement: every step is a step of SecretGate or changes nothing   *)
(* that it knows of.                                                       *)
(***************************************************************************)

LEMMA GateInit == ASSUME Password!Init PROVE Password!Gate!Init
  BY TextsOK
     DEF Password!Init, Password!Gate!Init, Password!MayChange, Password!TypedOnce

(* A step that changes neither settings nor mode is talk. *)
LEMMA TalkSteps ==
    ASSUME PasswordInv, Password!TypeOK', UNCHANGED <<password, decided, secret>>,
           Password!MayChange' => Password!MayChange \/ Password!Gate!TypedRight,
           Password!TypedOnce' \in {Password!TypedOnce, NoPassword, Hash[typed]}
    PROVE  Password!Gate!Next
  BY DEF Password!Gate!Next, Password!Gate!Talk, Password!TypeOK

LEMMA GateStep ==
    ASSUME PasswordInv, [Password!Next]_(Password!vars)
    PROVE  [Password!Gate!Next]_(Password!Gate!vars)
<1> USE HashOK
<1>0. Password!TypeOK /\ Password!TypeOK'
  BY StepTypes DEF PasswordInv
<1> USE
       DEF Password!settings, Password!dialogue, Password!Touchable,
          Password!ChangeState, Password!ShowPasswordUI, Password!MayChange,
          Password!TypedOnce
<1>1. CASE Password!Terminate
  <2>1. Password!Gate!Leave
    BY <1>0, <1>1 DEF Password!Terminate, Password!Gate!Leave, Password!TypeOK
  <2> QED BY <2>1 DEF Password!Gate!Next
<1>2. CASE Password!StartBrowser \/ Password!ShowTabUI \/ Password!LeaveTabUI
           \/ Password!ClosePasswordUI \/ Password!SecretModeMenu
           \/ Password!CreatePasswordFirstTime \/ Password!ShowNoPasswordWarning
           \/ Password!DismissWarning \/ Password!UsePassword \/ Password!ChangePassword
  <2>1. UNCHANGED <<password, decided, secret>>
    BY <1>2
       DEF Password!StartBrowser, Password!ShowTabUI, Password!LeaveTabUI,
          Password!ClosePasswordUI, Password!SecretModeMenu,
          Password!CreatePasswordFirstTime, Password!ShowNoPasswordWarning,
          Password!DismissWarning, Password!UsePassword, Password!ChangePassword
  <2>2. Password!MayChange' => Password!MayChange
    BY <1>2
       DEF Password!StartBrowser, Password!ShowTabUI, Password!LeaveTabUI,
          Password!ClosePasswordUI, Password!SecretModeMenu,
          Password!CreatePasswordFirstTime, Password!ShowNoPasswordWarning,
          Password!DismissWarning, Password!UsePassword, Password!ChangePassword,
          PasswordInv, ViewFits
  <2>3. Password!TypedOnce' \in {Password!TypedOnce, NoPassword}
    BY <1>2
       DEF Password!StartBrowser, Password!ShowTabUI, Password!LeaveTabUI,
          Password!ClosePasswordUI, Password!SecretModeMenu,
          Password!CreatePasswordFirstTime, Password!ShowNoPasswordWarning,
          Password!DismissWarning, Password!UsePassword, Password!ChangePassword,
          PasswordInv, ViewFits
  <2> QED BY <1>0, <2>1, <2>2, <2>3, TalkSteps
<1>3. CASE (\E text \in Texts : Password!Type(text)) \/ Password!RejectPassword
           \/ Password!CreatePassword
  <2>1. UNCHANGED <<password, decided, secret>>
    BY <1>3 DEF Password!Type, Password!RejectPassword, Password!CreatePassword
  <2>2. Password!MayChange' => Password!MayChange
    BY <1>3
       DEF Password!Type, Password!RejectPassword, Password!CreatePassword,
          Password!Asked
  <2>3. Password!TypedOnce' \in {Password!TypedOnce, NoPassword, Hash[typed]}
    BY <1>3
       DEF Password!Type, Password!RejectPassword, Password!CreatePassword,
          Password!Asked
  <2> QED BY <1>0, <2>1, <2>2, <2>3, TalkSteps
<1>4. CASE Password!EnableSecret
  <2>1. ~secret /\ ~Password!MayChange' /\ Password!TypedOnce' = NoPassword
    BY <1>4 DEF Password!EnableSecret, PasswordInv, Password!ButtonTellsMode
  <2>2. CASE decided /\ password = NoPassword
    <3>1. Password!Gate!Enter
      BY <1>0, <1>4, <2>1, <2>2
         DEF Password!EnableSecret, Password!Gate!Enter, Password!TypeOK
    <3> QED BY <3>1 DEF Password!Gate!Next
  <2>3. CASE ~(decided /\ password = NoPassword)
    <3>1. UNCHANGED <<password, decided, secret>>
      BY <1>4, <2>3 DEF Password!EnableSecret
    <3> QED BY <1>0, <2>1, <3>1, TalkSteps
  <2> QED BY <2>2, <2>3
<1>5. CASE Password!DisableSecret
  <2>1. Password!Gate!Leave
    BY <1>0, <1>5
       DEF Password!DisableSecret, Password!Gate!Leave, Password!TypeOK, PasswordInv,
          Password!ButtonTellsMode
  <2> QED BY <2>1 DEF Password!Gate!Next
<1>6. CASE Password!SwitchToSecretFirstTime
  <2>1. Password!Gate!Remove
    BY <1>0, <1>6
       DEF Password!SwitchToSecretFirstTime, Password!Gate!Remove, Password!TypeOK,
          PasswordInv, DecisionOpen
  <2> QED BY <2>1 DEF Password!Gate!Next
<1>7. CASE Password!Decide
  <2>1. ~decided /\ ~secret
    BY <1>7 DEF Password!Decide, PasswordInv, DecisionOpen
  <2>2. view' # "passwordUI"
    BY <1>0, <1>7 DEF Password!Decide, PasswordInv, ViewFits, Password!TypeOK
  <2>3. ~Password!MayChange' /\ Password!TypedOnce' = NoPassword
    BY <2>2
  <2>4. Password!Gate!Decide
    BY <1>0, <1>7, <2>1, <2>3 DEF Password!Decide, Password!Gate!Decide, Password!TypeOK
  <2> QED BY <2>4 DEF Password!Gate!Next
<1>8. CASE Password!ConfirmPassword
  <2>1. Password!Gate!TypedRight
    BY <1>0, <1>8
       DEF Password!ConfirmPassword, Password!Asked, Password!Gate!TypedRight,
          Password!TypeOK
  <2>2. CASE action = "ChangePassword"
    <3>1. UNCHANGED <<password, decided, secret>> /\ Password!TypedOnce' = NoPassword
      BY <1>8, <2>2 DEF Password!ConfirmPassword
    <3> QED BY <1>0, <2>1, <3>1, TalkSteps
  <2>3. CASE action = "UsePassword"
    <3>1. Password!Gate!Remove
      BY <1>0, <1>8, <2>1, <2>3
         DEF Password!ConfirmPassword, Password!Gate!Remove, Password!TypeOK
    <3> QED BY <3>1 DEF Password!Gate!Next
  <2>4. CASE action = "ConfirmPasswordEnterSecret"
    <3>1. decided /\ ~secret
      BY <1>8, <2>4
         DEF Password!ConfirmPassword, Password!Asked, Asking, PasswordInv, ActionFits
    <3>2. Password!Gate!Enter
      BY <1>0, <1>8, <2>1, <2>4, <3>1
         DEF Password!ConfirmPassword, Password!Gate!Enter, Password!TypeOK
    <3> QED BY <3>2 DEF Password!Gate!Next
  <2> QED BY <1>8, <2>2, <2>3, <2>4 DEF Password!ConfirmPassword
<1>9. CASE Password!ConfirmCreatePassword
  <2>1. CASE Hash[typed] # unconfirmed
    <3>1. UNCHANGED <<password, decided, secret>>
          /\ (Password!MayChange' => Password!MayChange)
          /\ Password!TypedOnce' = Password!TypedOnce
      BY <1>9, <2>1 DEF Password!ConfirmCreatePassword
    <3> QED BY <1>0, <3>1, TalkSteps
  <2>2. CASE Hash[typed] = unconfirmed
    <3>1. Password!TypedOnce = Hash[typed] /\ Hash[typed] # NoPassword
      BY <1>0, <1>9, <2>2 DEF Password!ConfirmCreatePassword, Password!TypeOK
    <3>2. Password!Gate!May
      BY <1>0, <1>9
         DEF Password!ConfirmCreatePassword, Password!Gate!May, PasswordInv,
            ActionFits, DecisionOpen, Creating, Password!TypeOK, Password!Actions
    <3>3. ~Password!MayChange' /\ Password!TypedOnce' = NoPassword
      BY <1>9, <2>2 DEF Password!ConfirmCreatePassword
    <3>4. Password!Gate!Set
      BY <1>0, <1>9, <2>2, <3>1, <3>2, <3>3
         DEF Password!ConfirmCreatePassword, Password!Gate!Set, Password!TypeOK
    <3> QED BY <3>4 DEF Password!Gate!Next
  <2> QED BY <2>1, <2>2
<1>10. CASE UNCHANGED Password!vars
  BY <1>10 DEF Password!vars, Password!Gate!vars
<1> QED
  BY <1>1, <1>2, <1>3, <1>4, <1>5, <1>6, <1>7, <1>8, <1>9, <1>10 DEF Password!Next

LEMMA PasswordMoves == ASSUME [Next]_vars PROVE [Password!Next]_(Password!vars)
  BY DEF Next, vars, passwordVars, Password!vars, Password!settings, Password!dialogue

(* While another service moves, the password and its views stand still.    *)
LEMMA PasswordInvariance == Spec => []PasswordInv
<1>1. Init => PasswordInv
  BY PasswordInvInit DEF Init, NoSecret
<1>2. PasswordInv /\ [Next]_vars => PasswordInv'
  <2> SUFFICES ASSUME PasswordInv, [Next]_vars PROVE PasswordInv'
    OBVIOUS
  <2>1. [Password!Next]_(Password!vars)
    BY PasswordMoves
  <2> QED BY <2>1, StepTypes, StepModes, StepAcceptable DEF PasswordInv
<1> QED BY <1>1, <1>2, PTL DEF Spec

-----------------------------------------------------------------------------
(***************************************************************************)
(* The theorems.  A behaviour of Services is one of one of its services.   *)
(***************************************************************************)

(* The counter names a match that is there, and once the searches are      *)
(* answered it counts the matches of the entry's text on the page on       *)
(* screen, whatever was typed, loaded, switched and answered before: only  *)
(* an answer to a search that was given up may stand in the bar instead.   *)
THEOREM CountsTheRightPage == Spec => []FindBarIsRight
<1> DEFINE Holds == service = "find" => FindInv
<1>1. Init => Holds
  BY ServicesAssumption, FindInvInit DEF Init
<1>2. Holds /\ [Next]_vars => Holds'
  BY ServicesAssumption, FindInvNext DEF Next, vars, findVars, Find!vars
<1>3. Holds => FindBarIsRight
  BY FindInvEnough DEF FindBarIsRight
<1> QED BY <1>1, <1>2, <1>3, PTL DEF Spec

(* No host of a wrong certificate is shown as secure, and none the user    *)
(* went on to is asked about again: in any order of certificates, answers, *)
(* looks, failed writes and restarts, for any number of questions open at  *)
(* the same time about the same or other hosts.                            *)
THEOREM HostsAreRemembered == Spec => []CertificatesAgree
<1> DEFINE Holds == service = "certificates" => CertificateInv
<1>1. Init => Holds
  BY CertificateInvInit DEF Init
<1>2. Holds /\ [Next]_vars => Holds'
  BY CertificateInvNext DEF Next, vars, certificateVars, Certificates!vars
<1>3. Holds => CertificatesAgree
  BY DEF CertificatesAgree, CertificateInv, WrongIsKnown, Certificates!CertificatesAgree,
         Certificates!SecureMeansValid
<1> QED BY <1>1, <1>2, <1>3, PTL DEF Spec

(* What the user set is what the table, the engine, the page and the box   *)
(* on screen say; the home button opens the page chosen last; and no       *)
(* download goes to a card that was taken out under the view. Whatever is  *)
(* pressed in which order, whichever writes fail and whenever the process  *)
(* ends.                                                                   *)
THEOREM ChoicesAlwaysKept == Spec => []ChoicesAreKept
<1> DEFINE Holds == service = "settings" => SettingsInv
<1>1. Init => Holds
  BY ServicesAssumption, SettingsInvInit DEF Init
<1>2. Holds /\ [Next]_vars => Holds'
  BY ServicesAssumption, SettingsInvNext DEF Next, vars, settingsVars, Settings!vars
<1>3. Holds => ChoicesAreKept
  BY DEF SettingsInv, ChoicesAreKept
<1> QED BY <1>1, <1>2, <1>3, PTL DEF Spec

(* A download the user was told is saved stays until another application   *)
(* deletes it, and the one timer that is known stops the motor, whichever  *)
(* pages start and cancel vibrations.                                      *)
THEOREM SavedAndStopped == Spec => []RequestsAreServed
<1> DEFINE Holds == service = "requests" => RequestsInv
<1>1. Init => Holds
  BY ServicesAssumption, RequestsInvInit DEF Init
<1>2. Holds /\ [Next]_vars => Holds'
  BY ServicesAssumption, RequestsInvNext DEF Next, vars, requestVars, Requests!vars
<1>3. Holds => RequestsAreServed
  BY DEF RequestsInv, RequestsAreServed
<1> QED BY <1>1, <1>2, <1>3, PTL DEF Spec

(* The vector has every popup that is made, once, and none that was        *)
(* deleted; and the layouts that popups know are stacked in its order:     *)
(* through buttons that open others, dismissals that show another again,   *)
(* and popups made at the address of one that is no more.                  *)
THEOREM PopupsAlwaysInOrder == Spec => []PopupsInOrder
<1> DEFINE Holds == service = "dialogs" => DialogsInv
<1>1. Init => Holds
  BY DialogsInvInit DEF Init
<1>2. Holds /\ [Next]_vars => Holds'
  BY DialogsInvNext DEF Next, vars, dialogVars, Dialogs!vars
<1>3. Holds => PopupsInOrder
  BY DialogsInvEnough DEF PopupsInOrder
<1> QED BY <1>1, <1>2, <1>3, PTL DEF Spec

(* Every variable of the workflow keeps its type. *)
THEOREM PasswordTypeCorrect == Spec => []Password!TypeOK
  BY PasswordInvariance, PTL DEF PasswordInv

(* The button of the tab manager always says what changeEngineState will   *)
(* do, although it only toggles the mode.                                  *)
THEOREM ButtonIsRight == Spec => []ButtonTellsMode
  BY PasswordInvariance, PTL DEF PasswordInv, ButtonTellsMode

(* Secret mode is entered only after the decision about a password. *)
THEOREM DecisionComesFirst == Spec => []SecretIsDecided
  BY PasswordInvariance, PTL DEF PasswordInv, SecretIsDecided

(* Only hashes of acceptable texts are stored. *)
THEOREM OnlyAcceptableStored == Spec => []StoredIsAcceptable
  BY PasswordInvariance, PTL DEF PasswordInv, StoredIsAcceptable

(* The password view, the tab manager and the settings together implement  *)
(* the promise of SecretGate.                                              *)
THEOREM KeepsThePromise == Spec => ImplementsGate
<1>1. Init => Password!Gate!Init
  BY GateInit DEF Init, NoSecret
<1>2. PasswordInv /\ [Next]_vars => [Password!Gate!Next]_(Password!Gate!vars)
  BY PasswordMoves, GateStep
<1> QED
  BY <1>1, <1>2, PasswordInvariance, PTL DEF Spec, ImplementsGate, Password!Gate!Spec
=============================================================================
