----------------------------- MODULE ListsProofs -----------------------------
(***************************************************************************)
(* What the views that copy stored lists promise, for any constants: each  *)
(* has its inductive invariant, and the theorems at the end put them       *)
(* together.                                                               *)
(***************************************************************************)
EXTENDS Lists, Sequences, FiniteSets, FiniteSetTheorems, SequenceTheorems,
        WellFoundedInduction, TLAPS

-----------------------------------------------------------------------------
(***************************************************************************)
(* Personal data: there is one profile, the view knows its id, and each of *)
(* the two creators is only used when it fits what is stored.              *)
(***************************************************************************)
OneKnown ==
    \/ profiles = {} /\ label.id = PersonalData!NoId
    \/ \E p \in profiles : profiles = {p} /\ label.id = p.id

CreatorsFit ==
    /\ creator["without"].edits = PersonalData!NoId
    /\ creator["with"].made => creator["with"].edits # PersonalData!NoId
    /\ top \in PersonalData!Creators => creator[top].made
    /\ top = "without" => profiles = {}
    /\ question # {} => top = "none"

PersonalInv ==
    /\ PersonalData!TypeOK
    /\ OneKnown /\ CreatorsFit
    /\ PersonalData!DeletedNamesAreGone /\ PersonalData!TickedIsDeleted

LEMMA PersonalInvEnough == PersonalInv => PersonalData!ForgetsWhatWasDeleted
<1> SUFFICES ASSUME PersonalInv PROVE PersonalData!ForgetsWhatWasDeleted
  OBVIOUS
<1>1. Cardinality(profiles) \in {0, 1}
  <2>1. CASE profiles = {}
    BY <2>1, FS_EmptySet
  <2>2. CASE \E p \in profiles : profiles = {p}
    BY <2>2, FS_Singleton
  <2> QED BY <2>1, <2>2 DEF PersonalInv, OneKnown
<1>2. PersonalData!OneProfile
  <2>1. PersonalData!Cardinality(profiles) = Cardinality(profiles)
    BY DEF PersonalData!Cardinality, Cardinality
  <2> QED BY <1>1, <2>1 DEF PersonalData!OneProfile
<1> QED BY <1>2 DEF PersonalInv, PersonalData!ForgetsWhatWasDeleted

(* What a box makes of the options is what it makes of the boxes.          *)
LEMMA BalancedOK ==
    ASSUME NEW f \in [PersonalData!Items -> BOOLEAN]
    PROVE  PersonalData!Balanced(f) \in [PersonalData!Items -> BOOLEAN]
BY DEF PersonalData!Balanced, PersonalData!Items

LEMMA AfterCheckOK ==
    ASSUME NEW f \in [PersonalData!Items -> BOOLEAN], NEW i \in PersonalData!Items,
           NEW value \in BOOLEAN
    PROVE  /\ PersonalData!AfterCheck(f, i, value) \in [PersonalData!Items -> BOOLEAN]
           /\ PersonalData!AfterCheck([f EXCEPT ![i] = value], i, value)
                = PersonalData!AfterCheck(f, i, value)
<1> DEFINE g == [f EXCEPT ![i] = value]
<1>1. CASE i = PersonalData!All
  <2>1. [j \in PersonalData!Items |-> value] \in [PersonalData!Items -> BOOLEAN]
    OBVIOUS
  <2> QED BY <1>1, <2>1, BalancedOK DEF PersonalData!AfterCheck
<1>2. CASE i # PersonalData!All
  <2>1. /\ g[PersonalData!All] = f[PersonalData!All] /\ [g EXCEPT ![i] = value] = g
        /\ [g EXCEPT ![i] = value, ![PersonalData!All] = FALSE]
             = [f EXCEPT ![i] = value, ![PersonalData!All] = FALSE]
    BY <1>2 DEF PersonalData!Items, PersonalData!All
  <2>2. /\ g \in [PersonalData!Items -> BOOLEAN]
        /\ [f EXCEPT ![i] = value, ![PersonalData!All] = FALSE] \in [PersonalData!Items -> BOOLEAN]
    OBVIOUS
  <2> QED BY <1>2, <2>1, <2>2, BalancedOK DEF PersonalData!AfterCheck
<1> QED BY <1>1, <1>2

(* The one profile is the first.                                           *)
LEMMA FirstOK ==
    ASSUME PersonalData!TypeOK, NEW p \in profiles, profiles = {p}
    PROVE  PersonalData!First = p
<1>1. p.id <= p.id
  BY DEF PersonalData!TypeOK, PersonalData!Profile
<1> QED BY <1>1 DEF PersonalData!First

LEMMA CreatorOK ==
    ASSUME NEW edits \in 0 .. MaxProfiles, NEW entry \in PersonalData!Entries
    PROVE  /\ [made |-> TRUE, edits |-> edits, entry |-> entry] \in PersonalData!Creator
           /\ [made |-> FALSE, edits |-> edits, entry |-> entry] \in PersonalData!Creator
BY DEF PersonalData!Creator

LEMMA PersonalInvInit == PersonalData!PersonalAssumption /\ PersonalData!Init => PersonalInv
<1> SUFFICES ASSUME PersonalData!PersonalAssumption, PersonalData!Init PROVE PersonalInv
  OBVIOUS
<1>1. 0 \in 0 .. MaxProfiles /\ PersonalData!NoName \in PersonalData!Entries
  BY DEF PersonalData!PersonalAssumption, PersonalData!Entries
<1>2. /\ label = [id |-> 0, name |-> PersonalData!NoName]
      /\ label \in [id : 0 .. MaxProfiles, name : PersonalData!Entries]
  BY <1>1 DEF PersonalData!Init, PersonalData!NoId
<1>3. /\ creator \in [PersonalData!Creators -> PersonalData!Creator]
      /\ \A c \in PersonalData!Creators : creator[c].edits = 0 /\ creator[c].made = FALSE
  <2>1. [made |-> FALSE, edits |-> 0, entry |-> PersonalData!NoName] \in PersonalData!Creator
    BY <1>1, CreatorOK
  <2> QED BY <2>1 DEF PersonalData!Init, PersonalData!NoId
<1>4. PersonalData!Fresh \in [PersonalData!Items -> BOOLEAN]
  BY DEF PersonalData!Fresh
<1>5. PersonalData!TypeOK
  BY <1>1, <1>2, <1>3, <1>4 DEF PersonalData!Init, PersonalData!TypeOK
<1>6. OneKnown /\ CreatorsFit
  BY <1>2, <1>3 DEF PersonalData!Init, OneKnown, CreatorsFit, PersonalData!Creators, PersonalData!NoId
<1> QED BY <1>5, <1>6 DEF PersonalData!Init, PersonalInv, PersonalData!DeletedNamesAreGone,
                          PersonalData!TickedIsDeleted

(* The views of what is deleted; the profiles stay.                        *)
LEMMA ChoiceSteps ==
    ASSUME PersonalData!PersonalAssumption, PersonalInv, UNCHANGED PersonalData!Profiles,
           \/ PersonalData!ShowDelete \/ PersonalData!LanguageChanged
           \/ \E i \in Scrolls : PersonalData!Scrolled(i)
           \/ \E i \in PersonalData!Items : PersonalData!CheckChanged(i)
           \/ PersonalData!DeleteClicked \/ PersonalData!CancelClicked
           \/ PersonalData!PopupCancelled
           \/ \E s \in Filled : PersonalData!Browse(s)
           \/ PersonalData!CloseAllTabs
    PROVE  PersonalInv'
<1> USE DEF PersonalInv, PersonalData!TypeOK, OneKnown, CreatorsFit, PersonalData!Profiles,
            PersonalData!DeletedNamesAreGone, PersonalData!TickedIsDeleted
<1>1. PersonalData!Fresh \in [PersonalData!Items -> BOOLEAN]
  BY DEF PersonalData!Fresh
<1>2. CASE PersonalData!ShowDelete \/ PersonalData!LanguageChanged
  BY <1>1, <1>2 DEF PersonalData!ShowDelete, PersonalData!LanguageChanged, PersonalData!Creators
<1>3. CASE \E i \in Scrolls : PersonalData!Scrolled(i)
  BY <1>1, <1>3 DEF PersonalData!Scrolled, PersonalData!PersonalAssumption
<1>4. ASSUME NEW i \in PersonalData!Items, PersonalData!CheckChanged(i)
      PROVE  PersonalInv'
  <2> DEFINE value == ~box[i]
  <2>1. /\ value \in BOOLEAN /\ option \in [PersonalData!Items -> BOOLEAN] /\ box = option
        /\ option' = PersonalData!AfterCheck(option, i, value)
        /\ box' = PersonalData!AfterCheck([box EXCEPT ![i] = value], i, value)
    BY <1>4 DEF PersonalData!CheckChanged
  <2> HIDE DEF value
  <2>2. option' \in [PersonalData!Items -> BOOLEAN] /\ box' = option'
    BY <2>1, AfterCheckOK
  <2> QED BY <1>4, <2>2 DEF PersonalData!CheckChanged
<1>5. CASE PersonalData!DeleteClicked
  BY <1>5 DEF PersonalData!DeleteClicked, PersonalData!Ticked, PersonalData!Creators
<1>6. CASE PersonalData!CancelClicked \/ PersonalData!PopupCancelled
  BY <1>6 DEF PersonalData!CancelClicked, PersonalData!PopupCancelled, PersonalData!Creators
<1>7. ASSUME NEW s \in Filled, PersonalData!Browse(s)
      PROVE  PersonalInv'
  <2>1. s \in PersonalData!Stores
    BY DEF PersonalData!PersonalAssumption
  <2>2. data' \in [full : SUBSET PersonalData!Stores, tabs : BOOLEAN]
    BY <1>7, <2>1 DEF PersonalData!Browse
  <2> QED BY <1>7, <2>2 DEF PersonalData!Browse
<1>8. CASE PersonalData!CloseAllTabs
  BY <1>8 DEF PersonalData!CloseAllTabs
<1> QED BY <1>2, <1>3, <1>4, <1>5, <1>6, <1>7, <1>8

(* The user deletes: the profile, its id, and what the views were given.   *)
LEMMA DeleteConfirmedStep ==
    ASSUME PersonalData!PersonalAssumption, PersonalInv, PersonalData!DeleteConfirmed
    PROVE  PersonalInv'
<1> USE DEF PersonalInv, PersonalData!TypeOK, OneKnown, CreatorsFit,
            PersonalData!DeletedNamesAreGone, PersonalData!TickedIsDeleted
<1>1. /\ top = "none" /\ question' = {} /\ UNCHANGED <<top, option, box>>
      /\ data' \in [full : SUBSET PersonalData!Stores, tabs : BOOLEAN]
  BY DEF PersonalData!DeleteConfirmed
<1>2. CASE UNCHANGED PersonalData!Profiles
  BY <1>1, <1>2 DEF PersonalData!Profiles, PersonalData!Creators
<1>3. CASE PersonalData!AutoFillCleared
  <2>1. /\ profiles' = {} /\ label' = [id |-> 0, name |-> PersonalData!NoName] /\ lastId' = lastId
        /\ gone' = gone \cup { p.name : p \in profiles }
        /\ creator' = [c \in PersonalData!Creators |->
                         [creator[c] EXCEPT !.entry = PersonalData!NoName]]
    BY <1>3 DEF PersonalData!AutoFillCleared, PersonalData!NoId
  <2>2. gone' \subseteq Names /\ PersonalData!NoName \notin gone'
    BY <2>1 DEF PersonalData!Profile, PersonalData!PersonalAssumption
  <2>3. \A c \in PersonalData!Creators :
          /\ creator'[c] \in PersonalData!Creator /\ creator'[c].entry = PersonalData!NoName
          /\ creator'[c].made = creator[c].made /\ creator'[c].edits = creator[c].edits
    BY <2>1 DEF PersonalData!Creator, PersonalData!Entries
  <2>4. /\ label' \in [id : 0 .. MaxProfiles, name : PersonalData!Entries]
        /\ creator' \in [PersonalData!Creators -> PersonalData!Creator]
    BY <2>1, <2>3 DEF PersonalData!PersonalAssumption, PersonalData!Entries
  <2> QED BY <1>1, <2>1, <2>2, <2>3, <2>4 DEF PersonalData!NoId, PersonalData!Creators
<1> QED BY <1>2, <1>3 DEF PersonalData!DeleteConfirmed

(* The profile view and the creators.                                      *)
LEMMA ShowProfileStep ==
    ASSUME PersonalData!PersonalAssumption, PersonalInv,
           PersonalData!ShowProfile \/ PersonalData!Leave
    PROVE  PersonalInv'
<1> USE DEF PersonalInv, PersonalData!TypeOK, OneKnown, CreatorsFit, PersonalData!Choice,
            PersonalData!Profiles, PersonalData!DeletedNamesAreGone, PersonalData!TickedIsDeleted
<1>1. CASE PersonalData!ShowProfile
  <2>1. label' = label
    <3>1. CASE profiles = {}
      BY <1>1, <3>1 DEF PersonalData!ShowProfile, PersonalData!UpdateButtonMap
    <3>2. ASSUME NEW p \in profiles, profiles = {p}, label.id = p.id
          PROVE  label' = label
      <4>1. label' = [label EXCEPT !.id = label.id]
        BY <1>1, <3>2, FirstOK DEF PersonalData!ShowProfile, PersonalData!UpdateButtonMap
      <4> QED BY <4>1
    <3> QED BY <3>1, <3>2
  <2> QED BY <1>1, <2>1 DEF PersonalData!ShowProfile, PersonalData!Creators
<1>2. CASE PersonalData!Leave
  BY <1>2 DEF PersonalData!Leave, PersonalData!Creators
<1> QED BY <1>1, <1>2

LEMMA SelectProfileStep ==
    ASSUME PersonalData!PersonalAssumption, PersonalInv, PersonalData!SelectProfile
    PROVE  PersonalInv'
<1> USE DEF PersonalInv, PersonalData!TypeOK, OneKnown, CreatorsFit, PersonalData!Choice,
            PersonalData!DeletedNamesAreGone, PersonalData!TickedIsDeleted
<1> DEFINE c == IF label.id # PersonalData!NoId THEN "with" ELSE "without"
<1>1. /\ top = "profile" /\ top' = c
      /\ UNCHANGED <<PersonalData!Choice, profiles, lastId, label, gone>>
      /\ creator' = IF creator[c].made THEN creator
                    ELSE [creator EXCEPT ![c] = PersonalData!Made(c)]
  BY DEF PersonalData!SelectProfile
<1>2. question = {} /\ PersonalData!NoName \notin gone
  BY <1>1 DEF PersonalData!PersonalAssumption
<1>3. CASE profiles = {}
  <2>1. c = "without"
    BY <1>3
  <2>2. PersonalData!Made(c) = [made |-> TRUE, edits |-> 0, entry |-> PersonalData!NoName]
    BY <1>3 DEF PersonalData!Made, PersonalData!NoId
  <2>3. PersonalData!Made(c) \in PersonalData!Creator
    <3>1. 0 \in 0 .. MaxProfiles /\ PersonalData!NoName \in PersonalData!Entries
      BY DEF PersonalData!PersonalAssumption, PersonalData!Entries
    <3>2. [made |-> TRUE, edits |-> 0, entry |-> PersonalData!NoName] \in PersonalData!Creator
      BY <3>1, CreatorOK
    <3> QED BY <2>2, <3>2
  <2> HIDE DEF c
  <2> QED BY <1>1, <1>2, <1>3, <2>1, <2>2, <2>3 DEF PersonalData!Creators, PersonalData!NoId
<1>4. ASSUME NEW p \in profiles, profiles = {p}, label.id = p.id
      PROVE  PersonalInv'
  <2>1. p.id \in 1 .. MaxProfiles /\ p.name \in Names /\ p.name \notin gone
    BY DEF PersonalData!Profile
  <2>2. p.id \in 0 .. MaxProfiles /\ p.id # 0 /\ p.name \in PersonalData!Entries
    BY <2>1 DEF PersonalData!Entries, PersonalData!PersonalAssumption
  <2>3. c = "with"
    BY <1>4, <2>2 DEF PersonalData!NoId
  <2>4. PersonalData!Made(c) = [made |-> TRUE, edits |-> p.id, entry |-> p.name]
    <3>1. PersonalData!First = p
      BY <1>4, FirstOK
    <3> HIDE DEF c
    <3> QED BY <1>4, <2>3, <3>1 DEF PersonalData!Made
  <2>5. PersonalData!Made(c) \in PersonalData!Creator
    <3>1. [made |-> TRUE, edits |-> p.id, entry |-> p.name] \in PersonalData!Creator
      BY <2>2, CreatorOK
    <3> QED BY <2>4, <3>1
  <2> HIDE DEF c
  <2> QED BY <1>1, <1>2, <1>4, <2>1, <2>2, <2>3, <2>4, <2>5
          DEF PersonalData!Creators, PersonalData!NoId
<1> QED BY <1>3, <1>4

LEMMA TypeStep ==
    ASSUME PersonalData!PersonalAssumption, PersonalInv,
           NEW name \in Names \cup {PersonalData!NoName}, PersonalData!Type(name)
    PROVE  PersonalInv'
<1> USE DEF PersonalInv, PersonalData!TypeOK, OneKnown, CreatorsFit, PersonalData!Choice,
            PersonalData!DeletedNamesAreGone, PersonalData!TickedIsDeleted
<1>1. /\ top \in PersonalData!Creators /\ gone' = gone \ {name}
      /\ creator' = [creator EXCEPT ![top].entry = name]
      /\ UNCHANGED <<top, PersonalData!Choice, profiles, lastId, label>>
  BY DEF PersonalData!Type
<1>2. \A c \in PersonalData!Creators :
        /\ creator'[c] \in PersonalData!Creator /\ creator'[c].entry \notin gone'
        /\ creator'[c].made = creator[c].made /\ creator'[c].edits = creator[c].edits
  <2> SUFFICES ASSUME NEW c \in PersonalData!Creators
               PROVE  /\ creator'[c] \in PersonalData!Creator /\ creator'[c].entry \notin gone'
                      /\ creator'[c].made = creator[c].made /\ creator'[c].edits = creator[c].edits
    OBVIOUS
  <2>1. creator[c] \in PersonalData!Creator
    OBVIOUS
  <2>2. creator'[c] = IF c = top THEN [creator[c] EXCEPT !.entry = name] ELSE creator[c]
    BY <1>1
  <2> QED BY <1>1, <2>1, <2>2 DEF PersonalData!Creator, PersonalData!Entries
<1>3. creator' \in [PersonalData!Creators -> PersonalData!Creator]
  BY <1>1, <1>2
<1> QED BY <1>1, <1>2, <1>3 DEF PersonalData!Creators

(* Done changes the one profile, makes one where there is none, or does    *)
(* not apply.                                                              *)
LEMMA DoneStep ==
    ASSUME PersonalData!PersonalAssumption, PersonalInv, PersonalData!Done
    PROVE  PersonalInv'
<1> USE DEF PersonalInv, PersonalData!TypeOK, OneKnown, CreatorsFit, PersonalData!Choice,
            PersonalData!DeletedNamesAreGone, PersonalData!TickedIsDeleted
<1> DEFINE name == creator[top].entry
<1>1. /\ top \in PersonalData!Creators /\ name # PersonalData!NoName
      /\ UNCHANGED <<PersonalData!Choice, creator, gone>>
  BY DEF PersonalData!Done
<1>2. name \in Names /\ name \in PersonalData!Entries /\ name \notin gone /\ question = {}
  BY <1>1 DEF PersonalData!Creator, PersonalData!Entries, PersonalData!Creators
<1>3. top # "delete"
  BY <1>1 DEF PersonalData!Creators
<1>4. CASE PersonalData!UpdateItem(name)
  <2>1. PICK p \in profiles : profiles = {p} /\ label.id = p.id
    BY <1>4 DEF PersonalData!UpdateItem
  <2>2. PersonalData!First = p /\ p \in PersonalData!Profile /\ p.id = creator[top].edits
    BY <1>4, <2>1, FirstOK DEF PersonalData!UpdateItem
  <2> DEFINE q == [p EXCEPT !.name = name]
  <2>3. q \in PersonalData!Profile /\ q.id = p.id /\ q.name = name
    BY <1>2, <2>2 DEF PersonalData!Profile
  <2>4. /\ profiles' = {q} /\ label' = [id |-> p.id, name |-> name]
        /\ top' = "profile" /\ lastId' = lastId
    BY <1>4, <2>1, <2>2 DEF PersonalData!UpdateItem
  <2> HIDE DEF name, q
  <2>5. p.id \in 0 .. MaxProfiles
    BY <2>2 DEF PersonalData!Profile
  <2> QED BY <1>1, <1>2, <1>3, <2>3, <2>4, <2>5 DEF PersonalData!Creators
<1>5. CASE creator[top].edits = PersonalData!NoId /\ PersonalData!SaveItem(name)
  <2>1. top = "without" /\ profiles = {}
    BY <1>1, <1>5 DEF PersonalData!Creators
  <2> DEFINE q == [id |-> lastId + 1, name |-> name]
  <2>2. lastId + 1 \in 1 .. MaxProfiles /\ lastId + 1 \in 0 .. MaxProfiles
    BY <1>5 DEF PersonalData!SaveItem, PersonalData!PersonalAssumption
  <2>3. q \in PersonalData!Profile /\ q.id = lastId + 1 /\ q.name = name
    BY <1>2, <2>2 DEF PersonalData!Profile
  <2>4. /\ profiles' = {q} /\ label' = q /\ top' = "profile" /\ lastId' = lastId + 1
    BY <1>5, <2>1 DEF PersonalData!SaveItem
  <2>5. label' \in [id : 0 .. MaxProfiles, name : PersonalData!Entries]
    BY <1>2, <2>2, <2>4
  <2> HIDE DEF name, q
  <2> QED BY <1>1, <1>2, <1>3, <2>2, <2>3, <2>4, <2>5 DEF PersonalData!Creators
<1>6. CASE PersonalData!NotApplied(name)
  <2>1. label' = [label EXCEPT !.name = name] /\ UNCHANGED <<top, profiles, lastId>>
    BY <1>6 DEF PersonalData!NotApplied
  <2>2. /\ label' \in [id : 0 .. MaxProfiles, name : PersonalData!Entries]
        /\ label'.id = label.id /\ label'.name = name
    BY <1>2, <2>1
  <2> QED BY <1>1, <1>2, <1>3, <2>1, <2>2
<1> QED BY <1>4, <1>5, <1>6 DEF PersonalData!Done

LEMMA PersonalInvNext ==
    PersonalData!PersonalAssumption /\ PersonalInv /\ [PersonalData!Next]_(PersonalData!vars)
        => PersonalInv'
<1> SUFFICES ASSUME PersonalData!PersonalAssumption, PersonalInv,
                    [PersonalData!Next]_(PersonalData!vars)
             PROVE  PersonalInv'
  OBVIOUS
<1>1. CASE UNCHANGED PersonalData!vars
  BY <1>1 DEF PersonalData!vars, PersonalInv, PersonalData!TypeOK, OneKnown, CreatorsFit,
              PersonalData!DeletedNamesAreGone, PersonalData!TickedIsDeleted
<1>2. CASE \/ PersonalData!ShowDelete \/ PersonalData!LanguageChanged
           \/ \E i \in Scrolls : PersonalData!Scrolled(i)
           \/ \E i \in PersonalData!Items : PersonalData!CheckChanged(i)
           \/ PersonalData!DeleteClicked \/ PersonalData!CancelClicked
           \/ PersonalData!PopupCancelled
           \/ \E s \in Filled : PersonalData!Browse(s)
           \/ PersonalData!CloseAllTabs
  <2>1. UNCHANGED PersonalData!Profiles
    BY <1>2 DEF PersonalData!ShowDelete, PersonalData!LanguageChanged, PersonalData!Scrolled,
                PersonalData!CheckChanged, PersonalData!DeleteClicked, PersonalData!CancelClicked,
                PersonalData!PopupCancelled, PersonalData!Browse, PersonalData!CloseAllTabs
  <2> QED BY <1>2, <2>1, ChoiceSteps
<1>3. CASE PersonalData!DeleteConfirmed
  BY <1>3, DeleteConfirmedStep
<1>4. CASE PersonalData!ShowProfile \/ PersonalData!Leave
  BY <1>4, ShowProfileStep
<1>5. CASE PersonalData!SelectProfile
  BY <1>5, SelectProfileStep
<1>6. CASE PersonalData!Done
  BY <1>6, DoneStep
<1>7. CASE \E n \in Names \cup {PersonalData!NoName} : PersonalData!Type(n)
  BY <1>7, TypeStep
<1> QED BY <1>1, <1>2, <1>3, <1>4, <1>5, <1>6, <1>7 DEF PersonalData!Next

-----------------------------------------------------------------------------
(***************************************************************************)
(* Quick access: what the most visited pages are.                          *)
(***************************************************************************)

(* A set of numbers that is not empty has a least one.                     *)
LEMMA Least ==
    ASSUME NEW T, T \subseteq Nat, T # {}
    PROVE  \E x \in T : \A y \in T : x <= y
<1> DEFINE R == OpToRel(<, Nat)
<1>1. IsWellFoundedOn(R, Nat)
  BY NatLessThanWellFounded
<1>2. \A y, x \in Nat : <<y, x>> \in R <=> y < x
  BY DEF OpToRel
<1> HIDE DEF R
<1>3. PICK x \in T : \A y \in T : ~(<<y, x>> \in R)
  BY <1>1, WFMin
<1>4. \A y \in T : ~(y < x)
  BY <1>2, <1>3
<1> QED BY <1>4

Histories == Seq(QuickAccess!Entry)

(* The rounds of the service, as far as the k-th.                          *)
Rounds(f, ids, k) ==
    \E g : g = [j \in 0 .. k |-> IF j = 0 THEN QuickAccess!Start(f, ids)
                                 ELSE QuickAccess!Round(g[j - 1], ids)]

LEMMA OneMoreRound ==
    ASSUME NEW f, NEW ids, NEW k \in Nat, Rounds(f, ids, k)
    PROVE  Rounds(f, ids, k + 1)
<1> DEFINE first == QuickAccess!Start(f, ids)
           Turn(r) == QuickAccess!Round(r, ids)
<1> HIDE DEF first, Turn
<1>1. PICK g : g = [j \in 0 .. k |-> IF j = 0 THEN first ELSE Turn(g[j - 1])]
  BY DEF Rounds, first, Turn
<1> DEFINE h == [j \in 0 .. k + 1 |-> IF j <= k THEN g[j] ELSE Turn(g[k])]
<1>2. \A j \in 0 .. k + 1 : h[j] = IF j = 0 THEN first ELSE Turn(h[j - 1])
  <2> SUFFICES ASSUME NEW j \in 0 .. k + 1
               PROVE  h[j] = IF j = 0 THEN first ELSE Turn(h[j - 1])
    OBVIOUS
  <2>1. CASE j = 0
    <3>1. j \in 0 .. k /\ h[j] = g[j]
      BY <2>1
    <3>2. g[j] = first
      BY <1>1, <2>1, <3>1
    <3> QED BY <2>1, <3>1, <3>2
  <2>2. CASE j # 0 /\ j <= k
    <3>1. j \in 0 .. k /\ j - 1 \in 0 .. k /\ h[j] = g[j] /\ h[j - 1] = g[j - 1]
      BY <2>2
    <3>2. g[j] = Turn(g[j - 1])
      BY <1>1, <2>2, <3>1
    <3> QED BY <2>2, <3>1, <3>2
  <2>3. CASE j = k + 1
    <3>1. j # 0 /\ j - 1 = k /\ h[j] = Turn(g[k]) /\ h[j - 1] = g[k]
      BY <2>3
    <3> QED BY <3>1
  <2> QED BY <2>1, <2>2, <2>3
<1>3. h = [j \in 0 .. k + 1 |-> IF j = 0 THEN first ELSE Turn(h[j - 1])]
  <2> DEFINE e == [j \in 0 .. k + 1 |-> IF j = 0 THEN first ELSE Turn(h[j - 1])]
  <2>1. \A j \in 0 .. k + 1 : h[j] = e[j]
    BY <1>2
  <2>2. /\ DOMAIN h = 0 .. k + 1 /\ DOMAIN e = 0 .. k + 1
        /\ h = [j \in 0 .. k + 1 |-> h[j]] /\ e = [j \in 0 .. k + 1 |-> e[j]]
    OBVIOUS
  <2> HIDE DEF e, h
  <2>3. h = e
    BY <2>1, <2>2
  <2> QED BY <2>3 DEF e
<1> HIDE DEF h
<1> QED BY <1>3 DEF Rounds, first, Turn

LEMMA AllRounds ==
    ASSUME NEW f, NEW ids, NEW k \in Nat
    PROVE  Rounds(f, ids, k)
<1> DEFINE T == { j \in Nat : ~Rounds(f, ids, j) }
<1>1. ASSUME T # {} PROVE FALSE
  <2>1. PICK m \in T : \A j \in T : m <= j
    BY <1>1, Least
  <2>2. Rounds(f, ids, 0)
    <3> DEFINE first == QuickAccess!Start(f, ids)
    <3> HIDE DEF first
    <3> DEFINE g == [j \in 0 .. 0 |-> first]
    <3>1. g = [j \in 0 .. 0 |-> IF j = 0 THEN first ELSE QuickAccess!Round(g[j - 1], ids)]
      OBVIOUS
    <3> HIDE DEF g
    <3> QED BY <3>1 DEF Rounds, first
  <2>3. m - 1 \in Nat /\ m - 1 \notin T /\ (m - 1) + 1 = m
    BY <2>1, <2>2
  <2>4. Rounds(f, ids, m - 1)
    BY <2>3
  <2>5. Rounds(f, ids, m)
    BY <2>3, <2>4, OneMoreRound
  <2> QED BY <2>1, <2>5
<1> QED BY <1>1

(* What is shown is what the rounds, one by one, have come to.             *)
LEMMA MostVisitedByRounds ==
    ASSUME NEW f, NEW ids, Len(ids) \in Nat
    PROVE  \E g : /\ g[0] = QuickAccess!Start(f, ids)
                  /\ \A j \in 1 .. Len(ids) : g[j] = QuickAccess!Round(g[j - 1], ids)
                  /\ QuickAccess!MostVisited(f, ids) = g[Len(ids)].shown
<1> DEFINE n == Len(ids)
           first == QuickAccess!Start(f, ids)
           Turn(r) == QuickAccess!Round(r, ids)
           P(g) == g = [j \in 0 .. n |-> IF j = 0 THEN first ELSE Turn(g[j - 1])]
           c == CHOOSE g : P(g)
<1>1. QuickAccess!MostVisited(f, ids) = c[n].shown
  BY DEF QuickAccess!MostVisited
<1>2. Rounds(f, ids, n)
  BY AllRounds
<1>3. Rounds(f, ids, n) <=> \E g : P(g)
  BY DEF Rounds
<1> HIDE DEF n, first, Turn, P
<1>4. P(c)
  BY <1>2, <1>3
<1> HIDE DEF c
<1>5. c = [j \in 0 .. n |-> IF j = 0 THEN first ELSE Turn(c[j - 1])]
  BY <1>4 DEF P
<1>6. n \in Nat
  BY DEF n
<1>7. \A j \in 0 .. n : c[j] = IF j = 0 THEN first ELSE Turn(c[j - 1])
  BY <1>5
<1>8. c[0] = first /\ \A j \in 1 .. n : c[j] = Turn(c[j - 1])
  BY <1>6, <1>7
<1> QED BY <1>1, <1>8 DEF n, first, Turn

(* A round has a largest to strike off.                                    *)
LEMMA FirstLargestOK ==
    ASSUME NEW n \in Nat, n # 0, NEW max \in Nat, NEW left \in [1 .. n -> -1 .. max]
    PROVE  /\ QuickAccess!FirstLargest(left) \in 1 .. n
           /\ \A j \in 1 .. n : left[j] <= left[QuickAccess!FirstLargest(left)]
<1> DEFINE T == { max - left[j] : j \in 1 .. n }
<1>1. \A j \in 1 .. n : left[j] \in -1 .. max
  OBVIOUS
<1>2. T \subseteq Nat /\ T # {}
  <2>1. 1 \in 1 .. n
    OBVIOUS
  <2>2. max - left[1] \in T
    BY <2>1
  <2> QED BY <1>1, <2>2
<1>3. PICK x \in T : \A y \in T : x <= y
  BY <1>2, Least
<1>4. PICK l \in 1 .. n : x = max - left[l]
  OBVIOUS
<1>5. \A j \in 1 .. n : max - left[l] <= max - left[j]
  BY <1>3, <1>4
<1>6. \A j \in 1 .. n : left[j] <= left[l]
  BY <1>1, <1>5
<1> DEFINE L == { i \in 1 .. n : left[i] = left[l] }
<1>7. L \subseteq Nat /\ L # {}
  OBVIOUS
<1>8. PICK i \in L : \A j \in L : i <= j
  BY <1>7, Least
<1>9. /\ i \in DOMAIN left
      /\ \A j \in DOMAIN left : left[j] <= left[i] /\ (j < i => left[j] < left[i])
  <2> SUFFICES ASSUME NEW j \in 1 .. n
               PROVE  left[j] <= left[i] /\ (j < i => left[j] < left[i])
    OBVIOUS
  <2>1. left[j] <= left[i]
    BY <1>6, <1>8
  <2>2. ASSUME j < i PROVE left[j] # left[i]
    BY <1>8, <2>2
  <2> QED BY <1>1, <1>8, <2>1, <2>2
<1>10. /\ QuickAccess!FirstLargest(left) \in DOMAIN left
       /\ \A j \in DOMAIN left : left[j] <= left[QuickAccess!FirstLargest(left)]
  BY <1>9 DEF QuickAccess!FirstLargest
<1> QED BY <1>10

(* The rounds so far have struck off one entry each; w are the visits.     *)
Struck(left) == {i \in DOMAIN left : left[i] = -1}

LeftOK(w, ids, n, k, left) ==
    /\ left \in [1 .. n -> Int]
    /\ \A i \in 1 .. n : left[i] = -1 \/ left[i] = w[ids[i]]
    /\ Cardinality(Struck(left)) = k

(* What they show is in order, is struck off, and is all that was struck   *)
(* off and has visits.                                                     *)
InOrder(w, shown) ==
    \A l, m \in DOMAIN shown : l < m => shown[l] # shown[m] /\ w[shown[m]] <= w[shown[l]]

ShownOK(w, ids, n, k, left, shown) ==
    /\ shown \in Seq(DOMAIN w) /\ Len(shown) <= k /\ InOrder(w, shown)
    /\ \A m \in DOMAIN shown :
          \E i \in 1 .. n : /\ shown[m] = ids[i] /\ left[i] = -1
                            /\ \A j \in 1 .. n : left[j] <= w[ids[i]]
    /\ \A i \in 1 .. n :
          left[i] = -1 /\ w[ids[i]] > 0 => \E m \in DOMAIN shown : shown[m] = ids[i]
    /\ (\A i \in 1 .. n : left[i] = -1 => w[ids[i]] > 0) => Len(shown) = k

LEMMA LeftStep ==
    ASSUME NEW D, NEW max \in Nat, NEW w \in [D -> 0 .. max], NEW n \in Nat,
           NEW ids \in [1 .. n -> D], NEW k \in 0 .. n - 1, NEW left,
           LeftOK(w, ids, n, k, left)
    PROVE  LET i == QuickAccess!FirstLargest(left)
           IN  /\ i \in 1 .. n /\ left[i] = w[ids[i]] /\ left[i] # -1
               /\ \A j \in 1 .. n : left[j] <= left[i]
               /\ LeftOK(w, ids, n, k + 1, QuickAccess!Strike(left, i))
<1> DEFINE S == Struck(left)
           i == QuickAccess!FirstLargest(left)
           new == QuickAccess!Strike(left, i)
<1>1. /\ left \in [1 .. n -> Int] /\ Cardinality(S) = k
      /\ \A j \in 1 .. n : left[j] = -1 \/ left[j] = w[ids[j]]
  BY DEF LeftOK
<1>2. \A j \in 1 .. n : w[ids[j]] \in 0 .. max
  OBVIOUS
<1>3. left \in [1 .. n -> -1 .. max]
  <2>1. \A j \in 1 .. n : left[j] \in -1 .. max
    <3> SUFFICES ASSUME NEW j \in 1 .. n PROVE left[j] \in -1 .. max
      OBVIOUS
    <3>1. left[j] = -1 \/ left[j] \in 0 .. max
      BY <1>1, <1>2
    <3> QED BY <3>1
  <2> HIDE DEF S, i, new
  <2> QED BY <1>1, <2>1
<1>4. n # 0
  OBVIOUS
<1>5. i \in 1 .. n /\ \A j \in 1 .. n : left[j] <= left[i]
  BY <1>3, <1>4, FirstLargestOK
<1>6. IsFiniteSet(1 .. n) /\ Cardinality(1 .. n) = n
  BY FS_Interval
<1>7. S \subseteq 1 .. n /\ IsFiniteSet(S)
  <2>1. S \subseteq 1 .. n
    BY <1>1 DEF Struck
  <2> QED BY <2>1, <1>6, FS_Subset
<1>8. S # 1 .. n
  BY <1>1, <1>6
<1>9. PICK j \in 1 .. n : left[j] # -1
  BY <1>1, <1>7, <1>8 DEF Struck
<1>10. left[j] \in 0 .. max /\ left[j] <= left[i]
  BY <1>1, <1>2, <1>5, <1>9
<1>11. left[i] = w[ids[i]] /\ left[i] # -1
  BY <1>1, <1>3, <1>5, <1>10
<1> HIDE DEF i
<1>12. /\ new \in [1 .. n -> Int] /\ new[i] = -1
       /\ \A l \in 1 .. n : l # i => new[l] = left[l]
  BY <1>1, <1>5 DEF QuickAccess!Strike
<1>13. Struck(new) = S \cup {i} /\ i \notin S
  BY <1>1, <1>5, <1>11, <1>12 DEF Struck
<1>14. Cardinality(Struck(new)) = k + 1
  BY <1>1, <1>7, <1>13, FS_AddElement
<1>15. \A l \in 1 .. n : new[l] = -1 \/ new[l] = w[ids[l]]
  BY <1>1, <1>12
<1>16. LeftOK(w, ids, n, k + 1, new)
  BY <1>12, <1>14, <1>15 DEF LeftOK
<1> HIDE DEF new
<1>17. new = QuickAccess!Strike(left, i)
  BY DEF new
<1> QED BY <1>5, <1>11, <1>16, <1>17 DEF i

(* A round that shows nothing more, and one that does.                     *)
LEMMA ShownStays ==
    ASSUME NEW D, NEW max \in Nat, NEW w \in [D -> 0 .. max], NEW n \in Nat,
           NEW ids \in [1 .. n -> D], NEW k \in Nat, NEW left \in [1 .. n -> Int],
           NEW i \in 1 .. n, NEW new \in [1 .. n -> Int], new[i] = -1,
           \A l \in 1 .. n : l # i => new[l] = left[l],
           left[i] = w[ids[i]], w[ids[i]] = 0,
           NEW shown, ShownOK(w, ids, n, k, left, shown)
    PROVE  ShownOK(w, ids, n, k + 1, new, shown)
<1>1. /\ shown \in Seq(D) /\ DOMAIN w = D /\ Len(shown) \in Nat
      /\ Len(shown) <= k + 1 /\ InOrder(w, shown)
  BY DEF ShownOK
<1>2. \A j \in 1 .. n : new[j] <= left[j]
  <2> SUFFICES ASSUME NEW j \in 1 .. n PROVE new[j] <= left[j]
    OBVIOUS
  <2>1. CASE j = i
    BY <2>1
  <2>2. CASE j # i
    <3>1. new[j] = left[j] /\ left[j] \in Int
      BY <2>2
    <3> QED BY <3>1
  <2> QED BY <2>1, <2>2
<1>3. \A m \in DOMAIN shown :
        \E l \in 1 .. n : /\ shown[m] = ids[l] /\ new[l] = -1
                          /\ \A j \in 1 .. n : new[j] <= w[ids[l]]
  <2> SUFFICES ASSUME NEW m \in DOMAIN shown
               PROVE  \E l \in 1 .. n : /\ shown[m] = ids[l] /\ new[l] = -1
                                        /\ \A j \in 1 .. n : new[j] <= w[ids[l]]
    OBVIOUS
  <2>1. PICK l \in 1 .. n : /\ shown[m] = ids[l] /\ left[l] = -1
                            /\ \A j \in 1 .. n : left[j] <= w[ids[l]]
    BY DEF ShownOK
  <2>2. new[l] = -1
    BY <2>1
  <2>3. \A j \in 1 .. n : new[j] <= w[ids[l]]
    <3> SUFFICES ASSUME NEW j \in 1 .. n PROVE new[j] <= w[ids[l]]
      OBVIOUS
    <3>1. /\ new[j] \in Int /\ left[j] \in Int /\ w[ids[l]] \in Int
          /\ new[j] <= left[j] /\ left[j] <= w[ids[l]]
      BY <1>2, <2>1
    <3> QED BY <3>1
  <2> QED BY <2>1, <2>2, <2>3
<1>4. \A l \in 1 .. n :
        new[l] = -1 /\ w[ids[l]] > 0 => \E m \in DOMAIN shown : shown[m] = ids[l]
  <2> SUFFICES ASSUME NEW l \in 1 .. n, new[l] = -1, w[ids[l]] > 0
               PROVE  \E m \in DOMAIN shown : shown[m] = ids[l]
    OBVIOUS
  <2>1. l # i
    OBVIOUS
  <2>2. left[l] = -1
    BY <2>1
  <2> QED BY <2>2 DEF ShownOK
<1>5. ~ \A l \in 1 .. n : new[l] = -1 => w[ids[l]] > 0
  OBVIOUS
<1> QED BY <1>1, <1>3, <1>4, <1>5 DEF ShownOK

LEMMA ShownGrows ==
    ASSUME NEW D, NEW max \in Nat, NEW w \in [D -> 0 .. max], NEW n \in Nat,
           NEW ids \in [1 .. n -> D], \A a, b \in 1 .. n : ids[a] = ids[b] => a = b,
           NEW k \in Nat, NEW left \in [1 .. n -> Int],
           NEW i \in 1 .. n, NEW new \in [1 .. n -> Int], new[i] = -1,
           \A l \in 1 .. n : l # i => new[l] = left[l],
           left[i] = w[ids[i]], \A j \in 1 .. n : left[j] <= left[i],
           NEW shown, ShownOK(w, ids, n, k, left, shown)
    PROVE  ShownOK(w, ids, n, k + 1, new, Append(shown, ids[i]))
<1> DEFINE s == Len(shown)
           more == Append(shown, ids[i])
<1>1. shown \in Seq(D) /\ DOMAIN w = D /\ s \in Nat /\ s <= k /\ DOMAIN shown = 1 .. s
  BY DEF ShownOK
<1>2. ids[i] \in D
  OBVIOUS
<1>3. /\ more \in Seq(D) /\ Len(more) = s + 1 /\ DOMAIN more = 1 .. s + 1
      /\ more[s + 1] = ids[i] /\ \A m \in 1 .. s : more[m] = shown[m]
  BY <1>1, <1>2
<1> HIDE DEF more, s
<1>4. \A m \in 1 .. s : \E l \in 1 .. n : /\ shown[m] = ids[l] /\ left[l] = -1
                                          /\ \A j \in 1 .. n : left[j] <= w[ids[l]]
  BY <1>1 DEF ShownOK
<1>5. w[ids[i]] \in 0 .. max /\ left[i] # -1
  OBVIOUS
<1>6. InOrder(w, more)
  <2> SUFFICES ASSUME NEW l \in 1 .. s + 1, NEW m \in 1 .. s + 1, l < m
               PROVE  more[l] # more[m] /\ w[more[m]] <= w[more[l]]
    BY <1>3 DEF InOrder
  <2>1. l \in 1 .. s /\ more[l] = shown[l]
    BY <1>1, <1>3
  <2>2. CASE m \in 1 .. s
    <3>1. more[m] = shown[m] /\ shown[l] # shown[m] /\ w[shown[m]] <= w[shown[l]]
      BY <1>1, <1>3, <2>1, <2>2 DEF ShownOK, InOrder
    <3> QED BY <2>1, <3>1
  <2>3. CASE m = s + 1
    <3>1. PICK j \in 1 .. n : shown[l] = ids[j] /\ left[j] = -1 /\ left[i] <= w[ids[j]]
      BY <1>4, <2>1
    <3>2. j # i
      BY <1>5, <3>1
    <3> QED BY <1>3, <2>1, <2>3, <3>1, <3>2
  <2> QED BY <1>1, <2>2, <2>3
<1>7. \A j \in 1 .. n : new[j] <= left[j] /\ new[j] \in Int /\ left[j] \in Int
  <2> SUFFICES ASSUME NEW j \in 1 .. n PROVE new[j] <= left[j]
    OBVIOUS
  <2>1. CASE j = i
    BY <1>5, <2>1
  <2>2. CASE j # i
    <3>1. new[j] = left[j] /\ left[j] \in Int
      BY <2>2
    <3> QED BY <3>1
  <2> QED BY <2>1, <2>2
<1>8. \A m \in DOMAIN more :
        \E l \in 1 .. n : /\ more[m] = ids[l] /\ new[l] = -1
                          /\ \A j \in 1 .. n : new[j] <= w[ids[l]]
  <2> SUFFICES ASSUME NEW m \in 1 .. s + 1
               PROVE  \E l \in 1 .. n : /\ more[m] = ids[l] /\ new[l] = -1
                                        /\ \A j \in 1 .. n : new[j] <= w[ids[l]]
    BY <1>3
  <2>1. CASE m \in 1 .. s
    <3>1. PICK l \in 1 .. n : /\ shown[m] = ids[l] /\ left[l] = -1
                              /\ \A j \in 1 .. n : left[j] <= w[ids[l]]
      BY <1>4, <2>1
    <3>2. new[l] = -1 /\ more[m] = ids[l]
      BY <1>3, <2>1, <3>1
    <3>3. \A j \in 1 .. n : new[j] <= w[ids[l]]
      <4>1. w[ids[l]] \in 0 .. max
        OBVIOUS
      <4> QED BY <1>7, <3>1, <4>1
    <3> QED BY <3>2, <3>3
  <2>2. CASE m = s + 1
    <3>1. \A j \in 1 .. n : new[j] <= w[ids[i]]
      BY <1>5, <1>7
    <3> QED BY <1>3, <2>2, <3>1
  <2> QED BY <1>1, <2>1, <2>2
<1>9. \A l \in 1 .. n :
        new[l] = -1 /\ w[ids[l]] > 0 => \E m \in DOMAIN more : more[m] = ids[l]
  <2> SUFFICES ASSUME NEW l \in 1 .. n, new[l] = -1, w[ids[l]] > 0
               PROVE  \E m \in 1 .. s + 1 : more[m] = ids[l]
    BY <1>3
  <2>1. CASE l = i
    <3>1. s + 1 \in 1 .. s + 1
      BY <1>1
    <3> QED BY <1>3, <2>1, <3>1
  <2>2. CASE l # i
    <3>1. PICK m \in 1 .. s : shown[m] = ids[l]
      BY <1>1, <2>2 DEF ShownOK
    <3>2. m \in 1 .. s + 1
      BY <1>1
    <3> QED BY <1>3, <3>1, <3>2
  <2> QED BY <2>1, <2>2
<1>10. ASSUME \A l \in 1 .. n : new[l] = -1 => w[ids[l]] > 0
       PROVE  Len(more) = k + 1
  <2>1. \A l \in 1 .. n : left[l] = -1 => w[ids[l]] > 0
    BY <1>5, <1>10
  <2>2. s = k
    BY <2>1 DEF ShownOK, s
  <2> QED BY <1>3, <2>2
<1>11. ShownOK(w, ids, n, k + 1, new, more)
  <2>1. more \in Seq(DOMAIN w) /\ Len(more) <= k + 1
    BY <1>1, <1>3
  <2> QED BY <2>1, <1>6, <1>8, <1>9, <1>10 DEF ShownOK
<1> QED BY <1>11 DEF more

LEMMA RoundOK ==
    ASSUME NEW D, NEW max \in Nat, NEW w \in [D -> 0 .. max], NEW n \in Nat,
           NEW ids \in [1 .. n -> D], \A a, b \in 1 .. n : ids[a] = ids[b] => a = b,
           NEW k \in 0 .. n - 1, NEW r,
           LeftOK(w, ids, n, k, r.left), ShownOK(w, ids, n, k, r.left, r.shown)
    PROVE  LET q == QuickAccess!Round(r, ids)
           IN  LeftOK(w, ids, n, k + 1, q.left) /\ ShownOK(w, ids, n, k + 1, q.left, q.shown)
<1> DEFINE left == r.left
           i == QuickAccess!FirstLargest(left)
           new == QuickAccess!Strike(left, i)
           q == QuickAccess!Round(r, ids)
<1>1. /\ i \in 1 .. n /\ left[i] = w[ids[i]] /\ left[i] # -1
      /\ \A j \in 1 .. n : left[j] <= left[i]
      /\ LeftOK(w, ids, n, k + 1, new)
  BY LeftStep
<1>2. left \in [1 .. n -> Int] /\ new \in [1 .. n -> Int]
  BY <1>1 DEF LeftOK
<1>3. new[i] = -1 /\ \A l \in 1 .. n : l # i => new[l] = left[l]
  BY <1>1, <1>2 DEF QuickAccess!Strike
<1>4. /\ q.left = new
      /\ q.shown = IF left[i] > 0 THEN Append(r.shown, ids[i]) ELSE r.shown
  BY DEF QuickAccess!Round
<1>5. w[ids[i]] \in 0 .. max /\ k \in Nat
  BY <1>1
<1>6. ShownOK(w, ids, n, k, left, r.shown)
  OBVIOUS
<1> HIDE DEF left, i, new, q
<1>7. CASE left[i] > 0
  <2>1. ShownOK(w, ids, n, k + 1, new, Append(r.shown, ids[i]))
    BY <1>1, <1>2, <1>3, <1>5, <1>6, ShownGrows
  <2> QED BY <1>1, <1>4, <1>7, <2>1 DEF q
<1>8. CASE ~(left[i] > 0)
  <2>1. w[ids[i]] = 0
    BY <1>1, <1>5, <1>8
  <2>2. ShownOK(w, ids, n, k + 1, new, r.shown)
    BY <1>1, <1>2, <1>3, <1>5, <1>6, <2>1, ShownStays
  <2> QED BY <1>1, <1>4, <1>8, <2>2 DEF q
<1> QED BY <1>7, <1>8

LEMMA StartOK ==
    ASSUME NEW D, NEW max \in Nat, NEW w \in [D -> 0 .. max], NEW n \in Nat,
           NEW ids \in [1 .. n -> D], NEW left, left = [i \in 1 .. n |-> w[ids[i]]]
    PROVE  LeftOK(w, ids, n, 0, left) /\ ShownOK(w, ids, n, 0, left, << >>)
<1>1. \A i \in 1 .. n : left[i] = w[ids[i]] /\ left[i] \in 0 .. max /\ left[i] # -1
  OBVIOUS
<1>2. DOMAIN left = 1 .. n /\ left \in [1 .. n -> Int]
  BY <1>1
<1>3. Struck(left) = {}
  BY <1>1, <1>2 DEF Struck
<1>4. Cardinality(Struck(left)) = 0
  BY <1>3, FS_EmptySet
<1>5. << >> \in Seq(DOMAIN w) /\ Len(<< >>) = 0 /\ DOMAIN << >> = {}
  OBVIOUS
<1>6. LeftOK(w, ids, n, 0, left)
  BY <1>1, <1>2, <1>4 DEF LeftOK
<1> DEFINE none == << >>
<1>7. none \in Seq(DOMAIN w) /\ Len(none) = 0 /\ DOMAIN none = {}
  BY <1>5
<1> HIDE DEF none
<1>8. ShownOK(w, ids, n, 0, left, none)
  BY <1>1, <1>7 DEF ShownOK, InOrder
<1> QED BY <1>6, <1>8 DEF none

(* When all are struck off, what is shown are the most visited.            *)
AllShown(w, ids, n, shown) ==
    /\ shown \in Seq(DOMAIN w) /\ Len(shown) <= n /\ InOrder(w, shown)
    /\ \A m \in DOMAIN shown : \E i \in 1 .. n : shown[m] = ids[i]
    /\ \A i \in 1 .. n : w[ids[i]] > 0 => \E m \in DOMAIN shown : shown[m] = ids[i]
    /\ (\A i \in 1 .. n : w[ids[i]] > 0) => Len(shown) = n

LEMMA AllStruck ==
    ASSUME NEW D, NEW max \in Nat, NEW w \in [D -> 0 .. max], NEW n \in Nat,
           NEW ids \in [1 .. n -> D], NEW left, NEW shown,
           LeftOK(w, ids, n, n, left), ShownOK(w, ids, n, n, left, shown)
    PROVE  AllShown(w, ids, n, shown)
<1>1. IsFiniteSet(1 .. n) /\ Cardinality(1 .. n) = n
  BY FS_Interval
<1>2. Struck(left) \subseteq 1 .. n /\ Cardinality(Struck(left)) = n
  BY DEF LeftOK, Struck
<1>3. Struck(left) = 1 .. n
  BY <1>1, <1>2, FS_Subset
<1>4. \A i \in 1 .. n : left[i] = -1
  BY <1>3 DEF Struck
<1>5. DOMAIN w = D
  OBVIOUS
<1>6. shown \in Seq(D) /\ Len(shown) <= n /\ InOrder(w, shown)
  BY <1>5 DEF ShownOK
<1>7. \A m \in DOMAIN shown : \E i \in 1 .. n : shown[m] = ids[i]
  BY DEF ShownOK
<1>8. \A i \in 1 .. n : w[ids[i]] > 0 => \E m \in DOMAIN shown : shown[m] = ids[i]
  BY <1>4 DEF ShownOK
<1>9. (\A i \in 1 .. n : w[ids[i]] > 0) => Len(shown) = n
  BY <1>4 DEF ShownOK
<1> QED BY <1>5, <1>6, <1>7, <1>8, <1>9 DEF AllShown

(* So the loop of the service shows the most visited of what the adaptor   *)
(* gave it, and those are the most visited.                                *)
LEMMA MostVisitedOK ==
    ASSUME QuickAccess!QuickAccessAssumption, NEW f \in Histories,
           NEW ids \in QuickAccess!Fetched(f)
    PROVE  LET p == QuickAccess!MostVisited(f, ids)
           IN  /\ p \in Seq(DOMAIN f) /\ Len(p) <= Limit
               /\ QuickAccess!AreTheMostVisited(p, f)
<1> DEFINE D == DOMAIN f
           w == [i \in D |-> f[i].visits]
           n == Len(ids)
           p == QuickAccess!MostVisited(f, ids)
<1>1. MaxVisits \in Nat /\ Limit \in Nat
  BY DEF QuickAccess!QuickAccessAssumption
<1>2. \A i \in D : f[i].visits \in 0 .. MaxVisits
  <2>1. \A i \in D : f[i] \in QuickAccess!Entry
    BY DEF Histories
  <2> QED BY <2>1 DEF QuickAccess!Entry
<1>3. w \in [D -> 0 .. MaxVisits]
  BY <1>2
<1>4. PICK m \in 0 .. Limit : ids \in [1 .. m -> D]
  BY <1>1 DEF QuickAccess!Fetched, QuickAccess!BoundedSeq, QuickAccess!SeqOf
<1>5. n = m /\ n \in Nat /\ n <= Limit /\ ids \in [1 .. n -> D] /\ DOMAIN ids = 1 .. n
  BY <1>1, <1>4
<1>6. \A a, b \in 1 .. n : ids[a] = ids[b] => a = b
  BY <1>5 DEF QuickAccess!Fetched, QuickAccess!IsInjective
<1>7. \A i \in D \ QuickAccess!Range(ids) :
        n = Limit /\ \A k \in 1 .. Limit : f[i].visits <= f[ids[k]].visits
  BY DEF QuickAccess!Fetched
<1>8. PICK g : /\ g[0] = QuickAccess!Start(f, ids)
               /\ \A j \in 1 .. n : g[j] = QuickAccess!Round(g[j - 1], ids)
               /\ p = g[n].shown
  BY <1>5, MostVisitedByRounds
<1> DEFINE Good(k) == /\ LeftOK(w, ids, n, k, g[k].left)
                      /\ ShownOK(w, ids, n, k, g[k].left, g[k].shown)
<1>9. g[0].left = [i \in 1 .. n |-> w[ids[i]]] /\ g[0].shown = << >>
  <2>1. \A i \in 1 .. n : ids[i] \in D /\ w[ids[i]] = f[ids[i]].visits
    BY <1>5
  <2>2. g[0].left = [i \in 1 .. n |-> f[ids[i]].visits] /\ g[0].shown = << >>
    BY <1>5, <1>8 DEF QuickAccess!Start
  <2> HIDE DEF w
  <2> QED BY <2>1, <2>2
<1> HIDE DEF D, w, n, p
<1>10. Good(0)
  <2> DEFINE left == g[0].left
  <2>1. left = [i \in 1 .. n |-> w[ids[i]]]
    BY <1>9
  <2> HIDE DEF left
  <2>2. LeftOK(w, ids, n, 0, left) /\ ShownOK(w, ids, n, 0, left, << >>)
    BY <1>1, <1>3, <1>5, <2>1, StartOK
  <2> QED BY <1>9, <2>2 DEF left
<1>11. ASSUME NEW k \in 0 .. n - 1, Good(k) PROVE Good(k + 1)
  <2>1. g[k + 1] = QuickAccess!Round(g[k], ids)
    <3>1. k + 1 \in 1 .. n /\ (k + 1) - 1 = k
      BY <1>5
    <3> QED BY <1>8, <3>1
  <2> DEFINE r == g[k]
  <2>2. LeftOK(w, ids, n, k, r.left) /\ ShownOK(w, ids, n, k, r.left, r.shown)
    BY <1>11
  <2> HIDE DEF r
  <2>3. /\ LeftOK(w, ids, n, k + 1, QuickAccess!Round(r, ids).left)
        /\ ShownOK(w, ids, n, k + 1, QuickAccess!Round(r, ids).left,
                   QuickAccess!Round(r, ids).shown)
    BY <1>1, <1>3, <1>5, <1>6, <2>2, RoundOK
  <2> QED BY <2>1, <2>3 DEF r
<1>12. Good(n)
  <2> DEFINE T == { k \in 0 .. n : ~Good(k) }
  <2> HIDE DEF Good
  <2>1. ASSUME T # {} PROVE FALSE
    <3>1. T \subseteq Nat
      BY <1>5
    <3>2. PICK k \in T : \A j \in T : k <= j
      BY <2>1, <3>1, Least
    <3>3. k # 0
      BY <1>10, <3>2
    <3>4. k - 1 \in 0 .. n - 1 /\ k - 1 \notin T /\ (k - 1) + 1 = k
      BY <1>5, <3>2, <3>3
    <3>5. Good(k - 1)
      BY <1>5, <3>4
    <3> QED BY <1>11, <3>2, <3>4, <3>5
  <2> QED BY <1>5, <2>1
<1>13. /\ p \in Seq(D) /\ Len(p) <= n /\ InOrder(w, p)
       /\ \A l \in DOMAIN p : \E i \in 1 .. n : p[l] = ids[i]
       /\ \A i \in 1 .. n : w[ids[i]] > 0 => \E l \in DOMAIN p : p[l] = ids[i]
       /\ (\A i \in 1 .. n : w[ids[i]] > 0) => Len(p) = n
  <2> DEFINE left == g[n].left
  <2>1. LeftOK(w, ids, n, n, left) /\ ShownOK(w, ids, n, n, left, p)
    BY <1>8, <1>12
  <2> HIDE DEF Good, left
  <2>2. n \in Nat /\ ids \in [1 .. n -> D]
    BY <1>5
  <2>3. AllShown(w, ids, n, p)
    BY <1>1, <1>3, <2>1, <2>2, AllStruck
  <2>4. DOMAIN w = D
    BY <1>3
  <2> QED BY <2>3, <2>4 DEF AllShown
<1> HIDE DEF Good
<1>14. Len(p) \in Nat /\ DOMAIN p = 1 .. Len(p) /\ Len(p) <= Limit
  BY <1>1, <1>5, <1>13
<1>15. \A i \in D : w[i] = f[i].visits /\ w[i] \in 0 .. MaxVisits
  BY <1>2 DEF w
<1>16. \A l \in DOMAIN p : p[l] \in D
  BY <1>13
<1>17. QuickAccess!IsInjective(p)
  <2> SUFFICES ASSUME NEW a \in DOMAIN p, NEW b \in DOMAIN p, p[a] = p[b]
               PROVE  a = b
    BY DEF QuickAccess!IsInjective
  <2>1. ~(a < b) /\ ~(b < a)
    BY <1>13 DEF InOrder
  <2> QED BY <1>14, <2>1
<1>18. \A j, k \in DOMAIN p : j < k => f[p[k]].visits <= f[p[j]].visits
  BY <1>13, <1>15, <1>16 DEF InOrder
<1>19. ASSUME NEW i \in D \ QuickAccess!Range(p)
       PROVE  \/ f[i].visits = 0
              \/ Len(p) = Limit /\ \A k \in DOMAIN p : f[i].visits <= f[p[k]].visits
  <2>1. CASE i \in QuickAccess!Range(ids)
    <3>1. PICK j \in 1 .. n : ids[j] = i
      BY <1>5, <2>1 DEF QuickAccess!Range
    <3>2. ~ \E l \in DOMAIN p : p[l] = i
      BY DEF QuickAccess!Range
    <3>3. ~(w[i] > 0)
      BY <1>13, <3>1, <3>2
    <3> QED BY <1>1, <1>15, <3>3
  <2>2. CASE i \notin QuickAccess!Range(ids) /\ f[i].visits # 0
    <3>1. n = Limit /\ \A k \in 1 .. n : f[i].visits <= f[ids[k]].visits
      BY <1>7, <2>2 DEF D, n
    <3>2. \A k \in 1 .. n : ids[k] \in D
      BY <1>5
    <3>3. f[i].visits > 0
      BY <1>1, <1>15, <2>2
    <3>4. \A k \in 1 .. n : w[ids[k]] > 0
      BY <1>1, <1>15, <3>1, <3>2, <3>3
    <3>5. Len(p) = Limit
      BY <1>13, <3>1, <3>4
    <3>6. \A k \in DOMAIN p : f[i].visits <= f[p[k]].visits
      BY <1>13, <3>1
    <3> QED BY <3>5, <3>6
  <2> QED BY <2>1, <2>2
<1>20. QuickAccess!AreTheMostVisited(p, f)
  BY <1>17, <1>18, <1>19 DEF QuickAccess!AreTheMostVisited, D
<1> QED BY <1>13, <1>14, <1>20 DEF p, D

(***************************************************************************)
(* Quick access: the grid and the boxes of the editing view are as they    *)
(* were made, or made again; the menu that adds a page is not open over    *)
(* quick access while there is a page; and all that is in the list of      *)
(* pages to delete the user has ticked.                                    *)
(***************************************************************************)
AddMenuIsOfPage ==
    page.menu = "add" /\ page.state = "QUICK_ACCESS" => tabs = 0

Ticked(l, c) == l \subseteq QuickAccess!Ids \X BOOLEAN /\ \A i \in l : i[1] \in c

QuickInv ==
    /\ QuickAccess!TypeOK
    /\ QuickAccess!GridIsCurrent /\ QuickAccess!BoxesAreListed
    /\ AddMenuIsOfPage
    /\ Ticked(marked, picked)

(* A history whose entries have ids within the bound.                      *)
HistoryOK(f) == f \in Histories /\ Len(f) <= MaxEntries

(* What the history becomes.                                               *)
LEMMA DeletedOK ==
    ASSUME QuickAccess!QuickAccessAssumption, HistoryOK(entries)
    PROVE  /\ HistoryOK(QuickAccess!DeleteSelected)
           /\ \A i \in DOMAIN entries :
                 \/ QuickAccess!DeleteSelected[i] = entries[i]
                 \/ \E item \in marked : item[1] = i
<1>1. /\ Len(entries) \in Nat /\ Len(entries) <= MaxEntries
      /\ DOMAIN entries = 1 .. Len(entries)
      /\ \A i \in DOMAIN entries : entries[i] \in QuickAccess!Entry
  BY DEF HistoryOK, Histories
<1>2. \A i \in DOMAIN entries : [entries[i] EXCEPT !.visits = 0] \in QuickAccess!Entry
  <2> SUFFICES ASSUME NEW i \in DOMAIN entries
               PROVE  [entries[i] EXCEPT !.visits = 0] \in QuickAccess!Entry
    OBVIOUS
  <2>1. entries[i] \in QuickAccess!Entry
    BY <1>1
  <2>2. 0 \in 0 .. MaxVisits
    BY DEF QuickAccess!QuickAccessAssumption
  <2> QED BY <2>1, <2>2 DEF QuickAccess!Entry
<1> DEFINE d == QuickAccess!DeleteSelected
<1>3. /\ DOMAIN d = 1 .. Len(entries)
      /\ d = [i \in 1 .. Len(entries) |-> d[i]]
      /\ \A i \in DOMAIN entries : \/ d[i] = entries[i]
                                  \/ /\ d[i] = [entries[i] EXCEPT !.visits = 0]
                                     /\ \E item \in marked : item[1] = i
  BY <1>1 DEF QuickAccess!DeleteSelected
<1>4. \A i \in 1 .. Len(entries) : d[i] \in QuickAccess!Entry
  BY <1>1, <1>2, <1>3
<1> HIDE DEF d
<1>5. d \in Seq(QuickAccess!Entry) /\ Len(d) = Len(entries)
  BY <1>1, <1>3, <1>4
<1>6. HistoryOK(d)
  BY <1>1, <1>5 DEF HistoryOK, Histories
<1> QED BY <1>3, <1>6 DEF d

LEMMA CountedOK ==
    ASSUME QuickAccess!QuickAccessAssumption, HistoryOK(entries),
           \/ \E s \in Sites : QuickAccess!VisitedAgain(s) \/ QuickAccess!VisitedFirst(s)
           \/ QuickAccess!NextDay
    PROVE  /\ HistoryOK(entries')
           /\ \A i \in DOMAIN entries : ~(entries'[i].visits < entries[i].visits)
<1>1. /\ Len(entries) \in Nat /\ Len(entries) <= MaxEntries
      /\ DOMAIN entries = 1 .. Len(entries)
      /\ \A i \in DOMAIN entries : entries[i] \in QuickAccess!Entry
  BY DEF HistoryOK, Histories
<1>2. \A i \in DOMAIN entries : entries[i].visits \in 0 .. MaxVisits
  BY <1>1 DEF QuickAccess!Entry
<1>3. ASSUME NEW e \in Seq(QuickAccess!Entry), entries' = e, Len(e) <= MaxEntries,
             \A i \in DOMAIN entries : e[i].visits >= entries[i].visits,
             \A i \in DOMAIN entries : e[i].visits \in Int
      PROVE  /\ HistoryOK(entries')
             /\ \A i \in DOMAIN entries : ~(entries'[i].visits < entries[i].visits)
  <2>1. HistoryOK(entries')
    BY <1>3 DEF HistoryOK, Histories
  <2>2. \A i \in DOMAIN entries : ~(e[i].visits < entries[i].visits)
    BY <1>2, <1>3
  <2> QED BY <1>3, <2>1, <2>2
<1>4. ASSUME NEW s \in Sites, QuickAccess!VisitedAgain(s)
      PROVE  \E e \in Seq(QuickAccess!Entry) :
               /\ entries' = e /\ Len(e) <= MaxEntries
               /\ \A i \in DOMAIN entries :
                     e[i].visits >= entries[i].visits /\ e[i].visits \in Int
  <2>1. PICK j \in DOMAIN entries :
          /\ entries[j].visits < MaxVisits
          /\ entries' = [entries EXCEPT ![j].visits = @ + 1]
    BY <1>4 DEF QuickAccess!VisitedAgain, QuickAccess!OfToday
  <2> DEFINE more == [entries[j] EXCEPT !.visits = @ + 1]
             e == [entries EXCEPT ![j] = more]
  <2>2. more \in QuickAccess!Entry /\ more.visits = entries[j].visits + 1
    <3>1. entries[j] \in QuickAccess!Entry
      BY <1>1
    <3>2. entries[j].visits + 1 \in 0 .. MaxVisits
      BY <1>2, <2>1 DEF QuickAccess!QuickAccessAssumption
    <3> QED BY <3>1, <3>2 DEF QuickAccess!Entry
  <2>3. entries' = e
    BY <2>1
  <2> HIDE DEF more
  <2>4. e \in Seq(QuickAccess!Entry) /\ Len(e) = Len(entries)
    BY <2>2 DEF HistoryOK, Histories
  <2>5. \A i \in DOMAIN entries : e[i] = IF i = j THEN more ELSE entries[i]
    BY <1>1
  <2> HIDE DEF e
  <2>6. \A i \in DOMAIN entries :
          e[i].visits >= entries[i].visits /\ e[i].visits \in Int
    BY <1>2, <2>2, <2>5
  <2> QED BY <1>1, <2>3, <2>4, <2>6
<1>5. ASSUME NEW s \in Sites, QuickAccess!VisitedFirst(s)
      PROVE  \E e \in Seq(QuickAccess!Entry) :
               /\ entries' = e /\ Len(e) <= MaxEntries
               /\ \A i \in DOMAIN entries :
                     e[i].visits >= entries[i].visits /\ e[i].visits \in Int
  <2> DEFINE new == [page |-> s, today |-> TRUE, visits |-> 1]
             e == Append(entries, new)
  <2>1. entries' = e /\ Len(entries) < MaxEntries
    BY <1>5 DEF QuickAccess!VisitedFirst
  <2>2. new \in QuickAccess!Entry
    <3>1. 1 \in 0 .. MaxVisits
      BY DEF QuickAccess!QuickAccessAssumption
    <3> QED BY <3>1 DEF QuickAccess!Entry
  <2> HIDE DEF new
  <2>3. e \in Seq(QuickAccess!Entry) /\ Len(e) = Len(entries) + 1
    BY <2>2 DEF HistoryOK, Histories
  <2>4. \A i \in DOMAIN entries : e[i] = entries[i]
    BY <1>1, <2>2 DEF HistoryOK, Histories
  <2>5. Len(e) <= MaxEntries
    BY <1>1, <2>1, <2>3 DEF QuickAccess!QuickAccessAssumption
  <2> HIDE DEF e
  <2> QED BY <1>2, <2>1, <2>3, <2>4, <2>5
<1>6. ASSUME QuickAccess!NextDay
      PROVE  \E e \in Seq(QuickAccess!Entry) :
               /\ entries' = e /\ Len(e) <= MaxEntries
               /\ \A i \in DOMAIN entries :
                     e[i].visits >= entries[i].visits /\ e[i].visits \in Int
  <2> DEFINE e == [i \in 1 .. Len(entries) |-> [entries[i] EXCEPT !.today = FALSE]]
  <2>1. entries' = e
    BY <1>1, <1>6 DEF QuickAccess!NextDay
  <2>2. \A i \in DOMAIN entries :
          /\ [entries[i] EXCEPT !.today = FALSE] \in QuickAccess!Entry
          /\ [entries[i] EXCEPT !.today = FALSE].visits = entries[i].visits
    BY <1>1 DEF QuickAccess!Entry
  <2>3. \A i \in DOMAIN entries : e[i] \in QuickAccess!Entry /\ e[i].visits = entries[i].visits
    BY <1>1, <2>2
  <2>4. e \in Seq(QuickAccess!Entry) /\ Len(e) = Len(entries)
    BY <1>1, <2>2
  <2> HIDE DEF e
  <2> QED BY <1>1, <1>2, <2>1, <2>3, <2>4
<1> QED BY <1>3, <1>4, <1>5, <1>6

LEMMA HistoryStays ==
    ASSUME [QuickAccess!Next]_(QuickAccess!vars), ~QuickAccess!DoneClicked,
           ~QuickAccess!NextDay,
           ~\E s \in Sites : QuickAccess!VisitedAgain(s) \/ QuickAccess!VisitedFirst(s)
    PROVE  entries' = entries
  BY DEF QuickAccess!Next, QuickAccess!Scroll, QuickAccess!LayoutResize,
     QuickAccess!ThumbClicked, QuickAccess!BackButtonClicked, QuickAccess!ShowHomePage,
     QuickAccess!NewQuickAccessClicked, QuickAccess!PopupClosed, QuickAccess!ShowContextMenu,
     QuickAccess!DismissMenu, QuickAccess!CmAddToQa, QuickAccess!CmEditQa, QuickAccess!CmDeleteMv,
     QuickAccess!QuickAccessDelClicked, QuickAccess!CheckStateChanged, QuickAccess!Realized,
     QuickAccess!CancelClicked, QuickAccess!WindowCreated, QuickAccess!ExecSearch,
     QuickAccess!EngineTabClosed, QuickAccess!data, QuickAccess!vars

(* The boxes stay listed when fewer are ticked.                            *)
LEMMA BoxesStayListed ==
    ASSUME QuickAccess!BoxesAreListed, above' = above, edit' = edit, marked' = marked,
           ticked' \subseteq ticked
    PROVE  QuickAccess!BoxesAreListed'
BY Zenon DEF QuickAccess!BoxesAreListed

LEMMA TickedOK ==
    ASSUME NEW l, NEW c, Ticked(l, c), NEW where
    PROVE  /\ Ticked(QuickAccess!Stale(l), c)
           /\ Ticked(QuickAccess!ShowScrollerPage(l, where), c)
<1>1. Ticked(QuickAccess!Stale(l), c)
  <2> SUFFICES ASSUME NEW i \in l
               PROVE  <<i[1], FALSE>> \in QuickAccess!Ids \X BOOLEAN /\ <<i[1], FALSE>>[1] \in c
    BY DEF Ticked, QuickAccess!Stale
  <2>1. i \in QuickAccess!Ids \X BOOLEAN /\ i[1] \in c
    BY DEF Ticked
  <2> QED BY <2>1
<1>2. Ticked(QuickAccess!ShowScrollerPage(l, where), c)
  BY DEF Ticked, QuickAccess!ShowScrollerPage
<1> QED BY <1>1, <1>2

(* What quick access shows when it has been shown again, and is hidden.    *)
GridTyped ==
    /\ grid \subseteq Links \cup {QuickAccess!Add}
    /\ most \in Seq(QuickAccess!Ids) /\ Len(most) <= Limit
    /\ ticked \subseteq QuickAccess!Range(most)

LEMMA FilledOK ==
    ASSUME QuickAccess!QuickAccessAssumption, NEW f, HistoryOK(f),
           \E ids \in QuickAccess!Fetched(f) : most' = QuickAccess!MostVisited(f, ids)
    PROVE  /\ most' \in Seq(QuickAccess!Ids) /\ Len(most') <= Limit
           /\ QuickAccess!AreTheMostVisited(most', f)
<1>1. PICK ids \in QuickAccess!Fetched(f) : most' = QuickAccess!MostVisited(f, ids)
  OBVIOUS
<1>2. /\ most' \in Seq(DOMAIN f) /\ Len(most') <= Limit
      /\ QuickAccess!AreTheMostVisited(most', f)
  BY <1>1, MostVisitedOK DEF HistoryOK
<1>3. DOMAIN f \subseteq QuickAccess!Ids
  <2>1. Len(f) \in Nat /\ DOMAIN f = 1 .. Len(f) /\ Len(f) <= MaxEntries
    BY DEF HistoryOK, Histories
  <2> QED BY <2>1 DEF QuickAccess!Ids, QuickAccess!QuickAccessAssumption
<1>4. most' \in Seq(QuickAccess!Ids)
  BY <1>2, <1>3
<1> QED BY <1>2, <1>4

LEMMA ShowUIOK ==
    ASSUME QuickAccess!QuickAccessAssumption, NEW links, links \subseteq Links,
           NEW f, HistoryOK(f), Ticked(marked, picked), QuickAccess!ShowUI(links, f)
    PROVE  /\ GridTyped' /\ grid' = links \cup {QuickAccess!Add} /\ ticked' = {}
           /\ Ticked(marked', picked) /\ QuickAccess!AreTheMostVisited(most', f)
<1>1. /\ most' \in Seq(QuickAccess!Ids) /\ Len(most') <= Limit
      /\ QuickAccess!AreTheMostVisited(most', f)
  BY FilledOK DEF QuickAccess!ShowUI
<1>2. Ticked(marked', picked)
  BY TickedOK DEF QuickAccess!ShowUI
<1> QED BY <1>1, <1>2 DEF QuickAccess!ShowUI, GridTyped

LEMMA HiddenOK ==
    ASSUME QuickAccess!QuickAccessAssumption, Ticked(marked, picked),
           grid' = {} /\ most' = <<>> /\ ticked' = {} /\ marked' = QuickAccess!Stale(marked)
    PROVE  GridTyped' /\ Ticked(marked', picked)
<1>1. Ticked(marked', picked)
  BY TickedOK
<1>2. most' \in Seq(QuickAccess!Ids) /\ Len(most') = 0
  OBVIOUS
<1> QED BY <1>1, <1>2 DEF GridTyped, QuickAccess!QuickAccessAssumption

LEMMA ToWebPage ==
    ASSUME QuickAccess!QuickAccessAssumption, QuickInv, QuickAccess!SwitchViewToWebPage
    PROVE  /\ GridTyped' /\ Ticked(marked', picked)
           /\ page' \in [state : {"QUICK_ACCESS", "EDIT_MODE", "MAIN_WEB_PAGE"},
                         content : {"qa", "web"}, menu : {"none", "add", "edit", "delete"},
                         popup : BOOLEAN]
           /\ page'.state # "QUICK_ACCESS" /\ page'.content = "web"
           /\ ticked' = {} \/ UNCHANGED <<ticked, marked>>
<1>1. GridTyped /\ Ticked(marked, picked)
  BY DEF QuickInv, QuickAccess!TypeOK, GridTyped
<1>2. CASE page.state = "QUICK_ACCESS"
  <2>1. /\ page' = [page EXCEPT !.state = "MAIN_WEB_PAGE", !.content = "web"]
        /\ QuickAccess!HideUI
    BY <1>2 DEF QuickAccess!SwitchViewToWebPage
  <2>2. GridTyped' /\ Ticked(marked', picked) /\ (ticked' = {} \/ UNCHANGED <<ticked, marked>>)
    <3>1. CASE state = "Default"
      BY <1>1, <2>1, <3>1, HiddenOK DEF QuickAccess!HideUI
    <3>2. CASE state # "Default"
      BY <1>1, <2>1, <3>2 DEF QuickAccess!HideUI, GridTyped
    <3> QED BY <3>1, <3>2
  <2> QED BY <2>1, <2>2 DEF QuickInv, QuickAccess!TypeOK
<1>3. CASE page.state # "QUICK_ACCESS"
  <2>1. /\ page' = [page EXCEPT !.content = "web"]
        /\ UNCHANGED <<grid, most, ticked, marked>>
    BY <1>3 DEF QuickAccess!SwitchViewToWebPage
  <2> QED BY <1>1, <1>3, <2>1 DEF QuickInv, QuickAccess!TypeOK, GridTyped
<1> QED BY <1>2, <1>3

LEMMA AddItemOK ==
    ASSUME QuickAccess!QuickAccessAssumption, QuickInv, NEW link \in Links, NEW titled \in BOOLEAN,
           QuickAccess!AddQuickAccessItem(link, titled)
    PROVE  /\ GridTyped' /\ Ticked(marked', picked) /\ store' \subseteq Links
           /\ IF titled THEN UNCHANGED <<edit, grid, most, ticked, marked>>
              ELSE /\ edit' = [edit EXCEPT !.holds = "none"]
                   /\ grid' = store' \cup {QuickAccess!Add} /\ ticked' = {}
                   /\ QuickAccess!AreTheMostVisited(most', entries)
<1>1. GridTyped /\ Ticked(marked, picked) /\ HistoryOK(entries)
  BY DEF QuickInv, QuickAccess!TypeOK, GridTyped, HistoryOK, Histories
<1>2. store' = store \cup {link} /\ store' \subseteq Links
  BY DEF QuickAccess!AddQuickAccessItem, QuickInv, QuickAccess!TypeOK
<1>3. CASE titled
  BY <1>1, <1>2, <1>3 DEF QuickAccess!AddQuickAccessItem, GridTyped
<1>4. CASE ~titled
  BY <1>1, <1>2, <1>4, ShowUIOK DEF QuickAccess!AddQuickAccessItem
<1> QED BY <1>3, <1>4

LEMMA QuickInvInit == QuickAccess!QuickAccessAssumption /\ QuickAccess!Init => QuickInv
<1> SUFFICES ASSUME QuickAccess!QuickAccessAssumption, QuickAccess!Init PROVE QuickInv
  OBVIOUS
<1>1. entries \in Seq(QuickAccess!Entry) /\ Len(entries) <= MaxEntries /\ tabs \in 0 .. MaxTabs
  BY DEF QuickAccess!QuickAccessAssumption, QuickAccess!Init
<1>2. most \in Seq(QuickAccess!Ids) /\ Len(most) <= Limit
  BY DEF QuickAccess!QuickAccessAssumption, QuickAccess!Init
<1> QED BY <1>1, <1>2 DEF QuickAccess!Init, QuickInv, QuickAccess!TypeOK, QuickAccess!GridIsCurrent, QuickAccess!OnScreen,
          QuickAccess!BoxesAreListed, AddMenuIsOfPage, Ticked

(* The page shows something else, or hides quick access.                   *)
LEMMA PageSteps ==
    ASSUME QuickAccess!QuickAccessAssumption, QuickInv,
           \/ QuickAccess!Scroll \/ QuickAccess!LayoutResize
           \/ QuickAccess!ThumbClicked \/ QuickAccess!BackButtonClicked
           \/ \E where \in {"Links", "Sites"} : QuickAccess!ShowHomePage(where)
    PROVE  QuickInv'
<1> USE DEF QuickInv, QuickAccess!TypeOK, QuickAccess!GridIsCurrent, QuickAccess!OnScreen, QuickAccess!BoxesAreListed,
            AddMenuIsOfPage, QuickAccess!data
<1>1. CASE QuickAccess!Scroll
  <2>1. QuickAccess!BoxesAreListed'
    BY <1>1, BoxesStayListed DEF QuickAccess!Scroll
  <2> HIDE DEF QuickAccess!BoxesAreListed
  <2> QED BY <1>1, <2>1 DEF QuickAccess!Scroll
<1>2. CASE QuickAccess!LayoutResize
  <2>1. Ticked(marked', picked)
    BY <1>2, TickedOK DEF QuickAccess!LayoutResize
  <2> QED BY <1>2, <2>1 DEF QuickAccess!LayoutResize, QuickAccess!InPage, Ticked
<1>3. CASE QuickAccess!ThumbClicked
  <2>1. QuickAccess!SwitchViewToWebPage
    BY <1>3 DEF QuickAccess!ThumbClicked
  <2>2. tabs' \in 0 .. MaxTabs
    BY <1>3 DEF QuickAccess!ThumbClicked, QuickAccess!QuickAccessAssumption
  <2> QED BY <1>3, <2>1, <2>2, ToWebPage DEF QuickAccess!ThumbClicked, GridTyped, Ticked
<1>4. CASE QuickAccess!BackButtonClicked
  <2>1. /\ GridTyped' /\ Ticked(marked', picked)
        /\ ticked' = {} \/ UNCHANGED <<ticked, marked>>
    <3>1. CASE state = "Default"
      BY <1>4, <3>1, HiddenOK DEF QuickAccess!BackButtonClicked
    <3>2. CASE state # "Default"
      BY <1>4, <3>2 DEF QuickAccess!BackButtonClicked, GridTyped
    <3> QED BY <3>1, <3>2
  <2> QED BY <1>4, <2>1 DEF QuickAccess!BackButtonClicked, GridTyped, Ticked
<1>5. ASSUME NEW where \in {"Links", "Sites"}, QuickAccess!ShowHomePage(where)
      PROVE  QuickInv'
  <2>1. Ticked(marked', picked)
    BY <1>5, TickedOK DEF QuickAccess!ShowHomePage
  <2>2. most' \in Seq(QuickAccess!Ids) /\ Len(most') <= Limit
    BY <1>5, FilledOK DEF QuickAccess!ShowHomePage, HistoryOK, Histories
  <2> QED BY <1>5, <2>1, <2>2 DEF QuickAccess!ShowHomePage, QuickAccess!Free, Ticked
<1> QED BY <1>1, <1>2, <1>3, <1>4, <1>5

(* Links are added, and deleted.                                           *)
LEMMA LinkSteps ==
    ASSUME QuickAccess!QuickAccessAssumption, QuickInv,
           \/ QuickAccess!NewQuickAccessClicked \/ QuickAccess!PopupClosed
           \/ QuickAccess!CmAddToQa
           \/ \E link \in Links : QuickAccess!QuickAccessDelClicked(link)
    PROVE  QuickInv'
<1> USE DEF QuickInv, QuickAccess!TypeOK, QuickAccess!GridIsCurrent, QuickAccess!OnScreen, QuickAccess!BoxesAreListed,
            AddMenuIsOfPage, QuickAccess!data
<1>1. CASE QuickAccess!NewQuickAccessClicked
  BY <1>1 DEF QuickAccess!NewQuickAccessClicked, QuickAccess!qa
<1>2. CASE QuickAccess!PopupClosed
  <2>1. ASSUME NEW link \in Links, QuickAccess!AddQuickAccessItem(link, FALSE)
        PROVE  QuickInv'
    <3>1. /\ GridTyped' /\ Ticked(marked', picked) /\ store' \subseteq Links
          /\ edit' = [edit EXCEPT !.holds = "none"]
          /\ grid' = store' \cup {QuickAccess!Add} /\ ticked' = {}
      BY <2>1, AddItemOK
    <3> QED BY <1>2, <3>1 DEF QuickAccess!PopupClosed, GridTyped, Ticked
  <2>2. CASE UNCHANGED <<store, edit, grid, most, ticked, marked>>
    BY <1>2, <2>2 DEF QuickAccess!PopupClosed
  <2> QED BY <1>2, <2>1, <2>2 DEF QuickAccess!PopupClosed
<1>3. CASE QuickAccess!CmAddToQa
  <2>1. PICK link \in Links, titled \in BOOLEAN :
          (tabs = 0 => ~titled) /\ QuickAccess!AddQuickAccessItem(link, titled)
    BY <1>3 DEF QuickAccess!CmAddToQa
  <2>2. /\ page.menu = "add" /\ page' = [page EXCEPT !.menu = "none"]
        /\ UNCHANGED <<entries, tabs, above, state, current, picked>>
    BY <1>3 DEF QuickAccess!CmAddToQa
  <2>3. GridTyped' /\ Ticked(marked', picked) /\ store' \subseteq Links
    BY <2>1, AddItemOK
  <2>4. CASE titled
    <3>1. UNCHANGED <<edit, grid, most, ticked, marked>> /\ page.state # "QUICK_ACCESS"
      BY <2>1, <2>2, <2>4, AddItemOK
    <3> QED BY <2>2, <2>3, <3>1 DEF GridTyped, Ticked
  <2>5. CASE ~titled
    <3>1. /\ edit' = [edit EXCEPT !.holds = "none"]
          /\ grid' = store' \cup {QuickAccess!Add} /\ ticked' = {}
      BY <2>1, <2>5, AddItemOK
    <3> QED BY <2>2, <2>3, <3>1 DEF GridTyped, Ticked
  <2> QED BY <2>4, <2>5
<1>4. ASSUME NEW link \in Links, QuickAccess!QuickAccessDelClicked(link)
      PROVE  QuickInv'
  <2>1. QuickAccess!BoxesAreListed'
    BY <1>4, BoxesStayListed DEF QuickAccess!QuickAccessDelClicked
  <2> HIDE DEF QuickAccess!BoxesAreListed
  <2> QED BY <1>4, <2>1 DEF QuickAccess!QuickAccessDelClicked
<1> QED BY <1>1, <1>2, <1>3, <1>4

(* The menu, and the editing view.                                         *)
LEMMA EditSteps ==
    ASSUME QuickAccess!QuickAccessAssumption, QuickInv,
           \/ QuickAccess!ShowContextMenu \/ QuickAccess!DismissMenu
           \/ QuickAccess!CmEditQa \/ QuickAccess!CmDeleteMv
           \/ \E s \in DOMAIN entries : QuickAccess!CheckStateChanged(s) \/ QuickAccess!Realized(s)
    PROVE  QuickInv'
<1> USE DEF QuickInv, QuickAccess!TypeOK, QuickAccess!GridIsCurrent, QuickAccess!OnScreen, QuickAccess!BoxesAreListed,
            AddMenuIsOfPage, QuickAccess!data
<1>1. CASE QuickAccess!ShowContextMenu
  BY <1>1 DEF QuickAccess!ShowContextMenu, QuickAccess!qa
<1>2. CASE QuickAccess!DismissMenu
  BY <1>2 DEF QuickAccess!DismissMenu, QuickAccess!qa
<1>3. CASE QuickAccess!CmEditQa
  BY <1>3 DEF QuickAccess!CmEditQa
<1>4. CASE QuickAccess!CmDeleteMv
  BY <1>4 DEF QuickAccess!CmDeleteMv
<1>5. ASSUME NEW s \in DOMAIN entries, QuickAccess!CheckStateChanged(s)
      PROVE  QuickInv'
  <2>1. /\ UNCHANGED <<QuickAccess!data, tabs, page, above, state, current, grid, most>>
        /\ edit' = [edit EXCEPT !.done = marked' # {}]
        /\ s \in QuickAccess!Range(most) /\ state = "DeleteMostVisited"
    BY <1>5 DEF QuickAccess!CheckStateChanged
  <2>2. edit' \in [state : {"Edit", "DeleteMostVisited"},
                   holds : {"none", "Links", "Sites"}, done : BOOLEAN] /\ edit'.state = edit.state
    BY <2>1
  <2>3. CASE s \in ticked
    <3>1. ticked' = ticked \ {s} /\ marked' = marked \ {<<s, TRUE>>} /\ picked' = picked
      BY <1>5, <2>3 DEF QuickAccess!CheckStateChanged
    <3>2. \A r \in ticked' : r # s /\ <<r, TRUE>> # <<s, TRUE>>
      BY <3>1
    <3>3. Ticked(marked', picked') /\ QuickAccess!BoxesAreListed'
      BY <2>1, <2>2, <3>1, <3>2 DEF Ticked
    <3> QED BY <2>1, <2>2, <3>1, <3>3
  <2>4. CASE s \notin ticked
    <3>1. /\ ticked' = ticked \cup {s} /\ marked' = marked \cup {<<s, TRUE>>}
          /\ picked' = picked \cup {s}
      BY <1>5, <2>4 DEF QuickAccess!CheckStateChanged
    <3>2. Ticked(marked', picked')
      <4>1. s \in QuickAccess!Ids
        BY <2>1 DEF QuickAccess!Range
      <4>2. <<s, TRUE>> \in QuickAccess!Ids \X BOOLEAN /\ <<s, TRUE>>[1] = s
        BY <4>1
      <4> QED BY <3>1, <4>2 DEF Ticked
    <3>3. QuickAccess!BoxesAreListed'
      BY <2>1, <2>2, <3>1
    <3> QED BY <2>1, <2>2, <3>1, <3>2, <3>3 DEF Ticked
  <2> QED BY <2>3, <2>4
<1>6. ASSUME NEW s \in DOMAIN entries, QuickAccess!Realized(s)
      PROVE  QuickInv'
  <2>1. QuickAccess!BoxesAreListed'
    BY <1>6, BoxesStayListed DEF QuickAccess!Realized
  <2> HIDE DEF QuickAccess!BoxesAreListed
  <2> QED BY <1>6, <2>1 DEF QuickAccess!Realized
<1> QED BY <1>1, <1>2, <1>3, <1>4, <1>5, <1>6

(* The editing view is closed: quick access is shown again.                *)
LEMMA FinishSteps ==
    ASSUME QuickAccess!QuickAccessAssumption, QuickInv,
           QuickAccess!CancelClicked \/ QuickAccess!DoneClicked
    PROVE  QuickInv'
<1>1. PICK f :
        /\ HistoryOK(f) /\ entries' = f /\ QuickAccess!EditingFinished(f) /\ QuickAccess!Free
        /\ UNCHANGED <<store, tabs, current, picked>>
  <2>1. HistoryOK(entries) /\ HistoryOK(QuickAccess!DeleteSelected)
    BY DeletedOK DEF QuickInv, QuickAccess!TypeOK, HistoryOK, Histories
  <2>2. CASE QuickAccess!CancelClicked
    BY <2>1, <2>2 DEF QuickAccess!CancelClicked, QuickAccess!data
  <2>3. CASE QuickAccess!DoneClicked
    BY <2>1, <2>3 DEF QuickAccess!DoneClicked
  <2> QED BY <2>2, <2>3
<1>2. store \subseteq Links /\ Ticked(marked, picked)
  BY DEF QuickInv, QuickAccess!TypeOK
<1>3. GridTyped' /\ grid' = store \cup {QuickAccess!Add} /\ ticked' = {} /\ Ticked(marked', picked)
  BY <1>1, <1>2, ShowUIOK DEF QuickAccess!EditingFinished
<1>4. /\ state' = "Default" /\ above' = "page"
      /\ page' = [page EXCEPT !.state = "QUICK_ACCESS"] /\ page.menu = "none"
      /\ edit' = [edit EXCEPT !.holds = "none"]
  BY <1>1 DEF QuickAccess!EditingFinished, QuickAccess!Free
<1> QED BY <1>1, <1>3, <1>4 DEF QuickInv, QuickAccess!TypeOK, QuickAccess!GridIsCurrent, QuickAccess!OnScreen,
          QuickAccess!BoxesAreListed, AddMenuIsOfPage, GridTyped, Ticked, HistoryOK, Histories

(* Pages are visited, and tabs opened and closed meanwhile.                *)
LEMMA MeanwhileSteps ==
    ASSUME QuickAccess!QuickAccessAssumption, QuickInv,
           \/ \E s \in Sites : QuickAccess!VisitedAgain(s) \/ QuickAccess!VisitedFirst(s)
           \/ QuickAccess!NextDay
           \/ QuickAccess!WindowCreated \/ QuickAccess!ExecSearch \/ QuickAccess!EngineTabClosed
    PROVE  QuickInv'
<1> USE DEF QuickInv, QuickAccess!TypeOK, QuickAccess!GridIsCurrent, QuickAccess!OnScreen, QuickAccess!BoxesAreListed,
            AddMenuIsOfPage, QuickAccess!data
<1>1. CASE \/ \E s \in Sites : QuickAccess!VisitedAgain(s) \/ QuickAccess!VisitedFirst(s)
           \/ QuickAccess!NextDay
  <2>1. HistoryOK(entries')
    BY <1>1, CountedOK DEF HistoryOK, Histories
  <2>2. UNCHANGED <<store, tabs, page, above, edit, QuickAccess!qa, picked>>
    BY <1>1 DEF QuickAccess!VisitedAgain, QuickAccess!VisitedFirst, QuickAccess!NextDay
  <2>3. QuickAccess!BoxesAreListed'
    BY <2>2, BoxesStayListed DEF QuickAccess!qa
  <2> HIDE DEF QuickAccess!BoxesAreListed
  <2> QED BY <2>1, <2>2, <2>3 DEF QuickAccess!qa, HistoryOK, Histories
<1>2. CASE QuickAccess!WindowCreated
  <2>1. tabs' \in 0 .. MaxTabs /\ QuickAccess!SwitchViewToWebPage
    BY <1>2 DEF QuickAccess!WindowCreated, QuickAccess!QuickAccessAssumption
  <2> QED BY <1>2, <2>1, ToWebPage DEF QuickAccess!WindowCreated, GridTyped, Ticked
<1>3. CASE QuickAccess!ExecSearch
  <2>1. /\ tabs' \in 0 .. MaxTabs /\ above' = "page"
        /\ UNCHANGED <<store, entries, state, current, picked>>
    BY <1>3 DEF QuickAccess!ExecSearch, QuickAccess!QuickAccessAssumption
  <2>2. edit' \in [state : {"Edit", "DeleteMostVisited"},
                   holds : {"none", "Links", "Sites"}, done : BOOLEAN]
    BY <1>3 DEF QuickAccess!ExecSearch
  <2>3. /\ GridTyped' /\ Ticked(marked', picked)
        /\ page' \in [state : {"QUICK_ACCESS", "EDIT_MODE", "MAIN_WEB_PAGE"},
                      content : {"qa", "web"}, menu : {"none", "add", "edit", "delete"},
                      popup : BOOLEAN]
        /\ page'.state # "QUICK_ACCESS"
    <3>1. CASE /\ page' = [page EXCEPT !.state = "MAIN_WEB_PAGE", !.content = "web"]
               /\ QuickAccess!ShowUI(store, entries)
      BY <3>1, ShowUIOK DEF HistoryOK, Histories
    <3>2. CASE QuickAccess!SwitchViewToWebPage
      BY <3>2, ToWebPage
    <3> QED BY <1>3, <3>1, <3>2 DEF QuickAccess!ExecSearch
  <2> QED BY <2>1, <2>2, <2>3 DEF GridTyped, Ticked
<1>4. CASE QuickAccess!EngineTabClosed
  <2>1. /\ tabs' \in 0 .. MaxTabs
        /\ UNCHANGED <<store, entries, above, state, current, picked>>
    BY <1>4 DEF QuickAccess!EngineTabClosed, QuickAccess!QuickAccessAssumption
  <2>2. CASE tabs' = 0
    <3>1. QuickAccess!SwitchViewToQuickAccess
      BY <1>4, <2>2 DEF QuickAccess!EngineTabClosed
    <3>2. /\ page' = [page EXCEPT !.state = "QUICK_ACCESS", !.content = "qa"]
          /\ edit' = [edit EXCEPT !.holds = "none"]
      BY <3>1 DEF QuickAccess!SwitchViewToQuickAccess
    <3>3. /\ GridTyped' /\ grid' = store \cup {QuickAccess!Add} /\ ticked' = {}
          /\ Ticked(marked', picked)
      BY <3>1, ShowUIOK DEF QuickAccess!SwitchViewToQuickAccess, HistoryOK, Histories
    <3> QED BY <2>1, <2>2, <3>2, <3>3 DEF GridTyped, Ticked
  <2>3. CASE tabs' # 0
    <3>1. QuickAccess!SwitchViewToWebPage /\ edit' = edit
      BY <1>4, <2>3 DEF QuickAccess!EngineTabClosed
    <3> QED BY <2>1, <3>1, ToWebPage DEF GridTyped, Ticked
  <2> QED BY <2>2, <2>3
<1> QED BY <1>1, <1>2, <1>3, <1>4

LEMMA QuickInvNext ==
    QuickAccess!QuickAccessAssumption /\ QuickInv /\ [QuickAccess!Next]_(QuickAccess!vars)
        => QuickInv'
<1> SUFFICES ASSUME QuickAccess!QuickAccessAssumption, QuickInv,
                    [QuickAccess!Next]_(QuickAccess!vars)
             PROVE  QuickInv'
  OBVIOUS
<1>1. CASE UNCHANGED QuickAccess!vars
  <2>1. QuickAccess!BoxesAreListed'
    BY <1>1, BoxesStayListed DEF QuickAccess!vars, QuickAccess!qa, QuickInv
  <2> QED BY <1>1, <2>1 DEF QuickAccess!vars, QuickAccess!data, QuickAccess!qa, QuickInv,
              QuickAccess!TypeOK, QuickAccess!GridIsCurrent, QuickAccess!OnScreen, AddMenuIsOfPage
<1> QED BY <1>1, PageSteps, LinkSteps, EditSteps, FinishSteps, MeanwhileSteps DEF QuickAccess!Next

(* Visits are only taken away by Done, for entries of the list.            *)
LEMMA OnlyTickedStep ==
    ASSUME QuickAccess!QuickAccessAssumption, QuickInv, [QuickAccess!Next]_(QuickAccess!vars)
    PROVE  \A i \in DOMAIN entries : entries'[i].visits < entries[i].visits => i \in picked
<1> SUFFICES ASSUME NEW i \in DOMAIN entries, entries'[i].visits < entries[i].visits
             PROVE  i \in picked
  OBVIOUS
<1>1. HistoryOK(entries) /\ entries[i].visits \in Int
  <2>1. HistoryOK(entries)
    BY DEF QuickInv, QuickAccess!TypeOK, HistoryOK, Histories
  <2>2. entries[i] \in QuickAccess!Entry
    BY <2>1 DEF HistoryOK, Histories
  <2> QED BY <2>1, <2>2 DEF QuickAccess!Entry
<1>2. entries' # entries
  BY <1>1
<1>3. CASE QuickAccess!DoneClicked
  <2>1. entries' = QuickAccess!DeleteSelected
    BY <1>2, <1>3 DEF QuickAccess!DoneClicked
  <2>2. \E item \in marked : item[1] = i
    BY <1>1, <2>1, DeletedOK
  <2> QED BY <2>2 DEF QuickInv, Ticked
<1>4. CASE \/ \E s \in Sites : QuickAccess!VisitedAgain(s) \/ QuickAccess!VisitedFirst(s)
           \/ QuickAccess!NextDay
  BY <1>1, <1>4, CountedOK
<1>5. CASE ~QuickAccess!DoneClicked /\ ~QuickAccess!NextDay
           /\ ~\E s \in Sites : QuickAccess!VisitedAgain(s) \/ QuickAccess!VisitedFirst(s)
  BY <1>2, <1>5, HistoryStays
<1> QED BY <1>3, <1>4, <1>5

(* Quick access comes to the screen only with a grid that is filled in the *)
(* same step, and a grid on the screen is replaced only by such a one.     *)
Unseen ==
    \/ ~QuickAccess!OnScreen'
    \/ UNCHANGED <<entries, most>> /\ QuickAccess!OnScreen
    \/ entries' # entries /\ QuickAccess!OnScreen

LEMMA FillsOrHides ==
    ASSUME QuickAccess!QuickAccessAssumption, QuickInv, [QuickAccess!Next]_(QuickAccess!vars)
    PROVE  Unseen \/ QuickAccess!AreTheMostVisited(most', entries')
<1> DEFINE Goal == Unseen \/ QuickAccess!AreTheMostVisited(most', entries')
           Quiet == UNCHANGED <<entries, most, state>> /\ page'.state = page.state
                        /\ page'.content = page.content
<1>1. HistoryOK(entries) /\ store \subseteq Links /\ Ticked(marked, picked)
  BY DEF QuickInv, QuickAccess!TypeOK, HistoryOK, Histories
<1>2. page = [page EXCEPT !.state = page.state]
      /\ page \in [state : {"QUICK_ACCESS", "EDIT_MODE", "MAIN_WEB_PAGE"},
                   content : {"qa", "web"}, menu : {"none", "add", "edit", "delete"},
                   popup : BOOLEAN]
  BY DEF QuickInv, QuickAccess!TypeOK
<1>3. Quiet => Unseen
  BY DEF Unseen, QuickAccess!OnScreen
<1>4. ASSUME QuickAccess!SwitchViewToWebPage PROVE Unseen
  BY <1>2, <1>4 DEF QuickAccess!SwitchViewToWebPage, Unseen, QuickAccess!OnScreen
<1> HIDE DEF Goal
<1>5. CASE UNCHANGED QuickAccess!vars
  BY <1>3, <1>5 DEF QuickAccess!vars, QuickAccess!data, QuickAccess!qa, Goal
<1>6. CASE \/ QuickAccess!Scroll \/ QuickAccess!LayoutResize
           \/ QuickAccess!NewQuickAccessClicked \/ QuickAccess!ShowContextMenu
           \/ QuickAccess!DismissMenu
           \/ \E link \in Links : QuickAccess!QuickAccessDelClicked(link)
           \/ \E i \in DOMAIN entries :
                 QuickAccess!CheckStateChanged(i) \/ QuickAccess!Realized(i)
  <2>1. Quiet
    BY <1>2, <1>6 DEF QuickAccess!Scroll, QuickAccess!LayoutResize,
       QuickAccess!NewQuickAccessClicked, QuickAccess!ShowContextMenu, QuickAccess!DismissMenu,
       QuickAccess!QuickAccessDelClicked, QuickAccess!CheckStateChanged, QuickAccess!Realized,
       QuickAccess!data, QuickAccess!qa
  <2> QED BY <1>3, <2>1 DEF Goal
<1>7. CASE QuickAccess!ThumbClicked \/ QuickAccess!WindowCreated
  BY <1>4, <1>7 DEF QuickAccess!ThumbClicked, QuickAccess!WindowCreated, Goal
<1>8. CASE QuickAccess!BackButtonClicked \/ QuickAccess!CmEditQa \/ QuickAccess!CmDeleteMv
  <2>1. page'.state # "QUICK_ACCESS"
    BY <1>2, <1>8 DEF QuickAccess!BackButtonClicked, QuickAccess!CmEditQa, QuickAccess!CmDeleteMv
  <2> QED BY <2>1 DEF Unseen, QuickAccess!OnScreen, Goal
<1>9. CASE \E where \in {"Links", "Sites"} : QuickAccess!ShowHomePage(where)
  <2>1. PICK where \in {"Links", "Sites"} : QuickAccess!ShowHomePage(where)
    BY <1>9
  <2> QED BY <1>1, <2>1, FilledOK DEF QuickAccess!ShowHomePage, QuickAccess!data, Goal
<1>10. CASE QuickAccess!PopupClosed
  <2>1. entries' = entries /\ state' = state
        /\ page'.state = page.state /\ page'.content = page.content
    BY <1>2, <1>10 DEF QuickAccess!PopupClosed
  <2>2. CASE \E link \in Links : QuickAccess!AddQuickAccessItem(link, FALSE)
    <3>1. PICK link \in Links : QuickAccess!AddQuickAccessItem(link, FALSE)
      BY <2>2
    <3>2. QuickAccess!AreTheMostVisited(most', entries)
      BY <3>1, AddItemOK
    <3> QED BY <2>1, <3>2 DEF Goal
  <2>3. CASE UNCHANGED <<store, edit, grid, most, ticked, marked>>
    BY <1>3, <2>1, <2>3 DEF Goal
  <2> QED BY <1>10, <2>2, <2>3 DEF QuickAccess!PopupClosed
<1>11. CASE QuickAccess!CmAddToQa
  <2>1. entries' = entries /\ state' = state
        /\ page'.state = page.state /\ page'.content = page.content
    BY <1>2, <1>11 DEF QuickAccess!CmAddToQa
  <2>2. PICK link \in Links, titled \in BOOLEAN : QuickAccess!AddQuickAccessItem(link, titled)
    BY <1>11 DEF QuickAccess!CmAddToQa
  <2>3. CASE titled
    <3>1. most' = most
      BY <2>2, <2>3, AddItemOK
    <3> QED BY <1>3, <2>1, <3>1 DEF Goal
  <2>4. CASE ~titled
    <3>1. QuickAccess!AreTheMostVisited(most', entries)
      BY <2>2, <2>4, AddItemOK
    <3> QED BY <2>1, <3>1 DEF Goal
  <2> QED BY <2>3, <2>4
<1>12. CASE QuickAccess!CancelClicked \/ QuickAccess!DoneClicked
  <2>1. PICK f : /\ entries' = f /\ QuickAccess!EditingFinished(f)
                 /\ f = entries \/ f = QuickAccess!DeleteSelected
    BY <1>12 DEF QuickAccess!CancelClicked, QuickAccess!DoneClicked, QuickAccess!data
  <2>2. HistoryOK(f)
    BY <1>1, <2>1, DeletedOK
  <2>3. QuickAccess!AreTheMostVisited(most', f)
    BY <1>1, <2>1, <2>2, ShowUIOK DEF QuickAccess!EditingFinished
  <2> QED BY <2>1, <2>3 DEF Goal
<1>13. CASE \/ \E s \in Sites : QuickAccess!VisitedAgain(s) \/ QuickAccess!VisitedFirst(s)
            \/ QuickAccess!NextDay
  <2>1. UNCHANGED <<page, most, state>>
    BY <1>13 DEF QuickAccess!VisitedAgain, QuickAccess!VisitedFirst, QuickAccess!NextDay,
       QuickAccess!qa
  <2> QED BY <2>1 DEF Unseen, QuickAccess!OnScreen, Goal
<1>14. CASE QuickAccess!ExecSearch
  <2>1. CASE page' = [page EXCEPT !.state = "MAIN_WEB_PAGE", !.content = "web"]
    BY <1>2, <2>1 DEF Unseen, QuickAccess!OnScreen, Goal
  <2>2. CASE QuickAccess!SwitchViewToWebPage
    BY <1>4, <2>2 DEF Goal
  <2> QED BY <1>14, <2>1, <2>2 DEF QuickAccess!ExecSearch
<1>15. CASE QuickAccess!EngineTabClosed
  <2>1. CASE QuickAccess!SwitchViewToQuickAccess
    <3>1. QuickAccess!ShowUI(store, entries) /\ entries' = entries
      BY <1>15, <2>1 DEF QuickAccess!SwitchViewToQuickAccess, QuickAccess!EngineTabClosed,
         QuickAccess!data
    <3>2. QuickAccess!AreTheMostVisited(most', entries)
      BY <1>1, <3>1, ShowUIOK
    <3> QED BY <3>1, <3>2 DEF Goal
  <2>2. CASE QuickAccess!SwitchViewToWebPage
    BY <1>4, <2>2 DEF Goal
  <2> QED BY <1>15, <2>1, <2>2 DEF QuickAccess!EngineTabClosed
<1> HIDE DEF Quiet
<1>16. CASE QuickAccess!Next
  BY <1>6, <1>7, <1>8, <1>9, <1>10, <1>11, <1>12, <1>13, <1>14, <1>15, <1>16
     DEF QuickAccess!Next
<1>17. QuickAccess!Next \/ UNCHANGED QuickAccess!vars
  OBVIOUS
<1> QED BY <1>5, <1>16, <1>17 DEF Goal

LEMMA MostVisitedStep ==
    ASSUME QuickAccess!QuickAccessAssumption, QuickInv, [QuickAccess!Next]_(QuickAccess!vars),
           QuickAccess!OnScreen',
           QuickAccess!OnScreen
               => entries' = entries /\ QuickAccess!AreTheMostVisited(most, entries)
    PROVE  QuickAccess!AreTheMostVisited(most', entries')
<1>1. CASE UNCHANGED <<entries, most>> /\ QuickAccess!OnScreen
  <2>1. most' = most /\ entries' = entries /\ QuickAccess!AreTheMostVisited(most, entries)
    BY <1>1
  <2> QED BY <2>1
<1> QED BY <1>1, FillsOrHides DEF Unseen

-----------------------------------------------------------------------------
(***************************************************************************)
(* The history: what the list shows and what the map knows of an item is   *)
(* the same entry, and an item that is marked is of an entry that the user *)
(* ticked, although the map outlives the items and their addresses.        *)
(***************************************************************************)
Rows == 1 .. MaxRows
Partial == UNION { [A -> Rows] : A \in SUBSET Addresses }

ListType ==
    [day : [History!Days -> SUBSET Rows], open : SUBSET History!Days, at : Partial,
     ticked : SUBSET Addresses, box : BOOLEAN, count : Nat, freed : SUBSET Addresses,
     made : BOOLEAN]
KnownType == [marked : SUBSET Addresses, entry : Partial]

Shown(l) == \A a \in DOMAIN l.at : \E d \in l.open : l.at[a] \in l.day[d]
Below(l, n) == \A d \in History!Days : l.day[d] \subseteq 1 .. n - 1
GoodList(l) == l \in ListType /\ l.ticked \subseteq DOMAIN l.at /\ Shown(l)

SameEntries(l, k) == \A a \in DOMAIN l.at : a \in DOMAIN k.entry /\ k.entry[a] = l.at[a]
GoodKnown(k, c) ==
    /\ k \in KnownType /\ k.marked \subseteq DOMAIN k.entry
    /\ \A a \in k.marked : k.entry[a] \in c

NoTwice(r) ==
    \A i, j \in History!Entries(r, "today") : r[i].url = r[j].url => i = j
GoodRows(r, n) == DOMAIN r \subseteq 1 .. n - 1 /\ \A i \in DOMAIN r : r[i] \in History!Row

HistoryInv ==
    /\ alive \in BOOLEAN /\ all \in BOOLEAN /\ leftover \in BOOLEAN
    /\ next \in 1 .. MaxRows + 1
    /\ view \in {"Closed", "HistoryView", "HistoryDeleteView"}
    /\ chosen \subseteq Rows
    /\ GoodRows(rows, next) /\ NoTwice(rows)
    /\ GoodList(items) /\ Below(items, next)
    /\ GoodKnown(known, chosen) /\ SameEntries(items, known)

LEMMA HistoryInvEnough == HistoryInv => History!TypeOK /\ History!OneRowPerDay
<1> SUFFICES ASSUME HistoryInv PROVE History!TypeOK /\ History!OneRowPerDay
  OBVIOUS
<1>1. DOMAIN items.day = History!Days /\ items.open \subseteq History!Days /\ items.count \in Nat
  BY DEF HistoryInv, GoodList, ListType
<1>2. History!Listed(items) \subseteq 1 .. next - 1
  BY DEF HistoryInv, Below, History!Listed
<1>3. DOMAIN items.at \subseteq Addresses
  BY DEF HistoryInv, GoodList, ListType, Partial
<1>4. \A a \in DOMAIN items.at : items.at[a] \in UNION { items.day[d] : d \in items.open }
  BY DEF HistoryInv, GoodList, Shown
<1>5. items.ticked \subseteq DOMAIN items.at /\ known.marked \subseteq DOMAIN known.entry
  BY DEF HistoryInv, GoodList, GoodKnown
<1>6. \A a \in DOMAIN items.at : a \in DOMAIN known.entry
  BY DEF HistoryInv, SameEntries
<1>7. History!TypeOK
  BY <1>1, <1>2, <1>3, <1>4, <1>5, <1>6
  DEF HistoryInv, History!TypeOK, GoodRows, History!Ids, Rows
<1> QED BY <1>7 DEF HistoryInv, NoTwice, History!OneRowPerDay

(* Functions of some items to rows: by their values, and cut to some.      *)
LEMMA PartialOK ==
    ASSUME NEW f
    PROVE  f \in Partial <=> /\ f = [a \in DOMAIN f |-> f[a]]
                             /\ DOMAIN f \subseteq Addresses /\ \A a \in DOMAIN f : f[a] \in Rows
<1>1. ASSUME f \in Partial
      PROVE  /\ f = [a \in DOMAIN f |-> f[a]]
             /\ DOMAIN f \subseteq Addresses /\ \A a \in DOMAIN f : f[a] \in Rows
  BY <1>1 DEF Partial
<1>2. ASSUME f = [a \in DOMAIN f |-> f[a]], DOMAIN f \subseteq Addresses,
             \A a \in DOMAIN f : f[a] \in Rows
      PROVE  f \in Partial
  <2>1. f \in [DOMAIN f -> Rows]
    BY <1>2
  <2> QED BY <1>2, <2>1 DEF Partial
<1> QED BY <1>1, <1>2

LEMMA RestrictOK ==
    ASSUME NEW f \in Partial, NEW A, A \subseteq DOMAIN f
    PROVE  /\ History!Restrict(f, A) \in Partial
           /\ DOMAIN History!Restrict(f, A) = A
           /\ \A a \in A : History!Restrict(f, A)[a] = f[a]
<1> DEFINE g == History!Restrict(f, A)
<1>1. g = [a \in A |-> f[a]]
  BY DEF History!Restrict
<1>2. DOMAIN g = A /\ \A a \in A : g[a] = f[a]
  BY <1>1
<1>3. DOMAIN f \subseteq Addresses /\ \A a \in DOMAIN f : f[a] \in Rows
  BY PartialOK
<1>4. g = [a \in DOMAIN g |-> g[a]]
  BY <1>1, <1>2
<1> HIDE DEF g
<1>5. g \in Partial
  BY <1>2, <1>3, <1>4, PartialOK
<1> QED BY <1>2, <1>5 DEF g

(* Two such functions, of which the second counts.                         *)
LEMMA JoinOK ==
    ASSUME NEW f \in Partial, NEW g \in Partial
    PROVE  LET h == [a \in DOMAIN f \cup DOMAIN g |-> IF a \in DOMAIN g THEN g[a] ELSE f[a]]
           IN  /\ h \in Partial /\ DOMAIN h = DOMAIN f \cup DOMAIN g
               /\ \A a \in DOMAIN h : h[a] = IF a \in DOMAIN g THEN g[a] ELSE f[a]
<1> DEFINE h == [a \in DOMAIN f \cup DOMAIN g |-> IF a \in DOMAIN g THEN g[a] ELSE f[a]]
<1>1. /\ DOMAIN f \subseteq Addresses /\ \A a \in DOMAIN f : f[a] \in Rows
      /\ DOMAIN g \subseteq Addresses /\ \A a \in DOMAIN g : g[a] \in Rows
  BY PartialOK
<1>2. /\ DOMAIN h = DOMAIN f \cup DOMAIN g
      /\ \A a \in DOMAIN h : h[a] = IF a \in DOMAIN g THEN g[a] ELSE f[a]
  OBVIOUS
<1>3. h = [a \in DOMAIN h |-> h[a]]
  OBVIOUS
<1> HIDE DEF h
<1>4. h \in Partial
  BY <1>1, <1>2, <1>3, PartialOK
<1> QED BY <1>2, <1>4 DEF h

LEMMA CountOK ==
    ASSUME History!HistoryAssumption
    PROVE  /\ \A A \in SUBSET Addresses : History!Cardinality(A) \in Nat
           /\ \A l \in ListType : History!Cardinality(History!Listed(l)) \in Nat
<1>1. ASSUME NEW A, IsFiniteSet(A) PROVE History!Cardinality(A) \in Nat
  <2>1. History!Cardinality(A) = Cardinality(A)
    BY DEF History!Cardinality, Cardinality
  <2> QED BY <1>1, <2>1, FS_CardinalityType
<1>2. IsFiniteSet(Addresses)
  BY DEF History!HistoryAssumption, History!IsFiniteSet, IsFiniteSet
<1>3. IsFiniteSet(Rows)
  BY FS_Interval DEF Rows, History!HistoryAssumption
<1>4. ASSUME NEW l \in ListType PROVE History!Listed(l) \subseteq Rows
  <2>1. l.day \in [History!Days -> SUBSET Rows]
    BY DEF ListType
  <2> QED BY <2>1 DEF History!Listed
<1>5. \A A \in SUBSET Addresses : IsFiniteSet(A)
  BY <1>2, FS_Subset
<1>6. \A l \in ListType : IsFiniteSet(History!Listed(l))
  BY <1>3, <1>4, FS_Subset
<1> QED BY <1>1, <1>5, <1>6

(* The empty list, and one of the days of the table.                       *)
LEMMA NoListOK ==
    /\ History!NoList \in ListType /\ History!NoList.ticked = {}
    /\ DOMAIN History!NoList.at = {} /\ \A d \in History!Days : History!NoList.day[d] = {}
<1> DEFINE none == [a \in {} |-> 1]
           days == [d \in History!Days |-> {}]
<1>1. none \in Partial /\ DOMAIN none = {}
  <2>1. DOMAIN none = {} /\ none = [a \in DOMAIN none |-> none[a]]
    OBVIOUS
  <2> HIDE DEF none
  <2> QED BY <2>1, PartialOK
<1>2. History!NoList = [day |-> days, open |-> {}, at |-> none, ticked |-> {}, box |-> FALSE,
                        count |-> 0, freed |-> {}, made |-> FALSE]
  BY DEF History!NoList
<1>3. days \in [History!Days -> SUBSET Rows] /\ \A d \in History!Days : days[d] = {}
  OBVIOUS
<1> HIDE DEF none, days
<1> QED BY <1>1, <1>2, <1>3 DEF ListType

LEMMA FreshListOK ==
    ASSUME NEW l \in ListType, l.ticked = {}, DOMAIN l.at = {}, NEW n, NEW k, Below(l, n)
    PROVE  GoodList(l) /\ Below(l, n) /\ SameEntries(l, k)
BY DEF GoodList, Below, SameEntries, Shown

LEMMA NewListOK ==
    ASSUME History!HistoryAssumption, NEW r, NEW n \in 1 .. MaxRows + 1, GoodRows(r, n),
           NEW count \in Nat, NEW k, NEW l,
           LET days == [d \in History!Days |-> History!Entries(r, d)]
           IN  \/ l = [History!NoList EXCEPT !.day = days, !.made = TRUE, !.count = count]
               \/ l = [History!NoList EXCEPT !.made = TRUE, !.day = days]
    PROVE  GoodList(l) /\ Below(l, n) /\ SameEntries(l, k)
<1> DEFINE days == [d \in History!Days |-> History!Entries(r, d)]
<1>1. \A d \in History!Days : History!Entries(r, d) \subseteq 1 .. n - 1
  BY DEF GoodRows, History!Entries
<1>2. days \in [History!Days -> SUBSET Rows]
  BY <1>1 DEF Rows, History!HistoryAssumption
<1>3. \A d \in History!Days : days[d] \subseteq 1 .. n - 1
  BY <1>1
<1>4. \/ l = [History!NoList EXCEPT !.day = days, !.made = TRUE, !.count = count]
      \/ l = [History!NoList EXCEPT !.made = TRUE, !.day = days]
  OBVIOUS
<1> HIDE DEF days
<1>5. /\ l \in ListType /\ l.ticked = {} /\ DOMAIN l.at = {}
      /\ l.day = days
  BY <1>2, <1>4, NoListOK DEF ListType
<1> QED BY <1>3, <1>5, FreshListOK DEF Below

LEMMA NothingKnownOK ==
    ASSUME NEW c
    PROVE  GoodKnown(History!NothingKnown, c)
<1> DEFINE none == [a \in {} |-> 1]
           k == [marked |-> {}, entry |-> none]
<1>1. none \in Partial
  <2>1. DOMAIN none = {} /\ none = [a \in DOMAIN none |-> none[a]]
    OBVIOUS
  <2> HIDE DEF none
  <2> QED BY <2>1, PartialOK
<1>2. History!NothingKnown = k
  BY DEF History!NothingKnown
<1> HIDE DEF none
<1>3. k \in KnownType /\ k.marked = {}
  BY <1>1 DEF KnownType
<1> HIDE DEF k
<1> QED BY <1>2, <1>3 DEF GoodKnown

(* The rows that are left when some are deleted.                           *)
LEMMA WithoutOK ==
    ASSUME NEW r, NEW n, GoodRows(r, n), NoTwice(r), NEW ids
    PROVE  /\ GoodRows(History!Without(r, ids), n) /\ NoTwice(History!Without(r, ids))
           /\ DOMAIN History!Without(r, ids) = DOMAIN r \ ids
<1> DEFINE w == History!Without(r, ids)
<1>1. DOMAIN w = DOMAIN r \ ids /\ \A i \in DOMAIN w : w[i] = r[i]
  BY DEF History!Without, History!Restrict
<1> HIDE DEF w
<1>2. GoodRows(w, n)
  BY <1>1 DEF GoodRows
<1>3. \A i \in History!Entries(w, "today") : i \in History!Entries(r, "today") /\ w[i] = r[i]
  BY <1>1 DEF History!Entries
<1>4. NoTwice(w)
  BY <1>3 DEF NoTwice
<1> QED BY <1>1, <1>2, <1>4 DEF w

LEMMA HistoryInvInit == History!HistoryAssumption /\ History!Init => HistoryInv
<1> SUFFICES ASSUME History!HistoryAssumption, History!Init PROVE HistoryInv
  OBVIOUS
<1>1. /\ alive = TRUE /\ next = 1 /\ view = "Closed" /\ items = History!NoList
      /\ known = History!NothingKnown /\ all = FALSE /\ leftover = FALSE /\ chosen = {}
      /\ DOMAIN rows = {}
  BY DEF History!Init
<1>2. GoodRows(rows, next) /\ NoTwice(rows) /\ Below(items, next)
  BY <1>1, NoListOK DEF GoodRows, NoTwice, History!Entries, Below
<1>3. GoodList(items) /\ SameEntries(items, known)
  BY <1>1, <1>2, NoListOK, FreshListOK
<1>4. GoodKnown(known, chosen)
  BY <1>1, NothingKnownOK
<1>5. next \in 1 .. MaxRows + 1
  BY <1>1 DEF History!HistoryAssumption
<1>6. chosen \subseteq Rows
  BY <1>1
<1>7. /\ alive \in BOOLEAN /\ all \in BOOLEAN /\ leftover \in BOOLEAN
      /\ view \in {"Closed", "HistoryView", "HistoryDeleteView"}
  BY <1>1
<1> QED BY <1>2, <1>3, <1>4, <1>5, <1>6, <1>7 DEF HistoryInv

LEMMA MoreRows ==
    ASSUME NEW m \in Int, NEW n \in Int, m <= n
    PROVE  1 .. m - 1 \subseteq 1 .. n - 1
OBVIOUS

(* The table changes under the list.                                       *)
LEMMA RowSteps ==
    ASSUME History!HistoryAssumption, HistoryInv,
           \/ \E u \in Urls : History!AddHistoryItem(u) \/ History!ClearURLHistory(u)
           \/ History!ClearAllHistory \/ History!NextDay
    PROVE  HistoryInv'
<1>1. /\ UNCHANGED <<alive, view, items, known, all, leftover, chosen>>
      /\ GoodRows(rows', next') /\ NoTwice(rows')
      /\ next' \in 1 .. MaxRows + 1 /\ next <= next'
  <2>a. next \in 1 .. MaxRows + 1 /\ GoodRows(rows, next) /\ NoTwice(rows)
    BY DEF HistoryInv
  <2>b. next <= next
    BY <2>a DEF History!HistoryAssumption
  <2>1. next \in 1 .. MaxRows + 1 /\ next <= next /\ GoodRows(rows, next) /\ NoTwice(rows)
    BY <2>a, <2>b
  <2>2. ASSUME NEW u \in Urls, History!AddHistoryItem(u)
        PROVE  /\ GoodRows(rows', next') /\ NoTwice(rows')
               /\ next' \in 1 .. MaxRows + 1 /\ next <= next'
    <3>1. CASE History!IsDuplicate(u)
      BY <2>1, <2>2, <3>1 DEF History!AddHistoryItem
    <3>2. CASE ~History!IsDuplicate(u)
      <4> DEFINE new == [url |-> u, day |-> "today"]
      <4>1. /\ next \in 1 .. MaxRows /\ next' = next + 1
            /\ rows' = [i \in DOMAIN rows \cup {next} |-> IF i = next THEN new ELSE rows[i]]
        BY <2>2, <3>2 DEF History!AddHistoryItem, History!Ids
      <4>2. new \in History!Row /\ new.url = u
        BY DEF History!Row, History!Days
      <4> HIDE DEF new
      <4>3. DOMAIN rows \subseteq 1 .. next - 1 /\ \A i \in DOMAIN rows : rows[i] \in History!Row
        BY <2>1 DEF GoodRows
      <4>4. /\ DOMAIN rows' = DOMAIN rows \cup {next} /\ rows'[next] = new
            /\ \A i \in DOMAIN rows : rows'[i] = rows[i]
        BY <2>1, <4>1, <4>3
      <4>5. next' \in 1 .. MaxRows + 1 /\ next <= next' /\ 1 .. next - 1 \cup {next} \subseteq 1 .. next' - 1
        BY <4>1, <2>1 DEF History!HistoryAssumption
      <4>6. GoodRows(rows', next')
        BY <4>2, <4>3, <4>4, <4>5 DEF GoodRows
      <4>7. \A i \in History!Entries(rows', "today") :
               \/ i = next
               \/ i \in History!Entries(rows, "today") /\ rows'[i] = rows[i] /\ rows[i].url # u
        BY <3>2, <4>4 DEF History!Entries, History!IsDuplicate
      <4>8. NoTwice(rows')
        BY <2>1, <4>2, <4>4, <4>7 DEF NoTwice
      <4> QED BY <4>5, <4>6, <4>8
    <3> QED BY <3>1, <3>2
  <2>3. ASSUME NEW ids, rows' = History!Without(rows, ids), next' = next
        PROVE  GoodRows(rows', next') /\ NoTwice(rows')
    BY <2>1, <2>3, WithoutOK
  <2>4. CASE History!NextDay
    <3>1. /\ DOMAIN rows' = DOMAIN rows /\ next' = next
          /\ \A i \in DOMAIN rows : rows'[i] = [rows[i] EXCEPT !.day = "older"]
      BY <2>4 DEF History!NextDay
    <3>2. \A i \in DOMAIN rows : rows'[i] \in History!Row /\ rows'[i].day = "older"
      BY <2>1, <3>1 DEF GoodRows, History!Row, History!Days
    <3>3. GoodRows(rows', next') /\ NoTwice(rows')
      BY <2>1, <3>1, <3>2 DEF GoodRows, NoTwice, History!Entries
    <3> QED BY <2>1, <2>4, <3>1, <3>3 DEF History!NextDay
  <2>5. CASE History!ClearAllHistory
    BY <2>1, <2>3, <2>5 DEF History!ClearAllHistory
  <2>6. ASSUME NEW u \in Urls, History!ClearURLHistory(u)
        PROVE  GoodRows(rows', next') /\ NoTwice(rows') /\ next' = next
    BY <2>1, <2>3, <2>6 DEF History!ClearURLHistory
  <2>7. UNCHANGED <<alive, view, items, known, all, leftover, chosen>>
    BY DEF History!AddHistoryItem, History!ClearURLHistory, History!ClearAllHistory, History!NextDay
  <2>8. ASSUME next' = next
        PROVE  next' \in 1 .. MaxRows + 1 /\ next <= next'
    BY <2>1, <2>8
  <2>9. CASE History!ClearAllHistory \/ \E u \in Urls : History!ClearURLHistory(u)
    <3>1. GoodRows(rows', next') /\ NoTwice(rows') /\ next' = next
      BY <2>5, <2>6, <2>9 DEF History!ClearAllHistory
    <3> QED BY <2>7, <2>8, <3>1
  <2> QED BY <2>2, <2>4, <2>7, <2>9
<1>2. Below(items, next')
  <2>1. next \in 1 .. MaxRows + 1
    BY DEF HistoryInv
  <2>2. next \in Int /\ next' \in Int /\ next <= next'
    BY <1>1, <2>1
  <2>3. 1 .. next - 1 \subseteq 1 .. next' - 1
    BY <2>2, MoreRows
  <2> QED BY <2>3 DEF HistoryInv, Below
<1> QED BY <1>1, <1>2 DEF HistoryInv

(* The views are opened and left: a new list shows no items yet.           *)
LEMMA ShowHistoryOK ==
    ASSUME History!HistoryAssumption, HistoryInv,
           NEW mode \in {"HistoryView", "HistoryDeleteView"}, NEW leftovers,
           History!ShowHistoryUI(mode, leftovers)
    PROVE  /\ alive' \in BOOLEAN /\ view' \in {"Closed", "HistoryView", "HistoryDeleteView"}
           /\ GoodList(items') /\ Below(items', next) /\ SameEntries(items', known)
<1> DEFINE n == IF leftovers THEN 1 ELSE 0
<1>1. /\ alive' \in BOOLEAN /\ view' = mode /\ n \in Nat
      /\ items' = [History!NoList EXCEPT !.day = [d \in History!Days |-> History!Entries(rows, d)],
                                         !.made = TRUE, !.count = n]
  BY DEF History!ShowHistoryUI, History!GetHistoryItems
<1> HIDE DEF n
<1> QED BY <1>1, NewListOK DEF HistoryInv

LEMMA ViewSteps ==
    ASSUME History!HistoryAssumption, HistoryInv,
           \/ History!OpenHistory \/ History!OpenDelete \/ History!OnBackPressed
           \/ History!Restart \/ \E a \in Addresses : History!ItemSelected(a)
    PROVE  HistoryInv'
<1>1. CASE History!OpenHistory \/ History!OpenDelete
  <2>1. PICK mode \in {"HistoryView", "HistoryDeleteView"}, leftovers \in BOOLEAN :
          History!ShowHistoryUI(mode, leftovers)
    BY <1>1 DEF History!OpenHistory, History!OpenDelete, HistoryInv
  <2> QED BY <1>1, <2>1, ShowHistoryOK DEF HistoryInv, History!OpenHistory, History!OpenDelete
<1>2. CASE History!OnBackPressed
  <2>1. CASE History!ShowHistoryUI("HistoryView", FALSE)
    BY <1>2, <2>1, ShowHistoryOK DEF HistoryInv, History!OnBackPressed
  <2>2. CASE view' = "Closed" /\ UNCHANGED <<alive, items>>
    BY <1>2, <2>2 DEF HistoryInv, History!OnBackPressed
  <2> QED BY <1>2, <2>1, <2>2 DEF History!OnBackPressed
<1>3. CASE History!Restart
  <2>1. Below(items', next)
    BY <1>3, NoListOK DEF History!Restart, Below
  <2>2. GoodList(items') /\ SameEntries(items', known')
    BY <1>3, <2>1, NoListOK, FreshListOK DEF History!Restart
  <2>3. GoodKnown(known', chosen)
    BY <1>3, NothingKnownOK DEF History!Restart
  <2> QED BY <1>3, <2>1, <2>2, <2>3 DEF HistoryInv, History!Restart
<1>4. ASSUME NEW a \in Addresses, History!ItemSelected(a)
      PROVE  HistoryInv'
  <2>1. items' = [items EXCEPT !.freed = @ \cup {a}] /\ items \in ListType
    BY <1>4 DEF History!ItemSelected, HistoryInv, GoodList
  <2>2. /\ items' \in ListType /\ items'.ticked = items.ticked /\ items'.at = items.at
        /\ items'.day = items.day /\ items'.open = items.open
    BY <2>1 DEF ListType
  <2>3. GoodList(items') /\ Below(items', next) /\ SameEntries(items', known)
    BY <2>2 DEF HistoryInv, GoodList, Shown, Below, SameEntries
  <2> QED BY <1>4, <2>3 DEF HistoryInv, History!ItemSelected
<1> QED BY <1>1, <1>2, <1>3, <1>4

(* A heading is opened: its items are made, at addresses that may have     *)
(* been those of others.                                                   *)
LEMMA ExpandStep ==
    ASSUME History!HistoryAssumption, HistoryInv, NEW d \in History!Days, History!Expand(d)
    PROVE  HistoryInv'
<1> DEFINE joined(at) == [a \in DOMAIN items.at \cup DOMAIN at |->
                             IF a \in DOMAIN at THEN at[a] ELSE items.at[a]]
           told(at) == [a \in DOMAIN known.entry \cup DOMAIN at |->
                           IF a \in DOMAIN at THEN at[a] ELSE known.entry[a]]
<1>1. /\ items \in ListType /\ items.day \in [History!Days -> SUBSET Rows]
      /\ items.at \in Partial /\ known.entry \in Partial /\ known.marked \in SUBSET Addresses
  BY DEF HistoryInv, GoodList, GoodKnown, ListType, KnownType
<1>2. PICK at :
        /\ at \in Partial /\ \A a \in DOMAIN at : at[a] \in items.day[d]
        /\ items' = History!MakeBoxes([items EXCEPT !.open = @ \cup {d}, !.at = joined(at)])
        /\ known' = [marked |-> known.marked \ DOMAIN at, entry |-> told(at)]
  <2>1. PICK where \in SUBSET (Addresses \ DOMAIN items.at) : \E at \in [where -> items.day[d]] :
          /\ items' = History!MakeBoxes([items EXCEPT !.open = @ \cup {d},
                         !.at = [a \in DOMAIN @ \cup where |-> IF a \in where THEN at[a] ELSE @[a]]])
          /\ known' = History!Remember(at)
    BY DEF History!Expand
  <2>2. PICK at \in [where -> items.day[d]] :
          /\ items' = History!MakeBoxes([items EXCEPT !.open = @ \cup {d},
                         !.at = [a \in DOMAIN @ \cup where |-> IF a \in where THEN at[a] ELSE @[a]]])
          /\ known' = History!Remember(at)
    BY <2>1
  <2>3. DOMAIN at = where /\ where \subseteq Addresses /\ \A a \in where : at[a] \in items.day[d]
    BY <2>1
  <2>4. at = [a \in DOMAIN at |-> at[a]] /\ \A a \in DOMAIN at : at[a] \in Rows
    BY <1>1, <2>3
  <2>5. at \in Partial
    BY <2>3, <2>4, PartialOK
  <2>6. items' = History!MakeBoxes([items EXCEPT !.open = @ \cup {d}, !.at = joined(at)])
    BY <2>2, <2>3
  <2>7. known' = [marked |-> known.marked \ DOMAIN at, entry |-> told(at)]
    BY <2>2 DEF History!Remember
  <2> QED BY <2>3, <2>5, <2>6, <2>7
<1> DEFINE h == joined(at)
           t == told(at)
<1>3. /\ h \in Partial /\ DOMAIN h = DOMAIN items.at \cup DOMAIN at
      /\ \A a \in DOMAIN h : h[a] = IF a \in DOMAIN at THEN at[a] ELSE items.at[a]
  BY <1>1, <1>2, JoinOK
<1>4. /\ t \in Partial /\ DOMAIN t = DOMAIN known.entry \cup DOMAIN at
      /\ \A a \in DOMAIN t : t[a] = IF a \in DOMAIN at THEN at[a] ELSE known.entry[a]
  BY <1>1, <1>2, JoinOK
<1>5. DOMAIN h \subseteq Addresses
  BY <1>3, PartialOK
<1>6. known' = [marked |-> known.marked \ DOMAIN at, entry |-> t]
  BY <1>2
<1> DEFINE m == [items EXCEPT !.open = @ \cup {d}, !.at = h]
<1>7. items' = History!MakeBoxes(m)
  BY <1>2
<1> HIDE DEF joined, told, h, t
<1>8. /\ m \in ListType /\ m.open = items.open \cup {d} /\ m.at = h /\ m.day = items.day
  BY <1>1, <1>3 DEF ListType
<1> HIDE DEF m
<1>9. /\ items' \in ListType /\ items'.open = items.open \cup {d} /\ items'.at = h
      /\ items'.day = items.day /\ items'.ticked \subseteq DOMAIN h
  <2> DEFINE boxes == IF all /\ view = "HistoryDeleteView" THEN DOMAIN m.at ELSE {}
             b == all /\ DOMAIN m.at # {}
  <2>1. items' = [m EXCEPT !.ticked = boxes, !.box = b]
    BY <1>7 DEF History!MakeBoxes
  <2>2. boxes \subseteq DOMAIN h /\ boxes \in SUBSET Addresses /\ b \in BOOLEAN
    BY <1>5, <1>8 DEF HistoryInv
  <2> HIDE DEF boxes, b
  <2> QED BY <1>8, <2>1, <2>2 DEF ListType
<1>10. GoodList(items') /\ Below(items', next)
  <2>1. \A a \in DOMAIN h : \E e \in items'.open : h[a] \in items.day[e]
    BY <1>2, <1>3, <1>9 DEF HistoryInv, GoodList, Shown
  <2> QED BY <1>9, <2>1 DEF HistoryInv, GoodList, Shown, Below
<1>11. SameEntries(items', known')
  BY <1>3, <1>4, <1>6, <1>9 DEF HistoryInv, SameEntries
<1>12. GoodKnown(known', chosen)
  <2>1. known' \in KnownType /\ known'.marked = known.marked \ DOMAIN at /\ known'.entry = t
    BY <1>1, <1>4, <1>6 DEF KnownType
  <2> QED BY <1>4, <2>1 DEF HistoryInv, GoodKnown
<1> QED BY <1>10, <1>11, <1>12 DEF HistoryInv, History!Expand

(* A heading is closed: its items go, and their boxes.                     *)
LEMMA ContractStep ==
    ASSUME History!HistoryAssumption, HistoryInv, NEW d \in History!Days, History!Contract(d)
    PROVE  HistoryInv'
<1> DEFINE folded == {a \in DOMAIN items.at : items.at[a] \in items.day[d]}
           h == History!Restrict(items.at, DOMAIN items.at \ folded)
<1>1. items \in ListType /\ items.at \in Partial
  BY DEF HistoryInv, GoodList, ListType
<1>2. /\ h \in Partial /\ DOMAIN h = DOMAIN items.at \ folded
      /\ \A a \in DOMAIN h : h[a] = items.at[a]
  BY <1>1, RestrictOK
<1>3. items' = [items EXCEPT !.open = @ \ {d}, !.ticked = @ \ folded, !.at = h]
  BY DEF History!Contract
<1>4. \A a \in DOMAIN items.at \ folded : items.at[a] \notin items.day[d]
  OBVIOUS
<1> HIDE DEF folded, h
<1>5. /\ items' \in ListType /\ items'.open = items.open \ {d}
      /\ items'.ticked = items.ticked \ folded /\ items'.at = h /\ items'.day = items.day
  BY <1>1, <1>2, <1>3 DEF ListType
<1>6. \A a \in DOMAIN h : \E e \in items.open \ {d} : h[a] \in items.day[e]
  BY <1>2, <1>4 DEF HistoryInv, GoodList, Shown
<1>7. GoodList(items') /\ Below(items', next)
  BY <1>2, <1>5, <1>6 DEF HistoryInv, GoodList, Shown, Below
<1>8. SameEntries(items', known)
  BY <1>2, <1>5 DEF HistoryInv, SameEntries
<1> QED BY <1>7, <1>8 DEF HistoryInv, History!Contract

(* A box is ticked, or not any more: the map learns all that are.          *)
LEMMA TickStep ==
    ASSUME History!HistoryAssumption, HistoryInv, NEW a \in Addresses, History!Tick(a)
    PROVE  HistoryInv'
<1> DEFINE boxes == IF a \in items.ticked THEN items.ticked \ {a} ELSE items.ticked \cup {a}
           m == [items EXCEPT !.ticked = boxes]
<1>1. /\ items \in ListType /\ items.ticked \subseteq DOMAIN items.at
      /\ items.at \in Partial /\ known \in KnownType
  BY DEF HistoryInv, GoodList, GoodKnown, ListType
<1>2. /\ a \in DOMAIN items.at /\ view = "HistoryDeleteView"
      /\ chosen' = chosen \cup {items.at[b] : b \in boxes}
      /\ History!CountItemsToDelete(m)
      /\ UNCHANGED <<alive, rows, next, view, all, leftover>>
  BY DEF History!Tick
<1>3. boxes \subseteq DOMAIN items.at
  BY <1>1, <1>2
<1>4. DOMAIN items.at \subseteq Addresses /\ \A b \in DOMAIN items.at : items.at[b] \in Rows
  BY <1>1, PartialOK
<1> HIDE DEF boxes
<1>5. /\ m \in ListType /\ m.ticked = boxes /\ m.at = items.at /\ m.open = items.open
      /\ m.day = items.day
  BY <1>1, <1>3, <1>4 DEF ListType
<1> HIDE DEF m
<1>6. History!Cardinality(m.ticked) \in Nat
  BY <1>3, <1>4, <1>5, CountOK
<1>7. /\ items' \in ListType /\ items'.ticked = boxes /\ items'.at = items.at
      /\ items'.open = items.open /\ items'.day = items.day
  <2> DEFINE n == History!Cardinality(m.ticked)
             b == IF n = History!Cardinality(History!Listed(m)) THEN TRUE
                  ELSE IF m.ticked = {} THEN FALSE ELSE m.box
  <2>1. items' = [m EXCEPT !.count = n, !.box = b]
    BY <1>2 DEF History!CountItemsToDelete
  <2>2. b \in BOOLEAN /\ n \in Nat
    BY <1>5, <1>6 DEF ListType
  <2> HIDE DEF n, b
  <2> QED BY <1>5, <2>1, <2>2 DEF ListType
<1>8. /\ known' = [known EXCEPT !.marked = (@ \ DOMAIN items.at) \cup boxes]
  BY <1>2, <1>5 DEF History!CountItemsToDelete
<1>9. /\ known' \in KnownType /\ known'.entry = known.entry
      /\ known'.marked = (known.marked \ DOMAIN items.at) \cup boxes
  BY <1>1, <1>3, <1>4, <1>8 DEF KnownType
<1>10. GoodList(items') /\ Below(items', next) /\ SameEntries(items', known')
  BY <1>3, <1>7, <1>9 DEF HistoryInv, GoodList, Shown, Below, SameEntries
<1>11. GoodKnown(known', chosen') /\ chosen' \subseteq Rows
  BY <1>2, <1>3, <1>4, <1>9 DEF HistoryInv, GoodKnown, SameEntries
<1> QED BY <1>2, <1>10, <1>11 DEF HistoryInv

LEMMA SelectAllStep ==
    ASSUME History!HistoryAssumption, HistoryInv, History!SelectAllCheckboxes
    PROVE  HistoryInv'
<1> DEFINE boxes == IF all' THEN DOMAIN items.at ELSE {}
           n == IF all' THEN History!Cardinality(History!Listed(items)) ELSE 0
<1>1. items \in ListType /\ DOMAIN items.at \subseteq Addresses
  BY PartialOK DEF HistoryInv, GoodList, ListType
<1>2. /\ all' = ~items.box /\ all' \in BOOLEAN
      /\ items' = [items EXCEPT !.box = all', !.ticked = boxes, !.count = n]
  BY <1>1 DEF History!SelectAllCheckboxes, ListType
<1>3. boxes \subseteq DOMAIN items.at /\ n \in Nat
  BY <1>1, CountOK
<1> HIDE DEF boxes, n
<1>4. /\ items' \in ListType /\ items'.ticked = boxes /\ items'.at = items.at
      /\ items'.open = items.open /\ items'.day = items.day
  BY <1>1, <1>2, <1>3 DEF ListType
<1>5. GoodList(items') /\ Below(items', next) /\ SameEntries(items', known)
  BY <1>3, <1>4 DEF HistoryInv, GoodList, Shown, Below, SameEntries
<1> QED BY <1>2, <1>5 DEF HistoryInv, History!SelectAllCheckboxes

(* Done deletes what is marked, which the user has ticked.                 *)
LEMMA DoneDeletes ==
    ASSUME History!HistoryAssumption, HistoryInv, History!Done
    PROVE  /\ HistoryInv'
           /\ ~all => DOMAIN rows \ DOMAIN rows' \subseteq chosen
<1>1. next \in 1 .. MaxRows + 1 /\ GoodRows(rows, next) /\ NoTwice(rows) /\ GoodKnown(known, chosen)
  BY DEF HistoryInv
<1>2. /\ GoodRows(rows', next) /\ NoTwice(rows') /\ GoodKnown(known', chosen) /\ alive' \in BOOLEAN
      /\ ~all => DOMAIN rows \ DOMAIN rows' \subseteq chosen
  <2>1. CASE all
    <3>1. rows' = History!Without(rows, History!Ids) /\ known' = History!NothingKnown /\ alive' = TRUE
      BY <2>1 DEF History!Done
    <3> QED BY <1>1, <2>1, <3>1, WithoutOK, NothingKnownOK
  <2>2. CASE ~all
    <3>1. PICK done \in SUBSET known.marked :
            /\ rows' = History!Without(rows, {known.entry[a] : a \in done})
            /\ known' = [marked |-> known.marked \ done,
                         entry |-> History!Restrict(known.entry, DOMAIN known.entry \ done)]
            /\ alive' \in BOOLEAN
      <4>1. PICK result \in History!RemoveSelectedItems :
              /\ rows' = History!Without(rows, {known.entry[a] : a \in result[1]})
              /\ known' = result[2]
              /\ alive' \in IF known.marked = {} THEN {TRUE} ELSE BOOLEAN
        BY <2>2 DEF History!Done
      <4>2. PICK done \in SUBSET known.marked :
              result = <<done, [marked |-> known.marked \ done,
                                entry |-> History!Restrict(known.entry, DOMAIN known.entry \ done)]>>
        BY DEF History!RemoveSelectedItems
      <4>3. result[1] = done /\ result[2] = [marked |-> known.marked \ done,
                                entry |-> History!Restrict(known.entry, DOMAIN known.entry \ done)]
        BY <4>2
      <4> QED BY <4>1, <4>3
    <3>2. {known.entry[a] : a \in done} \subseteq chosen
      BY <1>1 DEF GoodKnown
    <3> DEFINE e == History!Restrict(known.entry, DOMAIN known.entry \ done)
    <3>3. /\ known \in KnownType /\ known.entry \in Partial /\ known.marked \subseteq DOMAIN known.entry
          /\ known.marked \in SUBSET Addresses
      BY <1>1 DEF GoodKnown, KnownType
    <3>4. /\ e \in Partial /\ DOMAIN e = DOMAIN known.entry \ done
          /\ \A a \in DOMAIN e : e[a] = known.entry[a]
      BY <3>3, RestrictOK
    <3>5. known' = [marked |-> known.marked \ done, entry |-> e]
      BY <3>1
    <3> HIDE DEF e
    <3>6. known' \in KnownType /\ known'.marked = known.marked \ done /\ known'.entry = e
      BY <3>3, <3>4, <3>5 DEF KnownType
    <3>7. GoodKnown(known', chosen)
      BY <1>1, <3>3, <3>4, <3>6 DEF GoodKnown
    <3>8. DOMAIN rows' = DOMAIN rows \ {known.entry[a] : a \in done}
      BY <1>1, <3>1, WithoutOK
    <3>9. GoodRows(rows', next) /\ NoTwice(rows')
      BY <1>1, <3>1, WithoutOK
    <3> QED BY <3>1, <3>2, <3>7, <3>8, <3>9
  <2> QED BY <2>1, <2>2 DEF HistoryInv
<1>3. items' = [History!NoList EXCEPT !.made = TRUE,
                  !.day = [d \in History!Days |-> History!Entries(rows', d)]]
  BY DEF History!Done
<1>4. GoodList(items') /\ Below(items', next) /\ SameEntries(items', known')
  <2>1. 0 \in Nat
    OBVIOUS
  <2> QED BY <1>1, <1>2, <1>3, <2>1, NewListOK
<1>5. view' = "HistoryView" /\ UNCHANGED <<next, all, leftover, chosen>>
  BY DEF History!Done
<1> QED BY <1>2, <1>4, <1>5 DEF HistoryInv

LEMMA HistoryInvNext ==
    History!HistoryAssumption /\ HistoryInv /\ [History!Next]_(History!vars) => HistoryInv'
<1> SUFFICES ASSUME History!HistoryAssumption, HistoryInv, [History!Next]_(History!vars)
             PROVE  HistoryInv'
  OBVIOUS
<1>1. CASE UNCHANGED History!vars
  BY <1>1 DEF History!vars, HistoryInv
<1> QED BY <1>1, RowSteps, ViewSteps, ExpandStep, ContractStep, TickStep, SelectAllStep,
           DoneDeletes DEF History!Next

(* In the view that deletes, only Done leads to the list and changes the   *)
(* table.                                                                  *)
LEMMA OnlyChosenStep ==
    ASSUME History!HistoryAssumption, HistoryInv, [History!Next]_(History!vars),
           view = "HistoryDeleteView", rows' # rows, view' = "HistoryView", ~all
    PROVE  DOMAIN rows \ DOMAIN rows' \subseteq chosen
<1>1. CASE History!Done
  BY <1>1, DoneDeletes
<1>2. ASSUME ~History!Done
      PROVE  FALSE
  BY <1>2 DEF History!Next, History!vars, History!AddHistoryItem, History!ClearURLHistory,
     History!ClearAllHistory, History!NextDay, History!OpenHistory, History!OpenDelete,
     History!OnBackPressed, History!Expand, History!Contract, History!Tick, History!ItemSelected,
     History!SelectAllCheckboxes, History!Restart
<1> QED BY <1>1, <1>2


-----------------------------------------------------------------------------
(***************************************************************************)
(* The theorems.  A step of Lists is one of one of its views.              *)
(***************************************************************************)
ListsInv == HistoryInv /\ QuickInv /\ PersonalInv

LEMMA StepOfEach ==
    ASSUME [Next]_vars
    PROVE  /\ [History!Next]_(History!vars)
           /\ [QuickAccess!Next]_(QuickAccess!vars)
           /\ [PersonalData!Next]_(PersonalData!vars)
<1>1. UNCHANGED historyVars => UNCHANGED History!vars
  BY DEF historyVars, History!vars
<1>2. UNCHANGED quickVars => UNCHANGED QuickAccess!vars
  BY DEF quickVars, QuickAccess!vars, QuickAccess!data, QuickAccess!qa
<1>3. UNCHANGED personalVars => UNCHANGED PersonalData!vars
  BY DEF personalVars, PersonalData!vars
<1> QED BY <1>1, <1>2, <1>3 DEF Next, vars

LEMMA ListsInvAlways == Spec => []ListsInv
<1>1. Init => ListsInv
  BY ListsAssumption, HistoryInvInit, QuickInvInit, PersonalInvInit DEF Init, ListsInv
<1>2. ListsInv /\ [Next]_vars => ListsInv'
  <2> SUFFICES ASSUME ListsInv, [Next]_vars PROVE ListsInv'
    OBVIOUS
  <2>1. HistoryInv'
    BY ListsAssumption, StepOfEach, HistoryInvNext DEF ListsInv
  <2>2. QuickInv'
    BY ListsAssumption, StepOfEach, QuickInvNext DEF ListsInv
  <2>3. PersonalInv'
    BY ListsAssumption, StepOfEach, PersonalInvNext DEF ListsInv
  <2> QED BY <2>1, <2>2, <2>3 DEF ListsInv
<1> QED BY <1>1, <1>2, PTL DEF Spec

(* The states of the three views have their shapes.                        *)
THEOREM TypeCorrect == Spec => []TypeOK
<1>1. ListsInv => TypeOK
  BY HistoryInvEnough DEF ListsInv, QuickInv, PersonalInv, TypeOK
<1> QED BY <1>1, ListsInvAlways, PTL

(* The rows of today are of different pages, whichever rows a redirect,    *)
(* the list or the settings delete between two visits, on any number of    *)
(* days.                                                                   *)
THEOREM NoSecondRow == Spec => []OneRowPerDay
<1>1. ListsInv => OneRowPerDay
  BY HistoryInvEnough DEF ListsInv, OneRowPerDay
<1> QED BY <1>1, ListsInvAlways, PTL

(* Quick access on screen has the links of the table however they were     *)
(* added, edited, deleted or reset, and Done deletes no page that is not   *)
(* in the list it reads, which outlives the view.                          *)
THEOREM GridAlwaysCurrent == Spec => []GridIsCurrent
<1>1. ListsInv => GridIsCurrent
  BY DEF ListsInv, QuickInv, GridIsCurrent
<1> QED BY <1>1, ListsInvAlways, PTL

(* Quick access comes to the screen with the most visited entries of the   *)
(* history, in order and once each: for any limit and any history, whatever*)
(* order the adaptor answers in, whichever way the grid was left, and with *)
(* as many rounds of the service's loop as it takes.                       *)
THEOREM MostVisitedShown == Spec => ShowsTheMostVisited
<1> DEFINE Right == QuickAccess!OnScreen'
                      /\ (QuickAccess!OnScreen
                             => entries' = entries /\ QuickAccess!AreTheMostVisited(most, entries))
                      => QuickAccess!AreTheMostVisited(most', entries')
<1>1. ListsInv /\ [Next]_vars => [Right]_(QuickAccess!vars)
  <2> SUFFICES ASSUME ListsInv, [Next]_vars
               PROVE  Right
    OBVIOUS
  <2> QED BY ListsAssumption, StepOfEach, MostVisitedStep DEF ListsInv
<1>2. Spec => [][Right]_(QuickAccess!vars)
  BY <1>1, ListsInvAlways, PTL DEF Spec
<1> QED BY <1>2 DEF ShowsTheMostVisited, QuickAccess!ShowsTheMostVisited

(* Names deleted with the personal data do not come back from a copy of a  *)
(* profile in a view or from a creator's entry, whatever was opened and    *)
(* typed before, and what is deleted is what was ticked on screen.         *)
THEOREM DeletedStaysDeleted == Spec => []ForgetsWhatWasDeleted
<1>1. ListsInv => ForgetsWhatWasDeleted
  BY PersonalInvEnough DEF ListsInv, ForgetsWhatWasDeleted
<1> QED BY <1>1, ListsInvAlways, PTL

(* Rows leave the history with Done, and visits are forgotten, only of     *)
(* what the user ticked, although what is ticked is kept under addresses   *)
(* of items that are freed and given to others.                            *)
THEOREM NothingElseGoes == Spec => OnlyTickedGo
<1> DEFINE Kept == view = "HistoryDeleteView" /\ rows' # rows /\ view' = "HistoryView" /\ ~all
                      => DOMAIN rows \ DOMAIN rows' \subseteq chosen
           Same == \A i \in DOMAIN entries :
                      entries'[i].visits < entries[i].visits => i \in picked
<1>1. ListsInv /\ [Next]_vars => [Kept]_(History!vars) /\ [Same]_(QuickAccess!vars)
  <2> SUFFICES ASSUME ListsInv, [Next]_vars
               PROVE  Kept /\ Same
    OBVIOUS
  <2>1. Kept
    BY ListsAssumption, StepOfEach, OnlyChosenStep DEF ListsInv
  <2>2. Same
    BY ListsAssumption, StepOfEach, OnlyTickedStep DEF ListsInv
  <2> QED BY <2>1, <2>2
<1>2. Spec => [][Kept]_(History!vars) /\ [][Same]_(QuickAccess!vars)
  BY <1>1, ListsInvAlways, PTL DEF Spec
<1> QED BY <1>2 DEF OnlyTickedGo, History!OnlyChosenGo, QuickAccess!OnlyTickedGo
=============================================================================
