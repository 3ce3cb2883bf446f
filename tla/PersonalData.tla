---------------------------- MODULE PersonalData ----------------------------
(* Deleting personal data (SettingsDelPersData and what SimpleUI does with    *)
(* its choice) and the auto-fill profile (SettingsAFProfile, the two          *)
(* SettingsAFCreator views, AutoFillFormItem).  The views are made once and   *)
(* kept; the profiles are kept by the web engine, which gives each a new id.  *)
EXTENDS Integers, FiniteSets

CONSTANTS Names,    \* names a profile may have
          Scrolls,  \* bound: items of the list that may be scrolled away
          Filled,   \* bound: stores that pages leave data in
          MaxId     \* bound: profiles made

All == "SELECT_ALL"
Stores == {"HISTORY", "CACHE", "COOKIES", "PASSWORDS", "AUTO_FILL", "LOCATION"}
Items == {All} \cup Stores
OfTabs == {"CACHE", "COOKIES", "PASSWORDS"}
Creators == {"with", "without"}

VARIABLES top,       \* the settings view on screen
          option,    \* m_option of SettingsDelPersData: [Items -> BOOLEAN]
          box,       \* its check boxes as they are on screen
          question,  \* the options the popup asks about, or {} for no popup
          data,      \* the stores that hold something; whether there are tabs
          profiles,  \* what the engine keeps: records [id, name]
          lastId,
          label,     \* SettingsAFProfile: m_profile (an id) and m_profileName
          creator,   \* the two creators: whether made, what m_item edits, the entry
          gone       \* history: names deleted and not given again since

vars == <<top, option, box, question, data, profiles, lastId, label, creator, gone>>

NoName == ""
NoId == 0

PersonalAssumption ==
    /\ MaxId \in Nat /\ NoName \notin Names
    /\ Scrolls \subseteq Items /\ Filled \subseteq Stores

Entries == Names \cup {NoName}
Creator == [made : BOOLEAN, edits : 0..MaxId, entry : Entries]
Profile == [id : 1..MaxId, name : Names]

TypeOK ==
    /\ top \in {"none", "delete", "profile"} \cup Creators
    /\ option \in [Items -> BOOLEAN]
    /\ box \in [Items -> BOOLEAN]
    /\ question \subseteq Items
    /\ data \in [full : SUBSET Stores, tabs : BOOLEAN]
    /\ profiles \subseteq Profile
    /\ lastId \in 0..MaxId
    /\ label \in [id : 0..MaxId, name : Entries]
    /\ creator \in [Creators -> Creator]
    /\ gone \subseteq Names

(* createNormalCheckBox: each box is made with its default, and so is its     *)
(* option.                                                                    *)
Fresh == [i \in Items |-> i \in {"HISTORY", "CACHE", "COOKIES"}]

Init ==
    /\ top = "none"
    /\ option = Fresh /\ box = Fresh
    /\ question = {}
    /\ data = [full |-> {}, tabs |-> FALSE]
    /\ profiles = {} /\ lastId = 0
    /\ label = [id |-> NoId, name |-> NoName]
    /\ creator = [c \in Creators |-> [made |-> FALSE, edits |-> NoId, entry |-> NoName]]
    /\ gone = {}

Profiles == <<profiles, lastId, label, creator, gone>>
Choice == <<option, box, question, data>>

-----------------------------------------------------------------------------
(* showUI makes the list again, a change of language its contents.            *)
ShowDelete ==
    /\ top = "none" /\ question = {}
    /\ top' = "delete"
    /\ option' = Fresh /\ box' = Fresh
    /\ UNCHANGED <<question, data, Profiles>>

LanguageChanged ==
    /\ top = "delete"
    /\ option' = Fresh /\ box' = Fresh
    /\ UNCHANGED <<top, question, data, Profiles>>

(* An item that is scrolled away and back gets a new box.                     *)
Scrolled(i) ==
    /\ top = "delete"
    /\ option' = [option EXCEPT ![i] = Fresh[i]]
    /\ box' = [box EXCEPT ![i] = Fresh[i]]
    /\ UNCHANGED <<top, question, data, Profiles>>

(* grid_item_check_changed ends by giving "select all" the value that all     *)
(* the others have, when none of them has its value.                          *)
Balanced(f) ==
    IF \A s \in Stores : f[s] # f[All] THEN [f EXCEPT ![All] = ~@] ELSE f

AfterCheck(f, i, value) ==
    Balanced(IF i = All THEN [j \in Items |-> value]
             ELSE IF ~value /\ f[All] THEN [f EXCEPT ![i] = value, ![All] = FALSE]
             ELSE [f EXCEPT ![i] = value])

CheckChanged(i) ==
    /\ top = "delete"
    /\ LET value == ~box[i]
       IN /\ option' = AfterCheck(option, i, value)
          /\ box' = AfterCheck([box EXCEPT ![i] = value], i, value)
    /\ UNCHANGED <<top, question, data, Profiles>>

Ticked(f) == { i \in Items : f[i] }

(* __delete_button_cb: the popup gets a copy of the options, the view closes. *)
DeleteClicked ==
    /\ top = "delete"
    /\ question' = Ticked(option)
    /\ top' = "none"
    /\ UNCHANGED <<option, box, data, Profiles>>

CancelClicked ==
    /\ top = "delete"
    /\ top' = "none"
    /\ UNCHANGED <<option, box, question, data, Profiles>>

PopupCancelled ==
    /\ question # {}
    /\ question' = {}
    /\ UNCHANGED <<top, option, box, data, Profiles>>

(* Mutant: the profile view is not told.                                      *)
ProfileViewKeeps ==
    /\ profiles' = {}
    /\ creator' = [c \in Creators |-> [creator[c] EXCEPT !.entry = NoName]]
    /\ gone' = gone \cup { p.name : p \in profiles }
    /\ UNCHANGED <<lastId, label>>

(* autoFillCleared: the views that are made forget, the engine removes all.   *)
AutoFillCleared ==
    /\ profiles' = {}
    /\ label' = [id |-> NoId, name |-> NoName]
    /\ creator' = [c \in Creators |-> [creator[c] EXCEPT !.entry = NoName]]
    /\ gone' = gone \cup { p.name : p \in profiles }
    /\ UNCHANGED lastId

(* onDeleteSelectedDataButton.  Cache, cookies and passwords are cleared by   *)
(* way of the tabs of the mode; the location by nothing.                      *)
Deleted == { s \in question : s \in {"HISTORY", "AUTO_FILL"} \/ (s \in OfTabs /\ data.tabs) }

DeleteConfirmed ==
    /\ question # {}
    /\ data' = [data EXCEPT !.full = @ \ Deleted]
    /\ IF "AUTO_FILL" \in question THEN AutoFillCleared ELSE UNCHANGED Profiles
    /\ question' = {}
    /\ UNCHANGED <<top, option, box>>

(* Pages leave data behind; tabs are opened and closed.                       *)
Browse(s) ==
    /\ top = "none" /\ question = {}
    /\ data' = [full |-> data.full \cup {s}, tabs |-> TRUE]
    /\ UNCHANGED <<top, option, box, question, Profiles>>

CloseAllTabs ==
    /\ top = "none" /\ question = {} /\ data.tabs
    /\ data' = [data EXCEPT !.tabs = FALSE]
    /\ UNCHANGED <<top, option, box, question, Profiles>>

-----------------------------------------------------------------------------
First == CHOOSE p \in profiles : \A q \in profiles : p.id <= q.id

(* SettingsAFProfile::updateButtonMap: m_profile is the first profile; it     *)
(* stays when there is none.                                                  *)
UpdateButtonMap ==
    label' = IF profiles = {} THEN label ELSE [label EXCEPT !.id = First.id]

ShowProfile ==
    /\ top \in {"none"} \cup Creators /\ question = {}
    /\ top' = "profile"
    /\ UpdateButtonMap
    /\ UNCHANGED <<Choice, profiles, lastId, creator, gone>>

Leave ==
    /\ top \in {"profile"} \cup Creators
    /\ top' = "none"
    /\ UNCHANGED <<Choice, Profiles>>

(* loadProfile and createNewAutoFillFormItem, when the view is first shown.   *)
Made(c) ==
    IF c = "with" /\ profiles # {}
      THEN [made |-> TRUE, edits |-> First.id, entry |-> First.name]
      ELSE [made |-> TRUE, edits |-> NoId, entry |-> NoName]

SelectProfile ==
    /\ top = "profile"
    /\ LET c == IF label.id # NoId THEN "with" ELSE "without"
       IN /\ top' = c
          /\ creator' = IF creator[c].made THEN creator
                                           ELSE [creator EXCEPT ![c] = Made(c)]
    /\ UNCHANGED <<Choice, profiles, lastId, label, gone>>

Type(name) ==
    /\ top \in Creators /\ creator[top].entry # name
    /\ creator' = [creator EXCEPT ![top].entry = name]
    /\ gone' = gone \ {name}
    /\ UNCHANGED <<top, Choice, profiles, lastId, label>>

(* applyEntryData tells the name before it knows that it is kept; then        *)
(* updateItem, which fails for a profile that is no more, or saveItem.        *)
UpdateItem(name) ==
    /\ creator[top].edits \in { p.id : p \in profiles }
    /\ profiles' = { IF p.id = creator[top].edits THEN [p EXCEPT !.name = name] ELSE p
                     : p \in profiles }
    /\ top' = "profile"
    /\ label' = [id |-> First.id, name |-> name]
    /\ UNCHANGED lastId

SaveItem(name) ==
    /\ lastId < MaxId
    /\ lastId' = lastId + 1
    /\ profiles' = profiles \cup {[id |-> lastId', name |-> name]}
    /\ top' = "profile"
    /\ label' = [id |-> IF profiles = {} THEN lastId' ELSE First.id, name |-> name]

NotApplied(name) ==
    /\ creator[top].edits # NoId
    /\ creator[top].edits \notin { p.id : p \in profiles }
    /\ label' = [label EXCEPT !.name = name]
    /\ UNCHANGED <<top, profiles, lastId>>

(* Done is enabled when there is a name; popTheStack shows the profile view.  *)
Done ==
    /\ top \in Creators /\ creator[top].entry # NoName
    /\ LET name == creator[top].entry
       IN \/ creator[top].edits # NoId /\ UpdateItem(name)
          \/ creator[top].edits = NoId /\ SaveItem(name)
          \/ NotApplied(name)
    /\ UNCHANGED <<Choice, creator, gone>>

Next ==
    \/ ShowDelete \/ LanguageChanged
    \/ \E i \in Scrolls : Scrolled(i)
    \/ \E i \in Items : CheckChanged(i)
    \/ DeleteClicked \/ CancelClicked \/ PopupCancelled \/ DeleteConfirmed
    \/ \E s \in Filled : Browse(s)
    \/ CloseAllTabs
    \/ ShowProfile \/ Leave \/ SelectProfile \/ Done
    \/ \E n \in Names \cup {NoName} : Type(n)

Spec == Init /\ [][Next]_vars

-----------------------------------------------------------------------------
(* The user has one profile: the two creators, one that adds and one that     *)
(* changes, are chosen by what another view remembers of the profiles.        *)
OneProfile == Cardinality(profiles) <= 1

(* A name that was deleted with the personal data is not shown again by a     *)
(* view that was kept, nor saved again by a creator that was made before.     *)
DeletedNamesAreGone ==
    /\ label.name \notin gone
    /\ \A c \in Creators : creator[c].entry \notin gone
    /\ \A p \in profiles : p.name \notin gone

(* What the popup will ask about is what is ticked, although boxes are made   *)
(* again by scrolling and by a change of language while the map stays.        *)
TickedIsDeleted ==
    top = "delete" => box = option

ForgetsWhatWasDeleted == OneProfile /\ DeletedNamesAreGone /\ TickedIsDeleted
=============================================================================
