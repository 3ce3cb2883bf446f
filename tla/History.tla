------------------------------ MODULE History ------------------------------
(***************************************************************************)
(* The history of pages, services/HistoryService, and the list that the    *)
(* history tab of the bookmark manager shows of it and deletes from,       *)
(* services/HistoryUI.                                                     *)
(*                                                                         *)
(* The list is a genlist: a heading for each period, which opens on a tap, *)
(* and under an open heading an item for each entry, with a box in delete  *)
(* mode.  What is ticked is kept twice: in the boxes, which the genlist    *)
(* makes anew when it likes, and in m_itemsToDelete, a map from genlist    *)
(* item to tick that outlives the items.  Items are told apart by address, *)
(* and the address of an item that is gone may be given to a new one.      *)
(*                                                                         *)
(* Two periods stand for the five.  Frequencies are in QuickAccess,        *)
(* titles and pictures are left out, and a list fits on the screen.        *)
(***************************************************************************)
EXTENDS Naturals, FiniteSets, SequencesExt

CONSTANTS
    Urls,      \* addresses of pages
    MaxId,     \* a bound on the rows ever made
    Addresses  \* where genlist items can be allocated

HistoryAssumption == MaxId \in Nat /\ IsFiniteSet(Addresses)

VARIABLES
    alive,   \* whether the process runs
    rows,    \* the table of the history adaptor: url and day of some ids
    next,    \* the id the next row gets
    view,    \* "Closed", "HistoryView" or "HistoryDeleteView"
    list,    \* m_genlist
    known,   \* m_itemsToDelete and m_visitItemData
    all,     \* m_isSelectAllChecked
    leftover, \* m_selected_count of the manager is not zero
    chosen   \* ids ticked by the user so far, for the properties only

vars == <<alive, rows, next, view, list, known, all, leftover, chosen>>

Ids  == 1..MaxId
Days == {"today", "older"}

(* The fields of a row that matter. *)
Row == [url : Urls, day : Days]

(* day: the entries of each period when the list was made; open: headings  *)
(* that are open; at: the items below them; ticked: items whose box is     *)
(* ticked; box: the box of Select all; count: the number in the heading of *)
(* the view, which enables Done; freed: items whose data was deleted;      *)
(* made: whether m_genlist has been set at all.                            *)
NoList == [day |-> [d \in Days |-> {}], open |-> {}, at |-> [a \in {} |-> 1],
           ticked |-> {}, box |-> FALSE, count |-> 0, freed |-> {}, made |-> FALSE]

NothingKnown == [marked |-> {}, entry |-> [a \in {} |-> 1]]

Init ==
    /\ alive = TRUE
    /\ rows = [i \in {} |-> 1] /\ next = 1
    /\ view = "Closed" /\ list = NoList /\ known = NothingKnown
    /\ all = FALSE /\ leftover = FALSE /\ chosen = {}

Entries(r, d) == {i \in DOMAIN r : r[i].day = d}

Listed(l) == UNION {l.day[d] : d \in Days}

Without(r, ids) == Restrict(r, DOMAIN r \ ids)
-----------------------------------------------------------------------------
(* The service. *)

(* Mutant: every visit gets a row. *)
NeverDuplicate(url) == FALSE

(* isDuplicate looks at the rows of today; the count of visits, which it    *)
(* raises, and the time of the last one are left out.                       *)
IsDuplicate(url) == \E i \in Entries(rows, "today") : rows[i].url = url

(* getHistoryId answers with a row that was created first. *)
GetHistoryId(url) ==
    LET found == {i \in DOMAIN rows : rows[i].url = url}
        old   == found \cap Entries(rows, "older")
    IN  IF old # {} THEN old ELSE found

(* addHistoryItem, when a page of the normal mode has been loaded.          *)
AddHistoryItem(url) ==
    /\ alive
    /\ IF IsDuplicate(url)
       THEN UNCHANGED <<rows, next>>
       ELSE /\ next \in Ids /\ next' = next + 1
            /\ rows' = [i \in DOMAIN rows \cup {next} |->
                           IF i = next THEN [url |-> url, day |-> "today"] ELSE rows[i]]
    /\ UNCHANGED <<alive, view, list, known, all, leftover, chosen>>

(* clearURLHistory, when a page sends the browser elsewhere. *)
ClearURLHistory(url) ==
    /\ alive
    /\ IF GetHistoryId(url) = {} THEN UNCHANGED rows
       ELSE \E i \in GetHistoryId(url) : rows' = Without(rows, {i})
    /\ UNCHANGED <<alive, next, view, list, known, all, leftover, chosen>>

(* clearAllHistory, from the settings. *)
ClearAllHistory ==
    /\ alive /\ view = "Closed" /\ DOMAIN rows # {}
    /\ rows' = Without(rows, Ids)
    /\ UNCHANGED <<alive, next, view, list, known, all, leftover, chosen>>

(* Midnight. *)
NextDay ==
    /\ Entries(rows, "today") # {}
    /\ rows' = [i \in DOMAIN rows |-> [rows[i] EXCEPT !.day = "older"]]
    /\ UNCHANGED <<alive, next, view, list, known, all, leftover, chosen>>
-----------------------------------------------------------------------------
(* The list. *)

(* getHistoryItems: the entries of a period, copied into the list. *)
GetHistoryItems == [d \in Days |-> Entries(rows, d)]

(* _genlist_history_item_content_get: new boxes for all items that are on   *)
(* the screen.  Select all itself is only ticked by an item.                *)
MakeBoxes(l) ==
    [l EXCEPT !.ticked = IF all /\ view = "HistoryDeleteView" THEN DOMAIN l.at ELSE {},
              !.box = all /\ DOMAIN l.at # {}]

(* createDaysList and addHistoryItems: the old list is deleted with the     *)
(* data of its items, and the new one shows the headings.  Data that a tap  *)
(* has deleted already, and a list that was never there, may end the        *)
(* process; what the maps and m_isSelectAllChecked know is kept.            *)
ShowHistoryUI(mode, leftovers) ==
    /\ alive' \in IF list.freed # {} \/ ~list.made THEN BOOLEAN ELSE {TRUE}
    /\ view' = mode
    /\ list' = [NoList EXCEPT !.day = GetHistoryItems, !.made = TRUE,
                              !.count = IF leftovers THEN 1 ELSE 0]

(* _modules_history_clicked.  The manager counts what was ticked last time  *)
(* among its bookmarks.                                                     *)
OpenHistory ==
    /\ alive /\ view = "Closed"
    /\ ShowHistoryUI("HistoryView", FALSE)
    /\ leftover' \in BOOLEAN
    /\ UNCHANGED <<rows, next, known, all, chosen>>

(* _cm_history_remove_clicked *)
OpenDelete ==
    /\ alive /\ view = "HistoryView"
    /\ ShowHistoryUI("HistoryDeleteView", leftover)
    /\ UNCHANGED <<rows, next, known, all, leftover, chosen>>

(* onBackPressed, also run by Cancel. *)
OnBackPressed ==
    /\ alive
    /\ \/ /\ view = "HistoryDeleteView"
          /\ ShowHistoryUI("HistoryView", FALSE)
       \/ /\ view = "HistoryView"
          /\ view' = "Closed" /\ UNCHANGED <<alive, list>>
    /\ UNCHANGED <<rows, next, known, all, leftover, chosen>>

(* Mutant: m_visitItemData keeps what it had for an address. *)
RememberOnce(at) ==
    [marked |-> known.marked \ DOMAIN at,
     entry  |-> [a \in DOMAIN known.entry \cup DOMAIN at |->
                    IF a \in DOMAIN known.entry THEN known.entry[a] ELSE at[a]]]

(* New items are entered in both maps, unticked, whatever their addresses   *)
(* stood for before.                                                        *)
Remember(at) ==
    [marked |-> known.marked \ DOMAIN at,
     entry  |-> [a \in DOMAIN known.entry \cup DOMAIN at |->
                    IF a \in DOMAIN at THEN at[a] ELSE known.entry[a]]]

(* _tree_item_expanded: an item for each entry of the period, then new      *)
(* boxes for all.                                                           *)
Expand(d) ==
    /\ alive /\ view # "Closed" /\ list.day[d] # {} /\ d \notin list.open
    /\ \E where \in SUBSET (Addresses \ DOMAIN list.at) :
         /\ Cardinality(where) = Cardinality(list.day[d])
         /\ \E at \in [where -> list.day[d]] :
              /\ \A a, b \in where : at[a] = at[b] => a = b
              /\ list' = MakeBoxes([list EXCEPT
                            !.open = @ \cup {d},
                            !.at = [a \in DOMAIN @ \cup where |->
                                        IF a \in where THEN at[a] ELSE @[a]]])
              /\ known' = Remember(at)
    /\ UNCHANGED <<alive, rows, next, view, all, leftover, chosen>>

(* Mutant: the boxes that were ticked stay counted. *)
ContractKeepsTicks(d) ==
    LET gone == {a \in DOMAIN list.at : list.at[a] \in list.day[d]}
    IN  /\ alive /\ view # "Closed" /\ d \in list.open
        /\ list' = [list EXCEPT !.open = @ \ {d}, !.at = Restrict(@, DOMAIN @ \ gone)]
        /\ UNCHANGED <<alive, rows, next, view, known, all, leftover, chosen>>

(* _tree_item_contracted: the items go, the maps stay. *)
Contract(d) ==
    LET gone == {a \in DOMAIN list.at : list.at[a] \in list.day[d]}
    IN  /\ alive /\ view # "Closed" /\ d \in list.open
        /\ list' = [list EXCEPT !.open = @ \ {d}, !.ticked = @ \ gone,
                                !.at = Restrict(@, DOMAIN @ \ gone)]
        /\ UNCHANGED <<alive, rows, next, view, known, all, leftover, chosen>>

(* countItemsToDelete: the map learns the ticks of the items there are;    *)
(* the box of Select all follows them, m_isSelectAllChecked does not.      *)
CountItemsToDelete(l) ==
    /\ list' = [l EXCEPT
          !.count = Cardinality(l.ticked),
          !.box = IF Cardinality(l.ticked) = Cardinality(Listed(l)) THEN TRUE
                  ELSE IF l.ticked = {} THEN FALSE ELSE @]
    /\ known' = [known EXCEPT !.marked = (@ \ DOMAIN l.at) \cup l.ticked]

(* _check_state_changed, for the box of an item. *)
Tick(a) ==
    LET ticked == IF a \in list.ticked THEN list.ticked \ {a} ELSE list.ticked \cup {a}
    IN  /\ alive /\ view = "HistoryDeleteView" /\ a \in DOMAIN list.at
        /\ CountItemsToDelete([list EXCEPT !.ticked = ticked])
        /\ chosen' = chosen \cup {list.at[b] : b \in ticked}
        /\ UNCHANGED <<alive, rows, next, view, all, leftover>>

(* selectAllCheckboxes: m_itemsToDelete is not told.                        *)
SelectAllCheckboxes ==
    /\ alive /\ view = "HistoryDeleteView"
    /\ all' = ~list.box
    /\ list' = [list EXCEPT !.box = all',
                            !.ticked = IF all' THEN DOMAIN list.at ELSE {},
                            !.count = IF all' THEN Cardinality(Listed(list)) ELSE 0]
    /\ UNCHANGED <<alive, rows, next, view, known, leftover, chosen>>

(* removeSelectedItems without Select all.  The loop erases the entry it is *)
(* at, so it may miss some of the marked ones, or fail.                     *)
RemoveSelectedItems ==
    {<<done, [marked |-> known.marked \ done,
              entry  |-> Restrict(known.entry, DOMAIN known.entry \ done)]>> :
        done \in {s \in SUBSET known.marked : s # {} \/ known.marked = {}}}

(* _accept_clicked: removeHistoryItems takes the ticked items off the       *)
(* screen, and removeSelectedHistoryItems deletes the entries: all that     *)
(* there are when m_isSelectAllChecked, and else those that are marked.     *)
(* Then the list is made again.                                             *)
Done ==
    /\ alive /\ view = "HistoryDeleteView" /\ list.count > 0
    /\ IF all
       THEN /\ rows' = Without(rows, Ids)
            /\ known' = NothingKnown
            /\ alive' = TRUE
       ELSE \E result \in RemoveSelectedItems :
            /\ rows' = Without(rows, {known.entry[a] : a \in result[1]})
            /\ known' = result[2]
            /\ alive' \in IF known.marked = {} THEN {TRUE} ELSE BOOLEAN
    /\ view' = "HistoryView"
    /\ list' = [NoList EXCEPT !.made = TRUE,
                   !.day = [d \in Days |-> Entries(rows', d)]]
    /\ UNCHANGED <<next, all, leftover, chosen>>

(* _item_selected: the page is opened, which takes the manager off the view *)
(* stack, and the data of the item is deleted under the list.               *)
ItemSelected(a) ==
    /\ alive /\ view = "HistoryView" /\ a \in DOMAIN list.at
    /\ view' = "Closed"
    /\ list' = [list EXCEPT !.freed = @ \cup {a}]
    /\ UNCHANGED <<alive, rows, next, known, all, leftover, chosen>>

(* A new process has only the table. *)
Restart ==
    /\ ~alive /\ alive' = TRUE
    /\ view' = "Closed" /\ list' = NoList /\ known' = NothingKnown
    /\ all' = FALSE /\ leftover' = FALSE
    /\ UNCHANGED <<rows, next, chosen>>
-----------------------------------------------------------------------------
Next ==
    \/ \E u \in Urls : AddHistoryItem(u) \/ ClearURLHistory(u)
    \/ ClearAllHistory \/ NextDay
    \/ OpenHistory \/ OpenDelete \/ OnBackPressed
    \/ \E d \in Days : Expand(d) \/ Contract(d)
    \/ \E a \in Addresses : Tick(a) \/ ItemSelected(a)
    \/ SelectAllCheckboxes \/ Done \/ Restart

Spec == Init /\ [][Next]_vars
-----------------------------------------------------------------------------
(* The shape of the state.                                                  *)
TypeOK ==
    /\ alive \in BOOLEAN /\ all \in BOOLEAN /\ leftover \in BOOLEAN
    /\ next \in 1..MaxId + 1
    /\ DOMAIN rows \subseteq 1..next - 1
    /\ \A i \in DOMAIN rows : rows[i] \in Row
    /\ view \in {"Closed", "HistoryView", "HistoryDeleteView"}
    /\ DOMAIN list.day = Days /\ Listed(list) \subseteq 1..next - 1
    /\ list.open \subseteq Days
    /\ DOMAIN list.at \subseteq Addresses /\ list.ticked \subseteq DOMAIN list.at
    /\ \A a \in DOMAIN list.at : list.at[a] \in UNION {list.day[d] : d \in list.open}
    /\ list.count \in Nat
    /\ known.marked \subseteq DOMAIN known.entry
    /\ \A a \in DOMAIN list.at : a \in DOMAIN known.entry
    /\ chosen \subseteq Ids

(* A page visited again on the same day does not get a second row: the rows *)
(* of today have different addresses, whichever rows a redirect, the list   *)
(* or the settings have deleted meanwhile.                                  *)
OneRowPerDay ==
    \A i, j \in Entries(rows, "today") : rows[i].url = rows[j].url => i = j

(* What Done deletes the user has ticked at some time, unless he has ticked *)
(* Select all: the map from items to ticks outlives the items, and the      *)
(* address of an item may be used again, but never with an old entry.       *)
OnlyChosenGo ==
    [][ view = "HistoryDeleteView" /\ rows' # rows /\ view' = "HistoryView" /\ ~all
        => DOMAIN rows \ DOMAIN rows' \subseteq chosen ]_vars
=============================================================================
