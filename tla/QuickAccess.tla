---------------------------- MODULE QuickAccess ----------------------------
(***************************************************************************)
(* Quick access: the page with the grid of the user's links and the grid   *)
(* of the most visited pages (QuickAccess/QuickAccess.cpp), the view that  *)
(* edits the one and deletes from the other                                *)
(* (WebPageUI/EditQuickAccessUI.cpp), the state of the page view that      *)
(* follows them, the table of the links                                    *)
(* (StorageService/QuickAccessStorage.cpp), and what the shell does when a *)
(* window opens or closes meanwhile.                                       *)
(*                                                                         *)
(* Both grids are copies, made by showUI, and the same two widgets are     *)
(* shown by the page and by the editing view.  What is ticked for deletion *)
(* is kept apart from the boxes, in m_mv_delete_list; its elements are     *)
(* items of the grid, which a new copy replaces by items of the same page  *)
(* that are not equal to the old ones.                                     *)
(*                                                                         *)
(* What is ranked, shown and ticked among the most visited is an entry of  *)
(* the history (HistoryService/HistoryService.cpp): a page has one for     *)
(* every day on which it was visited, each with its own count of visits,   *)
(* and may be shown as often.  The table of links replaces the row of an   *)
(* address that is added again; as the grid is filled whenever that is     *)
(* seen, ids of its rows are left out.  Tabs are only counted.  Titles,    *)
(* favicons and colours are left out, and so are entries that the history  *)
(* view deletes (see History).                                             *)
(***************************************************************************)
EXTENDS Integers, SequencesExt

CONSTANTS
    Links,      \* addresses that quick access can hold
    Sites,      \* pages of the history
    MaxEntries, \* a bound on the entries of the history
    MaxVisits,  \* a bound on the visits counted for an entry
    Limit,      \* the most visited entries that are shown; the code has 12
    MaxTabs     \* a bound on the tabs

QuickAccessAssumption ==
    MaxEntries \in Nat /\ MaxVisits \in Nat \ {0} /\ Limit \in Nat /\ MaxTabs \in Nat

VARIABLES
    store,    \* the addresses in the table QUICKACCESS
    entries,  \* the history, by id: page, whether it is of today, frequency
    tabs,     \* tabsCount()
    page,     \* WebPageUI: state, content and whether a menu or a popup is up
    top,      \* the top of the view stack: "page" or "edit"
    edit,     \* EditQuickAccessUI: m_editState, the grid it holds, whether Done is enabled
    state,    \* m_state of QuickAccess
    current,  \* m_currPage: "Links" or "Sites"
    grid,     \* the items of m_quickAccessGengrid
    most,     \* the items of m_mostVisitedGengrid, in order: ids of entries
    ticked,   \* those whose box is ticked
    list,     \* m_mv_delete_list: ids, and whether the item is one of the grid
    chosen    \* entries ticked by the user so far, for the properties only

data == <<store, entries>>
qa   == <<state, current, grid, most, ticked, list>>
vars == <<store, entries, tabs, page, top, edit, qa, chosen>>

Add == "add to quick access"       \* the tile at the end of the grid

Init ==
    /\ store = {} /\ entries = <<>> /\ tabs = 0
    /\ page = [state |-> "QUICK_ACCESS", content |-> "qa", menu |-> "none", popup |-> FALSE]
    /\ top = "page"
    /\ edit = [state |-> "Edit", holds |-> "none", done |-> TRUE]
    /\ state = "Default" /\ current = "Links"
    /\ grid = {Add} /\ most = <<>> /\ ticked = {} /\ list = {} /\ chosen = {}
-----------------------------------------------------------------------------
(* The most visited pages. *)

(* What the adaptor answers when asked for Limit entries of the highest     *)
(* frequencies.  In which order they come is not relied on.                 *)
Fetched(f) ==
    {ids \in BoundedSeq(DOMAIN f, Limit) :
        /\ IsInjective(ids)
        /\ \A i \in DOMAIN f \ Range(ids) :
              Len(ids) = Limit /\ \A k \in 1..Limit : f[i].visits <= f[ids[k]].visits}

(* The first place with the largest of the frequencies that are left. *)
FirstLargest(left) ==
    CHOOSE i \in DOMAIN left :
        \A j \in DOMAIN left : left[j] <= left[i] /\ (j < i => left[j] < left[i])

(* Mutant: an entry is not struck off when it has been picked. *)
NotStruck(left, i) == left

Strike(left, i) == [left EXCEPT ![i] = -1]

(* A round: the largest is struck off and shown, unless it has no visits.   *)
Round(r, ids) ==
    LET i == FirstLargest(r.left)
    IN  [left  |-> Strike(r.left, i),
         shown |-> IF r.left[i] > 0 THEN Append(r.shown, ids[i]) ELSE r.shown]

Start(f, ids) == [left |-> [i \in DOMAIN ids |-> f[ids[i]].visits], shown |-> <<>>]

(* getMostVisitedHistoryItems: as many rounds as there are entries. *)
MostVisited(f, ids) ==
    LET after[k \in 0..Len(ids)] ==
            IF k = 0 THEN Start(f, ids) ELSE Round(after[k - 1], ids)
    IN  after[Len(ids)].shown
-----------------------------------------------------------------------------
(* What QuickAccess does for the others.                                    *)

Stale(l) == {<<i[1], FALSE>> : i \in l}

(* showMostVisited, when the list is to be emptied, and showQuickAccess.    *)
ShowScrollerPage(l, where) == IF where = "Sites" THEN {} ELSE l

(* showUI: both grids are filled and packed into the box of the page.       *)
ShowUI(links, f) ==
    /\ grid' = links \cup {Add}
    /\ \E ids \in Fetched(f) : most' = MostVisited(f, ids)
    /\ ticked' = {}
    /\ list' = ShowScrollerPage(Stale(list), current)

(* hideUI, which does nothing while something is edited.                    *)
HideUI ==
    IF state = "Default"
    THEN grid' = {} /\ most' = <<>> /\ ticked' = {} /\ list' = Stale(list)
    ELSE UNCHANGED <<grid, most, ticked, list>>

(* WebPageUI::switchViewToWebPage.  In EDIT_MODE the state stays. *)
SwitchViewToWebPage ==
    IF page.state = "QUICK_ACCESS"
    THEN /\ page' = [page EXCEPT !.state = "MAIN_WEB_PAGE", !.content = "web"]
         /\ HideUI
    ELSE /\ page' = [page EXCEPT !.content = "web"]
         /\ UNCHANGED <<grid, most, ticked, list>>

(* WebPageUI::switchViewToQuickAccess, which fills the grids and takes them *)
(* from the editing view.                                                   *)
SwitchViewToQuickAccess ==
    /\ page' = [page EXCEPT !.state = "QUICK_ACCESS", !.content = "qa"]
    /\ edit' = [edit EXCEPT !.holds = "none"]
    /\ ShowUI(store, entries)

(* The grids are on the screen, in the page or in the editing view.         *)
InPage == top = "page" /\ page.content = "qa"
LinksShown == (InPage /\ current = "Links") \/ (top = "edit" /\ edit.holds = "Links")
SitesShown == (InPage /\ current = "Sites") \/ (top = "edit" /\ edit.holds = "Sites")

Free == page.menu = "none" /\ ~page.popup
-----------------------------------------------------------------------------
(* The page. *)

(* _horizontalScroller_scroll, when the animation stops. *)
Scroll ==
    /\ InPage /\ ~page.popup
    /\ current' = IF current = "Links" THEN "Sites" ELSE "Links"
    /\ UNCHANGED <<data, tabs, page, top, edit, state, grid, most, ticked, list, chosen>>

(* The layout of quick access is resized, as when the screen is turned.     *)
LayoutResize ==
    /\ InPage
    /\ list' = ShowScrollerPage(list, current)
    /\ UNCHANGED <<data, tabs, page, top, edit, state, current, grid, most, ticked, chosen>>

(* _thumbQuickAccessClicked, _thumbMostVisitedClicked and openURL.  The tab *)
(* to use is decided by m_shouldOpenNewTab, which SimpleUI models.          *)
ThumbClicked ==
    /\ InPage /\ Free /\ state = "Default"
    /\ \/ current = "Links" /\ grid \ {Add} # {}
       \/ current = "Sites" /\ most # <<>>
    /\ tabs' \in {IF tabs = 0 THEN 1 ELSE tabs, tabs + 1} /\ tabs' <= MaxTabs
    /\ SwitchViewToWebPage
    /\ UNCHANGED <<data, top, edit, state, current, chosen>>

(* showHomePage, when the home page is one of the two. *)
ShowHomePage(where) ==
    /\ top = "page" /\ Free
    /\ page' = [page EXCEPT !.state = "QUICK_ACCESS", !.content = "qa"]
    /\ grid' = store \cup {Add} /\ ticked' = {}
    /\ \E ids \in Fetched(entries) : most' = MostVisited(entries, ids)
    /\ list' = ShowScrollerPage(ShowScrollerPage(Stale(list), current), where)
    /\ current' = where
    /\ UNCHANGED <<data, tabs, top, edit, state, chosen>>

(* onBackPressed on quick access: backButtonClicked, when there are tabs.   *)
BackButtonClicked ==
    /\ top = "page" /\ Free /\ page.state = "QUICK_ACCESS" /\ tabs # 0
    /\ IF state = "Default"
       THEN grid' = {} /\ most' = <<>> /\ ticked' = {} /\ list' = Stale(list)
       ELSE UNCHANGED <<grid, most, ticked, list>>
    /\ page' = [page EXCEPT !.state = "MAIN_WEB_PAGE", !.content = "web"]
    /\ UNCHANGED <<data, tabs, top, edit, state, current, chosen>>
-----------------------------------------------------------------------------
(* Adding a link. *)

(* Mutant: the grid is shown again when a title was given. *)
AddedWithTitle(link, titled) ==
    /\ store' = store \cup {link}
    /\ IF titled THEN edit' = [edit EXCEPT !.holds = "none"] /\ ShowUI(store', entries)
       ELSE UNCHANGED <<edit, grid, most, ticked, list>>

(* addQuickAccessItem: without a title, as from the popup, quick access is  *)
(* shown again.  That takes the grids from the editing view.                *)
AddQuickAccessItem(link, titled) ==
    /\ store' = store \cup {link}
    /\ IF titled THEN UNCHANGED <<edit, grid, most, ticked, list>>
       ELSE edit' = [edit EXCEPT !.holds = "none"] /\ ShowUI(store', entries)

(* _addToQuickAccess_clicked and onNewQuickAccessClicked; the tile has no   *)
(* regard to what is edited.                                                *)
NewQuickAccessClicked ==
    /\ LinksShown /\ Free /\ Add \in grid
    /\ page' = [page EXCEPT !.popup = TRUE]
    /\ UNCHANGED <<data, tabs, top, edit, qa, chosen>>

(* The popup is answered. *)
PopupClosed ==
    /\ page.popup
    /\ page' = [page EXCEPT !.popup = FALSE]
    /\ \/ \E link \in Links : AddQuickAccessItem(link, FALSE)
       \/ UNCHANGED <<store, edit, grid, most, ticked, list>>
    /\ UNCHANGED <<entries, tabs, top, state, current, chosen>>
-----------------------------------------------------------------------------
(* Editing. *)

(* showContextMenu.  The item to add the page is only there when quick      *)
(* access does not hold it.                                                 *)
ShowContextMenu ==
    /\ top = "page" /\ Free
    /\ \/ /\ page.state = "QUICK_ACCESS"
          /\ page' = [page EXCEPT !.menu = IF current = "Sites" THEN "delete" ELSE "edit"]
       \/ /\ page.state = "MAIN_WEB_PAGE" /\ store # Links
          /\ page' = [page EXCEPT !.menu = "add"]
    /\ UNCHANGED <<data, tabs, top, edit, qa, chosen>>

DismissMenu ==
    /\ page.menu # "none"
    /\ page' = [page EXCEPT !.menu = "none"]
    /\ UNCHANGED <<data, tabs, top, edit, qa, chosen>>

(* _cm_add_to_qa_clicked.  A page that has gone meanwhile has no title. *)
CmAddToQa ==
    /\ page.menu = "add"
    /\ page' = [page EXCEPT !.menu = "none"]
    /\ \E link \in Links, titled \in BOOLEAN :
         /\ tabs = 0 => ~titled
         /\ AddQuickAccessItem(link, titled)
    /\ UNCHANGED <<entries, tabs, top, state, current, chosen>>

(* _cm_edit_qa_clicked, editQuickAccess, and showUI of the editing view. *)
CmEditQa ==
    /\ page.menu = "edit"
    /\ page' = [page EXCEPT !.menu = "none", !.state = "EDIT_MODE"]
    /\ state' = "Edit" /\ top' = "edit"
    /\ edit' = [state |-> "Edit", holds |-> "Links", done |-> TRUE]
    /\ UNCHANGED <<data, tabs, current, grid, most, ticked, list, chosen>>

(* Mutant: boxes that were made before are kept. *)
KeepBoxes ==
    /\ page.menu = "delete"
    /\ page' = [page EXCEPT !.menu = "none", !.state = "EDIT_MODE"]
    /\ state' = "DeleteMostVisited" /\ top' = "edit"
    /\ edit' = [state |-> "DeleteMostVisited", holds |-> "Sites", done |-> FALSE]
    /\ UNCHANGED <<data, tabs, current, grid, most, ticked, list, chosen>>

(* _cm_delete_mv_clicked, deleteMostVisited, which makes the boxes of the   *)
(* grid, and showUI of the editing view.                                    *)
CmDeleteMv ==
    /\ page.menu = "delete"
    /\ page' = [page EXCEPT !.menu = "none", !.state = "EDIT_MODE"]
    /\ state' = "DeleteMostVisited" /\ top' = "edit" /\ ticked' = {}
    /\ edit' = [state |-> "DeleteMostVisited", holds |-> "Sites", done |-> FALSE]
    /\ UNCHANGED <<data, tabs, current, grid, most, list, chosen>>

(* __quckAccess_del_clicked: the row of the item goes, and from the grid    *)
(* the item that is selected, whichever that is.                            *)
QuickAccessDelClicked(link) ==
    /\ LinksShown /\ Free /\ state = "Edit" /\ link \in grid \ {Add}
    /\ store' = store \ {link}
    /\ \E selected \in grid : grid' \in {grid, grid \ {selected}}
    /\ UNCHANGED <<entries, tabs, page, top, edit, state, current, most, ticked, list, chosen>>

(* _check_state_changed; the button Done of the editing view is told how    *)
(* long the list is.                                                        *)
CheckStateChanged(i) ==
    /\ SitesShown /\ Free /\ state = "DeleteMostVisited" /\ i \in Range(most)
    /\ IF i \in ticked
       THEN /\ ticked' = ticked \ {i} /\ list' = list \ {<<i, TRUE>>}
            /\ chosen' = chosen
       ELSE /\ ticked' = ticked \cup {i} /\ list' = list \cup {<<i, TRUE>>}
            /\ chosen' = chosen \cup {i}
    /\ edit' = [edit EXCEPT !.done = list' # {}]
    /\ UNCHANGED <<data, tabs, page, top, state, current, grid, most>>

(* An item has left the screen and comes back: its box is made again by     *)
(* _grid_mostVisited_content_get, and not ticked.                           *)
Realized(i) ==
    /\ SitesShown /\ i \in ticked
    /\ ticked' = ticked \ {i}
    /\ UNCHANGED <<data, tabs, page, top, edit, state, current, grid, most, list, chosen>>

(* editingFinished of quick access and of the page view, and then closeUI:  *)
(* the stack is popped, and the page shows quick access, whatever its       *)
(* content is.                                                              *)
EditingFinished(f) ==
    /\ state' = "Default" /\ top' = "page"
    /\ page' = [page EXCEPT !.state = "QUICK_ACCESS"]
    /\ edit' = [edit EXCEPT !.holds = "none"]
    /\ ShowUI(store, f)

(* _cancel_clicked, and the back key *)
CancelClicked ==
    /\ top = "edit" /\ Free
    /\ EditingFinished(entries)
    /\ UNCHANGED <<data, tabs, current, chosen>>

(* Mutant: all pages that are shown go. *)
DeleteShown ==
    [i \in DOMAIN entries |->
        IF i \in Range(most) THEN [entries[i] EXCEPT !.visits = 0] ELSE entries[i]]

(* deleteSelectedMostVisitedItems and setMostVisitedFrequency *)
DeleteSelected ==
    [i \in DOMAIN entries |->
        IF \E item \in list : item[1] = i THEN [entries[i] EXCEPT !.visits = 0]
        ELSE entries[i]]

(* _done_clicked *)
DoneClicked ==
    /\ top = "edit" /\ Free /\ edit.done
    /\ entries' = IF edit.state = "DeleteMostVisited" THEN DeleteSelected ELSE entries
    /\ EditingFinished(entries')
    /\ UNCHANGED <<store, tabs, current, chosen>>
-----------------------------------------------------------------------------
(* Meanwhile. *)

(* A page has been loaded: addHistoryItem.  isDuplicate counts the visit in *)
(* the page's entry of today; without one, a new entry is made.             *)
OfToday(s) == {i \in DOMAIN entries : entries[i].today /\ entries[i].page = s}

VisitedAgain(s) ==
    /\ \E i \in OfToday(s) :
         /\ entries[i].visits < MaxVisits
         /\ entries' = [entries EXCEPT ![i].visits = @ + 1]
    /\ UNCHANGED <<store, tabs, page, top, edit, qa, chosen>>

VisitedFirst(s) ==
    /\ OfToday(s) = {} /\ Len(entries) < MaxEntries
    /\ entries' = Append(entries, [page |-> s, today |-> TRUE, visits |-> 1])
    /\ UNCHANGED <<store, tabs, page, top, edit, qa, chosen>>

NextDay ==
    /\ \E i \in DOMAIN entries : entries[i].today
    /\ entries' = [i \in DOMAIN entries |-> [entries[i] EXCEPT !.today = FALSE]]
    /\ UNCHANGED <<store, tabs, page, top, edit, qa, chosen>>

(* A page opens a window, or another application opens an address. *)
WindowCreated ==
    /\ tabs < MaxTabs /\ tabs' = tabs + 1
    /\ SwitchViewToWebPage
    /\ UNCHANGED <<data, top, edit, state, current, chosen>>

(* Another application searches: popStackTo the page view, without a word   *)
(* to quick access, and then the new tab.  If quick access was the state of *)
(* the page view, it is shown in between.                                   *)
ExecSearch ==
    /\ tabs < MaxTabs /\ tabs' = tabs + 1 /\ top' = "page"
    /\ \/ /\ top = "edit" /\ page.state = "QUICK_ACCESS"
          /\ page' = [page EXCEPT !.state = "MAIN_WEB_PAGE", !.content = "web"]
          /\ ShowUI(store, entries)
       \/ /\ top = "page" \/ page.state # "QUICK_ACCESS"
          /\ SwitchViewToWebPage
    /\ edit' = IF top = "edit" THEN [edit EXCEPT !.holds = "none"] ELSE edit
    /\ UNCHANGED <<data, state, current, chosen>>

(* engineTabClosed *)
EngineTabClosed ==
    /\ tabs > 0 /\ tabs' = tabs - 1
    /\ IF tabs' = 0 THEN SwitchViewToQuickAccess
       ELSE SwitchViewToWebPage /\ UNCHANGED edit
    /\ UNCHANGED <<data, top, state, current, chosen>>

Next ==
    \/ Scroll \/ LayoutResize \/ ThumbClicked \/ BackButtonClicked
    \/ \E where \in {"Links", "Sites"} : ShowHomePage(where)
    \/ NewQuickAccessClicked \/ PopupClosed
    \/ ShowContextMenu \/ DismissMenu \/ CmAddToQa \/ CmEditQa \/ CmDeleteMv
    \/ \E link \in Links : QuickAccessDelClicked(link)
    \/ \E i \in DOMAIN entries : CheckStateChanged(i) \/ Realized(i)
    \/ \E s \in Sites : VisitedAgain(s) \/ VisitedFirst(s)
    \/ NextDay
    \/ CancelClicked \/ DoneClicked
    \/ WindowCreated \/ ExecSearch \/ EngineTabClosed

Spec == Init /\ [][Next]_vars
-----------------------------------------------------------------------------
Ids == 1..MaxEntries
Entry == [page : Sites, today : BOOLEAN, visits : 0..MaxVisits]

(* The shape of the state.                                                  *)
TypeOK ==
    /\ store \subseteq Links /\ tabs \in 0..MaxTabs
    /\ entries \in Seq(Entry) /\ Len(entries) <= MaxEntries
    /\ page \in [state : {"QUICK_ACCESS", "EDIT_MODE", "MAIN_WEB_PAGE"},
                 content : {"qa", "web"}, menu : {"none", "add", "edit", "delete"},
                 popup : BOOLEAN]
    /\ top \in {"page", "edit"}
    /\ edit \in [state : {"Edit", "DeleteMostVisited"},
                 holds : {"none", "Links", "Sites"}, done : BOOLEAN]
    /\ state \in {"Default", "Edit", "DeleteMostVisited"}
    /\ current \in {"Links", "Sites"}
    /\ grid \subseteq Links \cup {Add}
    /\ most \in Seq(Ids) /\ Len(most) <= Limit
    /\ ticked \subseteq Range(most)
    /\ list \subseteq Ids \X BOOLEAN /\ chosen \subseteq Ids

OnScreen == page.state = "QUICK_ACCESS" /\ page.content = "qa" /\ state = "Default"

(* Quick access that is shown, and not edited, has the links of the table,  *)
(* no more and no less, and the tile to add one: although the grid is a     *)
(* copy, and links are added by popups and menus that may outlive the view  *)
(* they were opened over.                                                   *)
GridIsCurrent == OnScreen => grid = store \cup {Add}

(* In the view that deletes from the most visited, a box is only ticked if  *)
(* its entry is in m_mv_delete_list, so that Done deletes it: also when an  *)
(* earlier editing was cut short by a search and left its boxes behind.     *)
BoxesAreListed ==
    top = "edit" /\ edit.state = "DeleteMostVisited"
        => \A i \in ticked : <<i, TRUE>> \in list

(* An entry loses its visits only if the user ticked it at some time: items *)
(* of an older copy of the grid stay in the list, but nothing enters it     *)
(* that was not ticked.                                                     *)
OnlyTickedGo ==
    [][\A i \in DOMAIN entries : entries'[i].visits < entries[i].visits => i \in chosen]_vars

(* Entries shown are in the order of their visits, each once, and one that  *)
(* is not shown has no more visits than any that is, unless all that have   *)
(* visits are shown.                                                        *)
AreTheMostVisited(shown, f) ==
    /\ IsInjective(shown)
    /\ \A j, k \in DOMAIN shown : j < k => f[shown[k]].visits <= f[shown[j]].visits
    /\ \A i \in DOMAIN f \ Range(shown) :
          \/ f[i].visits = 0
          \/ Len(shown) = Limit /\ \A k \in DOMAIN shown : f[i].visits <= f[shown[k]].visits

(* Whenever quick access comes to the screen, from the page, another        *)
(* application, a closed tab or its editing view, the grid has the most     *)
(* visited entries of the history as it is then; and the grid goes on       *)
(* showing them until a page is visited.                                    *)
ShowsTheMostVisited ==
    [][OnScreen' /\ (OnScreen => entries' = entries /\ AreTheMostVisited(most, entries))
        => AreTheMostVisited(most', entries')]_vars
=============================================================================
