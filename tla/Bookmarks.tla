----------------------------- MODULE Bookmarks -----------------------------
(***************************************************************************)
(* Bookmarks: the tree in the database of the bookmark adaptor (external,  *)
(* behind services/BookmarkService), the manager that lists one folder     *)
(* (services/BookmarkManagerUI), the view that adds or edits a bookmark    *)
(* (services/BookmarkFlowUI) and the handlers of SimpleUI between them.    *)
(* The manager is one object that may be on the view stack twice: as the   *)
(* manager, and above the flow as its folder picker.  It keeps a copy of   *)
(* the folder it shows, which it changes along with the database.          *)
(*                                                                         *)
(* A bookmark is told apart by its url and a folder by its title; titles   *)
(* of bookmarks, pictures and the looks of buttons are left out, so that a *)
(* button can be clicked whenever it is visible.  History, shown in the    *)
(* manager's other tab, is left to the history view.                       *)
(***************************************************************************)
EXTENDS Integers, SequencesExt

CONSTANTS
    Urls,  \* addresses of pages
    Names, \* titles of folders
    NoUrl, \* the empty address
    MaxId  \* ids the database can give before it is full

ASSUME MaxIdAssumption == MaxId \in Nat
ASSUME NamesAssumption == Urls \cap Names = {} /\ NoUrl \notin Urls \cup Names

Root == 0              \* ROOT_FOLDER_ID
Ids == 1..MaxId
NoPopup == [kind |-> "none"]

VARIABLES
    alive,  \* whether the process runs: it dies when it follows a nullptr
    store,  \* the database: an entry for some ids
    next,   \* the next id the database gives; ids grow with the creation date
    page,   \* AbstractWebEngine::getURI
    stack,  \* ViewManager::m_viewStack
    popup,  \* the input popup that is up, with the titles it refuses
    mgr,    \* the members of BookmarkManagerUI
    flow,   \* the members of BookmarkFlowUI
    quick   \* the urls in quick access

ui == <<page, stack, popup, mgr, flow>>
vars == <<alive, store, next, page, stack, popup, mgr, flow, quick>>

ManagerStates == {"Default", "SelectFolder", "Edit", "Delete", "Reorder",
                  "Share", "HistoryView", "HistoryDeleteView"}

Entry == [folder : BOOLEAN, parent : Ids \cup {Root}, seq : Nat, name : Urls \cup Names]

(* BookmarkItem, the copy of an entry that the views hold. *)
Item == [id : Ids \cup {Root}, folder : BOOLEAN, parent : Ids \cup {Root},
         order : Nat, name : Urls \cup Names \cup {NoUrl}]

(* Mutant: no id is told by -1. *)
EmptyItemUnset == [id |-> -1, folder |-> FALSE, parent |-> Root, order |-> 0, name |-> NoUrl]

(* BookmarkItem(), returned when the database refuses a new entry. *)
EmptyItem == [id |-> 0, folder |-> FALSE, parent |-> Root, order |-> 0, name |-> NoUrl]

Manager == [state : ManagerStates, path : Seq(Ids \cup {Root}), added : Seq(Item),
            list : Seq(Item), reordered : BOOLEAN, movable : BOOLEAN,
            selected : SUBSET (Ids \cup {Root}), count : Int, shown : Ids \cup {Root}]

Flow == [url : Urls \cup {NoUrl}, edit : BOOLEAN, folder : Ids \cup {Root}, qa : BOOLEAN]

Popup == [kind : {"new"}, parent : Ids \cup {Root}, bad : SUBSET Names]
             \cup [kind : {"rename"}, item : Item, bad : SUBSET Names]

(* Every variable keeps its type; what is on the stack is above the page. *)
TypeOK ==
    /\ alive \in BOOLEAN
    /\ DOMAIN store \subseteq 1..(next - 1) /\ Range(store) \subseteq Entry
    /\ next \in 1..(MaxId + 1)
    /\ page \in Urls
    /\ stack \in Seq({"page", "manager", "flow"}) /\ stack # <<>> /\ stack[1] = "page"
    /\ popup \in Popup \cup {NoPopup}
    /\ mgr \in Manager
    /\ flow \in Flow
    /\ quick \subseteq Urls

(* mgr.list is the genlist, mgr.added is m_added_bookmarks, mgr.movable     *)
(* its reorder mode; mgr.shown, which the code does not keep, is the folder *)
(* whose items the list was last filled with.                               *)
NewManager == [state |-> "Default", path |-> <<>>, added |-> <<>>, list |-> <<>>,
               reordered |-> FALSE, movable |-> FALSE, selected |-> {}, count |-> 0,
               shown |-> Root]

NewFlow == [url |-> NoUrl, edit |-> FALSE, folder |-> Root, qa |-> FALSE]

Init ==
    /\ alive = TRUE
    /\ store = [i \in {} |-> 0] /\ next = 1
    /\ page \in Urls
    /\ stack = <<"page">> /\ popup = NoPopup
    /\ mgr = NewManager /\ flow = NewFlow
    /\ quick = {}
-----------------------------------------------------------------------------
(* The database. *)

(* The elements of a finite set in the order of R, which has the pairs     *)
(* <<a, b>> of them where b is not before a.                               *)
InOrder(S, R) ==
    [k \in 1..Cardinality(S) |-> CHOOSE b \in S : Cardinality({a \in S : <<a, b>> \in R}) = k]

Children(st, f) == {i \in DOMAIN st : st[i].parent = f}

(* Ordered by sequence; entries of the same sequence in the order of ids. *)
Before(st, i, j) == st[i].seq < st[j].seq \/ (st[i].seq = st[j].seq /\ i < j)

ItemOf(st, i) == [id |-> i, folder |-> st[i].folder, parent |-> st[i].parent,
                  order |-> st[i].seq, name |-> st[i].name]

(* getAllBookmarkItems *)
GetAllBookmarkItems(st, f) ==
    LET C   == Children(st, f)
        ids == InOrder(C, {p \in C \X C : ~Before(st, p[2], p[1])})
    IN  [k \in DOMAIN ids |-> ItemOf(st, ids[k])]

WithUrl(st, url) == {i \in DOMAIN st : ~st[i].folder /\ st[i].name = url}

(* bookmarkExists, and getBookmarkId: the bookmark of the url that was      *)
(* created first.                                                           *)
BookmarkExists(st, url) == WithUrl(st, url) # {}
GetBookmarkId(st, url) == Min(WithUrl(st, url))

(* getBookmarkItem returns nullptr for an id that is not in the database. *)
HasItem(st, f) == f = Root \/ f \in DOMAIN st

(* The titles that getFolders(parent) returns, and folderExists. *)
FolderNames(st, f) == {st[i].name : i \in {j \in Children(st, f) : st[j].folder}}

(* A new entry goes behind the others of its folder: set_sequence(id, -1). *)
LastSeq(st, f) == Max({0} \cup {st[i].seq : i \in Children(st, f)})

Create(st, folder, f, name) ==
    [i \in DOMAIN st \cup {next} |->
        IF i = next
        THEN [folder |-> folder, parent |-> f, seq |-> LastSeq(st, f) + 1, name |-> name]
        ELSE st[i]]

DatabaseFull == next > MaxId

(* A folder is deleted with all that is in it. *)
Below(st, D) ==
    LET in[n \in 0..MaxId] ==
            IF n = 0 THEN D ELSE in[n - 1] \cup UNION {Children(st, f) : f \in in[n - 1]}
    IN  in[MaxId]

Delete(st, D) == Restrict(st, DOMAIN st \ (D \cup Below(st, D)))
-----------------------------------------------------------------------------
(* The manager: its operations take its members and return them changed. *)

IdsOf(items) == {items[k].id : k \in DOMAIN items}

Position(items, id) == CHOOSE k \in DOMAIN items : items[k].id = id

IsWebsite(item) == ~item.folder

(* The items at the places K, in the order they are listed. *)
Kept(items, K) ==
    LET at == InOrder(K, {p \in K \X K : p[1] <= p[2]})
    IN  [n \in DOMAIN at |-> items[at[n]]]

Websites(items) == Kept(items, {k \in DOMAIN items : IsWebsite(items[k])})

Unticked(items, ticks) == Kept(items, {k \in DOMAIN items : items[k].id \notin ticks})

(* Mutant: the items keep their old order in memory. *)
NumberedForgotten(m) == m

(* reoderBookmarkItems, on the items, which list and added share. *)
Numbered(m) ==
    LET Numbering(item) == IF item.id \in IdsOf(m.list)
                           THEN [item EXCEPT !.order = Position(m.list, item.id)]
                           ELSE item
    IN  [m EXCEPT !.list = [k \in DOMAIN m.list |-> Numbering(m.list[k])],
                  !.added = [k \in DOMAIN m.added |-> Numbering(m.added[k])]]

(* reoderBookmarkItems, on the database: items that moved are written. *)
WrittenOrder(st, m) ==
    LET moved == {k \in DOMAIN m.list : m.list[k].order # k /\ m.list[k].id \in DOMAIN st}
    IN  [i \in DOMAIN st |->
            IF \E k \in moved : m.list[k].id = i
            THEN [st[i] EXCEPT !.seq = Position(m.list, i)]
            ELSE st[i]]

(* Mutant: Share starts with the ticks of the last Delete. *)
ChangeStateKeepsTicks(m, s) ==
    LET n == [m EXCEPT !.state = s] IN
    CASE s = "Edit"    -> [n EXCEPT !.reordered = FALSE]
      [] s = "Delete"  -> [n EXCEPT !.selected = {}, !.count = 0]
      [] s = "Share"   -> [n EXCEPT !.list = Websites(m.added)]
      [] s = "Reorder" -> [n EXCEPT !.movable = TRUE]
      [] s = "Default" -> [(IF m.reordered THEN Numbered(n) ELSE n)
                             EXCEPT !.reordered = FALSE, !.movable = FALSE]
      [] OTHER -> n

ChangeState(m, s) ==
    LET n == [m EXCEPT !.state = s] IN
    CASE s = "Edit"    -> [n EXCEPT !.reordered = FALSE]
      [] s = "Delete"  -> [n EXCEPT !.selected = {}, !.count = 0]
      [] s = "Share"   -> [n EXCEPT !.selected = {}, !.count = 0,
                                    !.list = Websites(m.added)]
      [] s = "Reorder" -> [n EXCEPT !.movable = TRUE]
      [] s = "Default" -> [(IF m.reordered THEN Numbered(n) ELSE n)
                             EXCEPT !.reordered = FALSE, !.movable = FALSE]
      [] OTHER -> n

(* The database after changeState, which writes a pending order. *)
AfterState(st, m, s) == IF s = "Default" /\ m.reordered THEN WrittenOrder(st, m) ELSE st

(* addBookmarkItems with the items of folder f.  With a parent the path of  *)
(* the navigator grows, or starts again at the root.                        *)
Fill(m, st, f) ==
    LET items == GetAllBookmarkItems(st, f)
    IN  [m EXCEPT !.added = items, !.list = items, !.shown = f]

AddBookmarkItems(m, st, f) ==
    [Fill(m, st, f) EXCEPT !.path =
        IF m.path # <<>> /\ Last(m.path) = f THEN m.path
        ELSE IF f = Root THEN <<Root>> ELSE Append(m.path, f)]

AddBookmarkItemCurrentFolder(m, item) ==
    [m EXCEPT !.list = Append(@, item), !.added = Append(@, item)]

(* updateDeleteClick *)
UpdateDeleteClick(m, id) ==
    IF id \in m.selected
    THEN [m EXCEPT !.selected = @ \ {id}, !.count = @ - 1]
    ELSE [m EXCEPT !.selected = @ \cup {id}, !.count = @ + 1]
-----------------------------------------------------------------------------
(* The view stack. *)

Top == Last(stack)

(* updateLayout asks the view that leaves and the view that comes for their *)
(* content, and the manager changes into its state again when asked.        *)
ShowStack(s, m, st) ==
    /\ stack' = s
    /\ IF "manager" \in {Top, Last(s)}
       THEN mgr' = ChangeState(m, m.state) /\ store' = AfterState(st, m, m.state)
       ELSE mgr' = m /\ store' = st

(* A nullptr is followed: the process ends with the database as it is. *)
Die ==
    /\ alive' = FALSE
    /\ UNCHANGED <<next, ui, quick>>

(* openURL: the stack is popped down to the page.  An empty address leads  *)
(* nowhere.                                                                *)
OpenURL(url) ==
    /\ page' = IF url = NoUrl THEN page ELSE url
    /\ ShowStack(<<"page">>, mgr, store)

(* A user acts on the view on top, or on the popup that covers it. *)
On(view) == alive /\ popup = NoPopup /\ Top = view

InState(S) == On("manager") /\ mgr.state \in S

ManagerBecomes(m) ==
    /\ mgr' = m
    /\ UNCHANGED <<alive, store, next, page, stack, popup, flow, quick>>

(* changeState(s) by the manager. *)
StateBecomes(s) ==
    /\ mgr' = ChangeState(mgr, s) /\ store' = AfterState(store, mgr, s)
    /\ UNCHANGED <<alive, next, page, quick>>
-----------------------------------------------------------------------------
(* The page. *)

(* The page goes elsewhere by itself, whatever is shown above it. *)
Navigate(url) ==
    /\ alive /\ page' = url
    /\ UNCHANGED <<alive, store, next, stack, popup, mgr, flow, quick>>

(* Another application has an address opened. *)
OpenFromOutside(url) ==
    /\ alive /\ OpenURL(url)
    /\ UNCHANGED <<alive, next, popup, flow, quick>>

(* setFolder follows the folder it is given at once, and so does showUI. *)
ShowFlow(url, edit, f) ==
    IF HasItem(store, f)
    THEN /\ flow' = [flow EXCEPT !.url = url, !.edit = edit, !.folder = f]
         /\ stack' = Append(stack, "flow")
         /\ UNCHANGED <<alive, next, page, popup, quick>>
    ELSE Die

(* showBookmarkFlowUI; pushing the flow over the page leaves the manager. *)
ShowBookmarkFlowUI ==
    LET known == BookmarkExists(store, page)
        f == IF known THEN store[GetBookmarkId(store, page)].parent ELSE Root
    IN  /\ On("page")
        /\ ShowFlow(page, known, f)
        /\ UNCHANGED <<store, mgr>>

(* deleteBookmark, by the menu of a page that is bookmarked. *)
DeleteBookmark ==
    /\ On("page") /\ BookmarkExists(store, page)
    /\ store' = Delete(store, {GetBookmarkId(store, page)})
    /\ UNCHANGED <<alive, next, ui, quick>>

(* showBookmarkManagerUI: setState, push, addBookmarkItems. *)
ShowBookmarkManagerUI(f, s) ==
    /\ stack' = Append(stack, "manager")
    /\ store' = AfterState(store, mgr, s)
    /\ mgr' = AddBookmarkItems(ChangeState(mgr, s), AfterState(store, mgr, s), f)
    /\ UNCHANGED <<alive, next, page, popup, flow, quick>>

OpenManager == On("page") /\ ShowBookmarkManagerUI(Root, "Default")
-----------------------------------------------------------------------------
(* The flow. *)

SelectFolder == On("flow") /\ ShowBookmarkManagerUI(flow.folder, "SelectFolder")

(* The box is only there for a new bookmark. *)
TickQuickAccess ==
    /\ On("flow") /\ ~flow.edit
    /\ flow' = [flow EXCEPT !.qa = ~@]
    /\ UNCHANGED <<alive, store, next, page, stack, popup, mgr, quick>>

(* _done_clicked: the quick access item, the way back, the box. *)
CloseFlow(m, st) ==
    /\ quick' = IF flow.qa THEN quick \cup ({flow.url} \ {NoUrl}) ELSE quick
    /\ ShowStack(Front(stack), m, st)
    /\ flow' = [flow EXCEPT !.qa = FALSE]
    /\ UNCHANGED <<alive, page, popup>>

(* addBookmark: the page's address of now is stored.  Whether the address  *)
(* has a bookmark already is asked for, and the answer dropped.            *)
SaveBookmark ==
    /\ On("flow") /\ ~flow.edit
    /\ IF DatabaseFull
       THEN CloseFlow(mgr, store) /\ UNCHANGED next
       ELSE CloseFlow(mgr, Create(store, FALSE, flow.folder, page)) /\ next' = next + 1

(* Mutant: the list is left as it was. *)
EditBookmarkUnseen(url) ==
    /\ On("flow") /\ flow.edit
    /\ LET id == GetBookmarkId(store, flow.url)
           st == IF BookmarkExists(store, flow.url)
                 THEN [store EXCEPT ![id].name = url, ![id].parent = flow.folder]
                 ELSE store
       IN  CloseFlow(mgr, st)
    /\ UNCHANGED next

(* editBookmark: the bookmark is looked up by the address it had; one that  *)
(* is gone is not edited.  The manager is given the folder's items.         *)
EditBookmark(url) ==
    /\ On("flow") /\ flow.edit
    /\ IF flow.url = NoUrl
       THEN CloseFlow(mgr, store)
       ELSE LET id == GetBookmarkId(store, flow.url)
                st == IF BookmarkExists(store, flow.url)
                      THEN [store EXCEPT ![id].name = url, ![id].parent = flow.folder]
                      ELSE store
            IN  CloseFlow(Fill(mgr, st, flow.folder), st)
    /\ UNCHANGED next

(* Cancel clears the box; the back key does not. *)
LeaveFlow ==
    /\ On("flow")
    /\ ShowStack(Front(stack), mgr, store)
    /\ flow' \in {flow, [flow EXCEPT !.qa = FALSE]}
    /\ UNCHANGED <<alive, next, page, popup, quick>>
-----------------------------------------------------------------------------
(* The manager on top. *)

(* A tap on a folder, by item or in the navigator, lists it. *)
OpenFolder(k) ==
    /\ InState({"Default", "SelectFolder"}) /\ mgr.list[k].folder
    /\ ManagerBecomes(AddBookmarkItems(mgr, store, mgr.list[k].id))

NavigatorFolder(k) ==
    /\ InState({"Default", "SelectFolder"}) /\ k < Len(mgr.path)
    /\ ManagerBecomes(AddBookmarkItems([mgr EXCEPT !.path = SubSeq(@, 1, k)],
                                       store, mgr.path[k]))

OpenBookmark(k) ==
    /\ InState({"Default", "SelectFolder"}) /\ IsWebsite(mgr.list[k])
    /\ OpenURL(mgr.list[k].name)
    /\ UNCHANGED <<alive, next, popup, flow, quick>>

(* onBookmarkEdit of a folder asks for its new name. *)
EditFolder(k) ==
    /\ InState({"Edit"}) /\ mgr.list[k].folder
    /\ popup' = [kind |-> "rename", item |-> mgr.list[k],
                 bad |-> FolderNames(store, mgr.list[k].parent)]
    /\ StateBecomes("Default") /\ UNCHANGED <<stack, flow>>

(* onBookmarkEdit of a bookmark shows the flow. *)
EditItem(k) ==
    /\ InState({"Edit"}) /\ IsWebsite(mgr.list[k])
    /\ ShowFlow(mgr.list[k].name, TRUE, mgr.list[k].parent)
    /\ IF HasItem(store, mgr.list[k].parent)
       THEN mgr' = ChangeState(mgr, "Default") /\ store' = AfterState(store, mgr, "Default")
       ELSE UNCHANGED store

(* The context menu; only new folders can be made in an empty list. *)
Choose(s) ==
    /\ InState({"Default"}) /\ mgr.list # <<>> /\ s \in {"Delete", "Share", "Reorder", "Edit"}
    /\ StateBecomes(s) /\ UNCHANGED <<stack, popup, flow>>

(* The new folder goes to the end of the path, not to the folder shown. *)
NewFolder ==
    /\ InState({"Default", "SelectFolder"}) /\ mgr.path # <<>>
    /\ popup' = [kind |-> "new", parent |-> Last(mgr.path),
                 bad |-> FolderNames(store, Last(mgr.path))]
    /\ UNCHANGED <<alive, store, next, page, stack, mgr, flow, quick>>

Tick(k) ==
    /\ InState({"Delete", "Share"})
    /\ ManagerBecomes(UpdateDeleteClick(mgr, mgr.list[k].id))

(* The box above the list ticks all items, or none when all are ticked. *)
SelectAll ==
    LET ids == IdsOf(mgr.list)
        all == mgr.count = Len(mgr.list)
    IN  /\ InState({"Delete", "Share"})
        /\ ManagerBecomes(
              IF all
              THEN [mgr EXCEPT !.selected = @ \ ids,
                               !.count = @ - Cardinality(ids \cap mgr.selected)]
              ELSE [mgr EXCEPT !.selected = @ \cup ids,
                               !.count = @ + Cardinality(ids \ mgr.selected)])

(* An item is dragged from place j to place k of the genlist. *)
Move(j, k) ==
    /\ On("manager") /\ mgr.movable /\ j # k
    /\ mgr.state \notin {"HistoryView", "HistoryDeleteView"}
    /\ ManagerBecomes([mgr EXCEPT !.list = InsertAt(RemoveAt(@, j), k, @[j]),
                                  !.reordered = TRUE])

(* _accept_clicked of Delete: every ticked item goes from the database and  *)
(* from the screen.                                                         *)
AcceptDelete ==
    LET m == [mgr EXCEPT !.list = Unticked(@, mgr.selected)]
        st == Delete(store, mgr.selected)
    IN  /\ InState({"Delete"})
        /\ mgr' = ChangeState(m, "Default") /\ store' = AfterState(st, m, "Default")
        /\ UNCHANGED <<alive, next, page, stack, popup, flow, quick>>

(* _accept_clicked of SelectFolder hands the end of the path to the flow. *)
AcceptFolder ==
    /\ InState({"SelectFolder"}) /\ mgr.path # <<>>
    /\ flow' = [flow EXCEPT !.folder = Last(mgr.path)]
    /\ stack' = Front(stack)
    /\ StateBecomes("Default") /\ UNCHANGED popup

(* onBackPressed where it closes the manager; the back key, the buttons.    *)
CloseManager ==
    /\ InState({"Default", "SelectFolder", "HistoryView"})
    /\ stack' = Front(stack)
    /\ StateBecomes("Default") /\ UNCHANGED <<popup, flow>>

(* onBackPressed where it returns to the list. *)
LeaveState ==
    /\ InState({"Edit", "Delete", "Reorder"})
    /\ StateBecomes("Default") /\ UNCHANGED <<stack, popup, flow>>

(* Share ends by its button, which sends the ticked items, or by back; the  *)
(* whole list is filled in again.                                           *)
LeaveShare ==
    /\ InState({"Share"})
    /\ LET m == [mgr EXCEPT !.list = mgr.added]
       IN  mgr' = ChangeState(m, "Default") /\ store' = AfterState(store, m, "Default")
    /\ UNCHANGED <<alive, next, page, stack, popup, flow, quick>>

(* The tabs above the list and what the history's menu and buttons do. *)
SwitchHistory ==
    /\ \/ InState({"Default"}) /\ StateBecomes("HistoryView")
       \/ InState({"HistoryView"}) /\ \E s \in {"Default", "HistoryDeleteView"} : StateBecomes(s)
       \/ InState({"HistoryDeleteView"}) /\ StateBecomes("HistoryView")
    /\ UNCHANGED <<stack, popup, flow>>
-----------------------------------------------------------------------------
(* The popups. *)

Answers(name) == alive /\ popup # NoPopup /\ name \notin popup.bad

(* onNewFolderPopupClick: what addFolder returns is listed, if the manager *)
(* is on top.  Bound: a list has one empty item at most.                   *)
CreateFolder(name) ==
    LET parent == popup.parent
        st == Create(store, TRUE, parent, name)
        Listed(item) == IF Top = "manager" THEN AddBookmarkItemCurrentFolder(mgr, item) ELSE mgr
    IN  /\ popup.kind = "new" /\ Answers(name)
        /\ IF name \in FolderNames(store, parent)
           THEN UNCHANGED <<store, next, mgr>>
           ELSE IF DatabaseFull
           THEN /\ EmptyItem.id \notin IdsOf(mgr.added)
                /\ mgr' = Listed(EmptyItem) /\ UNCHANGED <<store, next>>
           ELSE /\ store' = st /\ next' = next + 1
                /\ mgr' = Listed([ItemOf(st, next) EXCEPT !.order = 0])
        /\ popup' = NoPopup
        /\ UNCHANGED <<alive, page, stack, flow, quick>>

(* onEditFolderPopupClicked: the folder is renamed and the list filled with *)
(* the items of its parent, which is asked for its id.                      *)
RenameFolder(name) ==
    LET item == popup.item
        st == IF item.id \in DOMAIN store THEN [store EXCEPT ![item.id].name = name] ELSE store
    IN  /\ popup.kind = "rename" /\ Answers(name)
        /\ store' = st
        /\ IF ~HasItem(store, item.parent) /\ Top = "manager"
           THEN Die
           ELSE /\ mgr' = IF Top = "manager" THEN Fill(mgr, st, item.parent) ELSE mgr
                /\ popup' = NoPopup
                /\ UNCHANGED <<alive, next, page, stack, flow, quick>>

DismissPopup ==
    /\ alive /\ popup # NoPopup
    /\ popup' = NoPopup
    /\ UNCHANGED <<alive, store, next, page, stack, mgr, flow, quick>>

(* The user starts the browser again. *)
Restart ==
    /\ ~alive /\ alive' = TRUE
    /\ stack' = <<"page">> /\ popup' = NoPopup /\ mgr' = NewManager /\ flow' = NewFlow
    /\ UNCHANGED <<store, next, page, quick>>
-----------------------------------------------------------------------------
PageStep ==
    \/ \E url \in Urls : Navigate(url)
    \/ \E url \in Urls : OpenFromOutside(url)
    \/ ShowBookmarkFlowUI
    \/ DeleteBookmark
    \/ OpenManager

FlowStep ==
    \/ SelectFolder
    \/ TickQuickAccess
    \/ SaveBookmark
    \/ \E url \in Urls : EditBookmark(url)
    \/ LeaveFlow

ManagerStep ==
    \/ \E k \in DOMAIN mgr.list : OpenFolder(k)
    \/ \E k \in DOMAIN mgr.path : NavigatorFolder(k)
    \/ \E k \in DOMAIN mgr.list : OpenBookmark(k)
    \/ \E k \in DOMAIN mgr.list : EditFolder(k)
    \/ \E k \in DOMAIN mgr.list : EditItem(k)
    \/ \E s \in ManagerStates : Choose(s)
    \/ NewFolder
    \/ \E k \in DOMAIN mgr.list : Tick(k)
    \/ SelectAll
    \/ \E j, k \in DOMAIN mgr.list : Move(j, k)
    \/ AcceptDelete
    \/ AcceptFolder
    \/ CloseManager
    \/ LeaveState
    \/ LeaveShare
    \/ SwitchHistory

PopupStep ==
    \/ \E name \in Names : CreateFolder(name)
    \/ \E name \in Names : RenameFolder(name)
    \/ DismissPopup

Next == PageStep \/ FlowStep \/ ManagerStep \/ PopupStep \/ Restart

Spec == Init /\ [][Next]_vars
-----------------------------------------------------------------------------
(* What the manager shows is what the database holds, as far as the user    *)
(* can be misled: no entry of the folder is missing from the list, and no   *)
(* listed entry has another name or place than in the database.  The copy   *)
(* is changed by hand for new folders, deletion and renaming, filtered for  *)
(* Share, and refilled by whoever else changes the database.                *)
(* (BookmarkManagerUI::addFilteredBookmarkItems, addBookmarkItemCurrentFolder) *)
ListIsCurrent ==
    alive /\ Top = "manager" =>
        /\ \A i \in Children(store, mgr.shown) :
              (mgr.state = "Share" /\ store[i].folder) \/ i \in IdsOf(mgr.list)
        /\ \A item \in Range(mgr.list) :
              item.id \in DOMAIN store =>
                  item.name = store[item.id].name /\ item.parent = store[item.id].parent

(* The ticked items are on the screen and are as many as the title says:   *)
(* the button finds a list item for each tick, and nothing that the user    *)
(* does not see is deleted or shared.  Ticks are kept by id, over lists     *)
(* that are filtered and filled again.                                      *)
(* (BookmarkManagerUI::_accept_clicked, clearSelection, m_selected_count)   *)
TickedAreListed ==
    alive /\ Top = "manager" /\ mgr.state \in {"Delete", "Share"} =>
        /\ mgr.selected \subseteq IdsOf(mgr.list)
        /\ mgr.count = Cardinality(mgr.selected)

(* When the manager forgets that items were dragged, the database has the   *)
(* order of the list: entries whose place in memory is right already are    *)
(* not written, and the manager may have been left in between.              *)
(* (BookmarkManagerUI::reoderBookmarkItems, m_reordered)                    *)
DragsReachTheStore ==
    [][ alive /\ mgr.reordered /\ ~mgr'.reordered =>
          \A j, k \in DOMAIN mgr.list :
              LET a == mgr.list[j].id
                  b == mgr.list[k].id
              IN  /\ j < k /\ {a, b} \subseteq DOMAIN store'
                  /\ store'[a].parent = store'[b].parent
                  => store'[a].seq < store'[b].seq ]_vars
=============================================================================
