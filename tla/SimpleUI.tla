------------------------------ MODULE SimpleUI ------------------------------
(***************************************************************************)
(* The browser shell (services/SimpleUI/SimpleUI.cpp) over the tab         *)
(* bookkeeping of module WebEngine: the application life cycle, the view   *)
(* stack, the two states of the web page view, and the handlers that open, *)
(* show and close tabs.                                                    *)
(*                                                                         *)
(* Everything runs on the one thread of the EFL main loop, so a handler is *)
(* one action.  What interleaves are the handlers: touches of the user,    *)
(* requests of the window system, and callbacks of the web engine, which   *)
(* were posted by a page earlier than they are delivered.                  *)
(***************************************************************************)
EXTENDS WebEngine

CONSTANTS
    MaxRestored, \* bound on the tabs of the last session
    MaxPopups,   \* bound on the popups open at a time
    Faults       \* what may go wrong outside: see FaultAssumption

ASSUME FaultAssumption == Faults \subseteq {"adaptorFails", "pageCloses"}
ASSUME BoundAssumption == MaxRestored \in Nat /\ MaxPopups \in Nat

VARIABLES
    phase,            \* life cycle of the application
    request,          \* what m_functionViewPrepare still has to do
    toRestore,        \* tabs restoreLastSession has not reached yet
    eng,              \* the members of WebEngineService
    wpState,          \* WPUState of the web page view
    shouldOpenNewTab, \* WebPageUI::m_shouldOpenNewTab
    stack,            \* ViewManager::m_viewStack, the top last
    items,            \* the tabs in the grid of the tab manager
    popups,           \* m_popupVector
    pending           \* views with a suspended certificate decision

vars == <<phase, request, toRestore, eng, wpState, shouldOpenNewTab, stack,
          items, popups, pending>>

lifecycle == <<phase, request, toRestore>>
page      == <<wpState, shouldOpenNewTab>>
overlays  == <<stack, items>>
dialogs   == <<popups, pending>>

QA   == "QUICK_ACCESS"
MAIN == "MAIN_WEB_PAGE"

(* The views that can be pushed; "other" stands for the bookmark manager,  *)
(* the bookmark flow, the settings and the quick access editor.            *)
UIViews == {"webPageUI", "tabUI", "passwordUI", "other"}

Popup(kind, v) == [kind |-> kind, view |-> v]
PopupSet == [kind : {"limit", "certificate", "certInfo", "firstSecret"},
             view : Views \cup {NoView}]

TypeOK ==
    /\ phase \in {"off", "restoring", "foreground", "paused"}
    /\ request \in {"launch", "url", "search", "done"}
    /\ toRestore \in Seq(NormalIds)
    /\ EngineTypeOK(eng)
    /\ wpState \in {QA, MAIN}
    /\ shouldOpenNewTab \in BOOLEAN
    /\ stack \in Seq(UIViews)
    /\ items \subseteq TabIds
    /\ popups \in Seq(PopupSet)
    /\ pending \subseteq Views

Init ==
    /\ phase = "off"
    /\ request \in {"launch", "url", "search"}
    /\ toRestore = <<>>
    /\ \E seed \in SecretSeeds : eng = NewEngine(seed)
    /\ wpState = MAIN
    /\ shouldOpenNewTab = TRUE
    /\ stack = <<>>
    /\ items = {}
    /\ popups = <<>>
    /\ pending = {}

Top == IF stack = <<>> THEN "none" ELSE Last(stack)

(* The handlers of the main loop run between start-up and termination.     *)
Running == phase \in {"foreground", "paused"}

(* Mutant: popups do not cover the views. *)
TouchThroughPopups(views) == phase = "foreground" /\ Top \in views

(* A touch reaches a view of the shell only when no popup covers it.       *)
Touchable(views) == phase = "foreground" /\ popups = <<>> /\ Top \in views

CanPopup == Len(popups) < MaxPopups
-----------------------------------------------------------------------------
(***************************************************************************)
(* Pieces that several handlers share.                                     *)
(***************************************************************************)

(* popStackTo(m_webPageUI): m_webPageUI is always at the bottom. *)
PopToWebPage == stack' = <<"webPageUI">> /\ UNCHANGED items

(* showUI of the tab manager refetches its items whenever it comes to top. *)
PopTheStack(e) ==
    /\ stack' = Front(stack)
    /\ items' = IF stack' # <<>> /\ Last(stack') = "tabUI" THEN Tabs(e)
                                                           ELSE items

(* WebPageUI::switchViewToWebPage and switchViewToQuickAccess. *)
PageShows(s) ==
    /\ wpState' = s
    /\ shouldOpenNewTab' = IF s = QA THEN FALSE ELSE shouldOpenNewTab

(* Mutant: off by one. *)
OverLimit(e) == TabsCount(e) > TabLimit

(* checkIfCreate: at the limit a popup, and nothing is created. *)
AtLimit(e) == TabsCount(e) >= TabLimit

CheckIfCreate ==
    IF AtLimit(eng)
    THEN CanPopup /\ popups' = Append(popups, Popup("limit", NoView))
    ELSE UNCHANGED popups

(* addTab with an id of its own: the id it returns.  At the limit that is  *)
(* the current id, and NONE when the adaptor generates none.               *)
AddTabs(e, origin) ==
    IF AtLimit(e)
    THEN {[id |-> CurrentId(e), eng |-> e]}
    ELSE {[id |-> t, eng |-> AddTab(e, t, origin)] : t \in NewIds(e)}
         \cup IF e.mode = "NORMAL" /\ "adaptorFails" \in Faults
              THEN {[id |-> NoTab, eng |-> e]}
              ELSE {}

(* openNewTab: what is returned is switched to, unless it is NONE. *)
OpenNewTab(e, origin) ==
    {IF r.id = NoTab
     THEN [eng |-> r.eng, shown |-> FALSE]
     ELSE [eng |-> SwitchToTab(r.eng, r.id), shown |-> TRUE] :
        r \in AddTabs(e, origin)}

(* The rest of openNewTab: r is one of its outcomes. *)
Opened(r) ==
    /\ wpState' = IF r.shown THEN MAIN ELSE wpState
    /\ CheckIfCreate

(* The views of closed tabs take their certificate questions with them. *)
EngineBecomes(e) == eng' = e /\ pending' = pending \cap Live(e)

(* engineTabClosed, run by the tabClosed signal of a closeTab. *)
AfterTabClosed(e) == IF Tabs(e) = {} THEN e ELSE ResumeIfSuspended(e)

(* Mutant: the page view is shown whether or not a tab is left. *)
ShownPage(e) == MAIN

ShownAfterClose(e) == IF Tabs(e) = {} THEN QA ELSE MAIN
-----------------------------------------------------------------------------
(***************************************************************************)
(* Life cycle: app_control, app_resume, app_pause.                         *)
(***************************************************************************)

(* exec only stores what the next resume is to do: a request that comes    *)
(* before it replaces an earlier one.                                      *)
Exec(r) ==
    /\ phase # "restoring"
    /\ request' = r
    /\ UNCHANGED <<phase, toRestore, eng, page, overlays, dialogs>>

(* The first resume without an address: quick access, then the tabs of the *)
(* last session, whose rows the tab service reads back in some order.      *)
Launch(rows) ==
    /\ phase = "off" /\ request = "launch"
    /\ phase' = "restoring"
    /\ request' = "done"
    /\ toRestore' = rows
    /\ eng' = Suspend(eng)
    /\ PageShows(QA)
    /\ stack' = <<"webPageUI">>
    /\ UNCHANGED <<items, dialogs>>

(* One turn of the loop in restoreLastSession; an origin is what the row's *)
(* index holds: the origin of the tab when its page was saved, so not the  *)
(* tab itself, and not 0, for getAllTabs skips such a row.                 *)
RestoreTab(origin) ==
    /\ phase = "restoring" /\ toRestore # <<>>
    /\ origin # Head(toRestore)
    /\ toRestore' = Tail(toRestore)
    /\ CheckIfCreate
    /\ eng' = IF AtLimit(eng)
              THEN SwitchToTab(eng, CurrentId(eng))
              ELSE SwitchToTab(AddTab(eng, Head(toRestore), origin), Head(toRestore))
    /\ wpState' = MAIN
    /\ UNCHANGED <<phase, request, shouldOpenNewTab, overlays, pending>>

(* The rest of SimpleUI::resume once the session is back. *)
FinishLaunch ==
    /\ phase = "restoring" /\ toRestore = <<>>
    /\ phase' = "foreground"
    /\ eng' = Resume(eng)
    /\ UNCHANGED <<request, toRestore, page, overlays, dialogs>>

(* SimpleUI::resume with an address to open, on the first start too. *)
ResumeWithUrl ==
    /\ phase \in {"off", "paused"} /\ request \in {"url", "search"}
    /\ phase' = "foreground"
    /\ request' = "done"
    /\ stack' = IF phase = "off" \/ request = "search" THEN <<"webPageUI">> ELSE stack
    /\ \E r \in OpenNewTab(eng, Unknown) : Opened(r) /\ eng' = Resume(r.eng)
    /\ UNCHANGED <<toRestore, shouldOpenNewTab, items, pending>>

AppResume ==
    /\ phase = "paused" /\ request \in {"launch", "done"}
    /\ phase' = "foreground"
    /\ request' = "done"
    /\ eng' = Resume(eng)
    /\ UNCHANGED <<toRestore, page, overlays, dialogs>>

AppPause ==
    /\ phase = "foreground"
    /\ phase' = "paused"
    /\ eng' = Suspend(eng)
    /\ UNCHANGED <<request, toRestore, page, overlays, dialogs>>
-----------------------------------------------------------------------------
(***************************************************************************)
(* The address bar, quick access, bookmarks and the home page.             *)
(***************************************************************************)

OpenURL ==
    /\ Touchable({"webPageUI", "other"})
    /\ PopToWebPage
    /\ IF Tabs(eng) = {} \/ (wpState = QA /\ shouldOpenNewTab)
       THEN \E r \in OpenNewTab(eng, QuickAccess) : Opened(r) /\ eng' = r.eng
       ELSE /\ eng' = ResumeIfSuspended(eng)
            /\ wpState' = MAIN
            /\ UNCHANGED popups
    /\ UNCHANGED <<lifecycle, shouldOpenNewTab, pending>>

(* showHomePage: the setting is the quick access page, its most visited    *)
(* tab, or an address.                                                     *)
ShowHomePage(e) ==
    \/ /\ PageShows(QA)
       /\ eng' = Suspend(e)
       /\ UNCHANGED popups
    \/ /\ \E r \in OpenNewTab(e, Unknown) : Opened(r) /\ eng' = r.eng
       /\ UNCHANGED shouldOpenNewTab

HomeClicked ==
    /\ Touchable({"webPageUI"})
    /\ ShowHomePage(eng)
    /\ PopToWebPage
    /\ UNCHANGED <<lifecycle, pending>>

(* newTabClicked: checkIfCreate, the home page, and then the flag. *)
NewTabClicked ==
    /\ Touchable({"webPageUI", "tabUI"})
    /\ IF AtLimit(eng)
       THEN CheckIfCreate /\ UNCHANGED <<eng, page, overlays>>
       ELSE /\ \/ eng' = Suspend(eng) /\ wpState' = QA /\ UNCHANGED popups
               \/ \E r \in OpenNewTab(eng, Unknown) : Opened(r) /\ eng' = r.eng
            /\ shouldOpenNewTab' = TRUE
            /\ PopToWebPage
    /\ UNCHANGED <<lifecycle, pending>>

(* The back and forward buttons of the tool bar, enabled on a page only.   *)
(* backPage switches to the page before the engine goes back.              *)
BackPage ==
    /\ Touchable({"webPageUI"}) /\ wpState = MAIN
    /\ eng' = ResumeIfSuspended(eng)
    /\ UNCHANGED <<lifecycle, page, overlays, dialogs>>
-----------------------------------------------------------------------------
(***************************************************************************)
(* The tab manager and the views above the page.                           *)
(***************************************************************************)

ShowTabUI ==
    /\ Touchable({"webPageUI"})
    /\ stack' = Append(stack, "tabUI")
    /\ items' = Tabs(eng)
    /\ UNCHANGED <<lifecycle, eng, page, dialogs>>

PushView(v) ==
    /\ Touchable(IF v = "passwordUI" THEN {"tabUI"} ELSE {"webPageUI"})
    /\ stack' = Append(stack, v)
    /\ UNCHANGED <<lifecycle, eng, page, items, dialogs>>

(* The close button of a pushed view. *)
CloseView ==
    /\ Touchable({"tabUI", "passwordUI", "other"})
    /\ PopTheStack(eng)
    /\ UNCHANGED <<lifecycle, eng, page, dialogs>>

(* The grid is not told of tabs that pages open or close meanwhile, so the *)
(* id may no longer exist; the page is shown all the same.                 *)
TabClicked(t) ==
    /\ Touchable({"tabUI"}) /\ t \in items
    /\ eng' = SwitchToTab(eng, t)
    /\ PageShows(MAIN)
    /\ PopToWebPage
    /\ UNCHANGED <<lifecycle, dialogs>>

(* closeTabsClicked, for one tab; "close all" calls it for every item.  The *)
(* item that goes is the one the grid has selected, whichever that is.     *)
CloseTabsClicked(t) ==
    /\ Touchable({"tabUI"}) /\ t \in items
    /\ \E selected \in items : items' = items \ {selected}
    /\ LET closed == CloseTab(eng, t)
       IN  IF t = NoTab
           THEN UNCHANGED <<eng, page, pending>>
           ELSE /\ EngineBecomes(AfterTabClosed(closed))
                /\ PageShows(ShownAfterClose(closed))
    /\ UNCHANGED <<lifecycle, stack, popups>>

(* changeEngineState, called by the tab manager or, after a password that  *)
(* lets the user into secret mode, by the password view, which then closes.*)
ChangeEngineState ==
    /\ Touchable({"tabUI", "passwordUI"})
    /\ Top = "passwordUI" => eng.mode = "NORMAL"
    /\ eng' = ChangeState(eng)
    /\ PageShows(QA)
    /\ stack' = IF Top = "passwordUI" THEN Front(stack) ELSE stack
    /\ items' = Tabs(eng')
    /\ UNCHANGED <<lifecycle, dialogs>>
-----------------------------------------------------------------------------
(***************************************************************************)
(* The hardware back key: onBackPressed.                                   *)
(***************************************************************************)

BackFromView ==
    /\ Touchable({"tabUI", "passwordUI", "other"})
    /\ PopTheStack(eng)
    /\ UNCHANGED <<lifecycle, eng, page, dialogs>>

(* QuickAccess::canBeBacked; without a tab the window is lowered instead.  *)
BackFromQuickAccess ==
    /\ Touchable({"webPageUI"}) /\ wpState = QA
    /\ Tabs(eng) # {}
    /\ eng' = ResumeIfSuspended(eng)
    /\ PageShows(MAIN)
    /\ UNCHANGED <<lifecycle, overlays, dialogs>>

(* WebEngineService::backButtonClicked, then setShouldOpenNewTab(true).    *)
(* Whether the page is full screen or has a history to go back in is up to *)
(* the page.                                                               *)
BackOnPage ==
    /\ Touchable({"webPageUI"}) /\ wpState = MAIN
    /\ shouldOpenNewTab' = TRUE
    /\ UNCHANGED <<lifecycle, overlays, popups, eng, wpState, pending>>

(* Mutant: closing the tab is trusted to bring the opener back. *)
BackToMostRecent ==
    /\ Touchable({"webPageUI"}) /\ wpState = MAIN /\ eng.view # NoView
    /\ LET opener == eng.origin[eng.view]
           closed == CloseTab(eng, CurrentId(eng))
       IN  /\ IsFromWebView(opener) /\ opener \in Tabs(eng)
           /\ EngineBecomes(AfterTabClosed(closed))
           /\ wpState' = ShownAfterClose(closed)
    /\ shouldOpenNewTab' = TRUE
    /\ UNCHANGED <<lifecycle, overlays, popups>>

BackToOpener ==
    /\ Touchable({"webPageUI"}) /\ wpState = MAIN /\ eng.view # NoView
    /\ LET opener == eng.origin[eng.view]
           closed == CloseTab(eng, CurrentId(eng))
       IN  /\ IsFromWebView(opener) /\ opener \in Tabs(eng)
           /\ EngineBecomes(SwitchToTab(AfterTabClosed(closed), opener))
           /\ wpState' = ShownAfterClose(closed)
    /\ shouldOpenNewTab' = TRUE
    /\ UNCHANGED <<lifecycle, overlays, popups>>

BackToQuickAccess ==
    /\ Touchable({"webPageUI"}) /\ wpState = MAIN /\ eng.view # NoView
    /\ eng.origin[eng.view] = QuickAccess
    /\ EngineBecomes(Suspend(AfterTabClosed(CloseTab(eng, CurrentId(eng)))))
    /\ wpState' = QA
    /\ shouldOpenNewTab' = TRUE
    /\ PopToWebPage
    /\ UNCHANGED <<lifecycle, popups>>
-----------------------------------------------------------------------------
(***************************************************************************)
(* Callbacks of the web engine.  A page may have posted one before it was  *)
(* suspended or before the mode changed, so any live view may be the       *)
(* source.                                                                 *)
(***************************************************************************)

(* Mutant: the new tab is created behind the current one. *)
NewWindowInBackground(v) ==
    /\ Running /\ v \in Live(eng)
    /\ CheckIfCreate
    /\ \E r \in AddTabs(eng, CurrentId(eng)) : eng' = r.eng
    /\ UNCHANGED <<lifecycle, page, overlays, pending>>

(* __newWindowRequest: the new tab is opened in the current mode, and its  *)
(* opener is the current tab rather than the view that asked.  When addTab *)
(* returns anything but the current id, NONE too, the page is shown.       *)
NewWindowRequest(v) ==
    /\ Running /\ v \in Live(eng)
    /\ CheckIfCreate
    /\ \E r \in AddTabs(eng, CurrentId(eng)) :
          IF r.id = CurrentId(eng)
          THEN eng' = r.eng /\ UNCHANGED wpState
          ELSE /\ eng' = ResumeIfSuspended(SwitchToTab(r.eng, r.id))
               /\ wpState' = MAIN
    /\ UNCHANGED <<lifecycle, shouldOpenNewTab, overlays, pending>>

(* __closeWindowRequest closes the id of the view in the current mode.     *)
CloseWindowRequest(v) ==
    /\ "pageCloses" \in Faults
    /\ Running /\ v \in Live(eng)
    /\ LET closed == CloseTab(eng, v[2])
       IN  IF v[2] = NoTab
           THEN UNCHANGED <<eng, page, pending>>
           ELSE /\ EngineBecomes(AfterTabClosed(closed))
                /\ PageShows(ShownAfterClose(closed))
    /\ UNCHANGED <<lifecycle, overlays, popups>>

(* __requestCertificationConfirm suspends the view, not its signals.  The  *)
(* question gets through only if the view is wired and a page is shown;    *)
(* for a host the user has allowed before it is answered at once.          *)
CertificateRequest(v, allowed) ==
    /\ Running /\ v \in Live(eng)
    /\ LET asked == [eng EXCEPT !.awake = @ \ {v}]
       IN  IF v \in eng.wired /\ wpState = MAIN /\ allowed
           THEN eng' = ConfirmationResult(asked, v[2]) /\ UNCHANGED dialogs
           ELSE /\ eng' = asked
                /\ pending' = pending \cup {v}
                /\ IF v \in eng.wired /\ wpState = MAIN
                   THEN /\ CanPopup
                        /\ popups' = Append(popups, Popup("certificate", v))
                   ELSE UNCHANGED popups
    /\ UNCHANGED <<lifecycle, page, overlays>>
-----------------------------------------------------------------------------
(***************************************************************************)
(* Popups: the last one is on top; every button but one dismisses it.      *)
(***************************************************************************)

(* BACK_TO_SAFETY, CONTINUE, or the back key, which means the former. *)
CertificateAnswered ==
    /\ phase = "foreground" /\ popups # <<>>
    /\ Last(popups).kind = "certificate"
    /\ LET v == Last(popups).view
       IN  /\ eng' = ConfirmationResult(eng, v[2])
           /\ pending' = pending \ {<<eng.mode, v[2]>>}
    /\ popups' = Front(popups)
    /\ UNCHANGED <<lifecycle, page, overlays>>

(* VIEW_CERTIFICATE leaves the question open under the certificate. *)
ViewCertificate ==
    /\ phase = "foreground" /\ popups # <<>>
    /\ Last(popups).kind = "certificate" /\ CanPopup
    /\ popups' = Append(popups, Popup("certInfo", NoView))
    /\ UNCHANGED <<lifecycle, eng, page, overlays, pending>>

(* Entering secret mode without a password, for the first time: the tab    *)
(* manager warns, and the OK button is what changes the mode.              *)
OnFirstSecretMode ==
    /\ Touchable({"tabUI"}) /\ eng.mode = "NORMAL" /\ CanPopup
    /\ popups' = Append(popups, Popup("firstSecret", NoView))
    /\ UNCHANGED <<lifecycle, eng, page, overlays, pending>>

SwitchToSecretFirstTime ==
    /\ phase = "foreground" /\ popups # <<>>
    /\ Last(popups).kind = "firstSecret"
    /\ eng' = ChangeState(eng)
    /\ PageShows(QA)
    /\ items' = Tabs(eng')
    /\ popups' = Front(popups)
    /\ UNCHANGED <<lifecycle, stack, pending>>

DismissPopup ==
    /\ phase = "foreground" /\ popups # <<>>
    /\ Last(popups).kind # "certificate"
    /\ popups' = Front(popups)
    /\ UNCHANGED <<lifecycle, eng, page, overlays, pending>>
-----------------------------------------------------------------------------
(* The rows a session can leave: distinct ids, in the adaptor's order. *)
Sessions ==
    {s \in UNION {[1..n -> NormalIds] : n \in 0..MaxRestored} : IsInjective(s)}

LifeCycle ==
    \/ \E r \in {"launch", "url", "search"} : Exec(r)
    \/ \E rows \in Sessions : Launch(rows)
    \/ \E o \in Origins \ {0} : RestoreTab(o)
    \/ FinishLaunch
    \/ ResumeWithUrl
    \/ AppResume
    \/ AppPause

Touch ==
    \/ OpenURL \/ HomeClicked \/ NewTabClicked \/ BackPage
    \/ ShowTabUI \/ CloseView \/ ChangeEngineState
    \/ \E v \in {"passwordUI", "other"} : PushView(v)
    \/ \E t \in TabIds : TabClicked(t) \/ CloseTabsClicked(t)
    \/ OnFirstSecretMode \/ SwitchToSecretFirstTime
    \/ CertificateAnswered \/ ViewCertificate \/ DismissPopup

BackKey ==
    \/ BackFromView \/ BackFromQuickAccess
    \/ BackOnPage \/ BackToOpener \/ BackToQuickAccess

PageCallback ==
    \E v \in Views :
        \/ NewWindowRequest(v)
        \/ CloseWindowRequest(v)
        \/ \E allowed \in BOOLEAN : CertificateRequest(v, allowed)

Next == LifeCycle \/ Touch \/ BackKey \/ PageCallback

Spec == Init /\ [][Next]_vars
-----------------------------------------------------------------------------
(***************************************************************************)
(* Properties.                                                             *)
(***************************************************************************)

(* Between two handlers the tab structures of WebEngineService agree:      *)
(* mostRecentTab lists exactly the open tabs, each once; its last entry is *)
(* the current tab; the current view is the view of that tab in the mode   *)
(* the user is in.  closeTab, switchToTab and changeState each update a    *)
(* part of this.                                                           *)
TabsAgree ==
    /\ RecentListsTabs(eng)
    /\ CurrentIsMostRecent(eng)
    /\ ViewIsCurrent(eng)

(* The one flag m_signalsConnected is right for every view: signals of the *)
(* current view are connected when it is set, of no view when it is not;   *)
(* and no view that was closed keeps running, or keeps its origin.         *)
SignalsAgree == SignalsMatchFlag(eng) /\ ListensToAView(eng) /\ NoGhosts(eng)

(* While the page view of the running application shows pages, the current *)
(* page runs and its events reach the shell, unless it waits for a         *)
(* certificate decision: no order of closing, going back, pausing and      *)
(* switching modes leaves it dead.  And a current view never runs unheard, *)
(* shown or not.  (That the page on screen is the current one is the       *)
(* matter of module PageView.)                                             *)
PageIsLive ==
    /\ eng.view \in eng.awake => eng.connected
    /\ phase = "foreground" /\ wpState = MAIN /\ eng.view # NoView
          => eng.connected /\ (eng.view \in eng.awake \/ eng.view \in pending)

(* The web page view shows a page only if there is one: setMainContent     *)
(* asserts that its content exists.                                        *)
PageExists == wpState = MAIN /\ phase \notin {"off", "restoring"} => eng.view # NoView

(* A certificate answer is looked up by tab id in the mode of the moment:  *)
(* that finds the right view because no popup outlives its mode.           *)
AnswerReachesItsView ==
    \A i \in DOMAIN popups :
        popups[i].kind = "certificate" => popups[i].view[1] = eng.mode

(* checkIfCreate holds for every way a tab is made, restoring included:    *)
(* neither mode has more tabs than the limit.                              *)
LimitKept == \A m \in Modes : Cardinality(eng.tabs[m]) <= TabLimit

(* Nothing that happens in one mode opens, closes or reorders tabs of the  *)
(* other, and changing the mode does neither in both: the insertion        *)
(* tabs[currentTabId] of changeState never inserts.                        *)
OtherModeUntouched ==
    [][\A m \in Modes :
          \/ m = eng.mode /\ m = eng'.mode
          \/ /\ eng'.tabs[m] = eng.tabs[m]
             /\ eng'.mru[m] = eng.mru[m]
             /\ eng'.cur[m] = eng.cur[m]]_vars

(* A view that is not current stays asleep: only the answer to a           *)
(* certificate question wakes a tab behind another one.                    *)
HiddenTabsStayAsleep ==
    [][\A v \in eng'.awake \ eng.awake : v = eng'.view \/ CertificateAnswered]_vars

(* When quick access replaces a page, by whatever handler, the page stops  *)
(* running and is disconnected.                                            *)
LeavingSuspends ==
    [][wpState = MAIN /\ wpState' = QA
           => eng'.view \notin eng'.awake /\ eng'.wired = {}]_vars

(* Going back from a tab a page opened returns to the tab that opened it,  *)
(* whatever tab was used in between, and that tab is live.                 *)
BackReturnsToOpener ==
    [][BackToOpener =>
          /\ eng'.view = <<eng.mode, eng.origin[eng.view]>>
          /\ eng'.view \in eng'.wired \cap eng'.awake]_vars

(* What the shell promises about tabs: module RecentTabs. *)
Recent == INSTANCE RecentTabs WITH
              Tab    <- TabIds,
              mode   <- eng.mode,
              recent <- eng.mru,
              shown  <- eng.view

ImplementsRecentTabs == Recent!Spec
=============================================================================
