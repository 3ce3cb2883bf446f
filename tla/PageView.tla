------------------------------ MODULE PageView ------------------------------
(***************************************************************************)
(* The page view and its address bar (WebPageUI/WebPageUI.cpp and          *)
(* URIEntry.cpp), the loading of the pages it shows (WebView.cpp), the     *)
(* service between them (WebEngineService.cpp) and the handlers of the     *)
(* shell that keep the two in step (SimpleUI/SimpleUI.cpp).                *)
(*                                                                         *)
(* The bar holds copies: of the address of the page, of whether it loads,  *)
(* and of the ways it can go.  They are kept up by signals of the page,    *)
(* which are connected only while the page is the current one and is not   *)
(* suspended; whoever shows a page again has to bring the copies up to     *)
(* date.  Meanwhile the user may be typing, and what a signal brings must  *)
(* then not reach the text.                                                *)
(*                                                                         *)
(* The bookkeeping of tabs is that of WebEngine in short: which tab was    *)
(* used before the current one is left open.  A text that the user types   *)
(* is an address, or stands for one of the conversions of rewriteURI.      *)
(* Levels of progress, favicons, colours and titles are left out, and so   *)
(* are the popups: what one covers can be touched here.                    *)
(***************************************************************************)
EXTENDS Naturals, FiniteSets

CONSTANTS
    NormalTabs,  \* the ids of tabs in normal mode; their number is the limit of tabs
    SecretTabs,  \* those in secret mode
    Urls,        \* addresses of pages
    Https,       \* those that begin with https
    Site,        \* the address that the typed name of a host becomes
    Search,      \* the address of a search for the typed words
    Ways,        \* the ways a page can go in its history
    Typable      \* what a user may type

ASSUME UrlAssumption ==
    /\ Https \subseteq Urls /\ Site \in Urls /\ Search \in Urls
    /\ Urls \cap {"", "home", "host", "words", "start"} = {}
    /\ Typable \subseteq Urls \cup {"", "home", "host", "words"}

Modes == {"NORMAL", "SECRET"}
Ids   == NormalTabs \cup SecretTabs
NoTab == "no tab"

ASSUME TabAssumption == NormalTabs \cap SecretTabs = {} /\ NoTab \notin Ids

TabsOf(mode) == IF mode = "NORMAL" THEN NormalTabs ELSE SecretTabs

Blank == ""
Home  == "home"                      \* about:home
Start == "start"                     \* the home page that was set
Host  == "host"                      \* the host of an address, without more
Texts == Urls \cup {Blank, Home, Start, Host, "words"}

(* rewriteURI: an address stays, a host gets a scheme, the rest is searched *)
(* for.                                                                     *)
Rewrite(text) ==
    CASE text = Host    -> Site
      [] text = "words" -> Search
      [] OTHER          -> text

VARIABLES
    front,   \* the application is in the foreground
    eng,     \* the service: m_state, the tabs of each mode, the current ones,
             \* m_signalsConnected, the suspended views, and those that
             \* wait for an answer about a certificate
    pages,   \* the views: address, m_isLoading, the ways that are possible
    bar,     \* URIEntry, with the progress bar and the buttons beside it
    page     \* WebPageUI: m_statesMgr, the main content, the top of the view
             \* stack, m_shouldOpenNewTab; and, for the properties only,
             \* what it was not told: signals of the current page that were
             \* not heard, and "page", that another page is current; or
             \* "host", that it was given the host a page was asked about

vars == <<front, eng, pages, bar, page>>

EngineState ==
    [mode : Modes, tabs : SUBSET Ids, cur : [Modes -> Ids \cup {NoTab}],
     connected : BOOLEAN, asleep : SUBSET Ids, asked : SUBSET Ids]

View == [uri : Urls \cup {Blank, Start}, loading : BOOLEAN, ways : SUBSET Ways]

Bar ==
    [uri : Texts, text : Texts, focus : BOOLEAN, loading : BOOLEAN,
     icon : {"none", "cancel", "reload", "stop"}, shown : BOOLEAN,
     lock : BOOLEAN, progress : BOOLEAN, ways : SUBSET Ways]

Page ==
    [state : {"QUICK_ACCESS", "EDIT_MODE", "MAIN_WEB_PAGE"},
     content : Ids \cup {"qa"}, top : {"page", "tabs", "edit", "other"},
     newTab : BOOLEAN, lost : SUBSET {"uri", "loading", "ways", "page", "host"}]

NewPage == [uri |-> Blank, loading |-> FALSE, ways |-> {}]

Init ==
    /\ front = TRUE
    /\ eng = [mode |-> "NORMAL", tabs |-> {}, cur |-> [m \in Modes |-> NoTab],
              connected |-> FALSE, asleep |-> {}, asked |-> {}]
    /\ pages = [t \in Ids |-> NewPage]
    /\ bar = [uri |-> Blank, text |-> Blank, focus |-> FALSE, loading |-> FALSE,
              icon |-> "none", shown |-> FALSE, lock |-> FALSE,
              progress |-> FALSE, ways |-> {}]
    /\ page = [state |-> "QUICK_ACCESS", content |-> "qa", top |-> "page",
               newTab |-> FALSE, lost |-> {}]
-----------------------------------------------------------------------------
(* The service. *)

Tabs(e)  == e.tabs \cap TabsOf(e.mode)
Cur(e)   == e.cur[e.mode]
HasView(e) == Cur(e) # NoTab
Heard(t) == eng.connected /\ t = Cur(eng)

(* WebEngineService::suspend and resume, without a view and with one. *)
Suspend(e) ==
    IF HasView(e) THEN [e EXCEPT !.connected = FALSE, !.asleep = @ \cup {Cur(e)}] ELSE e

Resume(e) ==
    IF HasView(e) THEN [e EXCEPT !.connected = TRUE, !.asleep = @ \ {Cur(e)}] ELSE e

ResumeIfSuspended(e) == IF Cur(e) \in e.asleep THEN Resume(e) ELSE e

MakeCurrent(e, t) ==
    Resume(IF t = Cur(e) THEN e ELSE [Suspend(e) EXCEPT !.cur[e.mode] = t])
-----------------------------------------------------------------------------
(* The address bar: each operation of URIEntry gives the bar after it.      *)

(* Mutant: the text is set although the user is typing. *)
ChangeUriAlways(b, u) ==
    [b EXCEPT !.uri = u, !.text = u, !.lock = u \in Https, !.shown = u # Blank,
              !.icon = IF u = Blank THEN @ ELSE IF b.loading THEN "stop" ELSE "reload"]

(* Mutant: an address that comes while the user is typing is dropped.       *)
ChangeUriUnlessFocused(b, u) ==
    IF b.focus THEN b
    ELSE [b EXCEPT !.uri = u, !.text = u, !.lock = u \in Https, !.shown = u # Blank,
                   !.icon = IF u = Blank THEN @ ELSE IF b.loading THEN "stop" ELSE "reload"]

(* changeUri with updateSecureIcon.  The text that is displayed while the   *)
(* entry is not focused leaves out parts of the address.                    *)
ChangeUri(b, u) ==
    LET c == [b EXCEPT !.uri = u, !.lock = u \in Https]
    IN  IF b.focus THEN c
        ELSE IF u = Blank THEN [c EXCEPT !.text = u, !.shown = FALSE]
        ELSE [c EXCEPT !.text = u, !.shown = TRUE,
                       !.icon = IF b.loading THEN "stop" ELSE "reload"]

Unfocus(b) == ChangeUri([b EXCEPT !.focus = FALSE], b.uri)

ClearFocus(b) == IF b.focus THEN Unfocus(b) ELSE b

ShowCancelIcon(b) == [b EXCEPT !.icon = "cancel", !.shown = b.text # Blank]

BarLoadStarted(b) ==
    [b EXCEPT !.loading = TRUE, !.icon = "stop", !.shown = TRUE]

BarLoadFinished(b) ==
    [b EXCEPT !.loading = FALSE, !.icon = "reload", !.shown = TRUE]
-----------------------------------------------------------------------------
(* The page view: each operation of WebPageUI gives the bar, or the view,   *)
(* after it.                                                                *)

WPLoadStarted(b) == [BarLoadStarted(b) EXCEPT !.progress = TRUE]

(* The focus goes to the dummy button, away from the entry. *)
WPLoadFinished(b) ==
    LET c == BarLoadFinished(b)
    IN  ClearFocus([c EXCEPT !.progress = FALSE, !.lock = c.uri \in Https])

SetQuickAccessView(b) ==
    [ChangeUri([b EXCEPT !.progress = FALSE], Blank) EXCEPT !.lock = FALSE, !.ways = {}]

UpdateURIBar(b, u, loading) ==
    [ChangeUri([b EXCEPT !.loading = loading], u) EXCEPT !.progress = FALSE]

(* switchViewToWebPage(layout, uri, loading); m_statesMgr is left alone     *)
(* unless quick access was shown.                                           *)
ShowsTab(p, t) ==
    [p EXCEPT !.state = IF @ = "QUICK_ACCESS" THEN "MAIN_WEB_PAGE" ELSE @,
              !.content = t, !.lost = @ \ {"uri", "loading", "page", "host"}]

(* switchViewToQuickAccess *)
ShowsQuickAccess(p) ==
    [p EXCEPT !.state = "QUICK_ACCESS", !.content = "qa", !.newTab = FALSE]

(* showUI; in secret mode updateEngineStateUI disables the buttons.         *)
ShowUI(w) ==
    LET b == IF w.eng.mode = "SECRET" THEN [w.bar EXCEPT !.ways = {}] ELSE w.bar
    IN  [w EXCEPT !.page.top = "page",
                  !.bar = IF w.page.state = "QUICK_ACCESS" THEN SetQuickAccessView(b) ELSE b]

(* hideUI, when another view is pushed; the entry is told that the page has *)
(* loaded.                                                                  *)
HideUI(w, view) == [w EXCEPT !.page.top = view, !.bar = BarLoadFinished(@)]
-----------------------------------------------------------------------------
(* The shell: what a handler does to the whole.                             *)

Now == [eng |-> eng, pages |-> pages, bar |-> bar, page |-> page]

Becomes(w) ==
    /\ eng' = w.eng /\ pages' = w.pages /\ bar' = w.bar /\ page' = w.page
    /\ UNCHANGED front

Current(w) == w.pages[Cur(w.eng)]

(* popStackTo(m_webPageUI): nothing is shown anew if it is on top already.  *)
PopStackTo(w) == IF w.page.top = "page" THEN w ELSE ShowUI(w)

(* WebPageUI::switchViewToWebPage with what the current page says of itself *)
ShowPage(w) ==
    [w EXCEPT !.page = ShowsTab(@, Cur(w.eng)),
              !.bar  = UpdateURIBar(@, Current(w).uri, Current(w).loading)]

SwitchViewToWebPage(w) == ShowPage([w EXCEPT !.eng = ResumeIfSuspended(@)])

(* What switchToTab of the service tells the bar. *)
Told(b, p) == [ChangeUri(b, p.uri) EXCEPT !.ways = p.ways]

(* WebEngineService::switchToTab; an unknown id is refused.                 *)
EngineSwitch(w, t) ==
    IF t \in Tabs(w.eng)
    THEN [w EXCEPT !.eng = MakeCurrent(@, t), !.bar = Told(@, w.pages[t]),
                   !.page.lost = @ \ {"ways"}]
    ELSE w

SwitchToTab(w, t) == ShowPage(EngineSwitch(w, t))

(* addTab: at the limit it returns the current tab, behind a popup; without *)
(* an id from the adaptor there is no tab.                                  *)
AddTab(w, u) ==
    IF Tabs(w.eng) = TabsOf(w.eng.mode) THEN {<<Cur(w.eng), w>>}
    ELSE {<<t, [w EXCEPT !.eng.tabs = @ \cup {t}, !.pages[t].uri = u]>> :
             t \in TabsOf(w.eng.mode) \ Tabs(w.eng)}
         \cup IF w.eng.mode = "NORMAL" THEN {<<NoTab, w>>} ELSE {}

OpenNewTab(w, u) ==
    {IF r[1] = NoTab THEN r[2] ELSE SwitchToTab(r[2], r[1]) : r \in AddTab(w, u)}

SwitchViewToQuickAccess(w) ==
    PopStackTo([w EXCEPT !.page = ShowsQuickAccess(@),
                         !.bar  = SetQuickAccessView(@),
                         !.eng  = Suspend(@)])

(* openURL, in a new tab or in the current one.                             *)
OpenURL(w, u) ==
    LET v == PopStackTo(w)
        f == ResumeIfSuspended(v.eng)
    IN  IF Tabs(v.eng) = {} \/ (v.page.state = "QUICK_ACCESS" /\ v.page.newTab)
        THEN OpenNewTab(v, u)
        ELSE {[v EXCEPT !.eng = f, !.page = ShowsTab(@, Cur(f)),
                        !.pages[Cur(f)].uri = u,
                        !.bar = ClearFocus(UpdateURIBar(@, u, FALSE))]}

(* closeTab of the service: an id of the other mode is not known.           *)
Forget(e, t) == [e EXCEPT !.tabs = @ \ ({t} \cap TabsOf(e.mode))]

DropView(w, t) ==
    LET e == Forget(w.eng, t)
    IN  [w EXCEPT !.eng = [e EXCEPT !.asleep = @ \cap e.tabs, !.asked = @ \cap e.tabs],
                  !.pages[t] = IF t \in Tabs(w.eng) THEN NewPage ELSE @]

(* engineTabClosed.  When the current tab is closed, the one used last is   *)
(* shown.                                                                   *)
Closed(w, t) ==
    LET e == Forget(w.eng, t)
        v == DropView(w, t)
    IN  IF Tabs(e) = {}
        THEN {[v EXCEPT !.eng.cur[e.mode] = NoTab,
                        !.eng.connected = IF HasView(e) THEN FALSE ELSE @,
                        !.page = ShowsQuickAccess(@), !.bar = SetQuickAccessView(@)]}
        ELSE IF t = Cur(w.eng)
        THEN {SwitchViewToWebPage([EngineSwitch(v, next) EXCEPT !.eng.asleep = @ \cap e.tabs]) :
                next \in Tabs(e)}
        ELSE {SwitchViewToWebPage(v)}
-----------------------------------------------------------------------------
(* The user and the address bar. *)

OnTop(view) == front /\ page.top = view

UserEdits(b) == bar' = b /\ UNCHANGED <<front, eng, pages, page>>

Focused ==
    /\ OnTop("page") /\ ~bar.focus
    /\ UserEdits([bar EXCEPT !.focus = TRUE, !.text = bar.uri, !.lock = FALSE])

(* The focus goes elsewhere, for whatever reason; also when the favicon or  *)
(* the page is touched, or the back key closes the keyboard.                *)
Unfocused == bar.focus /\ UserEdits(Unfocus(bar))

EntryClicked == OnTop("page") /\ bar.focus /\ UserEdits(ShowCancelIcon(bar))

(* _uri_entry_editing_changed_user, and the key that clears the entry, of   *)
(* which that handler is not told.                                          *)
Typed(text) ==
    /\ OnTop("page") /\ bar.focus /\ text # bar.text
    /\ \/ UserEdits(ShowCancelIcon([bar EXCEPT !.text = text]))
       \/ text = Blank /\ UserEdits([bar EXCEPT !.text = text])

(* editingCompleted and filterURL: about:home is quick access, and nothing  *)
(* happens when the entry is empty, but m_URI is empty then.                *)
EditingCompleted ==
    /\ OnTop("page") /\ bar.focus
    /\ LET u == Rewrite(bar.text)
           w == [Now EXCEPT !.bar.uri = u]
       IN  \E v \in CASE u = Home  -> {SwitchViewToQuickAccess([w EXCEPT !.bar = ChangeUri(@, Blank)])}
                      [] u = Blank -> {w}
                      [] OTHER     -> OpenURL(w, u) :
              Becomes([v EXCEPT !.bar = [ClearFocus(v.bar) EXCEPT !.lock = FALSE]])

(* reload of the service, which does nothing without a view.                *)
Reload(w) ==
    IF HasView(w.eng)
    THEN [w EXCEPT !.pages[Cur(w.eng)].loading = TRUE] ELSE w

(* stopLoading, and loadFinished of the shell if the page is heard.         *)
StopLoading(w) ==
    IF HasView(w.eng)
    THEN [w EXCEPT !.pages[Cur(w.eng)].loading = FALSE,
                   !.bar = IF w.eng.connected THEN WPLoadFinished(@) ELSE @,
                   !.page.lost = IF w.eng.connected THEN @ ELSE @ \cup {"loading"}]
    ELSE w

(* _uri_right_icon_clicked *)
RightIconClicked ==
    /\ OnTop("page") /\ bar.shown
    /\ \/ bar.icon = "cancel" /\ UserEdits([bar EXCEPT !.text = Blank, !.shown = FALSE])
       \/ bar.icon = "reload" /\ Becomes(Reload(Now))
       \/ bar.icon = "stop"   /\ Becomes(StopLoading(Now))
-----------------------------------------------------------------------------
(* The user and the other views. *)

(* The back button shows the page before it asks the page to go back; the   *)
(* forward button only asks.                                                *)
BackPage ==
    /\ OnTop("page") /\ bar.ways # {} /\ HasView(eng)
    /\ Becomes(SwitchViewToWebPage(Now))

(* showHomePage: quick access, or an address.                               *)
HomePages == {SwitchViewToQuickAccess(Now)} \cup OpenNewTab(PopStackTo(Now), Start)

HomeClicked == OnTop("page") /\ \E w \in HomePages : Becomes(w)

NewTabClicked ==
    /\ OnTop("page") \/ OnTop("tabs")
    /\ Tabs(eng) # TabsOf(eng.mode)
    /\ \E w \in HomePages : Becomes([w EXCEPT !.page.newTab = TRUE])

(* A link of quick access, of the history or of the bookmarks.              *)
LinkClicked(u) ==
    /\ OnTop("other") \/ (OnTop("page") /\ page.content = "qa")
    /\ \E w \in OpenURL(Now, u) : Becomes(w)

(* The tab manager, the editing view of quick access, or another view.      *)
PushView(view) ==
    /\ OnTop("page")
    /\ view = "edit" => page.state = "QUICK_ACCESS"
    /\ Becomes(HideUI(IF view = "edit" THEN [Now EXCEPT !.page.state = "EDIT_MODE"] ELSE Now, view))

(* popTheStack; the editing view calls editingFinished before.              *)
PopView ==
    /\ front /\ page.top # "page"
    /\ Becomes(ShowUI(IF page.top = "edit" THEN [Now EXCEPT !.page.state = "QUICK_ACCESS"] ELSE Now))

(* The tab may be gone; that there is one to show is left to SimpleUI.      *)
TabClicked(t) ==
    /\ OnTop("tabs") /\ HasView(eng)
    /\ Becomes(PopStackTo(SwitchToTab(Now, t)))

CloseTabsClicked(t) ==
    /\ OnTop("tabs") /\ t \in Tabs(eng)
    /\ \E w \in Closed(Now, t) : Becomes(w)

(* changeEngineState; updateView has nothing to do under another view.      *)
ChangeEngineState ==
    /\ OnTop("tabs")
    /\ Becomes([Now EXCEPT !.eng = [Suspend(eng) EXCEPT !.mode = CHOOSE m \in Modes : m # @],
                           !.page = ShowsQuickAccess(@), !.bar = SetQuickAccessView(@)])

(* The back key on quick access. *)
BackOnQuickAccess ==
    /\ OnTop("page") /\ page.state = "QUICK_ACCESS" /\ Tabs(eng) # {}
    /\ Becomes(SwitchViewToWebPage(Now))

(* What WebPageUI knows when the service has gone back to the opener: it    *)
(* goes on showing the page that closeTab has shown.                        *)
Untold(p, opener) ==
    [p EXCEPT !.newTab = TRUE, !.lost = IF opener = p.content THEN @ ELSE @ \cup {"page"}]

(* The back key on a page that has nothing to go back to: the tab closes,   *)
(* which shows the one used last, and then its opener is made current, or   *)
(* quick access is shown; or the window is lowered.                         *)
BackOnPage ==
    /\ OnTop("page") /\ page.state # "QUICK_ACCESS" /\ HasView(eng)
    /\ \/ \E w \in Closed(Now, Cur(eng)) :
            \/ \E opener \in Tabs(w.eng) :
                  Becomes([EngineSwitch(w, opener) EXCEPT !.page = Untold(@, opener)])
            \/ Becomes([SwitchViewToQuickAccess(w) EXCEPT !.page.newTab = TRUE])
       \/ Becomes([Now EXCEPT !.page.newTab = TRUE])

(* switchToDesktopMode and switchToMobileMode, from the menu of a page.     *)
SwitchToDesktopMode ==
    /\ OnTop("page") /\ page.state = "MAIN_WEB_PAGE"
    /\ Becomes(Reload(Now))
-----------------------------------------------------------------------------
(* Callbacks of the pages, which may have been posted before a page was     *)
(* suspended; and other applications.                                       *)

(* What the signal of a page changes in the bar: nothing, unless the page   *)
(* is heard.                                                                *)
Signal(t, what, p, b) ==
    /\ pages' = [pages EXCEPT ![t] = p]
    /\ bar' = IF Heard(t) THEN b ELSE bar
    /\ page' = [page EXCEPT !.lost = IF t = Cur(eng) /\ ~Heard(t) THEN @ \cup {what} ELSE @]
    /\ UNCHANGED <<front, eng>>

LoadStarted(t) ==
    Signal(t, "loading", [pages[t] EXCEPT !.loading = TRUE], WPLoadStarted(bar))

LoadFinished(t) ==
    Signal(t, "loading", [pages[t] EXCEPT !.loading = FALSE], WPLoadFinished(bar))

(* Progress is ignored unless the page loads; all of it hides the bar.      *)
LoadProgress(t) ==
    pages[t].loading /\ Signal(t, "loading", pages[t], [bar EXCEPT !.progress = FALSE])

UrlChanged(t, u) == Signal(t, "uri", [pages[t] EXCEPT !.uri = u], ChangeUri(bar, u))

BackForwardListChanged(t, w) ==
    Signal(t, "ways", [pages[t] EXCEPT !.ways = w], [bar EXCEPT !.ways = w])

(* __requestCertificationConfirm suspends the view, heard or not, and       *)
(* handleConfirmationRequest then asks the user over a web page: the bar    *)
(* gets the host of the address that the page is loading.  A host that is   *)
(* allowed is confirmed, and the view resumed.  Of a popup only the         *)
(* question is kept.                                                        *)
CertificateRequested(t) ==
    LET asks == Heard(t) /\ page.state = "MAIN_WEB_PAGE"
        sleeps == [eng EXCEPT !.asleep = @ \cup {t}]
    IN  \/ /\ asks
           /\ eng' = [sleeps EXCEPT !.asked = @ \cup {t}]
           /\ bar' = ChangeUri(bar, Host)
           /\ page' = [page EXCEPT !.lost = @ \cup {"host"}]
           /\ UNCHANGED <<front, pages>>
        \/ /\ asks
           /\ eng' = [eng EXCEPT !.asleep = @ \ {t}]
           /\ UNCHANGED <<front, pages, bar, page>>
        \/ /\ ~asks
           /\ eng' = sleeps
           /\ UNCHANGED <<front, pages, bar, page>>

(* certPopupButtonClicked, continuing or not, and confirmationResult, which *)
(* does not know a tab of the other mode.  The bar is left alone.           *)
CertificateAnswered(t) ==
    /\ front /\ t \in eng.asked
    /\ eng' = [eng EXCEPT !.asked = @ \ {t},
                          !.asleep = IF t \in Tabs(eng) THEN @ \ {t} ELSE @]
    /\ UNCHANGED <<front, pages, bar, page>>

(* __newWindowRequest and windowCreated; at the limit nothing is opened.    *)
NewWindow ==
    /\ Tabs(eng) # TabsOf(eng.mode) /\ eng.tabs # {}
    /\ \E r \in AddTab(Now, Blank) :
          LET w == EngineSwitch(r[2], r[1])
          IN  HasView(w.eng) /\ Becomes(SwitchViewToWebPage(w))

CloseWindow(t) == \E w \in Closed(Now, t) : Becomes(w)

(* Another application opens an address: exec, and the next resume.         *)
Exec(u, search) ==
    /\ \E w \in OpenNewTab(IF search THEN PopStackTo(Now) ELSE Now, u) :
          /\ eng' = Resume(w.eng) /\ pages' = w.pages /\ bar' = w.bar /\ page' = w.page
    /\ front' = TRUE

AppPause ==
    /\ front /\ front' = FALSE
    /\ eng' = Suspend(eng)
    /\ UNCHANGED <<pages, bar, page>>

AppResume ==
    /\ ~front /\ front' = TRUE
    /\ eng' = Resume(eng)
    /\ UNCHANGED <<pages, bar, page>>

Callback ==
    \/ NewWindow
    \/ \E t \in eng.tabs :
          \/ LoadStarted(t) \/ LoadFinished(t) \/ LoadProgress(t) \/ CloseWindow(t)
          \/ CertificateRequested(t) \/ CertificateAnswered(t)
          \/ \E u \in Urls : UrlChanged(t, u)
          \/ \E w \in SUBSET Ways : BackForwardListChanged(t, w)

Next ==
    \/ Focused \/ Unfocused \/ EntryClicked \/ EditingCompleted \/ RightIconClicked
    \/ \E text \in Typable : Typed(text)
    \/ BackPage \/ HomeClicked \/ NewTabClicked
    \/ \E u \in Urls : LinkClicked(u) \/ \E search \in BOOLEAN : Exec(u, search)
    \/ \E view \in {"tabs", "edit", "other"} : PushView(view)
    \/ PopView
    \/ \E t \in Ids : TabClicked(t) \/ CloseTabsClicked(t)
    \/ ChangeEngineState \/ BackOnQuickAccess \/ BackOnPage \/ SwitchToDesktopMode
    \/ Callback \/ AppPause \/ AppResume

Spec == Init /\ [][Next]_vars
-----------------------------------------------------------------------------
(* The shape of the state. *)
TypeOK ==
    /\ front \in BOOLEAN
    /\ eng \in EngineState
    /\ eng.asleep \subseteq eng.tabs
    /\ \A m \in Modes : IF eng.tabs \cap TabsOf(m) = {} THEN eng.cur[m] = NoTab
                        ELSE eng.cur[m] \in eng.tabs \cap TabsOf(m)
    /\ pages \in [Ids -> View] /\ bar \in Bar /\ page \in Page

(* A page is on the screen, the page view says so, and was told of the      *)
(* current page and what it signalled of this kind.                         *)
InStep(what) ==
    /\ OnTop("page") /\ page.state = "MAIN_WEB_PAGE"
    /\ page.content \in eng.tabs /\ {what, "page"} \cap page.lost = {}

(* Over a page, the bar has the address of that page, or none, or the host  *)
(* this page was asked about since it was shown; never what belongs to      *)
(* another page or to one that was left.  The bar is empty when the user    *)
(* emptied it and pressed Enter.  A lock is shown only beside an address    *)
(* that begins with https.                                                  *)
BarAgrees ==
    /\ InStep("uri") =>
          \/ bar.uri \in {pages[page.content].uri, Blank}
          \/ bar.uri = Host /\ "host" \in page.lost
    /\ bar.lock => bar.uri \in Https

(* Over a page, the icon that stops loading and the progress bar are only   *)
(* shown while that page loads: also when the page was changed, closed or   *)
(* finished while another view was on top.  While the user types, the icon  *)
(* may be the one of before.                                                *)
IconAgrees ==
    InStep("loading") =>
        /\ bar.shown /\ bar.icon = "stop" /\ ~bar.focus => pages[page.content].loading
        /\ bar.progress => pages[page.content].loading

(* Over a page, the buttons back and forward are only enabled if that page  *)
(* has somewhere to go.                                                     *)
ButtonsAgree == InStep("ways") => bar.ways \subseteq pages[page.content].ways

(* The page on the screen is the one the service signals for; going back to *)
(* an opener that was not used last is the only way to leave one there that *)
(* is not.                                                                  *)
PageAgrees == InStep("page") => page.content = Cur(eng)

(* What is beside a page is of that page: address, lock, icon, progress and *)
(* buttons, each told by another signal of the page to another widget.      *)
BarIsOfThePage == PageAgrees /\ BarAgrees /\ IconAgrees /\ ButtonsAgree

(* What the user types stays in the entry until it is entered or left.      *)
TypingIsKept ==
    [][bar.focus /\ bar'.focus /\ bar.text # bar'.text
          => \/ \E text \in Typable : Typed(text)
             \/ RightIconClicked]_vars
=============================================================================
