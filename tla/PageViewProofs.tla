--------------------------- MODULE PageViewProofs ---------------------------
(***************************************************************************)
(* What is beside a page is of that page: the proof, for any tabs, ways    *)
(* and addresses.                                                          *)
(*                                                                         *)
(* A handler takes the whole through several operations, and on the way    *)
(* the parts do not agree: the address of a new page is in the bar while   *)
(* the old one is still shown.  So there are two notions: Sound, which     *)
(* every operation keeps, and Agreed, which showing a page brings about    *)
(* and which every handler ends with.                                      *)
(***************************************************************************)
EXTENDS PageView, TLAPS

(* The bar by itself: the icon that stops loading is only shown while the  *)
(* bar takes the page to load, or it is a stale one while the user types.  *)
GoodBar(b) ==
    /\ b \in Bar
    /\ b.shown /\ b.icon = "stop" /\ ~b.focus => b.loading

Locks(b) == b.lock => b.uri \in Https

(* From one bar to the next: what the user typed stays in the entry as long *)
(* as it has the focus, and the lock stays the one of the address.          *)
Keeps(b, c) ==
    /\ c.focus => b.focus /\ c.text = b.text
    /\ Locks(b) => Locks(c)

LEMMA TextsOK ==
    /\ Urls \cup {Blank, Home, Start} \subseteq Texts
    /\ Https \subseteq Urls /\ Blank \notin Urls
    /\ \A text \in Texts : Rewrite(text) \in Texts
    /\ \A text \in Texts :
          \/ Rewrite(text) \in Urls \cup {Start} /\ Rewrite(text) \notin {Blank, Home}
          \/ Rewrite(text) = Blank
          \/ Rewrite(text) = Home
    /\ Home # Blank
BY UrlAssumption DEF Texts, Rewrite, Blank, Home, Start

LEMMA ChangeUriOK ==
    ASSUME NEW b \in Bar, NEW u \in Texts, NEW c, c = ChangeUri(b, u)
    PROVE  /\ GoodBar(c) /\ Keeps(b, c) /\ Locks(c)
           /\ c.uri = u /\ c.focus = b.focus /\ c.ways = b.ways
           /\ c.loading = b.loading /\ c.progress = b.progress
<1> DEFINE k == u \in Https
           i == IF b.loading THEN "stop" ELSE "reload"
<1>1. k \in BOOLEAN /\ (k => u \in Https)
  OBVIOUS
<1>2. i \in {"stop", "reload"} /\ (i = "stop" => b.loading)
  OBVIOUS
<1>3. \/ b.focus /\ c = [b EXCEPT !.uri = u, !.lock = k]
      \/ c = [b EXCEPT !.uri = u, !.lock = k, !.text = u, !.shown = FALSE] /\ ~b.focus
      \/ c = [b EXCEPT !.uri = u, !.lock = k, !.text = u, !.shown = TRUE, !.icon = i] /\ ~b.focus
  BY DEF ChangeUri, Bar
<1> HIDE DEF k, i
<1>4. c \in Bar
  BY <1>1, <1>2, <1>3 DEF Bar
<1>5. /\ c.uri = u /\ c.focus = b.focus /\ c.ways = b.ways
      /\ c.loading = b.loading /\ c.progress = b.progress
  BY <1>3 DEF Bar
<1>6. c.lock => c.uri \in Https
  BY <1>1, <1>3 DEF Bar
<1>7. c.shown /\ c.icon = "stop" /\ ~c.focus => c.loading
  BY <1>2, <1>3 DEF Bar
<1>8. c.focus => b.focus /\ c.text = b.text
  BY <1>3 DEF Bar
<1> QED BY <1>4, <1>5, <1>6, <1>7, <1>8 DEF GoodBar, Keeps, Locks

LEMMA ClearFocusOK ==
    ASSUME NEW b, GoodBar(b), NEW c, c = Unfocus(b) \/ c = ClearFocus(b)
    PROVE  /\ GoodBar(c) /\ Keeps(b, c) /\ ~c.focus
           /\ c.uri = b.uri /\ c.ways = b.ways
           /\ c.loading = b.loading /\ c.progress = b.progress
<1>1. CASE c = Unfocus(b)
  <2> DEFINE d == [b EXCEPT !.focus = FALSE]
  <2>1. /\ d \in Bar /\ ~d.focus /\ d.ways = b.ways
        /\ d.loading = b.loading /\ d.progress = b.progress /\ b.uri \in Texts
    BY DEF GoodBar, Bar
  <2>2. c = ChangeUri(d, b.uri)
    BY <1>1 DEF Unfocus
  <2> HIDE DEF d
  <2> QED BY <2>1, <2>2, ChangeUriOK DEF Keeps
<1>2. CASE c = b /\ ~b.focus
  BY <1>2 DEF Keeps
<1> QED BY <1>1, <1>2 DEF ClearFocus

LEMMA LoadStartedOK ==
    ASSUME NEW b, GoodBar(b), NEW c, c = WPLoadStarted(b)
    PROVE  GoodBar(c) /\ Keeps(b, c) /\ c.uri = b.uri /\ c.ways = b.ways
BY DEF GoodBar, Bar, Keeps, Locks, WPLoadStarted, BarLoadStarted

LEMMA BarLoadFinishedOK ==
    ASSUME NEW b, GoodBar(b), NEW c, c = BarLoadFinished(b)
    PROVE  /\ GoodBar(c) /\ Keeps(b, c) /\ c.uri = b.uri /\ c.ways = b.ways
           /\ ~c.loading /\ c.progress = b.progress
BY DEF GoodBar, Bar, Keeps, Locks, BarLoadFinished

LEMMA LoadFinishedOK ==
    ASSUME NEW b, GoodBar(b), NEW c, c = WPLoadFinished(b)
    PROVE  /\ GoodBar(c) /\ Keeps(b, c) /\ c.uri = b.uri /\ c.ways = b.ways
           /\ ~c.loading /\ ~c.progress
<1> DEFINE d == BarLoadFinished(b)
           k == d.uri \in Https
           f == [d EXCEPT !.progress = FALSE, !.lock = k]
<1>1. /\ GoodBar(d) /\ Keeps(b, d) /\ d.uri = b.uri /\ d.ways = b.ways
      /\ ~d.loading
  BY BarLoadFinishedOK
<1>2. c = ClearFocus(f)
  BY DEF WPLoadFinished
<1>a. k \in BOOLEAN /\ (k => d.uri \in Https)
  OBVIOUS
<1> HIDE DEF d, k
<1>3. /\ GoodBar(f) /\ Keeps(b, f) /\ f.uri = b.uri /\ f.ways = b.ways
      /\ ~f.loading /\ ~f.progress
  BY <1>1, <1>a DEF GoodBar, Bar, Keeps, Locks
<1> HIDE DEF f
<1> QED BY <1>2, <1>3, ClearFocusOK DEF Keeps

LEMMA QuickAccessViewOK ==
    ASSUME NEW b, GoodBar(b), NEW c, c = SetQuickAccessView(b)
    PROVE  GoodBar(c) /\ Keeps(b, c) /\ c.ways = {}
<1> DEFINE d == [b EXCEPT !.progress = FALSE]
           f == ChangeUri(d, Blank)
<1>1. d \in Bar /\ d.focus = b.focus /\ d.text = b.text /\ d.lock = b.lock /\ d.uri = b.uri
  BY DEF GoodBar, Bar
<1>2. c = [f EXCEPT !.lock = FALSE, !.ways = {}]
  BY DEF SetQuickAccessView
<1> HIDE DEF d
<1>3. GoodBar(f) /\ Keeps(d, f) /\ Locks(f)
  BY <1>1, ChangeUriOK, TextsOK
<1> HIDE DEF f
<1> QED BY <1>1, <1>2, <1>3 DEF GoodBar, Bar, Keeps, Locks

LEMMA UpdateOK ==
    ASSUME NEW b, GoodBar(b), NEW u \in Texts, NEW l \in BOOLEAN, NEW c, c = UpdateURIBar(b, u, l)
    PROVE  /\ GoodBar(c) /\ Keeps(b, c) /\ c.uri = u /\ c.ways = b.ways
           /\ (c.loading <=> l) /\ ~c.progress
<1> DEFINE d == [b EXCEPT !.loading = l]
           f == ChangeUri(d, u)
<1>1. d \in Bar /\ d.focus = b.focus /\ d.text = b.text /\ d.ways = b.ways /\ d.loading = l
  BY DEF GoodBar, Bar
<1>2. c = [f EXCEPT !.progress = FALSE]
  BY DEF UpdateURIBar
<1> HIDE DEF d
<1>3. GoodBar(f) /\ Keeps(d, f) /\ Locks(f) /\ f.uri = u /\ f.ways = d.ways /\ f.loading = d.loading
  BY <1>1, ChangeUriOK
<1> HIDE DEF f
<1> QED BY <1>1, <1>2, <1>3 DEF GoodBar, Bar, Keeps, Locks

LEMMA ToldOK ==
    ASSUME NEW b, GoodBar(b), NEW p \in View, NEW c, c = Told(b, p)
    PROVE  /\ GoodBar(c) /\ Keeps(b, c) /\ c.ways = p.ways /\ c.uri = p.uri
           /\ c.loading = b.loading /\ c.progress = b.progress
<1> DEFINE f == ChangeUri(b, p.uri)
<1>1. p.uri \in Texts /\ p.ways \subseteq Ways /\ b \in Bar
  BY TextsOK DEF View, GoodBar
<1>2. c = [f EXCEPT !.ways = p.ways]
  BY DEF Told
<1>3. /\ GoodBar(f) /\ Keeps(b, f) /\ f.uri = p.uri
      /\ f.loading = b.loading /\ f.progress = b.progress /\ Locks(f)
  BY <1>1, ChangeUriOK
<1> HIDE DEF f
<1> QED BY <1>1, <1>2, <1>3 DEF GoodBar, Bar, Keeps, Locks

-----------------------------------------------------------------------------
(***************************************************************************)
(* The service: the current tab of each mode.                              *)
(***************************************************************************)
CurOf(e, m) ==
    IF e.tabs \cap TabsOf(m) = {} THEN e.cur[m] = NoTab
                                  ELSE e.cur[m] \in e.tabs \cap TabsOf(m)

GoodEng(e) ==
    /\ e \in EngineState /\ e.asleep \subseteq e.tabs
    /\ \A m \in Modes : CurOf(e, m)

LEMMA GoodEngOK ==
    ASSUME NEW e, GoodEng(e)
    PROVE  /\ e.mode \in Modes /\ (HasView(e) <=> Tabs(e) # {})
           /\ HasView(e) => Cur(e) \in Tabs(e) /\ Cur(e) \in Ids
           /\ Tabs(e) \subseteq Ids
<1>1. e.mode \in Modes /\ e.tabs \subseteq Ids
  BY DEF GoodEng, EngineState
<1>2. IF Tabs(e) = {} THEN Cur(e) = NoTab ELSE Cur(e) \in Tabs(e)
  BY <1>1 DEF GoodEng, CurOf, Tabs, Cur
<1> QED BY <1>1, <1>2, TabAssumption DEF HasView, Tabs

(* Suspending and resuming change no tab.                                  *)
SameTabs(e, f) == f.mode = e.mode /\ f.tabs = e.tabs /\ f.cur = e.cur

LEMMA SameTabsOK ==
    ASSUME NEW e, NEW f, SameTabs(e, f)
    PROVE  /\ Cur(f) = Cur(e) /\ Tabs(f) = Tabs(e) /\ (HasView(f) <=> HasView(e))
           /\ \A m \in Modes : CurOf(e, m) => CurOf(f, m)
BY DEF SameTabs, Cur, Tabs, HasView, CurOf

LEMMA SuspendOK ==
    ASSUME NEW e \in EngineState, NEW f,
           f \in {Suspend(e), Resume(e), ResumeIfSuspended(e)}
    PROVE  /\ f \in EngineState /\ SameTabs(e, f)
           /\ f.asleep \subseteq e.asleep \cup ({Cur(e)} \ {NoTab})
<1>1. HasView(e) => Cur(e) \in Ids /\ Cur(e) # NoTab
  BY DEF HasView, Cur, EngineState
<1>2. \/ f = e
      \/ HasView(e) /\ f = [e EXCEPT !.connected = FALSE, !.asleep = @ \cup {Cur(e)}]
      \/ HasView(e) /\ f = [e EXCEPT !.connected = TRUE, !.asleep = @ \ {Cur(e)}]
  BY DEF Suspend, Resume, ResumeIfSuspended
<1>3. CASE f = e
  BY <1>3 DEF SameTabs
<1>4. CASE HasView(e) /\ f = [e EXCEPT !.connected = FALSE, !.asleep = @ \cup {Cur(e)}]
  BY <1>1, <1>4 DEF EngineState, SameTabs
<1>5. CASE HasView(e) /\ f = [e EXCEPT !.connected = TRUE, !.asleep = @ \ {Cur(e)}]
  BY <1>1, <1>5 DEF EngineState, SameTabs
<1> QED BY <1>2, <1>3, <1>4, <1>5

LEMMA GoodSuspendOK ==
    ASSUME NEW e, GoodEng(e), NEW f, f \in {e, Suspend(e), Resume(e), ResumeIfSuspended(e)}
    PROVE  /\ GoodEng(f) /\ SameTabs(e, f)
<1>1. f \in EngineState /\ SameTabs(e, f) /\ f.asleep \subseteq e.asleep \cup ({Cur(e)} \ {NoTab})
  BY SuspendOK DEF GoodEng, SameTabs
<1>2. Cur(e) = NoTab \/ Cur(e) \in e.tabs
  BY GoodEngOK DEF HasView, Tabs
<1>3. f.asleep \subseteq f.tabs
  BY <1>1, <1>2 DEF GoodEng, SameTabs
<1> QED BY <1>1, <1>3, SameTabsOK DEF GoodEng

(* Another tab of the mode becomes the current one.                        *)
LEMMA MakeCurrentOK ==
    ASSUME NEW e \in EngineState, NEW t \in Tabs(e), NEW f, f = MakeCurrent(e, t),
           \A m \in Modes \ {e.mode} : CurOf(e, m)
    PROVE  /\ f \in EngineState /\ f.mode = e.mode /\ f.tabs = e.tabs
           /\ Cur(f) = t /\ HasView(f) /\ Tabs(f) = Tabs(e)
           /\ \A m \in Modes : CurOf(f, m)
           /\ f.asleep \subseteq e.asleep \cup ({Cur(e)} \ {NoTab})
<1> DEFINE s == Suspend(e)
           g == IF t = Cur(e) THEN e ELSE [s EXCEPT !.cur[e.mode] = t]
<1>1. /\ s \in EngineState /\ SameTabs(e, s)
      /\ s.asleep \subseteq e.asleep \cup ({Cur(e)} \ {NoTab})
  BY SuspendOK
<1>2. f = Resume(g)
  BY DEF MakeCurrent
<1>3. t \in Ids /\ t \in e.tabs \cap TabsOf(e.mode) /\ e.mode \in Modes /\ t # NoTab
  BY TabAssumption DEF Tabs, EngineState
<1> HIDE DEF s
<1>4. /\ g \in EngineState /\ g.mode = e.mode /\ g.tabs = e.tabs
      /\ g.asleep \subseteq e.asleep \cup ({Cur(e)} \ {NoTab})
  BY <1>1, <1>3 DEF EngineState, SameTabs
<1>5. g.cur[e.mode] = t /\ \A m \in Modes \ {e.mode} : g.cur[m] = e.cur[m]
  BY <1>1, <1>3 DEF EngineState, SameTabs, Cur
<1> HIDE DEF g
<1>6. f \in EngineState /\ SameTabs(g, f) /\ f.asleep \subseteq g.asleep
  <2>1. \/ f = g
        \/ f = [g EXCEPT !.connected = TRUE, !.asleep = @ \ {Cur(g)}]
    BY <1>2 DEF Resume
  <2>2. g.asleep \ {Cur(g)} \subseteq g.asleep
    OBVIOUS
  <2> QED BY <1>4, <2>1, <2>2 DEF EngineState, SameTabs
<1>7. Cur(f) = t /\ f.mode = e.mode /\ f.tabs = e.tabs
  BY <1>4, <1>5, <1>6 DEF SameTabs, Cur
<1>8. CurOf(f, e.mode)
  BY <1>3, <1>7 DEF CurOf, Cur
<1>9. \A m \in Modes \ {e.mode} : CurOf(f, m)
  BY <1>5, <1>6, <1>7 DEF SameTabs, CurOf
<1> QED BY <1>3, <1>4, <1>6, <1>7, <1>8, <1>9 DEF HasView, Tabs

-----------------------------------------------------------------------------
(***************************************************************************)
(* The whole.                                                              *)
(***************************************************************************)
World == [eng : EngineState, pages : [Ids -> View], bar : Bar, page : Page]

(* The buttons are those of the current page, whatever is shown.           *)
WaysAgree(w) ==
    HasView(w.eng) /\ "ways" \notin w.page.lost => w.bar.ways \subseteq Current(w).ways

Sound(w) == w \in World /\ GoodEng(w.eng) /\ GoodBar(w.bar) /\ WaysAgree(w)

(* The page that is shown is the current one, with its address and the     *)
(* state of its loading.                                                   *)
Showing(w) == w.page.state = "MAIN_WEB_PAGE" /\ "page" \notin w.page.lost

(* The bar names the current page, or the host it was asked about.         *)
Names(w) ==
    \/ w.bar.uri \in {Current(w).uri, Blank}
    \/ w.bar.uri = Host /\ "host" \in w.page.lost

Agreed(w) ==
    /\ Showing(w) => w.page.content = Cur(w.eng)
    /\ Showing(w) /\ HasView(w.eng) =>
         /\ "uri" \notin w.page.lost => Names(w)
         /\ "loading" \notin w.page.lost /\ (w.bar.loading \/ w.bar.progress) => Current(w).loading

Good(w) == Sound(w) /\ Agreed(w)

LEMMA ViewOK ==
    ASSUME NEW w \in World, NEW t \in Ids
    PROVE  /\ w.pages[t] \in View /\ w.pages[t].uri \in Texts
           /\ w.pages[t].loading \in BOOLEAN
<1>1. w.pages[t] \in View
  BY DEF World
<1> QED BY <1>1, TextsOK DEF View

(* Showing the current page makes all agree.                               *)
LEMMA ShowPageOK ==
    ASSUME NEW w, Sound(w), HasView(w.eng), NEW v, v = ShowPage(w)
    PROVE  Good(v) /\ Keeps(w.bar, v.bar) /\ v.eng = w.eng /\ v.pages = w.pages
<1> DEFINE t == Cur(w.eng)
           p == ShowsTab(w.page, t)
           b == UpdateURIBar(w.bar, w.pages[t].uri, w.pages[t].loading)
<1>1. w \in World /\ w.page \in Page /\ t \in Ids
  BY GoodEngOK DEF Sound, World
<1>2. /\ GoodBar(b) /\ Keeps(w.bar, b) /\ b.uri = w.pages[t].uri /\ b.ways = w.bar.ways
      /\ (b.loading <=> w.pages[t].loading) /\ ~b.progress
  BY <1>1, ViewOK, UpdateOK DEF Sound
<1>3. v = [w EXCEPT !.page = p, !.bar = b]
  BY DEF ShowPage, Current
<1>4. /\ p \in Page /\ p.content = t
      /\ p.lost = w.page.lost \ {"uri", "loading", "page", "host"}
  BY <1>1 DEF ShowsTab, Page
<1> HIDE DEF t, p, b
<1>5. /\ v \in World /\ v.eng = w.eng /\ v.pages = w.pages /\ v.bar = b /\ v.page = p
  BY <1>1, <1>2, <1>3, <1>4 DEF World, GoodBar
<1>6. Cur(v.eng) = t /\ Current(v) = w.pages[t] /\ Current(w) = w.pages[t]
  BY <1>5 DEF Current, t
<1>7. Sound(v)
  BY <1>2, <1>4, <1>5, <1>6 DEF Sound, WaysAgree
<1>8. Agreed(v)
  BY <1>2, <1>4, <1>5, <1>6 DEF Agreed, Names
<1> QED BY <1>2, <1>5, <1>7, <1>8 DEF Good

(* Nothing but the service has changed, and it has the same tabs.          *)
LEMMA ResumedOK ==
    ASSUME NEW w, Sound(w), NEW f, GoodEng(f), SameTabs(w.eng, f),
           NEW v, v = [w EXCEPT !.eng = f]
    PROVE  /\ Sound(v) /\ v.bar = w.bar /\ v.eng = f /\ v.pages = w.pages /\ v.page = w.page
           /\ Agreed(w) => Agreed(v)
<1>1. /\ v \in World /\ v.bar = w.bar /\ v.eng = f /\ v.pages = w.pages /\ v.page = w.page
  BY DEF Sound, World, GoodEng
<1>2. Cur(f) = Cur(w.eng) /\ (HasView(f) <=> HasView(w.eng)) /\ Current(v) = Current(w)
  BY <1>1, SameTabsOK DEF Current
<1> QED BY <1>1, <1>2 DEF Sound, WaysAgree, Agreed, Names, Showing

LEMMA SwitchViewToWebPageOK ==
    ASSUME NEW w, Sound(w), HasView(w.eng), NEW v, v = SwitchViewToWebPage(w)
    PROVE  Good(v) /\ Keeps(w.bar, v.bar)
<1> DEFINE f == ResumeIfSuspended(w.eng)
           x == [w EXCEPT !.eng = f]
<1>1. GoodEng(f) /\ SameTabs(w.eng, f) /\ HasView(f)
  BY GoodSuspendOK, SameTabsOK DEF Sound
<1>2. v = ShowPage(x) 
  BY DEF SwitchViewToWebPage
<1> HIDE DEF f
<1>3. Sound(x) /\ HasView(x.eng) /\ x.bar = w.bar
  BY <1>1, ResumedOK
<1> HIDE DEF x
<1> QED BY <1>2, <1>3, ShowPageOK

(* The page view comes to the top.                                         *)
LEMMA ShowUIOK ==
    ASSUME NEW w, Sound(w), NEW v, v \in {ShowUI(w), PopStackTo(w)}
    PROVE  /\ Sound(v) /\ Keeps(w.bar, v.bar) /\ (Agreed(w) => Agreed(v))
           /\ v.eng = w.eng /\ v.pages = w.pages /\ v.page.state = w.page.state
<1>1. CASE v = w
  BY <1>1 DEF Keeps
<1>2. CASE v = ShowUI(w)
  <2> DEFINE b == IF w.eng.mode = "SECRET" THEN [w.bar EXCEPT !.ways = {}] ELSE w.bar
             c == IF w.page.state = "QUICK_ACCESS" THEN SetQuickAccessView(b) ELSE b
             p == [w.page EXCEPT !.top = "page"]
  <2>1. /\ GoodBar(b) /\ Keeps(w.bar, b) /\ b.ways \subseteq w.bar.ways
        /\ b.uri = w.bar.uri /\ b.loading = w.bar.loading /\ b.progress = w.bar.progress
    BY DEF Sound, GoodBar, Bar, Keeps, Locks
  <2> HIDE DEF b
  <2>2. /\ GoodBar(c) /\ Keeps(b, c) /\ c.ways \subseteq b.ways
        /\ w.page.state = "QUICK_ACCESS" \/ c = b
    BY <2>1, QuickAccessViewOK DEF Keeps
  <2>3. v = [w EXCEPT !.page = p, !.bar = c]
    BY <1>2 DEF ShowUI, b
  <2>4. p \in Page /\ p.state = w.page.state /\ p.content = w.page.content /\ p.lost = w.page.lost
    BY DEF Sound, World, Page
  <2> HIDE DEF c, p
  <2>5. v \in World /\ v.eng = w.eng /\ v.pages = w.pages /\ v.bar = c /\ v.page = p
    BY <2>2, <2>3, <2>4 DEF Sound, World, GoodBar
  <2>6. Current(v) = Current(w)
    BY <2>5 DEF Current
  <2>7. Sound(v)
    BY <2>1, <2>2, <2>4, <2>5, <2>6 DEF Sound, WaysAgree
  <2>8. Agreed(w) => Agreed(v)
    BY <2>1, <2>2, <2>4, <2>5, <2>6 DEF Agreed, Names, Showing
  <2> QED BY <2>1, <2>2, <2>4, <2>5, <2>7, <2>8 DEF Keeps
<1> QED BY <1>1, <1>2 DEF PopStackTo

(* The service switches: the current tab of this mode may have been closed *)
(* before, or there may have been none.                                    *)
LEMMA EngineSwitchOK ==
    ASSUME NEW w \in World, GoodBar(w.bar), NEW t \in Tabs(w.eng),
           \A m \in Modes \ {w.eng.mode} : CurOf(w.eng, m), NEW v, v = EngineSwitch(w, t)
    PROVE  /\ v \in World /\ v.pages = w.pages
           /\ v.eng.mode = w.eng.mode /\ v.eng.tabs = w.eng.tabs
           /\ Cur(v.eng) = t /\ HasView(v.eng)
           /\ \A m \in Modes : CurOf(v.eng, m)
           /\ v.eng.asleep \subseteq w.eng.asleep \cup ({Cur(w.eng)} \ {NoTab})
           /\ GoodBar(v.bar) /\ Keeps(w.bar, v.bar) /\ WaysAgree(v)
           /\ v.bar.uri = w.pages[t].uri
           /\ v.bar.loading = w.bar.loading /\ v.bar.progress = w.bar.progress
           /\ v.page.state = w.page.state /\ v.page.content = w.page.content
           /\ v.page.lost = w.page.lost \ {"ways"}
<1> DEFINE f == MakeCurrent(w.eng, t)
           b == Told(w.bar, w.pages[t])
           p == [w.page EXCEPT !.lost = @ \ {"ways"}]
<1>1. w.eng \in EngineState /\ w.page \in Page /\ t \in Ids
  BY DEF World, Tabs, EngineState
<1>2. /\ f \in EngineState /\ f.mode = w.eng.mode /\ f.tabs = w.eng.tabs
      /\ Cur(f) = t /\ HasView(f) /\ \A m \in Modes : CurOf(f, m)
      /\ f.asleep \subseteq w.eng.asleep \cup ({Cur(w.eng)} \ {NoTab})
  BY <1>1, MakeCurrentOK
<1>3. /\ GoodBar(b) /\ Keeps(w.bar, b) /\ b.ways = w.pages[t].ways
      /\ b.uri = w.pages[t].uri /\ b.loading = w.bar.loading /\ b.progress = w.bar.progress
  BY <1>1, ViewOK, ToldOK
<1>4. /\ p \in Page /\ p.state = w.page.state /\ p.content = w.page.content
      /\ p.lost = w.page.lost \ {"ways"}
  BY <1>1 DEF Page
<1>5. v = [w EXCEPT !.eng = f, !.bar = b, !.page = p]
  BY DEF EngineSwitch
<1> HIDE DEF f, b, p
<1>6. v \in World /\ v.eng = f /\ v.bar = b /\ v.pages = w.pages /\ v.page = p
  BY <1>2, <1>3, <1>4, <1>5 DEF World, GoodBar
<1>7. WaysAgree(v)
  BY <1>2, <1>3, <1>6 DEF WaysAgree, Current
<1> QED BY <1>2, <1>3, <1>4, <1>6, <1>7

LEMMA SoundSwitchOK ==
    ASSUME NEW w, Sound(w), NEW t \in Tabs(w.eng), NEW v, v = EngineSwitch(w, t)
    PROVE  Sound(v) /\ HasView(v.eng) /\ Keeps(w.bar, v.bar) /\ Cur(v.eng) = t
<1>1. w \in World /\ GoodBar(w.bar) /\ GoodEng(w.eng)
  BY DEF Sound
<1>2. /\ v \in World /\ v.eng.tabs = w.eng.tabs /\ Cur(v.eng) = t /\ HasView(v.eng)
      /\ \A m \in Modes : CurOf(v.eng, m)
      /\ v.eng.asleep \subseteq w.eng.asleep \cup ({Cur(w.eng)} \ {NoTab})
      /\ GoodBar(v.bar) /\ Keeps(w.bar, v.bar) /\ WaysAgree(v)
  BY <1>1, EngineSwitchOK DEF GoodEng
<1>3. v.eng.asleep \subseteq v.eng.tabs
  BY <1>1, <1>2, GoodEngOK DEF GoodEng, HasView, Tabs
<1> QED BY <1>2, <1>3 DEF Sound, GoodEng, World

LEMMA SwitchToTabOK ==
    ASSUME NEW w, Sound(w), NEW t, t \in Tabs(w.eng) \/ HasView(w.eng), NEW v, v = SwitchToTab(w, t)
    PROVE  Good(v) /\ Keeps(w.bar, v.bar)
<1> DEFINE x == EngineSwitch(w, t)
<1>1. v = ShowPage(x)
  BY DEF SwitchToTab
<1>2. Sound(x) /\ HasView(x.eng) /\ Keeps(w.bar, x.bar)
  <2>1. CASE t \in Tabs(w.eng)
    BY <2>1, SoundSwitchOK
  <2>2. CASE t \notin Tabs(w.eng)
    <3>1. x = w
      BY <2>2 DEF EngineSwitch
    <3> QED BY <2>2, <3>1 DEF Keeps
  <2> QED BY <2>1, <2>2
<1> HIDE DEF x
<1> QED BY <1>1, <1>2, ShowPageOK DEF Keeps

(* A tab is added with its first address, and is not yet the current one.  *)
LEMMA AddTabOK ==
    ASSUME NEW w, Sound(w), NEW u \in Urls \cup {Blank, Start}, NEW r \in AddTab(w, u)
    PROVE  \/ r[2] = w /\ (r[1] = NoTab \/ r[1] \in Tabs(w.eng))
           \/ /\ r[1] \in Tabs(r[2].eng) /\ r[2] \in World /\ r[2].bar = w.bar
              /\ \A m \in Modes \ {r[2].eng.mode} : CurOf(r[2].eng, m)
              /\ r[2].eng.asleep \subseteq r[2].eng.tabs
              /\ Cur(r[2].eng) = Cur(w.eng) /\ (Cur(w.eng) # NoTab => Cur(w.eng) \in r[2].eng.tabs)
<1>1. CASE r = <<Cur(w.eng), w>>
  BY <1>1, GoodEngOK DEF Sound, HasView
<1>2. CASE r = <<NoTab, w>>
  BY <1>2
<1>3. ASSUME NEW t \in TabsOf(w.eng.mode) \ Tabs(w.eng),
             r = <<t, [w EXCEPT !.eng.tabs = @ \cup {t}, !.pages[t].uri = u]>>
      PROVE  /\ r[1] \in Tabs(r[2].eng) /\ r[2] \in World /\ r[2].bar = w.bar
             /\ \A m \in Modes \ {r[2].eng.mode} : CurOf(r[2].eng, m)
             /\ r[2].eng.asleep \subseteq r[2].eng.tabs
             /\ Cur(r[2].eng) = Cur(w.eng) /\ (Cur(w.eng) # NoTab => Cur(w.eng) \in r[2].eng.tabs)
  <2> DEFINE e == [w.eng EXCEPT !.tabs = @ \cup {t}]
             s == [w.pages EXCEPT ![t].uri = u]
             x == [w EXCEPT !.eng = e, !.pages = s]
  <2>1. w \in World /\ GoodEng(w.eng) /\ w.eng.mode \in Modes /\ t \in Ids
    BY GoodEngOK DEF Sound, TabsOf, Ids
  <2>2. /\ e \in EngineState /\ e.mode = w.eng.mode /\ e.cur = w.eng.cur
        /\ e.asleep = w.eng.asleep /\ e.tabs = w.eng.tabs \cup {t}
    BY <2>1 DEF GoodEng, EngineState
  <2>3. s \in [Ids -> View]
    BY <2>1 DEF World, View
  <2>4. r[1] = t /\ r[2] = x
    BY <1>3
  <2> HIDE DEF e, s
  <2>5. x \in World /\ x.eng = e /\ x.bar = w.bar
    BY <2>1, <2>2, <2>3 DEF World
  <2> HIDE DEF x
  <2>6. ASSUME NEW m \in Modes \ {e.mode} PROVE CurOf(e, m)
    <3>1. t \notin TabsOf(m)
      BY <2>1, <2>2, TabAssumption DEF TabsOf, Modes
    <3>2. e.tabs \cap TabsOf(m) = w.eng.tabs \cap TabsOf(m)
      BY <2>2, <3>1
    <3> QED BY <2>1, <2>2, <3>2 DEF GoodEng, CurOf
  <2>7. Cur(e) = Cur(w.eng) /\ t \in Tabs(e) /\ e.asleep \subseteq e.tabs
    BY <2>1, <2>2 DEF Cur, Tabs, GoodEng
  <2>8. Cur(w.eng) # NoTab => Cur(w.eng) \in e.tabs
    BY <2>1, <2>2, GoodEngOK DEF HasView, Tabs
  <2> QED BY <2>4, <2>5, <2>6, <2>7, <2>8
<1> QED BY <1>1, <1>2, <1>3 DEF AddTab

LEMMA EngineSwitchAddedOK ==
    ASSUME NEW w, Sound(w), NEW u \in Urls \cup {Blank, Start}, NEW r \in AddTab(w, u),
           r[1] # NoTab, NEW v, v = EngineSwitch(r[2], r[1])
    PROVE  Sound(v) /\ HasView(v.eng) /\ Keeps(w.bar, v.bar)
<1>1. CASE r[2] = w /\ r[1] \in Tabs(w.eng)
  BY <1>1, SoundSwitchOK
<1>2. CASE /\ r[1] \in Tabs(r[2].eng) /\ r[2] \in World /\ r[2].bar = w.bar
           /\ \A m \in Modes \ {r[2].eng.mode} : CurOf(r[2].eng, m)
           /\ r[2].eng.asleep \subseteq r[2].eng.tabs
           /\ Cur(r[2].eng) = Cur(w.eng) /\ (Cur(w.eng) # NoTab => Cur(w.eng) \in r[2].eng.tabs)
  <2>1. /\ v \in World /\ v.eng.tabs = r[2].eng.tabs /\ HasView(v.eng)
        /\ \A m \in Modes : CurOf(v.eng, m)
        /\ v.eng.asleep \subseteq r[2].eng.asleep \cup ({Cur(r[2].eng)} \ {NoTab})
        /\ GoodBar(v.bar) /\ Keeps(r[2].bar, v.bar) /\ WaysAgree(v)
    <3>1. r[2] \in World /\ GoodBar(r[2].bar)
      BY <1>2 DEF Sound
    <3> HIDE DEF EngineSwitch
    <3> QED BY <1>2, <3>1, EngineSwitchOK
  <2>2. v.eng.asleep \subseteq v.eng.tabs
    BY <1>2, <2>1
  <2> QED BY <1>2, <2>1, <2>2 DEF Sound, GoodEng, World
<1> QED BY <1>1, <1>2, AddTabOK

LEMMA OpenNewTabOK ==
    ASSUME NEW w, Sound(w), NEW u \in Urls \cup {Blank, Start}, NEW v \in OpenNewTab(w, u)
    PROVE  v = w \/ (Good(v) /\ Keeps(w.bar, v.bar))
<1>1. PICK r \in AddTab(w, u) : v = IF r[1] = NoTab THEN r[2] ELSE SwitchToTab(r[2], r[1])
  BY DEF OpenNewTab
<1>2. CASE r[1] = NoTab
  <2>1. r[1] \notin Ids
    BY <1>2, TabAssumption
  <2>2. r[2] = w \/ (r[1] \in Tabs(r[2].eng) /\ r[2] \in World)
    BY AddTabOK
  <2>3. r[2] \in World => Tabs(r[2].eng) \subseteq Ids
    BY DEF World, EngineState, Tabs
  <2> QED BY <1>1, <1>2, <2>1, <2>2, <2>3
<1>3. CASE r[1] # NoTab
  <2> DEFINE x == EngineSwitch(r[2], r[1])
  <2>1. v = ShowPage(x)
    BY <1>1, <1>3 DEF SwitchToTab
  <2>2. Sound(x) /\ HasView(x.eng) /\ Keeps(w.bar, x.bar)
    BY <1>3, EngineSwitchAddedOK
  <2> HIDE DEF x
  <2> QED BY <2>1, <2>2, ShowPageOK DEF Keeps
<1> QED BY <1>2, <1>3

(* Quick access is shown: nothing is beside a page.                        *)
LEMMA QuickAccessOK ==
    ASSUME NEW w \in World, GoodBar(w.bar), NEW e, GoodEng(e), NEW v,
           \/ v = [w EXCEPT !.page = ShowsQuickAccess(@), !.bar = SetQuickAccessView(@), !.eng = e]
           \/ v = [w EXCEPT !.eng = e, !.page = ShowsQuickAccess(@), !.bar = SetQuickAccessView(@)]
    PROVE  Good(v) /\ Keeps(w.bar, v.bar)
<1> DEFINE c == SetQuickAccessView(w.bar)
           q == ShowsQuickAccess(w.page)
<1>1. GoodBar(c) /\ Keeps(w.bar, c) /\ c.ways = {}
  BY QuickAccessViewOK
<1>2. q \in Page /\ q.state = "QUICK_ACCESS"
  BY DEF ShowsQuickAccess, Page, World
<1>3. \/ v = [w EXCEPT !.page = q, !.bar = c, !.eng = e]
      \/ v = [w EXCEPT !.eng = e, !.page = q, !.bar = c]
  OBVIOUS
<1> HIDE DEF c, q
<1>4. v \in World /\ v.eng = e /\ v.bar = c /\ v.page = q
  BY <1>1, <1>2, <1>3 DEF World, GoodEng, GoodBar
<1> QED BY <1>1, <1>2, <1>4 DEF Good, Sound, Agreed, Names, Showing, WaysAgree

LEMMA SwitchViewToQuickAccessOK ==
    ASSUME NEW w, Sound(w), NEW v, v = SwitchViewToQuickAccess(w)
    PROVE  Good(v) /\ Keeps(w.bar, v.bar)
<1> DEFINE e == Suspend(w.eng)
           x == [w EXCEPT !.page = ShowsQuickAccess(@), !.bar = SetQuickAccessView(@), !.eng = e]
<1>1. w \in World /\ GoodBar(w.bar) /\ GoodEng(e)
  BY GoodSuspendOK DEF Sound
<1>2. v = PopStackTo(x)
  BY DEF SwitchViewToQuickAccess
<1> HIDE DEF e
<1>3. Good(x) /\ Keeps(w.bar, x.bar)
  BY <1>1, QuickAccessOK
<1> HIDE DEF x
<1> QED BY <1>2, <1>3, ShowUIOK DEF Good, Keeps

(* An address is opened in the current tab.                                *)
LEMMA OpenHereOK ==
    ASSUME NEW v, Sound(v), HasView(v.eng), NEW u \in Urls \cup {Start}, NEW f, f = ResumeIfSuspended(v.eng),
           NEW r, r = [v EXCEPT !.eng = f, !.page = ShowsTab(@, Cur(f)),
                                !.pages[Cur(f)].uri = u,
                                !.bar = ClearFocus(UpdateURIBar(@, u, FALSE))]
    PROVE  Good(r) /\ Keeps(v.bar, r.bar)
<1> DEFINE t == Cur(f)
           no == FALSE
           b == UpdateURIBar(v.bar, u, no)
           c == ClearFocus(b)
           p == ShowsTab(v.page, t)
           s == [v.pages EXCEPT ![t].uri = u]
<1>1. /\ v \in World /\ GoodBar(v.bar) /\ GoodEng(f) /\ HasView(f)
      /\ f \in EngineState /\ t = Cur(v.eng)
  <2>1. v \in World /\ GoodBar(v.bar) /\ GoodEng(v.eng)
    BY DEF Sound
  <2>2. GoodEng(f) /\ SameTabs(v.eng, f)
    BY <2>1, GoodSuspendOK
  <2> QED BY <2>1, <2>2, SameTabsOK DEF GoodEng
<1>2. t \in Ids /\ u \in Texts
  BY <1>1, GoodEngOK, TextsOK
<1>3. /\ GoodBar(b) /\ Keeps(v.bar, b) /\ b.uri = u /\ b.ways = v.bar.ways
      /\ ~b.loading /\ ~b.progress
  <2>1. no \in BOOLEAN /\ ~no
    OBVIOUS
  <2> HIDE DEF no
  <2> QED BY <1>1, <1>2, <2>1, UpdateOK
<1> HIDE DEF b
<1>4. /\ GoodBar(c) /\ Keeps(b, c) /\ c.uri = u /\ c.ways = v.bar.ways
      /\ ~c.loading /\ ~c.progress
  BY <1>3, ClearFocusOK
<1>5. /\ p \in Page /\ p.content = t
      /\ p.lost = v.page.lost \ {"uri", "loading", "page", "host"}
  BY <1>1, <1>2 DEF ShowsTab, Page, World
<1>6. s \in [Ids -> View] /\ s[t].uri = u /\ s[t].ways = v.pages[t].ways
  BY <1>1, <1>2 DEF World, View
<1>7. r = [v EXCEPT !.eng = f, !.page = p, !.pages = s, !.bar = c]
  BY DEF b, no
<1> HIDE DEF c, p, s
<1>8. r \in World /\ r.eng = f /\ r.page = p /\ r.pages = s /\ r.bar = c
  BY <1>1, <1>4, <1>5, <1>6, <1>7 DEF World, GoodBar
<1>9. Current(r) = s[t] /\ Current(v) = v.pages[t]
  BY <1>1, <1>8 DEF Current
<1>10. WaysAgree(r)
  BY <1>1, <1>4, <1>5, <1>6, <1>8, <1>9 DEF Sound, WaysAgree
<1>11. Agreed(r)
  BY <1>4, <1>5, <1>6, <1>8, <1>9 DEF Agreed, Names
<1> QED BY <1>1, <1>3, <1>4, <1>8, <1>10, <1>11 DEF Good, Sound, Keeps

LEMMA OpenURLOK ==
    ASSUME NEW w, Sound(w), NEW u \in Urls \cup {Start}, NEW r \in OpenURL(w, u), NEW v, v = PopStackTo(w)
    PROVE  \/ r = v /\ (~HasView(v.eng) \/ v.page.state = "QUICK_ACCESS")
           \/ Good(r) /\ Keeps(v.bar, r.bar)
<1>1. Sound(v)
  BY ShowUIOK
<1>2. CASE Tabs(v.eng) = {} \/ (v.page.state = "QUICK_ACCESS" /\ v.page.newTab)
  <2>1. r \in OpenNewTab(v, u)
    BY <1>2 DEF OpenURL
  <2>2. Tabs(v.eng) = {} => ~HasView(v.eng)
    BY <1>1, GoodEngOK DEF Sound
  <2> QED BY <1>1, <1>2, <2>1, <2>2, OpenNewTabOK
<1>3. CASE ~(Tabs(v.eng) = {} \/ (v.page.state = "QUICK_ACCESS" /\ v.page.newTab))
  <2>1. HasView(v.eng)
    BY <1>1, <1>3, GoodEngOK DEF Sound
  <2> DEFINE f == ResumeIfSuspended(v.eng)
  <2>2. r = [v EXCEPT !.eng = f, !.page = ShowsTab(@, Cur(f)),
                      !.pages[Cur(f)].uri = u,
                      !.bar = ClearFocus(UpdateURIBar(@, u, FALSE))]
    BY <1>3 DEF OpenURL
  <2> HIDE DEF f
  <2> QED BY <1>1, <2>1, <2>2, OpenHereOK DEF f
<1> QED BY <1>2, <1>3

LEMMA OpenFromGoodOK ==
    ASSUME NEW w, Good(w), NEW u \in Urls \cup {Start}, NEW r \in OpenURL(w, u)
    PROVE  Good(r) /\ Keeps(w.bar, r.bar)
<1> DEFINE v == PopStackTo(w)
<1>1. Good(v) /\ Keeps(w.bar, v.bar)
  BY ShowUIOK DEF Good
<1>2. r = v \/ (Good(r) /\ Keeps(v.bar, r.bar))
  BY OpenURLOK DEF Good
<1> HIDE DEF v
<1> QED BY <1>1, <1>2 DEF Keeps

(* A tab closes, whichever it is, and the service still knows it as the    *)
(* current one when it looks for another.                                  *)
LEMMA ClosedOK ==
    ASSUME NEW w, Sound(w), NEW t \in Ids, NEW r \in Closed(w, t)
    PROVE  Good(r) /\ Keeps(w.bar, r.bar)
<1> DEFINE e == Forget(w.eng, t)
           f == [e EXCEPT !.asleep = @ \cap e.tabs, !.asked = @ \cap e.tabs]
           gone == t \in Tabs(w.eng)
           s == [w.pages EXCEPT ![t] = IF gone THEN NewPage ELSE @]
           v == DropView(w, t)
<1>1. /\ w \in World /\ w.eng \in EngineState /\ GoodEng(w.eng) /\ GoodBar(w.bar)
      /\ w.eng.mode \in Modes
  BY GoodEngOK DEF Sound, GoodEng
<1>2. /\ e \in EngineState /\ e.mode = w.eng.mode /\ e.cur = w.eng.cur
      /\ e.tabs = w.eng.tabs \ ({t} \cap TabsOf(w.eng.mode)) /\ e.asleep = w.eng.asleep
  BY <1>1 DEF EngineState, Forget
<1>3. s \in [Ids -> View] /\ \A i \in Ids \ {t} : s[i] = w.pages[i]
  <2>1. NewPage \in View
    BY DEF NewPage, View
  <2> QED BY <1>1, <2>1 DEF World
<1>4. ~gone => s = w.pages
  BY <1>1 DEF World
<1>5. \A m \in Modes \ {e.mode} : CurOf(e, m)
  <2> SUFFICES ASSUME NEW m \in Modes \ {e.mode} PROVE CurOf(e, m)
    OBVIOUS
  <2>1. e.tabs \cap TabsOf(m) = w.eng.tabs \cap TabsOf(m)
    BY <1>1, <1>2, TabAssumption DEF TabsOf, Modes
  <2> QED BY <1>1, <1>2, <2>1 DEF GoodEng, CurOf
<1>6. Tabs(e) = Tabs(w.eng) \ {t} /\ Cur(e) = Cur(w.eng)
  BY <1>2 DEF Tabs, Cur
<1> HIDE DEF e
<1>7. /\ f \in EngineState /\ f.asleep \subseteq e.tabs
      /\ f.mode = e.mode /\ f.tabs = e.tabs /\ f.cur = e.cur
  BY <1>2 DEF EngineState
<1>8. SameTabs(e, f) /\ (\A m \in Modes \ {e.mode} : CurOf(f, m)) /\ Cur(f) = Cur(e) /\ Tabs(f) = Tabs(e)
  BY <1>5, <1>7, SameTabsOK DEF SameTabs
<1>d. v = [w EXCEPT !.eng = f, !.pages = s]
  BY DEF DropView, e
<1> HIDE DEF f, s
<1>9. v \in World /\ v.eng = f /\ v.pages = s /\ v.bar = w.bar /\ v.page = w.page
  BY <1>1, <1>3, <1>7, <1>d DEF World
<1> HIDE DEF v
<1>10. CASE Tabs(e) = {}
  <2> DEFINE g == [f EXCEPT !.cur[e.mode] = NoTab, !.connected = IF HasView(e) THEN FALSE ELSE @]
  <2>1. g \in EngineState /\ g.asleep \subseteq g.tabs /\ g.tabs = e.tabs /\ g.mode = e.mode
        /\ g.cur = [f.cur EXCEPT ![e.mode] = NoTab]
    BY <1>7 DEF EngineState
  <2> HIDE DEF g
  <2>2. CurOf(g, e.mode)
    BY <1>10, <2>1, <1>1, <1>2, <1>7 DEF CurOf, Tabs, EngineState
  <2>3. \A m \in Modes \ {e.mode} : CurOf(g, m)
    BY <1>7, <1>8, <2>1 DEF CurOf, EngineState
  <2>4. GoodEng(g)
    BY <2>1, <2>2, <2>3 DEF GoodEng
  <2>5. r = [v EXCEPT !.eng.cur[e.mode] = NoTab,
                      !.eng.connected = IF HasView(e) THEN FALSE ELSE @,
                      !.page = ShowsQuickAccess(@), !.bar = SetQuickAccessView(@)]
    BY <1>10 DEF Closed, e, v
  <2>6. r = [v EXCEPT !.eng = g, !.page = ShowsQuickAccess(@), !.bar = SetQuickAccessView(@)]
    BY <1>9, <2>5 DEF g, World
  <2> QED BY <1>1, <1>9, <2>4, <2>6, QuickAccessOK
<1>11. CASE Tabs(e) # {} /\ t = Cur(w.eng)
  <2>a. r \in {SwitchViewToWebPage([EngineSwitch(v, i) EXCEPT !.eng.asleep = @ \cap e.tabs]) :
                   i \in Tabs(e)}
    BY <1>11 DEF Closed, e, v
  <2>1. PICK i \in Tabs(e) :
          r = SwitchViewToWebPage([EngineSwitch(v, i) EXCEPT !.eng.asleep = @ \cap e.tabs])
    BY <2>a
  <2> DEFINE x == EngineSwitch(v, i)
             g == [x.eng EXCEPT !.asleep = @ \cap e.tabs]
             y == [x EXCEPT !.eng = g]
  <2>2. /\ x \in World /\ x.eng.tabs = e.tabs /\ HasView(x.eng)
        /\ \A m \in Modes : CurOf(x.eng, m)
        /\ GoodBar(x.bar) /\ Keeps(w.bar, x.bar) /\ WaysAgree(x)
    BY <1>1, <1>7, <1>8, <1>9, EngineSwitchOK
  <2>3. r = SwitchViewToWebPage(y)
    BY <2>1
  <2> HIDE DEF x
  <2>4. /\ g \in EngineState /\ g.asleep \subseteq g.tabs
        /\ g.mode = x.eng.mode /\ g.tabs = x.eng.tabs /\ g.cur = x.eng.cur
    BY <2>2 DEF World, EngineState
  <2>5. GoodEng(g) /\ HasView(g) /\ Cur(g) = Cur(x.eng)
    BY <2>2, <2>4, SameTabsOK DEF GoodEng, SameTabs
  <2> HIDE DEF g
  <2>6. y \in World /\ y.eng = g /\ y.bar = x.bar /\ y.page = x.page /\ y.pages = x.pages
    BY <2>2, <2>4 DEF World
  <2> HIDE DEF y
  <2>7. Sound(y)
    BY <2>2, <2>5, <2>6 DEF Sound, WaysAgree, Current
  <2> QED BY <2>2, <2>3, <2>5, <2>6, <2>7, SwitchViewToWebPageOK DEF Keeps
<1>12. CASE Tabs(e) # {} /\ t # Cur(w.eng)
  <2>1. r = SwitchViewToWebPage(v)
    BY <1>12 DEF Closed, e, v
  <2>2. Cur(w.eng) \in Tabs(e) /\ HasView(w.eng)
    BY <1>1, <1>6, <1>12, GoodEngOK
  <2>3. CurOf(f, f.mode)
    BY <1>7, <1>8, <1>6, <2>2 DEF CurOf, Tabs, Cur
  <2>4. GoodEng(f)
    BY <1>7, <1>8, <2>3 DEF GoodEng
  <2>5. HasView(f) /\ Cur(f) = Cur(w.eng) /\ Cur(w.eng) \in Ids \ {t}
    BY <1>1, <1>6, <1>8, <1>12, <2>2, GoodEngOK DEF HasView
  <2>6. Current(v) = Current(w)
    BY <1>3, <1>9, <2>5 DEF Current
  <2>7. Sound(v)
    BY <1>1, <1>9, <2>2, <2>4, <2>6 DEF Sound, WaysAgree
  <2> QED BY <1>9, <2>1, <2>5, <2>7, SwitchViewToWebPageOK
<1> QED BY <1>10, <1>11, <1>12

-----------------------------------------------------------------------------
(***************************************************************************)
(* The inductive invariant, and the steps.                                 *)
(***************************************************************************)
Inv == front \in BOOLEAN /\ Good(Now) /\ Locks(bar)

(* What the user types is not changed by this step.                        *)
Kept == bar.focus /\ bar'.focus => bar.text = bar'.text

LEMMA NowOK ==
    ASSUME Inv
    PROVE  /\ Now.eng = eng /\ Now.pages = pages /\ Now.bar = bar /\ Now.page = page
           /\ Good(Now) /\ Sound(Now) /\ Agreed(Now) /\ Now \in World
           /\ GoodEng(eng) /\ GoodBar(bar) /\ bar \in Bar
           /\ eng \in EngineState /\ pages \in [Ids -> View] /\ page \in Page
BY DEF Inv, Now, Good, Sound, GoodEng, GoodBar, World

LEMMA SameWorldOK ==
    ASSUME NEW w, Good(w), NEW v, v \in World,
           v.eng = w.eng, v.pages = w.pages, v.bar = w.bar, v.page = w.page
    PROVE  Good(v)
<1>1. Current(v) = Current(w)
  BY DEF Current
<1> QED BY <1>1 DEF Good, Sound, Agreed, Names, Showing, WaysAgree

(* A step that leads to a good world and keeps the bar.                    *)
LEMMA StepOK ==
    ASSUME NEW w, Good(w), Locks(w.bar), front' \in BOOLEAN,
           eng' = w.eng, pages' = w.pages, bar' = w.bar, page' = w.page
    PROVE  Inv'
<1> DEFINE v == [eng |-> w.eng, pages |-> w.pages, bar |-> w.bar, page |-> w.page]
<1>1. w.eng \in EngineState /\ w.pages \in [Ids -> View] /\ w.bar \in Bar /\ w.page \in Page
  BY DEF Good, Sound, World
<1>2. v \in World /\ v.eng = w.eng /\ v.pages = w.pages /\ v.bar = w.bar /\ v.page = w.page
  BY <1>1 DEF World
<1>3. Now' = v
  BY DEF Now
<1> HIDE DEF v
<1>4. Good(v)
  BY <1>2, SameWorldOK
<1> QED BY <1>3, <1>4 DEF Inv, Locks

LEMMA BecomesOK ==
    ASSUME Inv, NEW w, Good(w), Keeps(bar, w.bar), Becomes(w)
    PROVE  Inv' /\ Kept
<1>1. Locks(w.bar) /\ front' \in BOOLEAN
  BY DEF Inv, Keeps, Becomes
<1>2. Inv'
  BY <1>1, StepOK DEF Becomes
<1>3. Kept
  BY DEF Keeps, Kept, Becomes
<1> QED BY <1>2, <1>3

(* The bar changes, and nothing else: its address, its buttons and what it *)
(* takes to be loading stay.                                               *)
LEMMA BarOnlyOK ==
    ASSUME Inv, NEW b, UserEdits(b), GoodBar(b), Locks(b), b.uri = bar.uri, b.ways = bar.ways,
           b.loading = bar.loading, b.progress = bar.progress
    PROVE  Inv'
<1> DEFINE w == [eng |-> eng, pages |-> pages, bar |-> b, page |-> page]
<1>1. w \in World /\ w.eng = eng /\ w.pages = pages /\ w.bar = b /\ w.page = page
  BY NowOK DEF World, GoodBar
<1> HIDE DEF w
<1>2. Current(w) = Current(Now)
  BY <1>1, NowOK DEF Current
<1>3. Sound(w)
  BY <1>1, <1>2, NowOK DEF Sound, WaysAgree
<1>4. Agreed(w)
  BY <1>1, <1>2, NowOK DEF Agreed, Names, Showing
<1> QED BY <1>1, <1>3, <1>4, StepOK DEF Good, UserEdits, Inv

(* Only what WebPageUI knows of the view changes.                          *)
LEMMA PageOnlyOK ==
    ASSUME NEW w, Good(w), NEW p \in Page, NEW v, v = [w EXCEPT !.page = p],
           p.lost = w.page.lost, p.content = w.page.content,
           p.state = "MAIN_WEB_PAGE" => w.page.state = "MAIN_WEB_PAGE"
    PROVE  Good(v) /\ v.bar = w.bar /\ v.eng = w.eng /\ v.page = p
<1>1. v \in World /\ v.eng = w.eng /\ v.pages = w.pages /\ v.bar = w.bar /\ v.page = p
  BY DEF Good, Sound, World
<1>2. Current(v) = Current(w)
  BY <1>1 DEF Current
<1> QED BY <1>1, <1>2 DEF Good, Sound, Agreed, Names, Showing, WaysAgree

LEMMA NewTabOK ==
    ASSUME NEW w, Good(w), NEW v, v = [w EXCEPT !.page.newTab = TRUE]
    PROVE  Good(v) /\ v.bar = w.bar
<1>1. PICK p : p = [w.page EXCEPT !.newTab = TRUE]
  OBVIOUS
<1>2. /\ p \in Page /\ p.lost = w.page.lost /\ p.content = w.page.content
      /\ p.state = w.page.state
  BY <1>1 DEF Good, Sound, World, Page
<1>3. v = [w EXCEPT !.page = p]
  BY <1>1
<1>4. p.state = "MAIN_WEB_PAGE" => w.page.state = "MAIN_WEB_PAGE"
  BY <1>2
<1>5. Good(v)
  BY <1>2, <1>3, <1>4, PageOnlyOK
<1>6. v.bar = w.bar
  BY <1>3 DEF Good, Sound, World
<1> QED BY <1>5, <1>6

(* One of the things a page says of itself changes: the bar has heard of   *)
(* it, or that is noted, or it is not the current page.                    *)
LEMMA ChangedOK ==
    ASSUME NEW w, Good(w), NEW t \in Ids, NEW what \in {"uri", "loading", "ways"},
           NEW p \in View, NEW b, GoodBar(b),
           IF what = "uri" THEN b.uri = p.uri
                           ELSE p.uri = w.pages[t].uri /\ b.uri = w.bar.uri,
           IF what = "loading" THEN b.loading \/ b.progress => p.loading
                               ELSE /\ p.loading = w.pages[t].loading
                                    /\ b.loading = w.bar.loading /\ b.progress = w.bar.progress,
           IF what = "ways" THEN b.ways = p.ways
                            ELSE p.ways = w.pages[t].ways /\ b.ways = w.bar.ways,
           NEW v \in World, v.eng = w.eng, v.pages = [w.pages EXCEPT ![t] = p],
           v.page.state = w.page.state, v.page.content = w.page.content,
           \/ v.bar = b /\ v.page.lost = w.page.lost /\ t = Cur(w.eng)
           \/ v.bar = w.bar /\ v.page.lost = w.page.lost \cup {what}
           \/ v.bar = w.bar /\ v.page.lost = w.page.lost /\ t # Cur(w.eng)
    PROVE  Good(v)
<1> DEFINE c == Cur(w.eng)
<1>1. /\ w \in World /\ GoodEng(w.eng) /\ WaysAgree(w) /\ Agreed(w)
      /\ v.eng \in EngineState /\ GoodBar(v.bar)
  BY DEF Good, Sound, World
<1>2. HasView(w.eng) => c \in Ids
  BY <1>1, GoodEngOK
<1>3. Current(v) = v.pages[c] /\ Current(w) = w.pages[c] /\ Cur(v.eng) = c
  BY DEF Current
<1>4. c \in Ids => v.pages[c] = IF t = c THEN p ELSE w.pages[c]
  BY <1>1 DEF World
<1>5. Showing(v) => Showing(w)
  BY DEF Showing
<1> HIDE DEF c
<1>6. WaysAgree(v)
  BY <1>1, <1>2, <1>3, <1>4 DEF WaysAgree, c
<1>7. Showing(v) => v.page.content = Cur(v.eng)
  BY <1>1, <1>3, <1>5 DEF Agreed, c
<1>8. ASSUME Showing(v), HasView(v.eng), "uri" \notin v.page.lost
      PROVE  Names(v)
  BY <1>1, <1>2, <1>3, <1>4, <1>5, <1>8 DEF Agreed, Names, c
<1>9. ASSUME Showing(v), HasView(v.eng), "loading" \notin v.page.lost,
             v.bar.loading \/ v.bar.progress
      PROVE  Current(v).loading
  BY <1>1, <1>2, <1>3, <1>4, <1>5, <1>9 DEF Agreed, c
<1> QED BY <1>1, <1>6, <1>7, <1>8, <1>9 DEF Good, Sound, Agreed

LEMMA SignalOK ==
    ASSUME Inv, NEW t \in Ids, NEW what \in {"uri", "loading", "ways"},
           NEW p \in View, NEW b, GoodBar(b), Keeps(bar, b), Signal(t, what, p, b),
           IF what = "uri" THEN b.uri = p.uri
                           ELSE p.uri = pages[t].uri /\ b.uri = bar.uri,
           IF what = "loading" THEN b.loading \/ b.progress => p.loading
                               ELSE /\ p.loading = pages[t].loading
                                    /\ b.loading = bar.loading /\ b.progress = bar.progress,
           IF what = "ways" THEN b.ways = p.ways
                            ELSE p.ways = pages[t].ways /\ b.ways = bar.ways
    PROVE  Inv' /\ Kept
<1> DEFINE lost == IF t = Cur(eng) /\ ~Heard(t) THEN page.lost \cup {what} ELSE page.lost
           q == [page EXCEPT !.lost = lost]
           c == IF Heard(t) THEN b ELSE bar
           s == [pages EXCEPT ![t] = p]
           v == [eng |-> eng, pages |-> s, bar |-> c, page |-> q]
<1>1. /\ bar' = c /\ eng' = eng /\ front' = front /\ pages' = s /\ page' = q
  BY DEF Signal
<1>2. /\ q \in Page /\ q.state = page.state /\ q.content = page.content /\ q.lost = lost
  BY NowOK DEF Page
<1>3. s \in [Ids -> View]
  BY NowOK
<1>4. GoodBar(c) /\ Keeps(bar, c)
  BY NowOK DEF Keeps
<1>5. \/ c = b /\ lost = page.lost /\ t = Cur(eng)
      \/ c = bar /\ lost = page.lost \cup {what}
      \/ c = bar /\ lost = page.lost /\ t # Cur(eng)
  BY DEF Heard
<1> HIDE DEF c, q, lost
<1>6. v \in World /\ v.eng = eng /\ v.pages = s /\ v.bar = c /\ v.page = q
  BY NowOK, <1>2, <1>3, <1>4 DEF World, GoodBar
<1> HIDE DEF v
<1>7. Good(v)
  <2>1. v.pages = [Now.pages EXCEPT ![t] = p]
    BY <1>6, NowOK
  <2>2. v.page.state = Now.page.state /\ v.page.content = Now.page.content
    BY <1>2, <1>6, NowOK
  <2>3. \/ v.bar = b /\ v.page.lost = Now.page.lost /\ t = Cur(Now.eng)
        \/ v.bar = Now.bar /\ v.page.lost = Now.page.lost \cup {what}
        \/ v.bar = Now.bar /\ v.page.lost = Now.page.lost /\ t # Cur(Now.eng)
    BY <1>2, <1>5, <1>6, NowOK
  <2> DEFINE n == Now
  <2>4. /\ Good(n) /\ n.eng = eng /\ n.pages = pages /\ n.bar = bar /\ n.page = page
    BY NowOK
  <2> HIDE DEF n, s
  <2> QED BY <1>6, <2>1, <2>2, <2>3, <2>4, ChangedOK DEF n
<1> HIDE DEF s
<1>8. Inv'
  BY <1>1, <1>4, <1>6, <1>7, StepOK DEF Inv, Keeps
<1>9. Kept
  BY <1>1, <1>4 DEF Keeps, Kept
<1> QED BY <1>8, <1>9

(* Reloading, and stopping to load: the page is the current one.           *)
LEMMA ReloadOK ==
    ASSUME NEW w, Good(w), NEW v, v \in {Reload(w), StopLoading(w)}
    PROVE  Good(v) /\ Keeps(w.bar, v.bar)
<1> DEFINE t == Cur(w.eng)
<1>1. /\ w \in World /\ GoodEng(w.eng) /\ GoodBar(w.bar) /\ w.bar \in Bar
      /\ w.pages \in [Ids -> View] /\ w.page \in Page /\ w.eng.connected \in BOOLEAN
  BY DEF Good, Sound, World, EngineState
<1>2. CASE v = w
  BY <1>2 DEF Keeps
<1>3. CASE HasView(w.eng) /\ v = [w EXCEPT !.pages[t].loading = TRUE]
  <2> DEFINE p == [w.pages[t] EXCEPT !.loading = TRUE]
             s == [w.pages EXCEPT ![t] = p]
  <2>1. t \in Ids
    BY <1>1, <1>3, GoodEngOK
  <2>2. /\ p \in View /\ p.loading /\ p.uri = w.pages[t].uri /\ p.ways = w.pages[t].ways
    BY <1>1, <2>1 DEF View
  <2>3. v = [w EXCEPT !.pages = s]
    BY <1>3
  <2> HIDE DEF p
  <2>4. s \in [Ids -> View]
    BY <1>1, <2>2
  <2>5. /\ v \in World /\ v.eng = w.eng /\ v.pages = s /\ v.bar = w.bar /\ v.page = w.page
    BY <1>1, <2>3, <2>4 DEF World
  <2> HIDE DEF t
  <2>6. Good(v)
    BY <1>1, <2>1, <2>2, <2>5, ChangedOK DEF t
  <2> QED BY <2>5, <2>6 DEF Keeps
<1>4. CASE /\ HasView(w.eng)
           /\ v = [w EXCEPT !.pages[t].loading = FALSE,
                            !.bar = IF w.eng.connected THEN WPLoadFinished(@) ELSE @,
                            !.page.lost = IF w.eng.connected THEN @ ELSE @ \cup {"loading"}]
  <2> DEFINE p == [w.pages[t] EXCEPT !.loading = FALSE]
             s == [w.pages EXCEPT ![t] = p]
             f == WPLoadFinished(w.bar)
             b == IF w.eng.connected THEN f ELSE w.bar
             l == IF w.eng.connected THEN w.page.lost ELSE w.page.lost \cup {"loading"}
             q == [w.page EXCEPT !.lost = l]
  <2>1. t \in Ids
    BY <1>1, <1>4, GoodEngOK
  <2>2. /\ p \in View /\ ~p.loading /\ p.uri = w.pages[t].uri /\ p.ways = w.pages[t].ways
    BY <1>1, <2>1 DEF View
  <2>3. /\ GoodBar(f) /\ Keeps(w.bar, f) /\ f.uri = w.bar.uri /\ f.ways = w.bar.ways
        /\ ~f.loading /\ ~f.progress
    BY <1>1, LoadFinishedOK
  <2>4. v = [w EXCEPT !.pages = s, !.bar = b, !.page = q]
    BY <1>4
  <2>5. \/ b = f /\ l = w.page.lost
        \/ b = w.bar /\ l = w.page.lost \cup {"loading"}
    OBVIOUS
  <2> HIDE DEF p, f, l, b
  <2>6. q \in Page /\ q.state = w.page.state /\ q.content = w.page.content /\ q.lost = l
    BY <1>1, <2>5 DEF Page
  <2>7. s \in [Ids -> View]
    BY <1>1, <2>2
  <2>8. GoodBar(b) /\ Keeps(w.bar, b) /\ b \in Bar
    BY <1>1, <2>3, <2>5 DEF Keeps, GoodBar
  <2> HIDE DEF q
  <2>9. v \in World /\ v.eng = w.eng /\ v.pages = s /\ v.bar = b /\ v.page = q
    BY <1>1, <2>4, <2>6, <2>7, <2>8 DEF World
  <2> HIDE DEF t
  <2>10. Good(v)
    BY <1>1, <2>1, <2>2, <2>3, <2>5, <2>6, <2>9, ChangedOK DEF t
  <2> QED BY <2>8, <2>9, <2>10
<1> QED BY <1>2, <1>3, <1>4 DEF Reload, StopLoading

(* What the user does to the bar.                                          *)
LEMMA EditsStep ==
    ASSUME Inv, Focused \/ Unfocused \/ EntryClicked
    PROVE  Inv' /\ Kept
<1>1. CASE Focused
  <2> DEFINE b == [bar EXCEPT !.focus = TRUE, !.text = bar.uri, !.lock = FALSE]
  <2>1. UserEdits(b) /\ ~bar.focus
    BY <1>1 DEF Focused
  <2>2. /\ GoodBar(b) /\ Locks(b) /\ b.uri = bar.uri /\ b.ways = bar.ways
        /\ b.loading = bar.loading /\ b.progress = bar.progress
    BY NowOK DEF GoodBar, Bar, Locks
  <2> HIDE DEF b
  <2> QED BY <2>1, <2>2, BarOnlyOK DEF Kept
<1>2. CASE Unfocused
  <2> DEFINE b == Unfocus(bar)
  <2>1. UserEdits(b)
    BY <1>2 DEF Unfocused
  <2>2. /\ GoodBar(b) /\ Keeps(bar, b) /\ b.uri = bar.uri /\ b.ways = bar.ways
        /\ b.loading = bar.loading /\ b.progress = bar.progress
    BY NowOK, ClearFocusOK
  <2> HIDE DEF b
  <2> QED BY <2>1, <2>2, BarOnlyOK DEF Kept, Keeps, Inv, UserEdits
<1>3. CASE EntryClicked
  <2> DEFINE k == bar.text # Blank
             b == [bar EXCEPT !.icon = "cancel", !.shown = k]
  <2>1. UserEdits(b)
    BY <1>3 DEF EntryClicked, ShowCancelIcon
  <2>a. k \in BOOLEAN
    OBVIOUS
  <2> HIDE DEF k
  <2>2. /\ GoodBar(b) /\ b.uri = bar.uri /\ b.ways = bar.ways /\ b.text = bar.text
        /\ b.loading = bar.loading /\ b.progress = bar.progress /\ b.lock = bar.lock
    BY NowOK, <2>a DEF GoodBar, Bar
  <2> HIDE DEF b
  <2> QED BY <2>1, <2>2, BarOnlyOK DEF Kept, Inv, Locks, UserEdits
<1> QED BY <1>1, <1>2, <1>3

LEMMA TypedStep ==
    ASSUME Inv, NEW text \in Typable, Typed(text)
    PROVE  Inv'
<1> DEFINE d == [bar EXCEPT !.text = text]
           k == d.text # Blank
           b == [d EXCEPT !.icon = "cancel", !.shown = k]
<1>1. UserEdits(b) \/ UserEdits(d)
  BY DEF Typed, ShowCancelIcon
<1>2. text \in Texts
  BY UrlAssumption DEF Texts, Blank, Home, Host
<1>3. k \in BOOLEAN
  OBVIOUS
<1> HIDE DEF k
<1>4. /\ GoodBar(d) /\ d.uri = bar.uri /\ d.ways = bar.ways
      /\ d.loading = bar.loading /\ d.progress = bar.progress /\ d.lock = bar.lock
  BY NowOK, <1>2 DEF GoodBar, Bar
<1> HIDE DEF d
<1>5. /\ GoodBar(b) /\ b.uri = bar.uri /\ b.ways = bar.ways
      /\ b.loading = bar.loading /\ b.progress = bar.progress /\ b.lock = bar.lock
  BY <1>3, <1>4 DEF GoodBar, Bar
<1> HIDE DEF b
<1> QED BY <1>1, <1>4, <1>5, BarOnlyOK DEF Inv, Locks

LEMMA RightIconStep ==
    ASSUME Inv, RightIconClicked
    PROVE  Inv'
<1>1. CASE UserEdits([bar EXCEPT !.text = Blank, !.shown = FALSE])
  <2> DEFINE b == [bar EXCEPT !.text = Blank, !.shown = FALSE]
  <2>1. /\ GoodBar(b) /\ b.uri = bar.uri /\ b.ways = bar.ways
        /\ b.loading = bar.loading /\ b.progress = bar.progress /\ b.lock = bar.lock
    BY NowOK, TextsOK DEF GoodBar, Bar
  <2> HIDE DEF b
  <2> QED BY <1>1, <2>1, BarOnlyOK DEF Inv, Locks, b
<1>2. CASE Becomes(Reload(Now)) \/ Becomes(StopLoading(Now))
  <2>1. PICK w \in {Reload(Now), StopLoading(Now)} : Becomes(w)
    BY <1>2
  <2>2. Good(w) /\ Keeps(Now.bar, w.bar)
    BY NowOK, ReloadOK
  <2> QED BY <2>1, <2>2, NowOK, BecomesOK
<1> QED BY <1>1, <1>2 DEF RightIconClicked

(* The address is entered: the entry is left, and the lock is not shown.   *)
LEMMA EnteredOK ==
    ASSUME NEW w, Good(w), NEW v, v = [w EXCEPT !.bar = [ClearFocus(w.bar) EXCEPT !.lock = FALSE]]
    PROVE  Good(v) /\ ~v.bar.focus /\ Locks(v.bar)
<1> DEFINE c == ClearFocus(w.bar)
           b == [c EXCEPT !.lock = FALSE]
<1>1. /\ w \in World /\ GoodBar(w.bar)
  BY DEF Good, Sound
<1>2. /\ GoodBar(c) /\ ~c.focus /\ c.uri = w.bar.uri /\ c.ways = w.bar.ways
      /\ c.loading = w.bar.loading /\ c.progress = w.bar.progress
  BY <1>1, ClearFocusOK
<1>3. v = [w EXCEPT !.bar = b]
  OBVIOUS
<1> HIDE DEF c
<1>4. /\ GoodBar(b) /\ ~b.focus /\ Locks(b) /\ b.uri = w.bar.uri /\ b.ways = w.bar.ways
      /\ b.loading = w.bar.loading /\ b.progress = w.bar.progress
  BY <1>2 DEF GoodBar, Bar, Locks
<1> HIDE DEF b
<1>5. v \in World /\ v.eng = w.eng /\ v.pages = w.pages /\ v.bar = b /\ v.page = w.page
  BY <1>1, <1>3, <1>4 DEF World, GoodBar
<1>6. Current(v) = Current(w)
  BY <1>5 DEF Current
<1> QED BY <1>4, <1>5, <1>6 DEF Good, Sound, Agreed, Names, Showing, WaysAgree

LEMMA EditingCompletedStep ==
    ASSUME Inv, EditingCompleted
    PROVE  Inv' /\ Kept
<1> DEFINE u == Rewrite(bar.text)
           d == [bar EXCEPT !.uri = u]
           w == [Now EXCEPT !.bar.uri = u]
<1>1. u \in Texts /\ GoodBar(d) /\ d.uri = u /\ d.ways = bar.ways
      /\ d.loading = bar.loading /\ d.progress = bar.progress
  BY NowOK, TextsOK DEF GoodBar, Bar
<1>2. /\ \/ u \in Urls \cup {Start} /\ u \notin {Blank, Home}
         \/ u = Blank
         \/ u = Home
      /\ Home # Blank
  BY NowOK, TextsOK DEF Bar
<1>3. PICK v \in CASE u = Home  -> {SwitchViewToQuickAccess([w EXCEPT !.bar = ChangeUri(@, Blank)])}
                   [] u = Blank -> {w}
                   [] OTHER     -> OpenURL(w, u) :
          Becomes([v EXCEPT !.bar = [ClearFocus(v.bar) EXCEPT !.lock = FALSE]])
  BY DEF EditingCompleted
<1>4. w = [Now EXCEPT !.bar = d]
  BY NowOK
<1>5. page.top = "page"
  BY DEF EditingCompleted, OnTop
<1> HIDE DEF u, d, w
<1>6. w \in World /\ w.eng = eng /\ w.pages = pages /\ w.bar = d /\ w.page = page
  BY <1>1, <1>4, NowOK DEF World, GoodBar
<1>7. Current(w) = Current(Now)
  BY <1>6, NowOK DEF Current
<1>8. Sound(w)
  BY <1>1, <1>6, <1>7, NowOK DEF Sound, WaysAgree
<1>9. ASSUME u = Blank \/ ~HasView(eng) \/ page.state = "QUICK_ACCESS"
      PROVE  Good(w)
  BY <1>1, <1>6, <1>7, <1>8, <1>9, NowOK DEF Good, Agreed, Names, Showing
<1>10. Good(v)
  <2>1. CASE u = Home
    <3> DEFINE b == ChangeUri(d, Blank)
               x == [w EXCEPT !.bar = b]
    <3>0. v \in {SwitchViewToQuickAccess([w EXCEPT !.bar = ChangeUri(@, Blank)])}
      BY <1>2, <1>3, <2>1
    <3>1. v = SwitchViewToQuickAccess(x)
      BY <1>6, <3>0
    <3>2. GoodBar(b) /\ b.ways = d.ways
      BY <1>1, ChangeUriOK, TextsOK DEF GoodBar
    <3> HIDE DEF b
    <3>3. x \in World /\ x.eng = eng /\ x.pages = pages /\ x.bar = b /\ x.page = page
      BY <1>6, <3>2 DEF World, GoodBar
    <3> HIDE DEF x
    <3>4. Sound(x)
      BY <1>6, <1>8, <3>2, <3>3 DEF Sound, WaysAgree, Current
    <3> QED BY <3>1, <3>4, SwitchViewToQuickAccessOK
  <2>2. CASE u = Blank
    BY <1>2, <1>3, <1>9, <2>2
  <2>3. CASE u \in Urls \cup {Start} /\ u \notin {Blank, Home}
    <3>1. v \in OpenURL(w, u)
      BY <1>3, <2>3
    <3>2. PopStackTo(w) = w
      BY <1>5, <1>6 DEF PopStackTo
    <3>3. \/ v = w /\ (~HasView(w.eng) \/ w.page.state = "QUICK_ACCESS")
          \/ Good(v)
      BY <1>8, <2>3, <3>1, <3>2, OpenURLOK
    <3> QED BY <1>6, <1>9, <3>3
  <2> QED BY <1>2, <2>1, <2>2, <2>3
<1> DEFINE x == [v EXCEPT !.bar = [ClearFocus(v.bar) EXCEPT !.lock = FALSE]]
<1>11. Becomes(x)
  BY <1>3
<1>12. Good(x) /\ ~x.bar.focus /\ Locks(x.bar)
  BY <1>10, EnteredOK
<1> HIDE DEF x
<1>13. Inv'
  BY <1>11, <1>12, StepOK DEF Becomes, Inv
<1>14. Kept
  BY <1>11, <1>12 DEF Becomes, Kept
<1> QED BY <1>13, <1>14

(* Home, a new tab, a link.                                                *)
LEMMA HomePagesOK ==
    ASSUME Inv, NEW w \in HomePages
    PROVE  Good(w) /\ Keeps(bar, w.bar)
<1>1. CASE w = SwitchViewToQuickAccess(Now)
  BY <1>1, NowOK, SwitchViewToQuickAccessOK
<1>2. CASE w \in OpenNewTab(PopStackTo(Now), Start)
  <2> DEFINE v == PopStackTo(Now)
  <2>1. Good(v) /\ Keeps(bar, v.bar)
    BY NowOK, ShowUIOK DEF Good
  <2> HIDE DEF v
  <2>2. w = v \/ (Good(w) /\ Keeps(v.bar, w.bar))
    BY <1>2, <2>1, OpenNewTabOK DEF Good, v
  <2> QED BY <2>1, <2>2 DEF Keeps
<1> QED BY <1>1, <1>2 DEF HomePages

LEMMA HomeStep ==
    ASSUME Inv, HomeClicked \/ NewTabClicked
    PROVE  Inv' /\ Kept
<1>1. PICK w \in HomePages : Becomes(w) \/ Becomes([w EXCEPT !.page.newTab = TRUE])
  BY DEF HomeClicked, NewTabClicked
<1>2. Good(w) /\ Keeps(bar, w.bar)
  BY HomePagesOK
<1>3. CASE Becomes(w)
  BY <1>2, <1>3, BecomesOK
<1>4. CASE Becomes([w EXCEPT !.page.newTab = TRUE])
  <2> DEFINE v == [w EXCEPT !.page.newTab = TRUE]
  <2>1. Good(v) /\ v.bar = w.bar
    BY <1>2, NewTabOK
  <2> HIDE DEF v
  <2> QED BY <1>2, <1>4, <2>1, BecomesOK DEF v
<1> QED BY <1>1, <1>3, <1>4

LEMMA LinkStep ==
    ASSUME Inv, NEW u \in Urls, LinkClicked(u)
    PROVE  Inv' /\ Kept
<1>1. PICK w \in OpenURL(Now, u) : Becomes(w)
  BY DEF LinkClicked
<1>2. Good(w) /\ Keeps(bar, w.bar)
  BY NowOK, OpenFromGoodOK
<1> QED BY <1>1, <1>2, BecomesOK

(* Going to the page: the back button, the back key on quick access, and   *)
(* reloading for the other layout.                                         *)
LEMMA BackStep ==
    ASSUME Inv, BackPage \/ BackOnQuickAccess \/ SwitchToDesktopMode
    PROVE  Inv' /\ Kept
<1>1. CASE BackPage \/ BackOnQuickAccess
  <2> DEFINE w == SwitchViewToWebPage(Now)
  <2>1. HasView(eng) /\ Becomes(w)
    BY <1>1, NowOK, GoodEngOK DEF BackPage, BackOnQuickAccess
  <2>2. Good(w) /\ Keeps(bar, w.bar)
    BY <2>1, NowOK, SwitchViewToWebPageOK
  <2> HIDE DEF w
  <2> QED BY <2>1, <2>2, BecomesOK
<1>2. CASE SwitchToDesktopMode
  <2> DEFINE w == Reload(Now)
  <2>1. Becomes(w)
    BY <1>2 DEF SwitchToDesktopMode
  <2>2. Good(w) /\ Keeps(bar, w.bar)
    BY NowOK, ReloadOK
  <2> HIDE DEF w
  <2> QED BY <2>1, <2>2, BecomesOK
<1> QED BY <1>1, <1>2

(* Another view is pushed over the page view, or the views over it go.     *)
LEMMA StateOK ==
    ASSUME NEW w, Good(w), NEW s \in {"QUICK_ACCESS", "EDIT_MODE"},
           NEW v, v = [w EXCEPT !.page.state = s]
    PROVE  Good(v) /\ v.bar = w.bar
<1> DEFINE p == [w.page EXCEPT !.state = s]
<1>1. /\ p \in Page /\ p.lost = w.page.lost /\ p.content = w.page.content
      /\ p.state # "MAIN_WEB_PAGE"
  BY DEF Good, Sound, World, Page
<1>2. v = [w EXCEPT !.page = p]
  OBVIOUS
<1> HIDE DEF p
<1> QED BY <1>1, <1>2, PageOnlyOK

LEMMA HideUIOK ==
    ASSUME NEW w, Good(w), NEW view \in {"tabs", "edit", "other"}, NEW v, v = HideUI(w, view)
    PROVE  Good(v) /\ Keeps(w.bar, v.bar)
<1> DEFINE b == BarLoadFinished(w.bar)
           p == [w.page EXCEPT !.top = view]
<1>1. w \in World /\ GoodBar(w.bar) /\ w.page \in Page
  BY DEF Good, Sound, World
<1>2. /\ GoodBar(b) /\ Keeps(w.bar, b) /\ b.uri = w.bar.uri /\ b.ways = w.bar.ways
      /\ ~b.loading /\ b.progress = w.bar.progress
  BY <1>1, BarLoadFinishedOK
<1>3. /\ p \in Page /\ p.state = w.page.state /\ p.content = w.page.content
      /\ p.lost = w.page.lost
  BY <1>1 DEF Page
<1>4. v = [w EXCEPT !.page = p, !.bar = b]
  BY DEF HideUI
<1> HIDE DEF b, p
<1>5. v \in World /\ v.eng = w.eng /\ v.pages = w.pages /\ v.bar = b /\ v.page = p
  BY <1>1, <1>2, <1>3, <1>4 DEF World, GoodBar
<1>6. Current(v) = Current(w)
  BY <1>5 DEF Current
<1> QED BY <1>2, <1>3, <1>5, <1>6 DEF Good, Sound, Agreed, Names, Showing, WaysAgree

LEMMA ViewsStep ==
    ASSUME Inv, PopView \/ \E view \in {"tabs", "edit", "other"} : PushView(view)
    PROVE  Inv' /\ Kept
<1>1. CASE PopView
  <2> DEFINE x == IF page.top = "edit" THEN [Now EXCEPT !.page.state = "QUICK_ACCESS"] ELSE Now
             w == ShowUI(x)
  <2>1. Becomes(w)
    BY <1>1 DEF PopView
  <2>2. Good(x) /\ x.bar = bar
    <3> DEFINE y == [Now EXCEPT !.page.state = "QUICK_ACCESS"]
    <3>1. Good(y) /\ y.bar = bar
      BY NowOK, StateOK
    <3> HIDE DEF y
    <3> QED BY <3>1, NowOK DEF y
  <2> HIDE DEF x
  <2>3. Good(w) /\ Keeps(bar, w.bar)
    BY <2>2, ShowUIOK DEF Good
  <2> HIDE DEF w
  <2> QED BY <2>1, <2>3, BecomesOK
<1>2. ASSUME NEW view \in {"tabs", "edit", "other"}, PushView(view)
      PROVE  Inv' /\ Kept
  <2> DEFINE x == IF view = "edit" THEN [Now EXCEPT !.page.state = "EDIT_MODE"] ELSE Now
             w == HideUI(x, view)
  <2>1. Becomes(w)
    BY <1>2 DEF PushView
  <2>2. Good(x) /\ x.bar = bar
    <3> DEFINE y == [Now EXCEPT !.page.state = "EDIT_MODE"]
    <3>1. Good(y) /\ y.bar = bar
      BY NowOK, StateOK
    <3> HIDE DEF y
    <3> QED BY <3>1, NowOK DEF y
  <2> HIDE DEF x
  <2>3. Good(w) /\ Keeps(bar, w.bar)
    BY <2>2, HideUIOK
  <2> HIDE DEF w
  <2> QED BY <2>1, <2>3, BecomesOK
<1> QED BY <1>1, <1>2

(* The tab manager.                                                        *)
LEMMA TabsStep ==
    ASSUME Inv, NEW t \in Ids, TabClicked(t) \/ CloseTabsClicked(t) \/ CloseWindow(t)
    PROVE  Inv' /\ Kept
<1>1. CASE TabClicked(t)
  <2> DEFINE x == SwitchToTab(Now, t)
             w == PopStackTo(x)
  <2>1. HasView(eng) /\ Becomes(w)
    BY <1>1 DEF TabClicked
  <2>2. Good(x) /\ Keeps(bar, x.bar)
    BY <2>1, NowOK, SwitchToTabOK
  <2> HIDE DEF x
  <2>3. Good(w) /\ Keeps(bar, w.bar)
    BY <2>2, ShowUIOK DEF Good, Keeps
  <2> HIDE DEF w
  <2> QED BY <2>1, <2>3, BecomesOK
<1>2. CASE CloseTabsClicked(t) \/ CloseWindow(t)
  <2>1. PICK w \in Closed(Now, t) : Becomes(w)
    BY <1>2 DEF CloseTabsClicked, CloseWindow
  <2>2. Good(w) /\ Keeps(bar, w.bar)
    BY NowOK, ClosedOK
  <2> QED BY <2>1, <2>2, BecomesOK
<1> QED BY <1>1, <1>2

LEMMA ChangeEngineStateStep ==
    ASSUME Inv, ChangeEngineState
    PROVE  Inv' /\ Kept
<1> DEFINE s == Suspend(eng)
           o == CHOOSE m \in Modes : m # s.mode
           e == [s EXCEPT !.mode = o]
           w == [Now EXCEPT !.eng = e, !.page = ShowsQuickAccess(@), !.bar = SetQuickAccessView(@)]
<1>1. Becomes(w)
  BY DEF ChangeEngineState
<1>2. GoodEng(s)
  BY NowOK, GoodSuspendOK
<1>3. o \in Modes
  BY DEF Modes
<1> HIDE DEF s, o
<1>4. e \in EngineState /\ e.tabs = s.tabs /\ e.cur = s.cur /\ e.asleep = s.asleep
  BY <1>2, <1>3 DEF GoodEng, EngineState
<1>5. GoodEng(e)
  BY <1>2, <1>4 DEF GoodEng, CurOf
<1> HIDE DEF e
<1>6. Good(w) /\ Keeps(bar, w.bar)
  BY <1>5, NowOK, QuickAccessOK
<1> HIDE DEF w
<1> QED BY <1>1, <1>6, BecomesOK

(* Going back to the opener of a tab that closed: only the bar is told.    *)
LEMMA OpenerOK ==
    ASSUME NEW w, Good(w), NEW opener \in Tabs(w.eng),
           NEW v, v = [EngineSwitch(w, opener) EXCEPT !.page = Untold(@, opener)]
    PROVE  Good(v) /\ Keeps(w.bar, v.bar)
<1> DEFINE x == EngineSwitch(w, opener)
           p == Untold(x.page, opener)
<1>1. w \in World /\ GoodBar(w.bar) /\ GoodEng(w.eng) /\ Sound(w) /\ Agreed(w)
  BY DEF Good, Sound
<1>2. /\ x \in World /\ x.pages = w.pages /\ Cur(x.eng) = opener /\ HasView(x.eng)
      /\ x.bar.uri = w.pages[opener].uri
      /\ x.bar.loading = w.bar.loading /\ x.bar.progress = w.bar.progress
      /\ x.page.state = w.page.state /\ x.page.content = w.page.content
      /\ x.page.lost = w.page.lost \ {"ways"}
  BY <1>1, EngineSwitchOK DEF GoodEng
<1>3. Sound(x) /\ Keeps(w.bar, x.bar)
  BY <1>1, SoundSwitchOK
<1>4. v = [x EXCEPT !.page = p]
  OBVIOUS
<1> HIDE DEF x
<1>5. /\ p \in Page /\ p.state = w.page.state /\ p.content = w.page.content
      /\ \/ p.lost = x.page.lost /\ opener = w.page.content
         \/ p.lost = x.page.lost \cup {"page"}
  BY <1>2 DEF World, Page, Untold
<1> HIDE DEF p
<1>6. v \in World /\ v.eng = x.eng /\ v.pages = w.pages /\ v.bar = x.bar /\ v.page = p
  BY <1>2, <1>4, <1>5 DEF World
<1>7. Current(v) = w.pages[opener] /\ Current(x) = w.pages[opener]
  BY <1>2, <1>6 DEF Current
<1>8. Sound(v)
  BY <1>3, <1>5, <1>6, <1>7 DEF Sound, WaysAgree
<1>9. ASSUME Showing(v)
      PROVE  /\ Showing(w) /\ opener = w.page.content /\ p.lost = w.page.lost \ {"ways"}
             /\ HasView(w.eng) /\ Cur(w.eng) = opener /\ Current(w) = w.pages[opener]
  <2>1. Showing(w) /\ opener = w.page.content /\ p.lost = w.page.lost \ {"ways"}
    BY <1>2, <1>5, <1>6, <1>9 DEF Showing
  <2>2. HasView(w.eng)
    BY <1>1, GoodEngOK
  <2> QED BY <1>1, <2>1, <2>2 DEF Agreed, Current
<1>10. Agreed(v)
  BY <1>1, <1>2, <1>5, <1>6, <1>7, <1>9 DEF Agreed, Names
<1> QED BY <1>3, <1>6, <1>8, <1>10 DEF Good

LEMMA BackOnPageStep ==
    ASSUME Inv, BackOnPage
    PROVE  Inv' /\ Kept
<1>1. CASE Becomes([Now EXCEPT !.page.newTab = TRUE])
  <2> DEFINE v == [Now EXCEPT !.page.newTab = TRUE]
  <2>1. Good(v) /\ Keeps(bar, v.bar)
    BY NowOK, NewTabOK DEF Keeps
  <2> HIDE DEF v
  <2> QED BY <1>1, <2>1, BecomesOK DEF v
<1>2. ASSUME NEW w \in Closed(Now, Cur(eng)), HasView(eng),
             \/ \E opener \in Tabs(w.eng) :
                   Becomes([EngineSwitch(w, opener) EXCEPT !.page = Untold(@, opener)])
             \/ Becomes([SwitchViewToQuickAccess(w) EXCEPT !.page.newTab = TRUE])
      PROVE  Inv' /\ Kept
  <2>1. Cur(eng) \in Ids
    BY <1>2, NowOK, GoodEngOK
  <2>2. Good(w) /\ Keeps(bar, w.bar)
    BY <2>1, NowOK, ClosedOK
  <2>3. ASSUME NEW opener \in Tabs(w.eng),
               Becomes([EngineSwitch(w, opener) EXCEPT !.page = Untold(@, opener)])
        PROVE  Inv' /\ Kept
    <3> DEFINE v == [EngineSwitch(w, opener) EXCEPT !.page = Untold(@, opener)]
    <3>1. Good(v) /\ Keeps(w.bar, v.bar)
      BY <2>2, OpenerOK
    <3>2. Becomes(v)
      BY <2>3
    <3> HIDE DEF v
    <3>3. Keeps(bar, v.bar)
      BY <2>2, <3>1 DEF Keeps
    <3> QED BY <3>1, <3>2, <3>3, BecomesOK
  <2>4. CASE Becomes([SwitchViewToQuickAccess(w) EXCEPT !.page.newTab = TRUE])
    <3> DEFINE x == SwitchViewToQuickAccess(w)
               v == [x EXCEPT !.page.newTab = TRUE]
    <3>1. Good(x) /\ Keeps(bar, x.bar)
      BY <2>2, SwitchViewToQuickAccessOK DEF Good, Keeps
    <3>2. Becomes(v)
      BY <2>4
    <3> HIDE DEF x
    <3>3. Good(v) /\ v.bar = x.bar
      BY <3>1, NewTabOK
    <3> HIDE DEF v
    <3> QED BY <3>1, <3>2, <3>3, BecomesOK
  <2> QED BY <1>2, <2>3, <2>4
<1> QED BY <1>1, <1>2 DEF BackOnPage

(* What the pages signal.                                                  *)
LEMMA LoadSignalStep ==
    ASSUME Inv, NEW t \in Ids, LoadStarted(t) \/ LoadFinished(t) \/ LoadProgress(t)
    PROVE  Inv' /\ Kept
<1>1. pages[t] \in View /\ GoodBar(bar)
  BY NowOK
<1>2. CASE LoadStarted(t)
  <2> DEFINE p == [pages[t] EXCEPT !.loading = TRUE]
             b == WPLoadStarted(bar)
  <2>1. Signal(t, "loading", p, b)
    BY <1>2 DEF LoadStarted
  <2>2. p \in View /\ p.loading /\ p.uri = pages[t].uri /\ p.ways = pages[t].ways
    BY <1>1 DEF View
  <2>3. GoodBar(b) /\ Keeps(bar, b) /\ b.uri = bar.uri /\ b.ways = bar.ways
    BY <1>1, LoadStartedOK
  <2> HIDE DEF p, b
  <2> QED BY <2>1, <2>2, <2>3, SignalOK
<1>3. CASE LoadFinished(t)
  <2> DEFINE p == [pages[t] EXCEPT !.loading = FALSE]
             b == WPLoadFinished(bar)
  <2>1. Signal(t, "loading", p, b)
    BY <1>3 DEF LoadFinished
  <2>2. p \in View /\ p.uri = pages[t].uri /\ p.ways = pages[t].ways
    BY <1>1 DEF View
  <2>3. /\ GoodBar(b) /\ Keeps(bar, b) /\ b.uri = bar.uri /\ b.ways = bar.ways
        /\ ~b.loading /\ ~b.progress
    BY <1>1, LoadFinishedOK
  <2> HIDE DEF p, b
  <2> QED BY <2>1, <2>2, <2>3, SignalOK
<1>4. CASE LoadProgress(t)
  <2> DEFINE p == pages[t]
             b == [bar EXCEPT !.progress = FALSE]
  <2>1. Signal(t, "loading", p, b) /\ p.loading
    BY <1>4 DEF LoadProgress
  <2>2. p \in View /\ p.uri = pages[t].uri /\ p.ways = pages[t].ways
    BY <1>1
  <2>3. GoodBar(b) /\ Keeps(bar, b) /\ b.uri = bar.uri /\ b.ways = bar.ways
    BY <1>1 DEF GoodBar, Bar, Keeps, Locks
  <2> HIDE DEF p, b
  <2> QED BY <2>1, <2>2, <2>3, SignalOK
<1> QED BY <1>2, <1>3, <1>4

LEMMA UrlChangedStep ==
    ASSUME Inv, NEW t \in Ids, NEW u \in Urls, UrlChanged(t, u)
    PROVE  Inv' /\ Kept
<1> DEFINE p == [pages[t] EXCEPT !.uri = u]
           b == ChangeUri(bar, u)
<1>1. Signal(t, "uri", p, b)
  BY DEF UrlChanged
<1>2. /\ p \in View /\ p.uri = u /\ p.loading = pages[t].loading
      /\ p.ways = pages[t].ways
  BY NowOK DEF View
<1>3. /\ GoodBar(b) /\ Keeps(bar, b) /\ b.uri = u /\ b.ways = bar.ways
      /\ b.loading = bar.loading /\ b.progress = bar.progress
  BY NowOK, ChangeUriOK, TextsOK
<1> HIDE DEF p, b
<1> QED BY <1>1, <1>2, <1>3, SignalOK

LEMMA WaysChangedStep ==
    ASSUME Inv, NEW t \in Ids, NEW w \in SUBSET Ways, BackForwardListChanged(t, w)
    PROVE  Inv' /\ Kept
<1> DEFINE p == [pages[t] EXCEPT !.ways = w]
           b == [bar EXCEPT !.ways = w]
<1>1. Signal(t, "ways", p, b)
  BY DEF BackForwardListChanged
<1>2. /\ p \in View /\ p.ways = w /\ p.loading = pages[t].loading
      /\ p.uri = pages[t].uri
  BY NowOK DEF View
<1>3. /\ GoodBar(b) /\ Keeps(bar, b) /\ b.ways = w /\ b.uri = bar.uri
      /\ b.loading = bar.loading /\ b.progress = bar.progress
  BY NowOK DEF GoodBar, Bar, Keeps, Locks
<1> HIDE DEF p, b
<1> QED BY <1>1, <1>2, <1>3, SignalOK

(* A page is asked about, or the question is answered: the bar gets a host *)
(* over the page that is shown, and no tab comes or goes.                  *)
LEMMA CertificateStep ==
    ASSUME Inv, NEW t \in eng.tabs, CertificateRequested(t) \/ CertificateAnswered(t)
    PROVE  Inv' /\ Kept
<1>1. t \in Ids /\ pages \in [Ids -> View] /\ page \in Page /\ GoodEng(eng) /\ eng \in EngineState
  BY NowOK DEF EngineState
<1>2. ASSUME NEW e, eng' = e, e \in EngineState, SameTabs(eng, e),
             e.asleep \subseteq eng.asleep \cup {t}
      PROVE  GoodEng(e) /\ Cur(e) = Cur(eng) /\ (HasView(e) <=> HasView(eng))
  <2>1. e.asleep \subseteq e.tabs
    BY <1>1, <1>2 DEF GoodEng, SameTabs
  <2> QED BY <1>1, <1>2, <2>1, SameTabsOK DEF GoodEng
<1>3. ASSUME NEW e, eng' = e, e \in EngineState, SameTabs(eng, e),
             e.asleep \subseteq eng.asleep \cup {t}, UNCHANGED <<front, pages, bar, page>>
      PROVE  Inv' /\ Kept
  <2> DEFINE w == Now
             v == [w EXCEPT !.eng = e]
  <2>1. GoodEng(e)
    BY <1>2, <1>3
  <2>2. /\ Good(w) /\ w.eng = eng /\ w.pages = pages /\ w.bar = bar /\ w.page = page
    BY NowOK
  <2> HIDE DEF w
  <2>3. /\ Good(v) /\ v.eng = e /\ v.pages = pages /\ v.bar = bar /\ v.page = page
    BY <1>3, <2>1, <2>2, ResumedOK DEF Good
  <2> HIDE DEF v
  <2>4. Locks(v.bar) /\ front' \in BOOLEAN
    BY <1>3, <2>3 DEF Inv
  <2>5. Inv'
    BY <1>3, <2>3, <2>4, StepOK
  <2> QED BY <1>3, <2>5 DEF Kept
<1>4. CASE CertificateAnswered(t)
  <2> DEFINE e == [eng EXCEPT !.asked = @ \ {t},
                              !.asleep = IF t \in Tabs(eng) THEN @ \ {t} ELSE @]
  <2>1. e \in EngineState /\ SameTabs(eng, e) /\ e.asleep \subseteq eng.asleep \cup {t}
    BY <1>1 DEF EngineState, SameTabs
  <2>2. eng' = e /\ UNCHANGED <<front, pages, bar, page>>
    BY <1>4 DEF CertificateAnswered
  <2> HIDE DEF e
  <2> QED BY <1>3, <2>1, <2>2
<1>5. CASE /\ eng' \in {[eng EXCEPT !.asleep = @ \ {t}], [eng EXCEPT !.asleep = @ \cup {t}]}
           /\ UNCHANGED <<front, pages, bar, page>>
  <2>1. eng' \in EngineState /\ SameTabs(eng, eng') /\ eng'.asleep \subseteq eng.asleep \cup {t}
    BY <1>1, <1>5 DEF EngineState, SameTabs
  <2> QED BY <1>3, <1>5, <2>1
<1>6. CASE /\ Heard(t) /\ page.state = "MAIN_WEB_PAGE"
           /\ eng' = [[eng EXCEPT !.asleep = @ \cup {t}] EXCEPT !.asked = @ \cup {t}]
           /\ bar' = ChangeUri(bar, Host)
           /\ page' = [page EXCEPT !.lost = @ \cup {"host"}]
           /\ UNCHANGED <<front, pages>>
  <2> DEFINE e == [[eng EXCEPT !.asleep = @ \cup {t}] EXCEPT !.asked = @ \cup {t}]
             b == ChangeUri(bar, Host)
             p == [page EXCEPT !.lost = @ \cup {"host"}]
             v == [eng |-> e, pages |-> pages, bar |-> b, page |-> p]
  <2>1. e \in EngineState /\ SameTabs(eng, e) /\ e.asleep \subseteq eng.asleep \cup {t}
    BY <1>1 DEF EngineState, SameTabs
  <2>2. Host \in Texts
    BY DEF Texts
  <2>3. /\ GoodBar(b) /\ Keeps(bar, b) /\ b.uri = Host /\ b.ways = bar.ways
        /\ b.loading = bar.loading /\ b.progress = bar.progress
    BY <2>2, NowOK, ChangeUriOK
  <2>4. /\ p \in Page /\ p.state = page.state /\ p.content = page.content
        /\ p.lost = page.lost \cup {"host"}
    BY <1>1 DEF Page
  <2>5. eng' = e /\ bar' = b /\ page' = p /\ pages' = pages /\ front' = front
    BY <1>6
  <2> HIDE DEF e, b, p
  <2>6. GoodEng(e) /\ Cur(e) = Cur(eng) /\ (HasView(e) <=> HasView(eng))
    BY <1>2, <2>1, <2>5
  <2>7. v \in World /\ v.eng = e /\ v.pages = pages /\ v.bar = b /\ v.page = p
    BY <1>1, <2>1, <2>3, <2>4 DEF World, GoodBar
  <2> HIDE DEF v
  <2>8. Current(v) = Current(Now)
    BY <2>6, <2>7, NowOK DEF Current
  <2>9. Sound(v)
    BY <2>3, <2>4, <2>6, <2>7, <2>8, NowOK DEF Sound, WaysAgree
  <2>10. Names(v)
    BY <2>3, <2>4, <2>7 DEF Names
  <2>11. Agreed(v)
    BY <2>3, <2>4, <2>6, <2>7, <2>8, <2>10, NowOK DEF Agreed, Showing
  <2>12. Locks(v.bar) /\ front' \in BOOLEAN
    BY <2>3, <2>5, <2>7 DEF Inv, Keeps
  <2>13. Inv'
    BY <2>5, <2>7, <2>9, <2>11, <2>12, StepOK DEF Good
  <2>14. Kept
    BY <2>3, <2>5 DEF Keeps, Kept
  <2> QED BY <2>13, <2>14
<1> QED BY <1>4, <1>5, <1>6 DEF CertificateRequested

LEMMA NewWindowStep ==
    ASSUME Inv, NewWindow
    PROVE  Inv' /\ Kept
<1>1. PICK r \in AddTab(Now, Blank) :
        /\ HasView(EngineSwitch(r[2], r[1]).eng)
        /\ Becomes(SwitchViewToWebPage(EngineSwitch(r[2], r[1])))
  BY DEF NewWindow
<1> DEFINE x == EngineSwitch(r[2], r[1])
           w == SwitchViewToWebPage(x)
<1>2. Sound(x) /\ Keeps(bar, x.bar)
  <2>1. CASE r[1] = NoTab
    <3>1. r[1] \notin Ids
      BY <2>1, TabAssumption
    <3>2. r[2] = Now \/ (r[1] \in Tabs(r[2].eng) /\ r[2] \in World)
      BY NowOK, AddTabOK
    <3>3. r[2] \in World => Tabs(r[2].eng) \subseteq Ids
      BY DEF World, EngineState, Tabs
    <3>4. r[2] = Now
      BY <3>1, <3>2, <3>3
    <3>5. r[1] \notin Tabs(Now.eng)
      BY <3>1, NowOK, GoodEngOK
    <3>6. x = Now
      BY <3>4, <3>5 DEF EngineSwitch
    <3> QED BY <3>6, NowOK DEF Keeps
  <2>2. CASE r[1] # NoTab
    BY <2>2, NowOK, EngineSwitchAddedOK
  <2> QED BY <2>1, <2>2
<1>3. HasView(x.eng) /\ Becomes(w)
  BY <1>1
<1> HIDE DEF x
<1>4. Good(w) /\ Keeps(bar, w.bar)
  BY <1>2, <1>3, SwitchViewToWebPageOK DEF Keeps
<1> HIDE DEF w
<1> QED BY <1>3, <1>4, BecomesOK

(* The service is suspended or resumed with the application.               *)
LEMMA AwakeOK ==
    ASSUME Inv, NEW w, Good(w), Keeps(bar, w.bar), front' \in BOOLEAN,
           eng' \in {Suspend(w.eng), Resume(w.eng)},
           pages' = w.pages, bar' = w.bar, page' = w.page
    PROVE  Inv' /\ Kept
<1> DEFINE v == [w EXCEPT !.eng = eng']
<1>1. GoodEng(eng') /\ SameTabs(w.eng, eng')
  BY GoodSuspendOK DEF Good, Sound
<1>2. /\ Good(v) /\ v.bar = w.bar /\ v.eng = eng' /\ v.pages = w.pages /\ v.page = w.page
  BY <1>1, ResumedOK DEF Good
<1> HIDE DEF v
<1>3. Locks(v.bar)
  BY <1>2 DEF Inv, Keeps
<1>4. Inv'
  BY <1>2, <1>3, StepOK
<1>5. Kept
  BY DEF Keeps, Kept
<1> QED BY <1>4, <1>5

LEMMA ExecStep ==
    ASSUME Inv, NEW u \in Urls, NEW search \in BOOLEAN, Exec(u, search)
    PROVE  Inv' /\ Kept
<1> DEFINE v == IF search THEN PopStackTo(Now) ELSE Now
<1>1. PICK w \in OpenNewTab(v, u) :
        eng' = Resume(w.eng) /\ pages' = w.pages /\ bar' = w.bar /\ page' = w.page
  BY DEF Exec
<1>2. Good(v) /\ Keeps(bar, v.bar)
  <2>1. Good(PopStackTo(Now)) /\ Keeps(bar, PopStackTo(Now).bar)
    BY NowOK, ShowUIOK DEF Good
  <2>2. Good(Now) /\ Keeps(bar, Now.bar)
    BY NowOK DEF Keeps
  <2> QED BY <2>1, <2>2
<1> HIDE DEF v
<1>3. w = v \/ (Good(w) /\ Keeps(v.bar, w.bar))
  BY <1>2, OpenNewTabOK DEF Good
<1>4. Good(w) /\ Keeps(bar, w.bar)
  BY <1>2, <1>3 DEF Keeps
<1>5. front' \in BOOLEAN
  BY DEF Exec
<1> QED BY <1>1, <1>4, <1>5, AwakeOK

LEMMA AppStep ==
    ASSUME Inv, AppPause \/ AppResume
    PROVE  Inv' /\ Kept
<1>1. /\ eng' \in {Suspend(Now.eng), Resume(Now.eng)} /\ front' \in BOOLEAN
      /\ pages' = Now.pages /\ bar' = Now.bar /\ page' = Now.page
  BY NowOK DEF AppPause, AppResume
<1>2. Good(Now) /\ Keeps(bar, Now.bar)
  BY NowOK DEF Keeps
<1> DEFINE w == Now
<1>3. /\ eng' \in {Suspend(w.eng), Resume(w.eng)} /\ front' \in BOOLEAN
      /\ pages' = w.pages /\ bar' = w.bar /\ page' = w.page
      /\ Good(w) /\ Keeps(bar, w.bar)
  BY <1>1, <1>2
<1> HIDE DEF w
<1> QED BY <1>3, AwakeOK

LEMMA Initially == Init => Inv
<1> SUFFICES ASSUME Init PROVE Inv
  OBVIOUS
<1>1. /\ eng \in EngineState /\ eng.asleep = {} /\ eng.tabs = {} /\ eng.mode = "NORMAL"
      /\ \A m \in Modes : eng.cur[m] = NoTab
  BY DEF Init, EngineState, Modes
<1>2. pages \in [Ids -> View]
  BY DEF Init, NewPage, View
<1>3. bar \in Bar /\ ~bar.lock /\ bar.icon = "none"
  BY TextsOK DEF Init, Bar
<1>4. page \in Page /\ page.state = "QUICK_ACCESS" /\ front \in BOOLEAN
  BY DEF Init, Page
<1>5. /\ Now \in World /\ Now.eng = eng /\ Now.bar = bar /\ Now.page = page
  BY <1>1, <1>2, <1>3, <1>4 DEF Now, World
<1>6. GoodEng(eng) /\ ~HasView(eng)
  BY <1>1 DEF GoodEng, CurOf, HasView, Cur, Modes
<1>7. GoodBar(bar) /\ Locks(bar)
  BY <1>3 DEF GoodBar, Locks
<1>8. Good(Now)
  BY <1>4, <1>5, <1>6, <1>7 DEF Good, Sound, Agreed, Names, Showing, WaysAgree
<1> QED BY <1>4, <1>7, <1>8 DEF Inv

LEMMA Step ==
    ASSUME Inv, Next
    PROVE  /\ Inv'
           /\ Kept \/ (\E text \in Typable : Typed(text)) \/ RightIconClicked
<1>1. CASE Focused \/ Unfocused \/ EntryClicked
  BY <1>1, EditsStep
<1>2. CASE EditingCompleted
  BY <1>2, EditingCompletedStep
<1>3. CASE RightIconClicked
  BY <1>3, RightIconStep
<1>4. CASE \E text \in Typable : Typed(text)
  BY <1>4, TypedStep
<1>5. CASE BackPage \/ BackOnQuickAccess \/ SwitchToDesktopMode
  BY <1>5, BackStep
<1>6. CASE HomeClicked \/ NewTabClicked
  BY <1>6, HomeStep
<1>7. CASE \E u \in Urls : LinkClicked(u) \/ \E search \in BOOLEAN : Exec(u, search)
  BY <1>7, LinkStep, ExecStep
<1>8. CASE PopView \/ \E view \in {"tabs", "edit", "other"} : PushView(view)
  BY <1>8, ViewsStep
<1>9. CASE \E t \in Ids : TabClicked(t) \/ CloseTabsClicked(t)
  BY <1>9, TabsStep
<1>10. CASE ChangeEngineState
  BY <1>10, ChangeEngineStateStep
<1>11. CASE BackOnPage
  BY <1>11, BackOnPageStep
<1>12. CASE Callback
  <2>1. eng.tabs \subseteq Ids
    BY NowOK DEF EngineState
  <2>2. CASE NewWindow
    BY <2>2, NewWindowStep
  <2>3. ASSUME NEW t \in eng.tabs,
               \/ LoadStarted(t) \/ LoadFinished(t) \/ LoadProgress(t) \/ CloseWindow(t)
               \/ CertificateRequested(t) \/ CertificateAnswered(t)
               \/ \E u \in Urls : UrlChanged(t, u)
               \/ \E w \in SUBSET Ways : BackForwardListChanged(t, w)
        PROVE  Inv' /\ Kept
    <3>1. t \in Ids
      BY <2>1, <2>3
    <3>2. CASE LoadStarted(t) \/ LoadFinished(t) \/ LoadProgress(t)
      BY <3>1, <3>2, LoadSignalStep
    <3>3. CASE CloseWindow(t)
      BY <3>1, <3>3, TabsStep
    <3>4. CASE \E u \in Urls : UrlChanged(t, u)
      BY <3>1, <3>4, UrlChangedStep
    <3>5. CASE \E w \in SUBSET Ways : BackForwardListChanged(t, w)
      BY <3>1, <3>5, WaysChangedStep
    <3>6. CASE CertificateRequested(t) \/ CertificateAnswered(t)
      BY <3>6, CertificateStep
    <3> QED BY <2>3, <3>2, <3>3, <3>4, <3>5, <3>6
  <2> QED BY <1>12, <2>2, <2>3 DEF Callback
<1>13. CASE AppPause \/ AppResume
  BY <1>13, AppStep
<1> QED BY <1>1, <1>2, <1>3, <1>4, <1>5, <1>6, <1>7, <1>8, <1>9, <1>10, <1>11, <1>12, <1>13
     DEF Next

LEMMA Stutter ==
    ASSUME Inv, UNCHANGED vars
    PROVE  Inv' /\ Kept
<1>1. /\ front' = front /\ eng' = eng /\ pages' = pages /\ bar' = bar /\ page' = page
  BY DEF vars
<1>2. Now' = Now
  BY <1>1 DEF Now
<1> QED BY <1>1, <1>2 DEF Inv, Locks, Kept

LEMMA Invariance == Spec => []Inv
<1>1. Inv /\ [Next]_vars => Inv'
  BY Step, Stutter
<1> QED BY Initially, <1>1, PTL DEF Spec

-----------------------------------------------------------------------------
(* The state keeps its shape: each mode has a current tab of its own       *)
(* exactly as long as it has tabs, only tabs there are sleep, and the      *)
(* service keeps this through every way to open, close and switch tabs     *)
(* (WebEngineService.cpp).                                                 *)
THEOREM TypeCorrect == Spec => []TypeOK
<1>1. Inv => TypeOK
  <2> SUFFICES ASSUME Inv PROVE TypeOK
    OBVIOUS
  <2>1. eng.asleep \subseteq eng.tabs /\ \A m \in Modes : CurOf(eng, m)
    BY NowOK DEF GoodEng
  <2>2. \A m \in Modes : IF eng.tabs \cap TabsOf(m) = {} THEN eng.cur[m] = NoTab
                         ELSE eng.cur[m] \in eng.tabs \cap TabsOf(m)
    BY <2>1 DEF CurOf
  <2> QED BY <2>1, <2>2, NowOK DEF TypeOK, Inv
<1> QED BY <1>1, Invariance, PTL

(* Beside a page are its own address, none, or the host it was asked about *)
(* as a certificate was wrong; a lock only for an address that has one; an *)
(* icon that stops loading and a progress bar only while it loads; and no  *)
(* button for a way it cannot go: whatever tabs are opened, closed and     *)
(* switched, whatever views come and go, and whichever page signals what   *)
(* (SimpleUI.cpp, WebPageUI.cpp, URIEntry.cpp).                            *)
THEOREM BesideThePage == Spec => []BarIsOfThePage
<1>1. Inv => BarIsOfThePage
  <2> SUFFICES ASSUME Inv PROVE BarIsOfThePage
    OBVIOUS
  <2>1. NoTab \notin eng.tabs
    BY NowOK, TabAssumption DEF EngineState
  <2>2. Agreed(Now) /\ WaysAgree(Now) /\ GoodBar(bar) /\ Locks(bar)
    BY NowOK DEF Inv, Sound
  <2>3. ASSUME NEW what, InStep(what)
        PROVE  /\ Showing(Now) /\ page.content = Cur(eng) /\ HasView(eng)
               /\ what \notin page.lost /\ Current(Now) = pages[page.content]
    <3>1. Showing(Now) /\ page.content \in eng.tabs /\ what \notin page.lost
      BY <2>3, NowOK DEF InStep, Showing
    <3>2. page.content = Cur(eng)
      BY <3>1, <2>2, NowOK DEF Agreed
    <3> QED BY <2>1, <3>1, <3>2, NowOK DEF HasView, Current
  <2>4. PageAgrees
    BY <2>3 DEF PageAgrees
  <2>5. BarAgrees
    BY <2>2, <2>3, NowOK DEF BarAgrees, Agreed, Names, Locks
  <2>6. IconAgrees
    BY <2>2, <2>3, NowOK DEF IconAgrees, Agreed, GoodBar
  <2>7. ButtonsAgree
    BY <2>2, <2>3, NowOK DEF ButtonsAgree, WaysAgree
  <2> QED BY <2>4, <2>5, <2>6, <2>7 DEF BarIsOfThePage
<1> QED BY <1>1, Invariance, PTL

(* No signal of a page, no tab that opens or closes and no view that is    *)
(* shown changes what the user is typing: changeUri leaves the text of a   *)
(* focused entry alone, and whoever takes the focus away sets the address  *)
(* (URIEntry.cpp).                                                         *)
THEOREM NothingTypesForTheUser == Spec => TypingIsKept
<1>1. Inv /\ [Next]_vars =>
        [bar.focus /\ bar'.focus /\ bar.text # bar'.text
            => (\E text \in Typable : Typed(text)) \/ RightIconClicked]_vars
  BY Step DEF Kept
<1> QED BY <1>1, Invariance, PTL DEF Spec, TypingIsKept
=============================================================================
