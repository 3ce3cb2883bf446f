# A verification project for the Tizen browser

TLA+ models of the browser's C++ sources (`src/core`, `src/services`), the TLC
configurations that check them on small instances, and TLAPS proofs of what matters most for
every value of the constants.

## 1. The system

The browser is one process with one GUI thread (the EFL main loop). Services are singletons
found by name through `ServiceManager`; `SimpleUI::connect*Signals` wires them together with
boost signals. Threads appear in two places only: `std::async` tasks at start-up
(`SimpleUI::prepareServices`), and the rendering processes, which the browser sees through
callbacks of the web engine library (external). A third, the worker threads of
`core/Tools/WorkQueue.h`, is a tool without a user: `WebView.cpp` includes the header, and
nothing calls `parallel_for_each` at this commit. What makes the code hard is therefore not parallelism but the order of handlers:
a touch, the hardware back key, an application life-cycle event, the answer to a popup and a
callback of a page come in any order, and each updates state in several services. Most of
that state is a *copy*: the grid of the tab manager is a copy of the tabs, the address bar
of the page, the manager's list of the database, a switch of the engine's settings. A copy
goes stale when one handler too few refreshes it.

| Part | State it keeps | Operations | Talks to | Hard behaviour |
|---|---|---|---|---|
| `SimpleUI` (shell), `ViewManager`, `main.cpp` | stored start request, view stack, services | life cycle, handlers of every view, start-up | all services by calls and signals | handlers written for one view run while another is on top; tasks that make services at once |
| popups (`Popup/*`) | a vector of popups, the layouts on screen | show, dismiss, answer, back key | shell | popups that open and delete each other from their own callbacks |
| `WebEngineService` | two tab maps, recent lists, current ids, current view, one signal flag, secret id counter, settings | add, switch, close tab, change mode, suspend, resume, confirmations, settings | `WebView`, shell | several members that must agree after every branch |
| `WebView` | suspended, loading, origin, pending decisions, a vibration motor shared by all | load callbacks, window requests, policy decisions, menus, downloads | web engine library | callbacks after a tab or mode change |
| `WebPageUI`, `URIEntry` | state of the view, main content, the bar's copies of the page | type, enter, focus, load, show | shell | signals of a page come unheard while it is disconnected; the user types meanwhile |
| `QuickAccess`, `EditQuickAccessUI` | two grids, what is ticked, state of editing | add, edit, delete, show | shell, history, storage | one widget shown by two views; ticks kept apart from boxes |
| `TabUI`, `PasswordUI` | items shown, mode, password dialogue | tap, close, change mode | shell, settings storage | items are a copy of the tabs; half-finished dialogues |
| `TabService` | thumbnail cache; rows in the web-provider database (external) | save, load, remove, restore | shell | ids of two modes in one table, late snapshots, termination |
| `BookmarkService`, `BookmarkManagerUI`, `BookmarkFlowUI` | rows (external); the folder shown, ticks, a pending order; the add view | add, edit, delete, move, share | shell | one manager object in two roles, a copy kept beside the rows |
| `HistoryService`, `HistoryUI` | rows (external); genlist, ticks | visit, redirect, forget, expand, tick, Done | shell, quick access | ticks filed under addresses of widgets that are freed and reused |
| `StorageService` | sqlite connections, transactions, folders | statements, scopes, start | settings, bookmarks, certificates | any statement may fail; transactions end in destructors |
| `CertificateContents` | verdicts of hosts in a map and in rows | ask, remember, view, lock icon | shell, storage | verdicts, questions and rows must name the same host |
| `SettingsUI/*` | pages of settings, what is ticked, the auto-fill profile | change, reset, clear, edit a profile | storage, engine | each choice is kept in four places |
| `FindOnPageUI` | word, counter, index | type, next, previous, close | engine | answers carry no word and come late |
| `DownloadControl`, policy callbacks, menu, vibration | file names, a motor and its timer | download, launch, vibrate | applications (external) | names that run out, devices shared by pages |
| `WorkQueue` | inputs, results, two mutexes | run workers, join | no caller at this commit | the only hand-written locking |

External to `src/` are EFL (widgets, the main loop), the web engine library behind
`WebView`, the `bp_*_adaptor_*` C functions that keep tabs, bookmarks and history, sqlite,
and the application framework that calls `app_create`, `app_control`, `app_resume`,
`app_pause` and `app_terminate`. They are modelled from how the code uses them.
`CMakeLists.txt` builds with `DUMMY_BUTTON=1`, `GESTURE=0` and `PWA=0`: what is compiled out
is left out.

Per component, what makes it correct:

| Part | Properties |
|---|---|
| shell, web engine service, web view | the structures about tabs agree; a page on screen is alive; the limit holds on every path; answers reach the page that asked; going back finds the opener |
| start-up | each service is made once, all is ready when the first request is served, a request is opened once, coming up ends |
| popups | the vector and the screen agree: no popup twice, none that was deleted, in stacking order |
| page view | what is beside a page is of that page; typed text is not overwritten |
| tab manager, password view | the button says what it does; a password is changed, removed or passed only by who knows it; no half-finished dialogue or half-written setting breaks that |
| tab service | a closed tab never comes back, a saved one is only forgotten when a tab of its id closes, a restored one has the origin it had |
| bookmarks | the manager's copy of a folder follows the rows, ticks are of what is listed, a dragged order is written |
| history, quick access | one entry per address and day, lists and grids follow the rows, only what was ticked goes, the most visited entries are on screen |
| certificates | a host with a wrong certificate is never shown as secure; who went on is not asked again |
| settings, personal data | four copies of a choice agree; what was deleted is gone from views and forms |
| find bar | the counter is in range and of the word on the page on screen |
| storage | folders made once, no transaction left open, every call ends |
| requests of pages | what was said to be saved stays; one timer stops the motor |
| work queue | every input once, none lost, nothing added after the results were read, it returns |

## 2. Plan

| Step | Modules | State |
|---|---|---|
| 1 | `WebEngine` (operators), `SimpleUI` over it, `RecentTabs` as what it promises, proofs | done |
| 2 | `TabService` over `WebEngine` | done |
| 3 | `WorkQueue` and proofs | done |
| 4 | `SecretMode`, `SecretGate` as what it promises, proofs of the refinement | done |
| 5 | `Bookmarks` | done |
| 6 | `PageView`: the address bar, loading, buttons | done |
| 7 | `History`, `QuickAccess`, `PersonalData`: views that are copies of lists | done |
| 8 | `FindOnPage`, `Settings`, `Certificates`, `Dialogs`, `PageRequests` | done |
| 9 | `Startup`, `Storage` with their liveness | done |
| 10 | theorems about steps 1 to 8 | done |
| 11 | safety of `Startup` and `Storage` (their liveness stays with TLC) | not done; model-checked |

Runs are few. A component that shares state with others has a run of its own; components
that share none are composed by `Lists`, `Services` and `MCSystem`, in whose runs the
initial state chooses which one moves (section 4).

## 3. Modules

| Module | Stands for | Kind |
|---|---|---|
| `WebEngine` | members of `WebEngineService` and the part of `WebView` it drives | operators on a record |
| `SimpleUI` | shell, view stack, questions, page view, callbacks of pages | state machine over `WebEngine` |
| `RecentTabs` | the promise: two lists in order of use | abstract specification |
| `TabService` | rows, thumbnails and snapshots of tabs | state machine over `WebEngine` |
| `SecretMode` | tab manager buttons, password view, two settings | state machine |
| `SecretGate` | the promise of the password | abstract specification |
| `Bookmarks` | the tree, the manager, the add view and the shell's handlers between them | state machine |
| `PageView` | address bar, loading, buttons, full screen, and what keeps them in step with the page | state machine |
| `QuickAccess` | both grids, the editing view, the table of links, visits | state machine |
| `History` | rows of the history and the list that shows them and deletes from them | state machine |
| `PersonalData` | what is ticked, asked and cleared; the auto-fill profile and its views | state machine |
| `Settings` | the engine's map, pages, views and rows; the home page; where downloads go | state machine |
| `FindOnPage` | the find bar, searches on their way, late answers | state machine |
| `Certificates` | the map of hosts, its rows, questions, the lock icon | state machine |
| `Dialogs` | the vector of popups and their layouts on screen | state machine |
| `PageRequests` | policy decisions, downloads, vibration, menus | state machine |
| `Startup` | `main.cpp`, `prepareServices` with its tasks, `ServiceManager` | state machine with fairness |
| `Storage` | connections, transactions, retries, and the folders kept with them | state machine with fairness |
| `WorkQueue` | `core/Tools/WorkQueue.h` with its threads | state machine with fairness |
| `Lists` | `History`, `QuickAccess` and `PersonalData` side by side | composition |
| `Services` | `FindOnPage`, `Settings`, `Certificates`, `Dialogs`, `PageRequests` and `SecretMode` side by side | composition |
| `WebEngineProofs` | a lemma per operation of `WebEngine` | proofs |
| `SimpleUIProofs`, `TabServiceProofs` | theorems about the two machines over `WebEngine` | proofs |
| `PageViewProofs`, `BookmarksProofs`, `WorkQueueProofs`, `ListsProofs`, `ServicesProofs` | theorems about the module they are named after | proofs |
| `MCSimpleUI`, `MCTabService`, `MCBookmarks`, `MCPageView`, `MCLists`, `MCServices` | values of constants and state constraints | instances |
| `MCSystem` | `Startup` and `Storage` in one run | instance |

### How state and actions correspond to the code

**One handler, one action.** Everything but start-up and the work queue runs on the main
loop, so a handler is atomic; nested synchronous signals (`tabClosed` inside `closeTab`,
say) are operators applied in the order in which the code calls the slots. What interleaves
is handlers. `WebEngine` is written as operators because one handler often calls several of
its methods: `TabClicked` of `SimpleUI` is `switchToTab`, then the page view, then the view
stack. A handler that posts to the main loop (the find bar's entry, snapshots, certificate
questions) is two actions.

**`WebEngine`.** The record `eng` has one field per member: `m_state`, the keys of the two
`tabs` maps, `mostRecentTab`, `currentTabId`, `m_currentWebView`, `m_signalsConnected` and
`m_tabIdSecret`; and three sets over views that are members of the `WebView` objects: which
have their signals connected, which are not suspended, and the origin of each. A view is
named by mode and id, as the ids of the modes overlap. `Reap` is the destructor of a
`WebView` that no map holds any longer.

**`SimpleUI`.** `phase` and `request` are the life cycle and the functor
`m_functionViewPrepare`; restoring a session is one action per tab, because page callbacks
may not yet come but each tab passes the limit by itself. `stack` is the view stack, `items`
the copy of the tabs in the tab manager's grid, `popups` the questions, `pending` the views
waiting for a certificate decision. Touches (`Touchable`) need the view on top and no popup;
`BackKey` actions are the branches of `onBackPressed`; `PageCallback` actions may come at
any time while the process runs.

**`TabService`.** `rows` is the adaptor's table, `thumbs` is `m_thumbMap`, `shots` the
asynchronous snapshots on their way. A tab that opens, loads, closes or is shown runs all
the slots the shell connects to that signal. `Terminate` clears all but `rows`. `Start` opens
the saved tabs in one step: `Restored` is the service after the loop of
`restoreLastSession`, as a recursive function of the tabs opened so far, which the limit may
stop.

**`SecretMode`.** `tabState` is `TabUI::m_state`, `state`, `action` and `unconfirmed` the
members of `PasswordUI`. The two handlers that write both settings are split in two actions,
since the process may end between the writes. Everything that leads to the page is
`LeaveTabUI`.

**`Bookmarks`.** `store` is the adaptor's table. `mgr` has the members of
`BookmarkManagerUI`: state, folder path, `m_added_bookmarks`, the genlist with its reorder
mode, `m_reordered`, ticks and their count; `mgr.shown` is for the properties only. `flow`
has those of `BookmarkFlowUI`. There is one manager object for two roles, so opening it as a
folder picker goes through `changeState` with what the last visit left. Following a
`nullptr` ends the process (`Die`), and `Restart` keeps the table.

**`PageView`.** `pages` are the `WebView`s: address, `m_isLoading`, where they can go. `bar`
is `URIEntry` with the progress bar and the buttons; `page` is `m_statesMgr`, the main
content and the top of the view stack. The tabs are those of `WebEngine` in short. A
`Callback` of a page that is not connected changes the page and not the bar; `page.lost`
remembers, for the properties only, which kinds of signal went unheard, `"page"` being a
page that another tab has replaced without the view's being told, and `"host"` that a
certificate question has put the host of an address in the bar since. `CertificateRequested`
suspends the view and asks, `CertificateAnswered` resumes it. What a user types is a text or
stands for a conversion of `rewriteURI`.

**`QuickAccess`.** `grid` and `most` are the items of the two gengrids, `ticked` the boxes,
`list` is `m_mv_delete_list`, whose elements say whether their item is still one of the
grid's. What is ranked is an entry of the history, of which a page has one for every day it
was visited: `entries` has each one's page, whether it is of today, and its own count.
`VisitedAgain` is `isDuplicate` and `VisitedFirst` the rest of `addHistoryItem`. `Fetched`
is what the adaptor may answer, `Round` one turn of the loop over the frequencies in
`HistoryService`, and `MostVisited` all of them.

**`History`.** `list` is the genlist: which entries are under which heading, which headings
are open, at which address an item was allocated and whether its box is ticked. `known` is
`m_itemsToDelete` and `m_visitItemData`, which outlive the items. Contracting frees items,
expanding makes new ones at any free address.

**`PersonalData`.** `option` is `m_option`, `box` the check boxes the genlist made from it
(scrolling makes them again), `creator` the two `SettingsAFCreator` views, which are kept.

**`Settings`.** Each `saved \in BOOLEAN` is whether the row can be written; a write that
fails is an exception nobody catches. `missed` and `chosen` are for the properties.

**`FindOnPage`.** `asks` are the searches a page has not answered; `TextFound` answers the
oldest. `stray` is set when the answer of a search that was given up has reached the
counter, for the properties only.

**`Certificates`.** `hostCert` is the map, `rows` the table, `questions` the popups. `wrong`
and `continued` are for the properties.

**`Dialogs`.** A text or input popup makes a new layout each time it is shown; `layouts` is
the stack of them on screen, with the popup each calls, whether it is the one that popup
knows, and whether the popup is gone.

**`PageRequests`.** `load` is what each page's load waits for; `files` the names taken in
each folder; `motor` and `timers` are `m_haptic_handle`, `m_haptic_timer_id` and the timers
of the main loop.

**`Startup`.** Each thread has its list of steps (`todo`); `getService` takes its lock,
looks into its cache and creates the service in separate steps. Tasks start when the main
thread starts them and it waits for them where the code calls `get`.

**`Storage`.** `disk` and `work` are the rows committed and those in the transaction. A call
of `FoldersStorage` is a list of transactions (`job`), each begun, run and ended by a step
that may fail, be retried because the file is held (`held`), or be cut short by `Kill`.

**`WorkQueue`.** One action per access to shared memory: taking the lock, the test for
emptiness, reading the last input, removing it, and so on. The set of inputs whose worker
throws is chosen at the start.

## 4. What is checked

| Run | Instance | Shows | States |
|---|---|---|---|
| `core` | two ids a mode, two tabs a mode, one restored tab, one popup, failing adaptor, pages that close themselves | `TabsAgree`, `SignalsAgree`, `PageIsLive`, `OtherModeUntouched`, `LeavingSuspends`, and that the shell implements `RecentTabs` | 170,000 |
| `certificates` | normal mode, two popups, certificate questions | `AnswerReachesItsView`, `HiddenTabsStayAsleep` | 259,000 |
| `limit` | normal mode, limit of three, four ids, four rows to restore, nothing fails | `LimitKept`, `PageExists`, `BackReturnsToOpener` | 1,287,000 |
| `stale_tap` | one tab, pages close themselves | `PageExists` fails (finding) | |
| `tab_rows` | two normal ids and two secret ones, of which one is shared; two tabs a mode, one snapshot at a time | `ClosedTabsStayClosed`, `SavedUntilClosed`, `RestoredAsSaved` | 918,000 |
| `bookmarks` | two entries, two addresses, two titles, paths of three folders | `ListIsCurrent`, `TickedAreListed`, `DragsReachTheStore` | 358,000 |
| `page_view` | three tabs, one address and its host, three texts | `BarIsOfThePage`, `TypingIsKept` | 157,000 |
| `lists` | `History`, `QuickAccess`, `PersonalData` | `TypeOK`, `OneRowPerDay`, `GridIsCurrent`, `ShowsTheMostVisited`, `OnlyTickedGo`, `ForgetsWhatWasDeleted` | 581,000 |
| `services` | `FindOnPage`, `Settings`, `Certificates`, `Dialogs`, `PageRequests`, `SecretMode` | `FindBarIsRight`, `ChoicesAreKept`, `CertificatesAgree`, `PopupsInOrder`, `RequestsAreServed`, `ButtonTellsMode`, `SecretIsDecided`, `StoredIsAcceptable`, and that `SecretMode` implements `SecretGate` | 1,170,000 |
| `system` | `Startup`, `Storage` | `StartsRight`, `StorageIsSound`, both with liveness | 119,000 |
| `work_queue` | three threads, four inputs, any of which throw | `EachInputOnce`, `NothingLost`, `ReturnedIsFinal`, `Returns` | 39,800 |

### Several components in one run

The components of `lists`, `services` and `system` share no state with each other. Module
`Lists`, `Services` or `MCSystem` holds the variables of all, instantiates each component's
module and has a variable that says which of them moves. The initial state chooses it; the
others keep their initial values, or are empty. A behaviour of the run is thus a behaviour of
one component, with the properties that component's module defines, and the number of states
is the *sum* of theirs. The proofs are about `Lists` and `Services` themselves, for every
value of their constants.

### Bounds, and why they are enough

- **Two tabs a mode** (`core`, `certificates`). The branches of `closeTab`, `switchToTab`
  and `changeState` tell apart no tab, one, and more than one with the current one first or
  last in `mostRecentTab`. Two ids a mode reach all of these, a tab that is gone while an
  item or a callback still names it, and the same id in both modes. An opener that is
  neither the current nor the next tab needs three tabs, and a tab beyond the limit a fourth
  id: run `limit`.
- **Popups and restored tabs** (`MaxPopups`, `MaxRestored`) bound what the user and the
  database may supply. Handlers look at the last popup only, so two show what a popup under
  another one does.
- **State constraints of the shell.** `ExecWhenPaused` leaves out requests that come while
  the application is in the foreground: `Exec` only fills a slot that the next resume reads.
  `NoQuestions` (`core`) leaves certificate questions to `certificates`, and pauses over the
  page and the tab manager only; `certificates` pauses anywhere. `OneMode` keeps
  `certificates` and `limit` in the normal mode. The proofs of section 6 need none of these.
- **`SecretSeeds`.** `m_tabIdSecret` is uninitialised, so every seed is a start value the
  program can have. In `core` the seed 0 makes the ids of the two modes overlap, the hard
  case for everything that looks a tab up by id. `tab_rows` uses the seed 1 with the normal
  ids 1 and 2: the first secret tab has the id of a normal one, whose row its closing
  removes (section 5), the second has an id of its own. The proofs cover every seed.
- **`NewIds`** assumes of the adaptor that it never generates the id of an open normal tab.
  An origin that was stored by a session with more tabs may be an id that is not open.
- **Texts** of the password: blank, too short, two acceptable texts that collide and an
  acceptable one apart. A proof covers all texts and hash functions.
- **Bookmarks**: two ids reach a folder in a folder, a bookmark beside or in a folder, two
  bookmarks to swap, and the full database. `MaxPath` bounds the navigator, `MaxQuick = 0`
  stops where a quick access item was stored, after the step that stores it. `VIEW Live`
  joins states that differ only in what is overwritten before it is read.
- **`tab_rows`**: two tabs at most, so that a session can meet the limit and then goes on
  with the current tab. Two rows at most can be restored, so that the limit never stops the
  restoring; one snapshot at a time is on its way, as each is stored for itself. The proofs
  cover any limit and any number.
- **Page view**: three tabs, one that closes, one used last and one that opened it: an
  opener that was not used last is where the page view loses step (section 5). With the
  home page and the empty address one more address tells an old one from a new one.
  `Few` lets one page at a time load, or have somewhere to go, or be anywhere but at
  that address, or wait for an answer about its certificate, or one kind of signal go
  unheard; there is none of these, and no typing, with three tabs, and none while the
  entry keeps the focus behind another view or application. The proof covers the rest. Every address has the same host. `Typable`
  is the empty text, one that names the home page and one that becomes a search: the
  other texts differ only in the address they become. The ids are alike (symmetry).
- **History**: two rows over two of the five days reach two rows of one address on two days,
  a heading that is empty and one that is not, and the deletion of either; three addresses
  for items let an address be used again, by the same row or by the other.
- **Quick access**: one link; three entries of which two are shown, visited twice at most, so
  that the order matters, ties and entries that are struck out happen, and one page may have
  entries of two or three days. `Few` keeps one entry that is visited twice, one that was
  ticked, entries of earlier days of one page, and with three entries one of today at most,
  no link and no tab; the proof covers the rest.
- **Personal data**: two names, two profiles made; two of the items scroll; pages fill one
  store, as the stores are cleared alike.
- **Find bar**: two pages, two documents, a word of too many bytes, a word with none, some,
  or too many matches (-1 from the engine), two unanswered searches a page.
- **Settings**: a box of the first view that is off by default, one of another view that is
  on.
- **Certificates**: two hosts, a certificate that can be parsed and one that cannot, two
  questions at a time.
- **Popups**: four addresses, five layouts: each kind over and under each other one.
- **Requests**: names `download` to `download_2` of which the last is beyond the limit; one
  page.
- **Start**: three requests. **Storage**: the two folders the browser makes and one of the
  user's, three ids, one retry; the two uninitialised ids hold 1, the id of a row that may
  be there.
- **Work queue**: fewer threads than inputs, so that threads return for more, and enough
  throwing inputs to end them all; the proofs cover every number.

### Fairness

Weak fairness, of the steps that the operating system or the running call take:

- `Returns` (`WorkQueue`): the caller and every thread. A thread waiting for the mutex gets
  it because between two turns of the others an input is used up.
- `StartsRight` (`Startup`): `WF_vars(MainStep)`, where `MainStep` is a step of *any*
  thread: some thread that can go on does. Nothing is said of which, nor of who gets a lock.
- `StorageIsSound` (`Storage`): `WF_vars(Step)`: a call that is running goes on. The
  connection that holds the file need never let go: the call gives up after
  `SQL_RETRY_COUNT`.

Nothing of this kind holds of users, pages, the engine or applications, which need not act.
That a page waiting for a certificate decision is ever asked is *not* guaranteed by the
code: the question is dropped when the signals are disconnected meanwhile
(`SimpleUI!CertificateRequest`), and no document promises otherwise.

Deadlock is checked but in `work_queue` and `system`, where things end: the call returns,
the process ends or crashes.

### Mutants

Each property of each passing run has a mutant: an operator, next to the definition it would
replace and marked so, that is that definition with a plausible mistake. With it in place
TLC finds the property violated in the same run.

## 5. What the modelling disagrees with

**`stale_tap`** (a run that must fail). `WebPageUI::setMainContent` asserts that there is
content. When a page closes its own window while the tab manager is shown, the grid keeps
its item; tapping it shows the page view without a page.

The rest are observations made while translating; no run is spent on them. Where a property
would contradict one, the property excepts it, as its comment says.

*Tabs and pages.*

- The secret counter (`WebEngineService.cpp:517`) starts uninitialised: its successor may be
  `TabId::NONE`, and then the first secret tab is created but never switched to. `closeTab`
  closes the last tab of a mode, although `AbstractWebEngine.h:220` says it should not.
- The opener of a new window is the tab that is current when the request is delivered
  (`WebView.cpp:995`), not the page that asked.
- Secret tabs never get a row, yet closing one removes the row of its id
  (`TabService.cpp:179`), which may be that of an open normal tab, as the uninitialised
  counter lets the ids of the modes meet: the next session forgets that tab.
  `SavedUntilClosed` excepts just this, the closing of a tab of the same id in the other
  mode. A snapshot is filed under the tab that is current when it is delivered
  (`SimpleUI.cpp:1211`), not the one it shows (`TabService.h:69`).
- The item that goes when a tab is closed in the tab manager is the one the grid has
  selected (`TabUI.cpp:577`), which need not be that of the tab. `CloseTabsClicked` removes
  any: an item may be left whose tab is gone, and a tab without an item. Tapping such an item
  shows another page, but not none: a tab is then left (`GridHasTabs`, section 6).
- There are two ways to set the first password (`TabUI.cpp:369`), and one of them does not
  record that the user has decided: the choice is offered again, and "do not use" drops the
  password unasked.
- `disconnectSignals` leaves `snapshotCaptured`, `setCertificatePem`,
  `setWrongCertificatePem` and `favIconChanged` connected. The "load,stop" callback has no
  handler.

*Page view.*

- `exec` with an address, over the view that edits quick access, leaves `m_statesMgr` at
  `QUICK_ACCESS` over a web page after Cancel.
- `loadFinished` focuses the dummy button, so that typing is lost; `TypingIsKept` is about
  what happens while the entry has the focus. An empty entry and Enter leave an empty bar.
- The bar keeps a typed address when the adaptor gives no id for its tab. `hideUI` says that
  a loading page has finished. `AppResume` on quick access connects the page again.
- Back and forward stay disabled after quick access and the back key, and after each
  `showUI` in secret mode.
- `WebPageUI::m_desktopMode` is uninitialised, and one for all tabs; `m_fullscreen` survives
  the page that was full screen; `m_wvIMEStatus` can stay true, after which the back key
  does nothing.
- A question about a certificate puts the host of the address that is *loading* in the bar
  (`SimpleUI.cpp:1659`), without scheme or path, over a page that may still be another; no
  answer takes it out, so that after "Back to safety" it stays until the page's next signal
  or its next showing. `BarIsOfThePage` allows that host and nothing else. What is displayed
  of it lacks its first two characters: `clearURL` adds the length of `"://"` to `npos`
  (`GeneralTools.h:51`).
- Hiding the page view hides the find bar, whose `m_isVisible` stays true.
- The back key on a page closes its tab, which shows the page used before it, and then
  switches to the opener without telling the view (`WebEngineService.cpp:906`). When the
  opener is not the page used last, the screen keeps the other page, beside the address of
  the opener. `PageAgrees` excepts it; that the exception is the only one came out of the
  proof, for which two tabs were not enough to see it.

*Bookmarks, history, quick access.*

- The same address can be bookmarked twice: the view decides when it opens that the page has
  none, and `addBookmark` ignores the database's answer (`BookmarkService.cpp:99`), where
  `ut_FavoriteService.cpp:96` expects an empty item. `deleteBookmark(url)` returns the
  opposite of what `AbstractFavoriteService.h` says, and its caller asks for the opposite.
- After a bookmark was moved by editing it, the manager shows another folder than the end of
  its path. Deleting that folder and making a new one leaves an orphan, and renaming it
  follows a `nullptr` (`SimpleUI.cpp:1171`; one way to `Die`).
- Deleted items and the old order come back on the screen after Share, which is filled from
  `m_added_bookmarks` (`BookmarkManagerUI.cpp:528`). The box for quick access survives the
  back key, and acts unseen when the next bookmark is edited (`BookmarkFlowUI.cpp:455`). A
  folder that the database refuses is listed as an empty item (`SimpleUI.cpp:1055`).
- The most visited pages are entries of the history, one for a page and day
  (`HistoryService.cpp:96`, `:187`): a page visited on two days is shown twice, its visits
  are not added up, and deleting it among the most visited forgets the visits of one day.
- `m_isSelectAllChecked` of the history survives the box: Done then deletes all that is
  listed, whatever is ticked. The history's signals are connected twice, `historyDeleted`
  never.

*Settings and personal data.*

- `m_popup` of the settings dangles after the back key, and the callback for the memory card
  is never removed.
- The home page's marker "CurrentPage" is taken off any address that holds it. The radio of
  the current page goes stale.
- A setting is applied to the pages of the current mode only (`missed`).
- `resetSettings` writes strings under `SCRIPTS_CAN_OPEN_PAGES`.
- The kept auto-fill view that edits can edit a profile that is no more. Cache, cookies and
  passwords are not cleared while there are no tabs. `LOCATION` clears nothing. Boxes that
  are scrolled away come back as the map says.

*Find bar.* Late answers overwrite the counter (`stray`); the same word typed again sets the
index to one without a search.

*Certificates and popups.*

- A page in an insecure context marks its host as allowed without a question; a valid
  certificate does not make it secure again; the lock icon of a host without a row writes
  `UNKNOWN`. When the rows cannot be read at the start, a click on the lock writes
  `HOST_ABSENT`.
- The view of a certificate reads `m_genlist` and `m_hostType` uninitialised, and deletes
  the genlist twice.
- A text or input popup that is shown again leaves its old layout on screen, whose callbacks
  outlive it; "dismiss closes a popup" (`AbstractPopup.h:57`) is true of the newest only.
  `_response_cb` dereferences `end()`. A notification deletes the layout of a content popup.
  The lambda of a radio popup captures a pointer that dangles.

*Requests of pages.* The policy callback for a response returns undecided when `app_control`
fails, and the load hangs (`WebView.cpp:1791`). `m_loadingURL` is overwritten by schemes
that are handled elsewhere, so that a later question may name the wrong host.
`getStorageType` returns a dangling pointer. The menus for mail and telephone are chosen by
the address of the *image*. A file that the media database refuses is said to have failed
and stays.

*Start and storage.*

- `connectHistorySignals` is called by both tasks, `connectHistoryServiceSignals` by none.
  Ending before the first resume uses a null `m_webEngine`. Of two requests before a resume
  the first is lost (`SimpleUI.cpp:240`). A first start with an address never restores the
  session.
- A statement that cannot be prepared ends the process by an assertion. `AllFolder` and
  `SpecialFolder` are read uninitialised when the folders could not be made. A number that
  cannot be read counts as 0. A rollback that fails leaves the transaction open.
  `addNumberInFolder` is never called.
- `SQL_RETRY_TIME_US` is 100000 and slept in *milli*seconds (`SQLDatabase.cpp:47`): each
  retry of a held file stops the main loop for 100 seconds. `Storage` has retries but no time.
- The map of `DriverManager` is filled without a lock; at this commit one task does so, the
  one that makes `StorageService`, whose members open all databases.

## 6. What is proved

Every theorem holds for all values of the constants that satisfy the named assumptions.

**Shell: structures** (`SimpleUIProofs` over `WebEngineProofs`). `TypeCorrect`,
`TabsAlwaysAgree`, `SignalsAlwaysAgree`, `OtherModeIsUntouched`, for any sets of ids, any
tab limit, seed and faults, under `NoneIsNoTab`: no tab has the id `TabId::NONE`. The
assumption is needed: see the first observation above. The invariant is `Inv == TypeOK /\
EngineOK(eng) /\ StartOK`. Its parts are inductive only together: that `changeState` inserts
no tab needs the current id of the *other* mode to be a key of its map
(`CurrentIsMostRecent`), which closing a tab preserves only if `mostRecentTab` lists exactly
the tabs, each once (`RecentListsTabs`); and the one signal flag stays right because the
current view is that of the current tab (`ViewIsCurrent`). `StartOK` adds that no id is
taken when its row of the last session is restored. `WebEngineProofs` has one lemma per
operation of the engine, and in `EngineStep` every handler of the shell is reduced to a
chain of these. `RecentTabsImplemented` proves the refinement of `RecentTabs`: what a handler
does to the list of the current mode is at most one of opening, using and closing a tab
(`OneStep`), although going back from a page's tab closes one and then switches to another,
and the page that is shown is the one the list puts last (`TheList`).

**Shell: which pages run** (`SimpleUIProofs`, second part). `PageIsAlwaysLive`,
`LeavingAlwaysSuspends`, `HiddenTabsAlwaysSleep`, `LimitAlwaysKept`, `BackAlwaysReturns` and
`AnswersReachTheirView`, under the same assumption. An operation is `Orderly` if it follows
the bookkeeping (`Follows`), wakes at most the view it leaves current and only heard
(`Tame`), and adds one tab at most, below the limit (`Grows`); these compose, so a handler is
orderly if what it calls is. `HandlerStep`
says of every handler that it is orderly, an answer to a question, or a change of mode, and
what it does to the page on screen. The invariant `LInv` has seven parts. `PageIsLive` is not
inductive because an answer resumes its page although another view may be on top by then:
`QuestionsOverPages` says it cannot be, which in turn needs `PopupsInOrder` (nothing lies
below the warning about secret mode, so leaving that leaves no question behind). Going to a
page through the tab manager is safe because its grid names only open tabs, but over a page
(`GridIsFresh`): where `stale_tap` happens, no page is shown that sleeps. A change of mode
shows a page that no one has to resume because the views of the other mode sleep
(`AsleepElsewhere`). Going back returns to the opener because no tab counts as opened by
itself (`NoOwnOpener`), so that closing it leaves the opener open. An answer finds its view
because the mode only changes with no question open (`AsksIn`): with no popup
at all, or past the warning about secret mode, and only the current view is listened to.

`PageAlwaysExists` is about `PageExists` and assumes `Faults = {}`: the adaptor generates an
id when asked, and no page closes itself. Both are needed: the run `stale_tap` shows the
second, and a new window without an id is shown as a page that is not there. The invariant
adds that the mode has a tab whenever the page view shows pages (`PageIsATab`) and that the
grid of the tab manager, when it is on top, names only tabs there are, or leaves one out
(`GridHasTabs`): closing a tab may take another's item, and then a tab is left over.

**Password** (`ServicesProofs`). The type invariant, `ButtonTellsMode`, `SecretIsDecided`,
`StoredIsAcceptable`, and the refinement `KeepsThePromise`. The strengthening says which
text can be behind an unconfirmed hash, that the first-time dialogue is only left open while
nothing is decided or its view is not on screen, and what holds between the two writes of a
handler.

**Tab rows** (`TabServiceProofs` over `WebEngineProofs`). `ClosedForGood`, `SavedTillClosed`
and `RestoredWhereItWas`, with `TypeCorrect`, for any ids, seed, limit, pictures and number
of snapshots on their way, under `NoneIsNoTab`. The invariant `Inv` says that the engine is
right, that normal tabs have ids of the adaptor and secret ones ids above the seed (`IdsOK`),
that a row with a page has an id of the adaptor *also between sessions*, and that no tab is
open then. `SavedTillClosed` holds for every seed, as the property names the closing of a tab
of that id in either mode: `removeTab` is the only writer that takes a page from a row, and
it is called with the id of a tab that has just gone. Restoring is a loop, written as a recursive function; that each tab it
opens has a page, and the origin of its row, is proved by the least number of tabs for which
it would fail (`RestoredOK`), one turn being `OneMoreSaved`.

**Page view** (`PageViewProofs`). `BesideThePage` (`BarIsOfThePage`),
`NothingTypesForTheUser` (`TypingIsKept`) and `TypeCorrect`, for any tabs, addresses and
ways, with pages that ask about certificates at any time. `BarIsOfThePage` is not inductive, and worse, it does not even hold between the
operations of one handler: the address of a new page is in the bar while the old page is
still shown. So there are two notions for a record of engine, pages, bar and page view
(`Now`): `Sound`, which each operation keeps, and `Agreed`, which showing a page brings about
and every handler ends with; `Good` is both. `Keeps` says what an operation may do to the
bar: the entry keeps its text as long as it keeps the focus, and the lock stays one of the
address (`Locks`). There is a lemma for each operation, and every handler is a chain of them.

**Views that copy lists** (`ListsProofs`). Under the assumptions the three modules make.

- *History*: `NoSecondRow`, and of `NothingElseGoes` the part that only ticked entries go.
  Ticks are kept in a map under addresses of items that are freed and used again, so the
  invariant relates the three: an item on the list and the map know the same entry
  (`SameEntries`), what is listed is under an open heading (`Shown`), what is marked is of an
  entry the user ticked (`GoodKnown`), and no id is on the list that the rows have yet to
  give (`Below`).
- *Quick access*: `GridAlwaysCurrent`, `MostVisitedShown` and the other part of
  `NothingElseGoes`. The grid is current because the menu that adds a page is never open over
  quick access while there is a tab (`AddMenuIsOfPage`). `MostVisitedShown` is about the grid
  on screen: `FillsOrHides` says of every handler that it fills the grid from the history as
  it is, or leaves quick access out of sight, or leaves grid and history alone. That the
  service's loop finds the most visited entries is proved round by round. What is left
  (`LeftOK`) are the frequencies that are not struck out, none larger than what was picked;
  what is shown (`ShownOK`) is in order and has all that was struck out with visits;
  `RoundOK` keeps both, and no round is first to break them (`MostVisitedOK`). Of the
  adaptor's answer only the `LIMIT` is used, that no entry left out has more visits than one
  that is in it; in which order they come is left open.
- *Personal data*: `DeletedStaysDeleted`. There is one profile and the view knows its id
  (`OneKnown`), and each of the two kept views is only used where it fits what is stored
  (`CreatorsFit`).

**Services** (`ServicesProofs`). Under the assumptions the modules make, the password above
and:

- *Find bar*: `CountsTheRightPage`. Whether a count is right is only settled when the last
  answer is in; the invariant says what is true before: the last search on its way is for the
  bar's word on the page on screen, pages that are not on screen have only searches that were
  given up (`OthersAreOld`), and without a word nothing is counted (`NoWordOK`).
- *Certificates*: `HostsAreRemembered`, with writes that fail and restarts. The strengthening
  says that a host with a wrong certificate is not a *new* one either (`WrongIsKnown`), as
  new hosts are stored as secure, and that the table has one row of a host (`OneRow`), so
  that what a restart reads is what was written.
- *Settings*: `ChoicesAlwaysKept`, with writes that fail and processes that end anywhere. The
  table has one row for the home page (`OneHome`), and the popup that offers the memory card
  is open only over the view that listens to the card, and only while it is in
  (`CardIsHeard`).
- *Popups*: `PopupsAlwaysInOrder`. `PopupsInOrder` is inductive with what it does not say of
  layouts whose popup is gone or has a newer one: no popup knows them (`Stacked`), and the
  layouts that are known are those of the popups that have one (`Covers`). A dismissal can
  show the popup below again, so the invariant is of a record (`GoodScreen`) that the nested
  calls hand on.
- *Requests of pages*: `SavedAndStopped`. A name that is free is found by the least number
  (`Least`), so a download never takes the name of a file that the user was told of.

**Bookmarks** (`BookmarksProofs`). `ListCurrent` (`ListIsCurrent`), `TickedListed`
(`TickedAreListed`) and the action property `DragsStored` (`DragsReachTheStore`), for any
addresses, titles and number of ids, and with neither the bound on the navigator's path nor
`MaxQuick`. There is one manager object whose list is a copy of a folder, and it is on the
view stack as a list, above or below the add view, or as a folder picker, or not at all. So
the invariant `Inv` says which stacks there are and what the flow and the manager's state are
in each (`StackFits`): the add view is above the manager only to edit, over a list in its
default state, and a manager above the add view picks a folder. Wherever the manager is on the stack, what it
lists agrees with the table (`Agree`) and nothing of its folder is missing (`Whole`), in
`m_added_bookmarks` too, as Share fills the list from that. Of a manager that was left,
little may be assumed, but a dragged order is pending in it: it has each item once, and the
order an item remembers is the one of its row, or 0 (`Listed`). That is why writing an order
only where it differs from the one remembered still writes all of it (`WrittenOrderOK`). Both
the rows of a folder and what is left of a list are sets put in an order (`InOrder`), and
`RankOK` and `InOrderOK` say that each rank is that of one element.

**Work queue** (`WorkQueueProofs`). `WorkedOnOnce`, `ReturnedStays`, `NoResultMissing`. The
strengthening says who holds the lock in which step, where an input is (vector, hand, result
or thrown), and that each thread that ended by an exception has used up an input of its own,
which with fewer throwing inputs than threads leaves a thread that saw the vector empty.

Only model-checked: `Returns`, `StartsRight` and `StorageIsSound`, which are or contain
liveness, out of the prover's reach.

## 7. What is not modelled

Left out for good: layout, themes and gestures; icons, pixels and blobs; parsing of
certificates (OpenSSL); configuration and logging; widgets; progressive web apps (compiled
out).

- **The list of addresses under the bar** (`UrlHistoryList`) is dead at this commit: the
  signal that would open it, `URIEntry::uriEntryEditingChangedByUser` (`URIEntry.cpp:222`),
  is connected to nothing. With it go the keyword search of `HistoryService` and
  `StringTools`.
- **Shell**: rotation, the input method, and popups that only inform, beyond their place in
  the vector.
- **Web view**: snapshots and favicons as pictures, permissions of pages (each opens a popup
  and answers once), and authentication.
- **Page view**: colours, levels of progress, titles.
- **Tab service**: icons beyond the rows they create, and failing calls of the adaptor.
- **Bookmarks**: titles as text, pictures, `updateBookmarkItemSnapshot`,
  `deleteAllBookmarks`.
- **Storage**: the typed getters and setters of a row are one value each; the table of
  folders stands for the tables, as it is the one that uses every operation. `DriverManager`
  has one connection.
- **Settings**: the user agent, and what the settings do inside the engine.
- **Downloads**: the transfer and the media database, which are other processes.
