------------------------------- MODULE Startup -------------------------------
(* How the browser comes up: the requests main.cpp passes to SimpleUI::exec,  *)
(* the resume that serves them, and prepareServices, which the first resume   *)
(* runs: services are created through ServiceManager by the main thread and   *)
(* by std::async tasks, their signals are connected by two more tasks, and    *)
(* the main thread initialises them.                                          *)
EXTENDS Integers, Sequences

CONSTANTS Urls,         \* addresses a request may name
          NoUrl,        \* the request names none
          MaxRequests   \* bound: requests

StartupAssumption == NoUrl \notin Urls /\ MaxRequests \in Nat

-----------------------------------------------------------------------------
(* loadUIServices, loadModelServices: first the ones the main thread gets,    *)
(* then the ones it leaves to tasks.                                          *)
UIServices == <<"webpageui", "quickaccess", "historyui", "tabui">>
UITasks == <<"settingsui", "bookmarkflowui", "findonpageui", "bookmarkmanagerui">>
ModelServices == <<"webengineservice", "historyservice", "platforminputmanager">>
ModelTasks == <<"storageservice", "tabservice", "favoriteservice", "certificateservice">>
SignalTasks == <<"connectModelSignals", "connectUISignals">>

SetOf(s) == {s[i] : i \in DOMAIN s}
Services == SetOf(UIServices) \cup SetOf(UITasks) \cup SetOf(ModelServices) \cup SetOf(ModelTasks)
Tasks == SetOf(UITasks) \cup SetOf(ModelTasks) \cup SetOf(SignalTasks)
Threads == Tasks \cup {"main"}

(* A step: what it does, and the services it is about.                        *)
All(do, names) == [i \in DOMAIN names |-> [do |-> do, of |-> names[i]]]

UIConnections == <<"WebPage", "QuickAccess", "Tabs", "History", "Settings",
                   "BookmarkFlow", "FindOnPage", "BookmarkManager">>
ModelConnections == <<"WebEngine", "History", "TabService", "PlatformInput",
                      "Certificate", "Storage">>
Connections == SetOf(UIConnections) \cup SetOf(ModelConnections)

(* The members a connect function reads.                                      *)
Reads(connection) ==
    CASE connection = "WebPage" ->
           {"webpageui", "webengineservice", "favoriteservice", "quickaccess",
            "findonpageui", "settingsui", "certificateservice"}
      [] connection = "QuickAccess" -> {"quickaccess", "webpageui"}
      [] connection = "Tabs" -> {"tabui", "storageservice"}
      [] connection = "History" -> {"historyui"}
      [] connection = "Settings" -> {"settingsui", "webengineservice", "storageservice"}
      [] connection = "BookmarkFlow" -> {"bookmarkflowui"}
      [] connection = "FindOnPage" -> {"findonpageui"}
      [] connection = "BookmarkManager" ->
           {"bookmarkmanagerui", "bookmarkflowui", "historyui", "webengineservice"}
      [] connection = "WebEngine" -> {"webengineservice", "webpageui", "certificateservice"}
      [] connection = "TabService" -> {"tabservice"}
      [] connection = "PlatformInput" -> {"platforminputmanager"}
      [] connection = "Certificate" -> {"certificateservice", "storageservice"}
      [] connection = "Storage" -> {"storageservice", "webengineservice"}

(* initUIServices, initModelServices.                                         *)
UIInits == <<"webpageui", "quickaccess", "tabui", "historyui", "bookmarkflowui",
             "findonpageui", "bookmarkmanagerui">>
ModelInits == <<"webengineservice", "storageservice", "platforminputmanager",
                "certificateservice">>

PrepareServices ==
    All("get", UIServices) \o All("fork", UITasks) \o All("join", UITasks)
      \o All("get", ModelServices) \o All("fork", ModelTasks) \o All("join", ModelTasks)
      \o All("fork", SignalTasks) \o All("join", SignalTasks)
      \o All("init", UIInits) \o All("init", ModelInits)

Program(t) ==
    CASE t = "connectModelSignals" -> All("connect", ModelConnections)
      [] t = "connectUISignals" -> All("connect", UIConnections)
      [] OTHER -> All("get", <<t>>)

-----------------------------------------------------------------------------
VARIABLES libs,       \* the services whose library was loaded
          todo,       \* the steps each thread has left
          lock,       \* the thread inside getService, or none
          created,    \* how often each service was created
          cache,      \* the cache of getService
          members,    \* the members of SimpleUI that are set
          slots,      \* how often each group of signals was connected
          initWith,   \* the services that are initialised
          app,        \* the process: its place in the life cycle, m_initialised
          request,    \* the requests made; the one in m_functionViewPrepare
          opened      \* how often each request's address was opened

vars == <<libs, todo, lock, created, cache, members, slots, initWith, app, request, opened>>
Preparing == <<todo, lock, created, cache, members, slots, initWith>>

Requests == 1 .. MaxRequests

TypeOK ==
    /\ libs \subseteq Services
    /\ lock \subseteq Threads
    /\ created \in [Services -> Nat]
    /\ cache \subseteq Services /\ members \subseteq Services
    /\ slots \in [Connections -> Nat]
    /\ initWith \subseteq Services
    /\ app \in [at : {"created", "resuming", "resumed", "paused", "ended", "crashed"},
                initialised : BOOLEAN, restored : BOOLEAN]
    /\ request \in [made : Seq(Urls \cup {NoUrl}), slot : {0} \cup Requests,
                    alreadyOpened : BOOLEAN, due : {0} \cup Requests]
    /\ opened \in [Requests -> Nat]

(* findServiceLibs and loadServiceLibs; at most one library cannot be loaded. *)
Init ==
    /\ libs \in {Services} \cup {Services \ {s} : s \in Services}
    /\ todo = [t \in Threads |-> <<>>]
    /\ lock = {}
    /\ created = [s \in Services |-> 0]
    /\ cache = {} /\ members = {} /\ initWith = {}
    /\ slots = [c \in Connections |-> 0]
    /\ app = [at |-> "created", initialised |-> FALSE, restored |-> FALSE]
    /\ request = [made |-> <<>>, slot |-> 0, alreadyOpened |-> FALSE, due |-> 0]
    /\ opened = [r \in Requests |-> 0]

Crash ==
    /\ app' = [app EXCEPT !.at = "crashed"]
    /\ todo' = [t \in Threads |-> <<>>]
    /\ UNCHANGED <<libs, lock, created, cache, members, slots, initWith, request, opened>>

-----------------------------------------------------------------------------
(* The next step of a thread.                                                 *)
Does(t, do) == todo[t] # <<>> /\ Head(todo[t]).do = do
Of(t) == Head(todo[t]).of
Advance(t) == todo' = [todo EXCEPT ![t] = Tail(@)]

Lifecycle == <<libs, app, request, opened>>

(* ServiceManager::getService: the guard, the cache and create(), the return. *)
LockTaken(t) ==
    /\ Does(t, "get") /\ lock = {}
    /\ lock' = {t}
    /\ UNCHANGED <<todo, created, cache, members, slots, initWith>> /\ UNCHANGED Lifecycle

Created(t) ==
    /\ Does(t, "get") /\ lock = {t} /\ Of(t) \notin cache
    /\ Of(t) \in libs
    /\ created' = [created EXCEPT ![Of(t)] = @ + 1]
    /\ cache' = cache \cup {Of(t)}
    /\ UNCHANGED <<todo, lock, members, slots, initWith>> /\ UNCHANGED Lifecycle

(* servicesMap has no factory of that name: create is called on a null one.   *)
NoFactory(t) ==
    /\ Does(t, "get") /\ lock = {t} /\ Of(t) \notin cache
    /\ Of(t) \notin libs
    /\ Crash

Returned(t) ==
    /\ Does(t, "get") /\ lock = {t} /\ Of(t) \in cache
    /\ lock' = {}
    /\ members' = members \cup {Of(t)}
    /\ Advance(t)
    /\ UNCHANGED <<created, cache, slots, initWith>> /\ UNCHANGED Lifecycle

GetService(t) == LockTaken(t) \/ Created(t) \/ NoFactory(t) \/ Returned(t)

(* Mutant: the main thread goes on without future::get.                       *)
NotWaited ==
    /\ Does("main", "join")
    /\ Advance("main")
    /\ UNCHANGED <<lock, created, cache, members, slots, initWith>> /\ UNCHANGED Lifecycle

(* std::async and future::get.                                                *)
Fork ==
    /\ Does("main", "fork")
    /\ todo' = [todo EXCEPT !["main"] = Tail(@), ![Of("main")] = Program(Of("main"))]
    /\ UNCHANGED <<lock, created, cache, members, slots, initWith>> /\ UNCHANGED Lifecycle

Join ==
    /\ Does("main", "join")
    /\ todo[Of("main")] = <<>>
    /\ Advance("main")
    /\ UNCHANGED <<lock, created, cache, members, slots, initWith>> /\ UNCHANGED Lifecycle

(* A connect function asserts on a member that is not set;                    *)
(* connectSettingsSignals initialises the settings too.                       *)
Connected(t) ==
    /\ slots' = [slots EXCEPT ![Of(t)] = @ + 1]
    /\ initWith' = IF Of(t) = "Settings" THEN initWith \cup {"settingsui"} ELSE initWith
    /\ Advance(t)
    /\ UNCHANGED <<lock, created, cache, members>> /\ UNCHANGED Lifecycle

Connect(t) ==
    /\ Does(t, "connect")
    /\ IF Reads(Of(t)) \subseteq members THEN Connected(t) ELSE Crash

(* The engine is given the content webPageUI made in its own init.            *)
InitService ==
    /\ Does("main", "init")
    /\ Of("main") \in members
    /\ initWith' = initWith \cup {Of("main")}
    /\ Advance("main")
    /\ UNCHANGED <<lock, created, cache, members, slots>> /\ UNCHANGED Lifecycle

PrepareStep ==
    \/ \E t \in Threads : GetService(t) \/ Connect(t)
    \/ Fork \/ Join \/ InitService

-----------------------------------------------------------------------------
MainIdle == todo["main"] = <<>>

(* main's app_control and SimpleUI::exec: the function replaces the one that  *)
(* waits for the next resume.                                                 *)
Exec(url) ==
    /\ app.at \in {"created", "paused", "resumed"}
    /\ Len(request.made) < MaxRequests
    /\ request' = [request EXCEPT !.made = Append(@, url),
                                  !.slot = Len(request.made) + 1,
                                  !.alreadyOpened = FALSE]
    /\ UNCHANGED <<libs, app, opened>> /\ UNCHANGED Preparing

(* SimpleUI::resume calls m_functionViewPrepare; the window shows after the   *)
(* first request.                                                             *)
Resume ==
    /\ app.at \in {"created", "paused"}
    /\ request.slot # 0
    /\ app' = [app EXCEPT !.at = "resuming"]
    /\ todo' = [todo EXCEPT !["main"] = IF app.initialised THEN <<>> ELSE PrepareServices]
    /\ request' = [request EXCEPT !.due = request.slot]
    /\ UNCHANGED <<libs, lock, created, cache, members, slots, initWith, opened>>

(* The rest of the function: the last session, or the address, once.          *)
Url == request.made[request.slot]

Served ==
    /\ app.at = "resuming" /\ MainIdle
    /\ app' = [app EXCEPT !.at = "resumed", !.initialised = TRUE,
                          !.restored = @ \/ (~app.initialised /\ Url = NoUrl)]
    /\ IF Url # NoUrl /\ ~request.alreadyOpened
       THEN /\ opened' = [opened EXCEPT ![request.slot] = @ + 1]
            /\ request' = [request EXCEPT !.alreadyOpened = TRUE]
       ELSE UNCHANGED <<opened, request>>
    /\ UNCHANGED libs /\ UNCHANGED Preparing

Pause ==
    /\ app.at = "resumed"
    /\ app' = [app EXCEPT !.at = "paused"]
    /\ UNCHANGED <<libs, request, opened>> /\ UNCHANGED Preparing

(* app_terminate: destroyUI uses m_webEngine, which the first resume sets.    *)
Terminate ==
    /\ app.at \in {"created", "paused", "resumed"}
    /\ app' = [app EXCEPT !.at = IF "webengineservice" \in members THEN "ended" ELSE "crashed"]
    /\ UNCHANGED <<libs, request, opened>> /\ UNCHANGED Preparing

MainStep == PrepareStep \/ Served

Next == \/ MainStep \/ Resume \/ Pause \/ Terminate
        \/ \E u \in Urls \cup {NoUrl} : Exec(u)

(* While a thread can go on, some thread does: no more is asked of the         *)
(* scheduler, nor of who gets a lock.                                         *)
Fairness == WF_vars(MainStep)

Spec == Init /\ [][Next]_vars /\ Fairness

-----------------------------------------------------------------------------
(* The service manager makes one of each service, whichever threads ask, and  *)
(* what is in its cache was created (ServiceManager.cpp, getService).         *)
OneOfEach ==
    \A s \in Services : created[s] = IF s \in cache THEN 1 ELSE 0

(* When the first resume is served every member is set and initialised and    *)
(* every group of signals connected, whatever the order of the tasks; a       *)
(* process in which all libraries were found never reads a null member.       *)
NeverInitialised == {"historyservice", "tabservice", "favoriteservice"}
ReadyWhenServed ==
    /\ app.initialised =>
         /\ members = Services
         /\ initWith = Services \ NeverInitialised
         /\ \A c \in Connections : slots[c] >= 1
    /\ (libs = Services /\ app.at = "crashed") => members = {}

(* A resume opens the address of the last request before it, once: later      *)
(* resumes call the same function again and do not open it again.             *)
OpensOnce ==
    /\ \A r \in Requests : opened[r] <= 1
    /\ (app.at = "resumed" /\ request.made[request.due] # NoUrl) => opened[request.due] = 1

(* Coming up ends: the tasks the main thread waits for do not wait for it.    *)
ComesUp == app.at = "resuming" ~> app.at \in {"resumed", "crashed"}

StartsRight == [](OneOfEach /\ ReadyWhenServed /\ OpensOnce) /\ ComesUp
=============================================================================
