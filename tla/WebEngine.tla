----------------------------- MODULE WebEngine -----------------------------
(***************************************************************************)
(* The tab bookkeeping of WebEngineService                                 *)
(* (services/WebEngineService/WebEngineService.cpp) and the part of        *)
(* WebView it drives: which views exist, which one is on screen, which of  *)
(* them run, and which of them have their signals connected.               *)
(*                                                                         *)
(* The service is called from many handlers of the user interface, often   *)
(* several times by one of them, so its operations are operators on the    *)
(* record of its members; module SimpleUI turns handlers into actions.     *)
(***************************************************************************)
EXTENDS Integers, Sequences, FiniteSets, SequencesExt

CONSTANTS
    TabIds,      \* every value a TabId takes in an instance
    NormalIds,   \* the ids the tab adaptor (external) can generate
    SecretSeeds, \* the values the uninitialised m_tabIdSecret may start with
    TabLimit     \* CONFIG_KEY::TAB_LIMIT

ASSUME IdAssumption ==
    /\ TabIds \subseteq Int
    /\ NormalIds \subseteq TabIds \cap Nat
    /\ SecretSeeds \subseteq Int

ASSUME LimitAssumption == TabLimit \in Nat \ {0}

Modes == {"NORMAL", "SECRET"}

Other(m) == IF m = "NORMAL" THEN "SECRET" ELSE "NORMAL"

(* TabId::NONE *)
NoTab == -1

(* TabOrigin: a tab id, or one of the two named values. *)
Unknown     == -1
QuickAccess == -2
IsFromWebView(o) == o >= 0
Origins == TabIds \cup {Unknown, QuickAccess}

(* A WebView is known by the mode it belongs to and its tab id: the two    *)
(* modes number their tabs independently of each other.                    *)
Views  == Modes \X TabIds
NoView == <<"NONE", NoTab>>

(***************************************************************************)
(* The members of the service.                                             *)
(*   mode       m_state (and m_stateStruct, which always follows it)       *)
(*   tabs       the keys of tabs, in each of the two state structures      *)
(*   mru        mostRecentTab                                              *)
(*   cur        currentTabId                                               *)
(*   view       m_currentWebView                                           *)
(*   connected  m_signalsConnected                                         *)
(*   wired      the views whose load and confirmation signals have a slot  *)
(*   awake      the views whose m_suspended is false                       *)
(*   origin     WebView::m_origin, Unknown for a view that is gone         *)
(*   secretId   m_tabIdSecret                                              *)
(***************************************************************************)
EngineState ==
    [mode      : Modes,
     tabs      : [Modes -> SUBSET TabIds],
     mru       : [Modes -> Seq(TabIds)],
     cur       : [Modes -> TabIds \cup {NoTab}],
     view      : Views \cup {NoView},
     connected : BOOLEAN,
     wired     : SUBSET Views,
     awake     : SUBSET Views,
     origin    : [Views -> Origins],
     secretId  : Int]

NewEngine(seed) ==
    [mode      |-> "NORMAL",
     tabs      |-> [m \in Modes |-> {}],
     mru       |-> [m \in Modes |-> <<>>],
     cur       |-> [m \in Modes |-> NoTab],
     view      |-> NoView,
     connected |-> FALSE,
     wired     |-> {},
     awake     |-> {},
     origin    |-> [v \in Views |-> Unknown],
     secretId  |-> seed]

Tabs(e)      == e.tabs[e.mode]
CurrentId(e) == e.cur[e.mode]
TabsCount(e) == Cardinality(Tabs(e))
Live(e)      == {v \in Views : v[2] \in e.tabs[v[1]]}
-----------------------------------------------------------------------------
(***************************************************************************)
(* Suspending and resuming the current view.                               *)
(***************************************************************************)

(* Mutant: the flag is not cleared. *)
DisconnectKeepsFlag(e) == [e EXCEPT !.wired = @ \ {e.view}]

Disconnect(e) ==
    [e EXCEPT !.connected = FALSE, !.wired = @ \ {e.view}]

(* Mutant: the view is put to sleep with its signals connected. *)
SuspendStaysConnected(e) ==
    IF e.view = NoView THEN e ELSE [e EXCEPT !.awake = @ \ {e.view}]

Suspend(e) ==
    IF e.view = NoView
    THEN e
    ELSE [Disconnect(e) EXCEPT !.awake = @ \ {e.view}]

(* connectSignals returns early when the one flag that is kept for all     *)
(* views says that signals are connected.                                  *)
Resume(e) ==
    IF e.view = NoView
    THEN e
    ELSE [e EXCEPT !.connected = TRUE,
                   !.wired     = IF e.connected THEN @ ELSE @ \cup {e.view},
                   !.awake     = @ \cup {e.view}]

IsSuspended(e) == e.view # NoView /\ e.view \notin e.awake

(* Mutant: a page that is shown again is not resumed. *)
ResumeForgotten(e) == e

ResumeIfSuspended(e) == IF IsSuspended(e) THEN Resume(e) ELSE e
-----------------------------------------------------------------------------
(***************************************************************************)
(* Creating, choosing and closing tabs.                                    *)
(***************************************************************************)

(* vector::erase(std::remove(...)): mostRecentTab holds a tab once at most, *)
(* because the only push_back comes right after this.                      *)
Without(s, t) ==
    IF t \in ToSet(s)
    THEN RemoveAt(s, CHOOSE p \in DOMAIN s : s[p] = t)
    ELSE s

(* The destructor of every WebView that neither map holds any longer.      *)
Reap(e) ==
    [e EXCEPT !.wired  = @ \cap Live(e),
              !.awake  = @ \cap Live(e),
              !.origin = [v \in Views |-> IF v \in Live(e) THEN e.origin[v]
                                                           ELSE Unknown]]

(* The ids a new tab may get: in normal mode one the adaptor holds no row  *)
(* for, in secret mode the incremented counter (TabIds bounds it).         *)
NewIds(e) ==
    IF e.mode = "NORMAL"
    THEN NormalIds \ e.tabs["NORMAL"]
    ELSE {e.secretId + 1} \cap TabIds

(* addTab past checkIfCreate: a running view that is not yet current.      *)
AddTab(e, t, o) ==
    [e EXCEPT !.tabs[e.mode]         = @ \cup {t},
              !.origin[<<e.mode, t>>] = o,
              !.awake                = @ \cup {<<e.mode, t>>},
              !.secretId             = IF e.mode = "SECRET" THEN t ELSE @]

(* Mutant: the tab keeps its old place in mostRecentTab as well. *)
MakeCurrentWithoutErase(e, t) ==
    [Suspend(e) EXCEPT !.view        = <<e.mode, t>>,
                       !.cur[e.mode] = t,
                       !.mru[e.mode] = Append(@, t)]

MakeCurrent(e, t) ==
    [Suspend(e) EXCEPT !.view        = <<e.mode, t>>,
                       !.cur[e.mode] = t,
                       !.mru[e.mode] = Append(Without(@, t), t)]

SwitchToTab(e, t) ==
    IF t \notin Tabs(e)
    THEN e
    ELSE Resume(IF t = CurrentId(e) THEN e ELSE MakeCurrent(e, t))

(* Mutant: the closed tab stays in mostRecentTab. *)
ForgetMapOnly(e, t) == [e EXCEPT !.tabs[e.mode] = @ \ {t}]

(* The tab leaves the map and the list of recent tabs. *)
Forget(e, t) ==
    [e EXCEPT !.tabs[e.mode] = @ \ {t}, !.mru[e.mode] = Without(@, t)]

(* closeTab(id) up to the tabClosed signal, which it emits iff id # NoTab. *)
CloseTab(e, t) ==
    LET rest == Forget(e, t)
        last == rest.mru[e.mode]
        next == IF Tabs(rest) = {}
                THEN [Disconnect(rest) EXCEPT !.cur[e.mode] = NoTab,
                                              !.view        = NoView]
                ELSE IF t = CurrentId(e) /\ last # <<>>
                     THEN SwitchToTab(rest, Last(last))
                     ELSE rest
    IN  IF t = NoTab THEN e ELSE Reap(next)

(* Mutant: the current id of the other mode is looked up unconditionally. *)
ChangeStateInserts(e) ==
    LET s == Suspend(e)
        m == Other(e.mode)
    IN  [s EXCEPT !.mode = m, !.view = <<m, s.cur[m]>>,
                  !.tabs[m] = @ \cup {s.cur[m]}]

(* tabs[currentTabId] is operator[]: it would insert an empty entry if the *)
(* current id were not a key.                                              *)
ChangeState(e) ==
    LET s == Suspend(e)
        m == Other(e.mode)
    IN  IF s.tabs[m] = {}
        THEN [s EXCEPT !.mode = m, !.view = NoView]
        ELSE [s EXCEPT !.mode = m, !.view = <<m, s.cur[m]>>,
                       !.tabs[m] = @ \cup {s.cur[m]}]

(* Mutant: the answer goes to the page, which is left suspended. *)
ConfirmationKeepsAsleep(e, t) == e

(* confirmationResult: looks the tab up in the structure of the current    *)
(* mode, and resumes its view whether or not it is the current one.        *)
ConfirmationResult(e, t) ==
    IF t \in Tabs(e)
    THEN [e EXCEPT !.awake = @ \cup {<<e.mode, t>>}]
    ELSE e
-----------------------------------------------------------------------------
(***************************************************************************)
(* What the bookkeeping must satisfy between two handlers.                 *)
(***************************************************************************)

EngineTypeOK(e) == e \in EngineState

(* mostRecentTab lists the tabs of the mode, each of them once. *)
RecentListsTabs(e) ==
    \A m \in Modes : IsInjective(e.mru[m]) /\ ToSet(e.mru[m]) = e.tabs[m]

(* The current tab is the last of mostRecentTab. *)
CurrentIsMostRecent(e) ==
    \A m \in Modes :
        e.cur[m] = IF e.mru[m] = <<>> THEN NoTab ELSE Last(e.mru[m])

(* The current view is the view of the current tab of the current mode. *)
ViewIsCurrent(e) ==
    e.view = IF Tabs(e) = {} THEN NoView ELSE <<e.mode, CurrentId(e)>>

(* The single flag m_signalsConnected tells the truth about every view. *)
SignalsMatchFlag(e) ==
    e.wired = IF e.connected THEN {e.view} ELSE {}

(* Signals are connected only while there is a view to listen to. *)
ListensToAView(e) == e.connected => e.view # NoView

(* No view that was closed is left running or remembered. *)
NoGhosts(e) ==
    /\ e.awake \subseteq Live(e)
    /\ \A v \in Views \ Live(e) : e.origin[v] = Unknown
=============================================================================
