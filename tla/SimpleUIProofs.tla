--------------------------- MODULE SimpleUIProofs ---------------------------
(***************************************************************************)
(* What holds of the shell for any number of tabs, any limit and any       *)
(* popups: its types, that the tab structures and the signal connections   *)
(* agree after every handler, and that it implements RecentTabs; and then  *)
(* which pages run: the current page does, hidden ones do not, and neither *)
(* mode has more tabs than the limit; going back finds the opener, answers *)
(* reach their views, and the page on screen exists.                       *)
(***************************************************************************)
EXTENDS SimpleUI, WebEngineProofs, FiniteSetTheorems

(* The tabs of the last session are restored into the engine as it was     *)
(* built, so no id is taken when its row is reached.                       *)
StartOK ==
    /\ phase = "off" => eng.mode = "NORMAL" /\ eng.tabs["NORMAL"] = {}
    /\ phase = "restoring" =>
          /\ eng.mode = "NORMAL"
          /\ IsInjective(toRestore)
          /\ ToSet(toRestore) \cap eng.tabs["NORMAL"] = {}

(* The inductive invariant.  TabsAgree alone is not inductive: what a      *)
(* handler leaves depends on the signal flag, on closed views being gone,  *)
(* on the secret counter, and on the ids still to be restored.             *)
Inv == TypeOK /\ EngineOK(eng) /\ StartOK

-----------------------------------------------------------------------------
(***************************************************************************)
(* The shared pieces of the handlers, for an engine that is right.         *)
(***************************************************************************)

LEMMA AddTabsOK ==
    ASSUME NoneIsNoTab, NEW e, EngineOK(e), NEW o \in Origins,
           NEW r \in AddTabs(e, o)
    PROVE  /\ Follows(e, SwitchToTab(r.eng, r.id))
           /\ r.id \in {NoTab, CurrentId(e)} => Follows(e, r.eng)
<1>1. CASE r.eng = e
  BY <1>1, SwitchOK, FollowsReflexive
<1>2. ASSUME NEW t \in NewIds(e), r = [id |-> t, eng |-> AddTab(e, t, o)]
      PROVE  Follows(e, SwitchToTab(r.eng, r.id)) /\ r.id \notin {NoTab, CurrentId(e)}
  <2>1. t \in TabIds \ Tabs(e) /\ (e.mode = "SECRET" => t = e.secretId + 1)
    BY <1>2, NewIdsFacts
  <2>2. Follows(e, SwitchToTab(AddTab(e, t, o), t))
    BY <2>1, OpenOK
  <2>3. t # NoTab /\ t # CurrentId(e)
    BY <2>1, NewIsNotCurrent DEF NoneIsNoTab
  <2> QED BY <1>2, <2>2, <2>3
<1>3. \/ r.eng = e
      \/ \E t \in NewIds(e) : r = [id |-> t, eng |-> AddTab(e, t, o)]
  BY DEF AddTabs
<1> QED BY <1>1, <1>2, <1>3

LEMMA OpenNewTabOK ==
    ASSUME NoneIsNoTab, NEW e, EngineOK(e), NEW o \in Origins,
           NEW r \in OpenNewTab(e, o)
    PROVE  Follows(e, r.eng)
<1>1. PICK q \in AddTabs(e, o) :
          r = IF q.id = NoTab
              THEN [eng |-> q.eng, shown |-> FALSE]
              ELSE [eng |-> SwitchToTab(q.eng, q.id), shown |-> TRUE]
  BY DEF OpenNewTab
<1>2. r.eng = IF q.id = NoTab THEN q.eng ELSE SwitchToTab(q.eng, q.id)
  BY <1>1
<1> QED BY <1>2, AddTabsOK

LEMMA AfterTabClosedOK ==
    ASSUME NEW e, EngineOK(e)
    PROVE  Follows(e, AfterTabClosed(e))
  BY FollowsReflexive, ResumeIfSuspendedOK DEF AfterTabClosed

(* closeTab with what its tabClosed signal runs. *)
LEMMA ClosedOK ==
    ASSUME NEW e, EngineOK(e), NEW t
    PROVE  Follows(e, AfterTabClosed(CloseTab(e, t)))
<1>1. Follows(e, CloseTab(e, t))
  BY CloseOK
<1>2. Follows(CloseTab(e, t), AfterTabClosed(CloseTab(e, t)))
  BY <1>1, AfterTabClosedOK DEF Follows
<1> QED BY <1>1, <1>2, FollowsTransitive

(* An operation after a step that is right is right. *)
LEMMA ThenOK ==
    ASSUME NEW e, NEW f, Follows(e, f)
    PROVE  /\ Follows(e, Suspend(f))
           /\ Follows(e, Resume(f))
           /\ Follows(e, ResumeIfSuspended(f))
           /\ \A t : Follows(e, SwitchToTab(f, t))
<1>1. EngineOK(f)
  BY DEF Follows
<1>2. Follows(f, Suspend(f)) /\ Follows(f, Resume(f)) /\ Follows(f, ResumeIfSuspended(f))
  BY <1>1, SuspendOK, ResumeOK, ResumeIfSuspendedOK
<1>3. \A t : Follows(f, SwitchToTab(f, t))
  BY <1>1, SwitchOK
<1> QED BY <1>2, <1>3, FollowsTransitive
-----------------------------------------------------------------------------
(* Taking the first of a list without duplicates. *)
LEMMA HeadAndTail ==
    ASSUME NEW S, NEW s \in Seq(S), s # <<>>
    PROVE  /\ Head(s) \in ToSet(s) /\ Head(s) \in S
           /\ Tail(s) \in Seq(S)
           /\ ToSet(Tail(s)) \subseteq ToSet(s)
           /\ IsInjective(s) => /\ IsInjective(Tail(s))
                                /\ Head(s) \notin ToSet(Tail(s))
<1>1. /\ Len(s) \in Nat \ {0} /\ Head(s) = s[1]
      /\ Tail(s) \in Seq(S) /\ Len(Tail(s)) = Len(s) - 1
      /\ \A i \in 1 .. Len(s) - 1 : Tail(s)[i] = s[i + 1]
  OBVIOUS
<1>2. 1 \in 1 .. Len(s) /\ \A i \in 1 .. Len(s) - 1 : i + 1 \in 1 .. Len(s) /\ i + 1 # 1
  BY <1>1
<1> DEFINE u == Tail(s)
<1> HIDE DEF u
<1>3. /\ u \in Seq(S) /\ Len(u) = Len(s) - 1
      /\ \A i \in 1 .. Len(s) - 1 : u[i] = s[i + 1]
  BY <1>1 DEF u
<1>4. Head(s) \in ToSet(s) /\ Head(s) \in S
  BY <1>1, <1>2 DEF ToSet
<1>5. ToSet(u) \subseteq ToSet(s)
  BY <1>2, <1>3 DEF ToSet
<1>6. ASSUME IsInjective(s)
      PROVE  IsInjective(u) /\ Head(s) \notin ToSet(u)
  <2>1. \A i, j \in 1 .. Len(s) : s[i] = s[j] => i = j
    BY <1>6 DEF IsInjective
  <2>2. ASSUME NEW i \in 1 .. Len(u), NEW j \in 1 .. Len(u), u[i] = u[j]
        PROVE  i = j
    <3>1. s[i + 1] = s[j + 1] /\ i + 1 \in 1 .. Len(s) /\ j + 1 \in 1 .. Len(s)
      BY <2>2, <1>2, <1>3
    <3>2. i + 1 = j + 1
      BY <3>1, <2>1
    <3> QED BY <3>2
  <2>3. \A i \in 1 .. Len(u) : u[i] # Head(s)
    BY <1>1, <1>2, <1>3, <2>1
  <2>4. DOMAIN u = 1 .. Len(u)
    BY <1>3
  <2>5. IsInjective(u)
    BY <2>2, <2>4 DEF IsInjective
  <2>6. Head(s) \notin ToSet(u)
    BY <2>3, <2>4 DEF ToSet
  <2> QED BY <2>5, <2>6
<1> QED BY <1>3, <1>4, <1>5, <1>6 DEF u
-----------------------------------------------------------------------------
(***************************************************************************)
(* The engine after each handler.                                          *)
(***************************************************************************)

(* Every handler that does not change the mode leaves the engine right and *)
(* the tabs of the other mode alone.                                       *)
LEMMA EngineStep ==
    ASSUME NoneIsNoTab, Inv, Next
    PROVE  Follows(eng, eng') \/ eng' = ChangeState(eng)
<1>1. EngineOK(eng) /\ eng \in EngineState /\ Follows(eng, eng)
  BY FollowsReflexive DEF Inv, EngineOK, Consistent, EngineTypeOK
<1>2. CurrentId(eng) \in Origins /\ Unknown \in Origins /\ QuickAccess \in Origins
  BY <1>1 DEF Origins, Unknown, NoTab, CurrentId, EngineState
<1>3. Follows(eng, Suspend(eng)) /\ Follows(eng, Resume(eng))
  BY <1>1, SuspendOK, ResumeOK
<1>4. Follows(eng, ResumeIfSuspended(eng))
  BY <1>1, ResumeIfSuspendedOK
<1>5. ASSUME NEW o \in Origins, NEW r \in OpenNewTab(eng, o)
      PROVE  Follows(eng, r.eng) /\ Follows(eng, Resume(r.eng))
  BY <1>1, <1>5, OpenNewTabOK, ThenOK
<1>6. ASSUME NEW r \in {"launch", "url", "search"}, Exec(r)
      PROVE  Follows(eng, eng')
  BY <1>1, <1>6 DEF Exec
<1>7. ASSUME NEW rows \in Sessions, Launch(rows)
      PROVE  Follows(eng, eng')
  BY <1>3, <1>7 DEF Launch
<1>8. ASSUME NEW o \in Origins \ {0}, RestoreTab(o)
      PROVE  Follows(eng, eng')
  <2>1. CASE AtLimit(eng)
    BY <1>1, <1>8, <2>1, SwitchOK DEF RestoreTab
  <2>2. CASE ~AtLimit(eng)
    <3> DEFINE t == Head(toRestore)
    <3>1. t \in TabIds \ Tabs(eng) /\ eng.mode = "NORMAL"
      <4>1. toRestore \in Seq(NormalIds) /\ toRestore # <<>>
        BY <1>8 DEF RestoreTab, Inv, TypeOK
      <4>2. t \in ToSet(toRestore) /\ t \in NormalIds
        BY <4>1, HeadAndTail
      <4> QED BY <1>8, <4>2, IdAssumption DEF RestoreTab, Inv, StartOK, Tabs
    <3>2. eng' = SwitchToTab(AddTab(eng, t, o), t)
      BY <1>8, <2>2 DEF RestoreTab
    <3> QED BY <1>1, <3>1, <3>2, OpenOK
  <2> QED BY <2>1, <2>2
<1>9. CASE FinishLaunch
  BY <1>3, <1>9 DEF FinishLaunch
<1>10. CASE ResumeWithUrl
  BY <1>2, <1>5, <1>10 DEF ResumeWithUrl
<1>11. CASE AppResume
  BY <1>3, <1>11 DEF AppResume
<1>12. CASE AppPause
  BY <1>3, <1>12 DEF AppPause
<1>13. CASE OpenURL
  BY <1>2, <1>4, <1>5, <1>13 DEF OpenURL
<1>14. CASE HomeClicked
  BY <1>2, <1>3, <1>5, <1>14 DEF HomeClicked, ShowHomePage
<1>15. CASE NewTabClicked
  BY <1>1, <1>2, <1>3, <1>5, <1>15 DEF NewTabClicked
<1>16. CASE BackPage
  BY <1>4, <1>16 DEF BackPage
<1>17. CASE ShowTabUI \/ CloseView
  BY <1>1, <1>17 DEF ShowTabUI, CloseView
<1>18. ASSUME NEW v \in {"passwordUI", "other"}, PushView(v)
       PROVE  Follows(eng, eng')
  BY <1>1, <1>18 DEF PushView
<1>19. CASE ChangeEngineState \/ SwitchToSecretFirstTime
  BY <1>19 DEF ChangeEngineState, SwitchToSecretFirstTime
<1>20. ASSUME NEW t \in TabIds, TabClicked(t)
       PROVE  Follows(eng, eng')
  BY <1>1, <1>20, SwitchOK DEF TabClicked
<1>21. ASSUME NEW t \in TabIds, CloseTabsClicked(t)
       PROVE  Follows(eng, eng')
  BY <1>1, <1>21, ClosedOK DEF CloseTabsClicked, EngineBecomes
<1>22. CASE BackFromView \/ BackOnPage \/ ViewCertificate \/ DismissPopup
            \/ OnFirstSecretMode
  BY <1>1, <1>22
  DEF BackFromView, BackOnPage, ViewCertificate, DismissPopup, OnFirstSecretMode
<1>23. CASE BackFromQuickAccess
  BY <1>4, <1>23 DEF BackFromQuickAccess
<1>24. CASE BackToOpener
  <2>1. eng' = SwitchToTab(AfterTabClosed(CloseTab(eng, CurrentId(eng))),
                           eng.origin[eng.view])
    BY <1>24 DEF BackToOpener, EngineBecomes
  <2> QED BY <1>1, <2>1, ClosedOK, ThenOK
<1>25. CASE BackToQuickAccess
  <2>1. eng' = Suspend(AfterTabClosed(CloseTab(eng, CurrentId(eng))))
    BY <1>25 DEF BackToQuickAccess, EngineBecomes
  <2> QED BY <1>1, <2>1, ClosedOK, ThenOK
<1>26. ASSUME NEW v \in Views, NewWindowRequest(v)
       PROVE  Follows(eng, eng')
  <2>1. PICK r \in AddTabs(eng, CurrentId(eng)) :
           eng' = IF r.id = CurrentId(eng)
                  THEN r.eng
                  ELSE ResumeIfSuspended(SwitchToTab(r.eng, r.id))
    BY <1>26 DEF NewWindowRequest
  <2>2. /\ Follows(eng, SwitchToTab(r.eng, r.id))
        /\ r.id = CurrentId(eng) => Follows(eng, r.eng)
    BY <1>1, <1>2, AddTabsOK
  <2> QED BY <2>1, <2>2, ThenOK
<1>27. ASSUME NEW v \in Views, CloseWindowRequest(v)
       PROVE  Follows(eng, eng')
  BY <1>1, <1>27, ClosedOK DEF CloseWindowRequest, EngineBecomes
<1>28. ASSUME NEW v \in Views, NEW allowed \in BOOLEAN, CertificateRequest(v, allowed)
       PROVE  Follows(eng, eng')
  <2> DEFINE asked == [eng EXCEPT !.awake = @ \ {v}]
  <2>1. eng.awake \ {v} \subseteq Live(eng)
    BY <1>1 DEF EngineOK, NoGhosts
  <2>2. Follows(eng, asked)
    BY <1>1, <2>1, AwakeOK
  <2>3. Follows(eng, ConfirmationResult(asked, v[2]))
    BY <2>2, ConfirmationOK, FollowsTransitive DEF Follows
  <2>4. eng' = asked \/ eng' = ConfirmationResult(asked, v[2])
    BY <1>28 DEF CertificateRequest
  <2> QED BY <2>2, <2>3, <2>4
<1>29. CASE CertificateAnswered
  BY <1>1, <1>29, ConfirmationOK DEF CertificateAnswered
<1> QED
  BY <1>6, <1>7, <1>8, <1>9, <1>10, <1>11, <1>12, <1>13, <1>14, <1>15, <1>16,
     <1>17, <1>18, <1>19, <1>20, <1>21, <1>22, <1>23, <1>24, <1>25, <1>26,
     <1>27, <1>28, <1>29
  DEF Next, LifeCycle, Touch, BackKey, PageCallback
-----------------------------------------------------------------------------
(***************************************************************************)
(* Types, and the ids still to be restored.                                *)
(***************************************************************************)

LEMMA PopupsOK ==
    ASSUME TypeOK, CheckIfCreate
    PROVE  popups' \in Seq(PopupSet)
<1>1. Popup("limit", NoView) \in PopupSet
  BY DEF Popup, PopupSet
<1>2. popups \in Seq(PopupSet)
  BY DEF TypeOK
<1>3. Append(popups, Popup("limit", NoView)) \in Seq(PopupSet)
  BY <1>1, <1>2
<1> QED BY <1>2, <1>3, Zenon DEF CheckIfCreate

LEMMA StackOK ==
    ASSUME TypeOK, stack # <<>>
    PROVE  Front(stack) \in Seq(UIViews)
<1>1. Len(stack) \in Nat \ {0} /\ stack \in Seq(UIViews)
  BY DEF TypeOK
<1>2. SubSeq(stack, 1, Len(stack) - 1) \in Seq(UIViews)
  <2>1. 1 \in 1 .. Len(stack) + 1 /\ Len(stack) - 1 \in 1 - 1 .. Len(stack)
    BY <1>1
  <2> QED BY <1>1, <2>1, SubSeqProperties
<1> QED BY <1>2 DEF Front

LEMMA FrontOfPopups ==
    ASSUME TypeOK, popups # <<>>
    PROVE  Front(popups) \in Seq(PopupSet) /\ Last(popups) \in PopupSet
<1>1. Len(popups) \in Nat \ {0} /\ popups \in Seq(PopupSet)
  BY DEF TypeOK
<1>2. SubSeq(popups, 1, Len(popups) - 1) \in Seq(PopupSet)
  <2>1. 1 \in 1 .. Len(popups) + 1 /\ Len(popups) - 1 \in 1 - 1 .. Len(popups)
    BY <1>1
  <2> QED BY <1>1, <2>1, SubSeqProperties
<1>3. Len(popups) \in 1 .. Len(popups)
  BY <1>1
<1> QED BY <1>1, <1>2, <1>3 DEF Front, Last

LEMMA PopTheStackOK ==
    ASSUME TypeOK, NEW e, e \in EngineState, stack # <<>>, PopTheStack(e)
    PROVE  stack' \in Seq(UIViews) /\ items' \subseteq TabIds
<1>1. Tabs(e) \subseteq TabIds
  BY DEF Tabs, EngineState
<1> QED BY <1>1, StackOK DEF PopTheStack, TypeOK

(* A handler of the lowest view: what is left on the stack is that view.   *)
LEMMA PopToWebPageOK ==
    ASSUME TypeOK, PopToWebPage
    PROVE  stack' \in Seq(UIViews) /\ items' \subseteq TabIds
  BY DEF PopToWebPage, UIViews, TypeOK

(* The types of everything but the engine. *)
TypeOKButEngine ==
    /\ phase \in {"off", "restoring", "foreground", "paused"}
    /\ request \in {"launch", "url", "search", "done"}
    /\ toRestore \in Seq(NormalIds)
    /\ wpState \in {QA, MAIN}
    /\ shouldOpenNewTab \in BOOLEAN
    /\ stack \in Seq(UIViews)
    /\ items \subseteq TabIds
    /\ popups \in Seq(PopupSet)
    /\ pending \subseteq Views

LEMMA TypeStep ==
    ASSUME TypeOK, Next, eng' \in EngineState
    PROVE  TypeOKButEngine'
<1> USE DEF TypeOKButEngine, QA, MAIN
<1>1. Tabs(eng) \subseteq TabIds /\ Tabs(eng') \subseteq TabIds
  BY DEF TypeOK, EngineTypeOK, EngineState, Tabs
<1>2. stack = <<>> => Top = "none"
  BY DEF Top
<1>3. <<"webPageUI">> \in Seq(UIViews)
  BY DEF UIViews
<1>4. ASSUME NEW r \in {"launch", "url", "search"}, Exec(r)
      PROVE  TypeOKButEngine'
  BY <1>4 DEF Exec, TypeOK, page, overlays, dialogs
<1>5. ASSUME NEW rows \in Sessions, Launch(rows)
      PROVE  TypeOKButEngine'
  <2>1. rows \in Seq(NormalIds)
    BY BoundAssumption DEF Sessions
  <2> QED BY <1>3, <1>5, <2>1 DEF Launch, PageShows, TypeOK, dialogs
<1>6. ASSUME NEW o \in Origins \ {0}, RestoreTab(o)
      PROVE  TypeOKButEngine'
  <2>1. Tail(toRestore) \in Seq(NormalIds)
    BY <1>6, HeadAndTail DEF RestoreTab, TypeOK
  <2> QED BY <1>6, <2>1, PopupsOK DEF RestoreTab, TypeOK, overlays
<1>7. CASE FinishLaunch \/ AppResume \/ AppPause
  BY <1>7 DEF FinishLaunch, AppResume, AppPause, TypeOK, page, overlays, dialogs
<1>8. CASE ResumeWithUrl
  BY <1>3, <1>8, PopupsOK DEF ResumeWithUrl, Opened, TypeOK
<1>9. CASE OpenURL
  BY <1>9, PopupsOK, PopToWebPageOK DEF OpenURL, Opened, TypeOK, lifecycle
<1>10. CASE HomeClicked
  BY <1>10, PopupsOK, PopToWebPageOK
     DEF HomeClicked, ShowHomePage, PageShows, Opened, TypeOK, lifecycle
<1>11. CASE NewTabClicked
  BY <1>11, PopupsOK, PopToWebPageOK
     DEF NewTabClicked, Opened, TypeOK, lifecycle, page, overlays
<1>12. CASE BackPage \/ BackOnPage
  BY <1>12 DEF BackPage, BackOnPage, TypeOK, lifecycle, page, overlays, dialogs
<1>13. CASE ShowTabUI
  BY <1>1, <1>13 DEF ShowTabUI, UIViews, TypeOK, lifecycle, page, dialogs
<1>14. ASSUME NEW v \in {"passwordUI", "other"}, PushView(v)
       PROVE  TypeOKButEngine'
  BY <1>14 DEF PushView, UIViews, TypeOK, lifecycle, page, dialogs
<1>15. CASE CloseView \/ BackFromView
  <2>1. stack # <<>>
    BY <1>2, <1>15 DEF CloseView, BackFromView, Touchable
  <2>2. PopTheStack(eng)
    BY <1>15 DEF CloseView, BackFromView
  <2>3. stack' \in Seq(UIViews) /\ items' \subseteq TabIds
    BY <2>1, <2>2, PopTheStackOK DEF TypeOK, EngineTypeOK
  <2> QED BY <1>15, <2>3 DEF CloseView, BackFromView, TypeOK, lifecycle, page, dialogs
<1>16. CASE ChangeEngineState
  <2>1. stack' \in Seq(UIViews)
    BY <1>2, <1>16, StackOK DEF ChangeEngineState, Touchable, TypeOK
  <2> QED BY <1>1, <1>16, <2>1 DEF ChangeEngineState, PageShows, TypeOK, lifecycle, dialogs
<1>17. ASSUME NEW t \in TabIds, TabClicked(t)
       PROVE  TypeOKButEngine'
  BY <1>17, PopToWebPageOK DEF TabClicked, PageShows, TypeOK, lifecycle, dialogs
<1>18. ASSUME NEW t \in TabIds, CloseTabsClicked(t)
       PROVE  TypeOKButEngine'
  BY <1>18 DEF CloseTabsClicked, EngineBecomes, PageShows, ShownAfterClose,
               TypeOK, lifecycle, page
<1>19. CASE BackFromQuickAccess
  BY <1>19 DEF BackFromQuickAccess, PageShows, TypeOK, lifecycle, overlays, dialogs
<1>20. CASE BackToOpener
  BY <1>20 DEF BackToOpener, EngineBecomes, ShownAfterClose, TypeOK, lifecycle, overlays
<1>21. CASE BackToQuickAccess
  BY <1>21, PopToWebPageOK DEF BackToQuickAccess, EngineBecomes, TypeOK, lifecycle
<1>22. ASSUME NEW v \in Views, NewWindowRequest(v)
       PROVE  TypeOKButEngine'
  BY <1>22, PopupsOK DEF NewWindowRequest, TypeOK, lifecycle, overlays
<1>23. ASSUME NEW v \in Views, CloseWindowRequest(v)
       PROVE  TypeOKButEngine'
  BY <1>23 DEF CloseWindowRequest, EngineBecomes, PageShows, ShownAfterClose,
               TypeOK, lifecycle, page, overlays
<1>24. ASSUME NEW v \in Views, NEW allowed \in BOOLEAN, CertificateRequest(v, allowed)
       PROVE  TypeOKButEngine'
  <2>1. Popup("certificate", v) \in PopupSet
    BY DEF Popup, PopupSet
  <2>2. popups \in Seq(PopupSet) /\ pending \in SUBSET Views
    BY <1>1 DEF TypeOK
  <2>3. Append(popups, Popup("certificate", v)) \in Seq(PopupSet)
    BY <2>1, <2>2
  <2>4. popups' \in Seq(PopupSet)
    BY <1>24, <2>2, <2>3, Zenon DEF CertificateRequest, dialogs
  <2>5. pending' \in SUBSET Views
    BY <1>24, <2>2 DEF CertificateRequest, dialogs
  <2> QED BY <1>24, <2>4, <2>5 DEF CertificateRequest, TypeOK, lifecycle, page, overlays
<1>25. CASE CertificateAnswered \/ DismissPopup \/ SwitchToSecretFirstTime
  BY <1>1, <1>25, FrontOfPopups
     DEF CertificateAnswered, DismissPopup, SwitchToSecretFirstTime, PageShows,
         TypeOK, lifecycle, page, overlays
<1>26. CASE ViewCertificate
  <2>1. Popup("certInfo", NoView) \in PopupSet
    BY DEF Popup, PopupSet
  <2> QED BY <1>26, <2>1 DEF ViewCertificate, TypeOK, lifecycle, page, overlays
<1>27. CASE OnFirstSecretMode
  <2>1. Popup("firstSecret", NoView) \in PopupSet
    BY DEF Popup, PopupSet
  <2> QED BY <1>27, <2>1 DEF OnFirstSecretMode, TypeOK, lifecycle, page, overlays
<1> QED
  BY <1>4, <1>5, <1>6, <1>7, <1>8, <1>9, <1>10, <1>11, <1>12, <1>13, <1>14,
     <1>15, <1>16, <1>17, <1>18, <1>19, <1>20, <1>21, <1>22, <1>23, <1>24,
     <1>25, <1>26, <1>27
  DEF Next, LifeCycle, Touch, BackKey, PageCallback

(* The rows are distinct, and each leaves the list as its tab is added.    *)
LEMMA StartStep ==
    ASSUME NoneIsNoTab, Inv, Next
    PROVE  StartOK'
<1>1. EngineOK(eng) /\ eng \in EngineState
  BY DEF Inv, EngineOK, Consistent, EngineTypeOK
<1>2. ASSUME NEW r \in {"launch", "url", "search"}, Exec(r)
      PROVE  StartOK'
  BY <1>2 DEF Exec, StartOK, Inv
<1>3. ASSUME NEW rows \in Sessions, Launch(rows)
      PROVE  StartOK'
  <2>1. eng'.mode = "NORMAL" /\ eng'.tabs["NORMAL"] = {}
    BY <1>1, <1>3, SuspendOK DEF Launch, Inv, StartOK, Follows, KeepsOther
  <2> QED BY <1>3, <2>1 DEF Launch, StartOK, Sessions
<1>4. ASSUME NEW o \in Origins \ {0}, RestoreTab(o)
      PROVE  StartOK'
  <2> DEFINE t == Head(toRestore)
  <2>1. /\ phase = "restoring" /\ phase' = "restoring" /\ toRestore' = Tail(toRestore)
        /\ toRestore \in Seq(NormalIds) /\ toRestore # <<>>
    BY <1>4 DEF RestoreTab, Inv, TypeOK
  <2>2. /\ t \in ToSet(toRestore) /\ t \in NormalIds
        /\ ToSet(toRestore') \subseteq ToSet(toRestore)
        /\ IsInjective(toRestore') /\ t \notin ToSet(toRestore')
    BY <2>1, HeadAndTail DEF Inv, StartOK
  <2>3. eng.mode = "NORMAL" /\ ToSet(toRestore) \cap eng.tabs["NORMAL"] = {}
    BY <2>1 DEF Inv, StartOK
  <2>4. CASE AtLimit(eng)
    <3>1. eng' = SwitchToTab(eng, CurrentId(eng))
      BY <1>4, <2>4 DEF RestoreTab
    <3>2. eng'.mode = "NORMAL" /\ eng'.tabs = eng.tabs
      BY <1>1, <2>3, <3>1, SwitchOK DEF Follows, KeepsOther
    <3> QED BY <2>1, <2>2, <2>3, <3>2 DEF StartOK
  <2>5. CASE ~AtLimit(eng)
    <3>1. eng' = SwitchToTab(AddTab(eng, t, o), t)
      BY <1>4, <2>5 DEF RestoreTab
    <3>2. t \in TabIds \ Tabs(eng)
      BY <2>2, <2>3, IdAssumption DEF Tabs
    <3>3. eng'.mode = "NORMAL" /\ eng'.tabs = [eng.tabs EXCEPT ![eng.mode] = @ \cup {t}]
      BY <1>1, <2>3, <3>1, <3>2, OpenOK DEF Follows, KeepsOther
    <3>4. eng'.tabs["NORMAL"] = eng.tabs["NORMAL"] \cup {t}
      BY <1>1, <2>3, <3>3 DEF EngineState, Modes
    <3> QED BY <2>1, <2>2, <2>3, <3>3, <3>4 DEF StartOK
  <2> QED BY <2>4, <2>5
<1>5. ASSUME phase \notin {"off", "restoring"} \/ FinishLaunch \/ ResumeWithUrl,
             phase' \notin {"off", "restoring"}
      PROVE  StartOK'
  BY <1>5 DEF StartOK
<1>6. CASE FinishLaunch \/ ResumeWithUrl \/ AppResume \/ AppPause
  BY <1>5, <1>6 DEF FinishLaunch, ResumeWithUrl, AppResume, AppPause
<1>7. CASE Touch
  BY <1>5, <1>7
  DEF Touch, OpenURL, HomeClicked, NewTabClicked, BackPage, ShowTabUI, PushView,
      CloseView, TabClicked, CloseTabsClicked, ChangeEngineState,
      OnFirstSecretMode, SwitchToSecretFirstTime, CertificateAnswered,
      ViewCertificate, DismissPopup, Touchable, lifecycle
<1>8. CASE BackKey
  BY <1>5, <1>8
  DEF BackKey, BackFromView, BackFromQuickAccess, BackOnPage, BackToOpener,
      BackToQuickAccess, Touchable, lifecycle
<1>9. CASE PageCallback
  BY <1>5, <1>9
  DEF PageCallback, NewWindowRequest, CloseWindowRequest, CertificateRequest,
      Running, lifecycle
<1> QED BY <1>2, <1>3, <1>4, <1>6, <1>7, <1>8, <1>9 DEF Next, LifeCycle
-----------------------------------------------------------------------------
(***************************************************************************)
(* The theorems.                                                           *)
(***************************************************************************)

LEMMA InvInit == Init => Inv
<1> SUFFICES ASSUME Init PROVE Inv
  OBVIOUS
<1>1. PICK seed \in SecretSeeds : eng = NewEngine(seed)
  BY DEF Init
<1>2. EngineOK(eng) /\ eng \in EngineState
  BY <1>1, NewEngineOK DEF EngineOK, Consistent, EngineTypeOK
<1>3. <<>> \in Seq(NormalIds) /\ <<>> \in Seq(UIViews) /\ <<>> \in Seq(PopupSet)
  OBVIOUS
<1>4. TypeOK
  BY <1>2, <1>3 DEF Init, TypeOK, EngineTypeOK, QA, MAIN
<1>5. eng.mode = "NORMAL" /\ eng.tabs["NORMAL"] = {}
  BY <1>1 DEF NewEngine, Modes
<1>6. StartOK
  BY <1>5 DEF StartOK, Init
<1> QED BY <1>2, <1>4, <1>6 DEF Inv

LEMMA InvNext ==
    ASSUME NoneIsNoTab, Inv, [Next]_vars
    PROVE  Inv'
<1>1. CASE Next
  <2>1. EngineOK(eng')
    BY <1>1, EngineStep, ChangeStateOK DEF Follows, Inv
  <2>2. eng' \in EngineState
    BY <2>1 DEF EngineOK, Consistent, EngineTypeOK
  <2>3. TypeOK'
    BY <1>1, <2>2, TypeStep DEF Inv, TypeOK, TypeOKButEngine, EngineTypeOK
  <2>4. StartOK'
    BY <1>1, StartStep
  <2>5. EngineOK(eng)'
    BY <2>1 DEF EngineOK, Consistent, NoGhosts, EngineTypeOK, RecentListsTabs,
       CurrentIsMostRecent, ViewIsCurrent, SignalsMatchFlag, ListensToAView,
       CounterAhead, Tabs, CurrentId, Live
  <2> QED BY <2>3, <2>4, <2>5 DEF Inv
<1>2. CASE UNCHANGED vars
  BY <1>2 DEF vars, Inv, TypeOK, EngineTypeOK, StartOK, EngineOK, Consistent,
     NoGhosts, RecentListsTabs, CurrentIsMostRecent, ViewIsCurrent,
     SignalsMatchFlag, ListensToAView, CounterAhead, Tabs, CurrentId, Live
<1> QED BY <1>1, <1>2

(* Inv holds in every reachable state, whatever the constants. *)
THEOREM Invariance == ASSUME NoneIsNoTab PROVE Spec => []Inv
<1>1. Init => Inv
  BY InvInit
<1>2. Inv /\ [Next]_vars => Inv'
  BY InvNext
<1> QED BY <1>1, <1>2, PTL DEF Spec

(* Every variable of the shell keeps its type: for one, no handler leaves  *)
(* an id that is not a tab's in mostRecentTab or currentTabId.             *)
THEOREM TypeCorrect == ASSUME NoneIsNoTab PROVE Spec => []TypeOK
<1>1. Inv => TypeOK
  BY DEF Inv
<1> QED BY <1>1, Invariance, PTL

(* After every handler mostRecentTab lists the open tabs, its last entry   *)
(* is the current tab, and the current view is that tab's.                 *)
THEOREM TabsAlwaysAgree == ASSUME NoneIsNoTab PROVE Spec => []TabsAgree
<1>1. Inv => TabsAgree
  BY DEF Inv, EngineOK, Consistent, TabsAgree
<1> QED BY <1>1, Invariance, PTL

(* After every handler m_signalsConnected is right for every view, and no  *)
(* closed view is left running or connected.                               *)
THEOREM SignalsAlwaysAgree == ASSUME NoneIsNoTab PROVE Spec => []SignalsAgree
<1>1. Inv => SignalsAgree
  BY DEF Inv, EngineOK, Consistent, SignalsAgree
<1> QED BY <1>1, Invariance, PTL

(* No handler opens, closes or reorders tabs of the mode it does not run   *)
(* in, and the one that changes the mode does neither in both.             *)
THEOREM OtherModeIsUntouched ==
    ASSUME NoneIsNoTab PROVE Spec => OtherModeUntouched
<1> DEFINE A == \A m \in Modes :
                   \/ m = eng.mode /\ m = eng'.mode
                   \/ /\ eng'.tabs[m] = eng.tabs[m]
                      /\ eng'.mru[m] = eng.mru[m]
                      /\ eng'.cur[m] = eng.cur[m]
<1>1. Inv /\ [Next]_vars => [A]_vars
  <2> SUFFICES ASSUME Inv, Next PROVE A
    OBVIOUS
  <2>1. CASE Follows(eng, eng')
    BY <2>1 DEF Follows, KeepsOther
  <2>2. CASE eng' = ChangeState(eng)
    BY <2>2, ChangeStateOK DEF Inv
  <2> QED BY <2>1, <2>2, EngineStep
<1>2. Spec => [][A]_vars
  <2> HIDE DEF A
  <2> QED BY <1>1, Invariance, PTL DEF Spec
<1> QED BY <1>2 DEF OtherModeUntouched
-----------------------------------------------------------------------------
(***************************************************************************)
(* The shell implements RecentTabs.  A handler may close a tab, switch to  *)
(* another, wake a page and put one to sleep: what reaches the list of the *)
(* current mode is never more than one step of the abstract specification. *)
(***************************************************************************)

(* The list l becomes k in at most one step of RecentTabs. *)
OneStep(l, k) ==
    \/ k = l
    \/ \E t \in TabIds \ ToSet(l) : k = Append(l, t)
    \/ \E t \in ToSet(l) : k = Append(Without(l, t), t) \/ k = Without(l, t)
    \/ \E t, o \in ToSet(l) :
          t # o /\ t = Last(l) /\ k = Append(Without(Without(l, t), o), o)

ListStep(e, f) == OneStep(e.mru[e.mode], f.mru[e.mode])

(* Changing the mode does change it. *)
LEMMA ChangedMode ==
    ASSUME NEW e, EngineOK(e)
    PROVE  ChangeState(e).mode = Other(e.mode)
<1>1. e \in EngineState
  BY TheList
<1>2. DOMAIN Suspend(e) = DOMAIN e
  BY <1>1 DEF Suspend, Disconnect, EngineState
<1>3. "mode" \in DOMAIN Suspend(e)
  BY <1>1, <1>2 DEF EngineState
<1> QED BY <1>3 DEF ChangeState

LEMMA SameListStep ==
    ASSUME NEW e, NEW f, NEW g, ListStep(e, f), g.mru = f.mru
    PROVE  ListStep(e, g)
  BY DEF ListStep

(* Waking pages and putting them to sleep reorders nothing. *)
LEMMA WakeList ==
    ASSUME NEW e, EngineOK(e)
    PROVE  /\ Suspend(e).mru = e.mru
           /\ Resume(e).mru = e.mru
           /\ ResumeIfSuspended(e).mru = e.mru
           /\ AfterTabClosed(e).mru = e.mru
           /\ \A t : ConfirmationResult(e, t).mru = e.mru
<1>1. e \in EngineState
  BY TheList
<1>2. Suspend(e).mru = e.mru /\ Resume(e).mru = e.mru
  BY <1>1, SuspendAwake, ResumeAwake
<1>3. \A t : ConfirmationResult(e, t).mru = e.mru
  BY DEF ConfirmationResult
<1> QED BY <1>2, <1>3 DEF ResumeIfSuspended, AfterTabClosed

LEMMA SwitchListStep ==
    ASSUME NEW e, EngineOK(e), NEW t
    PROVE  ListStep(e, SwitchToTab(e, t))
<1>1. CASE t \in Tabs(e)
  BY <1>1, TheList, SwitchList DEF ListStep, OneStep
<1>2. CASE t \notin Tabs(e)
  BY <1>2 DEF SwitchToTab, ListStep, OneStep
<1> QED BY <1>1, <1>2

LEMMA CloseListStep ==
    ASSUME NEW e, EngineOK(e), NEW t
    PROVE  ListStep(e, AfterTabClosed(CloseTab(e, t)))
<1>1. AfterTabClosed(CloseTab(e, t)).mru = CloseTab(e, t).mru
  BY CloseOK, WakeList DEF Follows
<1>2. CASE t = NoTab
  BY <1>1, <1>2 DEF CloseTab, ListStep, OneStep
<1>3. CASE t # NoTab
  <2>1. CloseTab(e, t).mru[e.mode] = Without(e.mru[e.mode], t)
    BY <1>3, CloseList
  <2>2. t \in ToSet(e.mru[e.mode]) \/ Without(e.mru[e.mode], t) = e.mru[e.mode]
    BY DEF Without
  <2> QED BY <1>1, <2>1, <2>2 DEF ListStep, OneStep
<1> QED BY <1>2, <1>3

(* Closing the current tab and switching to another one is one step: what  *)
(* closeTab shows meanwhile does not matter.                               *)
LEMMA ReturnListStep ==
    ASSUME NoneIsNoTab, NEW e, EngineOK(e), e.view # NoView, NEW o
    PROVE  ListStep(e, SwitchToTab(AfterTabClosed(CloseTab(e, CurrentId(e))), o))
<1> DEFINE l == e.mru[e.mode]
           t == CurrentId(e)
           c == AfterTabClosed(CloseTab(e, t))
<1>1. /\ l \in Seq(TabIds) /\ IsInjective(l) /\ ToSet(l) = Tabs(e)
      /\ l # <<>> /\ t = Last(l) /\ t \in ToSet(l) /\ t # NoTab
  BY TheList, EmptyList DEF NoneIsNoTab
<1>2. EngineOK(c) /\ c.mode = e.mode
  BY ClosedOK DEF Follows, KeepsOther
<1>3. c.mru[e.mode] = Without(l, t)
  <2>1. c.mru = CloseTab(e, t).mru
    BY CloseOK, WakeList DEF Follows
  <2> QED BY <1>1, <2>1, CloseList
<1> HIDE DEF c, l, t
<1>4. ToSet(Without(l, t)) = ToSet(l) \ {t}
  BY <1>1, WithoutFacts
<1>5. CASE o \notin Tabs(c)
  BY <1>1, <1>3, <1>5 DEF SwitchToTab, ListStep, OneStep, l, c, t
<1>6. CASE o \in Tabs(c)
  <2>1. o \in ToSet(l) /\ o # t
    BY <1>2, <1>3, <1>4, <1>6, TheList
  <2>2. SwitchToTab(c, o).mru[e.mode] = Append(Without(Without(l, t), o), o)
    BY <1>2, <1>3, <1>6, SwitchList
  <2> QED BY <1>1, <2>1, <2>2 DEF ListStep, OneStep, l, c, t
<1> QED BY <1>5, <1>6

LEMMA AddTabsListStep ==
    ASSUME NoneIsNoTab, NEW e, EngineOK(e), NEW o \in Origins,
           NEW r \in AddTabs(e, o)
    PROVE  /\ ListStep(e, SwitchToTab(r.eng, r.id))
           /\ r.id \in {NoTab, CurrentId(e)} => ListStep(e, r.eng)
<1>1. CASE r.eng = e
  BY <1>1, SwitchListStep DEF ListStep, OneStep
<1>2. ASSUME NEW t \in NewIds(e), r = [id |-> t, eng |-> AddTab(e, t, o)]
      PROVE  ListStep(e, SwitchToTab(r.eng, r.id)) /\ r.id \notin {NoTab, CurrentId(e)}
  <2>1. t \in TabIds \ Tabs(e)
    BY <1>2, NewIdsFacts
  <2>2. SwitchToTab(AddTab(e, t, o), t).mru[e.mode] = Append(e.mru[e.mode], t)
    BY <2>1, OpenList
  <2>3. t # NoTab /\ t # CurrentId(e)
    BY <2>1, NewIsNotCurrent DEF NoneIsNoTab
  <2>4. ToSet(e.mru[e.mode]) = Tabs(e)
    BY TheList
  <2> QED BY <1>2, <2>1, <2>2, <2>3, <2>4 DEF ListStep, OneStep
<1>3. \/ r.eng = e
      \/ \E t \in NewIds(e) : r = [id |-> t, eng |-> AddTab(e, t, o)]
  BY DEF AddTabs
<1> QED BY <1>1, <1>2, <1>3

LEMMA OpenNewTabListStep ==
    ASSUME NoneIsNoTab, NEW e, EngineOK(e), NEW o \in Origins,
           NEW r \in OpenNewTab(e, o)
    PROVE  ListStep(e, r.eng) /\ ListStep(e, Resume(r.eng))
<1>1. PICK q \in AddTabs(e, o) :
          r = IF q.id = NoTab
              THEN [eng |-> q.eng, shown |-> FALSE]
              ELSE [eng |-> SwitchToTab(q.eng, q.id), shown |-> TRUE]
  BY DEF OpenNewTab
<1>2. r.eng = IF q.id = NoTab THEN q.eng ELSE SwitchToTab(q.eng, q.id)
  BY <1>1
<1>3. ListStep(e, r.eng)
  BY <1>2, AddTabsListStep
<1>4. EngineOK(r.eng)
  BY OpenNewTabOK DEF Follows
<1>5. Resume(r.eng).mru = r.eng.mru
  BY <1>4, WakeList
<1> QED BY <1>3, <1>5, SameListStep

(* Every handler that does not change the mode is one step for the list.   *)
LEMMA HandlerListStep ==
    ASSUME NoneIsNoTab, Inv, Next
    PROVE  ListStep(eng, eng') \/ eng' = ChangeState(eng)
<1>1. EngineOK(eng) /\ ListStep(eng, eng)
  BY DEF Inv, ListStep, OneStep
<1>2. CurrentId(eng) \in Origins /\ Unknown \in Origins /\ QuickAccess \in Origins
  BY <1>1, TheList DEF Origins, Unknown, NoTab, CurrentId, EngineState
<1>3. /\ ListStep(eng, Suspend(eng)) /\ ListStep(eng, Resume(eng))
      /\ ListStep(eng, ResumeIfSuspended(eng))
  BY <1>1, WakeList, SameListStep
<1>4. ASSUME NEW o \in Origins, NEW r \in OpenNewTab(eng, o)
      PROVE  ListStep(eng, r.eng) /\ ListStep(eng, Resume(r.eng))
  BY <1>1, <1>4, OpenNewTabListStep
<1>5. ASSUME NEW r \in {"launch", "url", "search"}, Exec(r)
      PROVE  ListStep(eng, eng')
  BY <1>1, <1>5 DEF Exec
<1>6. ASSUME NEW rows \in Sessions, Launch(rows)
      PROVE  ListStep(eng, eng')
  BY <1>3, <1>6 DEF Launch
<1>7. ASSUME NEW o \in Origins \ {0}, RestoreTab(o)
      PROVE  ListStep(eng, eng')
  <2>1. CASE AtLimit(eng)
    BY <1>1, <1>7, <2>1, SwitchListStep DEF RestoreTab
  <2>2. CASE ~AtLimit(eng)
    <3> DEFINE t == Head(toRestore)
    <3>1. t \in TabIds \ Tabs(eng)
      <4>1. toRestore \in Seq(NormalIds) /\ toRestore # <<>>
        BY <1>7 DEF RestoreTab, Inv, TypeOK
      <4>2. t \in ToSet(toRestore) /\ t \in NormalIds
        BY <4>1, HeadAndTail
      <4> QED BY <1>7, <4>2, IdAssumption DEF RestoreTab, Inv, StartOK, Tabs
    <3>2. eng' = SwitchToTab(AddTab(eng, t, o), t)
      BY <1>7, <2>2 DEF RestoreTab
    <3> HIDE DEF t
    <3>3. eng'.mru[eng.mode] = Append(eng.mru[eng.mode], t)
      BY <1>1, <3>1, <3>2, OpenList
    <3> QED BY <1>1, <3>1, <3>3, TheList DEF ListStep, OneStep
  <2> QED BY <2>1, <2>2
<1>8. CASE FinishLaunch \/ AppResume \/ AppPause
  BY <1>3, <1>8 DEF FinishLaunch, AppResume, AppPause
<1>9. CASE ResumeWithUrl
  BY <1>2, <1>4, <1>9 DEF ResumeWithUrl
<1>10. CASE OpenURL
  BY <1>2, <1>3, <1>4, <1>10 DEF OpenURL
<1>11. CASE HomeClicked
  BY <1>2, <1>3, <1>4, <1>11 DEF HomeClicked, ShowHomePage
<1>12. CASE NewTabClicked
  BY <1>1, <1>2, <1>3, <1>4, <1>12 DEF NewTabClicked
<1>13. CASE BackPage \/ BackFromQuickAccess
  BY <1>3, <1>13 DEF BackPage, BackFromQuickAccess
<1>14. CASE ShowTabUI \/ CloseView \/ BackFromView \/ BackOnPage
            \/ ViewCertificate \/ DismissPopup \/ OnFirstSecretMode
  BY <1>1, <1>14
  DEF ShowTabUI, CloseView, BackFromView, BackOnPage, ViewCertificate,
      DismissPopup, OnFirstSecretMode
<1>15. ASSUME NEW v \in {"passwordUI", "other"}, PushView(v)
       PROVE  ListStep(eng, eng')
  BY <1>1, <1>15 DEF PushView
<1>16. CASE ChangeEngineState \/ SwitchToSecretFirstTime
  BY <1>16 DEF ChangeEngineState, SwitchToSecretFirstTime
<1>17. ASSUME NEW t \in TabIds, TabClicked(t)
       PROVE  ListStep(eng, eng')
  BY <1>1, <1>17, SwitchListStep DEF TabClicked
<1>18. ASSUME NEW t \in TabIds, CloseTabsClicked(t)
       PROVE  ListStep(eng, eng')
  BY <1>1, <1>18, CloseListStep DEF CloseTabsClicked, EngineBecomes
<1>19. CASE BackToOpener
  <2>1. eng' = SwitchToTab(AfterTabClosed(CloseTab(eng, CurrentId(eng))),
                           eng.origin[eng.view])
    BY <1>19 DEF BackToOpener, EngineBecomes
  <2>2. eng.view # NoView
    BY <1>19 DEF BackToOpener
  <2> QED BY <1>1, <2>1, <2>2, ReturnListStep
<1>20. CASE BackToQuickAccess
  <2> DEFINE c == AfterTabClosed(CloseTab(eng, CurrentId(eng)))
  <2>1. eng' = Suspend(c)
    BY <1>20 DEF BackToQuickAccess, EngineBecomes
  <2>2. ListStep(eng, c) /\ EngineOK(c)
    BY <1>1, CloseListStep, ClosedOK DEF Follows
  <2> HIDE DEF c
  <2> QED BY <2>1, <2>2, WakeList, SameListStep
<1>21. ASSUME NEW v \in Views, NewWindowRequest(v)
       PROVE  ListStep(eng, eng')
  <2>1. PICK r \in AddTabs(eng, CurrentId(eng)) :
           eng' = IF r.id = CurrentId(eng)
                  THEN r.eng
                  ELSE ResumeIfSuspended(SwitchToTab(r.eng, r.id))
    BY <1>21 DEF NewWindowRequest
  <2> DEFINE f == SwitchToTab(r.eng, r.id)
  <2>2. /\ ListStep(eng, f)
        /\ r.id = CurrentId(eng) => ListStep(eng, r.eng)
    BY <1>1, <1>2, AddTabsListStep
  <2>3. EngineOK(f)
    BY <1>1, <1>2, AddTabsOK DEF Follows
  <2> HIDE DEF f
  <2>4. ListStep(eng, ResumeIfSuspended(f))
    BY <2>2, <2>3, WakeList, SameListStep
  <2> QED BY <2>1, <2>2, <2>4 DEF f
<1>22. ASSUME NEW v \in Views, CloseWindowRequest(v)
       PROVE  ListStep(eng, eng')
  BY <1>1, <1>22, CloseListStep DEF CloseWindowRequest, EngineBecomes
<1>23. ASSUME NEW v \in Views, NEW allowed \in BOOLEAN, CertificateRequest(v, allowed)
       PROVE  ListStep(eng, eng')
  <2> DEFINE asked == [eng EXCEPT !.awake = @ \ {v}]
  <2>1. asked.mru = eng.mru
    OBVIOUS
  <2>2. ConfirmationResult(asked, v[2]).mru = asked.mru
    BY DEF ConfirmationResult
  <2>3. eng' = asked \/ eng' = ConfirmationResult(asked, v[2])
    BY <1>23 DEF CertificateRequest
  <2> HIDE DEF asked
  <2> QED BY <1>1, <2>1, <2>2, <2>3, SameListStep
<1>24. CASE CertificateAnswered
  <2>1. eng' = ConfirmationResult(eng, Last(popups).view[2])
    BY <1>24 DEF CertificateAnswered
  <2> QED BY <1>1, <2>1, WakeList, SameListStep
<1> QED
  BY <1>5, <1>6, <1>7, <1>8, <1>9, <1>10, <1>11, <1>12, <1>13, <1>14, <1>15,
     <1>16, <1>17, <1>18, <1>19, <1>20, <1>21, <1>22, <1>23, <1>24
  DEF Next, LifeCycle, Touch, BackKey, PageCallback

(* The abstract operators, in the words of the shell. *)
LEMMA RecentWords ==
    /\ \A s : Recent!ToSet(s) = ToSet(s) /\ Recent!Last(s) = Last(s)
    /\ \A s, t : Recent!Drop(s, t) = Without(s, t)
    /\ \A m, s : Recent!ShownOf(m, s) = IF s = <<>> THEN NoView ELSE <<m, Last(s)>>
    /\ Recent!AllModes = Modes
<1>1. \A s : Recent!ToSet(s) = ToSet(s) /\ Recent!Last(s) = Last(s)
  BY DEF Recent!ToSet, ToSet, Recent!Last, Last
<1>2. \A s, p : Recent!RemoveAt(s, p) = RemoveAt(s, p)
  BY DEF Recent!RemoveAt, RemoveAt
<1>3. \A s, t : Recent!Drop(s, t) = Without(s, t)
  BY <1>1, <1>2 DEF Recent!Drop, Without
<1>4. \A m, s : Recent!ShownOf(m, s) = IF s = <<>> THEN NoView ELSE <<m, Last(s)>>
  BY <1>1 DEF Recent!ShownOf, Recent!Nothing, NoView, NoTab
<1> QED BY <1>1, <1>3, <1>4 DEF Recent!AllModes, Modes

LEMMA RecentInit == Init => Recent!Init
  BY RecentWords DEF Init, NewEngine, Recent!Init, Recent!Nothing, NoView, NoTab, Modes

(* The page that is shown follows from the list, in both specifications. *)
LEMMA RecentStep ==
    ASSUME NoneIsNoTab, Inv, Inv', Next
    PROVE  Recent!Next \/ UNCHANGED <<eng.mode, eng.mru, eng.view>>
<1> DEFINE l == eng.mru[eng.mode]
           k == eng'.mru[eng'.mode]
<1>1. /\ EngineOK(eng) /\ EngineOK(eng')
      /\ eng.mode \in Modes /\ eng'.mode \in Modes
      /\ eng.mru \in [Modes -> Seq(TabIds)] /\ eng'.mru \in [Modes -> Seq(TabIds)]
      /\ ToSet(l) \subseteq TabIds
  <2>1. EngineOK(eng)'
    BY DEF Inv
  <2>2. EngineOK(eng')
    BY <2>1 DEF EngineOK, Consistent, NoGhosts, EngineTypeOK, RecentListsTabs,
       CurrentIsMostRecent, ViewIsCurrent, SignalsMatchFlag, ListensToAView,
       CounterAhead, Tabs, CurrentId, Live
  <2> QED BY <2>2, TheList DEF Inv
<1>2. eng.view = Recent!ShownOf(eng.mode, l) /\ eng'.view = Recent!ShownOf(eng'.mode, k)
  BY <1>1, TheList, RecentWords
<1>3. CASE eng' = ChangeState(eng)
  <2>1. eng'.mru = eng.mru /\ eng'.mode = Other(eng.mode)
    BY <1>1, <1>3, ChangeStateOK, ChangedMode
  <2>2. eng'.mode \in Recent!AllModes \ {eng.mode}
    BY <1>1, <2>1, RecentWords DEF Other, Modes
  <2> QED BY <1>2, <2>1, <2>2 DEF Recent!Next, Recent!SwitchMode
<1>4. CASE Follows(eng, eng') /\ ListStep(eng, eng')
  <2>1. eng'.mode = eng.mode /\ \A m \in Modes \ {eng.mode} : eng'.mru[m] = eng.mru[m]
    BY <1>4 DEF Follows, KeepsOther
  <2>2. eng'.mru = [eng.mru EXCEPT ![eng.mode] = k]
    BY <1>1, <2>1
  <2>3. Recent!Becomes(k)
    BY <1>2, <2>1, <2>2 DEF Recent!Becomes
  <2>4. OneStep(l, k)
    BY <1>4, <2>1 DEF ListStep
  <2> HIDE DEF l, k
  <2>5. CASE k = l
    BY <1>1, <1>2, <2>1, <2>2, <2>5 DEF l
  <2>6. ASSUME NEW t \in TabIds \ ToSet(l), k = Append(l, t)
        PROVE  Recent!Open(t)
    BY <2>3, <2>6, RecentWords DEF Recent!Open, l
  <2>7. ASSUME NEW t \in ToSet(l), k = Append(Without(l, t), t)
        PROVE  Recent!Use(t)
    BY <2>3, <2>7, RecentWords DEF Recent!Use, l
  <2>8. ASSUME NEW t \in ToSet(l), k = Without(l, t)
        PROVE  Recent!Close(t)
    BY <2>3, <2>8, RecentWords DEF Recent!Close, l
  <2>9. ASSUME NEW t \in ToSet(l), NEW o \in ToSet(l), t # o, t = Last(l),
               k = Append(Without(Without(l, t), o), o)
        PROVE  Recent!Return(t, o)
    BY <2>3, <2>9, RecentWords DEF Recent!Return, l
  <2>10. ToSet(l) \subseteq TabIds
    BY <1>1 DEF l
  <2> QED BY <2>4, <2>5, <2>6, <2>7, <2>8, <2>9, <2>10 DEF OneStep, Recent!Next
<1> QED BY <1>3, <1>4, EngineStep, HandlerListStep

(* The shell promises what RecentTabs says: the page shown is that of the  *)
(* most recently used tab of the mode, and a handler opens, uses, closes   *)
(* or leaves one tab, or changes the mode, and never more than one of      *)
(* these as seen from outside.                                             *)
THEOREM RecentTabsImplemented ==
    ASSUME NoneIsNoTab PROVE Spec => ImplementsRecentTabs
<1>1. Init => Recent!Init
  BY RecentInit
<1>2. Inv /\ Inv' /\ [Next]_vars => [Recent!Next]_<<eng.mode, eng.mru, eng.view>>
  <2>1. CASE Next
    BY <2>1, RecentStep
  <2>2. CASE UNCHANGED vars
    BY <2>2 DEF vars
  <2> QED BY <2>1, <2>2
<1> QED BY <1>1, <1>2, Invariance, PTL DEF Spec, ImplementsRecentTabs, Recent!Spec

-----------------------------------------------------------------------------
(***************************************************************************)
(* Which pages run.                                                        *)
(***************************************************************************)

(* The current view does not run unheard; it runs and is heard; it does    *)
(* not run and nothing is heard.                                           *)
Heard(e) == e.view \in e.awake => e.connected
Alive(e) == e.view # NoView => e.connected /\ e.view \in e.awake
Still(e) == e.view \notin e.awake /\ e.wired = {}

(* No tab counts as opened by itself. *)
NoOwnOpener(e) ==
    \A v \in Views : IsFromWebView(e.origin[v]) => e.origin[v] # v[2]

(* What an operation in the mode of e wakes is the view it leaves current, *)
(* and it lets that one run only with its signals connected.               *)
Tame(e, f) ==
    /\ \A w \in f.awake : w \in e.awake \/ (w = f.view /\ w[1] = e.mode)
    /\ Heard(e) => Heard(f)
    /\ NoOwnOpener(e) => NoOwnOpener(f)

(* It adds one tab at most, below the limit.                               *)
Grows(e, f) ==
    \/ f.tabs[e.mode] \subseteq e.tabs[e.mode]
    \/ ~AtLimit(e) /\ \E t \in TabIds : f.tabs[e.mode] = e.tabs[e.mode] \cup {t}

Orderly(e, f) == Follows(e, f) /\ Tame(e, f) /\ Grows(e, f)

-----------------------------------------------------------------------------
(***************************************************************************)
(* The operations of the engine.                                           *)
(***************************************************************************)

LEMMA Basics ==
    ASSUME NEW e, EngineOK(e)
    PROVE  /\ e \in EngineState /\ e.mode \in Modes /\ e.awake \subseteq Views
           /\ NoView \notin e.awake /\ Consistent(e)
           /\ e.view # NoView => e.view[1] = e.mode /\ e.view = <<e.mode, CurrentId(e)>>
<1>1. e \in EngineState /\ e.mode \in Modes /\ e.awake \subseteq Views /\ Consistent(e)
  BY DEF EngineOK, Consistent, EngineTypeOK, EngineState
<1>2. NoView \notin Views
  BY DEF NoView, Views, Modes
<1>3. e.view # NoView => e.view = <<e.mode, CurrentId(e)>>
  BY <1>1, CurrentIsLive
<1>4. e.view # NoView => e.view[1] = e.mode
  BY <1>3
<1> QED BY <1>1, <1>2, <1>3, <1>4

LEMMA SameOpeners ==
    ASSUME NEW e, NEW f, f.origin = e.origin
    PROVE  NoOwnOpener(e) => NoOwnOpener(f)
  BY DEF NoOwnOpener

(* After a step that is orderly, these are. *)
LEMMA OrderlyThen ==
    ASSUME NEW e, EngineOK(e), NEW g, Orderly(e, g)
    PROVE  /\ Orderly(e, Suspend(g)) /\ Still(Suspend(g))
           /\ Orderly(e, Resume(g)) /\ Alive(Resume(g))
           /\ Orderly(e, ResumeIfSuspended(g))
           /\ Heard(g) => Alive(ResumeIfSuspended(g))
           /\ \A t : /\ Orderly(e, SwitchToTab(g, t))
                     /\ t \in Tabs(g) => Alive(SwitchToTab(g, t))
                     /\ t \notin Tabs(g) => SwitchToTab(g, t) = g
<1>1. EngineOK(g) /\ Follows(e, g) /\ Tame(e, g) /\ Grows(e, g) /\ g.mode = e.mode
  BY DEF Orderly, Follows, KeepsOther
<1>2. /\ g \in EngineState /\ g.mode \in Modes /\ NoView \notin g.awake
      /\ g.view # NoView => g.view[1] = g.mode /\ g.view = <<g.mode, CurrentId(g)>>
  BY <1>1, Basics
<1>3. /\ Follows(e, Suspend(g)) /\ Follows(e, Resume(g))
      /\ Follows(e, ResumeIfSuspended(g)) /\ \A t : Follows(e, SwitchToTab(g, t))
  BY <1>1, ThenOK
<1>4. Orderly(e, Suspend(g)) /\ Still(Suspend(g))
  <2>1. Tame(e, Suspend(g))
    BY <1>1, <1>2, SuspendAwake, SameOpeners DEF Tame, Heard
  <2>2. Grows(e, Suspend(g))
    BY <1>1, <1>2, SuspendAwake DEF Grows
  <2>3. Suspend(g).wired = {}
    BY <1>1, <1>2, SuspendFacts DEF EngineOK, Consistent
  <2> QED BY <1>2, <1>3, <2>1, <2>2, <2>3, SuspendAwake DEF Orderly, Still
<1>5. Orderly(e, Resume(g)) /\ Alive(Resume(g))
  <2>1. Tame(e, Resume(g))
    BY <1>1, <1>2, ResumeAwake, SameOpeners DEF Tame, Heard
  <2>2. Grows(e, Resume(g))
    BY <1>1, <1>2, ResumeAwake DEF Grows
  <2>3. Alive(Resume(g))
    BY <1>2, ResumeAwake DEF Alive
  <2> QED BY <1>3, <2>1, <2>2, <2>3 DEF Orderly
<1>6. Orderly(e, ResumeIfSuspended(g)) /\ (Heard(g) => Alive(ResumeIfSuspended(g)))
  <2>1. CASE IsSuspended(g)
    BY <1>5, <2>1 DEF ResumeIfSuspended
  <2>2. CASE ~IsSuspended(g)
    BY <2>2 DEF ResumeIfSuspended, IsSuspended, Heard, Alive
  <2> QED BY <2>1, <2>2
<1>7. ASSUME NEW t
      PROVE  /\ Orderly(e, SwitchToTab(g, t))
             /\ t \in Tabs(g) => Alive(SwitchToTab(g, t))
             /\ t \notin Tabs(g) => SwitchToTab(g, t) = g
  <2>1. CASE t \notin Tabs(g)
    BY <2>1 DEF SwitchToTab
  <2>2. CASE t \in Tabs(g) /\ t = CurrentId(g)
    BY <1>5, <2>2 DEF SwitchToTab
  <2>3. CASE t \in Tabs(g) /\ t # CurrentId(g)
    <3> DEFINE f == SwitchToTab(g, t)
    <3>1. /\ f.view = <<g.mode, t>> /\ f.view # NoView /\ f.connected
          /\ f.mode = g.mode /\ f.tabs = g.tabs /\ f.origin = g.origin
          /\ f.awake = (g.awake \ {g.view}) \cup {<<g.mode, t>>}
      BY <1>2, <2>3, SwitchAwake
    <3> HIDE DEF f
    <3>2. f.view[1] = e.mode
      BY <1>1, <3>1
    <3>3. Tame(e, f)
      BY <1>1, <3>1, <3>2, SameOpeners DEF Tame, Heard
    <3>4. Grows(e, f)
      BY <1>1, <3>1 DEF Grows
    <3>5. Alive(f)
      BY <3>1 DEF Alive
    <3> QED BY <1>3, <2>3, <3>3, <3>4, <3>5 DEF Orderly, f
  <2> QED BY <2>1, <2>2, <2>3
<1> QED BY <1>4, <1>5, <1>6, <1>7

LEMMA OrderlyReflexive ==
    ASSUME NEW e, EngineOK(e)
    PROVE  Orderly(e, e)
  BY FollowsReflexive DEF Orderly, Tame, Grows

(* A new tab that is switched to. *)
LEMMA OpenOrderly ==
    ASSUME NoneIsNoTab, NEW e, EngineOK(e), ~AtLimit(e),
           NEW t \in TabIds \ Tabs(e), NEW o \in Origins,
           IsFromWebView(o) => o # t,
           e.mode = "SECRET" => t = e.secretId + 1
    PROVE  /\ Orderly(e, SwitchToTab(AddTab(e, t, o), t))
           /\ Alive(SwitchToTab(AddTab(e, t, o), t))
<1> DEFINE g == AddTab(e, t, o)
           f == SwitchToTab(g, t)
<1>1. Follows(e, f) /\ f.tabs = [e.tabs EXCEPT ![e.mode] = @ \cup {t}]
  BY OpenOK
<1>2. e \in EngineState /\ e.mode \in Modes /\ e.tabs \in [Modes -> SUBSET TabIds]
  BY Basics DEF EngineState
<1>3. <<e.mode, t>> \in Views
  BY <1>2 DEF Views
<1>4. /\ g \in EngineState /\ g.mode = e.mode /\ g.view = e.view /\ g.cur = e.cur
      /\ g.tabs = [e.tabs EXCEPT ![e.mode] = @ \cup {t}]
      /\ g.awake = e.awake \cup {<<e.mode, t>>}
      /\ g.origin = [e.origin EXCEPT ![<<e.mode, t>>] = o]
  BY <1>2, <1>3, IdAssumption DEF AddTab, EngineState
<1>5. t \in Tabs(g) /\ t # CurrentId(g)
  BY <1>2, <1>4, NewIsNotCurrent DEF Tabs, CurrentId
<1> HIDE DEF g
<1>6. /\ f.view = <<e.mode, t>> /\ f.view # NoView /\ f.connected
      /\ f.origin = g.origin
      /\ f.awake = ((e.awake \cup {<<e.mode, t>>}) \ {e.view}) \cup {<<e.mode, t>>}
  <2>1. /\ f.view = <<g.mode, t>> /\ f.view # NoView /\ f.connected
        /\ f.origin = g.origin
        /\ f.awake = (g.awake \ {g.view}) \cup {<<g.mode, t>>}
    BY <1>4, <1>5, SwitchAwake
  <2> QED BY <1>4, <2>1
<1> HIDE DEF f
<1>7. f.view[1] = e.mode
  BY <1>6
<1>8. Tame(e, f)
  <2>1. NoOwnOpener(e) => NoOwnOpener(f)
    <3>1. e.origin \in [Views -> Origins] /\ <<e.mode, t>>[2] = t
      BY <1>2 DEF EngineState
    <3>2. f.origin = [e.origin EXCEPT ![<<e.mode, t>>] = o]
      BY <1>4, <1>6
    <3> QED BY <1>3, <3>1, <3>2 DEF NoOwnOpener
  <2> QED BY <1>6, <1>7, <2>1 DEF Tame, Heard
<1>9. Grows(e, f)
  BY <1>1, <1>2 DEF Grows
<1>10. Alive(f)
  BY <1>6 DEF Alive
<1> QED BY <1>1, <1>8, <1>9, <1>10 DEF Orderly, f, g

(* Closing any id; when no tab of the mode is left there is no view. *)
LEMMA CloseOrderly ==
    ASSUME NEW e, EngineOK(e), NEW t
    PROVE  /\ Orderly(e, CloseTab(e, t))
           /\ Tabs(CloseTab(e, t)) = {} => CloseTab(e, t).view = NoView
<1> DEFINE r == Forget(e, t)
           l == r.mru[e.mode]
           closed == [Disconnect(r) EXCEPT !.cur[e.mode] = NoTab, !.view = NoView]
           next == IF Tabs(r) = {}
                   THEN closed
                   ELSE IF t = CurrentId(e) /\ l # <<>>
                        THEN SwitchToTab(r, Last(l))
                        ELSE r
           f == CloseTab(e, t)
<1>1. Follows(e, f)
  BY CloseOK
<1>2. e \in EngineState /\ e.mode \in Modes /\ NoView \notin e.awake /\ Consistent(e)
      /\ e.tabs \in [Modes -> SUBSET TabIds] /\ e.mru \in [Modes -> Seq(TabIds)]
  BY Basics DEF EngineState
<1> DEFINE w == Without(e.mru[e.mode], t)
<1>3. w \in Seq(TabIds) /\ ToSet(w) = Tabs(e) \ {t}
  BY <1>2, WithoutFacts DEF Consistent, RecentListsTabs, Tabs
<1> HIDE DEF w
<1>4. /\ r \in EngineState /\ r.mode = e.mode /\ r.cur = e.cur /\ r.view = e.view
      /\ r.connected = e.connected /\ r.awake = e.awake /\ r.origin = e.origin
      /\ r.tabs = [e.tabs EXCEPT ![e.mode] = @ \ {t}] /\ r.mru[e.mode] = w
  BY <1>2, <1>3 DEF Forget, EngineState, w
<1> HIDE DEF r
<1>5. Tabs(r) = Tabs(e) \ {t} /\ CurrentId(r) = CurrentId(e)
  BY <1>2, <1>4 DEF Tabs, CurrentId
<1>6. /\ \A v \in next.awake : v \in e.awake \/ (v = next.view /\ v[1] = e.mode)
      /\ Heard(e) => Heard(next)
      /\ next.tabs = r.tabs /\ next.mode = e.mode /\ next.origin = e.origin
      /\ {"view", "connected", "tabs", "mode", "awake", "origin"} \subseteq DOMAIN next
      /\ Tabs(r) = {} => next.view = NoView
  <2> HIDE DEF next
  <2>1. CASE Tabs(r) = {}
    <3>1. next = closed
      BY <2>1 DEF next
    <3>2. /\ closed.awake = e.awake /\ closed.view = NoView /\ closed.tabs = r.tabs
          /\ closed.mode = e.mode /\ closed.origin = e.origin
          /\ {"view", "connected", "tabs", "mode", "awake", "origin"} \subseteq DOMAIN closed
      BY <1>2, <1>4 DEF Disconnect, EngineState
    <3> QED BY <1>2, <3>1, <3>2 DEF Heard
  <2>2. CASE Tabs(r) # {} /\ t = CurrentId(e) /\ l # <<>>
    <3>1. Last(w) \in Tabs(r) /\ Last(w) # t
      BY <1>3, <1>4, <1>5, <2>2, EmptyList
    <3>2. next = SwitchToTab(r, Last(w))
      BY <1>4, <2>2 DEF next
    <3>3. Last(w) # CurrentId(r)
      BY <1>5, <2>2, <3>1
    <3>4. /\ next.view = <<r.mode, Last(w)>> /\ next.connected
          /\ next.mode = r.mode /\ next.tabs = r.tabs /\ next.origin = r.origin
          /\ next.awake = (r.awake \ {r.view}) \cup {<<r.mode, Last(w)>>}
          /\ DOMAIN next = DOMAIN r
      BY <1>4, <3>1, <3>2, <3>3, SwitchAwake
    <3>5. next.view[1] = e.mode
      BY <1>4, <3>4
    <3>6. DOMAIN r = DOMAIN e
      BY <1>2, <1>4 DEF EngineState
    <3>7. {"view", "connected", "tabs", "mode", "awake", "origin"} \subseteq DOMAIN next
      BY <1>2, <3>4, <3>6 DEF EngineState
    <3> QED BY <1>4, <2>2, <3>4, <3>5, <3>7 DEF Heard
  <2>3. CASE Tabs(r) # {} /\ ~(t = CurrentId(e) /\ l # <<>>)
    <3>1. next = r
      BY <2>3 DEF next
    <3>2. {"view", "connected", "tabs", "mode", "awake", "origin"} \subseteq DOMAIN r
      BY <1>4 DEF EngineState
    <3> QED BY <1>4, <2>3, <3>1, <3>2 DEF Heard
  <2> QED BY <2>1, <2>2, <2>3
<1>7. CASE t = NoTab
  <2>1. f = e
    BY <1>7 DEF CloseTab
  <2> QED BY <1>2, <2>1, OrderlyReflexive DEF Consistent, ViewIsCurrent
<1>8. CASE t # NoTab
  <2>1. f = Reap(next)
    BY <1>8 DEF CloseTab, r
  <2> HIDE DEF next, f
  <2>2. /\ f.view = next.view /\ f.connected = next.connected /\ f.tabs = next.tabs
        /\ f.mode = next.mode /\ f.awake \subseteq next.awake
        /\ \A v \in Views : f.origin[v] \in {e.origin[v], Unknown}
    BY <1>6, <2>1 DEF Reap
  <2>3. Tame(e, f)
    <3>1. NoOwnOpener(e) => NoOwnOpener(f)
      BY <2>2 DEF NoOwnOpener, IsFromWebView, Unknown
    <3> QED BY <1>6, <2>2, <3>1 DEF Tame, Heard
  <2>4. f.tabs[e.mode] = Tabs(r) /\ Tabs(f) = Tabs(r)
    BY <1>4, <1>6, <2>2 DEF Tabs
  <2>5. Grows(e, f)
    BY <1>5, <2>4 DEF Grows, Tabs
  <2> QED BY <1>1, <1>6, <2>2, <2>3, <2>4, <2>5 DEF Orderly, f
<1> QED BY <1>7, <1>8

(* An answer wakes a view of the mode; the current one only if it is heard. *)
LEMMA ConfirmOrderly ==
    ASSUME NEW e, EngineOK(e), NEW t,
           <<e.mode, t>> = e.view => e.connected
    PROVE  LET f == ConfirmationResult(e, t)
           IN  /\ Follows(e, f) /\ Grows(e, f)
               /\ \A w \in f.awake : w \in e.awake \/ (w = <<e.mode, t>> /\ t \in Tabs(e))
               /\ e.awake \subseteq f.awake
               /\ t \in Tabs(e) => <<e.mode, t>> \in f.awake
               /\ f.view = e.view /\ f.connected = e.connected
               /\ f.origin = e.origin
               /\ Heard(e) => Heard(f)
<1>1. e \in EngineState
  BY Basics
<1>2. Follows(e, ConfirmationResult(e, t))
  BY ConfirmationOK
<1>3. CASE t \in Tabs(e)
  BY <1>1, <1>2, <1>3 DEF ConfirmationResult, Grows, Heard, EngineState
<1>4. CASE t \notin Tabs(e)
  BY <1>1, <1>2, <1>4 DEF ConfirmationResult, Grows, Heard
<1> QED BY <1>3, <1>4

(* The mode changes: nothing runs that did not, and nothing is heard. *)
LEMMA ChangeStateAwake ==
    ASSUME NEW e, EngineOK(e)
    PROVE  LET f == ChangeState(e)
               m == Other(e.mode)
           IN  /\ f.mode = m /\ f.cur = e.cur /\ f.tabs = e.tabs
               /\ f.origin = e.origin
               /\ f.awake = e.awake \ {e.view}
               /\ f.wired = {}
               /\ f.view = IF e.tabs[m] = {} THEN NoView ELSE <<m, e.cur[m]>>
<1> DEFINE s == Suspend(e)
           m == Other(e.mode)
           f == ChangeState(e)
<1>1. e \in EngineState /\ SignalsMatchFlag(e) /\ ListensToAView(e)
  BY Basics DEF Consistent
<1>2. /\ s \in EngineState /\ s.wired = {} /\ s.tabs = e.tabs /\ s.cur = e.cur
      /\ s.awake = e.awake \ {e.view} /\ s.origin = e.origin
  BY <1>1, SuspendFacts, SuspendAwake
<1>3. f.tabs = e.tabs /\ f.cur = e.cur
  BY ChangeStateOK
<1>4. f = IF s.tabs[m] = {}
          THEN [s EXCEPT !.mode = m, !.view = NoView]
          ELSE [s EXCEPT !.mode = m, !.view = <<m, s.cur[m]>>,
                         !.tabs[m] = @ \cup {s.cur[m]}]
  BY DEF ChangeState
<1> HIDE DEF s, m, f
<1>5. /\ f.mode = m /\ f.awake = s.awake /\ f.wired = s.wired
      /\ f.origin = s.origin
      /\ f.view = IF s.tabs[m] = {} THEN NoView ELSE <<m, s.cur[m]>>
  BY <1>2, <1>4 DEF EngineState
<1> QED BY <1>2, <1>3, <1>5 DEF f, m
-----------------------------------------------------------------------------
(***************************************************************************)
(* The handlers.                                                           *)
(***************************************************************************)

(* addTab, and what is made of the id it returns. *)
LEMMA AddTabsOrderly ==
    ASSUME NoneIsNoTab, NEW e, EngineOK(e), NEW o \in Origins,
           o = CurrentId(e) \/ ~IsFromWebView(o),
           NEW r \in AddTabs(e, o)
    PROVE  /\ Orderly(e, SwitchToTab(r.eng, r.id))
           /\ r.id \in {NoTab, CurrentId(e)} => r.eng = e
           /\ r.id # NoTab => Alive(SwitchToTab(r.eng, r.id))
<1>1. e \in EngineState /\ e.mode \in Modes /\ Consistent(e)
  BY Basics
<1>2. CASE r.eng = e /\ r.id = NoTab
  <2>1. NoTab \notin Tabs(e)
    BY <1>1 DEF NoneIsNoTab, Tabs, EngineState
  <2> QED BY <1>2, <2>1, OrderlyReflexive DEF SwitchToTab
<1>3. CASE AtLimit(e) /\ r = [id |-> CurrentId(e), eng |-> e]
  <2>1. Tabs(e) # {}
    BY <1>3, LimitAssumption, FS_EmptySet DEF AtLimit, TabsCount
  <2>2. e.view # NoView
    BY <1>1, <2>1 DEF Consistent, ViewIsCurrent, NoView, Modes
  <2>3. CurrentId(e) \in Tabs(e)
    BY <1>1, <2>2, CurrentIsLive
  <2> QED BY <1>3, <2>3, OrderlyReflexive, OrderlyThen
<1>4. ASSUME ~AtLimit(e), NEW t \in NewIds(e), r = [id |-> t, eng |-> AddTab(e, t, o)]
      PROVE  /\ Orderly(e, SwitchToTab(r.eng, r.id))
             /\ Alive(SwitchToTab(r.eng, r.id))
             /\ r.id \notin {NoTab, CurrentId(e)}
  <2>1. t \in TabIds \ Tabs(e) /\ (e.mode = "SECRET" => t = e.secretId + 1)
    BY <1>4, NewIdsFacts
  <2>2. t # NoTab /\ t # CurrentId(e)
    BY <2>1, NewIsNotCurrent DEF NoneIsNoTab
  <2>3. /\ Orderly(e, SwitchToTab(AddTab(e, t, o), t))
        /\ Alive(SwitchToTab(AddTab(e, t, o), t))
    BY <1>4, <2>1, <2>2, OpenOrderly
  <2> QED BY <1>4, <2>2, <2>3
<1>5. \/ AtLimit(e) /\ r = [id |-> CurrentId(e), eng |-> e]
      \/ ~AtLimit(e) /\ \E t \in NewIds(e) : r = [id |-> t, eng |-> AddTab(e, t, o)]
      \/ r.eng = e /\ r.id = NoTab
  BY DEF AddTabs
<1> QED BY <1>2, <1>3, <1>4, <1>5

LEMMA OpenNewTabOrderly ==
    ASSUME NoneIsNoTab, NEW e, EngineOK(e), NEW o \in Origins,
           o = CurrentId(e) \/ ~IsFromWebView(o),
           NEW r \in OpenNewTab(e, o)
    PROVE  /\ Orderly(e, r.eng)
           /\ r.shown \in BOOLEAN
           /\ r.shown => Alive(r.eng)
           /\ ~r.shown => r.eng = e
<1>1. PICK q \in AddTabs(e, o) :
          r = IF q.id = NoTab
              THEN [eng |-> q.eng, shown |-> FALSE]
              ELSE [eng |-> SwitchToTab(q.eng, q.id), shown |-> TRUE]
  BY DEF OpenNewTab
<1>2. CASE q.id = NoTab
  <2>1. r.eng = q.eng /\ r.shown = FALSE
    BY <1>1, <1>2
  <2> QED BY <1>2, <2>1, AddTabsOrderly, OrderlyReflexive
<1>3. CASE q.id # NoTab
  <2>1. r.eng = SwitchToTab(q.eng, q.id) /\ r.shown = TRUE
    BY <1>1, <1>3
  <2> QED BY <1>3, <2>1, AddTabsOrderly
<1> QED BY <1>2, <1>3

(* closeTab with what its tabClosed signal runs: without a tab there is no *)
(* view, and else the page there is runs.                                  *)
LEMMA ClosedOrderly ==
    ASSUME NEW e, EngineOK(e), Heard(e), NEW t
    PROVE  LET c == CloseTab(e, t)
               f == AfterTabClosed(c)
           IN  /\ Orderly(e, f) /\ Alive(f)
               /\ Tabs(c) = {} => f.view = NoView
<1> DEFINE c == CloseTab(e, t)
<1>1. Orderly(e, c) /\ (Tabs(c) = {} => c.view = NoView) /\ Heard(c)
  BY CloseOrderly DEF Orderly, Tame
<1> HIDE DEF c
<1>2. CASE Tabs(c) = {}
  BY <1>1, <1>2 DEF AfterTabClosed, Alive, c
<1>3. CASE Tabs(c) # {}
  BY <1>1, <1>3, OrderlyThen DEF AfterTabClosed, c
<1> QED BY <1>2, <1>3

(* The current views of the mode the user is not in do not run: changing   *)
(* the mode shows one of them.                                             *)
AsleepElsewhere == \A m \in Modes \ {eng.mode} : <<m, eng.cur[m]>> \notin eng.awake

(* While a page is on screen it runs, or waits for an answer.              *)
ShownIsAlive ==
    phase = "foreground" /\ wpState = MAIN /\ eng.view # NoView
        => eng.connected /\ (eng.view \in eng.awake \/ eng.view \in pending)

(* A question is open over a page only, so its answer wakes no view behind *)
(* quick access.                                                           *)
HasQuestion(ps) == \E i \in DOMAIN ps : ps[i].kind = "certificate"
QuestionsOverPages == HasQuestion(popups) => wpState = MAIN \/ eng.view = NoView

(* Every question is about a view of mode m.                               *)
AsksIn(ps, m) == \A i \in DOMAIN ps : ps[i].kind = "certificate" => ps[i].view[1] = m

(* Nothing is below the warning about secret mode.                         *)
FirstOnly(ps) == \A i \in DOMAIN ps : ps[i].kind = "firstSecret" => i = 1
PopupsInOrder == (phase = "off" => popups = <<>>) /\ FirstOnly(popups)

(* The grid offers a tab that is gone only over a page: showing that page  *)
(* instead shows no suspended one.                                         *)
GridIsFresh ==
    Top = "tabUI" /\ wpState # MAIN /\ eng.view # NoView => items \subseteq Tabs(eng)

LInv ==
    /\ Heard(eng) /\ AsleepElsewhere
    /\ ShownIsAlive /\ QuestionsOverPages /\ PopupsInOrder /\ GridIsFresh
    /\ NoOwnOpener(eng)

(* What is left of a handler that does nothing to the page.                *)
Steady ==
    /\ wpState' = wpState /\ phase' = phase
    /\ eng'.view = eng.view /\ eng'.connected = eng.connected
    /\ eng.view \in eng.awake \cup pending => eng.view \in eng'.awake \cup pending'

(* A handler shows a page that runs, leaves one that does not, or neither. *)
Shows ==
    \/ Alive(eng') /\ wpState' \in {MAIN, wpState}
    \/ Still(eng') /\ (wpState' = QA \/ (phase' # "foreground" /\ wpState' = wpState))
    \/ Alive(eng') /\ Still(eng')
    \/ Steady

(* A request for a decision puts its view to sleep; the answer wakes it.   *)
LEMMA RequestStep ==
    ASSUME Inv, LInv, NEW v \in Views, NEW allowed \in BOOLEAN,
           CertificateRequest(v, allowed)
    PROVE  Orderly(eng, eng') /\ Steady
<1> DEFINE asked == [eng EXCEPT !.awake = @ \ {v}]
<1>1. /\ EngineOK(eng) /\ eng \in EngineState /\ Consistent(eng) /\ eng.mode \in Modes
      /\ wpState' = wpState /\ phase' = phase
  BY Basics DEF Inv, CertificateRequest, lifecycle, page
<1>2. Orderly(eng, asked) /\ Heard(asked)
  <2>1. eng.awake \ {v} \subseteq Live(eng)
    BY <1>1 DEF EngineOK, NoGhosts
  <2>2. Follows(eng, asked)
    BY <1>1, <2>1, AwakeOK
  <2>3. Tame(eng, asked) /\ Grows(eng, asked) /\ Heard(asked)
    BY <1>1 DEF Tame, Grows, Heard, NoOwnOpener, LInv, EngineState
  <2> QED BY <2>2, <2>3 DEF Orderly
<1>3. /\ asked.view = eng.view /\ asked.connected = eng.connected
      /\ asked.mode = eng.mode /\ asked.tabs = eng.tabs
      /\ asked.awake = eng.awake \ {v} /\ asked.origin = eng.origin
  BY <1>1 DEF EngineState
<1>4. CASE v \in eng.wired /\ wpState = MAIN /\ allowed
  <2>1. v = eng.view /\ eng.connected /\ eng.view # NoView
    BY <1>1, <1>4 DEF Consistent, SignalsMatchFlag, ListensToAView
  <2>2. v = <<eng.mode, v[2]>> /\ v[2] \in Tabs(asked)
    BY <1>1, <1>3, <2>1, CurrentIsLive DEF Tabs
  <2>3. eng' = ConfirmationResult(asked, v[2]) /\ pending' = pending
    BY <1>4 DEF CertificateRequest, dialogs
  <2> HIDE DEF asked
  <2>4. EngineOK(asked)
    BY <1>2 DEF Orderly, Follows
  <2>5. /\ Follows(asked, eng') /\ Grows(asked, eng') /\ eng'.view = asked.view
        /\ \A w \in eng'.awake : w \in asked.awake \/ w = v
        /\ asked.awake \subseteq eng'.awake /\ v \in eng'.awake
        /\ eng'.connected = asked.connected /\ eng'.origin = asked.origin
    <3> DEFINE t == v[2]
    <3>1. eng' = ConfirmationResult(asked, t) /\ t \in Tabs(asked)
      BY <2>2, <2>3
    <3>2. <<asked.mode, t>> = v /\ asked.connected
      BY <1>3, <2>1, <2>2
    <3> HIDE DEF t
    <3>3. /\ Follows(asked, eng') /\ Grows(asked, eng')
          /\ \A w \in eng'.awake : w \in asked.awake \/ w = <<asked.mode, t>>
          /\ asked.awake \subseteq eng'.awake
          /\ <<asked.mode, t>> \in eng'.awake
          /\ eng'.view = asked.view /\ eng'.connected = asked.connected
          /\ eng'.origin = asked.origin
      BY <2>4, <3>1, <3>2, ConfirmOrderly
    <3> QED BY <3>2, <3>3
  <2>6. Tame(eng, eng')
    BY <1>1, <1>3, <2>1, <2>5, Basics, SameOpeners DEF Tame, Heard
  <2>7. Follows(eng, eng')
    BY <1>2, <2>5, FollowsTransitive DEF Orderly
  <2>8. eng'.tabs = eng.tabs
    <3>1. eng' = [asked EXCEPT !.awake = @ \cup {<<asked.mode, v[2]>>}]
      BY <2>2, <2>3 DEF ConfirmationResult
    <3>2. asked \in EngineState
      BY <2>4, Basics
    <3>3. eng'.tabs = asked.tabs
      BY <3>1, <3>2 DEF EngineState
    <3> QED BY <1>3, <3>3
  <2> QED BY <1>1, <1>3, <2>1, <2>5, <2>6, <2>7, <2>8 DEF Orderly, Grows, Steady
<1>5. CASE ~(v \in eng.wired /\ wpState = MAIN /\ allowed)
  <2>1. eng' = asked /\ pending' = pending \cup {v}
    BY <1>5 DEF CertificateRequest
  <2> HIDE DEF asked
  <2> QED BY <1>1, <1>2, <1>3, <2>1 DEF Steady
<1> QED BY <1>4, <1>5

LEMMA AnswerStep ==
    ASSUME Inv, LInv, CertificateAnswered
    PROVE  /\ Follows(eng, eng') /\ Grows(eng, eng') /\ Heard(eng')
           /\ \A w \in eng'.awake : w \in eng.awake \/ w[1] = eng.mode
           /\ eng'.origin = eng.origin
           /\ Steady
<1> DEFINE t == Last(popups).view[2]
           w == <<eng.mode, t>>
<1>1. /\ EngineOK(eng) /\ eng \in EngineState /\ Consistent(eng) /\ phase = "foreground"
      /\ eng' = ConfirmationResult(eng, t) /\ pending' = pending \ {w}
      /\ wpState' = wpState /\ phase' = phase
  BY Basics DEF Inv, CertificateAnswered, lifecycle, page
<1>2. HasQuestion(popups)
  <2>1. Len(popups) \in DOMAIN popups /\ Last(popups) = popups[Len(popups)]
    BY DEF CertificateAnswered, Inv, TypeOK, Last
  <2> QED BY <2>1 DEF CertificateAnswered, HasQuestion
<1> HIDE DEF t
<1>3. w = eng.view => eng.connected
  BY <1>1, <1>2 DEF LInv, QuestionsOverPages, ShownIsAlive, NoView, Modes, EngineState
<1>4. w = eng.view => t \in Tabs(eng)
  <2>1. SUFFICES ASSUME w = eng.view PROVE t \in Tabs(eng)
    OBVIOUS
  <2>2. eng.view # NoView
    BY <1>1, <2>1 DEF NoView, Modes, EngineState
  <2> QED BY <1>1, <2>1, <2>2, CurrentIsLive
<1>5. /\ Follows(eng, eng') /\ Grows(eng, eng') /\ eng'.view = eng.view
      /\ \A x \in eng'.awake : x \in eng.awake \/ x = w
      /\ eng.awake \subseteq eng'.awake
      /\ t \in Tabs(eng) => w \in eng'.awake
      /\ eng'.connected = eng.connected /\ Heard(eng')
      /\ eng'.origin = eng.origin
  BY <1>1, <1>3, ConfirmOrderly DEF LInv
<1>6. w[1] = eng.mode
  OBVIOUS
<1> QED BY <1>1, <1>4, <1>5, <1>6 DEF Steady

LEMMA NoViewIsStill ==
    ASSUME NEW e, EngineOK(e), e.view = NoView
    PROVE  Alive(e) /\ Still(e)
  BY Basics DEF Alive, Still, Consistent, SignalsMatchFlag, ListensToAView

LEMMA ChangeStateStill ==
    ASSUME Inv, LInv, eng' = ChangeState(eng)
    PROVE  Still(eng') /\ AsleepElsewhere'
<1> DEFINE m == Other(eng.mode)
<1>1. EngineOK(eng) /\ eng \in EngineState /\ eng.mode \in Modes /\ Consistent(eng)
      /\ NoView \notin eng.awake
  BY Basics DEF Inv
<1>2. /\ eng'.mode = m /\ eng'.cur = eng.cur /\ eng'.wired = {}
      /\ eng'.awake = eng.awake \ {eng.view}
      /\ eng'.view = IF eng.tabs[m] = {} THEN NoView ELSE <<m, eng.cur[m]>>
  BY <1>1, ChangeStateAwake
<1>3. m \in Modes \ {eng.mode} /\ Modes \ {m} = {eng.mode}
  BY <1>1 DEF Other, Modes
<1> HIDE DEF m
<1>4. Still(eng')
  BY <1>1, <1>2, <1>3 DEF Still, LInv, AsleepElsewhere
<1>5. <<eng.mode, eng.cur[eng.mode]>> \notin eng.awake \ {eng.view}
  <2>1. CASE eng.view = NoView
    <3>1. Tabs(eng) = {}
      BY <1>1, <2>1 DEF Consistent, ViewIsCurrent, NoView, Modes
    <3>2. <<eng.mode, eng.cur[eng.mode]>> \notin Live(eng)
      BY <3>1 DEF Live, Tabs
    <3> QED BY <1>1, <3>2 DEF EngineOK, NoGhosts
  <2>2. CASE eng.view # NoView
    BY <1>1, <2>2, CurrentIsLive DEF CurrentId
  <2> QED BY <2>1, <2>2
<1> QED BY <1>2, <1>3, <1>4, <1>5 DEF AsleepElsewhere

(* The two handlers that change the mode. *)
ChangesMode ==
    (ChangeEngineState \/ SwitchToSecretFirstTime) /\ eng' = ChangeState(eng)

(* What every handler does to the engine and to the page on screen. *)
LEMMA HandlerStep ==
    ASSUME NoneIsNoTab, Inv, LInv, Next
    PROVE  /\ Orderly(eng, eng') \/ CertificateAnswered \/ ChangesMode
           /\ Shows
<1> DEFINE Done == /\ Orderly(eng, eng') \/ CertificateAnswered \/ ChangesMode
                   /\ Shows
<1>1. /\ EngineOK(eng) /\ eng \in EngineState /\ Consistent(eng) /\ Heard(eng)
      /\ wpState \in {QA, MAIN} /\ QA # MAIN
  BY Basics DEF Inv, LInv, TypeOK, QA, MAIN
<1>2. CurrentId(eng) \in Origins /\ Unknown \in Origins /\ QuickAccess \in Origins
  BY <1>1 DEF Origins, Unknown, NoTab, CurrentId, EngineState
<1>3. /\ Orderly(eng, eng)
      /\ Orderly(eng, Suspend(eng)) /\ Still(Suspend(eng))
      /\ Orderly(eng, Resume(eng)) /\ Alive(Resume(eng))
      /\ Orderly(eng, ResumeIfSuspended(eng)) /\ Alive(ResumeIfSuspended(eng))
      /\ \A t : Orderly(eng, SwitchToTab(eng, t))
  BY <1>1, OrderlyReflexive, OrderlyThen
<1>4. ASSUME NEW o \in {Unknown, QuickAccess}, NEW r \in OpenNewTab(eng, o)
      PROVE  /\ Orderly(eng, r.eng) /\ r.shown \in BOOLEAN
             /\ Orderly(eng, Resume(r.eng)) /\ Alive(Resume(r.eng))
             /\ r.shown => Alive(r.eng)
             /\ ~r.shown => r.eng = eng
  <2>1. o \in Origins /\ ~IsFromWebView(o)
    BY <1>2 DEF Unknown, QuickAccess, IsFromWebView
  <2>2. /\ Orderly(eng, r.eng) /\ r.shown \in BOOLEAN
        /\ r.shown => Alive(r.eng)
        /\ ~r.shown => r.eng = eng
    BY <1>1, <2>1, OpenNewTabOrderly
  <2> QED BY <1>1, <2>2, OrderlyThen
<1>5. ASSUME NEW t
      PROVE  LET c == CloseTab(eng, t)
                 f == AfterTabClosed(c)
             IN  /\ Orderly(eng, f) /\ Alive(f)
                 /\ Tabs(c) = {} => Still(f)
                 /\ ShownAfterClose(c) = IF Tabs(c) = {} THEN QA ELSE MAIN
                 /\ Orderly(eng, Suspend(f)) /\ Still(Suspend(f))
                 /\ \A u : /\ Orderly(eng, SwitchToTab(f, u)) /\ Alive(SwitchToTab(f, u))
                           /\ Tabs(c) = {} => Still(SwitchToTab(f, u))
  <2> DEFINE c == CloseTab(eng, t)
             f == AfterTabClosed(c)
  <2>1. Orderly(eng, f) /\ Alive(f) /\ (Tabs(c) = {} => f.view = NoView)
    BY <1>1, ClosedOrderly
  <2>2. EngineOK(f)
    BY <2>1 DEF Orderly, Follows
  <2>3. Tabs(c) = {} => Still(f) /\ Tabs(f) = {}
    <3>1. Tabs(c) = {} => f = c
      BY DEF AfterTabClosed
    <3> QED BY <2>1, <2>2, <3>1, NoViewIsStill
  <2>4. ShownAfterClose(c) = IF Tabs(c) = {} THEN QA ELSE MAIN
    BY DEF ShownAfterClose
  <2> HIDE DEF c, f
  <2>5. Orderly(eng, Suspend(f)) /\ Still(Suspend(f))
    BY <1>1, <2>1, OrderlyThen
  <2>6. ASSUME NEW u
        PROVE  /\ Orderly(eng, SwitchToTab(f, u)) /\ Alive(SwitchToTab(f, u))
               /\ Tabs(c) = {} => Still(SwitchToTab(f, u))
    <3>1. /\ Orderly(eng, SwitchToTab(f, u))
          /\ u \in Tabs(f) => Alive(SwitchToTab(f, u))
          /\ u \notin Tabs(f) => SwitchToTab(f, u) = f
      BY <1>1, <2>1, OrderlyThen
    <3> QED BY <2>1, <2>3, <3>1
  <2> QED BY <2>1, <2>3, <2>4, <2>5, <2>6 DEF c, f
<1>6. ASSUME NEW r \in {"launch", "url", "search"}, Exec(r)
      PROVE  Done
  BY <1>3, <1>6 DEF Exec, Shows, Steady, page, dialogs
<1>7. ASSUME NEW rows \in Sessions, Launch(rows)
      PROVE  Done
  BY <1>3, <1>7 DEF Launch, PageShows, Shows
<1>8. ASSUME NEW o \in Origins \ {0}, RestoreTab(o)
      PROVE  Done
  <2>1. wpState' = MAIN
    BY <1>8 DEF RestoreTab
  <2>2. CASE AtLimit(eng)
    <3>1. Tabs(eng) # {}
      BY <2>2, LimitAssumption, FS_EmptySet DEF AtLimit, TabsCount
    <3>2. eng.view # NoView
      BY <1>1, <3>1 DEF Consistent, ViewIsCurrent, NoView, Modes, EngineState
    <3>3. CurrentId(eng) \in Tabs(eng)
      BY <1>1, <3>2, CurrentIsLive
    <3>4. Orderly(eng, eng') /\ Alive(eng')
      BY <1>1, <1>3, <1>8, <2>2, <3>3, OrderlyThen DEF RestoreTab
    <3> QED BY <2>1, <3>4 DEF Shows
  <2>3. CASE ~AtLimit(eng)
    <3> DEFINE t == Head(toRestore)
    <3>1. t \in TabIds \ Tabs(eng) /\ eng.mode = "NORMAL"
      <4>1. toRestore \in Seq(NormalIds) /\ toRestore # <<>>
        BY <1>8 DEF RestoreTab, Inv, TypeOK
      <4>2. t \in ToSet(toRestore) /\ t \in NormalIds
        BY <4>1, HeadAndTail
      <4> QED BY <1>8, <4>2, IdAssumption DEF RestoreTab, Inv, StartOK, Tabs
    <3>2. eng' = SwitchToTab(AddTab(eng, t, o), t)
      BY <1>8, <2>3 DEF RestoreTab
    <3>3. Orderly(eng, eng') /\ Alive(eng')
      BY <1>1, <1>8, <2>3, <3>1, <3>2, OpenOrderly DEF RestoreTab
    <3> QED BY <2>1, <3>3 DEF Shows
  <2> QED BY <2>2, <2>3
<1>9. CASE FinishLaunch \/ AppResume
  BY <1>3, <1>9 DEF FinishLaunch, AppResume, page, Shows
<1>10. CASE ResumeWithUrl
  <2>1. PICK r \in OpenNewTab(eng, Unknown) : Opened(r) /\ eng' = Resume(r.eng)
    BY <1>10 DEF ResumeWithUrl
  <2> QED BY <1>2, <1>4, <2>1 DEF Opened, Shows
<1>11. CASE AppPause
  BY <1>3, <1>11 DEF AppPause, page, Shows
<1>12. CASE OpenURL
  <2>1. wpState' \in {MAIN, wpState} /\ phase' = phase /\ pending' = pending
    BY <1>12 DEF OpenURL, Opened, lifecycle
  <2>2. CASE eng' = ResumeIfSuspended(eng)
    BY <1>3, <2>1, <2>2 DEF Shows
  <2>3. CASE \E r \in OpenNewTab(eng, QuickAccess) : Opened(r) /\ eng' = r.eng
    <3>1. PICK r \in OpenNewTab(eng, QuickAccess) : Opened(r) /\ eng' = r.eng
      BY <2>3
    <3>2. CASE r.shown
      BY <1>2, <1>4, <2>1, <3>1, <3>2 DEF Shows
    <3>3. CASE ~r.shown
      BY <1>2, <1>3, <1>4, <2>1, <3>1, <3>3 DEF Shows, Steady, Opened
    <3> QED BY <3>2, <3>3
  <2> QED BY <1>12, <2>2, <2>3 DEF OpenURL
<1>13. ASSUME NEW o \in {Unknown, QuickAccess}, phase' = phase, pending' = pending,
              \E r \in OpenNewTab(eng, o) : Opened(r) /\ eng' = r.eng
       PROVE  Done
  <2>1. PICK r \in OpenNewTab(eng, o) : Opened(r) /\ eng' = r.eng
    BY <1>13
  <2>2. CASE r.shown
    BY <1>4, <2>1, <2>2 DEF Shows, Opened
  <2>3. CASE ~r.shown
    BY <1>3, <1>4, <1>13, <2>1, <2>3 DEF Shows, Steady, Opened
  <2> QED BY <2>2, <2>3
<1>14. CASE HomeClicked
  <2>1. CASE eng' = Suspend(eng) /\ wpState' = QA
    BY <1>3, <2>1 DEF Shows
  <2>2. CASE \E r \in OpenNewTab(eng, Unknown) : Opened(r) /\ eng' = r.eng
    BY <1>2, <1>13, <1>14, <2>2 DEF HomeClicked, lifecycle
  <2> QED BY <1>14, <2>1, <2>2 DEF HomeClicked, ShowHomePage, PageShows
<1>15. CASE NewTabClicked
  <2>1. CASE eng' = Suspend(eng) /\ wpState' = QA
    BY <1>3, <2>1 DEF Shows
  <2>2. CASE \E r \in OpenNewTab(eng, Unknown) : Opened(r) /\ eng' = r.eng
    BY <1>2, <1>13, <1>15, <2>2 DEF NewTabClicked, lifecycle
  <2>3. CASE UNCHANGED <<eng, page>>
    BY <1>3, <1>15, <2>3 DEF NewTabClicked, lifecycle, page, Shows, Steady
  <2> QED BY <1>15, <2>1, <2>2, <2>3 DEF NewTabClicked
<1>16. CASE BackPage
  BY <1>3, <1>16 DEF BackPage, page, Shows
<1>17. CASE ShowTabUI \/ CloseView \/ BackFromView \/ BackOnPage \/ ViewCertificate
            \/ OnFirstSecretMode \/ DismissPopup
  BY <1>3, <1>17
  DEF ShowTabUI, CloseView, BackFromView, BackOnPage, ViewCertificate,
      OnFirstSecretMode, DismissPopup, page, dialogs, lifecycle, Shows, Steady
<1>18. ASSUME NEW v \in {"passwordUI", "other"}, PushView(v)
       PROVE  Done
  BY <1>3, <1>18 DEF PushView, page, dialogs, lifecycle, Shows, Steady
<1>19. CASE ChangeEngineState \/ SwitchToSecretFirstTime
  BY <1>19, ChangeStateStill
  DEF ChangesMode, ChangeEngineState, SwitchToSecretFirstTime, PageShows, Shows
<1>20. ASSUME NEW t \in TabIds, TabClicked(t)
       PROVE  Done
  <2>1. eng' = SwitchToTab(eng, t) /\ wpState' = MAIN /\ phase' = phase
        /\ pending' = pending /\ t \in items /\ Top = "tabUI"
    BY <1>20 DEF TabClicked, PageShows, lifecycle, dialogs, Touchable
  <2>2. CASE t \in Tabs(eng)
    BY <1>1, <1>3, <2>1, <2>2, OrderlyThen DEF Shows
  <2>3. CASE t \notin Tabs(eng)
    <3>1. eng' = eng
      BY <2>1, <2>3 DEF SwitchToTab
    <3>2. wpState = MAIN \/ eng.view = NoView
      BY <2>1, <2>3 DEF LInv, GridIsFresh
    <3> QED BY <1>1, <1>3, <2>1, <3>1, <3>2, NoViewIsStill DEF Shows, Steady
  <2> QED BY <2>2, <2>3
<1>21. ASSUME NEW t,
              eng' = AfterTabClosed(CloseTab(eng, t)),
              wpState' = ShownAfterClose(CloseTab(eng, t))
       PROVE  Done
  BY <1>5, <1>21 DEF Shows
<1>22. ASSUME NEW t \in TabIds, CloseTabsClicked(t)
       PROVE  Done
  <2>1. CASE t = NoTab
    BY <1>3, <1>22, <2>1 DEF CloseTabsClicked, lifecycle, page, Shows, Steady
  <2>2. CASE t # NoTab
    BY <1>21, <1>22, <2>2 DEF CloseTabsClicked, EngineBecomes, PageShows
  <2> QED BY <2>1, <2>2
<1>23. CASE BackFromQuickAccess
  BY <1>3, <1>23 DEF BackFromQuickAccess, PageShows, Shows
<1>24. CASE BackToOpener
  <2> DEFINE c == CloseTab(eng, CurrentId(eng))
  <2>1. eng' = SwitchToTab(AfterTabClosed(c), eng.origin[eng.view])
        /\ wpState' = ShownAfterClose(c)
    BY <1>24 DEF BackToOpener, EngineBecomes
  <2> QED BY <1>5, <2>1 DEF Shows
<1>25. CASE BackToQuickAccess
  BY <1>5, <1>25 DEF BackToQuickAccess, EngineBecomes, Shows
<1>26. ASSUME NEW v \in Views, NewWindowRequest(v)
       PROVE  Done
  <2>1. PICK r \in AddTabs(eng, CurrentId(eng)) :
           IF r.id = CurrentId(eng)
           THEN eng' = r.eng /\ UNCHANGED wpState
           ELSE /\ eng' = ResumeIfSuspended(SwitchToTab(r.eng, r.id))
                /\ wpState' = MAIN
    BY <1>26 DEF NewWindowRequest
  <2>2. phase' = phase /\ pending' = pending
    BY <1>26 DEF NewWindowRequest, lifecycle
  <2>3. /\ Orderly(eng, SwitchToTab(r.eng, r.id))
        /\ r.id = CurrentId(eng) => r.eng = eng
    BY <1>1, <1>2, AddTabsOrderly
  <2>4. CASE r.id = CurrentId(eng)
    BY <1>3, <2>1, <2>2, <2>3, <2>4 DEF Shows, Steady
  <2>5. CASE r.id # CurrentId(eng)
    <3>1. Heard(SwitchToTab(r.eng, r.id))
      BY <1>1, <2>3 DEF Orderly, Tame
    <3>2. Orderly(eng, eng') /\ Alive(eng')
      BY <1>1, <2>1, <2>3, <2>5, <3>1, OrderlyThen
    <3> QED BY <2>1, <2>5, <3>2 DEF Shows
  <2> QED BY <2>4, <2>5
<1>27. ASSUME NEW v \in Views, CloseWindowRequest(v)
       PROVE  Done
  <2>1. CASE v[2] = NoTab
    BY <1>3, <1>27, <2>1 DEF CloseWindowRequest, lifecycle, page, Shows, Steady
  <2>2. CASE v[2] # NoTab
    BY <1>21, <1>27, <2>2 DEF CloseWindowRequest, EngineBecomes, PageShows
  <2> QED BY <2>1, <2>2
<1>28. ASSUME NEW v \in Views, NEW allowed \in BOOLEAN, CertificateRequest(v, allowed)
       PROVE  Done
  BY <1>28, RequestStep DEF Shows
<1>29. CASE CertificateAnswered
  BY <1>29, AnswerStep DEF Shows
<1> QED
  BY <1>6, <1>7, <1>8, <1>9, <1>10, <1>11, <1>12, <1>14, <1>15, <1>16,
     <1>17, <1>18, <1>19, <1>20, <1>22, <1>23, <1>24, <1>25, <1>26,
     <1>27, <1>28, <1>29
  DEF Next, LifeCycle, Touch, BackKey, PageCallback

-----------------------------------------------------------------------------
(***************************************************************************)
(* What lies over the page.                                                *)
(***************************************************************************)

(* What a handler may do to the popups. *)
LEMMA PopupCases ==
    ASSUME Inv, LInv, Next
    PROVE  /\ \/ popups' = popups
              \/ popups' = Append(popups, Popup("limit", NoView))
              \/ popups' = Append(popups, Popup("certInfo", NoView))
              \/ popups = <<>> /\ popups' = Append(popups, Popup("firstSecret", NoView))
              \/ popups # <<>> /\ popups' = Front(popups)
              \/ /\ \E v \in Views : /\ v \in eng.wired
                                   /\ popups' = Append(popups, Popup("certificate", v))
                 /\ wpState' = MAIN
           /\ phase' = "off" => phase = "off" /\ popups' = popups
<1>1. CASE LifeCycle
  BY <1>1
  DEF LifeCycle, Exec, Launch, RestoreTab, FinishLaunch, ResumeWithUrl, AppResume,
      AppPause, Opened, CheckIfCreate, dialogs
<1>2. CASE Touch
  BY <1>2
  DEF Touch, OpenURL, HomeClicked, ShowHomePage, NewTabClicked, BackPage, ShowTabUI,
      PushView, CloseView, TabClicked, CloseTabsClicked, ChangeEngineState,
      OnFirstSecretMode, SwitchToSecretFirstTime, CertificateAnswered, ViewCertificate,
      DismissPopup, Opened, CheckIfCreate, Touchable, lifecycle, dialogs
<1>3. CASE BackKey
  BY <1>3
  DEF BackKey, BackFromView, BackFromQuickAccess, BackOnPage, BackToOpener,
      BackToQuickAccess, Touchable, lifecycle, dialogs
<1>4. CASE PageCallback
  BY <1>4
  DEF PageCallback, NewWindowRequest, CloseWindowRequest, CertificateRequest,
      CheckIfCreate, Running, lifecycle, page, dialogs
<1> QED BY <1>1, <1>2, <1>3, <1>4 DEF Next

LEMMA AppendedPopup ==
    ASSUME NEW ps \in Seq(PopupSet), NEW x \in PopupSet
    PROVE  /\ HasQuestion(Append(ps, x)) => HasQuestion(ps) \/ x.kind = "certificate"
           /\ FirstOnly(ps) /\ (x.kind = "firstSecret" => ps = <<>>)
                 => FirstOnly(Append(ps, x))
           /\ \A m : AsksIn(ps, m) /\ (x.kind = "certificate" => x.view[1] = m)
                 => AsksIn(Append(ps, x), m)
<1>1. /\ Append(ps, x) \in Seq(PopupSet) /\ Len(Append(ps, x)) = Len(ps) + 1
      /\ \A i \in 1 .. Len(ps) : Append(ps, x)[i] = ps[i]
      /\ Append(ps, x)[Len(ps) + 1] = x /\ Len(ps) \in Nat
      /\ ps = <<>> => Len(ps) = 0
  OBVIOUS
<1> DEFINE a == Append(ps, x)
<1> HIDE DEF a
<1>2. /\ DOMAIN a = 1 .. Len(ps) + 1 /\ DOMAIN ps = 1 .. Len(ps)
      /\ \A i \in 1 .. Len(ps) : a[i] = ps[i]
      /\ a[Len(ps) + 1] = x /\ Len(ps) \in Nat
      /\ ps = <<>> => Len(ps) = 0
  BY <1>1 DEF a
<1>3. \A i \in 1 .. Len(ps) + 1 : i \in 1 .. Len(ps) \/ i = Len(ps) + 1
  BY <1>2
<1>4. HasQuestion(a) => HasQuestion(ps) \/ x.kind = "certificate"
  BY <1>2, <1>3 DEF HasQuestion
<1>5. FirstOnly(ps) /\ (x.kind = "firstSecret" => ps = <<>>) => FirstOnly(a)
  BY <1>2, <1>3 DEF FirstOnly
<1>6. \A m : AsksIn(ps, m) /\ (x.kind = "certificate" => x.view[1] = m) => AsksIn(a, m)
  BY <1>2, <1>3 DEF AsksIn
<1> QED BY <1>4, <1>5, <1>6 DEF a

LEMMA FrontPopups ==
    ASSUME NEW ps \in Seq(PopupSet), ps # <<>>
    PROVE  /\ HasQuestion(Front(ps)) => HasQuestion(ps)
           /\ FirstOnly(ps) => FirstOnly(Front(ps))
           /\ \A m : AsksIn(ps, m) => AsksIn(Front(ps), m)
           /\ FirstOnly(ps) /\ Last(ps).kind = "firstSecret" => ~HasQuestion(Front(ps))
<1>1. Len(ps) \in Nat \ {0}
  OBVIOUS
<1>2. /\ Front(ps) \in Seq(PopupSet) /\ Len(Front(ps)) = Len(ps) - 1
      /\ \A i \in 1 .. Len(ps) - 1 : Front(ps)[i] = ps[i]
  <2> DEFINE n == Len(ps) - 1
             u == SubSeq(ps, 1, n)
  <2>1. 1 \in 1 .. Len(ps) + 1 /\ n \in 1 - 1 .. Len(ps) /\ n \in Nat
    BY <1>1
  <2> HIDE DEF n
  <2>2. /\ u \in Seq(PopupSet)
        /\ Len(u) = IF 1 <= n THEN n - 1 + 1 ELSE 0
        /\ \A i \in 1 .. n - 1 + 1 : u[i] = ps[1 + i - 1]
    BY <2>1, SubSeqProperties
  <2>3. Front(ps) = u
    BY DEF Front, n
  <2> HIDE DEF u
  <2>4. Len(u) = n /\ \A i \in 1 .. n : u[i] = ps[i]
    <3>1. \A i \in 1 .. n : i \in 1 .. n - 1 + 1 /\ 1 + i - 1 = i
      BY <2>1
    <3> QED BY <2>1, <2>2, <3>1
  <2> QED BY <2>2, <2>3, <2>4 DEF n
<1> DEFINE f == Front(ps)
<1> HIDE DEF f
<1>3. /\ DOMAIN f = 1 .. Len(ps) - 1 /\ DOMAIN ps = 1 .. Len(ps)
      /\ \A i \in 1 .. Len(ps) - 1 : f[i] = ps[i] /\ i \in 1 .. Len(ps)
  BY <1>1, <1>2 DEF f
<1>4. HasQuestion(f) => HasQuestion(ps)
  BY <1>3 DEF HasQuestion
<1>5. FirstOnly(ps) => FirstOnly(f)
  BY <1>3 DEF FirstOnly
<1>6. ASSUME FirstOnly(ps), Last(ps).kind = "firstSecret"
      PROVE  ~HasQuestion(f)
  <2>1. Len(ps) \in DOMAIN ps /\ Last(ps) = ps[Len(ps)]
    BY <1>1, <1>3 DEF Last
  <2>2. Len(ps) = 1
    BY <1>6, <2>1 DEF FirstOnly
  <2>3. DOMAIN f = {}
    BY <1>3, <2>2
  <2> QED BY <2>3 DEF HasQuestion
<1>7. \A m : AsksIn(ps, m) => AsksIn(f, m)
  BY <1>3 DEF AsksIn
<1> QED BY <1>4, <1>5, <1>6, <1>7 DEF f

LEMMA PopupsStep ==
    ASSUME Inv, LInv, Next
    PROVE  /\ PopupsInOrder'
           /\ HasQuestion(popups') => HasQuestion(popups) \/ wpState' = MAIN
<1>1. popups \in Seq(PopupSet) /\ FirstOnly(popups)
  BY DEF Inv, TypeOK, LInv, PopupsInOrder
<1>2. phase' = "off" => popups' = <<>>
  BY PopupCases DEF LInv, PopupsInOrder
<1>3. ASSUME NEW kind \in {"limit", "certInfo", "firstSecret"}
      PROVE  Popup(kind, NoView) \in PopupSet /\ Popup(kind, NoView).kind = kind
  BY DEF Popup, PopupSet
<1>4. ASSUME NEW v \in Views
      PROVE  Popup("certificate", v) \in PopupSet /\ Popup("certificate", v).kind = "certificate"
  BY DEF Popup, PopupSet
<1>5. CASE popups' = popups
  BY <1>1, <1>2, <1>5 DEF PopupsInOrder
<1>6. CASE popups' = Append(popups, Popup("limit", NoView))
           \/ popups' = Append(popups, Popup("certInfo", NoView))
  BY <1>1, <1>2, <1>3, <1>6, AppendedPopup DEF PopupsInOrder
<1>7. CASE popups = <<>> /\ popups' = Append(popups, Popup("firstSecret", NoView))
  BY <1>1, <1>2, <1>3, <1>7, AppendedPopup DEF PopupsInOrder
<1>8. CASE popups # <<>> /\ popups' = Front(popups)
  BY <1>1, <1>2, <1>8, FrontPopups DEF PopupsInOrder
<1>9. CASE /\ \E v \in Views : popups' = Append(popups, Popup("certificate", v))
           /\ wpState' = MAIN
  BY <1>1, <1>2, <1>4, <1>9, AppendedPopup DEF PopupsInOrder
<1> QED BY <1>5, <1>6, <1>7, <1>8, <1>9, PopupCases

LEMMA OverStep ==
    ASSUME NoneIsNoTab, Inv, LInv, Next
    PROVE  QuestionsOverPages' /\ GridIsFresh'
<1> DEFINE Done == QuestionsOverPages' /\ GridIsFresh'
<1>1. /\ EngineOK(eng) /\ eng \in EngineState /\ Consistent(eng) /\ Heard(eng)
      /\ stack \in Seq(UIViews) /\ popups \in Seq(PopupSet)
      /\ CurrentId(eng) \in Origins /\ Unknown \in Origins
  BY Basics DEF Inv, LInv, TypeOK, Origins, CurrentId, Unknown, NoTab, EngineState
<1>2. popups = <<>> => ~HasQuestion(popups)
  BY DEF HasQuestion
<1>3. HasQuestion(popups') => HasQuestion(popups) \/ wpState' = MAIN
  BY PopupsStep
<1>a. CASE wpState' = MAIN \/ eng'.view = NoView
  BY <1>a DEF QuestionsOverPages, GridIsFresh
<1>b. ASSUME ~HasQuestion(popups') \/ popups = <<>>,
             Top' = "tabUI" => items' \subseteq Tabs(eng')
      PROVE  Done
  BY <1>2, <1>3, <1>b DEF QuestionsOverPages, GridIsFresh, Tabs
<1>c. ASSUME wpState' = wpState, eng'.view = eng.view, eng'.tabs = eng.tabs,
             eng'.mode = eng.mode,
             Top' = "tabUI" => stack' = stack /\ items' = items
      PROVE  Done
  BY <1>3, <1>c DEF QuestionsOverPages, GridIsFresh, Top, Tabs, LInv
<1>4. stack' = <<"webPageUI">> => Top' # "tabUI"
  BY DEF Top, Last
<1>5. ASSUME NEW t,
             eng' = AfterTabClosed(CloseTab(eng, t)) \/
               (\E u : eng' = SwitchToTab(AfterTabClosed(CloseTab(eng, t)), u)),
             wpState' = ShownAfterClose(CloseTab(eng, t))
      PROVE  Done
  <2> DEFINE c == CloseTab(eng, t)
             f == AfterTabClosed(c)
  <2>1. CASE Tabs(c) = {}
    <3>1. f = c /\ f.view = NoView
      BY <1>1, <2>1, ClosedOrderly DEF AfterTabClosed
    <3>2. \A u : SwitchToTab(f, u) = f
      BY <2>1, <3>1 DEF SwitchToTab
    <3> QED BY <1>5, <1>a, <3>1, <3>2
  <2>2. CASE Tabs(c) # {}
    BY <1>5, <1>a, <2>2 DEF ShownAfterClose
  <2> QED BY <2>1, <2>2
<1>6. ASSUME NEW r \in {"launch", "url", "search"}, Exec(r)
      PROVE  Done
  BY <1>6, <1>c DEF Exec, page, overlays
<1>7. ASSUME NEW rows \in Sessions, Launch(rows)
      PROVE  Done
  BY <1>4, <1>7, <1>b DEF Launch, LInv, PopupsInOrder
<1>8. ASSUME NEW o \in Origins \ {0}, RestoreTab(o)
      PROVE  Done
  BY <1>8, <1>a DEF RestoreTab
<1>9. CASE FinishLaunch \/ AppResume \/ AppPause
  BY <1>1, <1>9, <1>c, SuspendAwake, ResumeAwake
  DEF FinishLaunch, AppResume, AppPause, page, overlays
<1>10. CASE ResumeWithUrl
  <2>1. PICK r \in OpenNewTab(eng, Unknown) : Opened(r) /\ eng' = Resume(r.eng)
    BY <1>10 DEF ResumeWithUrl
  <2>2. CASE r.shown
    BY <1>a, <2>1, <2>2 DEF Opened
  <2>3. CASE ~r.shown
    <3>1. r.eng = eng
      <4>1. ~IsFromWebView(Unknown)
        BY DEF IsFromWebView, Unknown
      <4> QED BY <1>1, <2>3, <4>1, OpenNewTabOrderly
    <3>2. eng'.view = eng.view /\ eng'.tabs = eng.tabs /\ eng'.mode = eng.mode
      BY <1>1, <2>1, <3>1, ResumeAwake
    <3>3. wpState' = wpState /\ items' = items /\ stack' \in {stack, <<"webPageUI">>}
      BY <1>10, <2>1, <2>3 DEF ResumeWithUrl, Opened
    <3> QED BY <1>4, <1>c, <3>2, <3>3
  <2> QED BY <2>2, <2>3
<1>11. CASE OpenURL \/ HomeClicked \/ BackToQuickAccess
  BY <1>4, <1>11, <1>b DEF OpenURL, HomeClicked, BackToQuickAccess, PopToWebPage, Touchable
<1>12. CASE NewTabClicked
  <2>1. CASE UNCHANGED <<eng, page, overlays>>
    BY <1>c, <2>1 DEF page, overlays
  <2>2. CASE popups = <<>> /\ PopToWebPage
    BY <1>4, <1>b, <2>2 DEF PopToWebPage
  <2> QED BY <1>12, <2>1, <2>2 DEF NewTabClicked, Touchable
<1>13. CASE BackPage \/ BackFromQuickAccess \/ BackOnPage
  BY <1>13, <1>a DEF BackPage, BackFromQuickAccess, BackOnPage, PageShows, page
<1>14. CASE ShowTabUI
  BY <1>14, <1>b DEF ShowTabUI, Touchable, Tabs
<1>15. ASSUME NEW v \in {"passwordUI", "other"}, PushView(v)
       PROVE  Done
  <2>1. stack' = Append(stack, v) /\ popups = <<>>
    BY <1>15 DEF PushView, Touchable
  <2>2. stack' # <<>> /\ Last(stack') = v
    BY <1>1, <2>1 DEF Last
  <2> QED BY <1>b, <2>1, <2>2 DEF Top
<1>16. CASE CloseView \/ BackFromView
  <2>1. popups = <<>> /\ PopTheStack(eng) /\ eng' = eng
    BY <1>16 DEF CloseView, BackFromView, Touchable
  <2>2. Top' = "tabUI" => items' = Tabs(eng')
    BY <2>1 DEF PopTheStack, Top
  <2> QED BY <1>b, <2>1, <2>2
<1>17. CASE ChangeEngineState
  BY <1>17, <1>b DEF ChangeEngineState, Touchable
<1>18. CASE SwitchToSecretFirstTime
  <2>1. ~HasQuestion(popups')
    BY <1>1, <1>18, FrontPopups DEF SwitchToSecretFirstTime, LInv, PopupsInOrder
  <2> QED BY <1>18, <1>b, <2>1 DEF SwitchToSecretFirstTime
<1>19. ASSUME NEW t \in TabIds, TabClicked(t)
       PROVE  Done
  BY <1>19, <1>a DEF TabClicked, PageShows
<1>20. ASSUME NEW t \in TabIds, CloseTabsClicked(t)
       PROVE  Done
  <2>1. CASE t = NoTab
    <3>1. wpState' = wpState /\ eng' = eng /\ stack' = stack /\ items' \subseteq items
          /\ popups = <<>>
      BY <1>20, <2>1 DEF CloseTabsClicked, page, Touchable
    <3> QED BY <1>2, <1>3, <3>1 DEF QuestionsOverPages, GridIsFresh, Top, Tabs, LInv
  <2>2. CASE t # NoTab
    BY <1>5, <1>20, <2>2 DEF CloseTabsClicked, EngineBecomes, PageShows
  <2> QED BY <2>1, <2>2
<1>21. CASE OnFirstSecretMode \/ ViewCertificate \/ DismissPopup
  BY <1>21, <1>c DEF OnFirstSecretMode, ViewCertificate, DismissPopup, page, overlays
<1>22. CASE BackToOpener
  BY <1>5, <1>22 DEF BackToOpener, EngineBecomes
<1>23. ASSUME NEW v \in Views, NewWindowRequest(v)
       PROVE  Done
  <2>1. PICK r \in AddTabs(eng, CurrentId(eng)) :
           IF r.id = CurrentId(eng)
           THEN eng' = r.eng /\ UNCHANGED wpState
           ELSE wpState' = MAIN
    BY <1>23 DEF NewWindowRequest
  <2>2. CASE r.id = CurrentId(eng)
    <3>1. eng' = eng
      BY <1>1, <2>1, <2>2, AddTabsOrderly
    <3> QED BY <1>23, <1>c, <2>1, <2>2, <3>1 DEF NewWindowRequest, overlays
  <2>3. CASE r.id # CurrentId(eng)
    BY <1>a, <2>1, <2>3
  <2> QED BY <2>2, <2>3
<1>24. ASSUME NEW v \in Views, CloseWindowRequest(v)
       PROVE  Done
  <2>1. CASE v[2] = NoTab
    BY <1>24, <1>c, <2>1 DEF CloseWindowRequest, page, overlays
  <2>2. CASE v[2] # NoTab
    BY <1>5, <1>24, <2>2 DEF CloseWindowRequest, EngineBecomes, PageShows
  <2> QED BY <2>1, <2>2
<1>25. ASSUME NEW v \in Views, NEW allowed \in BOOLEAN, CertificateRequest(v, allowed)
       PROVE  Done
  <2>1. wpState' = wpState /\ stack' = stack /\ items' = items
    BY <1>25 DEF CertificateRequest, page, overlays
  <2>2. CASE wpState = MAIN
    BY <1>a, <2>1, <2>2
  <2>3. CASE wpState # MAIN
    <3>1. eng' = [eng EXCEPT !.awake = @ \ {v}]
      BY <1>25, <2>3 DEF CertificateRequest
    <3>2. eng'.view = eng.view /\ eng'.tabs = eng.tabs /\ eng'.mode = eng.mode
      BY <1>1, <3>1 DEF EngineState
    <3> QED BY <1>c, <2>1, <3>2
  <2> QED BY <2>2, <2>3
<1>26. CASE CertificateAnswered
  <2>1. HasQuestion(popups)
    <3>1. Len(popups) \in DOMAIN popups /\ Last(popups) = popups[Len(popups)]
      BY <1>1, <1>26 DEF CertificateAnswered, Last
    <3> QED BY <1>26, <3>1 DEF CertificateAnswered, HasQuestion
  <2>2. wpState' = wpState /\ eng'.view = eng.view
    BY <1>26, AnswerStep DEF Steady
  <2> QED BY <1>a, <2>1, <2>2 DEF LInv, QuestionsOverPages
<1> QED
  BY <1>6, <1>7, <1>8, <1>9, <1>10, <1>11, <1>12, <1>13, <1>14, <1>15, <1>16,
     <1>17, <1>18, <1>19, <1>20, <1>21, <1>22, <1>23, <1>24, <1>25, <1>26
  DEF Next, LifeCycle, Touch, BackKey, PageCallback

-----------------------------------------------------------------------------
(***************************************************************************)
(* The invariants.                                                         *)
(***************************************************************************)

LEMMA LInvInit == Init => LInv
<1> SUFFICES ASSUME Init PROVE LInv
  OBVIOUS
<1>1. PICK seed \in SecretSeeds : eng = NewEngine(seed)
  BY DEF Init
<1>2. /\ eng.view = NoView /\ eng.awake = {}
      /\ \A v \in Views : ~IsFromWebView(eng.origin[v])
  BY <1>1 DEF NewEngine, IsFromWebView, Unknown
<1> QED BY <1>2 DEF Init, NoOwnOpener, LInv, Heard, AsleepElsewhere, ShownIsAlive,
    QuestionsOverPages, HasQuestion, PopupsInOrder, FirstOnly, GridIsFresh, Top

LEMMA LInvNext ==
    ASSUME NoneIsNoTab, Inv, LInv, [Next]_vars
    PROVE  LInv'
<1>1. CASE Next
  <2>1. EngineOK(eng) /\ Heard(eng)
    BY DEF Inv, LInv
  <2>2. Heard(eng') /\ AsleepElsewhere'
    <3>1. CASE Orderly(eng, eng')
      <4>1. eng'.mode = eng.mode /\ \A m \in Modes \ {eng.mode} : eng'.cur[m] = eng.cur[m]
        BY <3>1 DEF Orderly, Follows, KeepsOther
      <4>2. Heard(eng') /\ \A w \in eng'.awake : w \in eng.awake \/ w[1] = eng.mode
        BY <2>1, <3>1 DEF Orderly, Tame
      <4>3. ASSUME NEW m \in Modes \ {eng.mode}
            PROVE  <<m, eng.cur[m]>> \notin eng'.awake
        <5>1. <<m, eng.cur[m]>> \notin eng.awake
          BY DEF LInv, AsleepElsewhere
        <5>2. <<m, eng.cur[m]>>[1] # eng.mode
          OBVIOUS
        <5> QED BY <4>2, <5>1, <5>2
      <4> QED BY <4>1, <4>2, <4>3 DEF AsleepElsewhere
    <3>2. CASE CertificateAnswered
      <4>1. /\ eng'.mode = eng.mode /\ \A m \in Modes \ {eng.mode} : eng'.cur[m] = eng.cur[m]
            /\ Heard(eng') /\ \A w \in eng'.awake : w \in eng.awake \/ w[1] = eng.mode
        BY <3>2, AnswerStep DEF Follows, KeepsOther
      <4>2. ASSUME NEW m \in Modes \ {eng.mode}
            PROVE  <<m, eng.cur[m]>> \notin eng'.awake
        <5>1. <<m, eng.cur[m]>> \notin eng.awake
          BY DEF LInv, AsleepElsewhere
        <5>2. <<m, eng.cur[m]>>[1] # eng.mode
          OBVIOUS
        <5> QED BY <4>1, <5>1, <5>2
      <4> QED BY <4>1, <4>2 DEF AsleepElsewhere
    <3>3. CASE ChangesMode
      BY <3>3, ChangeStateStill DEF Still, Heard, ChangesMode
    <3> QED BY <1>1, <3>1, <3>2, <3>3, HandlerStep
  <2>3. ShownIsAlive'
    <3>1. Shows /\ QA # MAIN
      BY <1>1, HandlerStep DEF QA, MAIN
    <3>2. CASE Alive(eng')
      BY <3>2 DEF Alive, ShownIsAlive
    <3>3. CASE ~Alive(eng') /\ ~Steady
      BY <3>1, <3>3 DEF Shows, ShownIsAlive
    <3>4. CASE Steady
      BY <3>4 DEF Steady, ShownIsAlive, LInv
    <3> QED BY <3>2, <3>3, <3>4
  <2>4. QuestionsOverPages' /\ GridIsFresh' /\ PopupsInOrder'
    BY <1>1, OverStep, PopupsStep
  <2>5. NoOwnOpener(eng')
    <3>1. CASE Orderly(eng, eng')
      BY <3>1 DEF LInv, Orderly, Tame
    <3>2. CASE CertificateAnswered
      BY <3>2, AnswerStep, SameOpeners DEF LInv
    <3>3. CASE ChangesMode
      BY <2>1, <3>3, ChangeStateAwake, SameOpeners DEF LInv, ChangesMode
    <3> QED BY <1>1, <3>1, <3>2, <3>3, HandlerStep
  <2> QED BY <2>2, <2>3, <2>4, <2>5 DEF LInv, Heard, NoOwnOpener
<1>2. CASE UNCHANGED vars
  BY <1>2 DEF vars, LInv, Heard, AsleepElsewhere, ShownIsAlive, QuestionsOverPages,
     HasQuestion, PopupsInOrder, FirstOnly, GridIsFresh, Top, Tabs, NoOwnOpener
<1> QED BY <1>1, <1>2

LEMMA BothInvariants == ASSUME NoneIsNoTab PROVE Spec => [](Inv /\ LInv)
<1>1. Init => LInv
  BY LInvInit
<1>2. Inv /\ LInv /\ [Next]_vars => LInv'
  BY LInvNext
<1> QED BY <1>1, <1>2, Invariance, PTL DEF Spec

(* No order of closing, going back, pausing, changing the mode, asking and *)
(* answering leaves the user with a page that does not run, or with one    *)
(* that runs and is not heard.                                             *)
THEOREM PageIsAlwaysLive == ASSUME NoneIsNoTab PROVE Spec => []PageIsLive
<1>1. LInv => PageIsLive
  BY DEF LInv, Heard, ShownIsAlive, PageIsLive
<1> QED BY <1>1, BothInvariants, PTL

(* Whatever replaces the page by quick access puts it to sleep and leaves  *)
(* no view connected.                                                      *)
THEOREM LeavingAlwaysSuspends == ASSUME NoneIsNoTab PROVE Spec => LeavingSuspends
<1> DEFINE A == wpState = MAIN /\ wpState' = QA
                   => eng'.view \notin eng'.awake /\ eng'.wired = {}
<1>1. Inv /\ LInv /\ [Next]_vars => [A]_vars
  <2> SUFFICES ASSUME Inv, LInv, Next, wpState = MAIN, wpState' = QA
               PROVE  Still(eng')
    BY DEF Still
  <2>1. Shows /\ QA # MAIN
    BY HandlerStep DEF QA, MAIN
  <2> QED BY <2>1 DEF Shows, Steady
<1>2. Spec => [][A]_vars
  <2> HIDE DEF A
  <2> QED BY <1>1, BothInvariants, PTL DEF Spec
<1> QED BY <1>2 DEF LeavingSuspends

(* Only an answer wakes a view that is not the current one.                *)
THEOREM HiddenTabsAlwaysSleep == ASSUME NoneIsNoTab PROVE Spec => HiddenTabsStayAsleep
<1> DEFINE A == \A v \in eng'.awake \ eng.awake : v = eng'.view \/ CertificateAnswered
<1>1. Inv /\ LInv /\ [Next]_vars => [A]_vars
  <2> SUFFICES ASSUME Inv, LInv, Next PROVE A
    OBVIOUS
  <2>1. CASE Orderly(eng, eng')
    BY <2>1 DEF Orderly, Tame
  <2>2. CASE CertificateAnswered
    BY <2>2
  <2>3. CASE ChangesMode
    BY <2>3, ChangeStateAwake DEF Inv, ChangesMode
  <2> QED BY <2>1, <2>2, <2>3, HandlerStep
<1>2. Spec => [][A]_vars
  <2> HIDE DEF A
  <2> QED BY <1>1, BothInvariants, PTL DEF Spec
<1> QED BY <1>2 DEF HiddenTabsStayAsleep

LEMMA AsksNext ==
    ASSUME NoneIsNoTab, Inv, LInv, AsksIn(popups, eng.mode), [Next]_vars
    PROVE  AsksIn(popups', eng'.mode)
<1>1. CASE Next
  <2>1. popups \in Seq(PopupSet) /\ FirstOnly(popups)
    BY DEF Inv, TypeOK, LInv, PopupsInOrder
  <2>2. CASE ChangesMode
    <3>1. CASE ChangeEngineState
      BY <3>1 DEF ChangeEngineState, Touchable, dialogs, AsksIn
    <3>2. CASE SwitchToSecretFirstTime
      <4>1. /\ popups # <<>> /\ Last(popups).kind = "firstSecret"
            /\ popups' = Front(popups)
        BY <3>2 DEF SwitchToSecretFirstTime
      <4> QED BY <2>1, <4>1, FrontPopups DEF HasQuestion, AsksIn
    <3> QED BY <2>2, <3>1, <3>2 DEF ChangesMode
  <2>3. CASE eng'.mode = eng.mode
    <3>1. ASSUME NEW kind \in {"limit", "certInfo", "firstSecret"}
          PROVE  /\ Popup(kind, NoView) \in PopupSet
                 /\ Popup(kind, NoView).kind # "certificate"
      BY DEF Popup, PopupSet
    <3>2. ASSUME NEW v \in eng.wired
          PROVE  v[1] = eng.mode
      <4>1. EngineOK(eng) /\ v = eng.view /\ eng.view # NoView
        BY DEF Inv, EngineOK, Consistent, SignalsMatchFlag, ListensToAView
      <4> QED BY <4>1, Basics
    <3>3. ASSUME NEW v \in Views
          PROVE  /\ Popup("certificate", v) \in PopupSet
                 /\ Popup("certificate", v).view = v
      BY DEF Popup, PopupSet
    <3>4. CASE popups' = Append(popups, Popup("limit", NoView))
               \/ popups' = Append(popups, Popup("certInfo", NoView))
               \/ popups' = Append(popups, Popup("firstSecret", NoView))
      BY <2>1, <2>3, <3>1, <3>4, AppendedPopup
    <3>5. CASE popups # <<>> /\ popups' = Front(popups)
      BY <2>1, <2>3, <3>5, FrontPopups
    <3>6. ASSUME NEW v \in Views, v \in eng.wired,
                 popups' = Append(popups, Popup("certificate", v))
          PROVE  AsksIn(popups', eng'.mode)
      BY <2>1, <2>3, <3>2, <3>3, <3>6, AppendedPopup
    <3> QED BY <1>1, <2>3, <3>4, <3>5, <3>6, PopupCases
  <2>4. ChangesMode \/ eng'.mode = eng.mode
    BY <1>1, HandlerStep, AnswerStep DEF Orderly, Follows, KeepsOther
  <2> QED BY <2>2, <2>3, <2>4
<1>2. CASE UNCHANGED vars
  BY <1>2 DEF vars
<1> QED BY <1>1, <1>2

(* The opener is a tab of its own, so closing the current one leaves it to *)
(* be switched to.                                                         *)
LEMMA OpenerIsShown ==
    ASSUME NoneIsNoTab, Inv, LInv, BackToOpener
    PROVE  /\ eng'.view = <<eng.mode, eng.origin[eng.view]>>
           /\ eng'.view \in eng'.wired \cap eng'.awake
<1> DEFINE o == eng.origin[eng.view]
           t == CurrentId(eng)
           c == AfterTabClosed(CloseTab(eng, t))
<1>1. /\ EngineOK(eng) /\ eng.view # NoView /\ Heard(eng)
      /\ IsFromWebView(o) /\ o \in Tabs(eng)
      /\ eng' = SwitchToTab(c, o)
  BY DEF Inv, LInv, BackToOpener, EngineBecomes
<1>2. eng.view \in Views /\ eng.view = <<eng.mode, t>>
  BY <1>1, Basics DEF EngineState
<1>3. o # t
  BY <1>1, <1>2 DEF LInv, NoOwnOpener
<1>4. Orderly(eng, c) /\ EngineOK(c) /\ c.mode = eng.mode
  BY <1>1, ClosedOrderly DEF Orderly, Follows, KeepsOther
<1> HIDE DEF o
<1>5. o \in Tabs(c)
  <2>1. t # NoTab
    BY <1>1, TheList, CurrentIsLive DEF NoneIsNoTab, EngineOK
  <2>2. CloseTab(eng, t).mru[eng.mode] = Without(eng.mru[eng.mode], t)
    BY <1>1, <2>1, CloseList
  <2>3. c.mru = CloseTab(eng, t).mru
    BY <1>1, CloseOK, WakeList DEF Follows
  <2>4. ToSet(Without(eng.mru[eng.mode], t)) = Tabs(eng) \ {t}
    BY <1>1, TheList, WithoutFacts
  <2> HIDE DEF c, t
  <2> QED BY <1>1, <1>3, <1>4, <2>2, <2>3, <2>4, TheList
<1> HIDE DEF c, t
<1>6. /\ EngineOK(eng') /\ Alive(eng') /\ eng'.mode = eng.mode
  BY <1>1, <1>4, <1>5, OrderlyThen DEF Orderly, Follows, KeepsOther
<1>7. eng'.mru[c.mode] = Append(Without(c.mru[c.mode], o), o)
  BY <1>1, <1>4, <1>5, SwitchList
<1>8. eng'.mru[eng'.mode] # <<>> /\ Last(eng'.mru[eng'.mode]) = o
  <2>1. /\ c.mru[c.mode] \in Seq(TabIds) /\ IsInjective(c.mru[c.mode])
        /\ o \in TabIds
    BY <1>4, <1>5, TheList
  <2>2. /\ Without(c.mru[c.mode], o) \in Seq(TabIds)
        /\ IsInjective(Without(c.mru[c.mode], o))
        /\ o \notin ToSet(Without(c.mru[c.mode], o))
    BY <2>1, WithoutFacts
  <2> QED BY <1>4, <1>6, <1>7, <2>1, <2>2, AppendFacts
<1>9. eng'.view = <<eng.mode, o>>
  BY <1>6, <1>8, TheList
<1>10. eng'.view # NoView
  BY <1>1, <1>9, Basics DEF NoView, Modes
<1>11. eng'.wired = {eng'.view} /\ eng'.view \in eng'.awake
  BY <1>6, <1>10 DEF Alive, EngineOK, Consistent, SignalsMatchFlag
<1> QED BY <1>9, <1>11 DEF o

(* Going back from a tab that a page opened shows the tab that opened it,  *)
(* running and heard, whatever tabs were used in between.                  *)
THEOREM BackAlwaysReturns == ASSUME NoneIsNoTab PROVE Spec => BackReturnsToOpener
<1> DEFINE A == BackToOpener =>
                   /\ eng'.view = <<eng.mode, eng.origin[eng.view]>>
                   /\ eng'.view \in eng'.wired \cap eng'.awake
<1>1. Inv /\ LInv => A
  BY OpenerIsShown
<1>2. Spec => [][A]_vars
  <2> HIDE DEF A
  <2> QED BY <1>1, BothInvariants, PTL DEF Spec
<1> QED BY <1>2 DEF BackReturnsToOpener

(* A certificate question is never left open in another mode, where the    *)
(* answer would be looked up among the wrong tabs.                         *)
THEOREM AnswersReachTheirView ==
    ASSUME NoneIsNoTab PROVE Spec => []AnswerReachesItsView
<1> DEFINE A == AsksIn(popups, eng.mode)
<1>1. Init => A
  BY DEF Init, AsksIn
<1>2. Inv /\ LInv /\ A /\ [Next]_vars => A'
  BY AsksNext
<1>3. A => AnswerReachesItsView
  BY DEF AsksIn, AnswerReachesItsView
<1> HIDE DEF A
<1> QED BY <1>1, <1>2, <1>3, BothInvariants, PTL DEF Spec

-----------------------------------------------------------------------------
(* Counting needs the sets of tabs to be finite: they are, one tab being   *)
(* added at a time.                                                        *)
Limited ==
    \A m \in Modes : IsFiniteSet(eng.tabs[m]) /\ Cardinality(eng.tabs[m]) <= TabLimit

LEMMA GrowsLimited ==
    ASSUME Inv, Limited, Follows(eng, eng'), Grows(eng, eng')
    PROVE  Limited'
<1> DEFINE s == eng.tabs[eng.mode]
           s2 == eng'.tabs[eng.mode]
<1>1. eng.mode \in Modes /\ \A m \in Modes \ {eng.mode} : eng'.tabs[m] = eng.tabs[m]
  BY Basics DEF Inv, Follows, KeepsOther
<1>2. IsFiniteSet(s) /\ Cardinality(s) <= TabLimit /\ Cardinality(s) \in Nat
  BY <1>1, FS_CardinalityType DEF Limited
<1>3. IsFiniteSet(s2) /\ Cardinality(s2) <= TabLimit
  <2>1. CASE s2 \subseteq s
    <3>1. IsFiniteSet(s2) /\ Cardinality(s2) <= Cardinality(s)
      BY <1>2, <2>1, FS_Subset
    <3>2. Cardinality(s2) \in Nat
      BY <3>1, FS_CardinalityType
    <3> QED BY <1>2, <3>1, <3>2, LimitAssumption
  <2>2. CASE ~AtLimit(eng) /\ \E t \in TabIds : s2 = s \cup {t}
    <3>1. PICK t \in TabIds : s2 = s \cup {t}
      BY <2>2
    <3>2. Cardinality(s) < TabLimit
      BY <1>2, <2>2, LimitAssumption DEF AtLimit, TabsCount, Tabs
    <3>3. /\ IsFiniteSet(s2)
          /\ t \in s => Cardinality(s2) = Cardinality(s)
          /\ t \notin s => Cardinality(s2) = Cardinality(s) + 1
      <4> HIDE DEF s, s2
      <4>1. /\ IsFiniteSet(s \cup {t})
            /\ Cardinality(s \cup {t})
                  = IF t \in s THEN Cardinality(s) ELSE Cardinality(s) + 1
        BY <1>2, FS_AddElement
      <4> QED BY <3>1, <4>1
    <3> QED BY <1>2, <3>2, <3>3, LimitAssumption
  <2> QED BY <2>1, <2>2 DEF Grows
<1> HIDE DEF s, s2
<1> QED BY <1>1, <1>3 DEF Limited, s, s2

LEMMA LimitedNext ==
    ASSUME NoneIsNoTab, Inv, LInv, Limited, [Next]_vars
    PROVE  Limited'
<1>1. CASE Next
  <2>1. CASE Orderly(eng, eng')
    BY <2>1, GrowsLimited DEF Orderly
  <2>2. CASE CertificateAnswered
    BY <2>2, AnswerStep, GrowsLimited
  <2>3. CASE ChangesMode
    BY <2>3, ChangeStateOK DEF Inv, Limited, ChangesMode
  <2> QED BY <1>1, <2>1, <2>2, <2>3, HandlerStep
<1>2. CASE UNCHANGED vars
  BY <1>2 DEF vars, Limited
<1> QED BY <1>1, <1>2

(* Neither mode has more tabs than the limit, whichever way they were made *)
(* and for any limit.                                                      *)
THEOREM LimitAlwaysKept == ASSUME NoneIsNoTab PROVE Spec => []LimitKept
<1>1. Init => Limited
  <2> SUFFICES ASSUME Init PROVE Limited
    OBVIOUS
  <2>1. PICK seed \in SecretSeeds : eng = NewEngine(seed)
    BY DEF Init
  <2>2. \A m \in Modes : eng.tabs[m] = {}
    BY <2>1 DEF NewEngine
  <2>3. 0 <= TabLimit
    BY LimitAssumption
  <2> QED BY <2>2, <2>3, FS_EmptySet DEF Limited
<1>2. Inv /\ LInv /\ Limited /\ [Next]_vars => Limited'
  BY LimitedNext
<1>3. Limited => LimitKept
  BY DEF Limited, LimitKept
<1> QED BY <1>1, <1>2, <1>3, BothInvariants, PTL DEF Spec

-----------------------------------------------------------------------------
(***************************************************************************)
(* The page on screen exists, as long as nothing goes wrong outside: when  *)
(* pages close themselves it need not, which a run shows.                  *)
(***************************************************************************)

PageIsATab  == phase # "off" /\ wpState = MAIN => Tabs(eng) # {}

(* Closing a tab may take another's item off the grid.  The grid then names *)
(* a tab that is gone, but a tab is left that it does not name.            *)
GridHasTabs ==
    Top = "tabUI" => items \subseteq Tabs(eng) \/ Tabs(eng) \ items # {}

(* Waking pages and putting them to sleep neither opens nor closes tabs.   *)
LEMMA WakeTabs ==
    ASSUME NEW e, EngineOK(e)
    PROVE  /\ Tabs(Suspend(e)) = Tabs(e)
           /\ Tabs(Resume(e)) = Tabs(e)
           /\ Tabs(ResumeIfSuspended(e)) = Tabs(e)
           /\ Tabs(AfterTabClosed(e)) = Tabs(e)
           /\ \A t : Tabs(SwitchToTab(e, t)) = Tabs(e)
           /\ \A t : Tabs(ConfirmationResult(e, t)) = Tabs(e)
<1>1. Tabs(Suspend(e)) = Tabs(e) /\ Tabs(Resume(e)) = Tabs(e)
  BY Basics, SuspendAwake, ResumeAwake DEF Tabs
<1>2. \A t : Tabs(SwitchToTab(e, t)) = Tabs(e)
  BY SwitchOK DEF Tabs, Follows, KeepsOther
<1>3. ASSUME NEW t
      PROVE  Tabs(ConfirmationResult(e, t)) = Tabs(e)
  <2>1. e \in EngineState
    BY Basics
  <2> QED BY <2>1 DEF ConfirmationResult, Tabs, EngineState
<1> QED BY <1>1, <1>2, <1>3 DEF ResumeIfSuspended, AfterTabClosed

(* closeTab takes no other tab with it. *)
LEMMA CloseTabs ==
    ASSUME NEW e, EngineOK(e), NEW t
    PROVE  Tabs(e) \ {t} \subseteq Tabs(CloseTab(e, t))
<1>1. CASE t = NoTab
  BY <1>1 DEF CloseTab
<1>2. CASE t # NoTab
  <2> DEFINE c == CloseTab(e, t)
  <2>1. /\ e.mru[e.mode] \in Seq(TabIds) /\ IsInjective(e.mru[e.mode])
        /\ ToSet(e.mru[e.mode]) = Tabs(e)
    BY TheList
  <2>2. c.mru[e.mode] = Without(e.mru[e.mode], t)
    BY <1>2, CloseList
  <2>3. ToSet(c.mru[e.mode]) = Tabs(e) \ {t}
    BY <2>1, <2>2, WithoutFacts
  <2>4. EngineOK(c) /\ c.mode = e.mode
    BY CloseOK DEF Follows, KeepsOther
  <2> HIDE DEF c
  <2>5. ToSet(c.mru[c.mode]) = Tabs(c)
    BY <2>4, TheList
  <2> QED BY <2>3, <2>4, <2>5 DEF c
<1> QED BY <1>1, <1>2

(* Without faults addTab returns a tab. *)
LEMMA AddTabsShown ==
    ASSUME NoneIsNoTab, Faults = {}, NEW e, EngineOK(e), NEW o \in Origins,
           NEW r \in AddTabs(e, o)
    PROVE  /\ r.id # NoTab
           /\ Tabs(SwitchToTab(r.eng, r.id)) # {}
           /\ Tabs(e) \subseteq Tabs(SwitchToTab(r.eng, r.id))
<1>1. e \in EngineState /\ e.mode \in Modes /\ Consistent(e) /\ Tabs(e) \subseteq TabIds
  BY Basics, TheList
<1>2. CASE AtLimit(e) /\ r = [id |-> CurrentId(e), eng |-> e]
  <2>1. Tabs(e) # {}
    BY <1>2, LimitAssumption, FS_EmptySet DEF AtLimit, TabsCount
  <2>2. e.view # NoView
    BY <1>1, <2>1 DEF Consistent, ViewIsCurrent, NoView, Modes
  <2>3. CurrentId(e) \in Tabs(e)
    BY <1>1, <2>2, CurrentIsLive
  <2>4. Tabs(SwitchToTab(r.eng, r.id)) = Tabs(e)
    BY <1>2, WakeTabs
  <2> QED BY <1>1, <1>2, <2>1, <2>3, <2>4 DEF NoneIsNoTab
<1>3. ASSUME NEW t \in NewIds(e), r = [id |-> t, eng |-> AddTab(e, t, o)]
      PROVE  /\ r.id # NoTab
             /\ Tabs(SwitchToTab(r.eng, r.id)) = Tabs(e) \cup {t}
  <2> DEFINE f == SwitchToTab(AddTab(e, t, o), t)
  <2>1. t \in TabIds \ Tabs(e) /\ (e.mode = "SECRET" => t = e.secretId + 1)
    BY <1>3, NewIdsFacts
  <2>2. f.mode = e.mode /\ f.tabs = [e.tabs EXCEPT ![e.mode] = @ \cup {t}]
    BY <2>1, OpenOK DEF Follows, KeepsOther
  <2> HIDE DEF f
  <2>3. Tabs(f) = Tabs(e) \cup {t}
    BY <1>1, <2>2 DEF Tabs, EngineState
  <2> QED BY <1>3, <2>1, <2>3 DEF f, NoneIsNoTab
<1>4. \/ AtLimit(e) /\ r = [id |-> CurrentId(e), eng |-> e]
      \/ \E t \in NewIds(e) : r = [id |-> t, eng |-> AddTab(e, t, o)]
  BY DEF AddTabs
<1> QED BY <1>2, <1>3, <1>4

LEMMA OpenNewTabShown ==
    ASSUME NoneIsNoTab, Faults = {}, NEW e, EngineOK(e), NEW o \in Origins,
           NEW r \in OpenNewTab(e, o)
    PROVE  /\ r.shown
           /\ EngineOK(r.eng)
           /\ Tabs(r.eng) # {}
           /\ Tabs(e) \subseteq Tabs(r.eng)
<1>1. PICK q \in AddTabs(e, o) :
          r = IF q.id = NoTab
              THEN [eng |-> q.eng, shown |-> FALSE]
              ELSE [eng |-> SwitchToTab(q.eng, q.id), shown |-> TRUE]
  BY DEF OpenNewTab
<1>2. q.id # NoTab
  BY AddTabsShown
<1>3. r.eng = SwitchToTab(q.eng, q.id) /\ r.shown = TRUE
  BY <1>1, <1>2
<1> QED BY <1>3, AddTabsShown, AddTabsOK DEF Follows

LEMMA PageIsATabNext ==
    ASSUME NoneIsNoTab, Faults = {}, Inv, PageIsATab, GridHasTabs, Next
    PROVE  PageIsATab' /\ GridHasTabs'
<1> DEFINE Done == PageIsATab' /\ GridHasTabs'
<1>1. /\ EngineOK(eng) /\ eng \in EngineState /\ QA # MAIN
      /\ stack \in Seq(UIViews)
      /\ CurrentId(eng) \in Origins /\ Unknown \in Origins /\ QuickAccess \in Origins
  BY Basics DEF Inv, TypeOK, Origins, CurrentId, Unknown, QuickAccess, NoTab,
                EngineState, QA, MAIN
<1>2. stack' = <<"webPageUI">> => Top' # "tabUI"
  BY DEF Top, Last
<1>a. ASSUME phase = "off" => phase' = "off" \/ wpState' = QA, wpState' \in {wpState, QA},
             Tabs(eng') = Tabs(eng),
             Top' = "tabUI" => stack' = stack /\ items' \subseteq items
      PROVE  Done
  BY <1>1, <1>a DEF PageIsATab, GridHasTabs, Top
<1>b. ASSUME Tabs(eng') # {}, Tabs(eng) \subseteq Tabs(eng'),
             Top' = "tabUI" => stack' = stack /\ items' \subseteq items
      PROVE  Done
  BY <1>b DEF PageIsATab, GridHasTabs, Top
<1>c. ASSUME wpState' = QA \/ Tabs(eng') # {}, Top' = "tabUI" => items' = Tabs(eng')
      PROVE  Done
  BY <1>1, <1>c DEF PageIsATab, GridHasTabs
<1>3. ASSUME NEW o \in {Unknown, QuickAccess}, NEW r \in OpenNewTab(eng, o)
      PROVE  /\ Tabs(r.eng) # {} /\ Tabs(eng) \subseteq Tabs(r.eng)
             /\ Tabs(Resume(r.eng)) = Tabs(r.eng)
  BY <1>1, OpenNewTabShown, WakeTabs
<1>4. ASSUME NEW t
      PROVE  LET c == CloseTab(eng, t)
                 f == AfterTabClosed(c)
             IN  /\ Tabs(f) = Tabs(c) /\ Tabs(eng) \ {t} \subseteq Tabs(c)
                 /\ \A u : Tabs(SwitchToTab(f, u)) = Tabs(c)
                 /\ Tabs(Suspend(f)) = Tabs(c)
                 /\ ShownAfterClose(c) = IF Tabs(c) = {} THEN QA ELSE MAIN
  <2> DEFINE c == CloseTab(eng, t)
             f == AfterTabClosed(c)
  <2>1. EngineOK(c) /\ EngineOK(f)
    BY <1>1, CloseOK, ClosedOK DEF Follows
  <2>2. Tabs(eng) \ {t} \subseteq Tabs(c)
    BY <1>1, CloseTabs
  <2>3. Tabs(f) = Tabs(c)
    <3> HIDE DEF c
    <3> QED BY <2>1, WakeTabs
  <2>4. Tabs(Suspend(f)) = Tabs(f) /\ \A u : Tabs(SwitchToTab(f, u)) = Tabs(f)
    <3> HIDE DEF f
    <3> QED BY <2>1, WakeTabs
  <2> QED BY <2>2, <2>3, <2>4 DEF ShownAfterClose
<1>5. ASSUME NEW r \in {"launch", "url", "search"}, Exec(r)
      PROVE  Done
  BY <1>5, <1>a DEF Exec, page, overlays
<1>6. ASSUME NEW rows \in Sessions, Launch(rows)
      PROVE  Done
  BY <1>2, <1>6, <1>c DEF Launch, PageShows
<1>7. ASSUME NEW o \in Origins \ {0}, RestoreTab(o)
      PROVE  Done
  <2>1. stack' = stack /\ items' = items
    BY <1>7 DEF RestoreTab, overlays
  <2>2. CASE AtLimit(eng)
    <3>1. Tabs(eng) # {}
      BY <2>2, LimitAssumption, FS_EmptySet DEF AtLimit, TabsCount
    <3>2. Tabs(eng') = Tabs(eng)
      BY <1>1, <1>7, <2>2, WakeTabs DEF RestoreTab
    <3> QED BY <1>b, <2>1, <3>1, <3>2
  <2>3. CASE ~AtLimit(eng)
    <3> DEFINE t == Head(toRestore)
    <3>1. t \in TabIds \ Tabs(eng) /\ eng.mode = "NORMAL"
      <4>1. toRestore \in Seq(NormalIds) /\ toRestore # <<>>
        BY <1>7 DEF RestoreTab, Inv, TypeOK
      <4>2. t \in ToSet(toRestore) /\ t \in NormalIds
        BY <4>1, HeadAndTail
      <4> QED BY <1>7, <4>2, IdAssumption DEF RestoreTab, Inv, StartOK, Tabs
    <3>2. eng' = SwitchToTab(AddTab(eng, t, o), t)
      BY <1>7, <2>3 DEF RestoreTab
    <3>3. /\ eng'.mode = eng.mode
          /\ eng'.tabs = [eng.tabs EXCEPT ![eng.mode] = @ \cup {t}]
      BY <1>1, <3>1, <3>2, OpenOK DEF Follows, KeepsOther
    <3>4. Tabs(eng') = Tabs(eng) \cup {t}
      BY <1>1, <3>3 DEF Tabs, EngineState
    <3> QED BY <1>b, <2>1, <3>4
  <2> QED BY <2>2, <2>3
<1>8. CASE FinishLaunch \/ AppResume \/ AppPause
  BY <1>1, <1>8, <1>a, WakeTabs DEF FinishLaunch, AppResume, AppPause, page, overlays
<1>9. CASE ResumeWithUrl
  <2>1. PICK r \in OpenNewTab(eng, Unknown) : Opened(r) /\ eng' = Resume(r.eng)
    BY <1>9 DEF ResumeWithUrl
  <2>2. stack' \in {stack, <<"webPageUI">>} /\ items' = items
    BY <1>9 DEF ResumeWithUrl
  <2> QED BY <1>2, <1>3, <1>b, <2>1, <2>2
<1>10. CASE OpenURL
  <2>1. Top' # "tabUI" /\ wpState' \in {MAIN, wpState}
    BY <1>2, <1>10 DEF OpenURL, PopToWebPage, Opened
  <2>2. CASE \E r \in OpenNewTab(eng, QuickAccess) : Opened(r) /\ eng' = r.eng
    BY <1>3, <1>c, <2>1, <2>2
  <2>3. CASE Tabs(eng) # {} /\ eng' = ResumeIfSuspended(eng)
    BY <1>1, <1>c, <2>1, <2>3, WakeTabs
  <2> QED BY <1>10, <2>2, <2>3 DEF OpenURL
<1>11. CASE HomeClicked
  <2>1. Top' # "tabUI"
    BY <1>2, <1>11 DEF HomeClicked, PopToWebPage
  <2>2. CASE wpState' = QA
    BY <1>c, <2>1, <2>2
  <2>3. CASE \E r \in OpenNewTab(eng, Unknown) : Opened(r) /\ eng' = r.eng
    BY <1>3, <1>c, <2>1, <2>3
  <2> QED BY <1>11, <2>2, <2>3 DEF HomeClicked, ShowHomePage, PageShows
<1>12. CASE NewTabClicked
  <2>1. CASE UNCHANGED <<eng, page, overlays>>
    <3>1. phase' = phase /\ phase # "off"
      BY <1>12 DEF NewTabClicked, lifecycle, Touchable
    <3> QED BY <1>a, <2>1, <3>1 DEF page, overlays
  <2>2. CASE PopToWebPage /\ wpState' = QA
    BY <1>2, <1>c, <2>2 DEF PopToWebPage
  <2>3. CASE PopToWebPage /\ \E r \in OpenNewTab(eng, Unknown) : Opened(r) /\ eng' = r.eng
    BY <1>2, <1>3, <1>c, <2>3 DEF PopToWebPage
  <2> QED BY <1>12, <2>1, <2>2, <2>3 DEF NewTabClicked
<1>13. CASE BackPage \/ BackOnPage
  BY <1>1, <1>13, <1>a, WakeTabs
  DEF BackPage, BackOnPage, page, overlays, lifecycle, Touchable
<1>14. CASE ShowTabUI
  BY <1>14, <1>c DEF ShowTabUI, PageIsATab, GridHasTabs, page, lifecycle, Tabs
<1>15. ASSUME NEW v \in {"passwordUI", "other"}, PushView(v)
       PROVE  Done
  <2>1. stack' = Append(stack, v) /\ eng' = eng /\ wpState' = wpState /\ phase' = phase
    BY <1>15 DEF PushView, page, lifecycle
  <2>2. stack' # <<>> /\ Last(stack') = v
    BY <1>1, <2>1 DEF Last
  <2> QED BY <1>a, <2>1, <2>2 DEF Top
<1>16. CASE CloseView \/ BackFromView
  <2>1. PopTheStack(eng) /\ eng' = eng /\ wpState' = wpState /\ phase' = phase
    BY <1>16 DEF CloseView, BackFromView, page, lifecycle
  <2>2. Top' = "tabUI" => items' = Tabs(eng')
    BY <2>1 DEF PopTheStack, Top
  <2> QED BY <2>1, <2>2 DEF PageIsATab, GridHasTabs
<1>17. CASE ChangeEngineState \/ SwitchToSecretFirstTime
  BY <1>17, <1>c DEF ChangeEngineState, SwitchToSecretFirstTime, PageShows
<1>18. ASSUME NEW t \in TabIds, TabClicked(t)
       PROVE  Done
  <2>1. Tabs(eng) # {}
    BY <1>18 DEF TabClicked, Touchable, GridHasTabs
  <2>2. Tabs(eng') = Tabs(eng) /\ Top' # "tabUI"
    BY <1>1, <1>2, <1>18, WakeTabs DEF TabClicked, PopToWebPage
  <2> QED BY <1>c, <2>1, <2>2
<1>19. ASSUME NEW t \in TabIds, CloseTabsClicked(t)
       PROVE  Done
  <2>1. t # NoTab
    BY DEF NoneIsNoTab
  <2> DEFINE c == CloseTab(eng, t)
  <2>2. eng' = AfterTabClosed(c) /\ wpState' = ShownAfterClose(c)
    BY <1>19, <2>1 DEF CloseTabsClicked, EngineBecomes, PageShows
  <2>3. PICK u \in items : items' = items \ {u}
    BY <1>19 DEF CloseTabsClicked
  <2>4. /\ Tabs(eng') = Tabs(c) /\ Tabs(eng) \ {t} \subseteq Tabs(c)
        /\ wpState' = IF Tabs(c) = {} THEN QA ELSE MAIN
    BY <1>4, <2>2
  <2> HIDE DEF c
  <2>5. stack' = stack /\ Top = "tabUI" /\ t \in items
    BY <1>19 DEF CloseTabsClicked, Touchable
  <2>6. GridHasTabs'
    <3>1. items' \subseteq Tabs(eng') \/ Tabs(eng') \ items' # {}
      <4>1. CASE items \subseteq Tabs(eng)
        BY <2>3, <2>4, <2>5, <4>1
      <4>2. CASE Tabs(eng) \ items # {}
        BY <2>3, <2>4, <2>5, <4>2
      <4> QED BY <2>5, <4>1, <4>2 DEF GridHasTabs
    <3> QED BY <3>1 DEF GridHasTabs
  <2> QED BY <1>1, <2>4, <2>6 DEF PageIsATab
<1>20. CASE OnFirstSecretMode \/ ViewCertificate \/ DismissPopup
  BY <1>20, <1>a DEF OnFirstSecretMode, ViewCertificate, DismissPopup, page, overlays,
                     lifecycle, Touchable
<1>21. CASE BackFromQuickAccess
  <2>1. Tabs(eng) # {} /\ Tabs(eng') = Tabs(eng) /\ stack' = stack /\ items' = items
    BY <1>1, <1>21, WakeTabs DEF BackFromQuickAccess, overlays
  <2> QED BY <1>b, <2>1
<1>22. CASE BackToOpener
  <2> DEFINE c == CloseTab(eng, CurrentId(eng))
  <2>1. /\ eng' = SwitchToTab(AfterTabClosed(c), eng.origin[eng.view])
        /\ wpState' = ShownAfterClose(c) /\ stack' = stack /\ Top = "webPageUI"
    BY <1>22 DEF BackToOpener, EngineBecomes, overlays, Touchable
  <2>2. Tabs(eng') = Tabs(c) /\ wpState' = IF Tabs(c) = {} THEN QA ELSE MAIN
    BY <1>4, <2>1
  <2>3. Top' # "tabUI"
    BY <2>1 DEF Top
  <2> HIDE DEF c
  <2> QED BY <1>c, <2>2, <2>3
<1>23. CASE BackToQuickAccess
  BY <1>2, <1>23, <1>c DEF BackToQuickAccess, PopToWebPage
<1>24. ASSUME NEW v \in Views, NewWindowRequest(v)
       PROVE  Done
  <2>1. PICK r \in AddTabs(eng, CurrentId(eng)) :
           IF r.id = CurrentId(eng)
           THEN eng' = r.eng /\ UNCHANGED wpState
           ELSE /\ eng' = ResumeIfSuspended(SwitchToTab(r.eng, r.id))
                /\ wpState' = MAIN
    BY <1>24 DEF NewWindowRequest
  <2>2. stack' = stack /\ items' = items /\ phase' = phase
    BY <1>24 DEF NewWindowRequest, overlays, lifecycle
  <2>3. CASE r.id = CurrentId(eng)
    <3>1. r.eng = eng
      BY <1>1, <2>3, AddTabsOrderly
    <3> QED BY <1>a, <2>1, <2>2, <2>3, <3>1
  <2>4. CASE r.id # CurrentId(eng)
    <3>1. /\ Tabs(SwitchToTab(r.eng, r.id)) # {}
          /\ Tabs(eng) \subseteq Tabs(SwitchToTab(r.eng, r.id))
      BY <1>1, AddTabsShown
    <3>2. EngineOK(SwitchToTab(r.eng, r.id))
      BY <1>1, AddTabsOK DEF Follows
    <3>3. Tabs(eng') = Tabs(SwitchToTab(r.eng, r.id))
      BY <2>1, <2>4, <3>2, WakeTabs
    <3> QED BY <1>b, <2>2, <3>1, <3>3
  <2> QED BY <2>3, <2>4
<1>25. ASSUME NEW v \in Views, NEW allowed \in BOOLEAN, CertificateRequest(v, allowed)
       PROVE  Done
  <2> DEFINE asked == [eng EXCEPT !.awake = @ \ {v}]
  <2>1. eng.awake \ {v} \subseteq Live(eng)
    BY <1>1 DEF EngineOK, NoGhosts
  <2>2. EngineOK(asked) /\ Tabs(asked) = Tabs(eng)
    BY <1>1, <2>1, AwakeOK DEF Follows, Tabs, EngineState
  <2>3. eng' = asked \/ eng' = ConfirmationResult(asked, v[2])
    BY <1>25 DEF CertificateRequest
  <2> HIDE DEF asked
  <2>4. Tabs(eng') = Tabs(eng)
    BY <2>2, <2>3, WakeTabs
  <2> QED BY <1>25, <1>a, <2>4 DEF CertificateRequest, page, overlays, lifecycle
<1>26. CASE CertificateAnswered
  <2>1. Tabs(eng') = Tabs(eng)
    BY <1>1, <1>26, WakeTabs DEF CertificateAnswered
  <2> QED BY <1>26, <1>a, <2>1 DEF CertificateAnswered, page, overlays, lifecycle
<1>27. \A v \in Views : ~CloseWindowRequest(v)
  BY DEF CloseWindowRequest
<1> QED
  BY <1>5, <1>6, <1>7, <1>8, <1>9, <1>10, <1>11, <1>12, <1>13, <1>14, <1>15,
     <1>16, <1>17, <1>18, <1>19, <1>20, <1>21, <1>22, <1>23, <1>24, <1>25,
     <1>26, <1>27
  DEF Next, LifeCycle, Touch, BackKey, PageCallback

(* When ids can be generated and no page closes itself, the page view is   *)
(* never shown without a page, for any limit and session: no order of      *)
(* opening, closing, restoring and changing the mode leads the shell into  *)
(* the assertion of setMainContent.                                        *)
THEOREM PageAlwaysExists ==
    ASSUME NoneIsNoTab, Faults = {}
    PROVE  Spec => []PageExists
<1>1. Init => PageIsATab /\ GridHasTabs
  BY DEF Init, PageIsATab, GridHasTabs, Top
<1>2. Inv /\ PageIsATab /\ GridHasTabs /\ [Next]_vars => PageIsATab' /\ GridHasTabs'
  <2>1. CASE UNCHANGED vars
    BY <2>1 DEF vars, PageIsATab, GridHasTabs, Top, Tabs
  <2> QED BY <2>1, PageIsATabNext
<1>3. Inv /\ PageIsATab => PageExists
  <2> SUFFICES ASSUME Inv, PageIsATab, wpState = MAIN, phase \notin {"off", "restoring"}
               PROVE  eng.view # NoView
    BY DEF PageExists
  <2>1. Tabs(eng) # {}
    BY DEF PageIsATab
  <2>2. eng.mode \in Modes /\ ViewIsCurrent(eng)
    BY Basics DEF Inv, EngineOK, Consistent
  <2> QED BY <2>1, <2>2 DEF ViewIsCurrent, NoView, Modes
<1> QED BY <1>1, <1>2, <1>3, Invariance, PTL DEF Spec
=============================================================================
