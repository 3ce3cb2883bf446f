----------------------------- MODULE TabService -----------------------------
(***************************************************************************)
(* The tabs of the browser and what services/TabService/TabService.cpp     *)
(* keeps of them: a row per tab in the database of the tab adaptor         *)
(* (external), which survives the process and is read back by the next     *)
(* session, and a cache of thumbnails.  Tabs come and go as in module      *)
(* WebEngine; the view stack and the popups of the shell are left out.     *)
(*                                                                         *)
(* Rows and cached thumbnails are found by tab id only, although tabs of   *)
(* the two modes are numbered independently, and asynchronous snapshots    *)
(* are filed under the tab that is current when they are delivered.        *)
(* Calls of the adaptor do not fail here, and a picture is never empty.    *)
(***************************************************************************)
EXTENDS WebEngine

CONSTANTS
    Seed,    \* the value m_tabIdSecret starts with
    MaxShots, \* a bound on the snapshots being taken at a time
    Picture(_) \* the picture of a view, as far as pictures are told apart

ASSUME SeedAssumption == Seed \in SecretSeeds
ASSUME ShotsAssumption == MaxShots \in Nat
ASSUME PictureAssumption == \A v \in Views : Picture(v) \in Views

VARIABLES
    running, \* whether the process runs
    eng,     \* the members of WebEngineService
    rows,    \* the database of the tab adaptor: a row for some ids
    thumbs,  \* m_thumbMap: a picture for some ids
    shots,   \* views whose asynchronous snapshot is being taken
    heard,   \* views whose snapshotCaptured has a slot
    older    \* rows of an earlier session that this one did not restore

vars == <<running, eng, rows, thumbs, shots, heard, older>>

(* The columns that matter: whether url and title are set, index, which    *)
(* holds the origin, and the snapshot, a picture of some view.             *)
Row == [page : BOOLEAN, index : Origins \cup {0}, image : Views \cup {NoView}]

NewRow == [page |-> FALSE, index |-> 0, image |-> NoView]

PartialFunctions(S, T) == UNION {[D -> T] : D \in SUBSET S}

TypeOK ==
    /\ running \in BOOLEAN
    /\ EngineTypeOK(eng)
    /\ DOMAIN rows \subseteq TabIds /\ \A t \in DOMAIN rows : rows[t] \in Row
    /\ DOMAIN thumbs \subseteq TabIds \cup {NoTab} /\ Range(thumbs) \subseteq Views
    /\ shots \subseteq Views
    /\ heard \subseteq Views
    /\ older \subseteq TabIds

NoEntries == [t \in {} |-> NoView]

Init ==
    /\ running = FALSE
    /\ eng = NewEngine(Seed)
    /\ rows = NoEntries /\ thumbs = NoEntries
    /\ shots = {} /\ heard = {} /\ older = {}

(* f with a value for x, which may be new. *)
Put(f, x, value) == [y \in DOMAIN f \cup {x} |-> IF y = x THEN value ELSE f[y]]

RowOf(r, t) == IF t \in DOMAIN r THEN r[t] ELSE NewRow

HasPage(r, t) == t \in DOMAIN r /\ r[t].page

(* The ids the adaptor can generate: it holds no row for them, and no tab  *)
(* of this session has one of them.                                        *)
FreeIds == NormalIds \ (DOMAIN rows \cup eng.tabs["NORMAL"])

(* A view keeps every slot it gets: disconnectSignals leaves this signal.  *)
(* The library drops the snapshots of a view that is gone.                 *)
EngineBecomes(e) ==
    /\ eng' = e
    /\ heard' = (heard \cup e.wired) \cap Live(e)
    /\ shots' = shots \cap Live(e)
-----------------------------------------------------------------------------
(* Mutant: the row is created anew although there is one. *)
UpdateTabItemSnapshotRecreates(t, v) ==
    /\ thumbs' = Put(thumbs, t, Picture(v))
    /\ IF t = NoTab
       THEN \E new \in FreeIds : rows' = Put(rows, new, NewRow)
       ELSE rows' = Put(rows, t, [NewRow EXCEPT !.image = Picture(v)])

(* updateTabItemSnapshot: the row is created when there is none (for NONE  *)
(* the adaptor makes up an id), then the cache and the row get the picture.*)
UpdateTabItemSnapshot(t, v) ==
    /\ thumbs' = Put(thumbs, t, Picture(v))
    /\ IF t = NoTab
       THEN \E new \in FreeIds : rows' = Put(rows, new, NewRow)
       ELSE rows' = Put(rows, t, [RowOf(rows, t) EXCEPT !.image = Picture(v)])

(* checkIfCreate. *)
AtLimit(e) == TabsCount(e) >= TabLimit

(* openNewTab, which switches to what addTab answers: the current tab when *)
(* no other may be made.  In normal mode onCreateTabId has the row of the  *)
(* new tab created first.                                                  *)
OpenNewTab(origin) ==
    /\ running
    /\ \/ /\ AtLimit(eng)
          /\ EngineBecomes(SwitchToTab(eng, CurrentId(eng)))
          /\ UNCHANGED rows
       \/ /\ ~AtLimit(eng)
          /\ \E t \in IF eng.mode = "NORMAL" THEN FreeIds ELSE NewIds(eng) :
                /\ EngineBecomes(SwitchToTab(AddTab(eng, t, origin), t))
                /\ rows' = IF eng.mode = "NORMAL" THEN Put(rows, t, NewRow) ELSE rows
    /\ UNCHANGED <<running, thumbs, older>>

TabClicked(t) ==
    /\ running /\ t \in Tabs(eng)
    /\ EngineBecomes(SwitchToTab(eng, t))
    /\ UNCHANGED <<running, rows, thumbs, older>>

(* Quick access, or the application in the background, and back again. *)
LeavePage ==
    /\ running /\ eng.view # NoView
    /\ EngineBecomes(Suspend(eng))
    /\ UNCHANGED <<running, rows, thumbs, older>>

ReturnToPage ==
    /\ running /\ IsSuspended(eng)
    /\ EngineBecomes(Resume(eng))
    /\ UNCHANGED <<running, rows, thumbs, older>>

ChangeEngineState ==
    /\ running
    /\ EngineBecomes(ChangeState(eng))
    /\ UNCHANGED <<running, rows, thumbs, older>>

(* Mutant: removeTab leaves the row. *)
CloseTabKeepsRow(t) ==
    /\ running /\ t \in Tabs(eng)
    /\ EngineBecomes(ResumeIfSuspended(CloseTab(eng, t)))
    /\ thumbs' = Restrict(thumbs, DOMAIN thumbs \ {t})
    /\ UNCHANGED <<running, rows, older>>

(* A closed tab: engineTabClosed runs removeTab(id), whatever the mode.    *)
CloseTabOf(t) ==
    /\ running /\ t \in Tabs(eng)
    /\ EngineBecomes(ResumeIfSuspended(CloseTab(eng, t)))
    /\ rows' = Restrict(rows, DOMAIN rows \ {t})
    /\ thumbs' = Restrict(thumbs, DOMAIN thumbs \ {t})
    /\ older' = older \ {t}
    /\ UNCHANGED running
-----------------------------------------------------------------------------
(* __loadFinished: the shell saves the current tab if it hears of it, and  *)
(* then the view asks for a snapshot in any case.                          *)
LoadFinished(v) ==
    /\ running /\ v \in Live(eng)
    /\ Cardinality(shots \cup {v}) <= MaxShots
    /\ IF v \in eng.wired /\ eng.mode = "NORMAL"
       THEN rows' = Put(rows, CurrentId(eng),
                        [RowOf(rows, CurrentId(eng)) EXCEPT
                            !.page = TRUE, !.index = eng.origin[eng.view]])
       ELSE UNCHANGED rows
    /\ shots' = shots \cup {v}
    /\ UNCHANGED <<running, eng, thumbs, heard, older>>

(* onSnapshotCaptured, for a snapshot taken after a load. *)
OnSnapshotCaptured(v) ==
    /\ running /\ v \in shots
    /\ shots' = shots \ {v}
    /\ IF v \notin heard
       THEN UNCHANGED <<rows, thumbs>>
       ELSE IF eng.mode = "SECRET"
       THEN thumbs' = Put(thumbs, CurrentId(eng), Picture(v)) /\ UNCHANGED rows
       ELSE UpdateTabItemSnapshot(CurrentId(eng), v)
    /\ UNCHANGED <<running, eng, heard, older>>

(* Where getThumb finds the picture of a tab: the cache, the database, or  *)
(* a new screenshot of its view.                                           *)
GetThumb(t) ==
    IF t \in DOMAIN thumbs THEN thumbs[t]
    ELSE IF RowOf(rows, t).image # NoView THEN rows[t].image
    ELSE Picture(<<eng.mode, t>>)

(* showTabUI: fillThumbs and fillFavicons for every tab of the mode.  A    *)
(* picture that had to be taken is written to the row of the tab, and so   *)
(* is one of the current tab when it is still loading.  Whatever picture   *)
(* is missing, each tab then has a row, also in secret mode: a favicon is  *)
(* only cached for a tab that has one.                                     *)
ShowTabUI(loading) ==
    /\ running
    /\ loading => Tabs(eng) # {}
    /\ LET again   == IF loading THEN {CurrentId(eng)} ELSE {}
           shot(t) == t \in again \/ (t \notin DOMAIN thumbs /\ RowOf(rows, t).image = NoView)
           taken   == {t \in Tabs(eng) : shot(t)}
       IN  /\ thumbs' = [t \in DOMAIN thumbs \cup Tabs(eng) |->
                            IF t \in again THEN Picture(<<eng.mode, t>>)
                            ELSE IF t \in Tabs(eng) THEN GetThumb(t)
                            ELSE thumbs[t]]
           /\ rows' = [t \in DOMAIN rows \cup Tabs(eng) |->
                            IF t \in taken
                            THEN [RowOf(rows, t) EXCEPT !.image = Picture(<<eng.mode, t>>)]
                            ELSE RowOf(rows, t)]
    /\ UNCHANGED <<running, eng, shots, heard, older>>
-----------------------------------------------------------------------------
(* Mutant: every row is taken for a tab. *)
AllRows == DOMAIN rows

(* getAllTabs skips rows without a page, and those with index 0. *)
AllTabs == {t \in DOMAIN rows : rows[t].page /\ rows[t].index # 0}

OpenSaved(e, t) ==
    IF AtLimit(e) THEN SwitchToTab(e, CurrentId(e))
                  ELSE SwitchToTab(AddTab(e, t, rows[t].index), t)

(* restoreLastSession opens the saved tabs one after another, each of them *)
(* under its old id: the service after the first i of them, and after all. *)
Restored(order) ==
    LET after[i \in 0 .. Len(order)] ==
            IF i = 0 THEN eng ELSE OpenSaved(after[i - 1], order[i])
    IN  after[Len(order)]

(* The first start: with an address nothing is restored.                   *)
Start(address) ==
    /\ ~running /\ running' = TRUE
    /\ IF address
       THEN UNCHANGED <<eng, heard, shots>>
       ELSE \E order \in SetToSeqs(AllTabs) : EngineBecomes(Restored(order))
    /\ older' = DOMAIN rows \ eng'.tabs["NORMAL"]
    /\ UNCHANGED <<rows, thumbs>>

(* The process ends, by itself or not: only the database is left. *)
Terminate ==
    /\ running /\ running' = FALSE
    /\ eng' = NewEngine(Seed)
    /\ thumbs' = NoEntries /\ shots' = {} /\ heard' = {} /\ older' = {}
    /\ UNCHANGED rows
-----------------------------------------------------------------------------
(* The origins of a new tab: quick access, which stands for Unknown too,   *)
(* or the current tab.                                                     *)
NewOrigins == {QuickAccess} \cup (Tabs(eng) \cap {CurrentId(eng)})

Next ==
    \/ \E address \in BOOLEAN : Start(address)
    \/ Terminate
    \/ \E o \in NewOrigins : OpenNewTab(o)
    \/ \E t \in TabIds : TabClicked(t) \/ CloseTabOf(t)
    \/ LeavePage \/ ReturnToPage \/ ChangeEngineState
    \/ \E v \in Views : LoadFinished(v) \/ OnSnapshotCaptured(v)
    \/ \E loading \in BOOLEAN : ShowTabUI(loading)

Spec == Init /\ [][Next]_vars
-----------------------------------------------------------------------------
(***************************************************************************)
(* Properties.                                                             *)
(***************************************************************************)

(* A session never brings a closed tab back: a row that would be restored  *)
(* belongs to a normal tab that is open, or is still one of an earlier     *)
(* session.  Late snapshots, secret tabs and the rows they create do not   *)
(* add one.                                                                *)
ClosedTabsStayClosed ==
    running => \A t \in DOMAIN rows :
                   rows[t].page => t \in eng.tabs["NORMAL"] \cup older

(* The next session forgets a saved tab only because a tab of that id was  *)
(* closed, in either mode: snapshots, the tab manager, pages loaded over   *)
(* it and the end of the process never lose it.  The mode is no part of    *)
(* removeTab, so where the ids of the modes meet, closing a secret tab     *)
(* also forgets the normal tab of its id, which is still open.             *)
SavedUntilClosed ==
    [][\A t \in DOMAIN rows :
          rows[t].page /\ ~HasPage(rows', t)
              => \E m \in Modes : t \in eng.tabs[m] \ eng'.tabs[m]]_vars

(* A restored tab was a loaded page when its row was last written, and has *)
(* the origin that page had, so that going back from it leads where it did *)
(* before the process ended.  Rows that only a snapshot or the tab manager *)
(* made, for secret tabs among others, open no tab.                        *)
RestoredAsSaved ==
    [][~running => \A t \in eng'.tabs["NORMAL"] :
                      /\ HasPage(rows, t)
                      /\ eng'.origin[<<"NORMAL", t>>] = rows[t].index]_vars
=============================================================================
