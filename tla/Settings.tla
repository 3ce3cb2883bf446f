------------------------------ MODULE Settings ------------------------------
(* The settings views (SettingsManager, SettingsMain, SettingsHomePage,       *)
(* SettingsPrivacy, SettingsAdvanced), the engine's settings, the pages they  *)
(* are applied to, and the table they are kept in (SettingsStorage).          *)
(*                                                                            *)
(* A write to the table may fail: the exception leaves the callback that made *)
(* it and the process ends.  The process may also be killed at any time.      *)
EXTENDS Integers, Sequences

CONSTANTS Params,    \* the settings with a box
          ViewOf,    \* the view with the box: [Params -> {"base", "sub"}]
          Default,   \* the configuration: [Params -> BOOLEAN]
          Pages,     \* ids of web pages
          Urls       \* addresses

SettingsAssumption ==
    ViewOf \in [Params -> {"base", "sub"}] /\ Default \in [Params -> BOOLEAN]

Modes == {"NORMAL", "SECRET"}
Specials == {"TizenPage", "QuickPage", "MostVisited"}
HomePages == Specials \cup Urls
Places == {"Device", "SDCard"}

VARIABLES app,       \* the process: alive, its mode, the address on screen
          settings,  \* m_settings of WebEngineService
          pages,     \* the pages that exist: their mode and their settings
          views,     \* the view on screen, its boxes, what SettingsAdvanced keeps
          db,        \* the table SETTINGS: the value of a key, a set of one or none
          device,    \* the memory card and the preference DefaultStorage
          missed,    \* history: <<page, setting>> set while it was not in the mode
          chosen     \* history: the home page the user chose

vars == <<app, settings, pages, views, db, device, missed, chosen>>

(* A home page as it is stored: "CurrentPage" may stand before the address.   *)
Stored == [marked : BOOLEAN, page : HomePages]
Plain(h) == [marked |-> FALSE, page |-> h]

App == [alive : BOOLEAN, mode : Modes, at : Urls \cup {"TizenPage"}]

(* m_settings: a value for each member of WebEngineSettings.                  *)
EngineSettings == [Params -> BOOLEAN]

NoPage == [on |-> FALSE]
Page == {NoPage} \cup [on : {TRUE}, mode : Modes, set : EngineSettings]

(* advanced: SettingsAdvanced was made; popup: what its m_popup names.        *)
Views == [top : {"none", "base", "home", "sub"}, boxes : [Params -> BOOLEAN],
          advanced : BOOLEAN, popup : {"none", "open", "gone"}]

(* A row holds a key of DefaultSettings and a value.                          *)
Table == [params : [Params -> SUBSET BOOLEAN], home : SUBSET Stored, place : SUBSET Places]

TypeOK ==
    /\ app \in App
    /\ settings \in EngineSettings
    /\ pages \in [Pages -> Page]
    /\ views \in Views
    /\ db \in Table
    /\ device \in [card : BOOLEAN, place : Places]
    /\ missed \subseteq Pages \X Params
    /\ chosen \in HomePages

(* init of the engine from the configuration, then                            *)
(* initWebEngineSettingsFromDB, for the settings that have a row.             *)
InitWebEngineSettingsFromDB(rows) ==
    [p \in Params |-> IF rows[p] = {} THEN Default[p] ELSE rows[p] = {TRUE}]

NoViews == [top |-> "none", boxes |-> [p \in Params |-> FALSE],
            advanced |-> FALSE, popup |-> "none"]

Init ==
    /\ app = [alive |-> TRUE, mode |-> "NORMAL", at |-> "TizenPage"]
    /\ db = [params |-> [p \in Params |-> {}], home |-> {}, place |-> {}]
    /\ settings = InitWebEngineSettingsFromDB(db.params)
    /\ pages = [p \in Pages |-> NoPage]
    /\ views = NoViews
    /\ device \in [card : BOOLEAN, place : {"Device"}]
    /\ missed = {}
    /\ chosen = "TizenPage"

Ends == app' = [app EXCEPT !.alive = FALSE]

-----------------------------------------------------------------------------
(* A write of the table.                                                      *)
Keep(rows) == db' = rows
SetParamString(saved, rows) == IF saved THEN Keep(rows) /\ UNCHANGED app
                                        ELSE Ends /\ UNCHANGED db

(* WebEngineService::setSettingsParam: the pages of the current mode.         *)
Applied(p, value) ==
    [t \in Pages |-> IF pages[t].on /\ pages[t].mode = app.mode
                       THEN [pages[t] EXCEPT !.set[p] = value] ELSE pages[t]]
MissedNow(p) ==
    { m \in missed : m[2] # p \/ ~(pages[m[1]].on /\ pages[m[1]].mode = app.mode) }
      \cup { <<t, p>> : t \in { t \in Pages : pages[t].on /\ pages[t].mode # app.mode } }

(* The check box of a view: made from the engine's setting, and turned by     *)
(* _check_cb, which calls "changed".                                          *)
MadeFrom(p) == settings[p]
Turned(p) == ~views.boxes[p]

(* The slots of "changed" are the engine's and then the table's.              *)
CheckPressed(p, saved) ==
    /\ app.alive /\ views.top = ViewOf[p]
    /\ views' = [views EXCEPT !.boxes[p] = Turned(p)]
    /\ settings' = [settings EXCEPT ![p] = Turned(p)]
    /\ pages' = Applied(p, Turned(p))
    /\ SetParamString(saved, [db EXCEPT !.params[p] = {Turned(p)}])
    /\ missed' = MissedNow(p)
    /\ UNCHANGED <<device, chosen>>

(* WebEngineService::addTab and setWebViewSettings; closeTab.                 *)
AddTab(t) ==
    /\ app.alive /\ ~pages[t].on
    /\ pages' = [pages EXCEPT ![t] = [on |-> TRUE, mode |-> app.mode, set |-> settings]]
    /\ UNCHANGED <<app, settings, views, db, device, missed, chosen>>

CloseTab(t) ==
    /\ app.alive /\ pages[t].on /\ pages[t].mode = app.mode
    /\ pages' = [pages EXCEPT ![t] = NoPage]
    /\ missed' = { m \in missed : m[1] # t }
    /\ UNCHANGED <<app, settings, views, db, device, chosen>>

ChangeMode ==
    /\ app.alive /\ views.top = "none"
    /\ app' = [app EXCEPT !.mode = CHOOSE m \in Modes : m # @]
    /\ UNCHANGED <<settings, pages, views, db, device, missed, chosen>>

(* The page on screen goes to another address, also behind the settings.      *)
UrlChanged(u) ==
    /\ app.alive /\ u # app.at
    /\ app' = [app EXCEPT !.at = u]
    /\ UNCHANGED <<settings, pages, views, db, device, missed, chosen>>

-----------------------------------------------------------------------------
(* getHomePage and getParamString: no row means the default page.             *)
HomePage == IF db.home = {} THEN Plain("TizenPage") ELSE CHOOSE h \in db.home : TRUE

(* Mutant: the address of the moment is stored.                               *)
StoresTheAddress(saved) ==
    IF HomePage.marked
      THEN SetParamString(saved, [db EXCEPT !.home = {Plain(app.at)}])
      ELSE UNCHANGED <<app, db>>

(* SettingsMain::setHomePageSubText takes the marker off what is stored.      *)
SetHomePageSubText(saved) ==
    IF HomePage.marked
      THEN SetParamString(saved, [db EXCEPT !.home = {Plain(HomePage.page)}])
      ELSE UNCHANGED <<app, db>>

(* A view comes to the top: its boxes are made from the engine's settings.    *)
Shown(top) == [views EXCEPT !.top = top, !.boxes = [p \in Params |-> MadeFrom(p)]]

ShowBase(saved) ==
    /\ app.alive
    /\ views.top \in {"none", "home", "sub"}
    /\ views.popup # "open"
    /\ views' = Shown("base")
    /\ SetHomePageSubText(saved)
    /\ UNCHANGED <<settings, pages, device, missed, chosen>>

ShowHomePageView ==
    /\ app.alive /\ views.top = "base"
    /\ views' = Shown("home")
    /\ UNCHANGED <<app, settings, pages, db, device, missed, chosen>>

(* An app_control request puts the web page on top; popups are dismissed.     *)
LeaveSettings ==
    /\ app.alive /\ views.top # "none"
    /\ views' = [views EXCEPT !.top = "none"]
    /\ UNCHANGED <<app, settings, pages, db, device, missed, chosen>>

(* _default_cb, _quick_cb, _most_visited_cb; _current_cb stores a marker and  *)
(* the address; the popup of "other" stores what was typed.                   *)
ChooseHome(stored, saved) ==
    /\ app.alive /\ views.top = "home"
    /\ SetParamString(saved, [db EXCEPT !.home = {stored}])
    /\ chosen' = IF saved THEN stored.page ELSE chosen
    /\ UNCHANGED <<settings, pages, views, device, missed>>

CurrentClicked(saved) == ChooseHome([marked |-> TRUE, page |-> app.at], saved)
SpecialClicked(h, saved) == ChooseHome(Plain(h), saved)
OtherEntered(u, saved) == ChooseHome(Plain(u), saved)

(* SimpleUI::showHomePage, what it shows or opens.                            *)
ShowHomePage == HomePage.page

-----------------------------------------------------------------------------
(* SettingsAdvanced::setContentDestination: the preference, then the table.   *)
SetContentDestination(place, saved) ==
    /\ device' = [device EXCEPT !.place = place]
    /\ SetParamString(saved, [db EXCEPT !.place = {place}])

(* populateList ends with changeGenlistStorage, which reads the card.         *)
ShowAdvanced(saved) ==
    /\ app.alive /\ views.top = "base"
    /\ views' = [Shown("sub") EXCEPT !.advanced = TRUE]
    /\ IF device.card THEN UNCHANGED <<app, db, device>>
                      ELSE SetContentDestination("Device", saved)
    /\ UNCHANGED <<settings, pages, missed, chosen>>

(* The item is disabled without a card.                                       *)
SaveContentClicked ==
    /\ app.alive /\ views.top = "sub" /\ device.card /\ views.popup # "open"
    /\ views' = [views EXCEPT !.popup = "open"]
    /\ UNCHANGED <<app, settings, pages, db, device, missed, chosen>>

RadioClicked(place, saved) ==
    /\ app.alive /\ views.popup = "open"
    /\ SetContentDestination(place, saved)
    /\ views' = [views EXCEPT !.popup = "none"]
    /\ UNCHANGED <<settings, pages, missed, chosen>>

(* The back key: m_popup keeps the address of the popup that is no more.      *)
PopupDismissed ==
    /\ app.alive /\ views.popup = "open"
    /\ views' = [views EXCEPT !.popup = "gone"]
    /\ UNCHANGED <<app, settings, pages, db, device, missed, chosen>>

(* vconf tells SettingsAdvanced, from its making on, of the card, and it       *)
(* dismisses the popup that m_popup names; one that is gone may end the        *)
(* process.                                                                    *)
ChangeGenlistStorage(card, saved) ==
    IF card THEN device' = [device EXCEPT !.card = card] /\ UNCHANGED <<app, db>>
            ELSE /\ device' = [card |-> card, place |-> "Device"]
                 /\ SetParamString(saved, [db EXCEPT !.place = {"Device"}])

NotifyStorageChange(saved) ==
    /\ app.alive
    /\ IF ~views.advanced
         THEN device' = [device EXCEPT !.card = ~@] /\ UNCHANGED <<app, db, views>>
         ELSE /\ ChangeGenlistStorage(~device.card, saved)
              /\ views' = [views EXCEPT !.popup = "none"]
    /\ UNCHANGED <<settings, pages, missed, chosen>>

NotifyDeadPopup(saved) ==
    /\ app.alive /\ views.popup = "gone"
    /\ device' = [card |-> ~device.card, place |-> IF device.card THEN "Device" ELSE device.place]
    /\ Ends
    /\ IF saved /\ device.card THEN Keep([db EXCEPT !.place = {"Device"}]) ELSE UNCHANGED db
    /\ UNCHANGED <<settings, pages, views, missed, chosen>>

-----------------------------------------------------------------------------
Killed ==
    /\ app.alive
    /\ Ends
    /\ UNCHANGED <<settings, pages, views, db, device, missed, chosen>>

Start ==
    /\ ~app.alive
    /\ app' = [alive |-> TRUE, mode |-> "NORMAL", at |-> "TizenPage"]
    /\ settings' = InitWebEngineSettingsFromDB(db.params)
    /\ pages' = [p \in Pages |-> NoPage]
    /\ views' = NoViews
    /\ missed' = {}
    /\ UNCHANGED <<db, device, chosen>>

Next ==
    \/ \E saved \in BOOLEAN :
         \/ \E p \in Params : CheckPressed(p, saved)
         \/ ShowBase(saved) \/ ShowAdvanced(saved)
         \/ CurrentClicked(saved)
         \/ \E h \in Specials : SpecialClicked(h, saved)
         \/ \E u \in Urls : OtherEntered(u, saved)
         \/ \E place \in Places : RadioClicked(place, saved)
         \/ NotifyStorageChange(saved) \/ NotifyDeadPopup(saved)
    \/ \E t \in Pages : AddTab(t) \/ CloseTab(t)
    \/ \E u \in Urls : UrlChanged(u)
    \/ ChangeMode \/ ShowHomePageView \/ LeaveSettings \/ SaveContentClicked
    \/ PopupDismissed \/ Killed \/ Start

Spec == Init /\ [][Next]_vars

-----------------------------------------------------------------------------
(* Four copies of a setting agree: the row or else the configuration, the     *)
(* engine's, the box on screen, and the page's, but for pages of the other    *)
(* mode at the time it was set, which setSettingsParam does not reach.  They  *)
(* agree after a restart, whatever write failed and whenever it was killed.   *)
SettingsAgree ==
    app.alive =>
      /\ settings = InitWebEngineSettingsFromDB(db.params)
      /\ views.top # "none" => \A p \in Params : views.boxes[p] = settings[p]
      /\ \A t \in Pages, p \in Params :
           pages[t].on /\ <<t, p>> \notin missed => pages[t].set[p] = settings[p]

(* The home button opens the page the user chose last: the marker is written  *)
(* by one view, taken off by another, and read by showHomePage in between.    *)
HomeIsAsChosen == ShowHomePage = chosen

(* Downloads do not go to a card that was taken out under the view that lets  *)
(* the user choose it: the popup that offers the card is gone with the card.  *)
NoCardNoSDCard == app.alive /\ views.advanced /\ ~device.card => device.place = "Device"

ChoicesAreKept == SettingsAgree /\ HomeIsAsChosen /\ NoCardNoSDCard
=============================================================================
