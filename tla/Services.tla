------------------------------- MODULE Services -------------------------------
(***************************************************************************)
(* The services that share no state with each other: the find bar, the     *)
(* settings, the certificates, the popups, what pages ask of the device,   *)
(* and the password of secret mode.  A behaviour is one of one of them,    *)
(* chosen in the initial state; the variables of the others stay empty,    *)
(* those of the password as they begin.                                    *)
(***************************************************************************)
EXTENDS Integers

CONSTANTS Tabs, Docs, Words, Long, Empty, Matches, MaxCount, MaxAsks,  \* the find bar
          Params, ViewOf, Default, Urls,                               \* the settings
          Hosts, Pems, Readable, MaxQuestions,                         \* the certificates
          Popups, MaxLayouts,                                          \* the popups
          LastNumber, Downloads,                                       \* the device
          Texts, Acceptable, Blank, Hashes, Hash, NoPassword,          \* the password
          Pages                                                        \* of the settings
                                                                       \* and the device

VARIABLES service,
          entry, pending, bar, shown, current, doc, asks, stray,
          app, settings, pages, views, db, device, missed, chosen,
          hostCert, rows, page, questions, viewing, wrong, continued,
          kind, vector, layouts, part, notice,
          load, motor, timers, files, told, menu, launched,
          password, decided, running, secret, view, tabState,
          state, action, unconfirmed, typed, warning, writing

findVars        == <<entry, pending, bar, shown, current, doc, asks, stray>>
settingsVars    == <<app, settings, pages, views, db, device, missed, chosen>>
certificateVars == <<hostCert, rows, page, questions, viewing, wrong, continued>>
dialogVars      == <<kind, vector, layouts, part, notice>>
requestVars     == <<load, motor, timers, files, told, menu, launched>>
passwordVars    == <<password, decided, running, secret, view, tabState,
                     state, action, unconfirmed, typed, warning, writing>>
vars == <<service, findVars, settingsVars, certificateVars, dialogVars, requestVars,
          passwordVars>>

Find         == INSTANCE FindOnPage WITH Pages <- Tabs
Settings     == INSTANCE Settings
Certificates == INSTANCE Certificates
Dialogs      == INSTANCE Dialogs
Requests     == INSTANCE PageRequests WITH Last <- LastNumber
Password     == INSTANCE SecretMode WITH entry <- typed

ASSUME ServicesAssumption ==
    /\ Find!FindAssumption
    /\ Settings!SettingsAssumption
    /\ Certificates!CertificatesAssumption
    /\ Dialogs!DialogsAssumption
    /\ Requests!PageRequestsAssumption
    /\ Password!TextAssumption
    /\ Password!HashAssumption

-----------------------------------------------------------------------------
No == <<>>

NoFind == /\ entry = No /\ pending = No /\ bar = No /\ shown = No
          /\ current = No /\ doc = No /\ asks = No /\ stray = No
NoSettings == /\ app = No /\ settings = No /\ pages = No /\ views = No
              /\ db = No /\ device = No /\ missed = No /\ chosen = No
NoCertificates == /\ hostCert = No /\ rows = No /\ page = No /\ questions = No
                  /\ viewing = No /\ wrong = No /\ continued = No
NoDialogs == kind = No /\ vector = No /\ layouts = No /\ part = No /\ notice = No
NoRequests == /\ load = No /\ motor = No /\ timers = No /\ files = No
              /\ told = No /\ menu = No /\ launched = No
NoSecret == Password!Init /\ action = "UsePassword"

Init ==
    \/ /\ service = "find" /\ Find!Init
       /\ NoSettings /\ NoCertificates /\ NoDialogs /\ NoRequests /\ NoSecret
    \/ /\ service = "settings" /\ Settings!Init
       /\ NoFind /\ NoCertificates /\ NoDialogs /\ NoRequests /\ NoSecret
    \/ /\ service = "certificates" /\ Certificates!Init
       /\ NoFind /\ NoSettings /\ NoDialogs /\ NoRequests /\ NoSecret
    \/ /\ service = "dialogs" /\ Dialogs!Init
       /\ NoFind /\ NoSettings /\ NoCertificates /\ NoRequests /\ NoSecret
    \/ /\ service = "requests" /\ Requests!Init
       /\ NoFind /\ NoSettings /\ NoCertificates /\ NoDialogs /\ NoSecret
    \/ /\ service = "password" /\ Password!Init
       /\ NoFind /\ NoSettings /\ NoCertificates /\ NoDialogs /\ NoRequests

Next ==
    \/ /\ service = "find" /\ Find!Next
       /\ UNCHANGED <<service, settingsVars, certificateVars, dialogVars, requestVars,
                      passwordVars>>
    \/ /\ service = "settings" /\ Settings!Next
       /\ UNCHANGED <<service, findVars, certificateVars, dialogVars, requestVars,
                      passwordVars>>
    \/ /\ service = "certificates" /\ Certificates!Next
       /\ UNCHANGED <<service, findVars, settingsVars, dialogVars, requestVars,
                      passwordVars>>
    \/ /\ service = "dialogs" /\ Dialogs!Next
       /\ UNCHANGED <<service, findVars, settingsVars, certificateVars, requestVars,
                      passwordVars>>
    \/ /\ service = "requests" /\ Requests!Next
       /\ UNCHANGED <<service, findVars, settingsVars, certificateVars, dialogVars,
                      passwordVars>>
    \/ /\ service = "password" /\ Password!Next
       /\ UNCHANGED <<service, findVars, settingsVars, certificateVars, dialogVars,
                      requestVars>>

Spec == Init /\ [][Next]_vars

-----------------------------------------------------------------------------
(* The counter of the find bar is in range, and once the searches are        *)
(* answered it counts the entry's word on the page on screen.                *)
FindBarIsRight == service = "find" => Find!FindBarIsRight

(* The copies of a setting agree, the home page is the one chosen last, and  *)
(* downloads do not go to a card that is not there.                          *)
ChoicesAreKept == service = "settings" => Settings!ChoicesAreKept

(* A host a wrong certificate was kept for is not shown as secure, and the   *)
(* user is not asked again about a host he went on to.                       *)
CertificatesAgree == service = "certificates" => Certificates!CertificatesAgree

(* The vector of popups holds each once, in the order they are stacked.      *)
PopupsInOrder == service = "dialogs" => Dialogs!PopupsInOrder

(* A download said to be saved stays, and one timer stops the motor.         *)
RequestsAreServed == service = "requests" => Requests!RequestsAreServed

(* The button of the tab manager says whether it enters or leaves secret     *)
(* mode.                                                                     *)
ButtonTellsMode == Password!ButtonTellsMode

(* Secret mode is on only after the user decided about a password.           *)
SecretIsDecided == Password!SecretIsDecided

(* The hash that is stored is one of a text a password may be.               *)
StoredIsAcceptable == Password!StoredIsAcceptable

(* The password keeps the promise of SecretGate: once decided about, it is   *)
(* changed, removed and passed only by somebody who has just typed it.       *)
ImplementsGate == Password!Gate!Spec

=============================================================================
