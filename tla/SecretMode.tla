----------------------------- MODULE SecretMode -----------------------------
(***************************************************************************)
(* How the user gets into and out of secret mode: the buttons and the menu *)
(* of the tab manager (services/TabUI/TabUI.cpp), the password view        *)
(* (services/TabUI/PasswordUI.cpp), and the two settings that survive the  *)
(* process, the hash of the password and whether the user has decided      *)
(* about one.                                                              *)
(*                                                                         *)
(* The settings are two rows written one after the other; the process may  *)
(* end between the writes, or a write may throw, which ends it too.  Tabs  *)
(* are left out: any action that shows the web page is LeaveTabUI.         *)
(***************************************************************************)
EXTENDS Naturals

CONSTANTS
    Texts,      \* what can be typed into the entry
    Acceptable, \* the texts that are long enough and contain a letter
    Blank,      \* the empty text
    Hashes,     \* the results of std::hash, printed as numbers
    Hash,       \* std::hash<std::string>
    NoPassword  \* the empty string in the settings

TextAssumption == Acceptable \subseteq Texts /\ Blank \in Texts \ Acceptable
HashAssumption == Hash \in [Texts -> Hashes] /\ NoPassword \notin Hashes

VARIABLES
    password,    \* PASSWORD_FIELD of the settings database
    decided,     \* DECISION_MADE
    running,     \* whether the process runs
    secret,      \* whether the engine is in secret mode
    view,        \* the view on screen
    tabState,    \* TabUI::m_state
    state,       \* PasswordUI::m_state
    action,      \* PasswordUI::m_action
    unconfirmed, \* m_not_confirmed_hash
    entry,       \* the text in m_entry
    warning,     \* whether the warning about using no password is shown
    writing      \* the handler that has written PASSWORD_FIELD and must go on

settings == <<password, decided>>
dialogue == <<state, action, unconfirmed, entry>>
vars == <<password, decided, running, secret, view, tabState, dialogue,
          warning, writing>>

States  == {"ConfirmPassword", "IncorrectPassword", "CreatePassword",
            "ConfirmCreatePassword", "SecretModeData"}
Actions == {"UsePassword", "ChangePassword", "CreatePasswordFirstTime",
            "ConfirmPasswordEnterSecret"}

TypeOK ==
    /\ password \in Hashes \cup {NoPassword}
    /\ decided \in BOOLEAN
    /\ running \in BOOLEAN
    /\ secret \in BOOLEAN
    /\ view \in {"page", "tabUI", "passwordUI"}
    /\ tabState \in {"NORMAL", "SECRET", "PASSWORD_DECISION"}
    /\ state \in States
    /\ action \in Actions
    /\ unconfirmed \in Hashes \cup {NoPassword}
    /\ entry \in Texts
    /\ warning \in BOOLEAN
    /\ writing \in {"none", "firstPassword", "noPassword"}

(* The constructors leave m_action uninitialised, and a DECISION_MADE that *)
(* is missing is written as false when the browser starts.                 *)
Init ==
    /\ password = NoPassword /\ decided = FALSE
    /\ running = FALSE /\ secret = FALSE
    /\ view = "page" /\ tabState = "NORMAL"
    /\ state = "CreatePassword" /\ action \in Actions
    /\ unconfirmed = NoPassword /\ entry = Blank
    /\ warning = FALSE /\ writing = "none"
-----------------------------------------------------------------------------
(* The user can touch view v: no handler is running and no popup covers it.*)
Touchable(v) == running /\ writing = "none" /\ ~warning /\ view = v

(* refetchTabUIData: addTabItems sets the state from the mode. *)
Refetch(inSecret) == tabState' = IF inSecret THEN "SECRET" ELSE "NORMAL"

(* changeState clears the list; the items it adds have an empty entry. *)
ChangeState(s) == state' = s /\ entry' = Blank

(* showPasswordUI: PasswordUI::showUI calls changeState(m_state). *)
ShowPasswordUI(s, a) ==
    /\ view' = "passwordUI"
    /\ ChangeState(s) /\ action' = a
    /\ UNCHANGED unconfirmed
-----------------------------------------------------------------------------
(***************************************************************************)
(* The tab manager.                                                        *)
(***************************************************************************)

StartBrowser ==
    /\ ~running /\ running' = TRUE
    /\ UNCHANGED <<settings, secret, view, tabState, dialogue, warning, writing>>

(* The process ends, in the middle of a handler or not. *)
Terminate ==
    /\ running /\ running' = FALSE
    /\ secret' = FALSE
    /\ view' = "page" /\ tabState' = "NORMAL"
    /\ ChangeState("CreatePassword") /\ action' \in Actions
    /\ unconfirmed' = NoPassword
    /\ warning' = FALSE /\ writing' = "none"
    /\ UNCHANGED settings

ShowTabUI ==
    /\ Touchable("page")
    /\ view' = "tabUI"
    /\ Refetch(secret)
    /\ UNCHANGED <<settings, running, secret, dialogue, warning, writing>>

(* Closing the tab manager, choosing or opening a tab, or an address from  *)
(* another application, which pops every view even below the warning.      *)
LeaveTabUI ==
    /\ running /\ writing = "none" /\ view # "page"
    /\ view' = "page"
    /\ UNCHANGED <<settings, running, secret, tabState, dialogue, warning, writing>>

(* closeUI and the back key: popTheStack shows the tab manager again. *)
ClosePasswordUI ==
    /\ Touchable("passwordUI")
    /\ view' = "tabUI"
    /\ Refetch(secret)
    /\ UNCHANGED <<settings, running, secret, dialogue, warning, writing>>

(* _left_button_clicked: enable secret mode. *)
EnableSecret ==
    /\ Touchable("tabUI") /\ tabState = "NORMAL"
    /\ \/ /\ decided /\ password = NoPassword
          /\ secret' = ~secret
          /\ Refetch(secret')
          /\ UNCHANGED <<view, dialogue>>
       \/ /\ decided /\ password # NoPassword
          /\ ShowPasswordUI("ConfirmPassword", "ConfirmPasswordEnterSecret")
          /\ UNCHANGED <<secret, tabState>>
       \/ /\ ~decided
          /\ tabState' = "PASSWORD_DECISION"
          /\ UNCHANGED <<secret, view, dialogue>>
    /\ UNCHANGED <<settings, running, warning, writing>>

(* _left_button_clicked: disable secret mode. *)
DisableSecret ==
    /\ Touchable("tabUI") /\ tabState = "SECRET"
    /\ secret' = ~secret
    /\ Refetch(secret')
    /\ UNCHANGED <<settings, running, view, dialogue, warning, writing>>

(* _left_button_clicked: do not use a password. *)
ShowNoPasswordWarning ==
    /\ Touchable("tabUI") /\ tabState = "PASSWORD_DECISION"
    /\ warning' = TRUE
    /\ UNCHANGED <<settings, running, secret, view, tabState, dialogue, writing>>

(* _right_button_clicked: create a password. *)
CreatePasswordFirstTime ==
    /\ Touchable("tabUI") /\ tabState = "PASSWORD_DECISION"
    /\ ShowPasswordUI("CreatePassword", "CreatePasswordFirstTime")
    /\ UNCHANGED <<settings, running, secret, tabState, warning, writing>>

(* _cm_secret_clicked, in the menu of the tab manager. *)
SecretModeMenu ==
    /\ Touchable("tabUI")
    /\ ShowPasswordUI("SecretModeData", action)
    /\ UNCHANGED <<settings, running, secret, tabState, warning, writing>>

(* switchToSecretFirstTime, the button of the warning, first half. *)
SwitchToSecretFirstTime ==
    /\ running /\ writing = "none" /\ warning
    /\ warning' = FALSE
    /\ password' = NoPassword
    /\ writing' = "noPassword"
    /\ UNCHANGED <<decided, running, secret, view, tabState, dialogue>>

DismissWarning ==
    /\ running /\ writing = "none" /\ warning
    /\ warning' = FALSE
    /\ UNCHANGED <<settings, running, secret, view, tabState, dialogue, writing>>
-----------------------------------------------------------------------------
(***************************************************************************)
(* The password view.                                                      *)
(***************************************************************************)

(* _use_password_clicked *)
UsePassword ==
    /\ Touchable("passwordUI") /\ state = "SecretModeData"
    /\ action' = "UsePassword"
    /\ ChangeState(IF password = NoPassword THEN "CreatePassword"
                                            ELSE "ConfirmPassword")
    /\ UNCHANGED <<settings, running, secret, view, tabState, unconfirmed,
                   warning, writing>>

(* _change_password_clicked; the item is there when a password is in use. *)
ChangePassword ==
    /\ Touchable("passwordUI") /\ state = "SecretModeData"
    /\ password # NoPassword
    /\ action' = "ChangePassword"
    /\ ChangeState("ConfirmPassword")
    /\ UNCHANGED <<settings, running, secret, view, tabState, unconfirmed,
                   warning, writing>>

Type(text) ==
    /\ Touchable("passwordUI") /\ state # "SecretModeData"
    /\ entry' = text
    /\ UNCHANGED <<settings, running, secret, view, tabState, state, action,
                   unconfirmed, warning, writing>>

Asked == Touchable("passwordUI") /\ state \in {"ConfirmPassword", "IncorrectPassword"}

(* _entry_submited where the stored password is asked for. *)
ConfirmPassword ==
    /\ Asked /\ password = Hash[entry]
    /\ \/ /\ action = "ChangePassword"
          /\ ChangeState("CreatePassword")
          /\ UNCHANGED <<password, secret, view, tabState>>
       \/ /\ action = "UsePassword"
          /\ password' = NoPassword
          /\ ChangeState("SecretModeData")
          /\ UNCHANGED <<secret, view, tabState>>
       \/ /\ action = "ConfirmPasswordEnterSecret"
          /\ secret' = ~secret
          /\ view' = "tabUI" /\ Refetch(secret')
          /\ UNCHANGED <<password, state, entry>>
    /\ UNCHANGED <<decided, running, action, unconfirmed, warning, writing>>

RejectPassword ==
    /\ Asked /\ password # Hash[entry]
    /\ ChangeState("IncorrectPassword")
    /\ UNCHANGED <<settings, running, secret, view, tabState, action,
                   unconfirmed, warning, writing>>

(* Mutant: any text is accepted. *)
CreatePasswordUnchecked ==
    /\ Touchable("passwordUI") /\ state = "CreatePassword"
    /\ unconfirmed' = Hash[entry] /\ ChangeState("ConfirmCreatePassword")
    /\ UNCHANGED <<settings, running, secret, view, tabState, action, warning, writing>>

(* _entry_submited with a new password, for the first time. *)
CreatePassword ==
    /\ Touchable("passwordUI") /\ state = "CreatePassword"
    /\ IF entry \in Acceptable
       THEN unconfirmed' = Hash[entry] /\ ChangeState("ConfirmCreatePassword")
       ELSE entry' = Blank /\ UNCHANGED <<state, unconfirmed>>
    /\ UNCHANGED <<settings, running, secret, view, tabState, action, warning, writing>>

(* Mutant: the two texts are not compared. *)
ConfirmCreatePasswordOnce ==
    /\ Touchable("passwordUI") /\ state = "ConfirmCreatePassword"
    /\ password' = unconfirmed
    /\ IF action = "CreatePasswordFirstTime"
       THEN writing' = "firstPassword" /\ UNCHANGED <<state, entry>>
       ELSE ChangeState("SecretModeData") /\ UNCHANGED writing
    /\ UNCHANGED <<decided, running, secret, view, tabState, action, unconfirmed, warning>>

(* _entry_submited with a new password, for the second time. *)
ConfirmCreatePassword ==
    /\ Touchable("passwordUI") /\ state = "ConfirmCreatePassword"
    /\ IF Hash[entry] # unconfirmed
       THEN /\ ChangeState("ConfirmCreatePassword")
            /\ UNCHANGED <<password, writing>>
       ELSE /\ password' = Hash[entry]
            /\ IF action = "CreatePasswordFirstTime"
               THEN writing' = "firstPassword" /\ UNCHANGED <<state, entry>>
               ELSE ChangeState("SecretModeData") /\ UNCHANGED writing
    /\ UNCHANGED <<decided, running, secret, view, tabState, action, unconfirmed, warning>>

(* Mutant: the decision is not stored. *)
DecideForgotten ==
    /\ running /\ writing # "none"
    /\ writing' = "none"
    /\ secret' = ~secret
    /\ view' = IF writing = "firstPassword" THEN "tabUI" ELSE view
    /\ Refetch(secret')
    /\ UNCHANGED <<settings, running, dialogue, warning>>

(* Mutant: the tab manager is not filled again. *)
DecideShowsOldTabs ==
    /\ running /\ writing # "none"
    /\ decided' = TRUE /\ writing' = "none"
    /\ secret' = ~secret
    /\ view' = IF writing = "firstPassword" THEN "tabUI" ELSE view
    /\ UNCHANGED <<password, running, tabState, dialogue, warning>>

(* The second half of both handlers that decide: DECISION_MADE is written, *)
(* the mode changes, the password view closes, the tabs are shown again.   *)
Decide ==
    /\ running /\ writing # "none"
    /\ decided' = TRUE /\ writing' = "none"
    /\ secret' = ~secret
    /\ view' = IF writing = "firstPassword" THEN "tabUI" ELSE view
    /\ Refetch(secret')
    /\ UNCHANGED <<password, running, dialogue, warning>>
-----------------------------------------------------------------------------
Next ==
    \/ StartBrowser \/ Terminate
    \/ ShowTabUI \/ LeaveTabUI \/ ClosePasswordUI
    \/ EnableSecret \/ DisableSecret \/ SecretModeMenu
    \/ CreatePasswordFirstTime
    \/ ShowNoPasswordWarning \/ SwitchToSecretFirstTime \/ DismissWarning
    \/ UsePassword \/ ChangePassword
    \/ \E text \in Texts : Type(text)
    \/ ConfirmPassword \/ RejectPassword
    \/ CreatePassword \/ ConfirmCreatePassword \/ Decide

Spec == Init /\ [][Next]_vars
-----------------------------------------------------------------------------
(***************************************************************************)
(* Properties.                                                             *)
(***************************************************************************)

(* The button of the tab manager says what it does: while the tab manager  *)
(* is on screen, its state agrees with the mode, so that "Enable Secret"   *)
(* never leaves secret mode, although changeEngineState only toggles.      *)
ButtonTellsMode ==
    view = "tabUI" /\ writing = "none" => (tabState = "SECRET" <=> secret)

(* Secret mode is never on before the user has decided about a password,   *)
(* also when the process ended between the two writes.                     *)
SecretIsDecided == secret => decided

(* The stored hash is the hash of an acceptable text, whatever dialogues   *)
(* were left half-way and whatever was typed in them.                      *)
StoredIsAcceptable ==
    password = NoPassword \/ \E text \in Acceptable : Hash[text] = password

(* The dialogue has asked for the stored password and may change it. *)
MayChange ==
    /\ running /\ view = "passwordUI" /\ writing = "none"
    /\ state \in {"CreatePassword", "ConfirmCreatePassword"}
    /\ action = "ChangePassword"

TypedOnce ==
    IF running /\ view = "passwordUI" /\ writing = "none" /\ state = "ConfirmCreatePassword"
    THEN unconfirmed
    ELSE NoPassword

Gate == INSTANCE SecretGate WITH known <- MayChange, once <- TypedOnce

(* The password keeps its promise: once decided about, it is changed,      *)
(* removed and passed only by somebody who has just typed it, and set only *)
(* when typed twice, however the views, the settings and the end of the    *)
(* process interleave.                                                     *)
ImplementsGate == Gate!Spec
=============================================================================
