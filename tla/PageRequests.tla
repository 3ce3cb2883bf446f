---------------------------- MODULE PageRequests ----------------------------
(* What a page asks of the rest of the device: policy decisions about where   *)
(* it goes and what it is answered with (WebView), applications to launch,    *)
(* files to keep (DownloadControl), the vibration motor, which all pages      *)
(* share, and the menu of a long press.                                       *)
EXTENDS Integers, FiniteSets

CONSTANTS Pages,
          Last,       \* BROWSER_DATA_SCHEME_DOWNLOAD_ALLOW_MAX_COUNT
          Downloads   \* bound: contents of data: addresses

Numbers == 0 .. Last + 1
Folders == {"device", "card"}
None == "none"

PageRequestsAssumption == Last \in Nat /\ None \notin Downloads

VARIABLES load,      \* what each page's load waits for
          motor,     \* m_haptic_handle is open, and m_haptic_timer_id
          timers,    \* timers of the main loop that will stop the motor
          files,     \* what is in download, download_1, .. of each folder
          told,      \* contents the user was told are saved
          menu,      \* the menu on screen: its kind and its link's
          launched   \* the application launched last

vars == <<load, motor, timers, files, told, menu, launched>>

Schemes == {"web", "mailto", "tel", "sms", "store", "other"}
Apps == {"email", "dialer", "message", "contact", "store", "viewer", "downloader"}
MenuKinds == {"TEXT_ONLY", "INPUT_FIELD", "TEXT_LINK", "IMAGE_ONLY", "IMAGE_LINK",
              "EMAIL_LINK", "TEL_LINK", "TEXT_IMAGE_LINK", "UNKNOWN_MENU"}

TypeOK ==
    /\ load \in [Pages -> {None, "navigation", "response", "undecided"}]
    /\ motor \in [open : BOOLEAN, timer : BOOLEAN]
    /\ timers \in 0..1
    /\ files \in [Folders -> [Numbers -> Downloads \cup {None}]]
    /\ told \subseteq Downloads
    /\ menu \in [kind : MenuKinds \cup {None}, link : Schemes \cup {None}]
    /\ launched \in Apps \cup {None}

NoMenu == [kind |-> None, link |-> None]

Init ==
    /\ load = [p \in Pages |-> None]
    /\ motor = [open |-> FALSE, timer |-> FALSE] /\ timers = 0
    /\ files = [f \in Folders |-> [n \in Numbers |-> None]]
    /\ told = {}
    /\ menu = NoMenu
    /\ launched = None

(* app_control_*: any call of the chain that sends the request may fail.      *)
Launch(app) == launched' = launched \/ launched' = app

-----------------------------------------------------------------------------
(* handle_scheme: an address another application handles.                     *)
Handler(scheme) == CASE scheme = "store" -> "store"
                     [] scheme = "mailto" -> "email"
                     [] scheme = "tel" -> "dialer"
                     [] scheme = "sms" -> "message"
                     [] OTHER -> None
HandleScheme(scheme) ==
    IF Handler(scheme) # None THEN Launch(Handler(scheme))
                              ELSE UNCHANGED launched

Navigate(p) ==
    /\ load[p] \in {None, "undecided"}
    /\ load' = [load EXCEPT ![p] = "navigation"]
    /\ UNCHANGED <<motor, timers, files, told, menu, launched>>

PolicyNavigationDecide(p, scheme) ==
    /\ load[p] = "navigation"
    /\ HandleScheme(scheme)
    /\ load' = [load EXCEPT ![p] = IF Handler(scheme) # None THEN None ELSE "response"]
    /\ UNCHANGED <<motor, timers, files, told, menu>>

(* __policy_response_decide_cb.  An attachment goes to the download           *)
(* application; anything else to download goes to an application that views   *)
(* it, and to the download application when there is none.  When app_control  *)
(* cannot be filled in, the callback returns without deciding.                *)
ResponseUsed(p) ==
    /\ load[p] = "response"
    /\ load' = [load EXCEPT ![p] = None]
    /\ UNCHANGED <<motor, timers, files, told, menu, launched>>

ResponseDownloaded(p, attached) ==
    /\ load[p] = "response"
    /\ \/ Launch("downloader")
       \/ ~attached /\ Launch("viewer")
    /\ load' = [load EXCEPT ![p] = None]
    /\ UNCHANGED <<motor, timers, files, told, menu>>

ResponseNotDecided(p) ==
    /\ load[p] = "response"
    /\ load' = [load EXCEPT ![p] = "undecided"]
    /\ UNCHANGED <<motor, timers, files, told, menu, launched>>

-----------------------------------------------------------------------------
(* Mutant: names are counted, not looked for.                                 *)
AnyNames(folder) == { n \in Numbers : n <= Last }

(* _get_download_path: the first name that is free, and none when the count   *)
(* has passed the last.  The folder is read through a pointer to a string     *)
(* that is no more: either.                                                   *)
FreeNames(folder) == { n \in Numbers : n <= Last /\ files[folder][n] = None }

SaveFile(folder, n, content) ==
    files' = [files EXCEPT ![folder][n] = content]

(* _download_request_cb of a data: address.  The file is kept, and said to be *)
(* kept, or kept without the media database knowing of it and said to have    *)
(* failed, or not kept (a short write is deleted).                            *)
DownloadData(folder, content) ==
    /\ \A f \in Folders : \A n \in Numbers : files[f][n] # content
    /\ content \notin told
    /\ \/ /\ FreeNames(folder) # {}
          /\ LET n == CHOOSE n \in FreeNames(folder) : \A k \in FreeNames(folder) : n <= k
             IN SaveFile(folder, n, content)
          /\ told' = told \cup {content} \/ told' = told
       \/ UNCHANGED <<files, told>>
    /\ UNCHANGED <<load, motor, timers, menu, launched>>

DownloadWeb ==
    /\ Launch("downloader")
    /\ UNCHANGED <<load, motor, timers, files, told, menu>>

(* Other applications delete files.                                           *)
FileDeleted(folder, n) ==
    /\ files[folder][n] # None
    /\ files' = [files EXCEPT ![folder][n] = None]
    /\ told' = told \ {files[folder][n]}
    /\ UNCHANGED <<load, motor, timers, menu, launched>>

-----------------------------------------------------------------------------
(* cancel_vibration, and what calls it: any page, on another's vibration.     *)
CancelVibration ==
    /\ timers' = IF motor.timer THEN timers - 1 ELSE timers
    /\ motor' = [open |-> FALSE, timer |-> FALSE]

VibrationCb(opened) ==
    /\ IF opened
         THEN /\ timers' = (IF motor.timer THEN timers - 1 ELSE timers) + 1
              /\ motor' = [open |-> TRUE, timer |-> TRUE]
         ELSE CancelVibration
    /\ UNCHANGED <<load, files, told, menu, launched>>

VibrationCancelCb ==
    /\ CancelVibration
    /\ UNCHANGED <<load, files, told, menu, launched>>

(* __vibration_timeout_cb forgets the timer first: the loop deletes it.       *)
VibrationTimeoutCb ==
    /\ timers > 0
    /\ timers' = timers - 1
    /\ motor' = [open |-> FALSE, timer |-> FALSE]
    /\ UNCHANGED <<load, files, told, menu, launched>>

-----------------------------------------------------------------------------
(* _get_menu_type: what a long press hit, by the tags of the engine's items   *)
(* and by the address of the image it hit.                                    *)
MenuType(tags, image) ==
    IF "clipboard" \in tags THEN "INPUT_FIELD"
    ELSE IF image = "mailto" /\ "selection" \in tags THEN "EMAIL_LINK"
    ELSE IF image = "tel" /\ "selection" \in tags THEN "TEL_LINK"
    ELSE IF "text" \in tags /\ "link" \notin tags THEN "TEXT_ONLY"
    ELSE IF "link" \in tags /\ "image" \notin tags THEN "TEXT_LINK"
    ELSE IF "image" \in tags /\ "link" \notin tags THEN "IMAGE_ONLY"
    ELSE IF {"selection", "image", "link"} \subseteq tags THEN "TEXT_IMAGE_LINK"
    ELSE IF {"image", "link"} \subseteq tags THEN "IMAGE_LINK"
    ELSE "UNKNOWN_MENU"

(* The browser's own items: the others act in the engine.                     *)
CustomItems(kind) ==
    CASE kind = "EMAIL_LINK" -> {"SEND_EMAIL", "ADD_TO_CONTACT"}
      [] kind = "TEL_LINK" -> {"CALL", "SEND_MESSAGE", "ADD_TO_CONTACT"}
      [] kind = "TEXT_ONLY" -> {"FIND_ON_PAGE"}
      [] OTHER -> {}

ContextMenuCustomize(tags, image, link) ==
    /\ menu = NoMenu
    /\ menu' = [kind |-> MenuType(tags, image), link |-> link]
    /\ UNCHANGED <<load, motor, timers, files, told, launched>>

(* __contextmenu_selected_cb: the items act on the address of the link.       *)
ContextMenuSelected(item) ==
    /\ item \in CustomItems(menu.kind)
    /\ menu' = NoMenu
    /\ CASE item \in {"SEND_EMAIL", "CALL"} -> HandleScheme(menu.link)
         [] item = "SEND_MESSAGE" /\ menu.link = "tel" -> HandleScheme("sms")
         [] item = "ADD_TO_CONTACT" /\ menu.link \in {"tel", "mailto"} ->
              Launch("contact")
         [] OTHER -> UNCHANGED launched
    /\ UNCHANGED <<load, motor, timers, files, told>>

MenuDismissed ==
    /\ menu # NoMenu
    /\ menu' = NoMenu
    /\ UNCHANGED <<load, motor, timers, files, told, launched>>

Next ==
    \/ \E p \in Pages : \/ Navigate(p) \/ ResponseUsed(p) \/ ResponseNotDecided(p)
                        \/ \E s \in Schemes : PolicyNavigationDecide(p, s)
                        \/ \E a \in BOOLEAN : ResponseDownloaded(p, a)
    \/ \E f \in Folders, d \in Downloads : DownloadData(f, d)
    \/ DownloadWeb
    \/ \E f \in Folders, n \in Numbers : FileDeleted(f, n)
    \/ \E opened \in BOOLEAN : VibrationCb(opened)
    \/ VibrationCancelCb \/ VibrationTimeoutCb
    \/ \E tags \in SUBSET {"clipboard", "selection", "text", "link", "image"},
          image, link \in {"mailto", "tel", "web"} : ContextMenuCustomize(tags, image, link)
    \/ \E i \in {"SEND_EMAIL", "CALL", "SEND_MESSAGE", "ADD_TO_CONTACT", "FIND_ON_PAGE"} :
         ContextMenuSelected(i)
    \/ MenuDismissed

Spec == Init /\ [][Next]_vars

-----------------------------------------------------------------------------
(* What the user was told is saved is there, whatever was downloaded later    *)
(* and however full the folders are: until another application deletes it.    *)
SavedIsKept ==
    \A d \in told : \E f \in Folders : \E n \in Numbers : files[f][n] = d

(* One timer at most will stop the motor, the one m_haptic_timer_id names,    *)
(* and it is running if the motor is: pages start and cancel each other's     *)
(* vibrations, and a timer left behind would stop the next one early.         *)
VibrationsEnd == motor.open = motor.timer /\ timers = IF motor.timer THEN 1 ELSE 0

RequestsAreServed == SavedIsKept /\ VibrationsEnd
=============================================================================
