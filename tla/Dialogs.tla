------------------------------ MODULE Dialogs ------------------------------
(* The popups of the browser: the vector SimpleUI keeps of them, and the      *)
(* layouts TextPopup, InputPopup, RadioPopup and ContentPopup have on screen. *)
(* A text or an input popup makes a new layout each time it is shown and      *)
(* forgets the one before; a content popup has one layout, in a part of the   *)
(* window that it shares with the notifications.                              *)
EXTENDS Integers, Sequences, SequencesExt

CONSTANTS Popups,     \* addresses a popup may be made at: 1..n
          MaxLayouts  \* bound: layouts of text and input popups on screen

DialogsAssumption == MaxLayouts \in Nat /\ Popups \subseteq Nat

Kinds == {"text", "input", "radio", "content"}
Remade == {"text", "input"}   \* those whose show calls createLayout
None == "none"

VARIABLES kind,     \* each popup's class, or None when it is not made
          vector,   \* m_popupVector
          layouts,  \* elm_popup objects, the last on top: [of, newest, dead]
          part,     \* content popups whose layout is still theirs
          notice    \* notifications whose timer has not fired

vars == <<kind, vector, layouts, part, notice>>

Layout == [of : Popups, newest : BOOLEAN, dead : BOOLEAN]

TypeOK ==
    /\ kind \in [Popups -> Kinds \cup {None}]
    /\ vector \in Seq(Popups)
    /\ layouts \in Seq(Layout)
    /\ part \subseteq { p \in Popups : kind[p] = "content" }
    /\ notice \in 0..1

Nothing ==
    [kind |-> [p \in Popups |-> None], vector |-> <<>>, layouts |-> <<>>, part |-> {}]

(* The screen: the variables but the notification's.                          *)
Screen == [kind |-> kind, vector |-> vector, layouts |-> layouts, part |-> part]
Becomes(s) == /\ kind' = s.kind /\ vector' = s.vector
              /\ layouts' = s.layouts /\ part' = s.part

Init ==
    /\ kind = Nothing.kind /\ vector = <<>> /\ layouts = <<>> /\ part = {}
    /\ notice = 0

-----------------------------------------------------------------------------
(* createLayout of a text or an input popup, or the constructor of a radio    *)
(* popup: a new object on top, and the older ones are no longer known.        *)
CreateLayout(s, p) ==
    [s EXCEPT !.layouts =
       Append([i \in DOMAIN @ |-> IF @[i].of = p THEN [@[i] EXCEPT !.newest = FALSE] ELSE @[i]],
              [of |-> p, newest |-> TRUE, dead |-> FALSE])]

(* show and SimpleUI::showPopup.                                              *)
Show(s, p) ==
    LET drawn == IF s.kind[p] \in Remade THEN CreateLayout(s, p) ELSE s
    IN [drawn EXCEPT !.vector = Append(@, p)]

(* createPopup, and show for the first time: a content popup takes the part   *)
(* from the one that has it, whose layout is deleted.                         *)
Made(s, p, k) ==
    LET new == [s EXCEPT !.kind[p] = k]
    IN Show(CASE k = "radio" -> CreateLayout(new, p)
              [] k = "content" -> [new EXCEPT !.part = {p}]
              [] OTHER -> new, p)

(* The destructor deletes the layout it knows; older ones stay on screen with *)
(* callbacks to the popup that is no more.                                    *)
Newest(s, p) == { k \in DOMAIN s.layouts : s.layouts[k].of = p /\ s.layouts[k].newest }
Kept(s, p) ==
    IF Newest(s, p) = {} THEN s.layouts
    ELSE RemoveAt(s.layouts, CHOOSE k \in Newest(s, p) : TRUE)
Deleted(s, p) ==
    [s EXCEPT !.kind[p] = None,
              !.part = @ \ {p},
              !.layouts = [i \in DOMAIN Kept(s, p) |->
                 IF Kept(s, p)[i].of = p THEN [Kept(s, p)[i] EXCEPT !.dead = TRUE]
                                         ELSE Kept(s, p)[i]]]

(* Mutant: it is not taken out of the vector before.                          *)
ShownBesides(s) == IF s.vector = <<>> THEN s ELSE Show(s, Last(s.vector))

(* SimpleUI::dismissPopup: what is last in the vector is shown again.         *)
ShowLast(s) ==
    IF s.vector = <<>> THEN s
    ELSE Show([s EXCEPT !.vector = Front(@)], Last(s.vector))

(* The last entry of the popup is erased.                                     *)
Found(s, p) ==
    CHOOSE i \in DOMAIN s.vector :
        s.vector[i] = p /\ \A j \in DOMAIN s.vector : s.vector[j] = p => j <= i

DismissPopup(s, p) ==
    IF Contains(s.vector, p)
      THEN ShowLast([Deleted(s, p) EXCEPT !.vector = RemoveAt(@, Found(s, p))])
      ELSE s

(* A popup is made at an address nothing on screen refers to any more.        *)
Free == { p \in Popups : kind[p] = None /\ \A i \in DOMAIN layouts : layouts[i].of # p }
Fresh == { p \in Free : \A q \in Free : p <= q }

-----------------------------------------------------------------------------
(* Views and pages open popups: a question about a certificate or a tab too   *)
(* many comes from the engine, whatever is on screen.                         *)
CreatePopup(k) ==
    /\ Len(layouts) < MaxLayouts
    /\ \E p \in Fresh : Becomes(Made(Screen, p, k))
    /\ UNCHANGED notice

TopLayout == layouts[Len(layouts)]

(* What the slot of a button may open: View certificate, "other" for the home *)
(* page.                                                                      *)
Opened(k) == CASE k = "text" -> {"content"} [] k = "radio" -> {"input"} [] OTHER -> {}
Slot(k) ==
    {Screen} \cup { Made(Screen, q[1], q[2]) :
                     q \in IF Len(layouts) < MaxLayouts THEN Fresh \X Opened(k) ELSE {} }

(* _response_cb of a text popup, the buttons of an input popup, the radios:   *)
(* the slot is called first; then the popup is dismissed if the button says   *)
(* so.  An input popup's older layout answers as well as the newest.          *)
ButtonClicked(dismisses) ==
    /\ layouts # <<>> /\ ~TopLayout.dead
    /\ kind[TopLayout.of] = "input" \/ TopLayout.newest
    /\ ~dismisses => kind[TopLayout.of] = "text"
    /\ \E slot \in Slot(kind[TopLayout.of]) :
         Becomes(IF dismisses THEN DismissPopup(slot, TopLayout.of) ELSE slot)
    /\ Len(layouts') <= MaxLayouts
    /\ UNCHANGED notice

(* The OK of the content popup that has the part.                             *)
ContentClicked ==
    /\ \E p \in part : Becomes(DismissPopup(Screen, p))
    /\ Len(layouts') <= MaxLayouts
    /\ UNCHANGED notice

(* The back key: the last popup of the vector answers its default button and  *)
(* is dismissed.                                                              *)
OnBackPressed ==
    /\ vector # <<>>
    /\ Becomes(DismissPopup(Screen, Last(vector)))
    /\ Len(layouts') <= MaxLayouts
    /\ UNCHANGED notice

(* A text popup's older layout finds no button of its own, and the layout of  *)
(* a deleted popup no popup: both read memory that is not theirs.  Nothing    *)
(* happens, or the process ends and starts with no popup.                     *)
StaleLayoutClicked ==
    /\ layouts # <<>>
    /\ TopLayout.dead \/ (kind[TopLayout.of] = "text" /\ ~TopLayout.newest)
    /\ Becomes(Nothing)
    /\ notice' = 0

(* NotificationPopup::show takes the part; _hide_cb empties it, whoever has   *)
(* it by then, which leaves the layout on screen.                             *)
NotificationShown ==
    /\ notice = 0
    /\ notice' = 1
    /\ part' = {}
    /\ UNCHANGED <<kind, vector, layouts>>

HideCb ==
    /\ notice = 1
    /\ notice' = 0
    /\ UNCHANGED <<kind, vector, layouts, part>>

Next ==
    \/ \E k \in Kinds : CreatePopup(k)
    \/ \E d \in BOOLEAN : ButtonClicked(d)
    \/ ContentClicked \/ OnBackPressed \/ StaleLayoutClicked
    \/ NotificationShown \/ HideCb

Spec == Init /\ [][Next]_vars

-----------------------------------------------------------------------------
(* The vector holds every popup that is made, once, and no popup that was     *)
(* deleted: the back key and a rotation call through its pointers, although   *)
(* popups are deleted from their own buttons, by slots that open others, and  *)
(* shown again from the middle of a dismissal.                                *)
EachShownOnce ==
    /\ \A i, j \in DOMAIN vector : vector[i] = vector[j] => i = j
    /\ { vector[i] : i \in DOMAIN vector } = { p \in Popups : kind[p] # None }

(* The popups are stacked on screen as they are in the vector: the back key   *)
(* answers the one the user sees on top, unless a layout no popup knows       *)
(* covers it.  Every popup but a content popup knows one layout.              *)
Known == { k \in DOMAIN layouts : layouts[k].newest /\ ~layouts[k].dead }
StackedAsListed ==
    /\ { layouts[k].of : k \in Known } = { p \in Popups : kind[p] \notin {None, "content"} }
    /\ \A k, l \in Known : \A i, j \in DOMAIN vector :
         layouts[k].of = vector[i] /\ layouts[l].of = vector[j] => (k < l <=> i < j)

PopupsInOrder == EachShownOnce /\ StackedAsListed
=============================================================================
