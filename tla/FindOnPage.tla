----------------------------- MODULE FindOnPage -----------------------------
(* The find bar (FindOnPageUI), the searches it sends to the page on screen   *)
(* through SimpleUI and WebEngineService, and the answers, which the engine   *)
(* calls back later, in order for each page.                                  *)
(*                                                                            *)
(* The entry posts its "changed" signal to the main loop: pending says that   *)
(* one is on its way.  It is handled before the next input of the user, not   *)
(* before the engine's calls.                                                 *)
EXTENDS Integers, Sequences

CONSTANTS Pages,     \* the tabs' pages
          Docs,      \* what a page may show
          Words,     \* texts of the entry
          Long,      \* those of FIND_ON_PAGE_MAX_TEXT bytes or more
          Empty,     \* the empty text
          Matches,   \* what the engine answers: [Docs -> [Words -> Int]]
          MaxCount,  \* FIND_WORD_MAX_COUNT
          MaxAsks    \* bound: searches a page has not answered yet

FindAssumption ==
    /\ Empty \in Words \ Long
    /\ Long \subseteq Words
    /\ MaxCount \in Nat /\ MaxCount > 1
    /\ Matches \in [Docs -> [Words -> {n \in Int : n >= -1}]]

VARIABLES entry,    \* the text of m_entry
          pending,  \* its "changed" signal is posted
          bar,      \* the members of FindOnPageUI
          shown,    \* the counter on the layout
          current,  \* the page on screen, and each page's document
          doc,
          asks,     \* the searches each page has not answered
          stray     \* history: the last answer was to a search given up before

vars == <<entry, pending, bar, shown, current, doc, asks, stray>>

Counter == [index : Int, total : Int]
Bar == [index : Int, total : Int, word : Words, isVisible : BOOLEAN]
Search == [doc : Docs, word : Words, old : BOOLEAN]
None == [index |-> 0, total |-> 0]

TypeOK ==
    /\ entry \in Words
    /\ pending \in BOOLEAN
    /\ bar \in Bar
    /\ shown \in Counter
    /\ current \in Pages
    /\ doc \in [Pages -> Docs]
    /\ asks \in [Pages -> Seq(Search)]
    /\ stray \in BOOLEAN

Init ==
    /\ entry = Empty
    /\ pending = FALSE
    /\ bar = [index |-> 0, total |-> 0, word |-> Empty, isVisible |-> FALSE]
    /\ shown = None
    /\ current \in Pages
    /\ doc \in [Pages -> Docs]
    /\ asks = [p \in Pages |-> <<>>]
    /\ stray = FALSE

(* elm_entry_entry_set: a different text posts the signal.                    *)
SetEntry(text) ==
    /\ entry' = text
    /\ pending' = (pending \/ text # entry)

(* The searches on their way are given up.                                    *)
Abandoned ==
    [p \in Pages |-> [i \in DOMAIN asks[p] |-> [asks[p][i] EXCEPT !.old = TRUE]]]

(* SimpleUI::findWord .. WebView::findWord, with a word, on the page on screen. *)
FindWord(word) ==
    /\ Len(asks[current]) < MaxAsks
    /\ asks' = [asks EXCEPT ![current] =
                  Append(@, [doc |-> doc[current], word |-> word, old |-> FALSE])]

-----------------------------------------------------------------------------
(* show and set_text: set_text empties the entry and appends, so that it      *)
(* posts the signal for any text but the empty one.                           *)
ShowFindOnPageUI(text) ==
    /\ ~pending
    /\ bar' = [bar EXCEPT !.isVisible = TRUE]
    /\ entry' = text
    /\ pending' = (entry # Empty \/ text # Empty)
    /\ UNCHANGED <<shown, current, doc, asks, stray>>

(* hideUI and clear_text; the word searched for stays until the signal.       *)
Hidden ==
    /\ bar' = [bar EXCEPT !.isVisible = FALSE, !.index = 0, !.total = 0]
    /\ shown' = None
    /\ SetEntry(Empty)
    /\ asks' = Abandoned
    /\ stray' = FALSE

(* The close button, the back key with the bar on screen.                     *)
CloseFindOnPageUI ==
    /\ bar.isVisible
    /\ ~pending
    /\ Hidden
    /\ UNCHANGED <<current, doc>>

(* A load of the page on screen closes the bar when it is there; back and     *)
(* forward close it at once, and the load comes later.                        *)
LoadStarted(d) ==
    /\ doc' = [doc EXCEPT ![current] = d]
    /\ IF bar.isVisible THEN Hidden
                        ELSE UNCHANGED <<entry, pending, bar, shown, asks, stray>>
    /\ UNCHANGED current

BackOrForward ==
    /\ Hidden
    /\ UNCHANGED <<current, doc>>

(* A page in the background loads without telling the bar.                    *)
LoadInBackground(p, d) ==
    /\ p # current
    /\ doc' = [doc EXCEPT ![p] = d]
    /\ UNCHANGED <<entry, pending, bar, shown, current, asks, stray>>

(* Mutant: the tab changes under the bar.                                     *)
SwitchUnderBar(p) ==
    /\ p # current
    /\ current' = p
    /\ UNCHANGED <<entry, pending, bar, shown, doc, asks, stray>>

(* WebEngineService::switchToTab closes the bar when the tab changes.         *)
SwitchToTab(p) ==
    /\ p # current
    /\ current' = p
    /\ Hidden
    /\ UNCHANGED doc

-----------------------------------------------------------------------------
Type(text) ==
    /\ bar.isVisible
    /\ ~pending
    /\ text # entry
    /\ SetEntry(text)
    /\ UNCHANGED <<bar, shown, current, doc, asks, stray>>

ClearClicked ==
    /\ bar.isVisible
    /\ ~pending
    /\ SetEntry(Empty)
    /\ shown' = None
    /\ UNCHANGED <<bar, current, doc, asks, stray>>

(* __entry_changed_cb: no text, too long a text, a new word, the same word.   *)
EntryEmptied ==
    /\ entry = Empty
    /\ bar' = [bar EXCEPT !.index = 1, !.word = Empty]
    /\ shown' = None
    /\ pending' = FALSE
    /\ asks' = Abandoned
    /\ stray' = FALSE
    /\ UNCHANGED entry

EntryTooLong ==
    /\ entry \in Long
    /\ bar' = [bar EXCEPT !.index = 1]
    /\ entry' \in Words \ (Long \cup {Empty})
    /\ UNCHANGED <<pending, shown, asks, stray>>

EntryReadable ==
    /\ entry \notin Long \cup {Empty}
    /\ IF entry = bar.word THEN UNCHANGED asks ELSE FindWord(entry)
    /\ bar' = [bar EXCEPT !.index = 1, !.word = entry]
    /\ pending' = FALSE
    /\ UNCHANGED <<entry, shown, stray>>

EntryChanged ==
    /\ pending
    /\ EntryEmptied \/ EntryTooLong \/ EntryReadable
    /\ UNCHANGED <<current, doc>>

(* The buttons are disabled while the counter shows a total of 0 or 1.        *)
Step(next) ==
    /\ bar.isVisible /\ shown.total > 1
    /\ ~pending
    /\ bar.total # 0
    /\ bar' = [bar EXCEPT !.index = next]
    /\ IF bar.word = Empty THEN UNCHANGED asks ELSE FindWord(bar.word)
    /\ UNCHANGED <<entry, pending, shown, current, doc, stray>>

DownClicked == Step(IF bar.index + 1 > bar.total THEN 1 ELSE bar.index + 1)
UpClicked == Step(IF bar.index - 1 < 1 THEN bar.total ELSE bar.index - 1)

(* __text_found_cb.  -1 is the engine's word for "too many".                  *)
Capped(count) == IF count = -1 \/ count >= MaxCount THEN MaxCount - 1 ELSE count

Found(index, count) ==
    LET total == Capped(count)
        first == IF index = 0 THEN 1 ELSE index
        at == IF count = 0 THEN 0 ELSE first
    IN [index |-> IF at > total THEN total ELSE at, total |-> total]

TextFound(p) ==
    /\ asks[p] # <<>>
    /\ LET ask == Head(asks[p])
           to == Found(bar.index, Matches[ask.doc][ask.word])
       IN /\ shown' = to
          /\ bar' = [bar EXCEPT !.index = to.index, !.total = to.total]
          /\ stray' = ask.old
    /\ asks' = [asks EXCEPT ![p] = Tail(@)]
    /\ UNCHANGED <<entry, pending, current, doc>>

-----------------------------------------------------------------------------
Next ==
    \/ \E w \in Words : ShowFindOnPageUI(w) \/ Type(w)
    \/ CloseFindOnPageUI \/ BackOrForward
    \/ \E d \in Docs : LoadStarted(d)
    \/ \E p \in Pages : SwitchToTab(p) \/ TextFound(p)
    \/ \E p \in Pages, d \in Docs : LoadInBackground(p, d)
    \/ ClearClicked \/ EntryChanged
    \/ DownClicked \/ UpClicked

Spec == Init /\ [][Next]_vars

-----------------------------------------------------------------------------
(* The counter never names a match that is not there, nor no match while      *)
(* there are some, although _set_count is given members that four handlers    *)
(* change between an answer and the next (FindOnPageUI.cpp, m_current_index). *)
InRange(c) == /\ 0 <= c.index /\ c.index <= c.total
              /\ c.total < MaxCount
              /\ c.total > 0 => c.index > 0
CounterInRange == InRange(shown)

(* Once the entry's signal is handled and the searches are answered, the bar  *)
(* counts the matches of the text in its entry on the page on screen: it does *)
(* not keep the count of an earlier word, page or tab.  Answers to searches   *)
(* that were given up are not told apart by the code; stray excepts them.     *)
Settled ==
    /\ bar.isVisible /\ ~pending /\ ~stray
    /\ \A p \in Pages : asks[p] = <<>>

CountsItsPage ==
    Settled =>
      /\ bar.word = entry
      /\ shown.total = IF entry = Empty THEN 0 ELSE Capped(Matches[doc[current]][entry])

FindBarIsRight == CounterInRange /\ CountsItsPage
=============================================================================
