-------------------------------- MODULE Lists --------------------------------
(***************************************************************************)
(* The views that hold a copy of what is stored: the history, quick        *)
(* access, and the personal data of the settings.  They share no state:    *)
(* each starts in its initial state, and one of them, chosen in the        *)
(* initial state, moves.                                                   *)
(***************************************************************************)
EXTENDS Naturals

CONSTANTS Urls, MaxRows, Addresses,               \* the history
          Links, Sites, MaxEntries, MaxVisits, Limit, MaxTabs, \* quick access
          Names, Scrolls, Filled, MaxProfiles      \* personal data

VARIABLES moves,
          alive, rows, next, view, items, known, all, leftover, chosen,
          store, entries, tabs, page, above, edit, state, current, grid, most,
          ticked, marked, picked,
          top, option, box, question, data, profiles, lastId, label, creator, gone

historyVars  == <<alive, rows, next, view, items, known, all, leftover, chosen>>
quickVars    == <<store, entries, tabs, page, above, edit, state, current, grid,
                  most, ticked, marked, picked>>
personalVars == <<top, option, box, question, data, profiles, lastId, label,
                  creator, gone>>
vars == <<moves, historyVars, quickVars, personalVars>>

History      == INSTANCE History WITH MaxId <- MaxRows, list <- items
QuickAccess  == INSTANCE QuickAccess WITH top <- above, list <- marked, chosen <- picked
PersonalData == INSTANCE PersonalData WITH MaxId <- MaxProfiles

ASSUME ListsAssumption ==
    /\ History!HistoryAssumption
    /\ QuickAccess!QuickAccessAssumption
    /\ PersonalData!PersonalAssumption

-----------------------------------------------------------------------------
Init ==
    /\ moves \in {"history", "quick access", "personal data"}
    /\ History!Init /\ QuickAccess!Init /\ PersonalData!Init

Next ==
    /\ UNCHANGED moves
    /\ \/ /\ moves = "history" /\ History!Next
          /\ UNCHANGED <<quickVars, personalVars>>
       \/ /\ moves = "quick access" /\ QuickAccess!Next
          /\ UNCHANGED <<historyVars, personalVars>>
       \/ /\ moves = "personal data" /\ PersonalData!Next
          /\ UNCHANGED <<historyVars, quickVars>>

Spec == Init /\ [][Next]_vars

-----------------------------------------------------------------------------
(* The shape of the state.                                                  *)
TypeOK == History!TypeOK /\ QuickAccess!TypeOK /\ PersonalData!TypeOK

(* A page visited again on the same day does not get a second row.          *)
OneRowPerDay == History!OneRowPerDay

(* Quick access on screen has the links of the table; a ticked box of the   *)
(* editing view is of a page that Done will delete.                         *)
GridIsCurrent == QuickAccess!GridIsCurrent /\ QuickAccess!BoxesAreListed

(* Quick access comes to the screen with the most visited entries.          *)
ShowsTheMostVisited == QuickAccess!ShowsTheMostVisited

(* Rows of the history go with Done, and visits of an entry are forgotten,  *)
(* only if the user ticked them.                                            *)
OnlyTickedGo == History!OnlyChosenGo /\ QuickAccess!OnlyTickedGo

(* Names deleted with the personal data do not come back, and what is       *)
(* deleted is what was ticked on screen.                                    *)
ForgetsWhatWasDeleted == PersonalData!ForgetsWhatWasDeleted
=============================================================================
