----------------------------- MODULE MCSimpleUI -----------------------------
(* Instances of the shell for TLC; the configurations name the values. *)
EXTENDS SimpleUI

(* Every secret id of an instance: a seed and the tabs opened after it. *)
MCTabIds     == 1..2
MCNormalIds  == {1, 2}
MCSeed       == {0}

(* Room for a page, the tab it opened and one used in between, and one      *)
(* beyond that limit.                                                       *)
FourTabIds   == 1..4

(* Exec only sets a request that the next resume reads, so it may as well  *)
(* come while the application is paused, and a resume treats "launch" like *)
(* no request.                                                             *)
ExecWhenPaused ==
    request = "done" \/ phase = "off" \/ (phase = "paused" /\ request # "launch")

(* No certificate question is left open: the other run is about those.     *)
(* The application is paused over the page or the tab manager only, and    *)
(* with no popup open; the other runs pause it anywhere.                   *)
NoQuestions ==
    /\ ExecWhenPaused /\ pending = {}
    /\ phase = "paused" => Top \in {"webPageUI", "tabUI"} /\ popups = <<>>

(* One mode only. *)
OneMode == ExecWhenPaused /\ eng.mode = "NORMAL"

(* One mode and no question. *)
OneModeNoQuestions == OneMode /\ NoQuestions
=============================================================================
