--------------------------- MODULE MCTabService ---------------------------
(* Instances of the tab service for TLC. *)
EXTENDS TabService

MCNormalIds == {1, 2}

(* Pictures are not told apart. *)
SamePicture(v) == <<"NORMAL", 1>>

(* The secret tabs are numbered 2 and 3: one has the id of a normal tab,   *)
(* the other has an id that no normal tab has.                             *)
MCTabIds == 1..3
MCSeeds  == {1}
=============================================================================
