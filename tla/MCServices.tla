------------------------------ MODULE MCServices ------------------------------
(***************************************************************************)
(* An instance of the services for TLC.                                    *)
(***************************************************************************)
EXTENDS Services, TLC

CONSTANTS d1, d2, empty, w1, w2, long,   \* of the find bar
          zoom, js                       \* of the settings

(* Two documents: the engine answers too many by -1, or by a large number. *)
MCMatches == d1 :> (w1 :> 2 @@ w2 :> 0 @@ long :> 1 @@ empty :> 0)
          @@ d2 :> (w1 :> -1 @@ w2 :> 4 @@ long :> 1 @@ empty :> 0)

(* A box of the first view, off by default, and one of another view, on.   *)
MCViewOf  == zoom :> "base" @@ js :> "sub"
MCDefault == zoom :> FALSE @@ js :> TRUE

MCPopups == 1..4

(* Three acceptable texts, two of which have the same hash, and two that   *)
(* are too short.                                                          *)
MCTexts      == {"blank", "short", "first", "second", "collides"}
MCAcceptable == {"first", "second", "collides"}
MCHashes     == {"h0", "h1", "h2", "h3"}
MCHash == [t \in MCTexts |->
              CASE t = "blank" -> "h0" [] t = "short" -> "h1"
                [] t = "second" -> "h3" [] OTHER -> "h2"]
=============================================================================
