--------------------------- MODULE MCCoronation ---------------------------
(* Small instances of Coronation for TLC. *)
EXTENDS Coronation, TLC

CONSTANTS g, h1, h2

H1Holds     == 0 :> g @@ 1 :> h1

\* And h1 wins once more with another model.
ThreeModels == 0 :> g @@ 1 :> h1 @@ 2 :> h2 @@ 3 :> h1
ThreeUids   == 0 :> 0 @@ 1 :> 1 @@ 2 :> 1 @@ 3 :> 1
=============================================================================
