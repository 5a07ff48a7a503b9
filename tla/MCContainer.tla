---------------------------- MODULE MCContainer ----------------------------
(* Container for TLC.  In dependency order: 1 and 5 are driven by the
   container's thread, 2 is group ga, 3 (not startable) and 4 are group gb. *)
EXTENDS Container

CONSTANTS ga, gb

MCTask == {ga, gb}
MCStartable == {1, 2, 4, 5}
MCSteps == ga :> {2} @@ gb :> {3, 4}
=============================================================================
