---------------------------- MODULE MCSpaceView ----------------------------
(* Instances of SpaceView for TLC. *)
EXTENDS SpaceView

CONSTANTS i1, i2
=============================================================================
