---------------------------- MODULE MCEventBuffer ----------------------------
(***************************************************************************)
(* EventBuffer for TLC: nothing in it depends on which shape a line has.   *)
(***************************************************************************)
EXTENDS EventBuffer, TLC

ShapeSymmetry == Permutations(Shapes)
=============================================================================
