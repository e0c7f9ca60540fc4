------------------------------ MODULE MCFrames ------------------------------
(* Libraries that agree on a name, that collide on one, whose names are     *)
(* too long and differ only at the end, and one more than there are slots.  *)
EXTENDS Frames

MCNameOf ==
  [l \in Libraries |->
     CASE l \in {"node", "bridge", "intruder"} -> "acme.node.1"
       [] l = "remote" -> "acme.ir.1"
       [] l = "late" -> "acme.late.1"
       [] l = "longA" -> "acme.thermostats.1.a"
       [] l = "longB" -> "acme.thermostats.1.b"]
MCSchemaOf == [l \in Libraries |-> IF l = "intruder" THEN 2 ELSE 1]
=============================================================================
