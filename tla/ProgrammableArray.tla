-------------------------- MODULE ProgrammableArray --------------------------
(***************************************************************************)
(* What a non-volatile part promises of its array, with nothing of the     *)
(* protocol it is spoken to in: the array only ever changes by one whole   *)
(* change at a time, which was allowed by an enable of its own, was fixed  *)
(* when it began and is not disturbed until it is done; a power cycle      *)
(* drops it and leaves the array as it was                                 *)
(* (src/devices/src/unit_flash_model.h).                                   *)
(***************************************************************************)
VARIABLES
  cells,      \* the array
  enabled,    \* "yes" when the next change is allowed
  busy,       \* "yes" while a change is on its way
  writing     \* that change: the new contents of the cells it touches

vars == <<cells, enabled, busy, writing>>

Enable == enabled' = "yes" /\ UNCHANGED <<cells, busy, writing>>

Begin ==
  /\ enabled = "yes" /\ busy = "no"
  /\ enabled' = "no" /\ busy' = "yes"
  /\ UNCHANGED cells

Commit ==
  /\ busy = "yes" /\ busy' = "no"
  /\ cells' = [a \in DOMAIN cells |->
                 IF a \in DOMAIN writing THEN writing[a] ELSE cells[a]]
  /\ UNCHANGED enabled

PowerCycle == enabled' = "no" /\ busy' = "no" /\ UNCHANGED cells

Init == enabled = "no" /\ busy = "no"
Next == Enable \/ Begin \/ Commit \/ PowerCycle

Spec == Init /\ [][Next]_vars
=============================================================================
