-------------------------- MODULE DeferralContract --------------------------
(***************************************************************************)
(* The re-entrancy contract of the device interface                        *)
(* (src/src/embedbench_device.h): the environment never enters a device    *)
(* that is running; an effect a device raises elsewhere while it runs is   *)
(* held and delivered, in order, once the outermost device method has      *)
(* returned; an effect beyond the capacity is counted, never delivered     *)
(* from inside the device.                                                 *)
(***************************************************************************)
EXTENDS Naturals, Sequences

CONSTANTS
  Effects,     \* what a device may raise
  Capacity     \* how many effects the environment can hold

VARIABLES
  depth,       \* device methods on the call stack
  held,        \* effects raised by a device and not delivered yet
  lost         \* effects refused for want of room

vars == <<depth, held, lost>>

Init == depth = 0 /\ held = <<>> /\ lost = 0

Enter == depth = 0 /\ depth' = 1 /\ UNCHANGED <<held, lost>>

Leave == depth = 1 /\ depth' = 0 /\ UNCHANGED <<held, lost>>

Raise ==
  /\ depth = 1 /\ Len(held) < Capacity
  /\ Len(held') = Len(held) + 1 /\ held'[Len(held) + 1] \in Effects
  /\ SubSeq(held', 1, Len(held)) = held
  /\ UNCHANGED <<depth, lost>>

Refuse ==
  /\ depth = 1 /\ Len(held) = Capacity
  /\ lost' = lost + 1
  /\ UNCHANGED <<depth, held>>

Deliver ==
  /\ depth = 0 /\ held # <<>>
  /\ held' = Tail(held)
  /\ UNCHANGED <<depth, lost>>

\* A new run window drops what the last one left.
Restart == depth' = 0 /\ held' = <<>> /\ lost' = 0

Next == Enter \/ Leave \/ Raise \/ Refuse \/ Deliver \/ Restart

Spec == Init /\ [][Next]_vars
=============================================================================
