---------------------------- MODULE TimeContract ----------------------------
(***************************************************************************)
(* What an environment promises about time to the device models it hosts: *)
(* the contract of HostPort::requestWake and Device::advanceTo in          *)
(* src/src/embedbench_device.h, with nothing of how a host keeps it.       *)
(*                                                                         *)
(*   now   the virtual time;                                               *)
(*   owed  the moments accepted by requestWake at which, or after which,   *)
(*         no device has been advanced yet;                                *)
(*   busy  whether code run on behalf of the world (a director callback or *)
(*         an interrupt handler) is on the stack.                          *)
(***************************************************************************)
EXTENDS Naturals

VARIABLES now, owed, busy

vars == <<now, owed, busy>>

Init == now = 0 /\ owed = {} /\ busy = FALSE

\* requestWake(w) answered true: the moment is still to come.
Accept ==
  /\ owed \subseteq owed'
  /\ \A w \in owed' \ owed : w > now
  /\ UNCHANGED now

\* The devices are advanced to now'. No moment still to come is skipped on
\* the way, and the call serves every moment up to its own.
Advance ==
  /\ now' >= now
  /\ \A w \in owed : w > now => w >= now'
  /\ owed' = {w \in owed : w > now'}

\* Time passes with nobody advanced: allowed when nothing falls due.
Pass ==
  /\ ~busy
  /\ now' >= now
  /\ \A w \in owed : w > now => w > now'
  /\ UNCHANGED owed

\* A wait inside a callback moves time past owed moments without serving
\* them. They stay owed.
Overtake == busy /\ now' >= now /\ UNCHANGED owed

\* A new run window forgets everything.
Restart == now' = 0 /\ owed' = {}

Next == (Accept \/ Advance \/ Pass \/ Overtake \/ Restart) /\ busy' \in BOOLEAN

Spec == Init /\ [][Next]_vars
=============================================================================
