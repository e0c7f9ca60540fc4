----------------------------- MODULE Environment -----------------------------
(***************************************************************************)
(* What a device model sees of the environment it runs in: the time, the   *)
(* wakes it was granted, and that time may pass while callbacks of the     *)
(* application run (src/src/embedbench_device.h, "Time" and requestWake).  *)
(* Time moves in any way TimeContract allows. HostClock is one environment *)
(* that keeps that contract.                                               *)
(***************************************************************************)
EXTENDS Integers

CONSTANTS
  Horizon,     \* bound: the last moment
  MaxLevel     \* bound: callbacks of the application inside each other

ASSUME EnvironmentAssumption == Horizon \in Nat /\ MaxLevel \in Nat

VARIABLES
  now, owed,   \* the time, and the wakes that are still owed
  level        \* callbacks of the application that are running

environment == <<now, owed, level>>
Flag == {"yes", "no"}

Time == INSTANCE TimeContract WITH busy <- level > 0

EnvironmentTypeOK == now \in Nat /\ owed \subseteq Nat /\ level \in 0..MaxLevel
EnvironmentInit == now = 0 /\ owed = {} /\ level = 0

\* What advanceTo is called for: the moments owed up to now'.
Advances ==
  /\ level = 0
  /\ \E t \in now..Horizon : now' = t
  /\ Time!Advance
  /\ UNCHANGED level

\* A wait that reaches nothing due, or one inside a callback.
Waits ==
  /\ \E t \in now..Horizon : now' = t
  /\ Time!Pass \/ Time!Overtake
  /\ UNCHANGED level

CallbackBegins ==
  /\ level < MaxLevel
  /\ level' = level + 1
  /\ UNCHANGED <<now, owed>>

CallbackEnds ==
  /\ level > 0
  /\ level' = level - 1
  /\ UNCHANGED <<now, owed>>

\* A new window: the clock may restart after the devices were reset.
ClockRestarts ==
  /\ level = 0
  /\ Time!Restart
  /\ UNCHANGED level

\* requestWake(t): granted, or refused for want of room.
Granted(t) == owed' = owed \cup {t}
Refused == UNCHANGED owed

\* Advances, but for the wakes: an advanceTo that asks for the next one adds
\* it to those that are still owed.
Serves ==
  /\ level = 0
  /\ \E t \in now..Horizon : now' = t
  /\ \A w \in owed : w > now => w >= now'
  /\ UNCHANGED level

StillOwed == {w \in owed : w > now'}

\* requestWake(t) when the moments of left are owed, and whether it was
\* refused. Nothing is held for a moment that is past, and one that is held
\* already is not refused.
Asks(t, left, refused) ==
  \/ owed' = left \cup {w \in {t} : w > now'} /\ refused' = "no"
  \/ t > now' /\ t \notin left /\ owed' = left /\ refused' = "yes"

\* What does not reach the device, and when its power may be cycled: at any
\* time, and before a new window.
PassesBy == Waits \/ CallbackBegins \/ CallbackEnds
Repowers == UNCHANGED environment \/ ClockRestarts

\* For the properties of the parts: a moment that was asked for is owed, and
\* what was to end at it does: not earlier, and later only when the wake was
\* refused or a callback waited past the moment.
Expected(due, refused) == due \in owed \/ refused = "yes" \/ due <= now
OnTime(due, refused) ==
  \/ now' = due
  \/ now' > due /\ (refused = "yes" \/ now >= due)
=============================================================================
