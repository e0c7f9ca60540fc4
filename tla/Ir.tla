--------------------------------- MODULE Ir ---------------------------------
(***************************************************************************)
(* The infrared remote of the catalog (src/devices/src/unit_ir_model.cpp): *)
(* a key that is held sends its code once and then a repeat a period until *)
(* it is let go. Which key it is is left out.                              *)
(***************************************************************************)
EXTENDS Environment

CONSTANTS
  IrPeriodUs,   \* kRepeatPeriodUs
  IrRepeats     \* how many repeats a press asks for

ASSUME IrAssumption == IrPeriodUs \in Nat \ {0} /\ IrRepeats \subseteq Nat

VARIABLES
  irHolding, irDue, irLeft,     \* holding_, nextDueUs_, repeatsLeft_
  irRefused,                    \* history: the last wake was refused
  irPressed, irAsked,           \* history: the last press with repeats, when
                                \* it was and how many it asked for
  irEmitted,                    \* history: the repeats since then
  irTapped                      \* history: a press without repeats came since

irHold == <<irHolding, irDue, irRefused>>
irHistory == <<irPressed, irAsked, irEmitted>>
ir == <<irHold, irLeft, irHistory, irTapped>>

IrTypeOK ==
  /\ irHolding \in Flag /\ irDue \in Nat /\ irLeft \in Nat
  /\ irRefused \in Flag /\ irTapped \in Flag
  /\ {irPressed, irAsked, irEmitted} \subseteq Nat

IrInit ==
  /\ irHolding = "no" /\ irDue = 0 /\ irLeft = 0 /\ irRefused = "no"
  /\ irPressed = 0 /\ irAsked = 0 /\ irEmitted = 0 /\ irTapped = "no"

IrReset ==
  /\ Repowers
  /\ irHolding' = "no" /\ irDue' = 0 /\ irLeft' = 0 /\ irRefused' = "no"
  /\ irPressed' = 0 /\ irAsked' = 0 /\ irEmitted' = 0 /\ irTapped' = "no"

\* channelWrite: the code goes out now, and the repeats are reckoned from
\* here, also when another key is still held.
IrPress(repeats) ==
  /\ repeats > 0
  /\ irLeft' = repeats - 1 /\ irHolding' = "yes"
  /\ irDue' = now + IrPeriodUs
  /\ irPressed' = now /\ irAsked' = repeats
  /\ irEmitted' = 0 /\ irTapped' = "no"
  /\ UNCHANGED <<now, level>>
  /\ Asks(irDue', owed, irRefused)

\* Without repeats: a key that is held stays so, for one repeat more.
IrTap ==
  /\ irLeft' = 0 /\ irTapped' = "yes"
  /\ UNCHANGED <<environment, irHold, irHistory>>

\* Mutated form: a period on, however many fell due.
IrRepeatOnce(n) == irDue' = irDue + IrPeriodUs

\* When the repeat after n more of them is due.
IrRepeat(n) == irDue' = irDue + n * IrPeriodUs

\* advanceTo(now'): the n repeats that fell due up to now'.
IrAdvance ==
  /\ Serves
  /\ irHolding = "yes"
  /\ \E n \in 1..irLeft + 1 :
       /\ irDue + (n - 1) * IrPeriodUs <= now'
       /\ irEmitted' = irEmitted + n
       /\ \/ /\ n <= irLeft /\ now' < irDue + n * IrPeriodUs
             /\ irLeft' = irLeft - n
             /\ IrRepeat(n)
             /\ Asks(irDue', StillOwed, irRefused)
             /\ UNCHANGED irHolding
          \/ /\ n = irLeft + 1
             /\ irHolding' = "no" /\ irLeft' = 0
             /\ IF irLeft = 0
                THEN owed' = StillOwed /\ UNCHANGED <<irDue, irRefused>>
                ELSE IrRepeat(n - 1) /\ Asks(irDue', StillOwed, irRefused)
  /\ UNCHANGED <<irPressed, irAsked, irTapped>>

IrIdle ==
  /\ PassesBy \/ (Advances /\ (irHolding = "no" \/ now' < irDue))
  /\ UNCHANGED ir

IrNext ==
  \/ \E repeats \in IrRepeats : IrPress(repeats)
  \/ IrTap \/ IrAdvance \/ IrIdle \/ IrReset

IrSpec == EnvironmentInit /\ IrInit /\ [][IrNext]_<<environment, ir>>

-----------------------------------------------------------------------------
(* Properties.                                                             *)

\* A press sends as many repeats as it asks for, each a period after the one
\* before, reckoned from the press: however late time advances, and whatever
\* was held before it. A press without repeats cuts the one before short
\* (channelWrite, advanceTo).
IrRepeatsAsAsked ==
  /\ irHolding = "yes" => irDue = irPressed + (irEmitted + 1) * IrPeriodUs
  /\ irTapped = "no" =>
       irAsked = irEmitted + (IF irHolding = "yes" THEN irLeft + 1 ELSE 0)

\* The next repeat is owed its wake.
IrIsOwed == irHolding = "yes" => Expected(irDue, irRefused)
=============================================================================
