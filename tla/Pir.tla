-------------------------------- MODULE Pir --------------------------------
(***************************************************************************)
(* The motion sensor of the catalog (src/devices/src/unit_pir_model.cpp):  *)
(* its line stays up for a while after the last motion.                    *)
(***************************************************************************)
EXTENDS Environment

CONSTANT PirHoldUs   \* kHoldUs

ASSUME PirAssumption == PirHoldUs \in Nat \ {0}

VARIABLES
  pirLine, pirRelease,   \* asserted_, releaseAtUs_
  pirRefused,            \* history: the last wake was refused
  pirMotion              \* history: the last motion

pir == <<pirLine, pirRelease, pirRefused, pirMotion>>

PirTypeOK ==
  /\ pirLine \in {"low", "high"} /\ pirRelease \in Nat /\ pirMotion \in Nat
  /\ pirRefused \in Flag

PirInit ==
  pirLine = "low" /\ pirRelease = 0 /\ pirRefused = "no" /\ pirMotion = 0

PirReset ==
  /\ Repowers
  /\ pirLine' = "low" /\ pirRelease' = 0 /\ pirRefused' = "no" /\ pirMotion' = 0

\* Mutated form: only the motion that raises the line asks to be woken.
PirMotionAskingOnce ==
  /\ pirLine' = "high" /\ pirRelease' = now + PirHoldUs /\ pirMotion' = now
  /\ UNCHANGED <<now, level>>
  /\ IF pirLine = "low" THEN Asks(pirRelease', owed, pirRefused)
     ELSE UNCHANGED <<owed, pirRefused>>

\* channelWrite of motion: a line that is up stays up for longer. Motion
\* that ends changes nothing.
PirMotion ==
  /\ pirLine' = "high" /\ pirRelease' = now + PirHoldUs /\ pirMotion' = now
  /\ UNCHANGED <<now, level>>
  /\ Asks(pirRelease', owed, pirRefused)

\* advanceTo(now').
PirAdvance ==
  /\ Advances
  /\ pirLine' = IF now' >= pirRelease THEN "low" ELSE pirLine
  /\ UNCHANGED <<pirRelease, pirRefused, pirMotion>>

PirIdle == PassesBy /\ UNCHANGED pir

PirNext == PirMotion \/ PirAdvance \/ PirIdle \/ PirReset

PirSpec == EnvironmentInit /\ PirInit /\ [][PirNext]_<<environment, pir>>

-----------------------------------------------------------------------------
(* Properties.                                                             *)

\* The line falls when the hold after the last motion is over, although the
\* wakes of every motion before it are still to come.
PirHolds ==
  [][pirLine = "high" /\ pirLine' = "low" /\ ~ PirReset =>
       OnTime(pirMotion + PirHoldUs, pirRefused)]_<<environment, pir>>

\* The fall of the line is owed its wake.
PirIsOwed == pirLine = "high" => Expected(pirRelease, pirRefused)
=============================================================================
