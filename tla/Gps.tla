--------------------------------- MODULE Gps ---------------------------------
(***************************************************************************)
(* The GPS receiver of the catalog (src/devices/src/gps_model.cpp): once   *)
(* it is started it sends a sentence a period on its own. What a sentence  *)
(* says is left out, and of a command, which one it is read as: one that   *)
(* is too long loses its beginning, and its rest is read as any other.     *)
(***************************************************************************)
EXTENDS Environment

CONSTANT GpsPeriodUs   \* kDefaultPeriodUs

ASSUME GpsAssumption == GpsPeriodUs \in Nat \ {0}

VARIABLES
  gpsRunning, gpsNext,   \* running_, nextUs_
  gpsRefused,            \* history: the last wake was refused
  gpsStarted, gpsSent    \* history: the last start, and the sentences since

gps == <<gpsRunning, gpsNext, gpsRefused, gpsStarted, gpsSent>>

GpsTypeOK ==
  /\ gpsRunning \in Flag /\ gpsRefused \in Flag
  /\ {gpsNext, gpsStarted, gpsSent} \subseteq Nat

GpsInit ==
  /\ gpsRunning = "no" /\ gpsNext = 0 /\ gpsRefused = "no"
  /\ gpsStarted = 0 /\ gpsSent = 0

GpsReset ==
  /\ Repowers
  /\ gpsRunning' = "no" /\ gpsNext' = 0 /\ gpsRefused' = "no"
  /\ gpsStarted' = 0 /\ gpsSent' = 0

\* arm, from t, when the moments of left are owed.
GpsArm(t, left) == gpsNext' = t + GpsPeriodUs /\ Asks(gpsNext', left, gpsRefused)

\* serialIn up to a terminator, and dispatch. A start starts over, and a
\* command that is not known is told.
GpsStart ==
  /\ gpsRunning' = "yes" /\ gpsStarted' = now /\ gpsSent' = 0
  /\ UNCHANGED <<now, level>>
  /\ GpsArm(now, owed)

GpsStop ==
  /\ gpsRunning' = "no"
  /\ UNCHANGED <<environment, gpsNext, gpsRefused, gpsStarted, gpsSent>>

\* advanceTo(now'): one sentence, and the next is reckoned from now'.
GpsAdvance ==
  /\ Serves
  /\ gpsRunning = "yes" /\ now' >= gpsNext
  /\ gpsSent' = gpsSent + 1
  /\ GpsArm(now', StillOwed)
  /\ UNCHANGED <<gpsRunning, gpsStarted>>

GpsIdle ==
  /\ PassesBy \/ (Advances /\ (gpsRunning = "no" \/ now' < gpsNext))
  /\ UNCHANGED gps

GpsNextStep == GpsStart \/ GpsStop \/ GpsAdvance \/ GpsIdle \/ GpsReset

GpsSpec == EnvironmentInit /\ GpsInit /\ [][GpsNextStep]_<<environment, gps>>

-----------------------------------------------------------------------------
(* Properties.                                                             *)

\* The sentence that is to come is owed its wake.
GpsIsOwed == gpsRunning = "yes" => Expected(gpsNext, gpsRefused)

\* What embedbench_device.h asks of every part ("A jump past several due
\* times must deliver all due behavior at that call"): an advance leaves no
\* sentence out that was due by then.
GpsDeliversAllDue ==
  [][GpsAdvance => gpsSent' >= (now' - gpsStarted) \div GpsPeriodUs]_<<environment, gps>>
=============================================================================
