-------------------------------- MODULE Rtc --------------------------------
(***************************************************************************)
(* The real-time clock of the catalog (src/devices/src/unit_rtc_model.cpp):*)
(* a wall clock in seconds that counts from the moment the application set *)
(* it, and an alarm that has to be turned into a moment of virtual time.   *)
(* The register pointer, which chooses what a read shows, is left out.     *)
(***************************************************************************)
EXTENDS Environment

CONSTANTS
  RtcWrap,      \* 2^32: seconds are counted modulo this
  RtcSecondUs   \* kUsPerSecond

ASSUME RtcAssumption == RtcWrap \in Nat \ {0} /\ RtcSecondUs \in Nat \ {0}

VARIABLES
  rtcBased, rtcBaseSec, rtcBaseUs, \* based_, baseSec_, baseUs_
  rtcAlarm, rtcSet, rtcFired,      \* alarmSec_, alarmSet_, fired_
  rtcRefused                       \* history: the last wake was refused

rtcBase == <<rtcBased, rtcBaseSec, rtcBaseUs>>
rtc == <<rtcBase, rtcAlarm, rtcSet, rtcFired, rtcRefused>>

Seconds == 0..RtcWrap - 1

RtcTypeOK ==
  /\ rtcBased \in Flag /\ rtcBaseSec \in Seconds /\ rtcBaseUs \in Nat
  /\ rtcAlarm \in Seconds /\ rtcSet \in Flag /\ rtcFired \in Flag
  /\ rtcRefused \in Flag

RtcInit ==
  /\ rtcBased = "no" /\ rtcBaseSec = 0 /\ rtcBaseUs = 0
  /\ rtcAlarm = 0 /\ rtcSet = "no" /\ rtcFired = "no" /\ rtcRefused = "no"

RtcReset ==
  /\ Repowers
  /\ rtcBased' = "no" /\ rtcBaseSec' = 0 /\ rtcBaseUs' = 0
  /\ rtcAlarm' = 0 /\ rtcSet' = "no" /\ rtcFired' = "no" /\ rtcRefused' = "no"

\* nowSeconds() at the moment t.
NowSeconds(t) ==
  IF rtcBased = "no" THEN rtcBaseSec
  ELSE (rtcBaseSec + (t - rtcBaseUs) \div RtcSecondUs) % RtcWrap

\* The moment of the alarm, as far ahead as the difference is read unsigned.
AlarmUs == rtcBaseUs + ((rtcAlarm - rtcBaseSec) % RtcWrap) * RtcSecondUs

\* Mutated form: an alarm that is set already is not armed again.
ArmAlarmOnlyNew ==
  IF rtcSet' = "yes" /\ rtcBased' = "yes" /\ rtcSet = "no"
  THEN Asks(AlarmUs', owed, rtcRefused)
  ELSE UNCHANGED <<owed, rtcRefused>>

ArmAlarm ==
  IF rtcSet' = "yes" /\ rtcBased' = "yes"
  THEN Asks(AlarmUs', owed, rtcRefused)
  ELSE UNCHANGED <<owed, rtcRefused>>

\* i2cWrite of the time: the base is taken now.
RtcSetTime(s) ==
  /\ rtcBased' = "yes" /\ rtcBaseSec' = s /\ rtcBaseUs' = now
  /\ UNCHANGED <<now, level, rtcAlarm, rtcSet, rtcFired>>
  /\ ArmAlarm

\* i2cWrite of an alarm: one that is past is refused, once there is a time
\* for it to be past.
RtcSetAlarm(s) ==
  /\ UNCHANGED <<now, level, rtcBase>>
  /\ \/ /\ rtcBased = "yes" /\ s <= NowSeconds(now)
        /\ UNCHANGED <<owed, rtcAlarm, rtcSet, rtcFired, rtcRefused>>
     \/ /\ ~ (rtcBased = "yes" /\ s <= NowSeconds(now))
        /\ rtcAlarm' = s /\ rtcSet' = "yes" /\ rtcFired' = "no"
        /\ ArmAlarm

\* advanceTo(now').
RtcRing ==
  IF rtcSet = "yes" /\ rtcFired = "no" /\ rtcBased = "yes"
     /\ NowSeconds(now') >= rtcAlarm
  THEN rtcFired' = "yes" /\ rtcSet' = "no"
  ELSE UNCHANGED <<rtcFired, rtcSet>>

RtcAdvance ==
  /\ Advances
  /\ RtcRing
  /\ UNCHANGED <<rtcBase, rtcAlarm, rtcRefused>>

RtcIdle == PassesBy /\ UNCHANGED rtc

RtcNext ==
  \/ \E s \in Seconds : RtcSetTime(s) \/ RtcSetAlarm(s)
  \/ RtcAdvance \/ RtcIdle \/ RtcReset

RtcSpec == EnvironmentInit /\ RtcInit /\ [][RtcNext]_<<environment, rtc>>

-----------------------------------------------------------------------------
(* Properties.                                                             *)

\* An alarm rings at the moment its second begins by the clock as it was set
\* last, whatever time it was armed under: later only when the wake was
\* refused or waited past, or when the clock was set beyond the alarm.
RtcRingsOnTime ==
  [][rtcFired = "no" /\ rtcFired' = "yes" =>
       OnTime(AlarmUs, rtcRefused) \/ rtcAlarm < rtcBaseSec]_<<environment, rtc>>

\* An alarm that is set is owed the wake for the clock as it was set last.
RtcIsOwed ==
  rtcSet = "yes" /\ rtcBased = "yes" => Expected(AlarmUs, rtcRefused)
=============================================================================
