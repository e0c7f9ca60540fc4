------------------------------ MODULE Qmp6988 ------------------------------
(***************************************************************************)
(* The pressure sensor of the catalog (src/devices/src/qmp6988_model.cpp): *)
(* forced conversions, the cycle of normal mode, and reads that catch up   *)
(* with the time before they answer. What the registers hold besides the   *)
(* mode and the two settings of the timing is left out, the status bit     *)
(* that says a conversion is under way with it.                            *)
(***************************************************************************)
EXTENDS Environment

CONSTANTS
  QmpConversions,   \* what conversionUs() may come to
  QmpStandbys       \* kStandbyUs

ASSUME QmpAssumption ==
  /\ QmpConversions \subseteq Nat \ {0} /\ QmpConversions # {}
  /\ QmpStandbys \subseteq Nat \ {0} /\ QmpStandbys # {}

VARIABLES
  qmpMode, qmpPending, qmpStart, qmpDue,  \* mode_, pending_, startUs_, dueUs_
  qmpConversion, qmpStandby,              \* CTRL_MEAS, IO_SETUP as times
  qmpRefused,                             \* history: the last wake was refused
  qmpFirst, qmpTaken                      \* history: the first end of the
                                          \* cycle, and conversions since

qmpCycle == <<qmpMode, qmpPending, qmpStart, qmpDue, qmpRefused, qmpFirst,
              qmpTaken>>
qmp == <<qmpCycle, qmpConversion, qmpStandby>>

QmpPeriod == qmpConversion + qmpStandby     \* normalPeriodUs()

QmpTypeOK ==
  /\ qmpMode \in {"sleep", "forced", "normal"} /\ qmpPending \in Flag
  /\ {qmpStart, qmpDue, qmpFirst, qmpTaken} \subseteq Nat
  /\ qmpConversion \in QmpConversions /\ qmpStandby \in QmpStandbys
  /\ qmpRefused \in Flag

QmpCleared ==
  /\ qmpMode' = "sleep" /\ qmpPending' = "no" /\ qmpStart' = 0 /\ qmpDue' = 0
  /\ qmpConversion' = CHOOSE c \in QmpConversions : TRUE
  /\ qmpStandby' = CHOOSE s \in QmpStandbys : TRUE
  /\ qmpRefused' = "no" /\ qmpFirst' = 0 /\ qmpTaken' = 0

QmpInit ==
  /\ qmpMode = "sleep" /\ qmpPending = "no" /\ qmpStart = 0 /\ qmpDue = 0
  /\ qmpConversion = CHOOSE c \in QmpConversions : TRUE
  /\ qmpStandby = CHOOSE s \in QmpStandbys : TRUE
  /\ qmpRefused = "no" /\ qmpFirst = 0 /\ qmpTaken = 0

\* reset(), by a power cycle and by the reset command.
QmpReset == Repowers /\ QmpCleared

-----------------------------------------------------------------------------
(* afterWrite.                                                             *)

\* CTRL_MEAS with mode bits 0.
QmpSleep(c) ==
  /\ qmpMode' = "sleep" /\ qmpPending' = "no" /\ qmpConversion' = c
  /\ UNCHANGED <<environment, qmpStart, qmpDue, qmpRefused, qmpFirst, qmpTaken,
                 qmpStandby>>

\* CTRL_MEAS with another mode: a conversion begins, unless normal mode is
\* written over a forced conversion, which ends as it would have.
QmpConvert(mode, c) ==
  /\ qmpMode' = mode /\ qmpPending' = "yes" /\ qmpConversion' = c
  /\ qmpTaken' = 0
  /\ UNCHANGED <<now, level, qmpStandby>>
  /\ LET takesOver == qmpPending = "yes" /\ qmpMode = "forced" /\ mode = "normal"
     IN IF takesOver
        THEN /\ UNCHANGED <<owed, qmpStart, qmpDue, qmpRefused>>
             /\ qmpFirst' = qmpDue
        ELSE /\ qmpStart' = now /\ qmpDue' = now + c /\ qmpFirst' = qmpDue'
             /\ Asks(qmpDue', owed, qmpRefused)

\* IO_SETUP: the standby time holds from the next conversion on.
QmpSetup(s) ==
  /\ qmpStandby' = s
  /\ qmpFirst' = qmpDue /\ qmpTaken' = 0
  /\ UNCHANGED <<environment, qmpMode, qmpPending, qmpStart, qmpDue,
                 qmpRefused, qmpConversion>>

-----------------------------------------------------------------------------
(* advanceTo(t): every conversion that was due by then, with the wakes of  *)
(* left still owed.                                                        *)

\* Mutated form: the next end is reckoned from the call.
QmpCompleteLate(t, left) ==
  IF qmpPending = "yes" /\ t >= qmpDue /\ qmpMode = "normal"
  THEN /\ qmpStart' = qmpDue /\ qmpDue' = t + QmpPeriod
       /\ qmpTaken' = qmpTaken + 1
       /\ Asks(qmpDue', left, qmpRefused)
       /\ UNCHANGED <<qmpMode, qmpPending>>
  ELSE /\ owed' = left
       /\ IF qmpPending = "yes" /\ t >= qmpDue
          THEN qmpMode' = "sleep" /\ qmpPending' = "no"
          ELSE UNCHANGED <<qmpMode, qmpPending>>
       /\ UNCHANGED <<qmpStart, qmpDue, qmpRefused, qmpTaken>>

QmpComplete(t, left) ==
  IF qmpPending = "yes" /\ t >= qmpDue /\ qmpMode = "normal"
  THEN /\ \E n \in 1..Horizon + 1 :
            /\ qmpDue + (n - 1) * QmpPeriod <= t /\ t < qmpDue + n * QmpPeriod
            /\ qmpStart' = qmpDue + (n - 1) * QmpPeriod
            /\ qmpDue' = qmpDue + n * QmpPeriod /\ qmpTaken' = qmpTaken + n
       /\ Asks(qmpDue', left, qmpRefused)
       /\ UNCHANGED <<qmpMode, qmpPending>>
  ELSE /\ owed' = left
       /\ IF qmpPending = "yes" /\ t >= qmpDue
          THEN qmpMode' = "sleep" /\ qmpPending' = "no"
          ELSE UNCHANGED <<qmpMode, qmpPending>>
       /\ UNCHANGED <<qmpStart, qmpDue, qmpRefused, qmpTaken>>

QmpAdvance ==
  /\ Serves
  /\ QmpComplete(now', StillOwed)
  /\ UNCHANGED <<qmpFirst, qmpConversion, qmpStandby>>

\* i2cRead: onRead catches up, inside a callback as well.
QmpRead ==
  /\ UNCHANGED <<now, level>>
  /\ QmpComplete(now, owed)
  /\ UNCHANGED <<qmpFirst, qmpConversion, qmpStandby>>

QmpIdle == PassesBy /\ UNCHANGED qmp

QmpNext ==
  \/ \E c \in QmpConversions :
       QmpSleep(c) \/ QmpConvert("forced", c) \/ QmpConvert("normal", c)
  \/ \E s \in QmpStandbys : QmpSetup(s)
  \/ QmpAdvance \/ QmpRead \/ QmpIdle \/ QmpReset

QmpSpec == EnvironmentInit /\ QmpInit /\ [][QmpNext]_<<environment, qmp>>

-----------------------------------------------------------------------------
(* Properties.                                                             *)

\* Normal mode keeps its schedule: each conversion ends a whole number of
\* periods after the first that was begun, or taken over from a forced one,
\* under the settings that hold, whether advances or reads find it done, and
\* however late they come.
QmpKeepsSchedule ==
  qmpMode = "normal" => qmpDue = qmpFirst + qmpTaken * QmpPeriod

\* The end of the conversion under way is owed its wake.
QmpIsOwed == qmpPending = "yes" => Expected(qmpDue, qmpRefused)
=============================================================================
