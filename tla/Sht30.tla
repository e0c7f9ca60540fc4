------------------------------- MODULE Sht30 -------------------------------
(***************************************************************************)
(* The humidity sensor of the catalog (src/devices/src/sht30_model.cpp).   *)
(* It has no advanceTo: what it answers depends on the time it is asked.   *)
(* A result is the number of its measurement; what it says, the status     *)
(* word and the checksums are left out.                                    *)
(***************************************************************************)
EXTENDS Environment

CONSTANTS
  ShtDurations,   \* kHighUs, kMediumUs, kLowUs
  ShtResetUs,     \* kSoftResetUs
  ShtLimits,      \* how long a master may wait for a stretched clock; 0 is
                  \* as long as it takes
  ShtMax          \* bound: measurements between two power cycles

ASSUME ShtAssumption ==
  /\ ShtDurations \subseteq Nat \ {0} /\ ShtResetUs \in Nat \ {0}
  /\ ShtLimits \subseteq Nat /\ 0 \in ShtLimits /\ ShtMax \in Nat

VARIABLES
  shtPending, shtReady, shtStretch,  \* pending_, readyAtUs_, stretch_
  shtResult, shtHeld, shtHolding,    \* result_, held_, holding_
  shtAfterReset, shtLimit,           \* afterReset_, stretchLimitUs_
  shtLast                            \* history: the last result read

shtResults == <<shtResult, shtHeld, shtHolding>>
sht == <<shtPending, shtReady, shtStretch, shtResults, shtAfterReset, shtLimit,
         shtLast>>

ShtTypeOK ==
  /\ shtPending \in {"nothing", "measurement", "status", "reset"}
  /\ shtReady \in Nat /\ shtStretch \in Flag
  /\ {shtResult, shtHeld, shtLast} \subseteq 0..ShtMax
  /\ shtHolding \in Flag /\ shtAfterReset \in Flag /\ shtLimit \in ShtLimits

ShtInit ==
  /\ shtPending = "nothing" /\ shtReady = 0 /\ shtStretch = "no"
  /\ shtResult = 0 /\ shtHeld = 0 /\ shtHolding = "no"
  /\ shtAfterReset = "no" /\ shtLimit = 0 /\ shtLast = 0

\* reset(): how long the master waits is not the part's.
ShtReset ==
  /\ Repowers
  /\ shtPending' = "nothing" /\ shtReady' = 0 /\ shtStretch' = "no"
  /\ shtResult' = 0 /\ shtHeld' = 0 /\ shtHolding' = "no"
  /\ shtAfterReset' = "no" /\ shtLast' = 0
  /\ UNCHANGED shtLimit

ShtBusy == now < shtReady

\* What start and a soft reset do with a result that nobody has read.
ShtHold ==
  IF shtPending = "measurement"
  THEN shtHeld' = shtResult /\ shtHolding' = "yes"
  ELSE UNCHANGED <<shtHeld, shtHolding>>

-----------------------------------------------------------------------------
(* i2cWrite: any command ends the silence after a reset, and one that      *)
(* comes while the part is busy does no more.                              *)

ShtMeasure(duration, stretch) ==
  /\ ~ ShtBusy /\ shtResult < ShtMax
  /\ ShtHold
  /\ shtResult' = shtResult + 1
  /\ shtPending' = "measurement" /\ shtStretch' = stretch
  /\ shtReady' = now + duration
  /\ shtAfterReset' = "no"
  /\ UNCHANGED <<environment, shtLimit, shtLast>>

ShtSoftReset ==
  /\ ~ ShtBusy
  /\ ShtHold
  /\ shtPending' = "reset" /\ shtReady' = now + ShtResetUs
  /\ shtAfterReset' = "yes"
  /\ UNCHANGED <<environment, shtStretch, shtResult, shtLimit, shtLast>>

\* The status command, the break command, and those that only change the
\* status word or are refused.
ShtCommand(pending) ==
  /\ \/ ~ ShtBusy /\ pending \in {"status", "nothing"}
     \/ pending = shtPending
  /\ shtPending' = pending /\ shtAfterReset' = "no"
  /\ UNCHANGED <<environment, shtReady, shtStretch, shtResults, shtLimit,
                 shtLast>>

-----------------------------------------------------------------------------
(* i2cRead. A read that is refused, one after a reset, which gets zeros,   *)
(* and one of nothing change nothing.                                      *)

\* Mutated form: what was held is handed out and kept.
ShtReadHeldAgain ==
  /\ ShtBusy /\ shtHolding = "yes"
  /\ shtLast' = shtHeld
  /\ UNCHANGED <<environment, shtPending, shtReady, shtStretch, shtResults,
                 shtAfterReset, shtLimit>>

ShtReadHeld ==
  /\ ShtBusy /\ shtHolding = "yes"
  /\ shtHolding' = "no" /\ shtLast' = shtHeld
  /\ UNCHANGED <<environment, shtPending, shtReady, shtStretch, shtResult,
                 shtHeld, shtAfterReset, shtLimit>>

\* The master waits for a stretched clock up to its limit.
ShtAnswers ==
  \/ ~ ShtBusy
  \/ /\ shtHolding = "no" /\ shtPending = "measurement" /\ shtStretch = "yes"
     /\ shtLimit = 0 \/ shtReady - now <= shtLimit

ShtReadResult ==
  /\ ShtAnswers /\ shtAfterReset = "no" /\ shtPending = "measurement"
  /\ shtPending' = "nothing" /\ shtHolding' = "no" /\ shtLast' = shtResult
  /\ UNCHANGED <<environment, shtReady, shtStretch, shtResult, shtHeld,
                 shtAfterReset, shtLimit>>

ShtReadStatus ==
  /\ ~ ShtBusy /\ shtAfterReset = "no" /\ shtPending = "status"
  /\ shtPending' = "nothing"
  /\ UNCHANGED <<environment, shtReady, shtStretch, shtResults, shtAfterReset,
                 shtLimit, shtLast>>

-----------------------------------------------------------------------------

\* channelWrite: the master's patience.
ShtStretchLimit(limit) ==
  /\ shtLimit' = limit
  /\ UNCHANGED <<environment, shtPending, shtReady, shtStretch, shtResults,
                 shtAfterReset, shtLast>>

ShtIdle == (Advances \/ PassesBy) /\ UNCHANGED sht

ShtNext ==
  \/ \E d \in ShtDurations, s \in Flag : ShtMeasure(d, s)
  \/ ShtSoftReset
  \/ \E p \in {"nothing", "measurement", "status", "reset"} : ShtCommand(p)
  \/ ShtReadHeld \/ ShtReadResult \/ ShtReadStatus
  \/ \E limit \in ShtLimits : ShtStretchLimit(limit)
  \/ ShtIdle \/ ShtReset

ShtSpec == EnvironmentInit /\ ShtInit /\ [][ShtNext]_<<environment, sht>>

-----------------------------------------------------------------------------
(* Properties.                                                             *)

\* A result is read at most once and never after a newer one: whatever can
\* still be read was not read before, through results left unread, handed
\* out while the next one is measured, waited for, kept over a soft reset,
\* and dropped by a status or a break command.
ShtReadOnce ==
  /\ shtHolding = "yes" /\ ShtBusy => shtHeld > shtLast
  /\ shtPending = "measurement" => shtResult > shtLast
=============================================================================
