-------------------------------- MODULE Modem --------------------------------
(***************************************************************************)
(* The modem of the catalog (src/devices/src/modem_model.cpp): a command   *)
(* is answered at once or after a while, for which it asks for no wake: it *)
(* answers in the advance that comes late enough. Of a command only which  *)
(* one it is read as is kept; those answered at once change nothing.       *)
(***************************************************************************)
EXTENDS Environment

CONSTANT ModemUs   \* the latency of an extended command

ASSUME ModemAssumption == ModemUs \in Nat \ {0}

VARIABLES
  modemPending, modemDue,   \* hasPending_, replyDueUs_
  modemOwing                \* history: when each extended command that was
                            \* not answered, nor replaced, was read

modem == <<modemPending, modemDue, modemOwing>>

ModemTypeOK ==
  modemPending \in Flag /\ modemDue \in Nat /\ modemOwing \subseteq Nat

ModemInit == modemPending = "no" /\ modemDue = 0 /\ modemOwing = {}

ModemReset ==
  /\ Repowers
  /\ modemPending' = "no" /\ modemDue' = 0 /\ modemOwing' = {}

\* Mutated form: a command is not replaced by the next one.
ModemDispatchKeeping ==
  /\ modemPending' = "yes"
  /\ modemDue' = IF modemPending = "yes" THEN modemDue ELSE now + ModemUs
  /\ modemOwing' = {now}
  /\ UNCHANGED environment

\* serialIn up to a terminator, and dispatch of an extended command, which
\* replaces the one that is yet to be answered.
ModemDispatch ==
  /\ modemPending' = "yes" /\ modemDue' = now + ModemUs
  /\ modemOwing' = {now}
  /\ UNCHANGED environment

\* advanceTo(now').
ModemAdvance ==
  /\ Advances
  /\ modemPending = "yes" /\ now' >= modemDue
  /\ modemPending' = "no" /\ modemOwing' = {}
  /\ UNCHANGED modemDue

ModemIdle ==
  /\ PassesBy \/ (Advances /\ (modemPending = "no" \/ now' < modemDue))
  /\ UNCHANGED modem

ModemNext == ModemDispatch \/ ModemAdvance \/ ModemIdle \/ ModemReset

ModemSpec == EnvironmentInit /\ ModemInit /\ [][ModemNext]_<<environment, modem>>

-----------------------------------------------------------------------------
(* Properties.                                                             *)

\* Nothing but the last extended command is answered, and not before its own
\* latency is over, also when it was read while another was being handled.
ModemAnswersLast ==
  [][ModemAdvance => \A t \in modemOwing : now' >= t + ModemUs]_<<environment, modem>>
=============================================================================
