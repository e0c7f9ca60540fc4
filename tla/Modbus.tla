------------------------------- MODULE Modbus -------------------------------
(***************************************************************************)
(* The Modbus slave of the catalog                                         *)
(* (src/devices/src/unit_modbus_model.cpp): a request has no terminator,   *)
(* it ends when the line has been quiet. Of its bytes only how many there  *)
(* are is kept.                                                            *)
(***************************************************************************)
EXTENDS Environment

CONSTANTS
  ModbusMax,       \* the bytes frame_ holds
  ModbusRequest,   \* the bytes of a request that can be answered
  ModbusGapUs      \* kFrameGapUs

ASSUME ModbusAssumption ==
  /\ ModbusRequest \in Nat \ {0} /\ ModbusMax \in Nat \ {0}
  /\ ModbusRequest < ModbusMax /\ ModbusGapUs \in Nat \ {0}

VARIABLES
  mbLength, mbIdleAt, mbPending,   \* frameLength_, idleAtUs_, pending_
  mbRefused,                       \* history: the last wake was refused
  mbCame, mbSince,                 \* history: when the last bytes came, and
                                   \* how many since the line was last quiet
                                   \* for a gap
  mbMissed,                        \* history: the line was quiet for a gap
                                   \* while the request was being collected
  mbReply                          \* history: the bytes since the silence
                                   \* when a request was answered last, if
                                   \* no silence was missed

modbus ==
  <<mbLength, mbIdleAt, mbPending, mbRefused, mbCame, mbSince, mbMissed, mbReply>>

ModbusTypeOK ==
  /\ mbLength \in 0..ModbusMax /\ mbPending \in Flag /\ mbRefused \in Flag
  /\ {mbIdleAt, mbCame, mbSince, mbReply} \subseteq Nat /\ mbMissed \in Flag

ModbusInit ==
  /\ mbLength = 0 /\ mbIdleAt = 0 /\ mbPending = "no" /\ mbRefused = "no"
  /\ mbCame = 0 /\ mbSince = 0 /\ mbMissed = "no"
  /\ mbReply = ModbusRequest

ModbusReset ==
  /\ Repowers
  /\ mbLength' = 0 /\ mbIdleAt' = 0 /\ mbPending' = "no" /\ mbRefused' = "no"
  /\ mbCame' = 0 /\ mbSince' = 0 /\ mbMissed' = "no"
  /\ mbReply' = ModbusRequest

\* The line has been quiet for a gap since the last bytes came.
WasQuiet == now >= mbCame + ModbusGapUs

\* serialIn: what the buffer has no room for is dropped. Bound: the bytes
\* that come before a silence.
ModbusBytes(n) ==
  /\ mbSince' = IF WasQuiet THEN n ELSE mbSince + n
  /\ mbSince' <= ModbusMax + 1
  /\ mbLength' = IF mbLength + n < ModbusMax THEN mbLength + n ELSE ModbusMax
  /\ mbIdleAt' = now + ModbusGapUs /\ mbPending' = "yes"
  /\ mbCame' = now
  /\ mbMissed' = IF WasQuiet /\ mbPending = "yes" THEN "yes" ELSE mbMissed
  /\ UNCHANGED <<now, level, mbReply>>
  /\ Asks(mbIdleAt', owed, mbRefused)

\* The request is answered.
Answers ==
  /\ mbLength = ModbusRequest
  /\ mbReply' = IF mbMissed = "no" THEN mbSince ELSE mbReply

\* Mutated form: what is not answered is left in the buffer.
HandleFrameKeeping ==
  \/ Answers /\ mbLength' = 0
  \/ UNCHANGED <<mbReply, mbLength>>

\* handleFrame, and the buffer is empty: an answer, or silence for a frame
\* that is damaged, for another, or not understood.
HandleFrame ==
  /\ mbLength' = 0
  /\ Answers \/ UNCHANGED mbReply

\* advanceTo(now').
ModbusAdvance ==
  /\ Advances
  /\ mbPending = "yes" /\ now' >= mbIdleAt
  /\ mbPending' = "no" /\ mbMissed' = "no"
  /\ HandleFrame
  /\ UNCHANGED <<mbIdleAt, mbRefused, mbCame, mbSince>>

ModbusIdle ==
  /\ PassesBy \/ (Advances /\ (mbPending = "no" \/ now' < mbIdleAt))
  /\ UNCHANGED modbus

ModbusNext ==
  \/ \E n \in 1..ModbusMax : ModbusBytes(n)
  \/ ModbusAdvance \/ ModbusIdle \/ ModbusReset

ModbusSpec == EnvironmentInit /\ ModbusInit /\ [][ModbusNext]_<<environment, modbus>>

-----------------------------------------------------------------------------
(* Properties.                                                             *)

\* What is collected is what came since the line was last quiet for a gap,
\* as far as the buffer holds it, and nothing of what came before, however
\* the bytes were split and whether or not the requests before were answered;
\* so what is answered is a request that stood between two silences. Only
\* when a silence passed without the advance it asks for (ModbusWaitsForSilence
\* says when) is what came before it collected too: serialIn sets the end of
\* the silence anew without looking whether the last one is over (39-40), and
\* two requests are read as one.
ModbusFramesBySilence ==
  /\ mbReply = ModbusRequest
  /\ mbPending = "no" => mbLength = 0
  /\ mbPending = "yes" /\ mbMissed = "no" =>
       mbLength = IF mbSince < ModbusMax THEN mbSince ELSE ModbusMax

\* A request is handled a gap after its last byte, and later only when that
\* wake was refused or waited past; and bytes are added to a request the line
\* was quiet after only then.
ModbusWaitsForSilence ==
  [][/\ ModbusAdvance => OnTime(mbCame + ModbusGapUs, mbRefused)
     /\ mbMissed = "no" /\ mbMissed' = "yes"
          => mbRefused = "yes" \/ mbIdleAt \in owed]_<<environment, modbus>>

\* The end of the silence is owed its wake.
ModbusIsOwed == mbPending = "yes" => Expected(mbIdleAt, mbRefused)
=============================================================================
