-------------------------------- MODULE Lora --------------------------------
(***************************************************************************)
(* The LoRa radio of the catalog (src/devices/src/unit_lora_model.cpp):    *)
(* deaf to the application while it transmits, which lasts as long as the  *)
(* payload takes. What comes from the other side is passed on at any time. *)
(***************************************************************************)
EXTENDS Environment

CONSTANTS LoraMaxBytes, LoraByteUs   \* kMaxPayloadBytes, kAirTimePerByteUs

ASSUME LoraAssumption == LoraMaxBytes \in Nat /\ LoraByteUs \in Nat \ {0}

VARIABLES
  loraBusy, loraDue, loraDone,  \* busy_, txDoneUs_, the level of kLineTxDone
  loraRefused,                  \* history: the last wake was refused
  loraSince, loraBytes          \* history: when a transmission was begun, and
                                \* of how many bytes

lora == <<loraBusy, loraDue, loraDone, loraRefused, loraSince, loraBytes>>

LoraTypeOK ==
  /\ loraBusy \in Flag /\ loraDue \in Nat /\ loraDone \in {"low", "high"}
  /\ loraRefused \in Flag /\ loraSince \in Nat /\ loraBytes \in 0..LoraMaxBytes

LoraInit ==
  /\ loraBusy = "no" /\ loraDue = 0 /\ loraDone = "low"
  /\ loraRefused = "no" /\ loraSince = 0 /\ loraBytes = 0

\* A reset leaves the line as it is.
LoraReset ==
  /\ Repowers
  /\ loraBusy' = "no" /\ loraDue' = 0
  /\ loraRefused' = "no" /\ loraSince' = 0 /\ loraBytes' = 0
  /\ UNCHANGED loraDone

\* Mutated form: a payload replaces the one that is being sent.
LoraHearsAlways(bytes) == bytes <= LoraMaxBytes

\* A payload is sent, and otherwise dropped with a note.
LoraHears(bytes) == bytes <= LoraMaxBytes /\ loraBusy = "no"

\* frameIn.
LoraUplink(bytes) ==
  /\ UNCHANGED <<now, level>>
  /\ \/ /\ LoraHears(bytes)
        /\ loraBusy' = "yes" /\ loraDone' = "low"
        /\ loraDue' = now + bytes * LoraByteUs
        /\ loraSince' = IF loraBusy = "no" THEN now ELSE loraSince
        /\ loraBytes' = IF loraBusy = "no" THEN bytes ELSE loraBytes
        /\ Asks(loraDue', owed, loraRefused)
     \/ /\ ~ LoraHears(bytes)
        /\ UNCHANGED <<owed, lora>>

\* advanceTo(now').
LoraAdvance ==
  /\ Advances
  /\ IF loraBusy = "yes" /\ now' >= loraDue
     THEN loraBusy' = "no" /\ loraDone' = "high"
     ELSE UNCHANGED <<loraBusy, loraDone>>
  /\ UNCHANGED <<loraDue, loraRefused, loraSince, loraBytes>>

LoraIdle == PassesBy /\ UNCHANGED lora

LoraNext ==
  \/ \E bytes \in 0..LoraMaxBytes + 1 : LoraUplink(bytes)
  \/ LoraAdvance \/ LoraIdle \/ LoraReset

LoraSpec == EnvironmentInit /\ LoraInit /\ [][LoraNext]_<<environment, lora>>

-----------------------------------------------------------------------------
(* Properties.                                                             *)

\* The line says that a payload is out when its own time on the air is over,
\* whatever the application tries to send meanwhile; later only when the
\* wake was refused or waited past (frameIn, advanceTo).
LoraSendsItsTime ==
  [][loraBusy = "yes" /\ loraDone' = "high" /\ loraDone = "low" =>
       OnTime(loraSince + loraBytes * LoraByteUs, loraRefused)]_<<environment, lora>>

\* While the radio is busy the line is down, and its end is owed its wake.
LoraIsOwed ==
  loraBusy = "yes" => loraDone = "low" /\ Expected(loraDue, loraRefused)
=============================================================================
