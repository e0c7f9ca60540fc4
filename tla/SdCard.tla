------------------------------- MODULE SdCard -------------------------------
(***************************************************************************)
(* The SD card of the catalog (src/devices/src/unit_sdcard_model.cpp) as a *)
(* block device. The six bytes of a command are one step: a command that   *)
(* is released before its last byte is forgotten. What the reply says is   *)
(* left out; whether a transfer follows it is not.                         *)
(***************************************************************************)
EXTENDS Environment, Sequences

CONSTANTS
  SdBlocks, SdBlockSize,  \* kBlockCount, kBlockSize
  SdByte,                 \* 256: a byte is a number below it
  SdWriteUs               \* kWriteUs

ASSUME SdAssumption ==
  {SdBlocks, SdBlockSize, SdByte, SdWriteUs} \subseteq Nat \ {0}

VARIABLES
  sdSelected, sdPhase, sdAfter,   \* selected_, phase_, after_
  sdReady, sdBlock, sdOffset,     \* initialised_, block_, offset_
  sdStaging, sdDone, sdStore,     \* staging_, doneUs_, store_
  sdRefused,                      \* history: the wake was refused
  sdTarget, sdMoved               \* history: the block the command named, and
                                  \* whether the director filled another since

sdWrite == <<sdStaging, sdDone, sdRefused>>
sdTransfer == <<sdBlock, sdTarget, sdMoved>>
sd == <<sdSelected, sdPhase, sdAfter, sdReady, sdOffset, sdStore, sdWrite,
        sdTransfer>>

SdBytes == 0..SdByte - 1
SdContent == [1..SdBlockSize -> SdBytes]
SdOps == {"go idle", "if cond", "read", "write", "other"}

SdTypeOK ==
  /\ sdSelected \in Flag /\ sdReady \in Flag
  /\ sdPhase \in {"idle", "command", "reply", "read", "wait", "write", "busy"}
  /\ sdAfter \in {"command", "read", "wait"}
  /\ sdBlock \in 0..SdBlocks /\ sdTarget \in 0..SdBlocks - 1
  /\ sdOffset \in 0..SdBlockSize + 2
  /\ sdStaging \in Seq(SdBytes) /\ Len(sdStaging) <= SdBlockSize
  /\ sdDone \in Nat /\ sdStore \in [0..SdBlocks - 1 -> SdContent]
  /\ sdRefused \in Flag /\ sdMoved \in Flag

SdInit ==
  /\ sdSelected = "no" /\ sdPhase = "idle" /\ sdAfter = "command"
  /\ sdReady = "no" /\ sdBlock = 0 /\ sdOffset = 0
  /\ sdStaging = <<>> /\ sdDone = 0
  /\ sdStore = [b \in 0..SdBlocks - 1 |-> [i \in 1..SdBlockSize |-> 0]]
  /\ sdRefused = "no" /\ sdTarget = 0 /\ sdMoved = "no"

\* reset(): the blocks outlive it.
SdReset ==
  /\ Repowers
  /\ sdSelected' = "no" /\ sdPhase' = "idle" /\ sdAfter' = "command"
  /\ sdReady' = "no" /\ sdBlock' = 0 /\ sdOffset' = 0
  /\ sdStaging' = <<>> /\ sdDone' = 0
  /\ sdRefused' = "no" /\ sdTarget' = 0 /\ sdMoved' = "no"
  /\ UNCHANGED sdStore

\* Mutated form: selecting the card starts over although it is busy.
SdSelectStartsOver ==
  /\ sdSelected' = IF sdSelected = "yes" THEN "no" ELSE "yes"
  /\ sdPhase' = IF sdSelected = "yes" /\ sdPhase = "busy" THEN "busy"
                ELSE IF sdSelected = "yes" THEN "idle" ELSE "command"
  /\ UNCHANGED <<environment, sdAfter, sdReady, sdOffset, sdStore, sdWrite,
                 sdTransfer>>

\* lineIn: an edge of chip select abandons what is under way, but a block
\* that is being written.
SdSelect ==
  /\ sdSelected' = IF sdSelected = "yes" THEN "no" ELSE "yes"
  /\ sdPhase' = IF sdPhase = "busy" THEN "busy"
                ELSE IF sdSelected = "yes" THEN "idle" ELSE "command"
  /\ UNCHANGED <<environment, sdAfter, sdReady, sdOffset, sdStore, sdWrite,
                 sdTransfer>>

-----------------------------------------------------------------------------
(* spiTransfer while selected, by phase. A byte that changes nothing has   *)
(* no step: an idle one, one that is not the start token, one while busy.  *)

\* beginCommand: the argument is taken whatever the command is.
SdCommand(op, b) ==
  /\ sdSelected = "yes" /\ sdPhase = "command"
  /\ sdPhase' = "reply" /\ sdBlock' = b
  /\ sdReady' = IF op = "go idle" THEN "yes" ELSE sdReady
  /\ \/ /\ op \in {"read", "write"} /\ sdReady = "yes" /\ b < SdBlocks
        /\ sdAfter' = IF op = "read" THEN "read" ELSE "wait"
        /\ sdTarget' = b /\ sdMoved' = "no"
        /\ sdOffset' = 0
     \/ /\ ~ (op \in {"read", "write"} /\ sdReady = "yes" /\ b < SdBlocks)
        /\ sdAfter' = "command"
        /\ UNCHANGED <<sdTarget, sdMoved, sdOffset>>
  /\ UNCHANGED <<environment, sdSelected, sdStore, sdWrite>>

SdReply ==
  /\ sdSelected = "yes" /\ sdPhase = "reply"
  /\ sdPhase' = sdAfter /\ sdOffset' = 0
  /\ UNCHANGED <<environment, sdSelected, sdAfter, sdReady, sdStore, sdWrite,
                 sdTransfer>>

\* The token, the block and two bytes of checksum.
SdReadByte ==
  /\ sdSelected = "yes" /\ sdPhase = "read"
  /\ sdOffset' = (sdOffset + 1) % (SdBlockSize + 3)
  /\ sdPhase' = IF sdOffset' = 0 THEN "command" ELSE "read"
  /\ UNCHANGED <<environment, sdSelected, sdAfter, sdReady, sdStore, sdWrite,
                 sdTransfer>>

SdStartToken ==
  /\ sdSelected = "yes" /\ sdPhase = "wait"
  /\ sdPhase' = "write" /\ sdStaging' = <<>>
  /\ UNCHANGED <<environment, sdSelected, sdAfter, sdReady, sdOffset, sdStore,
                 sdDone, sdRefused, sdTransfer>>

SdWriteByte(v) ==
  /\ sdSelected = "yes" /\ sdPhase = "write"
  /\ Len(sdStaging) < SdBlockSize
  /\ sdStaging' = Append(sdStaging, v)
  /\ UNCHANGED <<environment, sdSelected, sdPhase, sdAfter, sdReady, sdOffset,
                 sdStore, sdDone, sdRefused, sdTransfer>>

\* The second byte of the checksum: the card accepts the block.
SdAccept ==
  /\ sdSelected = "yes" /\ sdPhase = "write"
  /\ Len(sdStaging) = SdBlockSize
  /\ sdPhase' = "busy" /\ sdDone' = now + SdWriteUs
  /\ UNCHANGED <<now, level, sdSelected, sdAfter, sdReady, sdOffset, sdStore,
                 sdStaging, sdTransfer>>
  /\ Asks(sdDone', owed, sdRefused)

-----------------------------------------------------------------------------
(* Time and the director.                                                  *)

\* advanceTo(now'): the block goes where block_ points by now.
SdCommit ==
  IF sdPhase = "busy" /\ now' >= sdDone
  THEN /\ sdStore' = [sdStore EXCEPT ![sdBlock] = sdStaging]
       /\ sdPhase' = IF sdSelected = "yes" THEN "command" ELSE "idle"
  ELSE UNCHANGED <<sdStore, sdPhase>>

SdAdvance ==
  /\ Advances
  /\ SdCommit
  /\ UNCHANGED <<sdSelected, sdAfter, sdReady, sdOffset, sdWrite, sdTransfer>>

\* channelWrite: the director fills a block with a pattern, and block_ is
\* that block from now on.
SdFill(b, v) ==
  /\ sdStore' = [sdStore EXCEPT ![b] =
                   [i \in 1..SdBlockSize |-> (v + i - 1) % SdByte]]
  /\ sdBlock' = b /\ sdMoved' = IF b = sdTarget THEN sdMoved ELSE "yes"
  /\ UNCHANGED <<environment, sdSelected, sdPhase, sdAfter, sdReady, sdOffset,
                 sdWrite, sdTarget>>

SdIdle == PassesBy /\ UNCHANGED sd

SdNext ==
  \/ SdSelect
  \/ \E op \in SdOps, b \in 0..SdBlocks : SdCommand(op, b)
  \/ SdReply \/ SdReadByte \/ SdStartToken
  \/ \E v \in SdBytes : SdWriteByte(v)
  \/ SdAccept
  \/ SdAdvance
  \/ \E b \in 0..SdBlocks - 1, v \in SdBytes : SdFill(b, v)
  \/ SdIdle \/ SdReset

SdSpec == EnvironmentInit /\ SdInit /\ [][SdNext]_<<environment, sd>>

-----------------------------------------------------------------------------
(* Properties.                                                             *)

\* The end of a write: the card is busy no longer, and not by a reset.
SdWriteEnds == sdPhase = "busy" /\ sdPhase' # "busy" /\ ~ SdReset

\* A block that was accepted is written whole, once and at its moment,
\* whatever is selected or commanded meanwhile, unless the power is cut, and
\* it goes to the block that the command named, unless the director filled
\* another since: that fill takes the write along (SdWritesInPlace). Nothing
\* but an accepted block and the director changes a block.
SdWritesWhole ==
  [][/\ SdWriteEnds =>
          /\ OnTime(sdDone, sdRefused)
          /\ \E b \in 0..SdBlocks - 1 :
               /\ sdStore' = [sdStore EXCEPT ![b] = sdStaging]
               /\ sdMoved = "no" => b = sdTarget
     /\ sdStore' # sdStore =>
          \/ sdPhase = "busy" /\ sdPhase' # "busy"
          \/ \E b \in 0..SdBlocks - 1, v \in SdBytes : SdFill(b, v)
    ]_<<environment, sd>>

\* The bytes go to the block they were sent to (unit_sdcard_model.h:7-8, "what
\* a test asserts is that the application wrote the right bytes to the right
\* block"). They do not when the director fills another block between the
\* command and the end of the write: the fill leaves block_ at the block it
\* filled (209), and advanceTo writes there (194).
SdWritesInPlace ==
  [][SdWriteEnds => sdStore' = [sdStore EXCEPT ![sdTarget] = sdStaging]
    ]_<<environment, sd>>

\* The end of a write is owed its wake.
SdIsOwed == sdPhase = "busy" => Expected(sdDone, sdRefused)
=============================================================================
