-------------------------------- MODULE Flash --------------------------------
(***************************************************************************)
(* The SPI flash of the catalog (src/devices/src/unit_flash_model.cpp) in  *)
(* an environment of which it knows the time contract. Chip select frames  *)
(* a command, and what a byte means depends on the bytes before it: a byte *)
(* on the wire is a command, an address or a value, and each action below  *)
(* takes the one it is read as.                                            *)
(***************************************************************************)
EXTENDS Environment, Sequences

CONSTANTS
  Size,                \* kSize: cells of the array, and bytes of the page
  Values, Erased,      \* contents of a cell; Erased is 0xFF
  ProgramUs, EraseUs   \* kProgramUs, kEraseUs

ASSUME FlashAssumption ==
  /\ Size \in Nat \ {0} /\ Erased \in Values
  /\ ProgramUs \in Nat \ {0} /\ EraseUs \in Nat \ {0}

VARIABLES
  selected, phase, command, address,   \* selected_, phase_, ...
  writeEnabled, busy, pending, doneUs,
  memory,
  staging,                             \* bytes received, not committed
  page, pageAddress,                   \* bytes of the program under way
  wakeRefused                          \* history: as in EnvSensor

line == <<selected, phase, command, address, staging>>
write == <<busy, pending, doneUs, page, pageAddress, wakeRefused>>
flash == <<line, write, writeEnabled, memory>>
flashVars == <<environment, flash>>

Cells == 0..Size - 1
Commands == {"enable", "program", "read", "status", "erase", "other"}
Bytes == UNION {[1..n -> Values] : n \in 0..Size}

FlashTypeOK ==
  /\ EnvironmentTypeOK
  /\ selected \in Flag
  /\ phase \in {"idle", "command", "address", "data"}
  /\ command \in Commands \cup {"none"} /\ address \in 0..Size
  /\ writeEnabled \in Flag /\ busy \in Flag
  /\ pending \in {"nothing", "program", "erase"} /\ doneUs \in Nat
  /\ memory \in [Cells -> Values]
  /\ staging \in Bytes /\ page \in Bytes /\ pageAddress \in 0..Size
  /\ wakeRefused \in Flag

\* reset(): a power cycle, of which the array knows nothing.
FlashReset ==
  /\ selected' = "no" /\ phase' = "idle" /\ command' = "none"
  /\ address' = 0 /\ staging' = <<>>
  /\ writeEnabled' = "no"
  /\ busy' = "no" /\ pending' = "nothing" /\ doneUs' = 0
  /\ page' = <<>> /\ pageAddress' = 0 /\ wakeRefused' = "no"
  /\ UNCHANGED memory

\* A part fresh out of the packet is erased.
FlashInit ==
  /\ EnvironmentInit
  /\ selected = "no" /\ phase = "idle" /\ command = "none"
  /\ address = 0 /\ staging = <<>>
  /\ writeEnabled = "no"
  /\ busy = "no" /\ pending = "nothing" /\ doneUs = 0
  /\ page = <<>> /\ pageAddress = 0 /\ wakeRefused = "no"
  /\ memory = [a \in Cells |-> Erased]

-----------------------------------------------------------------------------
(* lineIn: chip select.                                                    *)

Select ==
  /\ selected = "no"
  /\ selected' = "yes"
  /\ phase' = "command" /\ command' = "none" /\ staging' = <<>>
  /\ UNCHANGED <<environment, address, write, writeEnabled, memory>>

\* A write begins: it uses up its enable and asks to be woken when done.
BeginWrite(kind, duration) ==
  /\ now + duration <= Horizon
  /\ busy' = "yes" /\ pending' = kind
  /\ writeEnabled' = "no"
  /\ doneUs' = now + duration
  /\ \/ Granted(doneUs') /\ wakeRefused' = "no"
     \/ Refused /\ wakeRefused' = "yes"
  /\ UNCHANGED <<now, level>>

Allowed == writeEnabled = "yes" /\ busy = "no"

\* finishCommand, by the command that is released. A write that is not
\* allowed is refused with a note.
FinishCommand ==
  \/ /\ command = "erase" /\ Allowed
     /\ BeginWrite("erase", EraseUs)
     /\ UNCHANGED <<page, pageAddress>>
  \/ /\ command = "program" /\ staging # <<>> /\ Allowed
     /\ BeginWrite("program", ProgramUs)
     /\ pageAddress' = address /\ page' = staging
  \/ /\ ~ (command = "erase" /\ Allowed)
     /\ ~ (command = "program" /\ staging # <<>> /\ Allowed)
     /\ UNCHANGED <<environment, write, writeEnabled>>

Release ==
  /\ selected = "yes"
  /\ selected' = "no"
  /\ FinishCommand
  /\ phase' = "idle" /\ command' = "none" /\ staging' = <<>>
  /\ UNCHANGED <<address, memory>>

-----------------------------------------------------------------------------
(* spiTransfer while selected. In the other phases, and for status, a byte *)
(* changes nothing.                                                        *)

CommandByte(c) ==
  /\ selected = "yes" /\ phase = "command"
  /\ command' = c
  /\ writeEnabled' = IF c = "enable" THEN "yes" ELSE writeEnabled
  /\ phase' = IF c \in {"enable", "erase"} THEN "idle"
              ELSE IF c = "status" THEN "data" ELSE "address"
  /\ UNCHANGED <<environment, selected, address, staging, write, memory>>

AddressByte(a) ==
  /\ selected = "yes" /\ phase = "address"
  /\ address' = a
  /\ phase' = "data"
  /\ UNCHANGED <<environment, selected, command, staging, write,
                 writeEnabled, memory>>

ReadByte ==
  /\ selected = "yes" /\ phase = "data" /\ command = "read"
  /\ address < Size
  /\ address' = address + 1
  /\ UNCHANGED <<environment, selected, phase, command, staging, write,
                 writeEnabled, memory>>

\* Mutated form: the byte lands in the page buffer of the write under way.
ProgramByteIntoPage(v) ==
  /\ selected = "yes" /\ phase = "data" /\ command = "program"
  /\ Len(staging) < Size
  /\ staging' = Append(staging, v) /\ page' = staging'
  /\ UNCHANGED <<environment, selected, phase, command, address, busy,
                 pending, doneUs, pageAddress, wakeRefused, writeEnabled,
                 memory>>

\* Mutated form: the bound of the page is looked at one byte late.
ProgramByteOneTooMany(v) ==
  /\ selected = "yes" /\ phase = "data" /\ command = "program"
  /\ Len(staging) <= Size
  /\ staging' = Append(staging, v)
  /\ UNCHANGED <<environment, selected, phase, command, address, write,
                 writeEnabled, memory>>

ProgramByte(v) ==
  /\ selected = "yes" /\ phase = "data" /\ command = "program"
  /\ Len(staging) < Size
  /\ staging' = Append(staging, v)
  /\ UNCHANGED <<environment, selected, phase, command, address, write,
                 writeEnabled, memory>>

-----------------------------------------------------------------------------
(* Time and power.                                                         *)

\* The cells a write changes, and to what: a program stops at the end of
\* the array.
Change ==
  IF pending = "erase" THEN [a \in Cells |-> Erased]
  ELSE [a \in {b \in Cells : pageAddress <= b /\ b < pageAddress + Len(page)}
          |-> page[a - pageAddress + 1]]

\* Mutated form: the end is not waited for.
FinishWriteAtAnyAdvance ==
  IF busy = "yes"
  THEN /\ memory' = [a \in Cells |-> IF a \in DOMAIN Change THEN Change[a]
                                     ELSE memory[a]]
       /\ busy' = "no" /\ pending' = "nothing" /\ page' = <<>>
  ELSE UNCHANGED <<memory, busy, pending, page>>

\* advanceTo(now').
FinishWrite ==
  IF busy = "yes" /\ now' >= doneUs
  THEN /\ memory' = [a \in Cells |-> IF a \in DOMAIN Change THEN Change[a]
                                     ELSE memory[a]]
       /\ busy' = "no" /\ pending' = "nothing" /\ page' = <<>>
  ELSE UNCHANGED <<memory, busy, pending, page>>

AdvanceTo ==
  /\ Advances
  /\ FinishWrite
  /\ UNCHANGED <<line, doneUs, pageAddress, wakeRefused, writeEnabled>>

Elsewhere ==
  /\ Waits \/ CallbackBegins \/ CallbackEnds
  /\ UNCHANGED flash

\* The director cycles the power at any time, and before a new window.
PowerCycle ==
  /\ UNCHANGED environment \/ ClockRestarts
  /\ FlashReset

FlashNext ==
  \/ Select \/ Release
  \/ \E c \in Commands : CommandByte(c)
  \/ \E a \in 0..Size : AddressByte(a)
  \/ ReadByte
  \/ \E v \in Values : ProgramByte(v)
  \/ AdvanceTo \/ Elsewhere \/ PowerCycle

FlashSpec == FlashInit /\ [][FlashNext]_flashVars

-----------------------------------------------------------------------------
(* Properties.                                                             *)

\* The part is a programmable array: whatever is selected, abandoned,
\* staged, polled or enabled while a write is under way, that write lands
\* whole and unchanged or, after a power cycle, not at all, and no write
\* begins on an enable another one used (finishCommand, advanceTo, reset).
Array == INSTANCE ProgrammableArray
           WITH cells <- memory, enabled <- writeEnabled,
                writing <- IF busy = "yes" THEN Change ELSE <<>>
KeepsArray == Array!Spec

\* A write under way is owed a wake at the moment it is done, unless the
\* wake was refused: the wakes of writes a power cycle dropped, and those
\* other devices asked for, do not stand in for it.
WritingIsOwed == busy = "yes" => doneUs \in owed \/ wakeRefused = "yes"

\* A write is done at its moment, and later only if the wake was refused or
\* a callback waited past it; never earlier, also when a write begins while
\* the wake of one that was dropped is still to come.
WriteEndsWhenDue ==
  [][busy = "yes" /\ busy' = "no" /\ ~ PowerCycle =>
       \/ now' = doneUs
       \/ now' > doneUs /\ (wakeRefused = "yes" \/ now >= doneUs)]_flashVars
=============================================================================
