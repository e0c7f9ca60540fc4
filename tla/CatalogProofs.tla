---------------------------- MODULE CatalogProofs ----------------------------
(***************************************************************************)
(* For any sizes, durations, tapes and anchors, and in any environment     *)
(* that keeps the time contract: what the parts of the catalog are owed,   *)
(* what they count and repeat, and when what they began ends.              *)
(*                                                                         *)
(* Each part has an inductive invariant of its own (FlashInv, ImuInv and   *)
(* so on), which holds of the part when it is new (..Fresh), is kept by    *)
(* its steps (..Step), and is all that its timing follows from (..Ends).   *)
(* The last section puts the parts on the bench.                           *)
(***************************************************************************)
EXTENDS Catalog, SequenceTheorems, TLAPS

-----------------------------------------------------------------------------
(* Time, and the wakes that are owed.                                      *)

\* What an advance does, whether it asks for a next wake or not.
LEMMA AdvanceTime ==
  ASSUME EnvironmentTypeOK, Advances \/ Serves
  PROVE  /\ now' \in Nat /\ now' >= now /\ level' = level
         /\ \A w \in owed : w > now => w >= now'
         /\ StillOwed \subseteq Nat
         /\ Advances => owed' = StillOwed
<1>1. /\ \E t \in now..Horizon : now' = t
      /\ \A w \in owed : w > now => w >= now'
      /\ level' = level
      /\ Advances => owed' = StillOwed
  BY DEF Advances, Serves, Time!Advance, StillOwed
<1>2. now \in Nat /\ owed \subseteq Nat
  BY DEF EnvironmentTypeOK
<1>3. PICK t \in now..Horizon : now' = t
  BY <1>1
<1>4. now' \in Nat /\ now' >= now
  BY <1>2, <1>3, EnvironmentAssumption
<1>5. StillOwed \subseteq Nat
  BY <1>2 DEF StillOwed
<1>6. QED
  BY <1>1, <1>4, <1>5

LEMMA AdvanceTypes ==
  ASSUME EnvironmentTypeOK, Advances \/ Serves, owed' \subseteq Nat
  PROVE  EnvironmentTypeOK'
BY AdvanceTime DEF EnvironmentTypeOK

\* A part that is passed by keeps what it is owed.
LEMMA PassingTime ==
  ASSUME EnvironmentTypeOK, PassesBy
  PROVE  EnvironmentTypeOK' /\ now' >= now /\ owed' = owed
<1> USE EnvironmentAssumption
<1>0. now \in Nat /\ owed \subseteq Nat /\ level \in 0..MaxLevel
  BY DEF EnvironmentTypeOK
<1>1. CASE Waits
  <2>1. /\ \E t \in now..Horizon : now' = t
        /\ owed' = owed /\ level' = level
    BY <1>1 DEF Waits, Time!Pass, Time!Overtake
  <2>2. now' \in Nat /\ now' >= now
    BY <1>0, <2>1
  <2>3. QED
    BY <1>0, <2>1, <2>2 DEF EnvironmentTypeOK
<1>2. CASE CallbackBegins \/ CallbackEnds
  <2>1. now' = now /\ owed' = owed /\ level' \in 0..MaxLevel
    BY <1>0, <1>2 DEF CallbackBegins, CallbackEnds
  <2>2. QED
    BY <1>0, <2>1 DEF EnvironmentTypeOK
<1>3. QED
  BY <1>1, <1>2 DEF PassesBy

LEMMA RepoweringTime ==
  ASSUME EnvironmentTypeOK, Repowers
  PROVE  EnvironmentTypeOK'
<1>1. CASE UNCHANGED environment
  BY <1>1 DEF EnvironmentTypeOK, environment
<1>2. CASE ClockRestarts
  BY <1>2 DEF ClockRestarts, Time!Restart, EnvironmentTypeOK
<1>3. QED
  BY <1>1, <1>2 DEF Repowers

\* A step of a part in which no time passes.
LEMMA StandingTime ==
  ASSUME EnvironmentTypeOK, UNCHANGED <<now, level>>, owed' \subseteq Nat
  PROVE  EnvironmentTypeOK'
BY DEF EnvironmentTypeOK

\* What was asked for is owed from then on, and what was owed stays so until
\* its moment.
LEMMA AskedIsExpected ==
  ASSUME NEW t \in Nat, NEW left, left \subseteq Nat, NEW answer, now' \in Nat,
         \/ owed' = left \cup {w \in {t} : w > now'} /\ answer = "no"
         \/ t > now' /\ t \notin left /\ owed' = left /\ answer = "yes"
  PROVE  /\ owed' \subseteq Nat /\ answer \in Flag
         /\ t \in owed' \/ answer = "yes" \/ t <= now'
<1>1. CASE owed' = left \cup {w \in {t} : w > now'} /\ answer = "no"
  <2>1. t > now' => t \in owed'
    BY <1>1
  <2>2. owed' \subseteq Nat
    BY <1>1
  <2>3. QED
    BY <1>1, <2>1, <2>2 DEF Flag
<1>2. CASE t > now' /\ t \notin left /\ owed' = left /\ answer = "yes"
  BY <1>2 DEF Flag
<1>3. QED
  BY <1>1, <1>2

LEMMA StaysExpected ==
  ASSUME EnvironmentTypeOK, NEW t \in Nat, NEW answer, Expected(t, answer),
         now' \in Nat, now' >= now, StillOwed \subseteq owed'
  PROVE  t \in owed' \/ answer = "yes" \/ t <= now'
BY DEF Expected, EnvironmentTypeOK, StillOwed

\* Whatever was owed and ends with an advance ends on time.
LEMMA EndsInTime ==
  ASSUME EnvironmentTypeOK, Advances \/ Serves, NEW t \in Nat, NEW answer,
         Expected(t, answer), now' >= t
  PROVE  OnTime(t, answer)
<1>1. now \in Nat /\ now' \in Nat /\ \A w \in owed : w > now => w >= now'
  BY AdvanceTime DEF EnvironmentTypeOK
<1>2. QED
  BY <1>1 DEF Expected, OnTime

\* n intervals after a moment on a grid are a moment on the grid.
LEMMA GridStep ==
  ASSUME NEW due \in Nat, NEW start \in Nat, NEW i \in Int, NEW n \in Nat,
         NEW period \in Nat, due = start + i * period
  PROVE  /\ due + n * period = start + (i + n) * period
         /\ due + n * period \in Nat /\ n * period \in Nat
<1>1. (i + n) * period = i * period + n * period
  OBVIOUS
<1>2. n * period \in Nat /\ i * period \in Int
  OBVIOUS
<1>3. QED
  BY <1>1, <1>2

-----------------------------------------------------------------------------
(* The flash.                                                              *)

\* A write under way is owed its wake; the rest are the types.
FlashInv == FlashTypeOK /\ WritingIsOwed

LEMMA EmptyBytes == <<>> \in Bytes
<1>1. <<>> = [i \in 1..0 |-> 0]
  OBVIOUS
<1>2. <<>> \in [1..0 -> Values] /\ 0 \in 0..Size
  BY <1>1, FlashAssumption
<1>3. QED
  BY <1>2 DEF Bytes

LEMMA OneByteMore ==
  ASSUME NEW s \in Bytes, NEW v \in Values, Len(s) < Size
  PROVE  Append(s, v) \in Bytes
<1>1. PICK n \in 0..Size : s \in [1..n -> Values]
  BY DEF Bytes
<1>2. s \in Seq(Values) /\ Len(s) = n
  BY <1>1
<1>3. /\ Append(s, v) \in Seq(Values) /\ Len(Append(s, v)) = n + 1
      /\ DOMAIN Append(s, v) = 1..n + 1
  BY <1>2
<1>4. Append(s, v) \in [1..n + 1 -> Values]
  <2>1. Append(s, v) \in [1..Len(Append(s, v)) -> Values]
    BY <1>3, LenProperties
  <2>2. QED
    BY <1>3, <2>1
<1>5. n + 1 \in 0..Size
  BY <1>1, <1>2, FlashAssumption
<1>6. QED
  BY <1>4, <1>5 DEF Bytes

LEMMA FlashInitially == FlashInit => FlashInv
BY EmptyBytes, FlashAssumption, EnvironmentAssumption
   DEF FlashInit, FlashInv, FlashTypeOK, WritingIsOwed, EnvironmentInit,
       EnvironmentTypeOK, Commands, Flag, Cells

\* What a write turns the array into.
LEMMA ChangeType ==
  ASSUME FlashTypeOK, memory' = [a \in Cells |->
           IF a \in DOMAIN Change THEN Change[a] ELSE memory[a]]
  PROVE  memory' \in [Cells -> Values]
<1>1. ASSUME NEW a \in Cells
      PROVE (IF a \in DOMAIN Change THEN Change[a] ELSE memory[a]) \in Values
  <2>1. CASE pending = "erase"
    BY <1>1, <2>1, FlashAssumption DEF Change, FlashTypeOK
  <2>2. CASE pending # "erase" /\ a \in DOMAIN Change
    <3>1. PICK n \in 0..Size : page \in [1..n -> Values]
      BY DEF FlashTypeOK, Bytes
    <3>2. Len(page) = n /\ n \in Nat /\ pageAddress \in Nat /\ a \in Nat
      BY <3>1, FlashAssumption DEF FlashTypeOK, Cells
    <3>3. /\ pageAddress <= a /\ a < pageAddress + Len(page)
          /\ Change[a] = page[a - pageAddress + 1]
      BY <2>2 DEF Change
    <3>4. a - pageAddress + 1 \in 1..n
      BY <3>2, <3>3
    <3>5. QED
      BY <2>2, <3>1, <3>3, <3>4
  <2>3. CASE a \notin DOMAIN Change
    BY <1>1, <2>3 DEF FlashTypeOK
  <2>4. QED
    BY <2>1, <2>2, <2>3
<1>2. QED
  BY <1>1

LEMMA FlashStep == FlashInv /\ [FlashNext]_flashVars => FlashInv'
<1> USE FlashAssumption, EnvironmentAssumption
<1> SUFFICES ASSUME FlashInv, [FlashNext]_flashVars PROVE FlashInv'
  OBVIOUS
\* The part of the types that concerns the line, and the rest.
<1> DEFINE LineOK ==
      /\ selected \in Flag
      /\ phase \in {"idle", "command", "address", "data"}
      /\ command \in Commands \cup {"none"} /\ address \in 0..Size
      /\ staging \in Bytes
<1> DEFINE WriteOK ==
      /\ EnvironmentTypeOK
      /\ busy \in Flag /\ pending \in {"nothing", "program", "erase"}
      /\ doneUs \in Nat /\ page \in Bytes /\ pageAddress \in 0..Size
      /\ wakeRefused \in Flag /\ WritingIsOwed
<1> DEFINE RestOK == writeEnabled \in Flag /\ memory \in [Cells -> Values]
<1>a. LineOK /\ WriteOK /\ RestOK
  BY DEF FlashInv, FlashTypeOK
<1>b. SUFFICES LineOK' /\ WriteOK' /\ RestOK'
  BY DEF FlashInv, FlashTypeOK
<1>c. ASSUME UNCHANGED <<environment, write>> PROVE WriteOK'
  BY <1>a, <1>c DEF environment, write, EnvironmentTypeOK, WritingIsOwed
<1>d. UNCHANGED line => LineOK'
  BY <1>a DEF line
<1>e. UNCHANGED <<writeEnabled, memory>> => RestOK'
  BY <1>a
<1>1. CASE Select
  BY <1>1, <1>a, <1>c, <1>e, EmptyBytes DEF Select, Flag
<1>2. CASE Release
  <2>1. LineOK' /\ memory' = memory
    BY <1>2, <1>a, EmptyBytes DEF Release, Flag
  <2>2. ASSUME NEW kind \in {"program", "erase"}, NEW d \in Nat,
               BeginWrite(kind, d)
        PROVE  /\ writeEnabled' \in Flag
               /\ page' \in Bytes /\ pageAddress' \in 0..Size => WriteOK'
    <3>1. now \in Nat /\ owed \subseteq Nat /\ now + d \in Nat
      BY <1>a DEF EnvironmentTypeOK
    <3>2. /\ busy' = "yes" /\ pending' = kind /\ writeEnabled' = "no"
          /\ doneUs' = now + d /\ UNCHANGED <<now, level>>
      BY <2>2 DEF BeginWrite
    <3>3. /\ owed' \subseteq Nat /\ wakeRefused' \in Flag
          /\ doneUs' \in owed' \/ wakeRefused' = "yes"
      BY <2>2, <3>1, <3>2 DEF BeginWrite, Granted, Refused, Flag
    <3>4. QED
      BY <1>a, <3>1, <3>2, <3>3 DEF EnvironmentTypeOK, WritingIsOwed, Flag
  <2>3. CASE BeginWrite("erase", EraseUs) /\ UNCHANGED <<page, pageAddress>>
    BY <1>a, <2>1, <2>2, <2>3
  <2>4. CASE /\ BeginWrite("program", ProgramUs)
             /\ pageAddress' = address /\ page' = staging
    BY <1>a, <2>1, <2>2, <2>4
  <2>5. CASE UNCHANGED <<environment, write, writeEnabled>>
    BY <1>c, <1>e, <2>1, <2>5
  <2>6. QED
    BY <1>2, <2>3, <2>4, <2>5 DEF Release, FinishCommand
<1>3. ASSUME NEW c \in Commands, CommandByte(c)
      PROVE  LineOK' /\ WriteOK' /\ RestOK'
  BY <1>3, <1>a, <1>c DEF CommandByte, Flag
<1>4. ASSUME NEW a \in 0..Size, AddressByte(a)
      PROVE  LineOK' /\ WriteOK' /\ RestOK'
  BY <1>4, <1>a, <1>c, <1>e DEF AddressByte
<1>5. CASE ReadByte
  <2>1. address' \in 0..Size
    BY <1>5, <1>a DEF ReadByte
  <2>2. QED
    BY <1>5, <1>a, <1>c, <1>e, <2>1 DEF ReadByte
<1>6. ASSUME NEW v \in Values, ProgramByte(v)
      PROVE  LineOK' /\ WriteOK' /\ RestOK'
  <2>1. staging' \in Bytes
    BY <1>6, <1>a, OneByteMore DEF ProgramByte
  <2>2. QED
    BY <1>6, <1>a, <1>c, <1>e, <2>1 DEF ProgramByte
<1>7. CASE AdvanceTo
  <2>1. /\ now' \in Nat /\ now' >= now
        /\ owed' = {w \in owed : w > now'} /\ level' = level
        /\ UNCHANGED <<line, doneUs, pageAddress, wakeRefused, writeEnabled>>
    BY <1>7, <1>a
       DEF AdvanceTo, Advances, Time!Advance, EnvironmentTypeOK
  <2>2. EnvironmentTypeOK'
    BY <1>a, <2>1 DEF EnvironmentTypeOK
  <2>3. CASE busy = "yes" /\ now' >= doneUs
    <3>1. /\ memory' \in [Cells -> Values]
          /\ busy' = "no" /\ pending' = "nothing" /\ page' = <<>>
      BY <1>7, <2>3, ChangeType DEF AdvanceTo, FinishWrite, FlashInv
    <3>2. QED
      BY <1>a, <1>d, <2>1, <2>2, <3>1, EmptyBytes DEF WritingIsOwed, Flag
  <2>4. CASE ~ (busy = "yes" /\ now' >= doneUs)
    <3>1. UNCHANGED <<memory, busy, pending, page>>
      BY <1>7, <2>4 DEF AdvanceTo, FinishWrite
    <3>2. busy = "yes" /\ doneUs \in owed => doneUs \in owed'
      BY <1>a, <2>1, <2>4
    <3>3. QED
      BY <1>a, <1>d, <1>e, <2>1, <2>2, <3>1, <3>2 DEF WritingIsOwed
  <2>5. QED
    BY <2>3, <2>4
<1>8. CASE Elsewhere
  <2>1. UNCHANGED flash
    BY <1>8 DEF Elsewhere
  <2>2. now \in Nat /\ owed \subseteq Nat /\ level \in 0..MaxLevel
    BY <1>a DEF EnvironmentTypeOK
  <2>3. CASE Waits
    <3>1. now' \in Nat /\ UNCHANGED <<owed, level>>
      BY <2>2, <2>3 DEF Waits, Time!Pass, Time!Overtake
    <3>2. QED
      BY <1>a, <1>d, <1>e, <2>1, <2>2, <3>1
         DEF flash, write, WritingIsOwed, EnvironmentTypeOK
  <2>4. CASE CallbackBegins \/ CallbackEnds
    <3>1. level' \in 0..MaxLevel /\ UNCHANGED <<now, owed>>
      BY <2>2, <2>4 DEF CallbackBegins, CallbackEnds
    <3>2. QED
      BY <1>a, <1>d, <1>e, <2>1, <2>2, <3>1
         DEF flash, write, WritingIsOwed, EnvironmentTypeOK
  <2>5. QED
    BY <1>8, <2>3, <2>4 DEF Elsewhere
<1>9. CASE PowerCycle
  <2>1. ASSUME UNCHANGED environment PROVE EnvironmentTypeOK'
    BY <1>a, <2>1 DEF environment, EnvironmentTypeOK
  <2>2. ASSUME ClockRestarts PROVE EnvironmentTypeOK'
    BY <1>a, <2>2 DEF ClockRestarts, Time!Restart, EnvironmentTypeOK
  <2>3. EnvironmentTypeOK' /\ FlashReset
    BY <1>9, <2>1, <2>2 DEF PowerCycle
  <2>4. QED
    BY <1>a, <2>3, EmptyBytes DEF FlashReset, WritingIsOwed, Flag
<1>10. CASE UNCHANGED flashVars
  BY <1>10, <1>c, <1>d, <1>e DEF flashVars, flash
<1>11. QED
  BY <1>1, <1>2, <1>3, <1>4, <1>5, <1>6, <1>7, <1>8, <1>9, <1>10 DEF FlashNext

\* The types of everything, for any constants.
THEOREM FlashTypeCorrect == FlashSpec => []FlashTypeOK
<1>1. FlashInv => FlashTypeOK
  BY DEF FlashInv
<1>2. QED
  BY <1>1, FlashInitially, FlashStep, PTL DEF FlashSpec

\* While a write is under way its moment is owed, unless it was refused.
THEOREM WriteIsOwed == FlashSpec => []WritingIsOwed
<1>1. FlashInv => WritingIsOwed
  BY DEF FlashInv
<1>2. QED
  BY <1>1, FlashInitially, FlashStep, PTL DEF FlashSpec

Punctual ==
  busy = "yes" /\ busy' = "no" /\ ~ PowerCycle =>
    \/ now' = doneUs
    \/ now' > doneUs /\ (wakeRefused = "yes" \/ now >= doneUs)

LEMMA WriteEnds == FlashInv /\ FlashNext => Punctual
<1> SUFFICES ASSUME FlashInv, FlashNext,
                    busy = "yes", busy' = "no", ~ PowerCycle
             PROVE  \/ now' = doneUs
                    \/ /\ now' > doneUs
                       /\ wakeRefused = "yes" \/ now >= doneUs
  BY DEF Punctual
<1>1. AdvanceTo
  BY DEF FlashNext, Select, Release, FinishCommand, BeginWrite, CommandByte,
         AddressByte, ReadByte, ProgramByte, Elsewhere, write, flash
<1>2. /\ now \in Nat /\ now' \in Nat /\ doneUs \in Nat
      /\ \A w \in owed : w > now => w >= now'
      /\ doneUs \in owed \/ wakeRefused = "yes"
  BY <1>1, FlashAssumption, EnvironmentAssumption
     DEF AdvanceTo, Advances, Time!Advance, FlashInv, FlashTypeOK,
         EnvironmentTypeOK, WritingIsOwed
<1>3. now' >= doneUs
  BY <1>1 DEF AdvanceTo, FinishWrite
<1>4. QED
  BY <1>2, <1>3

\* A write is done at its moment, or late for one of the two reasons, and
\* never early.
THEOREM WriteOnTime == FlashSpec => WriteEndsWhenDue
<1>1. FlashInv /\ [FlashNext]_flashVars => [Punctual]_flashVars
  BY WriteEnds
<1>2. QED
  BY <1>1, FlashInitially, FlashStep, PTL
     DEF FlashSpec, WriteEndsWhenDue, Punctual

-----------------------------------------------------------------------------
(* Every step of the flash is a step of the array, or nothing to it. Two   *)
(* writes in a row are never confused: what the array is writing is read   *)
(* from the part itself, and changes when a write begins and ends only.    *)

Writing == IF busy = "yes" THEN Change ELSE <<>>

LEMMA FlashIsArrayInitially == FlashInit => Array!Init
BY DEF FlashInit, Array!Init

LEMMA ArrayStep ==
  FlashInv /\ [FlashNext]_flashVars => [Array!Next]_Array!vars
<1> SUFFICES ASSUME FlashInv, [FlashNext]_flashVars
             PROVE  [Array!Next]_Array!vars
  OBVIOUS
<1>a. ASSUME UNCHANGED <<write, memory>>,
             writeEnabled' = writeEnabled \/ writeEnabled' = "yes"
      PROVE  [Array!Next]_Array!vars
  BY <1>a DEF write, Array!vars, Array!Next, Array!Enable, Change
<1>1. CASE Select \/ ReadByte \/ Elsewhere \/ UNCHANGED flashVars
  BY <1>1, <1>a DEF Select, ReadByte, Elsewhere, flashVars, flash
<1>2. CASE Release
  <2>1. CASE UNCHANGED <<environment, write, writeEnabled>>
    BY <1>2, <1>a, <2>1 DEF Release
  <2>2. ASSUME Allowed, NEW kind, NEW d, BeginWrite(kind, d)
        PROVE  Array!Begin
    BY <1>2, <2>2 DEF Release, Allowed, BeginWrite, Array!Begin
  <2>3. QED
    BY <1>2, <2>1, <2>2 DEF Release, FinishCommand, Array!Next
<1>3. ASSUME NEW c \in Commands, CommandByte(c)
      PROVE  [Array!Next]_Array!vars
  BY <1>3, <1>a DEF CommandByte
<1>4. ASSUME NEW a \in 0..Size, AddressByte(a)
      PROVE  [Array!Next]_Array!vars
  BY <1>4, <1>a DEF AddressByte
<1>5. ASSUME NEW v \in Values, ProgramByte(v)
      PROVE  [Array!Next]_Array!vars
  BY <1>5, <1>a DEF ProgramByte
<1>6. CASE AdvanceTo
  <2>1. CASE busy = "yes" /\ now' >= doneUs
    <3>1. /\ DOMAIN memory = Cells
          /\ memory' = [a \in Cells |->
               IF a \in DOMAIN Change THEN Change[a] ELSE memory[a]]
          /\ busy' = "no" /\ writeEnabled' = writeEnabled
      BY <1>6, <2>1 DEF AdvanceTo, FinishWrite, FlashInv, FlashTypeOK
    <3>2. Array!Commit
      BY <2>1, <3>1 DEF Array!Commit
    <3>3. QED
      BY <3>2 DEF Array!Next
  <2>2. CASE ~ (busy = "yes" /\ now' >= doneUs)
    <3>1. UNCHANGED <<write, memory>> /\ writeEnabled' = writeEnabled
      BY <1>6, <2>2 DEF AdvanceTo, FinishWrite, write
    <3>2. QED
      BY <1>a, <3>1
  <2>3. QED
    BY <2>1, <2>2
<1>7. CASE PowerCycle
  BY <1>7 DEF PowerCycle, FlashReset, Array!Next, Array!PowerCycle
<1>8. QED
  BY <1>1, <1>2, <1>3, <1>4, <1>5, <1>6, <1>7 DEF FlashNext

\* The flash implements the programmable array.
THEOREM FlashIsAnArray == FlashSpec => KeepsArray
BY FlashInitially, FlashStep, FlashIsArrayInitially, ArrayStep, PTL
   DEF FlashSpec, KeepsArray, Array!Spec

-----------------------------------------------------------------------------
(* The inertial unit.                                                      *)

ImuInv ==
  /\ ImuTypeOK /\ ImuIsOwed /\ ImuKeepsGrid /\ ImuTellsTheTruth
  /\ imuTold <= imuLost

LEMMA ImuFresh == EnvironmentTypeOK /\ ImuInit => ImuInv
BY ImuAssumption
   DEF ImuInit, ImuInv, ImuTypeOK, ImuIsOwed, ImuKeepsGrid, ImuTellsTheTruth,
       ImuRegisters, Flag

LEMMA ImuStep ==
  EnvironmentTypeOK /\ ImuInv /\ ImuNext => EnvironmentTypeOK' /\ ImuInv'
<1> USE ImuAssumption
<1> SUFFICES ASSUME EnvironmentTypeOK, ImuInv, ImuNext
             PROVE  EnvironmentTypeOK' /\ ImuInv'
  OBVIOUS
<1>a. /\ now \in Nat /\ owed \subseteq Nat
      /\ imuReg \in ImuRegisters /\ imuSampling \in Flag
      /\ imuCount \in 0..ImuDepth /\ imuOverflow \in Flag
      /\ imuIrq \in {"low", "high"} /\ imuRefused \in Flag
      /\ imuNext \in Nat /\ imuTaken \in Nat /\ imuLost \in Nat
      /\ imuStarted \in Nat /\ imuBefore \in Nat /\ imuTold \in Nat
      /\ ImuSampleUs \in Nat
  BY DEF EnvironmentTypeOK, ImuInv, ImuTypeOK
<1>1. ASSUME NEW r \in ImuRegisters, ImuSelect(r)
      PROVE  EnvironmentTypeOK' /\ ImuInv'
  BY <1>1 DEF ImuSelect, environment, imuLine, imuFifo, ImuSamples, Expected,
     EnvironmentTypeOK, ImuInv, ImuTypeOK, ImuIsOwed, ImuKeepsGrid,
     ImuTellsTheTruth
<1>2. CASE ImuStart
  <2>1. /\ UNCHANGED <<now, level, imuCount, imuIrq, imuTaken, imuOverflow,
                       imuLost, imuTold>>
        /\ imuReg' = "control" /\ imuSampling' = "yes"
    BY <1>2 DEF ImuStart, imuFifo
  <2>2. CASE imuSampling = "no"
    <3>1. /\ imuNext' = now + ImuSampleUs /\ imuStarted' = now
          /\ imuBefore' = ImuSamples /\ Asks(imuNext', owed, imuRefused)
      BY <1>2, <2>2 DEF ImuStart
    <3>2. /\ owed' \subseteq Nat /\ imuRefused' \in Flag
          /\ imuNext' \in owed' \/ imuRefused' = "yes" \/ imuNext' <= now'
      <4>1. imuNext' \in Nat /\ now' \in Nat
        BY <1>a, <2>1, <3>1
      <4>2. QED
        BY <1>a, <3>1, <4>1, AskedIsExpected DEF Asks
    <3>3. ImuSamples' = ImuSamples /\ ImuSamples \in Nat
      BY <1>a, <2>1 DEF ImuSamples
    <3>4. ImuKeepsGrid'
      <4>1. (ImuSamples - ImuSamples + 1) * ImuSampleUs = ImuSampleUs
        BY <1>a, <3>3
      <4>2. QED
        BY <1>a, <3>1, <3>3, <4>1 DEF ImuKeepsGrid
    <3>5. ImuTypeOK'
      BY <1>a, <2>1, <3>1, <3>2, <3>3 DEF ImuTypeOK, ImuRegisters, Flag
    <3>6. QED
      BY <2>1, <3>2, <3>4, <3>5, StandingTime
         DEF ImuInv, ImuIsOwed, ImuTellsTheTruth, Expected
  <2>3. CASE imuSampling # "no"
    <3>1. UNCHANGED <<owed, imuNext, imuRefused, imuStarted, imuBefore>>
          /\ imuSampling = "yes"
      BY <1>2, <1>a, <2>3 DEF ImuStart, Flag
    <3>2. QED
      BY <1>a, <2>1, <3>1 DEF EnvironmentTypeOK, ImuInv, ImuTypeOK, ImuIsOwed,
         ImuKeepsGrid, ImuTellsTheTruth, ImuSamples, ImuRegisters, Expected
  <2>4. QED
    BY <2>2, <2>3
<1>3. CASE ImuStop
  BY <1>3, <1>a DEF ImuStop, environment, imuFifo, EnvironmentTypeOK, ImuInv,
     ImuTypeOK, ImuIsOwed, ImuKeepsGrid, ImuTellsTheTruth, ImuRegisters, Flag
<1>4. CASE ImuReadStatus
  BY <1>4, <1>a DEF ImuReadStatus, environment, imuLine, imuFifo, ImuSamples,
     EnvironmentTypeOK, ImuInv, ImuTypeOK, ImuIsOwed, ImuKeepsGrid,
     ImuTellsTheTruth, Expected, Flag
<1>5. ASSUME NEW n \in 1..ImuDepth, ImuReadFifo(n)
      PROVE  EnvironmentTypeOK' /\ ImuInv'
  <2>1. /\ imuCount' = imuCount - n /\ imuTaken' = imuTaken + n
        /\ imuCount' \in 0..ImuDepth /\ imuTaken' \in Nat
        /\ imuIrq' = IF imuCount' >= ImuWatermark THEN "high" ELSE "low"
        /\ UNCHANGED <<now, owed, level, imuReg, imuSampling, imuNext,
                       imuRefused, imuStarted, imuBefore, imuOverflow,
                       imuLost, imuTold>>
    BY <1>5, <1>a DEF ImuReadFifo, UpdateIrq, environment, imuLine
  <2>2. ImuSamples' = ImuSamples
    BY <1>a, <2>1 DEF ImuSamples
  <2>3. QED
    BY <1>a, <2>1, <2>2 DEF EnvironmentTypeOK, ImuInv, ImuTypeOK, ImuIsOwed,
       ImuKeepsGrid, ImuTellsTheTruth, Expected
<1>6. CASE ImuAdvance
  <2>1. PICK n \in 0..Horizon + 1, kept \in 0..ImuDepth :
          /\ ImuTake(n)
          /\ kept <= n /\ imuCount + kept <= ImuDepth
          /\ imuCount' = imuCount + kept /\ imuLost' = imuLost + (n - kept)
          /\ imuOverflow' = IF kept < n THEN "yes" ELSE imuOverflow
    BY <1>6 DEF ImuAdvance
  <2>2. /\ imuIrq' = IF imuCount' >= ImuWatermark THEN "high" ELSE "low"
        /\ Asks(imuNext', StillOwed, imuRefused)
        /\ imuSampling = "yes" /\ Serves
        /\ UNCHANGED <<imuReg, imuSampling, imuTaken, imuStarted, imuBefore,
                       imuTold>>
    BY <1>6 DEF ImuAdvance, UpdateIrq
  <2>3. /\ n \in Nat /\ kept \in Nat /\ imuNext' = imuNext + n * ImuSampleUs
        /\ imuCount' \in 0..ImuDepth /\ imuLost' \in Nat
        /\ ImuSamples \in Nat /\ ImuSamples' = ImuSamples + n
    BY <1>a, <2>1, <2>2, EnvironmentAssumption DEF ImuTake, ImuSamples
  <2>4. /\ imuNext' = imuStarted + (ImuSamples' - imuBefore + 1) * ImuSampleUs
        /\ imuNext' \in Nat
    <3>1. /\ ImuSamples - imuBefore + 1 \in Int
          /\ ImuSamples - imuBefore + 1 + n = ImuSamples' - imuBefore + 1
          /\ imuNext = imuStarted + (ImuSamples - imuBefore + 1) * ImuSampleUs
      BY <1>a, <2>2, <2>3 DEF ImuInv, ImuKeepsGrid
    <3>2. QED
      BY <1>a, <2>3, <3>1, GridStep
  <2>5. /\ owed' \subseteq Nat /\ imuRefused' \in Flag
        /\ imuNext' \in owed' \/ imuRefused' = "yes" \/ imuNext' <= now'
    BY <2>2, <2>4, AskedIsExpected, AdvanceTime DEF Asks
  <2>6. EnvironmentTypeOK'
    BY <2>2, <2>5, AdvanceTypes
  <2>7. ImuTypeOK'
    BY <1>a, <2>1, <2>2, <2>3, <2>4, <2>5 DEF ImuTypeOK, Flag
  <2>8. ImuTellsTheTruth' /\ imuTold' <= imuLost'
    BY <1>a, <2>1, <2>2, <2>3 DEF ImuInv, ImuTellsTheTruth, Flag
  <2>9. QED
    BY <2>2, <2>4, <2>5, <2>6, <2>7, <2>8
       DEF ImuInv, ImuIsOwed, ImuKeepsGrid, Expected
<1>7. CASE ImuIdle
  <2>1. UNCHANGED <<imuReg, imuSampling, imuNext, imuCount, imuOverflow,
                    imuIrq, imuTaken, imuLost, imuRefused, imuStarted,
                    imuBefore, imuTold>>
    BY <1>7 DEF ImuIdle, imu, imuLine, imuFifo
  <2>2. ImuTypeOK' /\ ImuKeepsGrid' /\ ImuTellsTheTruth' /\ imuTold' <= imuLost'
    BY <2>1 DEF ImuInv, ImuTypeOK, ImuKeepsGrid, ImuTellsTheTruth, ImuSamples
  <2>3. CASE PassesBy
    BY <1>a, <2>1, <2>2, <2>3, PassingTime
       DEF ImuInv, ImuIsOwed, Expected, EnvironmentTypeOK
  <2>4. CASE imuSampling = "no" /\ Advances
    BY <2>1, <2>2, <2>4, AdvanceTime, AdvanceTypes DEF ImuInv, ImuIsOwed
  <2>5. QED
    BY <1>7, <2>3, <2>4 DEF ImuIdle
<1>8. CASE ImuReset
  BY <1>8, RepoweringTime DEF ImuReset, ImuInv, ImuTypeOK, ImuIsOwed,
     ImuKeepsGrid, ImuTellsTheTruth, ImuRegisters, Flag
<1>9. QED
  BY <1>1, <1>2, <1>3, <1>4, <1>5, <1>6, <1>7, <1>8 DEF ImuNext

-----------------------------------------------------------------------------
(* The real-time clock.                                                    *)

\* The clock was set in the past.
RtcInv ==
  /\ RtcTypeOK /\ RtcIsOwed
  /\ rtcBaseUs <= now

LEMMA AlarmIsAMoment == RtcTypeOK => AlarmUs \in Nat
<1> SUFFICES ASSUME RtcTypeOK PROVE AlarmUs \in Nat
  OBVIOUS
<1>1. /\ rtcBaseUs \in Nat /\ rtcAlarm - rtcBaseSec \in Int
      /\ RtcWrap \in Nat \ {0} /\ RtcSecondUs \in Nat
  BY RtcAssumption DEF RtcTypeOK, Seconds
<1>2. (rtcAlarm - rtcBaseSec) % RtcWrap \in Nat
  BY <1>1
<1>3. ((rtcAlarm - rtcBaseSec) % RtcWrap) * RtcSecondUs \in Nat
  BY <1>1, <1>2
<1>4. QED
  BY <1>1, <1>3 DEF AlarmUs

LEMMA RtcFresh == EnvironmentTypeOK /\ RtcInit => RtcInv
BY RtcAssumption
   DEF RtcInit, RtcInv, RtcTypeOK, RtcIsOwed, Seconds, Flag, EnvironmentTypeOK

\* An alarm that is armed is owed from then on, for the clock as it is then.
LEMMA ArmedIsOwed ==
  ASSUME EnvironmentTypeOK, RtcInv, UNCHANGED <<now, level>>, ArmAlarm,
         {rtcBased', rtcSet', rtcFired'} \subseteq Flag, rtcBaseUs' \in Nat,
         {rtcBaseSec', rtcAlarm'} \subseteq Seconds, rtcBaseUs' <= now
  PROVE  EnvironmentTypeOK' /\ RtcInv'
<1>0. now \in Nat /\ owed \subseteq Nat /\ rtcRefused \in Flag
  BY DEF EnvironmentTypeOK, RtcInv, RtcTypeOK
<1>1. AlarmUs' \in Nat
  <2>1. /\ rtcBaseUs' \in Nat /\ rtcAlarm' - rtcBaseSec' \in Int
        /\ RtcWrap \in Nat \ {0} /\ RtcSecondUs \in Nat
    BY RtcAssumption DEF Seconds
  <2>2. (rtcAlarm' - rtcBaseSec') % RtcWrap \in Nat
    BY <2>1
  <2>3. ((rtcAlarm' - rtcBaseSec') % RtcWrap) * RtcSecondUs \in Nat
    BY <2>1, <2>2
  <2>4. QED
    BY <2>1, <2>3 DEF AlarmUs
<1>2. CASE rtcSet' = "yes" /\ rtcBased' = "yes"
  <2>1. Asks(AlarmUs', owed, rtcRefused)
    BY <1>2 DEF ArmAlarm
  <2>2. /\ owed' \subseteq Nat /\ rtcRefused' \in Flag
        /\ AlarmUs' \in owed' \/ rtcRefused' = "yes" \/ AlarmUs' <= now'
    BY <1>0, <1>1, <2>1, AskedIsExpected DEF Asks
  <2>3. QED
    BY <2>2, StandingTime DEF RtcInv, RtcTypeOK, RtcIsOwed, Expected
<1>3. CASE ~ (rtcSet' = "yes" /\ rtcBased' = "yes")
  <2>1. UNCHANGED <<owed, rtcRefused>>
    BY <1>3 DEF ArmAlarm
  <2>2. QED
    BY <1>0, <1>3, <2>1, StandingTime DEF RtcInv, RtcTypeOK, RtcIsOwed
<1>4. QED
  BY <1>2, <1>3

LEMMA RtcStep ==
  EnvironmentTypeOK /\ RtcInv /\ RtcNext => EnvironmentTypeOK' /\ RtcInv'
<1> SUFFICES ASSUME EnvironmentTypeOK, RtcInv, RtcNext
             PROVE  EnvironmentTypeOK' /\ RtcInv'
  OBVIOUS
<1>a. /\ now \in Nat /\ owed \subseteq Nat
      /\ {rtcBased, rtcSet, rtcFired, rtcRefused} \subseteq Flag
      /\ {rtcBaseSec, rtcAlarm} \subseteq Seconds /\ rtcBaseUs \in Nat
      /\ rtcBaseUs <= now
  BY DEF EnvironmentTypeOK, RtcInv, RtcTypeOK
<1>1. ASSUME NEW s \in Seconds, RtcSetTime(s)
      PROVE  EnvironmentTypeOK' /\ RtcInv'
  BY <1>1, <1>a, ArmedIsOwed DEF RtcSetTime, RtcInv, Flag
<1>2. ASSUME NEW s \in Seconds, RtcSetAlarm(s)
      PROVE  EnvironmentTypeOK' /\ RtcInv'
  <2>1. CASE rtcBased = "yes" /\ s <= NowSeconds(now)
    BY <1>2, <1>a, <2>1 DEF RtcSetAlarm, rtcBase, EnvironmentTypeOK, RtcInv,
       RtcTypeOK, RtcIsOwed, AlarmUs, Expected
  <2>2. CASE ~ (rtcBased = "yes" /\ s <= NowSeconds(now))
    BY <1>2, <1>a, <2>2, ArmedIsOwed DEF RtcSetAlarm, rtcBase, RtcInv, Flag
  <2>3. QED
    BY <2>1, <2>2
<1>b. ASSUME now' \in Nat, now' >= now, StillOwed \subseteq owed',
             UNCHANGED <<rtcBase, rtcAlarm, rtcRefused>>,
             {rtcSet', rtcFired'} \subseteq Flag,
             rtcSet' = "yes" => rtcSet = "yes"
      PROVE  RtcInv'
  <2>1. AlarmUs' = AlarmUs /\ AlarmUs \in Nat
    BY <1>b, AlarmIsAMoment DEF AlarmUs, rtcBase, RtcInv
  <2>2. RtcIsOwed'
    BY <1>b, <2>1, StaysExpected DEF RtcInv, RtcIsOwed, Expected, rtcBase
  <2>3. QED
    BY <1>a, <1>b, <2>2 DEF RtcInv, RtcTypeOK, rtcBase
<1>3. CASE RtcAdvance
  <2>1. /\ UNCHANGED <<rtcBase, rtcAlarm, rtcRefused>>
        /\ {rtcSet', rtcFired'} \subseteq Flag
        /\ rtcSet' = "yes" => rtcSet = "yes"
    BY <1>3, <1>a DEF RtcAdvance, RtcRing, Flag
  <2>2. Advances
    BY <1>3 DEF RtcAdvance
  <2>3. QED
    BY <1>b, <2>1, <2>2, AdvanceTime, AdvanceTypes
<1>4. CASE RtcIdle
  <2>1. /\ EnvironmentTypeOK' /\ now' >= now /\ StillOwed \subseteq owed'
        /\ UNCHANGED <<rtcBase, rtcAlarm, rtcRefused, rtcSet, rtcFired>>
    BY <1>4, PassingTime DEF RtcIdle, rtc, StillOwed
  <2>2. QED
    BY <1>a, <1>b, <2>1 DEF EnvironmentTypeOK
<1>5. CASE RtcReset
  BY <1>5, RepoweringTime, RtcAssumption DEF RtcReset, RtcInv, RtcTypeOK,
     RtcIsOwed, Seconds, Flag, EnvironmentTypeOK
<1>6. QED
  BY <1>1, <1>2, <1>3, <1>4, <1>5 DEF RtcNext

\* The clock has come to the alarm only when the time has.
LEMMA RingingTime ==
  ASSUME NEW base \in Nat, NEW alarm \in Nat, base <= alarm,
         NEW wrap \in Nat \ {0}, alarm < wrap,
         NEW second \in Nat \ {0}, NEW e \in Nat,
         (base + e \div second) % wrap >= alarm
  PROVE  e >= ((alarm - base) % wrap) * second
<1>1. e \div second \in Nat /\ (e \div second) * second <= e
  OBVIOUS
<1>2. (base + e \div second) % wrap <= base + e \div second
  BY <1>1
<1>3. (alarm - base) % wrap = alarm - base
  OBVIOUS
<1>4. e \div second >= alarm - base /\ alarm - base \in Nat
  BY <1>1, <1>2
<1>5. \A x, y \in Nat : x >= y => x * second >= y * second
  OBVIOUS
<1>6. QED
  BY <1>1, <1>3, <1>4, <1>5

LEMMA RtcEnds ==
  EnvironmentTypeOK /\ RtcInv /\ RtcNext =>
    (rtcFired = "no" /\ rtcFired' = "yes" =>
       OnTime(AlarmUs, rtcRefused) \/ rtcAlarm < rtcBaseSec)
<1> SUFFICES ASSUME EnvironmentTypeOK, RtcInv, RtcNext,
                    rtcFired = "no", rtcFired' = "yes",
                    ~ (rtcAlarm < rtcBaseSec)
             PROVE  OnTime(AlarmUs, rtcRefused)
  OBVIOUS
<1>1. RtcAdvance
  BY DEF RtcNext, RtcSetTime, RtcSetAlarm, RtcIdle, rtc, RtcReset
<1>2. /\ Advances /\ rtcSet = "yes" /\ rtcBased = "yes"
      /\ (rtcBaseSec + (now' - rtcBaseUs) \div RtcSecondUs) % RtcWrap >= rtcAlarm
  BY <1>1 DEF RtcAdvance, RtcRing, NowSeconds
<1>3. /\ rtcBaseUs \in Nat /\ now' \in Nat /\ rtcBaseUs <= now'
      /\ rtcBaseSec \in Nat /\ rtcAlarm \in Nat
      /\ rtcAlarm < RtcWrap /\ rtcBaseSec <= rtcAlarm
      /\ RtcWrap \in Nat \ {0} /\ RtcSecondUs \in Nat \ {0}
  BY <1>2, AdvanceTime, RtcAssumption
     DEF RtcInv, RtcTypeOK, Seconds, EnvironmentTypeOK
<1>4. now' - rtcBaseUs >= ((rtcAlarm - rtcBaseSec) % RtcWrap) * RtcSecondUs
  <2>1. now' - rtcBaseUs \in Nat
    <3>1. rtcBaseUs \in Nat /\ now' \in Nat /\ rtcBaseUs <= now'
      BY <1>3
    <3>2. PICK t \in Nat : now' = t
      BY <3>1
    <3>3. QED
      BY <3>1, <3>2
  <2>2. (rtcBaseSec + (now' - rtcBaseUs) \div RtcSecondUs) % RtcWrap >= rtcAlarm
    BY <1>2
  <2> DEFINE e == now' - rtcBaseUs
  <2> HIDE DEF e
  <2>3. e \in Nat
    BY <2>1 DEF e
  <2>4. (rtcBaseSec + e \div RtcSecondUs) % RtcWrap >= rtcAlarm
    BY <2>2 DEF e
  <2>5. e >= ((rtcAlarm - rtcBaseSec) % RtcWrap) * RtcSecondUs
    BY <1>3, <2>3, <2>4, RingingTime
  <2>6. QED
    BY <2>5 DEF e
<1>5. AlarmUs \in Nat
  BY AlarmIsAMoment DEF RtcInv
<1>6. ((rtcAlarm - rtcBaseSec) % RtcWrap) * RtcSecondUs \in Int
  BY <1>3
<1>7. now' >= AlarmUs
  BY <1>3, <1>4, <1>6 DEF AlarmUs
<1>8. QED
  BY <1>2, <1>5, <1>7, EndsInTime DEF RtcInv, RtcIsOwed

-----------------------------------------------------------------------------
(* The ultrasonic ranger.                                                  *)

\* An echo ends its own width after it rose.
SonicInv ==
  /\ SonicTypeOK /\ SonicIsOwed
  /\ sonicPhase = "echoing" => sonicDue = sonicRose + sonicMeant

LEMMA SonicFresh == EnvironmentTypeOK /\ SonicInit => SonicInv
BY SonicAssumption DEF SonicInit, SonicInv, SonicTypeOK, SonicIsOwed, Flag

LEMMA SonicStep ==
  EnvironmentTypeOK /\ SonicInv /\ SonicNext => EnvironmentTypeOK' /\ SonicInv'
<1> SUFFICES ASSUME EnvironmentTypeOK, SonicInv, SonicNext
             PROVE  EnvironmentTypeOK' /\ SonicInv'
  OBVIOUS
<1>a. /\ now \in Nat /\ owed \subseteq Nat
      /\ sonicPhase \in {"idle", "waiting", "echoing"}
      /\ sonicDue \in Nat /\ sonicRose \in Nat /\ sonicRefused \in Flag
      /\ sonicWidth \in SonicWidths /\ sonicMeant \in SonicWidths
      /\ SonicWidths \subseteq Nat /\ SonicDelayUs \in Nat
  BY SonicAssumption DEF EnvironmentTypeOK, SonicInv, SonicTypeOK
<1>1. ASSUME NEW w \in SonicWidths, SonicRange(w)
      PROVE  EnvironmentTypeOK' /\ SonicInv'
  BY <1>1 DEF SonicRange, environment, EnvironmentTypeOK, SonicInv, SonicTypeOK,
     SonicIsOwed, Expected
<1>2. CASE SonicTrigger
  <2>1. /\ sonicPhase' = "waiting" /\ sonicDue' = now + SonicDelayUs
        /\ UNCHANGED <<now, level, sonicWidth, sonicRose, sonicMeant>>
        /\ Asks(sonicDue', owed, sonicRefused)
    BY <1>2 DEF SonicTrigger
  <2>2. sonicDue' \in Nat /\ now' \in Nat
    BY <1>a, <2>1
  <2>3. /\ owed' \subseteq Nat /\ sonicRefused' \in Flag
        /\ sonicDue' \in owed' \/ sonicRefused' = "yes" \/ sonicDue' <= now'
    BY <1>a, <2>1, <2>2, AskedIsExpected DEF Asks
  <2>4. QED
    BY <1>a, <2>1, <2>2, <2>3, StandingTime
       DEF SonicInv, SonicTypeOK, SonicIsOwed, Expected
<1>3. CASE SonicAdvance
  <2>1. Serves /\ UNCHANGED sonicWidth /\ now' \in Nat /\ StillOwed \subseteq Nat
    BY <1>3, AdvanceTime DEF SonicAdvance
  <2>2. CASE SonicRise
    <3>1. /\ sonicPhase' = "echoing" /\ sonicDue' = now' + sonicWidth
          /\ Asks(sonicDue', StillOwed, sonicRefused)
          /\ sonicRose' = now' /\ sonicMeant' = sonicWidth
      BY <2>2 DEF SonicRise
    <3>2. sonicDue' \in Nat
      <4>1. sonicWidth \in Nat
        BY <1>a
      <4>2. PICK t \in Nat : now' = t
        BY <2>1
      <4>3. QED
        BY <3>1, <4>1, <4>2
    <3>3. /\ owed' \subseteq Nat /\ sonicRefused' \in Flag
          /\ sonicDue' \in owed' \/ sonicRefused' = "yes" \/ sonicDue' <= now'
      BY <2>1, <3>1, <3>2, AskedIsExpected DEF Asks
    <3>4. QED
      BY <1>a, <2>1, <3>1, <3>2, <3>3, AdvanceTypes
         DEF SonicInv, SonicTypeOK, SonicIsOwed, Expected
  <2>3. CASE SonicFall
    <3>1. /\ sonicPhase' = "idle" /\ owed' = StillOwed
          /\ UNCHANGED <<sonicDue, sonicRefused, sonicRose, sonicMeant>>
      BY <2>3 DEF SonicFall
    <3>2. EnvironmentTypeOK'
      BY <2>1, <3>1, AdvanceTypes
    <3>3. QED
      BY <1>a, <2>1, <3>1, <3>2 DEF SonicInv, SonicTypeOK, SonicIsOwed
  <2>4. QED
    BY <1>3, <2>2, <2>3 DEF SonicAdvance
<1>4. CASE SonicIdle
  <2>1. UNCHANGED <<sonicPhase, sonicDue, sonicWidth, sonicRefused, sonicRose,
                    sonicMeant>>
    BY <1>4 DEF SonicIdle, sonic
  <2>2. EnvironmentTypeOK' /\ now' >= now /\ StillOwed \subseteq owed'
    BY <1>4, PassingTime, AdvanceTime, AdvanceTypes DEF SonicIdle, StillOwed
  <2>3. sonicPhase # "idle" => Expected(sonicDue, sonicRefused)'
    BY <1>a, <2>1, <2>2, StaysExpected
       DEF SonicInv, SonicIsOwed, Expected, EnvironmentTypeOK
  <2>4. QED
    BY <1>a, <2>1, <2>2, <2>3 DEF SonicInv, SonicTypeOK, SonicIsOwed
<1>5. CASE SonicReset
  BY <1>5, RepoweringTime, SonicAssumption
     DEF SonicReset, SonicInv, SonicTypeOK, SonicIsOwed, Flag
<1>6. QED
  BY <1>1, <1>2, <1>3, <1>4, <1>5 DEF SonicNext

LEMMA SonicEnds ==
  EnvironmentTypeOK /\ SonicInv /\ SonicNext =>
    (sonicPhase = "echoing" /\ sonicPhase' = "idle" /\ ~ SonicReset =>
       OnTime(sonicRose + sonicMeant, sonicRefused))
<1> SUFFICES ASSUME EnvironmentTypeOK, SonicInv, SonicNext, ~ SonicReset,
                    sonicPhase = "echoing", sonicPhase' = "idle"
             PROVE  OnTime(sonicRose + sonicMeant, sonicRefused)
  OBVIOUS
<1>1. Serves /\ now' >= sonicDue
  BY DEF SonicNext, SonicRange, SonicTrigger, SonicAdvance, SonicRise,
     SonicFall, SonicIdle, sonic
<1>2. /\ sonicDue = sonicRose + sonicMeant /\ sonicDue \in Nat
      /\ Expected(sonicDue, sonicRefused)
  BY DEF SonicInv, SonicTypeOK, SonicIsOwed
<1>3. QED
  BY <1>1, <1>2, EndsInTime

-----------------------------------------------------------------------------
(* The motion sensor.                                                      *)

\* The line falls a hold after the last motion.
PirInv ==
  /\ PirTypeOK /\ PirIsOwed
  /\ pirLine = "high" => pirRelease = pirMotion + PirHoldUs

LEMMA PirFresh == EnvironmentTypeOK /\ PirInit => PirInv
BY DEF PirInit, PirInv, PirTypeOK, PirIsOwed, Flag

LEMMA PirStep ==
  EnvironmentTypeOK /\ PirInv /\ PirNext => EnvironmentTypeOK' /\ PirInv'
<1> SUFFICES ASSUME EnvironmentTypeOK, PirInv, PirNext
             PROVE  EnvironmentTypeOK' /\ PirInv'
  OBVIOUS
<1>a. /\ now \in Nat /\ owed \subseteq Nat /\ PirHoldUs \in Nat
      /\ pirLine \in {"low", "high"} /\ pirRelease \in Nat
      /\ pirMotion \in Nat /\ pirRefused \in Flag
  BY PirAssumption DEF EnvironmentTypeOK, PirInv, PirTypeOK
<1>1. CASE PirMotion
  <2>1. /\ pirLine' = "high" /\ pirRelease' = now + PirHoldUs
        /\ pirMotion' = now /\ UNCHANGED <<now, level>>
        /\ Asks(pirRelease', owed, pirRefused)
    BY <1>1 DEF PirMotion
  <2>2. pirRelease' \in Nat /\ now' \in Nat
    BY <1>a, <2>1
  <2>3. /\ owed' \subseteq Nat /\ pirRefused' \in Flag
        /\ pirRelease' \in owed' \/ pirRefused' = "yes" \/ pirRelease' <= now'
    BY <1>a, <2>1, <2>2, AskedIsExpected DEF Asks
  <2>4. QED
    BY <1>a, <2>1, <2>2, <2>3, StandingTime
       DEF PirInv, PirTypeOK, PirIsOwed, Expected
<1>2. ASSUME EnvironmentTypeOK', now' >= now, StillOwed \subseteq owed',
             pirLine' \in {"low", pirLine},
             UNCHANGED <<pirRelease, pirRefused, pirMotion>>
      PROVE  PirInv'
  <2>1. pirLine' = "high" => Expected(pirRelease, pirRefused)'
    BY <1>a, <1>2, StaysExpected
       DEF PirInv, PirIsOwed, Expected, EnvironmentTypeOK
  <2>2. QED
    BY <1>a, <1>2, <2>1 DEF PirInv, PirTypeOK, PirIsOwed
<1>3. CASE PirAdvance
  BY <1>2, <1>3, AdvanceTime, AdvanceTypes DEF PirAdvance
<1>4. CASE PirIdle
  BY <1>2, <1>4, PassingTime DEF PirIdle, pir, StillOwed
<1>5. CASE PirReset
  BY <1>5, RepoweringTime DEF PirReset, PirInv, PirTypeOK, PirIsOwed, Flag
<1>6. QED
  BY <1>1, <1>3, <1>4, <1>5 DEF PirNext

LEMMA PirEnds ==
  EnvironmentTypeOK /\ PirInv /\ PirNext =>
    (pirLine = "high" /\ pirLine' = "low" /\ ~ PirReset =>
       OnTime(pirMotion + PirHoldUs, pirRefused))
<1> SUFFICES ASSUME EnvironmentTypeOK, PirInv, PirNext, ~ PirReset,
                    pirLine = "high", pirLine' = "low"
             PROVE  OnTime(pirMotion + PirHoldUs, pirRefused)
  OBVIOUS
<1>1. Advances /\ now' >= pirRelease
  BY DEF PirNext, PirMotion, PirAdvance, PirIdle, pir
<1>2. /\ pirRelease = pirMotion + PirHoldUs /\ pirRelease \in Nat
      /\ Expected(pirRelease, pirRefused)
  BY DEF PirInv, PirTypeOK, PirIsOwed
<1>3. QED
  BY <1>1, <1>2, EndsInTime

-----------------------------------------------------------------------------
(* The humidity sensor.                                                    *)

\* Results are numbered in the order they are measured: what is held was not
\* read, and is older than the measurement under way.
ShtInv ==
  /\ ShtTypeOK
  /\ shtHeld <= shtResult /\ shtLast <= shtResult
  /\ shtHolding = "yes" => shtHeld > shtLast
  /\ shtPending = "measurement" => shtResult > shtLast
  /\ shtHolding = "yes" /\ shtPending = "measurement" => shtHeld < shtResult

LEMMA ShtFresh == EnvironmentTypeOK /\ ShtInit => ShtInv
BY ShtAssumption DEF ShtInit, ShtInv, ShtTypeOK, Flag

LEMMA ShtStep ==
  EnvironmentTypeOK /\ ShtInv /\ ShtNext => EnvironmentTypeOK' /\ ShtInv'
<1> SUFFICES ASSUME EnvironmentTypeOK, ShtInv, ShtNext
             PROVE  EnvironmentTypeOK' /\ ShtInv'
  OBVIOUS
<1>a. /\ now \in Nat
      /\ shtPending \in {"nothing", "measurement", "status", "reset"}
      /\ shtReady \in Nat /\ shtStretch \in Flag
      /\ shtResult \in 0..ShtMax /\ shtHeld \in 0..ShtMax
      /\ shtLast \in 0..ShtMax /\ shtHolding \in Flag
      /\ shtAfterReset \in Flag /\ shtLimit \in ShtLimits
      /\ ShtMax \in Nat
  BY ShtAssumption DEF EnvironmentTypeOK, ShtInv, ShtTypeOK
<1>b. ASSUME UNCHANGED environment PROVE EnvironmentTypeOK'
  BY <1>b DEF environment, EnvironmentTypeOK
<1>1. ASSUME NEW d \in ShtDurations, NEW s \in Flag, ShtMeasure(d, s)
      PROVE  EnvironmentTypeOK' /\ ShtInv'
  <2>1. shtReady' \in Nat
    BY <1>1, <1>a, ShtAssumption DEF ShtMeasure
  <2>2. QED
    BY <1>1, <1>a, <1>b, <2>1 DEF ShtMeasure, ShtHold, ShtInv, ShtTypeOK, Flag
<1>2. CASE ShtSoftReset
  <2>1. shtReady' \in Nat
    BY <1>2, <1>a, ShtAssumption DEF ShtSoftReset
  <2>2. QED
    BY <1>2, <1>a, <1>b, <2>1 DEF ShtSoftReset, ShtHold, ShtInv, ShtTypeOK, Flag
<1>3. ASSUME NEW p \in {"nothing", "measurement", "status", "reset"},
             ShtCommand(p)
      PROVE  EnvironmentTypeOK' /\ ShtInv'
  BY <1>3, <1>a, <1>b DEF ShtCommand, shtResults, ShtInv, ShtTypeOK, Flag
<1>4. CASE ShtReadHeld
  BY <1>4, <1>a, <1>b DEF ShtReadHeld, ShtInv, ShtTypeOK, Flag
<1>5. CASE ShtReadResult
  BY <1>5, <1>a, <1>b DEF ShtReadResult, ShtInv, ShtTypeOK, Flag
<1>6. CASE ShtReadStatus
  BY <1>6, <1>a, <1>b DEF ShtReadStatus, shtResults, ShtInv, ShtTypeOK
<1>7. ASSUME NEW limit \in ShtLimits, ShtStretchLimit(limit)
      PROVE  EnvironmentTypeOK' /\ ShtInv'
  BY <1>7, <1>a, <1>b DEF ShtStretchLimit, shtResults, ShtInv, ShtTypeOK
<1>8. CASE ShtIdle
  <2>1. EnvironmentTypeOK'
    BY <1>8, PassingTime, AdvanceTime, AdvanceTypes DEF ShtIdle
  <2>2. QED
    BY <1>8, <1>a, <2>1 DEF ShtIdle, sht, shtResults, ShtInv, ShtTypeOK
<1>9. CASE ShtReset
  BY <1>9, <1>a, RepoweringTime DEF ShtReset, ShtInv, ShtTypeOK, Flag
<1>10. QED
  BY <1>1, <1>2, <1>3, <1>4, <1>5, <1>6, <1>7, <1>8, <1>9 DEF ShtNext

-----------------------------------------------------------------------------
(* The pressure sensor.                                                    *)

QmpInv == QmpTypeOK /\ QmpIsOwed /\ QmpKeepsSchedule

LEMMA QmpFresh == EnvironmentTypeOK /\ QmpInit => QmpInv
<1> SUFFICES ASSUME QmpInit PROVE QmpInv
  OBVIOUS
<1>1. /\ (CHOOSE c \in QmpConversions : TRUE) \in QmpConversions
      /\ (CHOOSE s \in QmpStandbys : TRUE) \in QmpStandbys
  BY QmpAssumption
<1>2. QED
  BY <1>1 DEF QmpInit, QmpInv, QmpTypeOK, QmpIsOwed, QmpKeepsSchedule, Flag

\* What catching up to t does, from an advance or from a read.
LEMMA CatchingUp ==
  ASSUME EnvironmentTypeOK, QmpInv, NEW left, left \subseteq Nat,
         now' \in Nat, now' >= now, StillOwed \subseteq left,
         QmpComplete(now', left),
         UNCHANGED <<qmpFirst, qmpConversion, qmpStandby>>
  PROVE  owed' \subseteq Nat /\ QmpInv'
<1>a. /\ now \in Nat /\ qmpMode \in {"sleep", "forced", "normal"}
      /\ qmpPending \in Flag /\ qmpRefused \in Flag
      /\ qmpStart \in Nat /\ qmpDue \in Nat /\ qmpFirst \in Nat
      /\ qmpTaken \in Nat
      /\ qmpConversion \in QmpConversions /\ qmpStandby \in QmpStandbys
  BY DEF EnvironmentTypeOK, QmpInv, QmpTypeOK
<1>b. QmpPeriod \in Nat /\ QmpPeriod' = QmpPeriod
  BY <1>a, QmpAssumption DEF QmpPeriod
<1>1. CASE qmpPending = "yes" /\ now' >= qmpDue /\ qmpMode = "normal"
  <2>1. PICK n \in 1..Horizon + 1 :
          /\ qmpStart' = qmpDue + (n - 1) * QmpPeriod
          /\ qmpDue' = qmpDue + n * QmpPeriod /\ qmpTaken' = qmpTaken + n
    BY <1>1 DEF QmpComplete
  <2>2. n \in Nat /\ n - 1 \in Nat
    BY EnvironmentAssumption
  <2>3. qmpDue = qmpFirst + qmpTaken * QmpPeriod
    BY <1>1 DEF QmpInv, QmpKeepsSchedule
  <2>4. /\ qmpDue' = qmpFirst + (qmpTaken + n) * QmpPeriod /\ qmpDue' \in Nat
        /\ qmpStart' \in Nat /\ qmpTaken' \in Nat
    BY <1>a, <1>b, <2>1, <2>2, <2>3, GridStep
  <2>5. /\ Asks(qmpDue', left, qmpRefused) /\ UNCHANGED <<qmpMode, qmpPending>>
    BY <1>1 DEF QmpComplete
  <2>6. /\ owed' \subseteq Nat /\ qmpRefused' \in Flag
        /\ qmpDue' \in owed' \/ qmpRefused' = "yes" \/ qmpDue' <= now'
    BY <2>4, <2>5, AskedIsExpected DEF Asks
  <2>7. QmpKeepsSchedule'
    BY <1>b, <2>1, <2>4 DEF QmpKeepsSchedule
  <2>8. QED
    BY <1>a, <2>4, <2>5, <2>6, <2>7
       DEF QmpInv, QmpTypeOK, QmpIsOwed, Expected
<1>2. CASE ~ (qmpPending = "yes" /\ now' >= qmpDue /\ qmpMode = "normal")
  <2>1. /\ owed' = left
        /\ \/ qmpMode' = "sleep" /\ qmpPending' = "no"
           \/ UNCHANGED <<qmpMode, qmpPending>>
        /\ UNCHANGED <<qmpStart, qmpDue, qmpRefused, qmpTaken>>
    BY <1>2 DEF QmpComplete
  <2>2. QmpTypeOK'
    BY <1>a, <2>1 DEF QmpTypeOK, Flag
  <2>3. QmpIsOwed'
    BY <1>a, <2>1, StaysExpected DEF QmpInv, QmpIsOwed, Expected
  <2>4. QmpKeepsSchedule'
    BY <1>b, <2>1 DEF QmpInv, QmpKeepsSchedule
  <2>5. QED
    BY <2>1, <2>2, <2>3, <2>4 DEF QmpInv
<1>3. QED
  BY <1>1, <1>2

\* A cycle that begins has taken nothing yet.
LEMMA CycleBegins ==
  ASSUME NEW period \in Nat, qmpDue' \in Nat, qmpFirst' = qmpDue',
         qmpTaken' = 0, QmpPeriod' = period
  PROVE  QmpKeepsSchedule'
<1>1. PICK due \in Nat : qmpDue' = due
  OBVIOUS
<1>2. 0 * period = 0 /\ due + 0 = due
  BY <1>1
<1>3. qmpDue' = qmpFirst' + qmpTaken' * QmpPeriod'
  BY <1>1, <1>2
<1>4. QED
  BY <1>3 DEF QmpKeepsSchedule

LEMMA QmpStep ==
  EnvironmentTypeOK /\ QmpInv /\ QmpNext => EnvironmentTypeOK' /\ QmpInv'
<1> SUFFICES ASSUME EnvironmentTypeOK, QmpInv, QmpNext
             PROVE  EnvironmentTypeOK' /\ QmpInv'
  OBVIOUS
<1>a. /\ now \in Nat /\ owed \subseteq Nat
      /\ qmpMode \in {"sleep", "forced", "normal"}
      /\ qmpPending \in Flag /\ qmpRefused \in Flag
      /\ qmpStart \in Nat /\ qmpDue \in Nat /\ qmpFirst \in Nat
      /\ qmpTaken \in Nat
      /\ qmpConversion \in QmpConversions /\ qmpStandby \in QmpStandbys
      /\ QmpConversions \subseteq Nat /\ QmpStandbys \subseteq Nat
  BY QmpAssumption DEF EnvironmentTypeOK, QmpInv, QmpTypeOK
<1>1. ASSUME NEW c \in QmpConversions, QmpSleep(c)
      PROVE  EnvironmentTypeOK' /\ QmpInv'
  BY <1>1, <1>a DEF QmpSleep, environment, EnvironmentTypeOK, QmpInv,
     QmpTypeOK, QmpIsOwed, QmpKeepsSchedule, Flag
<1>2. ASSUME NEW mode \in {"forced", "normal"}, NEW c \in QmpConversions,
             QmpConvert(mode, c)
      PROVE  EnvironmentTypeOK' /\ QmpInv'
  <2>1. /\ qmpMode' = mode /\ qmpPending' = "yes" /\ qmpConversion' = c
        /\ qmpTaken' = 0 /\ UNCHANGED <<now, level, qmpStandby>>
    BY <1>2 DEF QmpConvert
  <2>2. QmpPeriod' \in Nat
    BY <1>a, <2>1 DEF QmpPeriod
  <2>a. PICK period \in Nat : QmpPeriod' = period
    BY <2>2
  <2>3. CASE qmpPending = "yes" /\ qmpMode = "forced" /\ mode = "normal"
    <3>1. UNCHANGED <<owed, qmpStart, qmpDue, qmpRefused>> /\ qmpFirst' = qmpDue
      BY <1>2, <2>3 DEF QmpConvert
    <3>2. QmpKeepsSchedule'
      BY <1>a, <2>1, <2>a, <3>1, CycleBegins
    <3>3. QmpTypeOK'
      BY <1>a, <2>1, <2>3, <3>1 DEF QmpTypeOK, Flag
    <3>4. QmpIsOwed'
      BY <2>1, <2>3, <3>1 DEF QmpInv, QmpIsOwed, Expected
    <3>5. QED
      BY <1>a, <2>1, <3>1, <3>2, <3>3, <3>4, StandingTime DEF QmpInv
  <2>4. CASE ~ (qmpPending = "yes" /\ qmpMode = "forced" /\ mode = "normal")
    <3>1. /\ qmpStart' = now /\ qmpDue' = now + c /\ qmpFirst' = qmpDue'
          /\ Asks(qmpDue', owed, qmpRefused)
      BY <1>2, <2>4 DEF QmpConvert
    <3>2. qmpDue' \in Nat /\ now' \in Nat
      BY <1>a, <2>1, <3>1
    <3>3. /\ owed' \subseteq Nat /\ qmpRefused' \in Flag
          /\ qmpDue' \in owed' \/ qmpRefused' = "yes" \/ qmpDue' <= now'
      BY <1>a, <3>1, <3>2, AskedIsExpected DEF Asks
    <3>4. QmpKeepsSchedule'
      BY <2>1, <2>a, <3>1, <3>2, CycleBegins
    <3>5. QmpTypeOK'
      <4>1. now' \in Nat /\ qmpStart' \in Nat /\ qmpFirst' \in Nat
        BY <1>a, <2>1, <3>1, <3>2
      <4>2. QED
        BY <1>a, <2>1, <3>2, <3>3, <4>1 DEF QmpTypeOK, Flag
    <3>6. QmpIsOwed'
      BY <3>3 DEF QmpIsOwed, Expected
    <3>7. QED
      BY <2>1, <3>3, <3>4, <3>5, <3>6, StandingTime DEF QmpInv
  <2>5. QED
    BY <2>3, <2>4
<1>3. ASSUME NEW s \in QmpStandbys, QmpSetup(s)
      PROVE  EnvironmentTypeOK' /\ QmpInv'
  <2>1. QmpPeriod' \in Nat
    BY <1>3, <1>a DEF QmpSetup, QmpPeriod
  <2>2. PICK period \in Nat : QmpPeriod' = period
    BY <2>1
  <2>3. /\ qmpStandby' = s /\ qmpFirst' = qmpDue /\ qmpTaken' = 0
        /\ UNCHANGED <<now, owed, level, qmpMode, qmpPending, qmpStart, qmpDue,
                      qmpRefused, qmpConversion>>
    BY <1>3 DEF QmpSetup, environment
  <2>4. QmpKeepsSchedule'
    BY <1>a, <2>2, <2>3, CycleBegins
  <2>5. QmpTypeOK' /\ EnvironmentTypeOK'
    BY <1>a, <2>3 DEF QmpTypeOK, EnvironmentTypeOK
  <2>6. QmpIsOwed'
    BY <2>3 DEF QmpInv, QmpIsOwed, Expected
  <2>7. QED
    BY <2>4, <2>5, <2>6 DEF QmpInv
<1>4. CASE QmpAdvance
  <2>1. /\ Serves /\ QmpComplete(now', StillOwed)
        /\ UNCHANGED <<qmpFirst, qmpConversion, qmpStandby>>
    BY <1>4 DEF QmpAdvance
  <2>2. QED
    BY <2>1, AdvanceTime, AdvanceTypes, CatchingUp
<1>5. CASE QmpRead
  <2>1. /\ now' = now /\ level' = level
        /\ QmpComplete(now', owed) /\ StillOwed \subseteq owed
        /\ UNCHANGED <<qmpFirst, qmpConversion, qmpStandby>>
    BY <1>5 DEF QmpRead, StillOwed
  <2>2. now' \in Nat /\ now' >= now
    BY <1>a, <2>1
  <2>3. owed' \subseteq Nat /\ QmpInv'
    BY <1>a, <2>1, <2>2, CatchingUp
  <2>4. QED
    BY <2>1, <2>3, StandingTime
<1>6. CASE QmpIdle
  <2>1. EnvironmentTypeOK' /\ now' >= now /\ StillOwed \subseteq owed'
    BY <1>6, PassingTime DEF QmpIdle, StillOwed
  <2>2. UNCHANGED <<qmpMode, qmpPending, qmpStart, qmpDue, qmpRefused, qmpFirst,
                    qmpTaken, qmpConversion, qmpStandby>>
    BY <1>6 DEF QmpIdle, qmp, qmpCycle
  <2>3. QmpIsOwed'
    BY <1>a, <2>1, <2>2, StaysExpected
       DEF QmpInv, QmpIsOwed, Expected, EnvironmentTypeOK
  <2>4. QED
    BY <1>a, <2>1, <2>2, <2>3 DEF QmpInv, QmpTypeOK, QmpKeepsSchedule, QmpPeriod
<1>7. CASE QmpReset
  <2>1. /\ (CHOOSE c \in QmpConversions : TRUE) \in QmpConversions
        /\ (CHOOSE s \in QmpStandbys : TRUE) \in QmpStandbys
    BY QmpAssumption
  <2>2. QED
    BY <1>7, <2>1, RepoweringTime DEF QmpReset, QmpCleared, QmpInv, QmpTypeOK,
       QmpIsOwed, QmpKeepsSchedule, Flag
<1>8. QED
  BY <1>1, <1>2, <1>3, <1>4, <1>5, <1>6, <1>7 DEF QmpNext

-----------------------------------------------------------------------------
(* The SD card.                                                            *)

\* A transfer is under way, from the command on that named its block.
SdTransfers ==
  \/ sdPhase \in {"read", "wait", "write", "busy"}
  \/ sdPhase = "reply" /\ sdAfter # "command"

\* A transfer points at the block that was named, or at the one the director
\* filled since; a block is written when all of it is there.
SdInv ==
  /\ SdTypeOK /\ SdIsOwed
  /\ SdTransfers =>
       sdBlock \in 0..SdBlocks - 1 /\ (sdMoved = "no" => sdBlock = sdTarget)
  /\ sdPhase = "busy" => Len(sdStaging) = SdBlockSize

LEMMA SdNumbers ==
  /\ SdBlocks \in Nat \ {0} /\ SdBlockSize \in Nat \ {0}
  /\ SdByte \in Nat \ {0} /\ SdWriteUs \in Nat \ {0}
BY SdAssumption

LEMMA SdFresh == EnvironmentTypeOK /\ SdInit => SdInv
<1> SUFFICES ASSUME SdInit PROVE SdInv
  OBVIOUS
<1>1. sdStore \in [0..SdBlocks - 1 -> SdContent]
  BY SdNumbers DEF SdInit, SdContent, SdBytes
<1>2. sdStaging \in Seq(SdBytes) /\ Len(sdStaging) = 0
  BY EmptySeq DEF SdInit
<1>3. QED
  BY <1>1, <1>2, SdNumbers
     DEF SdInit, SdInv, SdTypeOK, SdIsOwed, SdTransfers, Flag

\* A whole block's worth of bytes is a block.
LEMMA StagedBlock ==
  ASSUME SdInv, sdPhase = "busy"
  PROVE  sdStaging \in SdContent
<1>1. /\ sdStaging \in Seq(SdBytes) /\ Len(sdStaging) = SdBlockSize
  BY DEF SdInv, SdTypeOK
<1>2. QED
  BY <1>1, LenProperties DEF SdContent

\* A step of the application: no time passes and no block changes.
LEMMA SdLineStep ==
  ASSUME EnvironmentTypeOK, SdInv, UNCHANGED <<environment, sdStore, sdDone, sdRefused>>,
         {sdSelected', sdReady', sdMoved'} \subseteq Flag,
         sdPhase' \in {"idle", "command", "reply", "read", "wait", "write", "busy"},
         sdAfter' \in {"command", "read", "wait"},
         sdBlock' \in 0..SdBlocks, sdTarget' \in 0..SdBlocks - 1,
         sdOffset' \in 0..SdBlockSize + 2,
         sdStaging' \in Seq(SdBytes), Len(sdStaging') <= SdBlockSize,
         sdPhase' = "busy" => sdPhase = "busy" /\ sdStaging' = sdStaging,
         SdTransfers' => /\ sdBlock' \in 0..SdBlocks - 1
                         /\ sdMoved' = "no" => sdBlock' = sdTarget'
  PROVE  EnvironmentTypeOK' /\ SdInv'
<1>1. EnvironmentTypeOK'
  BY DEF environment, EnvironmentTypeOK
<1>2. SdTypeOK'
  BY DEF SdInv, SdTypeOK
<1>3. SdIsOwed'
  BY DEF SdInv, SdIsOwed, Expected, environment
<1>4. QED
  BY <1>1, <1>2, <1>3 DEF SdInv

LEMMA SdStep ==
  EnvironmentTypeOK /\ SdInv /\ SdNext => EnvironmentTypeOK' /\ SdInv'
<1> SUFFICES ASSUME EnvironmentTypeOK, SdInv, SdNext
             PROVE  EnvironmentTypeOK' /\ SdInv'
  OBVIOUS
<1> USE SdNumbers
<1>a. /\ now \in Nat /\ owed \subseteq Nat
      /\ {sdSelected, sdReady, sdRefused, sdMoved} \subseteq Flag
      /\ sdPhase \in {"idle", "command", "reply", "read", "wait", "write", "busy"}
      /\ sdAfter \in {"command", "read", "wait"}
      /\ sdBlock \in 0..SdBlocks /\ sdTarget \in 0..SdBlocks - 1
      /\ sdOffset \in 0..SdBlockSize + 2
      /\ sdStaging \in Seq(SdBytes) /\ Len(sdStaging) <= SdBlockSize
      /\ sdDone \in Nat /\ sdStore \in [0..SdBlocks - 1 -> SdContent]
  BY DEF EnvironmentTypeOK, SdInv, SdTypeOK
<1>b. SdTransfers =>
        sdBlock \in 0..SdBlocks - 1 /\ (sdMoved = "no" => sdBlock = sdTarget)
  BY DEF SdInv
<1>1. CASE SdSelect
  BY <1>1, <1>a, <1>b, SdLineStep
     DEF SdSelect, sdWrite, sdTransfer, SdTransfers, Flag
<1>2. ASSUME NEW op \in SdOps, NEW b \in 0..SdBlocks, SdCommand(op, b)
      PROVE  EnvironmentTypeOK' /\ SdInv'
  <2>1. CASE op \in {"read", "write"} /\ sdReady = "yes" /\ b < SdBlocks
    <3>1. /\ b \in 0..SdBlocks - 1 /\ sdTarget' = b /\ sdBlock' = b
          /\ sdMoved' = "no" /\ sdOffset' = 0
      BY <1>2, <2>1 DEF SdCommand
    <3>2. QED
      BY <1>2, <1>a, <2>1, <3>1, SdLineStep DEF SdCommand, sdWrite, Flag
  <2>2. CASE ~ (op \in {"read", "write"} /\ sdReady = "yes" /\ b < SdBlocks)
    <3>1. ~ SdTransfers'
      BY <1>2, <2>2 DEF SdCommand, SdTransfers
    <3>2. QED
      BY <1>2, <1>a, <2>2, <3>1, SdLineStep DEF SdCommand, sdWrite, Flag
  <2>3. QED
    BY <2>1, <2>2
<1>3. CASE SdReply
  <2>1. SdTransfers' => SdTransfers
    BY <1>3 DEF SdReply, SdTransfers
  <2>2. UNCHANGED <<sdBlock, sdTarget, sdMoved, sdStaging, sdDone, sdRefused,
                    environment, sdStore, sdSelected, sdAfter, sdReady>>
        /\ sdPhase' = sdAfter /\ sdOffset' = 0
    BY <1>3 DEF SdReply, sdWrite, sdTransfer
  <2>3. QED
    BY <1>a, <1>b, <2>1, <2>2, SdLineStep
<1>4. CASE SdReadByte
  <2>1. /\ UNCHANGED <<sdBlock, sdTarget, sdMoved, sdStaging, sdDone, sdRefused,
                       environment, sdStore, sdSelected, sdAfter, sdReady>>
        /\ sdPhase = "read" /\ sdPhase' \in {"read", "command"}
    BY <1>4 DEF SdReadByte, sdWrite, sdTransfer
  <2>2. SdTransfers' => SdTransfers
    BY <2>1 DEF SdTransfers
  <2>3. sdOffset' \in 0..SdBlockSize + 2
    <3>1. sdOffset + 1 \in Nat /\ SdBlockSize + 3 \in Nat \ {0}
      BY <1>a
    <3>2. (sdOffset + 1) % (SdBlockSize + 3) \in 0..SdBlockSize + 2
      BY <3>1
    <3>3. QED
      BY <1>4, <3>2 DEF SdReadByte
  <2>4. QED
    BY <1>a, <1>b, <2>1, <2>2, <2>3, SdLineStep
<1>5. CASE SdStartToken
  <2>1. /\ UNCHANGED <<sdBlock, sdTarget, sdMoved, sdDone, sdRefused, sdOffset,
                       environment, sdStore, sdSelected, sdAfter, sdReady>>
        /\ sdPhase = "wait" /\ sdPhase' = "write" /\ sdStaging' = <<>>
    BY <1>5 DEF SdStartToken, sdTransfer
  <2>2. SdTransfers
    BY <2>1 DEF SdTransfers
  <2>3. sdStaging' \in Seq(SdBytes) /\ Len(sdStaging') = 0
    BY <2>1, EmptySeq
  <2>4. QED
    BY <1>a, <1>b, <2>1, <2>2, <2>3, SdLineStep
<1>6. ASSUME NEW v \in SdBytes, SdWriteByte(v)
      PROVE  EnvironmentTypeOK' /\ SdInv'
  <2>1. /\ UNCHANGED <<sdBlock, sdTarget, sdMoved, sdDone, sdRefused, sdOffset,
                       environment, sdStore, sdSelected, sdPhase, sdAfter, sdReady>>
        /\ sdPhase = "write" /\ sdStaging' = Append(sdStaging, v)
        /\ Len(sdStaging) < SdBlockSize
    BY <1>6 DEF SdWriteByte, sdTransfer
  <2>2. SdTransfers
    BY <2>1 DEF SdTransfers
  <2>3. sdStaging' \in Seq(SdBytes) /\ Len(sdStaging') <= SdBlockSize
    <3>1. Len(sdStaging) \in Nat
      BY <1>a, LenProperties
    <3>2. /\ Append(sdStaging, v) \in Seq(SdBytes)
          /\ Len(Append(sdStaging, v)) = Len(sdStaging) + 1
      BY <1>a, AppendProperties
    <3>3. QED
      BY <2>1, <3>1, <3>2
  <2>4. QED
    BY <1>a, <1>b, <2>1, <2>2, <2>3, SdLineStep
<1>7. CASE SdAccept
  <2>1. /\ UNCHANGED <<now, level, sdSelected, sdAfter, sdReady, sdOffset, sdStore,
                       sdStaging, sdBlock, sdTarget, sdMoved>>
        /\ sdPhase = "write" /\ sdPhase' = "busy"
        /\ Len(sdStaging) = SdBlockSize
        /\ sdDone' = now + SdWriteUs /\ Asks(sdDone', owed, sdRefused)
    BY <1>7 DEF SdAccept, sdTransfer
  <2>2. sdDone' \in Nat /\ now' \in Nat
    BY <1>a, <2>1
  <2>3. /\ owed' \subseteq Nat /\ sdRefused' \in Flag
        /\ sdDone' \in owed' \/ sdRefused' = "yes" \/ sdDone' <= now'
    BY <1>a, <2>1, <2>2, AskedIsExpected DEF Asks
  <2>4. EnvironmentTypeOK'
    BY <2>1, <2>3, StandingTime
  <2>5. SdTypeOK'
    BY <1>a, <2>1, <2>2, <2>3 DEF SdTypeOK
  <2>6. QED
    BY <1>b, <2>1, <2>3, <2>4, <2>5
       DEF SdInv, SdIsOwed, Expected, SdTransfers
<1>8. ASSUME EnvironmentTypeOK', now' >= now, StillOwed \subseteq owed',
             UNCHANGED <<sdSelected, sdAfter, sdReady, sdOffset, sdStaging,
                         sdDone, sdRefused, sdBlock, sdTarget, sdMoved>>,
             \/ UNCHANGED <<sdPhase, sdStore>>
             \/ /\ sdPhase' \in {"command", "idle"}
                /\ sdStore' \in [0..SdBlocks - 1 -> SdContent]
      PROVE  SdInv'
  <2>1. SdTypeOK'
    BY <1>a, <1>8 DEF SdTypeOK
  <2>2. sdPhase' = "busy" => sdPhase = "busy"
    BY <1>8
  <2>3. SdIsOwed'
    BY <1>a, <1>8, <2>2, StaysExpected
       DEF SdInv, SdIsOwed, Expected, EnvironmentTypeOK
  <2>4. SdTransfers' => SdTransfers
    BY <1>8 DEF SdTransfers
  <2>5. QED
    BY <1>8, <2>1, <2>2, <2>3, <2>4 DEF SdInv
<1>9. CASE SdAdvance
  <2>1. EnvironmentTypeOK' /\ now' >= now /\ StillOwed \subseteq owed'
    BY <1>9, AdvanceTime, AdvanceTypes DEF SdAdvance
  <2>2. CASE sdPhase = "busy" /\ now' >= sdDone
    <3>1. sdStaging \in SdContent /\ SdTransfers
      BY <2>2, StagedBlock DEF SdTransfers
    <3>2. /\ sdStore' = [sdStore EXCEPT ![sdBlock] = sdStaging]
          /\ sdPhase' \in {"command", "idle"}
      BY <1>9, <2>2 DEF SdAdvance, SdCommit
    <3>3. sdStore' \in [0..SdBlocks - 1 -> SdContent]
      BY <1>a, <1>b, <3>1, <3>2
    <3>4. QED
      BY <1>8, <1>9, <2>1, <3>2, <3>3 DEF SdAdvance, sdWrite, sdTransfer
  <2>3. CASE ~ (sdPhase = "busy" /\ now' >= sdDone)
    BY <1>8, <1>9, <2>1, <2>3 DEF SdAdvance, SdCommit, sdWrite, sdTransfer
  <2>4. QED
    BY <2>2, <2>3
<1>10. ASSUME NEW b \in 0..SdBlocks - 1, NEW v \in SdBytes, SdFill(b, v)
       PROVE  EnvironmentTypeOK' /\ SdInv'
  <2>1. [i \in 1..SdBlockSize |-> (v + i - 1) % SdByte] \in SdContent
    <3>1. ASSUME NEW i \in 1..SdBlockSize
          PROVE  (v + i - 1) % SdByte \in SdBytes
      BY DEF SdBytes
    <3>2. QED
      BY <3>1 DEF SdContent
  <2>2. sdStore' \in [0..SdBlocks - 1 -> SdContent]
    BY <1>10, <1>a, <2>1 DEF SdFill
  <2>3. /\ UNCHANGED <<environment, sdSelected, sdPhase, sdAfter, sdReady,
                       sdOffset, sdStaging, sdDone, sdRefused, sdTarget>>
        /\ sdBlock' = b /\ sdMoved' = IF b = sdTarget THEN sdMoved ELSE "yes"
    BY <1>10 DEF SdFill, sdWrite
  <2>4. SdTypeOK'
    BY <1>a, <2>2, <2>3 DEF SdTypeOK, Flag
  <2>5. sdBlock' \in 0..SdBlocks - 1 /\ (sdMoved' = "no" => sdBlock' = sdTarget')
    BY <2>3
  <2>6. QED
    BY <2>3, <2>4, <2>5 DEF SdInv, SdIsOwed, Expected, environment,
       EnvironmentTypeOK
<1>11. CASE SdIdle
  <2>1. /\ EnvironmentTypeOK' /\ now' >= now /\ StillOwed \subseteq owed'
    BY <1>11, PassingTime DEF SdIdle, StillOwed
  <2>2. QED
    BY <1>8, <1>11, <2>1 DEF SdIdle, sd, sdWrite, sdTransfer
<1>12. CASE SdReset
  <2>1. /\ sdStaging' \in Seq(SdBytes) /\ Len(sdStaging') = 0
        /\ sdStore' = sdStore /\ EnvironmentTypeOK'
    BY <1>12, EmptySeq, RepoweringTime DEF SdReset
  <2>2. SdTypeOK'
    BY <1>12, <1>a, <2>1 DEF SdReset, SdTypeOK, Flag
  <2>3. QED
    BY <1>12, <2>1, <2>2 DEF SdReset, SdInv, SdIsOwed, SdTransfers
<1>13. QED
  BY <1>1, <1>2, <1>3, <1>4, <1>5, <1>6, <1>7, <1>9, <1>10, <1>11, <1>12
     DEF SdNext

SdOneStep ==
  /\ SdWriteEnds =>
       /\ OnTime(sdDone, sdRefused)
       /\ \E b \in 0..SdBlocks - 1 :
            /\ sdStore' = [sdStore EXCEPT ![b] = sdStaging]
            /\ sdMoved = "no" => b = sdTarget
  /\ sdStore' # sdStore =>
       \/ sdPhase = "busy" /\ sdPhase' # "busy"
       \/ \E b \in 0..SdBlocks - 1, v \in SdBytes : SdFill(b, v)

LEMMA SdEnds == EnvironmentTypeOK /\ SdInv /\ SdNext => SdOneStep
<1> SUFFICES ASSUME EnvironmentTypeOK, SdInv, SdNext PROVE SdOneStep
  OBVIOUS
<1>1. CASE SdAdvance
  <2>1. CASE sdPhase = "busy" /\ now' >= sdDone
    <3>1. /\ sdBlock \in 0..SdBlocks - 1 /\ (sdMoved = "no" => sdBlock = sdTarget)
          /\ Expected(sdDone, sdRefused) /\ sdDone \in Nat
      BY <2>1 DEF SdInv, SdTransfers, SdIsOwed, SdTypeOK
    <3>2. OnTime(sdDone, sdRefused)
      BY <1>1, <2>1, <3>1, EndsInTime DEF SdAdvance
    <3>3. /\ sdStore' = [sdStore EXCEPT ![sdBlock] = sdStaging]
          /\ sdPhase' # "busy"
      BY <1>1, <2>1 DEF SdAdvance, SdCommit
    <3>4. QED
      BY <2>1, <3>1, <3>2, <3>3 DEF SdOneStep, SdWriteEnds
  <2>2. CASE ~ (sdPhase = "busy" /\ now' >= sdDone)
    BY <1>1, <2>2 DEF SdAdvance, SdCommit, SdOneStep, SdWriteEnds
  <2>3. QED
    BY <2>1, <2>2
<1>2. ASSUME NEW b \in 0..SdBlocks - 1, NEW v \in SdBytes, SdFill(b, v)
      PROVE  SdOneStep
  <2>1. sdPhase' = sdPhase
    BY <1>2 DEF SdFill
  <2>2. QED
    BY <1>2, <2>1 DEF SdOneStep, SdWriteEnds
<1>3. CASE SdReset
  <2>1. sdStore' = sdStore
    BY <1>3 DEF SdReset
  <2>2. QED
    BY <1>3, <2>1 DEF SdOneStep, SdWriteEnds
<1>4. ASSUME sdStore' = sdStore, sdPhase = "busy" => sdPhase' = "busy"
      PROVE  SdOneStep
  BY <1>4 DEF SdOneStep, SdWriteEnds
<1>5. QED
  BY <1>1, <1>2, <1>3, <1>4
     DEF SdNext, SdSelect, SdCommand, SdReply, SdReadByte, SdStartToken,
         SdWriteByte, SdAccept, SdIdle, sd

-----------------------------------------------------------------------------
(* The tape.                                                               *)

\* Only the first step can be current and not armed, and the time of one
\* that is armed is reckoned from when it was begun.
TapeInv ==
  /\ TapeTypeOK /\ TapeIsOwed /\ tapeBegan <= now
  /\ tapeArmed = "yes" =>
       /\ TapeTimed(tapeStep)
       /\ tapeDue = tapeBegan + TapeSteps[tapeStep].delay
  /\ tapeArmed = "no" /\ TapeTimed(tapeStep) => tapeStep = 1

LEMMA TapeLength == Len(TapeSteps) \in Nat
BY TapeAssumption

LEMMA TapeFields ==
  ASSUME NEW i \in Nat, 1 <= i, i <= Len(TapeSteps)
  PROVE  TapeSteps[i].length \in Nat \ {0} /\ TapeSteps[i].delay \in Nat
<1> DEFINE Steps == [kind : TapeKinds, length : Nat \ {0}, delay : Nat]
<1>1. TapeSteps \in Seq(Steps)
  BY TapeAssumption
<1>2. i \in 1..Len(TapeSteps)
  BY TapeLength
<1> HIDE DEF Steps
<1>3. TapeSteps[i] \in Steps
  BY <1>1, <1>2, ElementOfSeq
<1>4. QED
  BY <1>3 DEF Steps

\* A step of some kind is a step of the tape.
LEMMA TapeAtIsAStep ==
  ASSUME NEW i \in 1..Len(TapeSteps) + 1, NEW kinds, TapeAt(i, kinds)
  PROVE  /\ i \in Nat /\ i <= Len(TapeSteps) /\ i + 1 \in 1..Len(TapeSteps) + 1
         /\ TapeSteps[i].length \in Nat \ {0} /\ TapeSteps[i].delay \in Nat
<1>1. /\ i \in Nat /\ 1 <= i /\ i <= Len(TapeSteps)
      /\ i + 1 \in 1..Len(TapeSteps) + 1
  BY TapeLength DEF TapeAt
<1>2. QED
  BY <1>1, TapeFields

\* A step that is begun has bytes to come.
LEMMA TapeHasBytes ==
  ASSUME NEW i \in 1..Len(TapeSteps) + 1, i <= Len(TapeSteps)
  PROVE  0 < TapeSteps[i].length
<1>1. i \in Nat /\ 1 <= i
  BY TapeLength
<1>2. TapeSteps[i].length \in Nat \ {0}
  BY <1>1, TapeFields
<1>3. QED
  BY <1>2

\* What every action sees of the tape.
LEMMA TapeTypes ==
  ASSUME EnvironmentTypeOK, TapeInv
  PROVE  /\ now \in Nat /\ owed \subseteq Nat
         /\ tapeStep \in 1..Len(TapeSteps) + 1 /\ tapeStep \in Nat
         /\ tapeProgress \in Nat
         /\ tapeArmed \in Flag /\ tapeRefused \in Flag
         /\ tapeDue \in Nat /\ tapeBegan \in Nat /\ tapeBegan <= now
BY TapeLength DEF EnvironmentTypeOK, TapeInv, TapeTypeOK

LEMMA TapeFresh == EnvironmentTypeOK /\ TapeInit => TapeInv
<1>1. 1 <= Len(TapeSteps) => 0 < TapeSteps[1].length
  BY TapeLength, TapeHasBytes
<1>2. QED
  BY <1>1, TapeLength DEF EnvironmentTypeOK, TapeInit, TapeInv, TapeTypeOK,
     TapeIsOwed, Flag

\* A step is armed as the current one.
LEMMA ArmingTape ==
  ASSUME EnvironmentTypeOK, TapeInv, NEW i \in 1..Len(TapeSteps) + 1,
         NEW t \in Nat, NEW left, left \subseteq Nat, now' = t,
         tapeStep' = i, tapeProgress' \in Nat,
         i <= Len(TapeSteps) => tapeProgress' < TapeSteps[i].length,
         tapeAsked' \in TapeKinds \cup {"none"}, TapeArm(i, t, left)
  PROVE  owed' \subseteq Nat /\ TapeInv'
<1>a. /\ tapeDue \in Nat /\ tapeRefused \in Flag
  BY TapeTypes
<1>b. /\ tapeBegan' = t
      /\ tapeArmed' = IF TapeTimed(i) THEN "yes" ELSE "no"
      /\ tapeDue' = IF TapeTimed(i) THEN t + TapeSteps[i].delay ELSE tapeDue
      /\ TapeAt(i, {"serialOut"}) => Asks(tapeDue', left, tapeRefused)
      /\ ~ TapeAt(i, {"serialOut"}) => owed' = left /\ tapeRefused' = tapeRefused
  BY DEF TapeArm
<1>c. TapeTimed(i) => TapeSteps[i].delay \in Nat
  BY TapeAtIsAStep DEF TapeTimed
<1>d. tapeDue' \in Nat /\ now' \in Nat /\ tapeArmed' \in Flag
  <2>1. TapeTimed(i) => t + TapeSteps[i].delay \in Nat
    BY <1>c
  <2>2. QED
    BY <1>a, <1>b, <2>1 DEF Flag
<1>e. tapeBegan' <= now'
  <2>1. tapeBegan' = now'
    BY <1>b
  <2>2. PICK s \in Nat : now' = s
    OBVIOUS
  <2>3. QED
    BY <2>1, <2>2
<1>f. tapeArmed' = "yes" =>
        TapeTimed(i) /\ tapeDue' = tapeBegan' + TapeSteps[i].delay
  BY <1>b
<1>g. tapeArmed' = "no" => ~ TapeTimed(i)
  BY <1>b
<1>1. CASE TapeAt(i, {"serialOut"})
  <2>1. /\ owed' \subseteq Nat /\ tapeRefused' \in Flag
        /\ tapeDue' \in owed' \/ tapeRefused' = "yes" \/ tapeDue' <= now'
    BY <1>1, <1>b, <1>d, AskedIsExpected DEF Asks
  <2>2. TapeTypeOK' /\ TapeIsOwed'
    BY <1>b, <1>d, <2>1 DEF TapeTypeOK, TapeIsOwed, Expected
  <2>3. QED
    BY <1>e, <1>f, <1>g, <2>1, <2>2 DEF TapeInv
<1>2. CASE ~ TapeAt(i, {"serialOut"})
  <2>1. TapeTypeOK' /\ TapeIsOwed'
    BY <1>2, <1>a, <1>b, <1>d DEF TapeTypeOK, TapeIsOwed, TapeAt
  <2>2. QED
    BY <1>2, <1>b, <1>e, <1>f, <1>g, <2>1 DEF TapeInv
<1>3. QED
  BY <1>1, <1>2

LEMMA GoingToTape ==
  ASSUME EnvironmentTypeOK, TapeInv, NEW i \in 1..Len(TapeSteps) + 1,
         NEW t \in Nat, NEW left, left \subseteq Nat, now' = t,
         tapeAsked' \in TapeKinds \cup {"none"}, TapeGoTo(i, t, left)
  PROVE  owed' \subseteq Nat /\ TapeInv'
<1>1. tapeStep' = i /\ tapeProgress' = 0 /\ TapeArm(i, t, left)
  BY DEF TapeGoTo
<1>2. i <= Len(TapeSteps) => 0 < TapeSteps[i].length
  BY TapeHasBytes
<1>3. QED
  BY <1>1, <1>2, ArmingTape

\* The steps that an advance sends are steps of the tape.
LEMMA TapeSendsSteps ==
  ASSUME EnvironmentTypeOK, TapeInv, NEW n \in 0..Len(TapeSteps), n > 0,
         \A k \in 0..n - 1 : TapeSendsAt(k)
  PROVE  tapeStep + n \in 1..Len(TapeSteps) + 1
<1>1. n - 1 \in 0..n - 1 /\ n \in Nat
  BY TapeLength
<1>2. TapeSendsAt(n - 1)
  BY <1>1
<1>3. tapeStep + (n - 1) <= Len(TapeSteps)
  BY <1>2 DEF TapeSendsAt, TapeAt
<1>4. QED
  BY <1>1, <1>3, TapeTypes, TapeLength

\* A byte is counted while there are more to come.
LEMMA OneByteFewer ==
  ASSUME NEW p \in Nat, NEW n \in Nat, ~ (p + 1 >= n)
  PROVE  p + 1 \in Nat /\ p + 1 < n
OBVIOUS

\* A step that leaves the tape as it is: what was due stays so.
LEMMA LeavingTape ==
  ASSUME EnvironmentTypeOK, TapeInv, UNCHANGED tapeState,
         tapeAsked' \in TapeKinds \cup {"none"},
         now' \in Nat, now' >= now, StillOwed \subseteq owed'
  PROVE  TapeInv'
<1>a. /\ tapeDue \in Nat /\ tapeBegan \in Nat /\ now \in Nat /\ tapeBegan <= now
  BY TapeTypes
<1>1. UNCHANGED <<tapeStep, tapeProgress, tapeArmed, tapeDue, tapeRefused,
                  tapeBegan>>
  BY DEF tapeState, tapeTime
<1>2. TapeTypeOK'
  BY <1>1 DEF TapeInv, TapeTypeOK
<1>3. TapeIsOwed'
  BY <1>a, <1>1, StaysExpected DEF TapeInv, TapeIsOwed, TapeAt, Expected
<1>4. tapeBegan' <= now'
  BY <1>a, <1>1
<1>5. QED
  BY <1>1, <1>2, <1>3, <1>4 DEF TapeInv

LEMMA TapeStep ==
  EnvironmentTypeOK /\ TapeInv /\ TapeNext => EnvironmentTypeOK' /\ TapeInv'
<1> SUFFICES ASSUME EnvironmentTypeOK, TapeInv, TapeNext
             PROVE  EnvironmentTypeOK' /\ TapeInv'
  OBVIOUS
<1>a. /\ now \in Nat /\ owed \subseteq Nat
      /\ tapeStep \in 1..Len(TapeSteps) + 1 /\ tapeProgress \in Nat
      /\ tapeArmed \in Flag /\ tapeRefused \in Flag
      /\ tapeDue \in Nat /\ tapeBegan \in Nat /\ tapeBegan <= now
      /\ tapeStep <= Len(TapeSteps) => tapeProgress < TapeSteps[tapeStep].length
  BY TapeTypes DEF TapeInv, TapeTypeOK
<1>b. Len(TapeSteps) \in Nat
  BY TapeLength
<1>1. ASSUME NEW kind \in {"write", "read"}, TapeRequest(kind)
      PROVE  EnvironmentTypeOK' /\ TapeInv'
  <2>1. now' = now /\ level' = level /\ tapeAsked' \in TapeKinds \cup {"none"}
    BY <1>1 DEF TapeRequest, TapeKinds
  <2>2. owed' \subseteq Nat /\ TapeInv'
    <3>1. CASE /\ TapeArm(tapeStep, now, owed)
               /\ UNCHANGED <<tapeStep, tapeProgress>>
      BY <1>a, <2>1, <3>1, ArmingTape
    <3>2. CASE /\ TapeAt(tapeStep, {"busy"}) /\ ~ TapeBusy
               /\ TapeGoTo(IF TapeAt(tapeStep + 1, {kind}) THEN tapeStep + 2
                           ELSE tapeStep + 1, now, owed)
      <4>1. PICK i \in 1..Len(TapeSteps) + 1 : TapeGoTo(i, now, owed)
        <5>1. CASE TapeAt(tapeStep + 1, {kind})
          <6>1. tapeStep + 1 <= Len(TapeSteps)
            BY <5>1 DEF TapeAt
          <6>2. tapeStep + 2 \in 1..Len(TapeSteps) + 1
            BY <6>1, <1>a, <1>b
          <6>3. QED
            BY <3>2, <5>1, <6>2
        <5>2. CASE ~ TapeAt(tapeStep + 1, {kind})
          BY <1>a, <3>2, <5>2, TapeAtIsAStep
        <5>3. QED
          BY <5>1, <5>2
      <4>2. QED
        BY <1>a, <2>1, <4>1, GoingToTape
    <3>3. CASE TapeWants(kind) /\ TapeGoTo(tapeStep + 1, now, owed)
      BY <1>a, <2>1, <3>3, GoingToTape, TapeAtIsAStep DEF TapeWants
    <3>4. CASE UNCHANGED <<owed, tapeState>>
      <4>1. owed' = owed /\ UNCHANGED tapeState
        BY <3>4
      <4>2. StillOwed \subseteq owed' /\ now' \in Nat /\ now' >= now
        BY <1>a, <2>1, <4>1 DEF StillOwed
      <4>3. QED
        BY <1>a, <2>1, <4>1, <4>2, LeavingTape
    <3>5. CASE UNCHANGED <<owed, tapeTime, tapeStep, tapeProgress>>
      BY <3>4, <3>5 DEF tapeState
    <3>6. QED
      BY <1>1, <3>1, <3>2, <3>3, <3>4, <3>5 DEF TapeRequest
  <2>3. QED
    BY <2>1, <2>2, StandingTime
<1>2. ASSUME NEW kind \in {"serialIn", "spi"}, TapeByte(kind)
      PROVE  EnvironmentTypeOK' /\ TapeInv'
  <2>1. now' = now /\ level' = level /\ tapeAsked' \in TapeKinds \cup {"none"}
    BY <1>2 DEF TapeByte, TapeKinds
  <2>b. tapeProgress \in Nat
    BY <1>a
  <2>0. CASE ~ TapeAt(tapeStep, {kind})
    <3>1. owed' = owed /\ UNCHANGED tapeState
      BY <1>2, <2>0 DEF TapeByte
    <3>2. StillOwed \subseteq owed' /\ now' \in Nat /\ now' >= now
      BY <1>a, <2>1, <3>1 DEF StillOwed
    <3>3. TapeInv'
      BY <1>a, <2>1, <3>1, <3>2, LeavingTape
    <3>4. QED
      BY <1>a, <2>1, <3>1, <3>3, StandingTime
  <2>2. CASE /\ TapeAt(tapeStep, {kind})
             /\ tapeProgress + 1 >= TapeSteps[tapeStep].length
    <3>1. TapeGoTo(tapeStep + 1, now, owed)
      BY <1>2, <2>2 DEF TapeByte
    <3>2. owed' \subseteq Nat /\ TapeInv'
      BY <1>a, <2>1, <2>2, <3>1, GoingToTape, TapeAtIsAStep
    <3>3. QED
      BY <2>1, <3>2, StandingTime
  <2>3. CASE /\ TapeAt(tapeStep, {kind})
             /\ ~ (tapeProgress + 1 >= TapeSteps[tapeStep].length)
    <3>1. /\ tapeProgress' = tapeProgress + 1
          /\ UNCHANGED <<owed, tapeStep, tapeArmed, tapeDue, tapeRefused, tapeBegan>>
      BY <1>2, <2>3 DEF TapeByte, tapeTime
    <3>2. /\ tapeProgress + 1 \in Nat
          /\ tapeProgress + 1 < TapeSteps[tapeStep].length
      <4>1. TapeSteps[tapeStep].length \in Nat
        BY <1>a, <2>3, TapeAtIsAStep
      <4>2. PICK n \in Nat : TapeSteps[tapeStep].length = n
        BY <4>1
      <4>3. ~ (tapeProgress + 1 >= n)
        BY <2>3, <4>2
      <4>4. tapeProgress + 1 \in Nat /\ tapeProgress + 1 < n
        BY <2>b, <4>3, OneByteFewer
      <4>5. QED
        BY <4>2, <4>4
    <3>3. TapeTypeOK'
      <4>1. tapeProgress' \in Nat
        BY <3>1, <3>2
      <4>2. tapeProgress' < TapeSteps[tapeStep'].length
        BY <3>1, <3>2, <4>1
      <4>3. QED
        BY <1>a, <2>1, <3>1, <4>1, <4>2 DEF TapeTypeOK
    <3>4. TapeIsOwed'
      BY <2>1, <3>1 DEF TapeInv, TapeIsOwed, Expected
    <3>5. QED
      BY <1>a, <2>1, <3>1, <3>3, <3>4, StandingTime DEF TapeInv
  <2>4. QED
    BY <2>0, <2>2, <2>3
<1>3. CASE TapeAdvance
  <2>1. Serves /\ tapeAsked' \in TapeKinds \cup {"none"}
    BY <1>3 DEF TapeAdvance
  <2>2. now' \in Nat /\ now' >= now /\ StillOwed \subseteq Nat
    BY <2>1, AdvanceTime
  <2>3. owed' \subseteq Nat /\ TapeInv'
    <3>1. PICK n \in 0..Len(TapeSteps) :
            /\ \A k \in 0..n - 1 : TapeSendsAt(k)
            /\ IF n > 0 THEN TapeGoTo(tapeStep + n, now', StillOwed)
               ELSE IF TapeTimed(tapeStep) /\ tapeArmed = "no"
               THEN /\ TapeArm(tapeStep, now', StillOwed)
                    /\ UNCHANGED <<tapeStep, tapeProgress>>
               ELSE owed' = StillOwed /\ UNCHANGED tapeState
      BY <1>3 DEF TapeAdvance
    <3>2. CASE n > 0
      <4>1. tapeStep + n \in 1..Len(TapeSteps) + 1
        BY <3>1, <3>2, TapeSendsSteps
      <4>2. QED
        BY <2>1, <2>2, <3>1, <3>2, <4>1, GoingToTape
    <3>3. CASE /\ TapeArm(tapeStep, now', StillOwed)
               /\ UNCHANGED <<tapeStep, tapeProgress>>
      BY <1>a, <2>1, <2>2, <3>3, ArmingTape
    <3>4. CASE owed' = StillOwed /\ UNCHANGED tapeState
      <4>1. StillOwed \subseteq owed'
        BY <3>4
      <4>2. QED
        BY <2>1, <2>2, <3>4, <4>1, LeavingTape
    <3>5. QED
      BY <3>1, <3>2, <3>3, <3>4
  <2>4. QED
    BY <2>1, <2>3, AdvanceTypes
<1>4. CASE TapeIdle
  <2>1. /\ EnvironmentTypeOK' /\ now' \in Nat /\ now' >= now
        /\ StillOwed \subseteq owed'
    BY <1>4, PassingTime DEF TapeIdle, StillOwed, EnvironmentTypeOK
  <2>2. QED
    BY <1>4, <2>1, LeavingTape DEF TapeIdle
<1>5. CASE TapeReset
  <2>1. EnvironmentTypeOK' /\ now' \in Nat
    BY <1>5, RepoweringTime DEF TapeReset, EnvironmentTypeOK
  <2>2. 1 <= Len(TapeSteps) => 0 < TapeSteps[1].length
    BY TapeLength, TapeHasBytes
  <2>3. /\ tapeStep' = 1 /\ tapeProgress' = 0 /\ tapeArmed' = "no"
        /\ tapeDue' = 0 /\ tapeRefused' = "no" /\ tapeBegan' = 0
        /\ tapeAsked' = "none"
    BY <1>5 DEF TapeReset
  <2>4. TapeTypeOK'
    BY <1>b, <2>2, <2>3 DEF TapeTypeOK, Flag
  <2>5. tapeBegan' <= now'
    <3>1. PICK t \in Nat : now' = t
      BY <2>1
    <3>2. QED
      BY <2>3, <3>1
  <2>6. QED
    BY <2>1, <2>3, <2>4, <2>5 DEF TapeInv, TapeIsOwed
<1>6. QED
  BY <1>1, <1>2, <1>3, <1>4, <1>5 DEF TapeNext

\* What a step of the tape does when it goes on, and what it does not leave.
TapeGoesOn ==
  LET own == tapeBegan + TapeSteps[tapeStep].delay IN
  /\ tapeStep' > tapeStep
  /\ TapeAt(tapeStep, {"serialOut"}) =>
       /\ \/ TapeAdvance /\ OnTime(own, tapeRefused)
          \/ tapeStep = 1 /\ tapeArmed = "no"
       /\ \A i \in tapeStep + 1..tapeStep' - 1 :
            TapeAt(i, {"serialOut"}) /\ TapeSteps[i].delay = 0
  /\ TapeAt(tapeStep, {"busy"}) =>
       /\ now >= own /\ tapeAsked' \in {"write", "read"}
       /\ tapeStep' = IF TapeAt(tapeStep + 1, {tapeAsked'})
                      THEN tapeStep + 2 ELSE tapeStep + 1
  /\ ~ TapeTimed(tapeStep) =>
       /\ tapeStep' = tapeStep + 1
       /\ tapeAsked' = TapeSteps[tapeStep].kind

TapeListens ==
  LET own == tapeBegan + TapeSteps[tapeStep].delay IN
  tapeAsked' \in {"write", "read"} =>
    /\ TapeAt(tapeStep, {"busy"}) /\ tapeArmed = "yes" /\ now >= own
         => tapeStep' # tapeStep
    /\ TapeAt(tapeStep, {tapeAsked'}) => tapeStep' # tapeStep

TapePaced ==
  /\ tapeStep' # tapeStep /\ ~ TapeReset => TapeGoesOn
  /\ TapeListens

LEMMA TapeEnds == EnvironmentTypeOK /\ TapeInv /\ TapeNext => TapePaced
<1> SUFFICES ASSUME EnvironmentTypeOK, TapeInv, TapeNext PROVE TapePaced
  OBVIOUS
<1>a. /\ now \in Nat /\ tapeStep \in 1..Len(TapeSteps) + 1 /\ tapeStep \in Nat
      /\ tapeArmed \in Flag /\ tapeProgress \in Nat
      /\ tapeDue \in Nat /\ tapeBegan \in Nat /\ tapeBegan <= now
  BY TapeTypes
<1>1. ASSUME NEW kind \in {"write", "read"}, TapeRequest(kind) PROVE TapePaced
  <2>0. tapeAsked' = kind
    BY <1>1 DEF TapeRequest
  <2>a. /\ TapeAt(tapeStep, {tapeAsked'}) = TapeAt(tapeStep, {kind})
        /\ TapeAt(tapeStep + 1, {tapeAsked'}) = TapeAt(tapeStep + 1, {kind})
    BY <2>0
  <2>1. CASE TapeBusy /\ UNCHANGED <<tapeStep, tapeProgress>>
    <3>1. TapeAt(tapeStep, {"busy"}) /\ ~ TapeAt(tapeStep, {kind})
      BY <2>1 DEF TapeBusy, TapeAt
    <3>2. TapeSteps[tapeStep].delay \in Nat
      BY <1>a, <3>1, TapeAtIsAStep
    <3>3. tapeArmed = "yes" => ~ (now >= tapeBegan + TapeSteps[tapeStep].delay)
      <4>1. ASSUME tapeArmed = "yes"
            PROVE  now < tapeBegan + TapeSteps[tapeStep].delay
        BY <2>1, <4>1 DEF TapeBusy, TapeDueAt, TapeInv
      <4>2. PICK d \in Nat : TapeSteps[tapeStep].delay = d
        BY <3>2
      <4>3. now < tapeBegan + d => ~ (now >= tapeBegan + d)
        BY <1>a
      <4>4. QED
        BY <4>1, <4>2, <4>3
    <3>4. TapeListens
      BY <2>a, <3>1, <3>3 DEF TapeListens
    <3>5. tapeStep' = tapeStep
      BY <2>1
    <3>6. QED
      BY <3>4, <3>5 DEF TapePaced
  <2>2. CASE /\ TapeAt(tapeStep, {"busy"}) /\ ~ TapeBusy
             /\ TapeGoTo(IF TapeAt(tapeStep + 1, {kind}) THEN tapeStep + 2
                         ELSE tapeStep + 1, now, owed)
    <3>1. tapeStep' = IF TapeAt(tapeStep + 1, {kind}) THEN tapeStep + 2
                      ELSE tapeStep + 1
      BY <2>2 DEF TapeGoTo
    <3>2. TapeTimed(tapeStep) /\ ~ TapeAt(tapeStep, {"serialOut"})
      BY <2>2 DEF TapeAt, TapeTimed
    <3>3. TapeSteps[tapeStep].delay \in Nat
      BY <1>a, <2>2, TapeAtIsAStep
    <3>4. now >= TapeDueAt(now)
      <4>1. TapeDueAt(now) \in Nat
        BY <1>a, <3>3 DEF TapeDueAt
      <4>2. QED
        BY <1>a, <2>2, <4>1 DEF TapeBusy
    <3>5. now >= tapeBegan + TapeSteps[tapeStep].delay
      <4>1. CASE tapeArmed = "yes"
        BY <3>4, <4>1 DEF TapeDueAt, TapeInv
      <4>2. CASE tapeArmed # "yes"
        BY <1>a, <3>3, <3>4, <4>2 DEF TapeDueAt
      <4>3. QED
        BY <4>1, <4>2
    <3>6. tapeStep' > tapeStep /\ tapeStep' # tapeStep
      BY <1>a, <3>1
    <3>7. TapeListens
      BY <3>6 DEF TapeListens
    <3>8. TapeGoesOn
      <4>1. tapeAsked' \in {"write", "read"}
        BY <2>0
      <4>2. tapeStep' = IF TapeAt(tapeStep + 1, {tapeAsked'}) THEN tapeStep + 2
                        ELSE tapeStep + 1
        BY <2>a, <3>1
      <4>3. QED
        BY <3>2, <3>5, <3>6, <4>1, <4>2 DEF TapeGoesOn
    <3>9. QED
      BY <3>7, <3>8 DEF TapePaced
  <2>3. CASE TapeWants(kind) /\ TapeGoTo(tapeStep + 1, now, owed)
    <3>1. tapeStep' = tapeStep + 1
      BY <2>3 DEF TapeGoTo
    <3>2. /\ ~ TapeAt(tapeStep, {"serialOut"}) /\ ~ TapeAt(tapeStep, {"busy"})
          /\ kind = TapeSteps[tapeStep].kind
      BY <2>3 DEF TapeWants, TapeAt
    <3>3. tapeStep' > tapeStep /\ tapeStep' # tapeStep
      BY <1>a, <3>1
    <3>4. TapeListens
      BY <3>3 DEF TapeListens
    <3>5. TapeGoesOn
      BY <2>0, <3>1, <3>2, <3>3 DEF TapeGoesOn
    <3>6. QED
      BY <3>4, <3>5 DEF TapePaced
  <2>4. CASE /\ ~ TapeWants(kind) /\ ~ TapeAt(tapeStep, {"busy"})
             /\ UNCHANGED tapeState
    <3>1. tapeStep' = tapeStep
      BY <2>4 DEF tapeState
    <3>2. ~ TapeAt(tapeStep, {tapeAsked'})
      BY <2>a, <2>4 DEF TapeWants
    <3>3. QED
      BY <2>4, <3>1, <3>2 DEF TapePaced, TapeListens
  <2>5. QED
    BY <1>1, <2>1, <2>2, <2>3, <2>4 DEF TapeRequest
<1>2. ASSUME NEW kind \in {"serialIn", "spi"}, TapeByte(kind) PROVE TapePaced
  <2>1. tapeAsked' = kind /\ ~ (tapeAsked' \in {"write", "read"})
    BY <1>2 DEF TapeByte
  <2>2. CASE tapeStep' = tapeStep
    BY <2>1, <2>2 DEF TapePaced, TapeListens
  <2>3. CASE tapeStep' # tapeStep
    <3>1. tapeStep' = tapeStep + 1 /\ TapeAt(tapeStep, {kind})
      BY <1>2, <2>3 DEF TapeByte, TapeGoTo, tapeState
    <3>2. /\ ~ TapeAt(tapeStep, {"serialOut"}) /\ ~ TapeAt(tapeStep, {"busy"})
          /\ kind = TapeSteps[tapeStep].kind
      BY <3>1 DEF TapeAt
    <3>3. tapeStep' > tapeStep
      BY <1>a, <3>1
    <3>4. TapeGoesOn
      BY <2>1, <3>1, <3>2, <3>3 DEF TapeGoesOn
    <3>5. QED
      BY <2>1, <3>4 DEF TapePaced, TapeListens
  <2>4. QED
    BY <2>2, <2>3
<1>3. CASE TapeAdvance
  <2>0. tapeAsked' = "none"
    BY <1>3 DEF TapeAdvance
  <2>a. CASE tapeStep' = tapeStep
    BY <2>0, <2>a DEF TapePaced, TapeListens
  <2>b. CASE tapeStep' # tapeStep
    <3>1. PICK n \in 0..Len(TapeSteps) :
            /\ \A k \in 0..n - 1 : TapeSendsAt(k)
            /\ n > 0 /\ tapeStep' = tapeStep + n
      BY <1>3, <2>b DEF TapeAdvance, TapeGoTo, tapeState
    <3>2. n \in Nat /\ 0 \in 0..n - 1
      BY <3>1, TapeLength
    <3>3. TapeAt(tapeStep, {"serialOut"}) /\ now' >= TapeDueAt(now')
      <4>1. TapeSendsAt(0)
        BY <3>1, <3>2
      <4>2. tapeStep + 0 = tapeStep
        BY <1>a
      <4>3. QED
        BY <4>1, <4>2 DEF TapeSendsAt
    <3>4. TapeTimed(tapeStep) /\ ~ TapeAt(tapeStep, {"busy"})
      BY <3>3 DEF TapeAt, TapeTimed
    <3>5. tapeStep' > tapeStep
      BY <1>a, <3>1, <3>2
    <3>6. \A i \in tapeStep + 1..tapeStep' - 1 :
            TapeAt(i, {"serialOut"}) /\ TapeSteps[i].delay = 0
      <4>1. TAKE i \in tapeStep + 1..tapeStep' - 1
      <4>2. /\ i - tapeStep \in 0..n - 1 /\ i - tapeStep # 0
            /\ tapeStep + (i - tapeStep) = i
        BY <1>a, <3>1, <3>2
      <4>3. TapeSendsAt(i - tapeStep)
        BY <3>1, <4>2
      <4>4. QED
        BY <4>2, <4>3 DEF TapeSendsAt
    <3>7. \/ OnTime(tapeBegan + TapeSteps[tapeStep].delay, tapeRefused)
          \/ tapeStep = 1 /\ tapeArmed = "no"
      <4>1. CASE tapeArmed = "yes"
        <5>1. /\ tapeDue = tapeBegan + TapeSteps[tapeStep].delay
              /\ Expected(tapeDue, tapeRefused) /\ now' >= tapeDue
          BY <3>3, <4>1 DEF TapeInv, TapeIsOwed, TapeDueAt
        <5>2. OnTime(tapeDue, tapeRefused)
          BY <1>3, <1>a, <5>1, EndsInTime DEF TapeAdvance
        <5>3. QED
          BY <5>1, <5>2
      <4>2. CASE tapeArmed = "no"
        BY <3>4, <4>2 DEF TapeInv
      <4>3. QED
        BY <1>a, <4>1, <4>2 DEF Flag
    <3>8. QED
      BY <1>3, <2>0, <3>4, <3>5, <3>6, <3>7 DEF TapePaced, TapeListens, TapeGoesOn
  <2>c. QED
    BY <2>a, <2>b
<1>4. CASE TapeIdle
  BY <1>4 DEF TapeIdle, tapeState, TapePaced, TapeListens
<1>5. CASE TapeReset
  BY <1>5 DEF TapeReset, TapePaced, TapeListens
<1>6. QED
  BY <1>1, <1>2, <1>3, <1>4, <1>5 DEF TapeNext

-----------------------------------------------------------------------------
(* The chunked radio link.                                                 *)

\* The first k bytes of message m, which is len bytes long.
ChunkPart(m, k, len) == [i \in 1..k |-> <<m, i, len>>]

\* n bytes of it from the k-th on, as a piece.
ChunkPiece(m, k, n, len) == [i \in 1..n |-> <<m, k + i, len>>]

\* While a message goes out, the far end waits for a piece of it that is
\* still to come, or for one that was lost; if for the next one, it holds
\* all that came before.
ChunkFollows ==
  chSending = "yes" /\ chGap = "no" /\ chExpect > 0 =>
    /\ chSeq >= chExpect
    /\ chSeq = chExpect => chAssembled = ChunkPart(chMessage, chSent, chLen)

ChunkInv ==
  /\ ChunkTypeOK /\ ChunkIsOwed /\ ChunkWhole /\ ChunkFollows
  /\ chSending = "yes" =>
       /\ chMessage >= 1 /\ chSent < chLen /\ chPerFrame > 0
       /\ 1 <= chSeq /\ chSeq <= chSent

LEMMA ChunkNumbers ==
  /\ ChunkMax \in Nat /\ ChunkMax > 0 /\ ChunkGapUs \in Nat
  /\ ChunkMessages \in Nat /\ ChunkCaps \subseteq Nat
BY ChunkAssumption

LEMMA ChunkTypes ==
  ASSUME ChunkInv
  PROVE  /\ chMessage \in Nat /\ chMessage <= ChunkMessages
         /\ chLen \in Nat /\ chLen <= ChunkMax
         /\ chSent \in Nat /\ chSent <= chLen
         /\ chSeq \in Nat /\ chSeq <= ChunkMax
         /\ chCap \in ChunkCaps \cup {0} /\ chPerFrame \in ChunkCaps \cup {0}
         /\ chCap \in Nat /\ chPerFrame \in Nat
         /\ chSending \in Flag /\ chNext \in Nat /\ chRefused \in Flag
         /\ chAssembled \in Seq(ChunkBytes) /\ Len(chAssembled) <= ChunkMax
         /\ chExpect \in Nat /\ chExpect <= ChunkMax /\ chGap \in Flag
BY ChunkNumbers DEF ChunkInv, ChunkTypeOK

LEMMA ChunkFresh == EnvironmentTypeOK /\ ChunkInit => ChunkInv
<1> SUFFICES ASSUME ChunkInit PROVE ChunkInv
  OBVIOUS
<1>1. chAssembled \in Seq(ChunkBytes) /\ Len(chAssembled) = 0
  BY EmptySeq DEF ChunkInit
<1>2. ChunkTypeOK
  BY <1>1, ChunkNumbers DEF ChunkInit, ChunkTypeOK, Flag
<1>3. QED
  BY <1>2 DEF ChunkInit, ChunkInv, ChunkIsOwed, ChunkWhole, ChunkFollows

\* A part of a message is a sequence of bytes.
LEMMA PartIsBytes ==
  ASSUME NEW m \in 1..ChunkMessages, NEW len \in 1..ChunkMax,
         NEW k \in Nat, k <= len
  PROVE  /\ ChunkPart(m, k, len) \in Seq(ChunkBytes)
         /\ Len(ChunkPart(m, k, len)) = k
         /\ \A i \in 1..k : ChunkPart(m, k, len)[i] = <<m, i, len>>
<1>1. \A i \in 1..k : <<m, i, len>> \in ChunkBytes
  BY ChunkNumbers DEF ChunkBytes
<1>2. ChunkPart(m, k, len) \in [1..k -> ChunkBytes]
  BY <1>1 DEF ChunkPart
<1>3. ChunkPart(m, k, len) \in Seq(ChunkBytes) /\ Len(ChunkPart(m, k, len)) = k
  BY <1>2
<1>4. QED
  BY <1>3 DEF ChunkPart

LEMMA PieceIsBytes ==
  ASSUME NEW m \in 1..ChunkMessages, NEW len \in 1..ChunkMax,
         NEW k \in Nat, NEW n \in Nat, k + n <= len
  PROVE  /\ ChunkPiece(m, k, n, len) \in Seq(ChunkBytes)
         /\ Len(ChunkPiece(m, k, n, len)) = n
         /\ \A i \in 1..n : ChunkPiece(m, k, n, len)[i] = <<m, k + i, len>>
<1>1. \A i \in 1..n : <<m, k + i, len>> \in ChunkBytes
  BY ChunkNumbers DEF ChunkBytes
<1>2. ChunkPiece(m, k, n, len) \in [1..n -> ChunkBytes]
  BY <1>1 DEF ChunkPiece
<1>3. /\ ChunkPiece(m, k, n, len) \in Seq(ChunkBytes)
      /\ Len(ChunkPiece(m, k, n, len)) = n
  BY <1>2
<1>4. QED
  BY <1>3 DEF ChunkPiece

\* The next piece behind the first k bytes makes the first k + n.
LEMMA PieceJoins ==
  ASSUME NEW m \in 1..ChunkMessages, NEW len \in 1..ChunkMax,
         NEW k \in Nat, NEW n \in Nat, k + n <= len
  PROVE  ChunkPart(m, k, len) \o ChunkPiece(m, k, n, len) = ChunkPart(m, k + n, len)
<1> DEFINE front == ChunkPart(m, k, len)
           body == ChunkPiece(m, k, n, len)
           both == ChunkPart(m, k + n, len)
           joined == front \o body
<1>1. k \in Nat /\ n \in Nat /\ k + n \in Nat /\ k <= len
  BY ChunkNumbers
<1>2. /\ front \in Seq(ChunkBytes) /\ Len(front) = k
      /\ \A i \in 1..k : front[i] = <<m, i, len>>
  BY <1>1, PartIsBytes
<1>3. /\ body \in Seq(ChunkBytes) /\ Len(body) = n
      /\ \A i \in 1..n : body[i] = <<m, k + i, len>>
  BY PieceIsBytes
<1>4. /\ both \in Seq(ChunkBytes) /\ Len(both) = k + n
      /\ \A i \in 1..k + n : both[i] = <<m, i, len>>
  BY <1>1, PartIsBytes
<1> HIDE DEF front, body, both
<1>5. /\ joined \in Seq(ChunkBytes) /\ Len(joined) = Len(front) + Len(body)
      /\ \A i \in 1..Len(front) + Len(body) :
           joined[i] = IF i <= Len(front) THEN front[i] ELSE body[i - Len(front)]
  BY <1>2, <1>3, ConcatProperties
<1> HIDE DEF joined
<1>6. /\ Len(joined) = k + n
      /\ \A i \in 1..k + n : joined[i] = IF i <= k THEN front[i] ELSE body[i - k]
  BY <1>2, <1>3, <1>5
<1>7. ASSUME NEW i \in 1..k + n PROVE joined[i] = both[i]
  <2>1. i \in Nat /\ 1 <= i /\ i <= k + n
    BY <1>1
  <2>2. CASE i <= k
    <3>1. joined[i] = front[i] /\ i \in 1..k
      BY <1>6, <2>1, <2>2
    <3>2. QED
      BY <1>2, <1>4, <3>1
  <2>3. CASE ~ (i <= k)
    <3>1. i - k \in 1..n /\ k + (i - k) = i
      BY <1>1, <2>1, <2>3
    <3>2. joined[i] = body[i - k]
      BY <1>6, <2>3
    <3>3. body[i - k] = <<m, i, len>>
      BY <1>3, <3>1
    <3>4. QED
      BY <1>4, <3>2, <3>3
  <2>4. QED
    BY <2>2, <2>3
<1>8. joined = both
  BY <1>4, <1>5, <1>6, <1>7, SeqEqual
<1>9. QED
  BY <1>8 DEF front, body, both, joined

\* The far end holds as much as a message may be long.
LEMMA CutShort ==
  ASSUME NEW s \in Seq(ChunkBytes), NEW n \in Nat, n <= Len(s)
  PROVE  SubSeq(s, 1, n) \in Seq(ChunkBytes) /\ Len(SubSeq(s, 1, n)) = n
<1>1. Len(s) \in Nat
  BY LenProperties
<1>2. ASSUME NEW i \in 1..n PROVE s[i] \in ChunkBytes
  <2>1. i \in 1..Len(s)
    BY <1>1
  <2>2. QED
    BY <2>1, ElementOfSeq
<1>3. 1 \in Int /\ n \in Int
  OBVIOUS
<1>4. /\ SubSeq(s, 1, n) \in Seq(ChunkBytes)
      /\ Len(SubSeq(s, 1, n)) = IF 1 <= n THEN n - 1 + 1 ELSE 0
  BY <1>2, <1>3, SubSeqProperties
<1>5. (IF 1 <= n THEN n - 1 + 1 ELSE 0) = n
  OBVIOUS
<1>6. QED
  BY <1>4, <1>5

LEMMA CutAtMax ==
  ASSUME NEW s \in Seq(ChunkBytes)
  PROVE  LET cut == SubSeq(s, 1, IF Len(s) < ChunkMax THEN Len(s) ELSE ChunkMax)
         IN  /\ cut \in Seq(ChunkBytes) /\ Len(cut) <= ChunkMax
             /\ Len(s) <= ChunkMax => cut = s
<1> DEFINE n == IF Len(s) < ChunkMax THEN Len(s) ELSE ChunkMax
<1>1. /\ n \in Nat /\ n <= Len(s) /\ n <= ChunkMax
      /\ Len(s) <= ChunkMax => n = Len(s)
  BY ChunkNumbers, LenProperties
<1> HIDE DEF n
<1>2. SubSeq(s, 1, n) \in Seq(ChunkBytes) /\ Len(SubSeq(s, 1, n)) <= ChunkMax
  BY <1>1, CutShort
<1>3. Len(s) <= ChunkMax => SubSeq(s, 1, n) = s
  BY <1>1, SubSeqFull
<1>4. QED
  BY <1>2, <1>3 DEF n

\* A whole message is one.
LEMMA PartIsWhole ==
  ASSUME NEW m \in 1..ChunkMessages, NEW len \in 1..ChunkMax,
         chAssembled' = ChunkPart(m, len, len)
  PROVE  ChunkWhole'
<1>1. ChunkPart(m, len, len)[1] = <<m, 1, len>>
  <2>1. len \in Nat /\ 1 \in 1..len
    BY ChunkNumbers
  <2>2. QED
    BY <2>1 DEF ChunkPart
<1>2. chAssembled'[1][3] = len /\ chAssembled'[1][1] = m
  BY <1>1
<1>3. QED
  BY <1>2 DEF ChunkWhole, ChunkPart

\* What the far end makes of the bytes of message m from sent on, n of them,
\* which are its piece seq, or of their loss.
LEMMA PieceTaken ==
  ASSUME ChunkInv,
         NEW m \in 1..ChunkMessages, NEW len \in 1..ChunkMax,
         NEW sent \in Nat, NEW n \in Nat, n >= 1, sent + n <= len,
         NEW seq \in Nat, seq <= sent, seq = 0 => sent = 0,
         seq > 0 /\ chGap = "no" /\ chExpect > 0 =>
           seq >= chExpect /\ (seq = chExpect => chAssembled = ChunkPart(m, sent, len)),
         \/ ChunkFrameIn(seq, sent + n < len, ChunkPiece(m, sent, n, len))
         \/ ChunkLost(seq)
  PROVE  /\ chAssembled' \in Seq(ChunkBytes) /\ Len(chAssembled') <= ChunkMax
         /\ chExpect' \in 0..ChunkMax /\ chGap' \in Flag
         /\ ChunkWhole'
         /\ sent + n < len /\ chGap' = "no" /\ chExpect' > 0 =>
              /\ seq + 1 >= chExpect'
              /\ seq + 1 = chExpect' => chAssembled' = ChunkPart(m, sent + n, len)
<1> DEFINE more == sent + n < len
           body == ChunkPiece(m, sent, n, len)
<1>a. /\ chAssembled \in Seq(ChunkBytes) /\ Len(chAssembled) <= ChunkMax
      /\ chExpect \in Nat /\ chExpect <= ChunkMax /\ chGap \in Flag
  BY ChunkTypes
<1>b. len \in Nat /\ len <= ChunkMax /\ ChunkMax \in Nat
  BY ChunkNumbers
<1>1. CASE ChunkReceiverForgets
  <2>1. chAssembled' \in Seq(ChunkBytes) /\ Len(chAssembled') = 0
    BY <1>1, EmptySeq DEF ChunkReceiverForgets
  <2>2. QED
    BY <1>1, <1>b, <2>1 DEF ChunkReceiverForgets, ChunkWhole, Flag
<1>2. CASE ChunkLost(seq)
  <2>1. /\ chAssembled' = chAssembled /\ chExpect' = chExpect
        /\ chGap' = IF seq = 0 THEN "yes" ELSE chGap
    BY <1>2 DEF ChunkLost
  <2>2. chExpect' \in 0..ChunkMax /\ chGap' \in Flag
    BY <1>a, <1>b, <2>1 DEF Flag
  <2>3. ChunkWhole'
    BY <2>1 DEF ChunkInv, ChunkWhole
  <2>4. chGap' = "no" /\ chExpect' > 0 => seq + 1 > chExpect'
    BY <1>a, <2>1
  <2>5. chGap' = "no" /\ chExpect' > 0 => seq + 1 >= chExpect' /\ seq + 1 # chExpect'
    BY <1>a, <2>1, <2>4
  <2>6. QED
    BY <1>a, <2>1, <2>2, <2>3, <2>5
<1>3. CASE ChunkFrameIn(seq, more, body) /\ seq = chExpect
  <2> DEFINE front == IF seq = 0 THEN <<>> ELSE chAssembled
             all == front \o body
  <2>1. /\ chAssembled' = SubSeq(all, 1, IF Len(all) < ChunkMax THEN Len(all)
                                         ELSE ChunkMax)
        /\ chExpect' = IF more THEN chExpect + 1 ELSE 0
        /\ chGap' = IF seq = 0 THEN "no" ELSE chGap
    BY <1>3 DEF ChunkFrameIn
  <2>2. body \in Seq(ChunkBytes) /\ front \in Seq(ChunkBytes)
    <3>1. <<>> \in Seq(ChunkBytes)
      BY EmptySeq
    <3>2. QED
      BY <1>a, <3>1, PieceIsBytes
  <2>3. all \in Seq(ChunkBytes)
    BY <2>2, ConcatProperties
  <2>4. chGap' = "no" => all = ChunkPart(m, sent + n, len)
    <3>1. CASE seq = 0
      <4>1. body = ChunkPart(m, sent + n, len)
        BY <3>1 DEF ChunkPart, ChunkPiece
      <4>2. QED
        BY <2>2, <3>1, <4>1, ConcatEmptySeq
    <3>2. CASE seq > 0 /\ chGap = "no"
      <4>1. chAssembled = ChunkPart(m, sent, len)
        BY <1>3, <3>2
      <4>2. front = chAssembled
        BY <3>2
      <4>3. QED
        BY <4>1, <4>2, PieceJoins
    <3>3. QED
      BY <2>1, <3>1, <3>2
  <2> HIDE DEF all
  <2>5. /\ chAssembled' \in Seq(ChunkBytes) /\ Len(chAssembled') <= ChunkMax
        /\ Len(all) <= ChunkMax => chAssembled' = all
    BY <2>1, <2>3, CutAtMax
  <2>6. chGap' = "no" => chAssembled' = ChunkPart(m, sent + n, len)
    <3>1. Len(ChunkPart(m, sent + n, len)) = sent + n /\ sent + n <= ChunkMax
      BY <1>b, PartIsBytes
    <3>2. QED
      BY <2>4, <2>5, <3>1
  <2>7. chExpect' \in 0..ChunkMax /\ chGap' \in Flag
    <3>1. more => seq + 1 \in 0..ChunkMax
      BY <1>b
    <3>2. 0 \in 0..ChunkMax
      BY <1>b
    <3>3. QED
      BY <1>3, <1>a, <2>1, <3>1, <3>2 DEF Flag
  <2>8. more => chExpect' = seq + 1 /\ seq + 1 >= seq + 1 /\ seq + 1 # 0
    BY <1>3, <2>1
  <2>9. ChunkWhole'
    <3>1. CASE more
      BY <2>8, <3>1 DEF ChunkWhole
    <3>2. CASE ~ more /\ chGap' = "no"
      <4>1. sent + n = len
        BY <1>b, <3>2
      <4>2. chAssembled' = ChunkPart(m, len, len)
        BY <2>6, <3>2, <4>1
      <4>3. QED
        BY <4>2, PartIsWhole
    <3>3. CASE chGap' # "no"
      BY <3>3 DEF ChunkWhole
    <3>4. QED
      BY <3>1, <3>2, <3>3
  <2>10. QED
    BY <2>5, <2>6, <2>7, <2>8, <2>9
<1>4. QED
  BY <1>1, <1>2, <1>3 DEF ChunkFrameIn

\* A piece goes out, or the link refuses it.
LEMMA PieceSent ==
  ASSUME EnvironmentTypeOK, ChunkInv,
         NEW m \in 1..ChunkMessages, NEW len \in 1..ChunkMax,
         NEW cap \in ChunkCaps \cup {0}, NEW per \in ChunkCaps \cup {0}, per > 0,
         NEW t \in Nat, now' = t,
         chMessage' = m, chLen' = len, chCap' = cap, chPerFrame' = per,
         NEW sent \in Nat, sent < len, NEW seq \in Nat, seq <= sent,
         seq = 0 => sent = 0,
         seq > 0 /\ chGap = "no" /\ chExpect > 0 =>
           seq >= chExpect /\ (seq = chExpect => chAssembled = ChunkPart(m, sent, len)),
         NEW left, left \subseteq Nat, ChunkEmit(sent, seq, left)
  PROVE  owed' \subseteq Nat /\ ChunkInv'
<1> DEFINE take == IF len - sent < per THEN len - sent ELSE per
           more == sent + take < len
           body == ChunkPiece(m, sent, take, len)
<1>a. /\ per \in Nat /\ len \in Nat /\ m \in Nat /\ m >= 1 /\ m <= ChunkMessages
      /\ len <= ChunkMax /\ ChunkMax \in Nat
  BY ChunkNumbers
<1>b. /\ take \in Nat /\ take >= 1 /\ sent + take <= len
      /\ seq + 1 \in 0..ChunkMax /\ sent \in 0..len /\ sent + take \in 0..len
  BY <1>a
<1>1. /\ chSeq' = seq + 1
      /\ \/ /\ chSent' = sent /\ chSending' = "no"
            /\ UNCHANGED <<chAssembled, chExpect, chGap>>
         \/ /\ chSent' = sent + take
            /\ chSending' = IF more THEN "yes" ELSE "no"
            /\ ChunkFrameIn(seq, more, body) \/ ChunkLost(seq)
      /\ chSending' = "yes" =>
           chNext' = now' + ChunkGapUs /\ Asks(chNext', left, chRefused)
      /\ chSending' # "yes" =>
           owed' = left /\ UNCHANGED <<chNext, chRefused>>
  BY DEF ChunkEmit, ChunkPiece, chReceiver
<1> HIDE DEF take
<1>2. /\ chAssembled' \in Seq(ChunkBytes) /\ Len(chAssembled') <= ChunkMax
      /\ chExpect' \in 0..ChunkMax /\ chGap' \in Flag /\ ChunkWhole'
      /\ chSending' \in Flag /\ chSent' \in 0..len
      /\ chSending' = "yes" => chSent' = sent + take /\ more
      /\ chSending' = "yes" /\ chGap' = "no" /\ chExpect' > 0 =>
           /\ seq + 1 >= chExpect'
           /\ seq + 1 = chExpect' => chAssembled' = ChunkPart(m, sent + take, len)
  <2>1. CASE /\ chSent' = sent /\ chSending' = "no"
             /\ UNCHANGED <<chAssembled, chExpect, chGap>>
    <3>1. ChunkWhole'
      BY <2>1 DEF ChunkInv, ChunkWhole
    <3>2. /\ chAssembled' \in Seq(ChunkBytes) /\ Len(chAssembled') <= ChunkMax
          /\ chExpect' \in 0..ChunkMax /\ chGap' \in Flag
      BY <2>1, ChunkTypes, ChunkNumbers
    <3>3. QED
      BY <1>b, <2>1, <3>1, <3>2 DEF Flag
  <2>2. CASE /\ chSent' = sent + take
             /\ chSending' = IF more THEN "yes" ELSE "no"
             /\ ChunkFrameIn(seq, more, body) \/ ChunkLost(seq)
    <3>1. /\ chAssembled' \in Seq(ChunkBytes) /\ Len(chAssembled') <= ChunkMax
          /\ chExpect' \in 0..ChunkMax /\ chGap' \in Flag
          /\ ChunkWhole'
          /\ more /\ chGap' = "no" /\ chExpect' > 0 =>
               /\ seq + 1 >= chExpect'
               /\ seq + 1 = chExpect' => chAssembled' = ChunkPart(m, sent + take, len)
      BY <1>b, <2>2, PieceTaken
    <3>2. QED
      BY <1>b, <2>2, <3>1 DEF Flag
  <2>3. QED
    BY <1>1, <2>1, <2>2
<1>3. ChunkFollows'
  <2>1. ASSUME chSending' = "yes", chGap' = "no", chExpect' > 0
        PROVE  /\ chSeq' >= chExpect'
               /\ chSeq' = chExpect' =>
                    chAssembled' = ChunkPart(chMessage', chSent', chLen')
    BY <1>1, <1>2, <2>1
  <2>2. QED
    BY <2>1 DEF ChunkFollows
<1>4. chSending' = "yes" =>
        /\ chMessage' >= 1 /\ chSent' < chLen' /\ chPerFrame' > 0
        /\ 1 <= chSeq' /\ chSeq' <= chSent'
  <2>1. 1 <= seq + 1 /\ seq + 1 <= sent + take
    BY <1>b
  <2>2. QED
    BY <1>a, <1>1, <1>2, <2>1
<1>5. /\ owed' \subseteq Nat /\ chNext' \in Nat /\ chRefused' \in Flag
      /\ chSending' = "yes" => chNext' \in owed' \/ chRefused' = "yes" \/ chNext' <= now'
  <2>1. CASE chSending' = "yes"
    <3>1. chNext' = t + ChunkGapUs /\ Asks(chNext', left, chRefused)
      BY <1>1, <2>1
    <3>2. chNext' \in Nat /\ now' \in Nat
      BY <3>1, ChunkNumbers
    <3>3. QED
      BY <3>1, <3>2, AskedIsExpected DEF Asks
  <2>2. CASE chSending' # "yes"
    BY <1>1, <2>2, ChunkTypes
  <2>3. QED
    BY <2>1, <2>2
<1>6. ChunkTypeOK'
  <2>1. chMessage' \in 0..ChunkMessages /\ chLen' \in 0..ChunkMax
    BY <1>a, ChunkNumbers
  <2>2. chSent' \in 0..chLen' /\ chSeq' \in 0..ChunkMax
    BY <1>b, <1>1, <1>2
  <2>3. QED
    BY <1>2, <1>5, <2>1, <2>2 DEF ChunkTypeOK
<1>7. QED
  BY <1>2, <1>3, <1>4, <1>5, <1>6 DEF ChunkInv, ChunkIsOwed, Expected

\* The sender stands still, and what it would do next is still expected.
LEMMA ChunkStands ==
  ASSUME EnvironmentTypeOK, ChunkInv, now' \in Nat, now' >= now,
         StillOwed \subseteq owed', UNCHANGED chunk
  PROVE  ChunkInv'
<1>1. UNCHANGED <<chMessage, chLen, chSent, chSeq, chCap, chPerFrame, chSending,
                  chNext, chRefused, chAssembled, chExpect, chGap>>
  BY DEF chunk, chSender, chReceiver
<1>2. ChunkTypeOK' /\ ChunkWhole' /\ ChunkFollows'
  <2>1. ChunkTypeOK'
    BY <1>1 DEF ChunkInv, ChunkTypeOK
  <2>2. ChunkWhole'
    BY <1>1 DEF ChunkInv, ChunkWhole
  <2>3. ChunkFollows'
    BY <1>1 DEF ChunkInv, ChunkFollows
  <2>4. QED
    BY <2>1, <2>2, <2>3
<1>3. ChunkIsOwed'
  <2>1. chNext \in Nat
    BY ChunkTypes
  <2>2. QED
    BY <1>1, <2>1, StaysExpected DEF ChunkInv, ChunkIsOwed, Expected
<1>4. QED
  BY <1>1, <1>2, <1>3 DEF ChunkInv

\* One end or both forget.
LEMMA ChunkForgets ==
  ASSUME EnvironmentTypeOK, ChunkInv, ChunkReset
  PROVE  EnvironmentTypeOK' /\ ChunkInv'
<1>1. CASE UNCHANGED <<environment, chReceiver>> /\ ChunkSenderForgets
  <2>1. /\ UNCHANGED <<now, owed, level, chMessage, chAssembled, chExpect, chGap>>
        /\ chLen' = 0 /\ chSent' = 0 /\ chSeq' = 0 /\ chCap' = 0
        /\ chPerFrame' = 0 /\ chSending' = "no" /\ chNext' = 0 /\ chRefused' = "no"
    BY <1>1 DEF environment, chReceiver, ChunkSenderForgets
  <2>2. ChunkTypeOK'
    BY <2>1, ChunkNumbers DEF ChunkInv, ChunkTypeOK, Flag
  <2>3. ChunkWhole' /\ EnvironmentTypeOK'
    BY <2>1 DEF ChunkInv, ChunkWhole, EnvironmentTypeOK
  <2>4. QED
    BY <2>1, <2>2, <2>3 DEF ChunkInv, ChunkIsOwed, ChunkFollows
<1>2. CASE UNCHANGED <<environment, chSender>> /\ ChunkReceiverForgets
  <2>1. /\ UNCHANGED <<now, owed, level, chMessage, chLen, chSent, chSeq, chCap,
                      chPerFrame, chSending, chNext, chRefused>>
        /\ chAssembled' = <<>> /\ chExpect' = 0 /\ chGap' = "no"
    BY <1>2 DEF environment, chSender, ChunkReceiverForgets
  <2>2. chAssembled' \in Seq(ChunkBytes) /\ Len(chAssembled') = 0
    BY <2>1, EmptySeq
  <2>3. ChunkTypeOK'
    BY <2>1, <2>2, ChunkNumbers DEF ChunkInv, ChunkTypeOK, Flag
  <2>4. EnvironmentTypeOK' /\ ChunkIsOwed'
    BY <2>1 DEF ChunkInv, ChunkIsOwed, Expected, EnvironmentTypeOK
  <2>5. QED
    BY <2>1, <2>3, <2>4 DEF ChunkInv, ChunkWhole, ChunkFollows
<1>3. CASE ClockRestarts /\ ChunkSenderForgets /\ ChunkReceiverForgets
  <2>1. EnvironmentTypeOK'
    BY <1>3, RepoweringTime DEF Repowers
  <2>2. /\ chMessage' = chMessage /\ chLen' = 0 /\ chSent' = 0 /\ chSeq' = 0
        /\ chCap' = 0 /\ chPerFrame' = 0 /\ chSending' = "no" /\ chNext' = 0
        /\ chRefused' = "no" /\ chAssembled' = <<>> /\ chExpect' = 0
        /\ chGap' = "no"
    BY <1>3 DEF ChunkSenderForgets, ChunkReceiverForgets
  <2>3. chAssembled' \in Seq(ChunkBytes) /\ Len(chAssembled') = 0
    BY <2>2, EmptySeq
  <2>4. ChunkTypeOK'
    BY <2>2, <2>3, ChunkNumbers DEF ChunkInv, ChunkTypeOK, Flag
  <2>5. QED
    BY <2>1, <2>2, <2>4 DEF ChunkInv, ChunkIsOwed, ChunkWhole, ChunkFollows
<1>4. QED
  BY <1>1, <1>2, <1>3 DEF ChunkReset

LEMMA ChunkStep ==
  EnvironmentTypeOK /\ ChunkInv /\ ChunkNext => EnvironmentTypeOK' /\ ChunkInv'
<1> SUFFICES ASSUME EnvironmentTypeOK, ChunkInv, ChunkNext
             PROVE  EnvironmentTypeOK' /\ ChunkInv'
  OBVIOUS
<1>a. now \in Nat /\ owed \subseteq Nat
  BY DEF EnvironmentTypeOK
<1>1. ASSUME NEW cap \in ChunkCaps, NEW len \in 1..ChunkMax, ChunkSend(cap, len)
      PROVE  EnvironmentTypeOK' /\ ChunkInv'
  <2>1. /\ cap > 0 /\ now' = now /\ level' = level
        /\ chMessage' = chMessage + 1 /\ chMessage < ChunkMessages
        /\ chLen' = len /\ chCap' = cap /\ chPerFrame' = cap
        /\ ChunkEmit(0, 0, owed)
    BY <1>1 DEF ChunkSend
  <2>2. chMessage + 1 \in 1..ChunkMessages
    BY <2>1, ChunkTypes, ChunkNumbers
  <2>3. /\ 0 \in Nat /\ 0 < len /\ ~ (0 > 0) /\ 0 <= 0
        /\ cap \in ChunkCaps \cup {0}
    BY ChunkNumbers
  <2>4. owed' \subseteq Nat /\ ChunkInv'
    BY <1>a, <2>1, <2>2, <2>3, PieceSent
  <2>5. QED
    BY <2>1, <2>4, StandingTime
<1>2. ASSUME NEW cap \in ChunkCaps, ChunkSendTooLong(cap)
      PROVE  EnvironmentTypeOK' /\ ChunkInv'
  <2>1. /\ cap > 0 /\ chPerFrame' = cap
        /\ UNCHANGED <<now, owed, level, chMessage, chLen, chSent, chSeq, chCap,
                      chSending, chNext, chRefused, chAssembled, chExpect, chGap>>
    BY <1>2 DEF ChunkSendTooLong, environment, chReceiver
  <2>2. ChunkTypeOK' /\ EnvironmentTypeOK'
    BY <2>1 DEF ChunkInv, ChunkTypeOK, EnvironmentTypeOK
  <2>3. ChunkIsOwed' /\ ChunkWhole' /\ ChunkFollows'
    BY <2>1 DEF ChunkInv, ChunkIsOwed, ChunkWhole, ChunkFollows, Expected
  <2>4. QED
    BY <2>1, <2>2, <2>3 DEF ChunkInv
<1>3. CASE ChunkAdvance
  <2>1. /\ Serves /\ chSending = "yes" /\ ChunkEmit(chSent, chSeq, StillOwed)
        /\ UNCHANGED <<chMessage, chLen, chCap, chPerFrame>>
    BY <1>3 DEF ChunkAdvance
  <2>2. /\ chMessage >= 1 /\ chSent < chLen /\ chPerFrame > 0
        /\ 1 <= chSeq /\ chSeq <= chSent
        /\ chGap = "no" /\ chExpect > 0 =>
             /\ chSeq >= chExpect
             /\ chSeq = chExpect => chAssembled = ChunkPart(chMessage, chSent, chLen)
    BY <2>1 DEF ChunkInv, ChunkFollows
  <2>3. /\ chMessage \in 1..ChunkMessages /\ chLen \in 1..ChunkMax
        /\ chSent \in Nat /\ chSeq \in Nat /\ chSeq # 0
    BY <2>2, ChunkTypes, ChunkNumbers
  <2>4. chCap \in ChunkCaps \cup {0} /\ chPerFrame \in ChunkCaps \cup {0}
    BY ChunkTypes
  <2>5. now' \in Nat /\ StillOwed \subseteq Nat
    BY <2>1, AdvanceTime
  <2>6. owed' \subseteq Nat /\ ChunkInv'
    BY <2>1, <2>2, <2>3, <2>4, <2>5, PieceSent
  <2>7. QED
    BY <2>1, <2>6, AdvanceTypes
<1>4. CASE ChunkIdle
  <2>1. /\ EnvironmentTypeOK' /\ now' \in Nat /\ now' >= now
        /\ StillOwed \subseteq owed'
    BY <1>4, PassingTime, AdvanceTime, AdvanceTypes
       DEF ChunkIdle, StillOwed, EnvironmentTypeOK
  <2>2. QED
    BY <1>4, <2>1, ChunkStands DEF ChunkIdle
<1>5. CASE ChunkReset
  BY <1>5, ChunkForgets
<1>6. QED
  BY <1>1, <1>2, <1>3, <1>4, <1>5 DEF ChunkNext

-----------------------------------------------------------------------------
(* The infrared remote.                                                    *)

IrInv == IrTypeOK /\ IrIsOwed /\ IrRepeatsAsAsked

LEMMA IrFresh == EnvironmentTypeOK /\ IrInit => IrInv
BY DEF IrInit, IrInv, IrTypeOK, IrIsOwed, IrRepeatsAsAsked, Flag

LEMMA IrTypes ==
  ASSUME EnvironmentTypeOK, IrInv
  PROVE  /\ now \in Nat /\ owed \subseteq Nat
         /\ irHolding \in Flag /\ irDue \in Nat /\ irLeft \in Nat
         /\ irRefused \in Flag /\ irTapped \in Flag
         /\ irPressed \in Nat /\ irAsked \in Nat /\ irEmitted \in Nat
BY DEF EnvironmentTypeOK, IrInv, IrTypeOK

\* n of the repeats that are left are sent in one advance.
LEMMA IrSends ==
  ASSUME EnvironmentTypeOK, IrInv, IrAdvance
  PROVE  owed' \subseteq Nat /\ IrInv'
<1>a. /\ now \in Nat /\ owed \subseteq Nat
      /\ irHolding \in Flag /\ irDue \in Nat /\ irLeft \in Nat
      /\ irRefused \in Flag /\ irTapped \in Flag
      /\ irPressed \in Nat /\ irAsked \in Nat /\ irEmitted \in Nat
  BY IrTypes
<1>b. now' \in Nat /\ StillOwed \subseteq Nat
  BY AdvanceTime DEF IrAdvance
<1>c. /\ irHolding = "yes" /\ UNCHANGED <<irPressed, irAsked, irTapped>>
      /\ irDue = irPressed + (irEmitted + 1) * IrPeriodUs
      /\ irTapped = "no" => irAsked = irEmitted + (irLeft + 1)
  BY DEF IrAdvance, IrInv, IrRepeatsAsAsked
<1>d. IrPeriodUs \in Nat
  BY IrAssumption
<1>1. PICK n \in 1..irLeft + 1 :
        /\ irEmitted' = irEmitted + n
        /\ \/ /\ n <= irLeft
              /\ irLeft' = irLeft - n
              /\ irDue' = irDue + n * IrPeriodUs
              /\ Asks(irDue', StillOwed, irRefused)
              /\ UNCHANGED irHolding
           \/ /\ n = irLeft + 1
              /\ irHolding' = "no" /\ irLeft' = 0
              /\ IF irLeft = 0
                 THEN owed' = StillOwed /\ UNCHANGED <<irDue, irRefused>>
                 ELSE /\ irDue' = irDue + (n - 1) * IrPeriodUs
                      /\ Asks(irDue', StillOwed, irRefused)
  BY DEF IrAdvance, IrRepeat
<1>2. n \in Nat /\ n - 1 \in Nat
  BY <1>a
<1>3. irEmitted' \in Nat
  BY <1>a, <1>1, <1>2
<1>4. \A m \in Nat :
        /\ irDue + m * IrPeriodUs = irPressed + ((irEmitted + 1) + m) * IrPeriodUs
        /\ irDue + m * IrPeriodUs \in Nat
  BY <1>a, <1>c, <1>d, GridStep
<1>5. CASE /\ n <= irLeft /\ irLeft' = irLeft - n
           /\ irDue' = irDue + n * IrPeriodUs
           /\ Asks(irDue', StillOwed, irRefused)
           /\ UNCHANGED irHolding
  <2>1. irLeft' \in Nat /\ irDue' \in Nat
    BY <1>a, <1>2, <1>4, <1>5
  <2>2. /\ owed' \subseteq Nat /\ irRefused' \in Flag
        /\ irDue' \in owed' \/ irRefused' = "yes" \/ irDue' <= now'
    BY <1>b, <1>5, <2>1, AskedIsExpected DEF Asks
  <2>3. irDue' = irPressed' + (irEmitted' + 1) * IrPeriodUs
    <3>1. (irEmitted + 1) + n = (irEmitted + n) + 1
      BY <1>a, <1>2
    <3>2. QED
      BY <1>1, <1>2, <1>4, <1>5, <1>c, <3>1
  <2>4. irTapped' = "no" => irAsked' = irEmitted' + (irLeft' + 1)
    <3>1. irEmitted + (irLeft + 1) = (irEmitted + n) + ((irLeft - n) + 1)
      BY <1>a, <1>2
    <3>2. QED
      BY <1>1, <1>5, <1>c, <3>1
  <2>5. irHolding' = "yes"
    BY <1>5, <1>c
  <2>6. IrRepeatsAsAsked'
    BY <2>3, <2>4, <2>5 DEF IrRepeatsAsAsked
  <2>7. IrTypeOK'
    BY <1>a, <1>c, <1>3, <2>1, <2>2, <2>5 DEF IrTypeOK
  <2>8. QED
    BY <2>2, <2>6, <2>7 DEF IrInv, IrIsOwed, Expected
<1>6. CASE /\ n = irLeft + 1
           /\ irHolding' = "no" /\ irLeft' = 0
           /\ IF irLeft = 0
              THEN owed' = StillOwed /\ UNCHANGED <<irDue, irRefused>>
              ELSE /\ irDue' = irDue + (n - 1) * IrPeriodUs
                   /\ Asks(irDue', StillOwed, irRefused)
  <2>1. irDue' \in Nat
    BY <1>a, <1>2, <1>4, <1>6
  <2>2. owed' \subseteq Nat /\ irRefused' \in Flag
    <3>1. CASE irLeft = 0
      BY <1>6, <1>a, <1>b, <3>1
    <3>2. CASE irLeft # 0
      BY <1>6, <1>b, <2>1, <3>2, AskedIsExpected DEF Asks
    <3>3. QED
      BY <3>1, <3>2
  <2>3. irTapped' = "no" => irAsked' = irEmitted' + 0
    <3>1. irEmitted + (irLeft + 1) = (irEmitted + n) + 0
      BY <1>a, <1>6
    <3>2. QED
      BY <1>1, <1>c, <3>1
  <2>4. IrRepeatsAsAsked'
    BY <1>6, <2>3 DEF IrRepeatsAsAsked
  <2>5. IrTypeOK'
    BY <1>a, <1>c, <1>3, <1>6, <2>1, <2>2 DEF IrTypeOK, Flag
  <2>6. QED
    BY <1>6, <2>2, <2>4, <2>5 DEF IrInv, IrIsOwed
<1>7. QED
  BY <1>1, <1>5, <1>6

LEMMA IrStep ==
  EnvironmentTypeOK /\ IrInv /\ IrNext => EnvironmentTypeOK' /\ IrInv'
<1> SUFFICES ASSUME EnvironmentTypeOK, IrInv, IrNext
             PROVE  EnvironmentTypeOK' /\ IrInv'
  OBVIOUS
<1>a. /\ now \in Nat /\ owed \subseteq Nat
      /\ irHolding \in Flag /\ irDue \in Nat /\ irLeft \in Nat
      /\ irRefused \in Flag /\ irTapped \in Flag
      /\ irPressed \in Nat /\ irAsked \in Nat /\ irEmitted \in Nat
  BY IrTypes
<1>1. ASSUME NEW repeats \in IrRepeats, IrPress(repeats)
      PROVE  EnvironmentTypeOK' /\ IrInv'
  <2>1. /\ repeats \in Nat /\ repeats > 0
        /\ irLeft' = repeats - 1 /\ irHolding' = "yes"
        /\ irDue' = now + IrPeriodUs /\ irPressed' = now /\ irAsked' = repeats
        /\ irEmitted' = 0 /\ irTapped' = "no"
        /\ now' = now /\ level' = level
        /\ Asks(irDue', owed, irRefused)
    BY <1>1, IrAssumption DEF IrPress
  <2>2. irLeft' \in Nat /\ irDue' \in Nat /\ now' \in Nat
    BY <1>a, <2>1, IrAssumption
  <2>3. /\ owed' \subseteq Nat /\ irRefused' \in Flag
        /\ irDue' \in owed' \/ irRefused' = "yes" \/ irDue' <= now'
    BY <1>a, <2>1, <2>2, AskedIsExpected DEF Asks
  <2>4. IrRepeatsAsAsked'
    <3>1. (0 + 1) * IrPeriodUs = IrPeriodUs
      BY IrAssumption
    <3>2. repeats = 0 + ((repeats - 1) + 1)
      BY <2>1
    <3>3. irDue' = irPressed' + (irEmitted' + 1) * IrPeriodUs
      BY <2>1, <3>1
    <3>4. irAsked' = irEmitted' + (irLeft' + 1)
      BY <2>1, <3>2
    <3>5. QED
      BY <2>1, <3>3, <3>4 DEF IrRepeatsAsAsked
  <2>5. IrTypeOK'
    BY <1>a, <2>1, <2>2, <2>3 DEF IrTypeOK, Flag
  <2>6. QED
    BY <2>1, <2>3, <2>4, <2>5, StandingTime DEF IrInv, IrIsOwed, Expected
<1>2. CASE IrTap
  <2>1. /\ irLeft' = 0 /\ irTapped' = "yes"
        /\ UNCHANGED <<now, owed, level, irHolding, irDue, irRefused, irPressed,
                      irAsked, irEmitted>>
    BY <1>2 DEF IrTap, environment, irHold, irHistory
  <2>2. IrTypeOK' /\ EnvironmentTypeOK'
    BY <1>a, <2>1 DEF IrTypeOK, EnvironmentTypeOK, Flag
  <2>3. IrIsOwed' /\ IrRepeatsAsAsked'
    BY <2>1 DEF IrInv, IrIsOwed, IrRepeatsAsAsked, Expected
  <2>4. QED
    BY <2>2, <2>3 DEF IrInv
<1>3. CASE IrAdvance
  <2>1. Serves
    BY <1>3 DEF IrAdvance
  <2>2. QED
    BY <1>3, <2>1, IrSends, AdvanceTypes
<1>4. CASE IrIdle
  <2>1. /\ EnvironmentTypeOK' /\ now' \in Nat /\ now' >= now
        /\ StillOwed \subseteq owed'
    BY <1>4, PassingTime, AdvanceTime, AdvanceTypes
       DEF IrIdle, StillOwed, EnvironmentTypeOK
  <2>2. UNCHANGED <<irHolding, irDue, irRefused, irLeft, irPressed, irAsked,
                    irEmitted, irTapped>>
    BY <1>4 DEF IrIdle, ir, irHold, irHistory
  <2>3. IrIsOwed'
    BY <1>a, <2>1, <2>2, StaysExpected DEF IrInv, IrIsOwed, Expected
  <2>4. IrTypeOK' /\ IrRepeatsAsAsked'
    BY <2>2 DEF IrInv, IrTypeOK, IrRepeatsAsAsked
  <2>5. QED
    BY <2>1, <2>3, <2>4 DEF IrInv
<1>5. CASE IrReset
  BY <1>5, RepoweringTime
     DEF IrReset, IrInv, IrTypeOK, IrIsOwed, IrRepeatsAsAsked, Flag
<1>6. QED
  BY <1>1, <1>2, <1>3, <1>4, <1>5 DEF IrNext

-----------------------------------------------------------------------------
(* The Modbus slave.                                                       *)

\* The silence that ends a request is reckoned from its last byte, its wake
\* is owed until it is served, and between requests the line was quiet.
ModbusInv ==
  /\ ModbusTypeOK /\ ModbusFramesBySilence
  /\ mbPending = "yes" => mbIdleAt = mbCame + ModbusGapUs
  /\ mbPending = "yes" => mbIdleAt \in owed \/ mbRefused = "yes"
  /\ mbPending = "no" => mbSince = 0 \/ now >= mbCame + ModbusGapUs

LEMMA ModbusFresh == EnvironmentTypeOK /\ ModbusInit => ModbusInv
BY ModbusAssumption
   DEF ModbusInit, ModbusInv, ModbusTypeOK, ModbusFramesBySilence, Flag

LEMMA ModbusOwed == ModbusInv => ModbusIsOwed
BY DEF ModbusInv, ModbusIsOwed, Expected

LEMMA ModbusStep ==
  EnvironmentTypeOK /\ ModbusInv /\ ModbusNext => EnvironmentTypeOK' /\ ModbusInv'
<1> SUFFICES ASSUME EnvironmentTypeOK, ModbusInv, ModbusNext
             PROVE  EnvironmentTypeOK' /\ ModbusInv'
  OBVIOUS
<1>a. /\ now \in Nat /\ owed \subseteq Nat
      /\ mbLength \in 0..ModbusMax /\ mbLength \in Nat
      /\ mbPending \in Flag /\ mbRefused \in Flag /\ mbMissed \in Flag
      /\ mbIdleAt \in Nat /\ mbCame \in Nat /\ mbSince \in Nat /\ mbReply \in Nat
  BY ModbusAssumption DEF EnvironmentTypeOK, ModbusInv, ModbusTypeOK
<1>b. /\ ModbusMax \in Nat /\ ModbusRequest \in Nat /\ ModbusRequest < ModbusMax
      /\ 0 \in 0..ModbusMax /\ 0 < ModbusMax
      /\ ModbusGapUs \in Nat /\ ModbusGapUs > 0
  BY ModbusAssumption
<1>c. /\ mbReply = ModbusRequest
      /\ mbPending = "no" => mbLength = 0
      /\ mbPending = "yes" /\ mbMissed = "no" =>
           mbLength = IF mbSince < ModbusMax THEN mbSince ELSE ModbusMax
      /\ mbPending = "yes" => mbIdleAt = mbCame + ModbusGapUs
      /\ mbPending = "yes" => mbIdleAt \in owed \/ mbRefused = "yes"
      /\ mbPending = "no" => mbSince = 0 \/ now >= mbCame + ModbusGapUs
  BY DEF ModbusInv, ModbusFramesBySilence
<1>1. ASSUME NEW n \in 1..ModbusMax, ModbusBytes(n)
      PROVE  EnvironmentTypeOK' /\ ModbusInv'
  <2>1. /\ mbLength' = IF mbLength + n < ModbusMax THEN mbLength + n ELSE ModbusMax
        /\ mbIdleAt' = now + ModbusGapUs /\ mbPending' = "yes"
        /\ mbCame' = now /\ mbSince' = IF WasQuiet THEN n ELSE mbSince + n
        /\ mbMissed' = IF WasQuiet /\ mbPending = "yes" THEN "yes" ELSE mbMissed
        /\ UNCHANGED <<now, level, mbReply>>
        /\ Asks(mbIdleAt', owed, mbRefused)
    BY <1>1 DEF ModbusBytes
  <2>2. mbIdleAt' \in Nat /\ now' \in Nat /\ n \in Nat /\ mbIdleAt' > now'
    BY <1>a, <1>b, <2>1
  <2>3. mbSince' \in Nat /\ mbLength' \in 0..ModbusMax /\ mbMissed' \in Flag
    BY <1>a, <1>b, <2>1, <2>2 DEF Flag
  <2>4. ASSUME mbMissed' = "no"
        PROVE  mbLength' = IF mbSince' < ModbusMax THEN mbSince' ELSE ModbusMax
    <3>1. mbMissed = "no" /\ (mbPending = "yes" => ~ WasQuiet)
      BY <2>1, <2>4
    <3>2. CASE mbPending = "yes"
      <4>1. mbSince' = mbSince + n
        BY <2>1, <3>1, <3>2
      <4>2. mbLength = IF mbSince < ModbusMax THEN mbSince ELSE ModbusMax
        BY <1>c, <3>1, <3>2
      <4>3. QED
        BY <1>a, <1>b, <2>1, <2>2, <4>1, <4>2
    <3>3. CASE mbPending = "no"
      <4>1. mbLength = 0 /\ (mbSince = 0 \/ WasQuiet)
        BY <1>c, <3>3 DEF WasQuiet
      <4>2. mbSince' = n
        BY <1>a, <2>1, <2>2, <4>1
      <4>3. QED
        BY <1>b, <2>1, <2>2, <4>1, <4>2
    <3>4. QED
      BY <1>a, <3>2, <3>3 DEF Flag
  <2>5. /\ owed' \subseteq Nat /\ mbRefused' \in Flag
        /\ mbIdleAt' \in owed' \/ mbRefused' = "yes"
    BY <1>a, <2>1, <2>2, AskedIsExpected DEF Asks
  <2>6. ModbusTypeOK'
    BY <1>a, <2>1, <2>2, <2>3, <2>5 DEF ModbusTypeOK, Flag
  <2>7. ModbusFramesBySilence'
    BY <1>c, <2>1, <2>4 DEF ModbusFramesBySilence
  <2>8. QED
    BY <2>1, <2>5, <2>6, <2>7, StandingTime DEF ModbusInv
<1>2. CASE ModbusAdvance
  <2>1. EnvironmentTypeOK' /\ now' \in Nat
    BY <1>2, AdvanceTime, AdvanceTypes DEF ModbusAdvance
  <2>2. mbPending = "yes" /\ mbPending' = "no" /\ mbMissed' = "no" /\ mbLength' = 0
    BY <1>2 DEF ModbusAdvance, HandleFrame
  <2>3. mbReply' = ModbusRequest
    <3>1. mbLength = ModbusRequest /\ mbMissed = "no" => mbSince = ModbusRequest
      BY <1>a, <1>b, <1>c, <2>2
    <3>2. QED
      BY <1>2, <1>c, <3>1 DEF ModbusAdvance, HandleFrame, Answers
  <2>4. UNCHANGED <<mbIdleAt, mbRefused, mbCame, mbSince>> /\ now' >= mbIdleAt
    BY <1>2 DEF ModbusAdvance
  <2>5. ModbusTypeOK'
    BY <1>a, <1>b, <2>2, <2>3, <2>4 DEF ModbusTypeOK, Flag
  <2>6. QED
    BY <1>b, <1>c, <2>1, <2>2, <2>3, <2>4, <2>5 DEF ModbusInv, ModbusFramesBySilence
<1>3. CASE ModbusIdle
  <2>1. /\ EnvironmentTypeOK' /\ now' \in Nat /\ now' >= now
        /\ StillOwed \subseteq owed'
    BY <1>3, PassingTime, AdvanceTime, AdvanceTypes
       DEF ModbusIdle, StillOwed, EnvironmentTypeOK
  <2>2. UNCHANGED <<mbLength, mbIdleAt, mbPending, mbRefused, mbCame, mbSince,
                    mbMissed, mbReply>>
    BY <1>3 DEF ModbusIdle, modbus
  <2>3. mbPending = "yes" => mbIdleAt \in owed' \/ mbRefused = "yes"
    <3>1. CASE PassesBy
      BY <1>c, <3>1, PassingTime
    <3>2. CASE mbPending = "no" \/ now' < mbIdleAt
      BY <1>a, <1>c, <2>1, <3>2 DEF StillOwed
    <3>3. QED
      BY <1>3, <3>1, <3>2 DEF ModbusIdle
  <2>4. ModbusTypeOK' /\ ModbusFramesBySilence'
    BY <2>2 DEF ModbusInv, ModbusTypeOK, ModbusFramesBySilence
  <2>5. now >= mbCame + ModbusGapUs => now' >= mbCame + ModbusGapUs
    BY <1>a, <1>b, <2>1
  <2>6. QED
    BY <1>c, <2>1, <2>2, <2>3, <2>4, <2>5 DEF ModbusInv
<1>4. CASE ModbusReset
  BY <1>4, <1>b, RepoweringTime
     DEF ModbusReset, ModbusInv, ModbusTypeOK, ModbusFramesBySilence, Flag
<1>5. QED
  BY <1>1, <1>2, <1>3, <1>4 DEF ModbusNext

LEMMA ModbusEnds ==
  EnvironmentTypeOK /\ ModbusInv /\ ModbusNext =>
    /\ ModbusAdvance => OnTime(mbCame + ModbusGapUs, mbRefused)
    /\ mbMissed = "no" /\ mbMissed' = "yes" =>
         mbRefused = "yes" \/ mbIdleAt \in owed
<1> SUFFICES ASSUME EnvironmentTypeOK, ModbusInv, ModbusNext
             PROVE  /\ ModbusAdvance => OnTime(mbCame + ModbusGapUs, mbRefused)
                    /\ mbMissed = "no" /\ mbMissed' = "yes" =>
                         mbRefused = "yes" \/ mbIdleAt \in owed
  OBVIOUS
<1>1. ASSUME ModbusAdvance PROVE OnTime(mbCame + ModbusGapUs, mbRefused)
  <2>1. /\ mbIdleAt = mbCame + ModbusGapUs /\ mbIdleAt \in Nat
        /\ Expected(mbIdleAt, mbRefused)
    BY <1>1, ModbusOwed DEF ModbusAdvance, ModbusInv, ModbusTypeOK, ModbusIsOwed
  <2>2. Advances /\ now' >= mbIdleAt
    BY <1>1 DEF ModbusAdvance
  <2>3. OnTime(mbIdleAt, mbRefused)
    BY <2>1, <2>2, EndsInTime
  <2>4. QED
    BY <2>1, <2>3
<1>2. ASSUME mbMissed = "no", mbMissed' = "yes" PROVE mbPending = "yes"
  BY <1>2 DEF ModbusNext, ModbusBytes, ModbusAdvance, ModbusIdle, ModbusReset, modbus
<1>3. QED
  BY <1>1, <1>2 DEF ModbusInv

-----------------------------------------------------------------------------
(* The LoRa radio.                                                         *)

\* What is on the air ends when its own time is over.
LoraInv ==
  /\ LoraTypeOK /\ LoraIsOwed
  /\ loraBusy = "yes" => loraDue = loraSince + loraBytes * LoraByteUs

LEMMA LoraFresh == EnvironmentTypeOK /\ LoraInit => LoraInv
BY LoraAssumption DEF LoraInit, LoraInv, LoraTypeOK, LoraIsOwed, Flag

\* The radio keeps still while time passes.
LEMMA LoraStays ==
  ASSUME EnvironmentTypeOK, LoraInv, now' \in Nat, now' >= now,
         StillOwed \subseteq owed', UNCHANGED lora
  PROVE  LoraInv'
<1>1. UNCHANGED <<loraBusy, loraDue, loraDone, loraRefused, loraSince, loraBytes>>
  BY DEF lora
<1>2. loraDue \in Nat
  BY DEF LoraInv, LoraTypeOK
<1>3. LoraIsOwed'
  BY <1>1, <1>2, StaysExpected DEF LoraInv, LoraIsOwed, Expected
<1>4. LoraTypeOK'
  BY <1>1 DEF LoraInv, LoraTypeOK
<1>5. QED
  BY <1>1, <1>3, <1>4 DEF LoraInv

LEMMA LoraStep ==
  EnvironmentTypeOK /\ LoraInv /\ LoraNext => EnvironmentTypeOK' /\ LoraInv'
<1> SUFFICES ASSUME EnvironmentTypeOK, LoraInv, LoraNext
             PROVE  EnvironmentTypeOK' /\ LoraInv'
  OBVIOUS
<1>a. /\ now \in Nat /\ owed \subseteq Nat
      /\ loraBusy \in Flag /\ loraDue \in Nat /\ loraDone \in {"low", "high"}
      /\ loraRefused \in Flag /\ loraSince \in Nat
      /\ loraBytes \in 0..LoraMaxBytes
  BY DEF EnvironmentTypeOK, LoraInv, LoraTypeOK
<1>1. ASSUME NEW bytes \in 0..LoraMaxBytes + 1, LoraUplink(bytes)
      PROVE  EnvironmentTypeOK' /\ LoraInv'
  <2>1. now' = now /\ level' = level
    BY <1>1 DEF LoraUplink
  <2>2. CASE LoraHears(bytes) /\ loraBusy' = "yes"
    <3>1. /\ loraBusy = "no" /\ bytes \in 0..LoraMaxBytes /\ bytes \in Nat
          /\ loraDone' = "low" /\ loraDue' = now + bytes * LoraByteUs
          /\ loraSince' = now /\ loraBytes' = bytes
          /\ Asks(loraDue', owed, loraRefused)
      BY <1>1, <2>2, LoraAssumption DEF LoraUplink, LoraHears
    <3>2. bytes * LoraByteUs \in Nat
      BY <3>1, LoraAssumption
    <3>3. loraDue' \in Nat /\ now' \in Nat
      BY <1>a, <2>1, <3>1, <3>2
    <3>4. /\ owed' \subseteq Nat /\ loraRefused' \in Flag
          /\ loraDue' \in owed' \/ loraRefused' = "yes" \/ loraDue' <= now'
      BY <1>a, <3>1, <3>3, AskedIsExpected DEF Asks
    <3>5. LoraIsOwed'
      BY <3>1, <3>4 DEF LoraIsOwed, Expected
    <3>6. LoraTypeOK'
      BY <1>a, <2>2, <3>1, <3>3, <3>4 DEF LoraTypeOK, Flag
    <3>7. QED
      BY <2>1, <3>1, <3>4, <3>5, <3>6, StandingTime DEF LoraInv
  <2>3. CASE owed' = owed /\ UNCHANGED lora
    <3>1. now' \in Nat /\ now' >= now /\ StillOwed \subseteq owed'
      BY <1>a, <2>1, <2>3 DEF StillOwed
    <3>2. QED
      BY <1>a, <2>1, <2>3, <3>1, LoraStays, StandingTime
  <2>4. QED
    BY <1>1, <2>2, <2>3 DEF LoraUplink
<1>2. CASE LoraAdvance
  <2>1. Advances /\ owed' = StillOwed
    BY <1>2, AdvanceTime DEF LoraAdvance
  <2>2. EnvironmentTypeOK' /\ now' \in Nat /\ now' >= now
    BY <2>1, AdvanceTime, AdvanceTypes
  <2>3. CASE loraBusy' = "no" /\ loraDone' = "high"
    BY <1>2, <1>a, <2>2, <2>3 DEF LoraAdvance, LoraInv, LoraTypeOK, LoraIsOwed, Flag
  <2>4. CASE UNCHANGED <<loraBusy, loraDone>>
    <3>1. UNCHANGED lora
      BY <1>2, <2>4 DEF LoraAdvance, lora
    <3>2. QED
      BY <2>1, <2>2, <3>1, LoraStays
  <2>5. QED
    BY <1>2, <2>3, <2>4 DEF LoraAdvance
<1>3. CASE LoraIdle
  <2>1. EnvironmentTypeOK' /\ now' >= now /\ StillOwed \subseteq owed'
    BY <1>3, PassingTime DEF LoraIdle, StillOwed
  <2>2. now' \in Nat
    BY <2>1 DEF EnvironmentTypeOK
  <2>3. QED
    BY <1>3, <2>1, <2>2, LoraStays DEF LoraIdle
<1>4. CASE LoraReset
  BY <1>4, <1>a, RepoweringTime, LoraAssumption
     DEF LoraReset, LoraInv, LoraTypeOK, LoraIsOwed, Flag
<1>5. QED
  BY <1>1, <1>2, <1>3, <1>4 DEF LoraNext

LEMMA LoraEnds ==
  EnvironmentTypeOK /\ LoraInv /\ LoraNext =>
    (loraBusy = "yes" /\ loraDone' = "high" /\ loraDone = "low" =>
       OnTime(loraSince + loraBytes * LoraByteUs, loraRefused))
<1> SUFFICES ASSUME EnvironmentTypeOK, LoraInv, LoraNext,
                    loraBusy = "yes", loraDone' = "high", loraDone = "low"
             PROVE  OnTime(loraSince + loraBytes * LoraByteUs, loraRefused)
  OBVIOUS
<1>1. LoraAdvance
  BY DEF LoraNext, LoraUplink, LoraHears, LoraIdle, LoraReset, lora
<1>2. /\ loraDue = loraSince + loraBytes * LoraByteUs
      /\ loraDue \in Nat /\ Expected(loraDue, loraRefused)
  BY DEF LoraInv, LoraTypeOK, LoraIsOwed
<1>3. Advances /\ now' >= loraDue
  BY <1>1 DEF LoraAdvance
<1>4. OnTime(loraDue, loraRefused)
  BY <1>2, <1>3, EndsInTime
<1>5. QED
  BY <1>2, <1>4

-----------------------------------------------------------------------------
(* The GPS receiver.                                                       *)

GpsInv == GpsTypeOK /\ GpsIsOwed

LEMMA GpsFresh == EnvironmentTypeOK /\ GpsInit => GpsInv
BY DEF GpsInit, GpsInv, GpsTypeOK, GpsIsOwed, Flag

\* A sentence is asked for a period from t.
LEMMA ArmingGps ==
  ASSUME NEW t \in Nat, now' = t, NEW left, left \subseteq Nat,
         GpsArm(t, left), gpsRunning' = "yes",
         {gpsStarted', gpsSent'} \subseteq Nat
  PROVE  owed' \subseteq Nat /\ GpsInv'
<1>1. gpsNext' = t + GpsPeriodUs /\ Asks(gpsNext', left, gpsRefused)
  BY DEF GpsArm
<1>2. gpsNext' \in Nat /\ now' \in Nat
  BY <1>1, GpsAssumption
<1>3. /\ owed' \subseteq Nat /\ gpsRefused' \in Flag
      /\ gpsNext' \in owed' \/ gpsRefused' = "yes" \/ gpsNext' <= now'
  BY <1>1, <1>2, AskedIsExpected DEF Asks
<1>4. GpsTypeOK'
  BY <1>2, <1>3 DEF GpsTypeOK, Flag
<1>5. QED
  BY <1>3, <1>4 DEF GpsInv, GpsIsOwed, Expected

LEMMA GpsStep ==
  EnvironmentTypeOK /\ GpsInv /\ GpsNextStep => EnvironmentTypeOK' /\ GpsInv'
<1> SUFFICES ASSUME EnvironmentTypeOK, GpsInv, GpsNextStep
             PROVE  EnvironmentTypeOK' /\ GpsInv'
  OBVIOUS
<1>a. /\ now \in Nat /\ owed \subseteq Nat
      /\ gpsRunning \in Flag /\ gpsRefused \in Flag
      /\ gpsNext \in Nat /\ gpsStarted \in Nat /\ gpsSent \in Nat
  BY DEF EnvironmentTypeOK, GpsInv, GpsTypeOK
<1>1. CASE GpsStart
  <2>1. /\ gpsRunning' = "yes" /\ {gpsStarted', gpsSent'} \subseteq Nat
        /\ now' = now /\ level' = level /\ GpsArm(now, owed)
    BY <1>1, <1>a DEF GpsStart
  <2>2. owed' \subseteq Nat /\ GpsInv'
    BY <1>a, <2>1, ArmingGps
  <2>3. QED
    BY <2>1, <2>2, StandingTime
<1>2. CASE GpsStop
  BY <1>2, <1>a DEF GpsStop, environment, EnvironmentTypeOK, GpsInv, GpsTypeOK,
     GpsIsOwed, Flag
<1>3. CASE GpsAdvance
  <2>1. Serves /\ now' \in Nat /\ StillOwed \subseteq Nat
    BY <1>3, AdvanceTime DEF GpsAdvance
  <2>2. /\ gpsRunning' = "yes" /\ {gpsStarted', gpsSent'} \subseteq Nat
        /\ GpsArm(now', StillOwed)
    BY <1>3, <1>a DEF GpsAdvance
  <2>3. owed' \subseteq Nat /\ GpsInv'
    BY <2>1, <2>2, ArmingGps
  <2>4. QED
    BY <2>1, <2>3, AdvanceTypes
<1>4. CASE GpsIdle
  <2>1. /\ EnvironmentTypeOK' /\ now' \in Nat /\ now' >= now
        /\ StillOwed \subseteq owed'
    BY <1>4, PassingTime, AdvanceTime, AdvanceTypes
       DEF GpsIdle, StillOwed, EnvironmentTypeOK
  <2>2. UNCHANGED <<gpsRunning, gpsNext, gpsRefused, gpsStarted, gpsSent>>
    BY <1>4 DEF GpsIdle, gps
  <2>3. GpsIsOwed'
    BY <1>a, <2>1, <2>2, StaysExpected DEF GpsInv, GpsIsOwed, Expected
  <2>4. QED
    BY <1>a, <2>1, <2>2, <2>3 DEF GpsInv, GpsTypeOK
<1>5. CASE GpsReset
  BY <1>5, RepoweringTime DEF GpsReset, GpsInv, GpsTypeOK, GpsIsOwed, Flag
<1>6. QED
  BY <1>1, <1>2, <1>3, <1>4, <1>5 DEF GpsNextStep

-----------------------------------------------------------------------------
(* The modem.                                                              *)

\* The answer that is waited for is that of the command that is owed one.
ModemInv ==
  /\ ModemTypeOK
  /\ \A t \in modemOwing : modemPending = "yes" /\ modemDue = t + ModemUs

LEMMA ModemFresh == EnvironmentTypeOK /\ ModemInit => ModemInv
BY DEF ModemInit, ModemInv, ModemTypeOK, Flag

LEMMA ModemStep ==
  EnvironmentTypeOK /\ ModemInv /\ ModemNext => EnvironmentTypeOK' /\ ModemInv'
<1> SUFFICES ASSUME EnvironmentTypeOK, ModemInv, ModemNext
             PROVE  EnvironmentTypeOK' /\ ModemInv'
  OBVIOUS
<1>a. /\ now \in Nat /\ modemPending \in Flag /\ modemDue \in Nat
      /\ modemOwing \subseteq Nat
      /\ \A t \in modemOwing : modemPending = "yes" /\ modemDue = t + ModemUs
  BY DEF EnvironmentTypeOK, ModemInv, ModemTypeOK
<1>1. CASE ModemDispatch
  <2>1. /\ modemPending' = "yes" /\ modemDue' = now + ModemUs
        /\ modemOwing' = {now} /\ UNCHANGED <<now, owed, level>>
    BY <1>1 DEF ModemDispatch, environment
  <2>2. modemDue' \in Nat
    BY <1>a, <2>1, ModemAssumption
  <2>3. QED
    BY <1>a, <2>1, <2>2 DEF ModemInv, ModemTypeOK, EnvironmentTypeOK, Flag
<1>2. CASE ModemAdvance
  <2>1. EnvironmentTypeOK'
    BY <1>2, AdvanceTime, AdvanceTypes DEF ModemAdvance
  <2>2. QED
    BY <1>2, <1>a, <2>1 DEF ModemAdvance, ModemInv, ModemTypeOK, Flag
<1>3. CASE ModemIdle
  <2>1. EnvironmentTypeOK'
    BY <1>3, PassingTime, AdvanceTime, AdvanceTypes DEF ModemIdle
  <2>2. QED
    BY <1>3, <1>a, <2>1 DEF ModemIdle, modem, ModemInv, ModemTypeOK
<1>4. CASE ModemReset
  BY <1>4, RepoweringTime DEF ModemReset, ModemInv, ModemTypeOK, Flag
<1>5. QED
  BY <1>1, <1>2, <1>3, <1>4 DEF ModemNext

LEMMA ModemEnds ==
  EnvironmentTypeOK /\ ModemInv /\ ModemNext =>
    (ModemAdvance => \A t \in modemOwing : now' >= t + ModemUs)
BY DEF ModemInv, ModemAdvance

-----------------------------------------------------------------------------
(* The ranging anchors.                                                    *)

\* Every anchor that has yet to answer waits for its own slot.
UwbInv ==
  /\ UwbTypeOK /\ UwbIsOwed
  /\ \A a \in uwbPending : uwbDue[a] = uwbPolled[a] + UwbBaseUs + a * UwbSlotUs

LEMMA UwbFresh == EnvironmentTypeOK /\ UwbInit => UwbInv
BY DEF UwbInit, UwbInv, UwbTypeOK, UwbIsOwed

LEMMA UwbTypes ==
  ASSUME EnvironmentTypeOK, UwbInv
  PROVE  /\ now \in Nat /\ owed \subseteq Nat
         /\ uwbPending \subseteq UwbAnchors /\ uwbRefused \subseteq UwbAnchors
         /\ uwbDue \in [UwbAnchors -> Nat] /\ uwbPolled \in [UwbAnchors -> Nat]
         /\ \A a \in uwbPending :
              /\ a \in Nat /\ uwbDue[a] \in Nat /\ uwbPolled[a] \in Nat
              /\ uwbDue[a] \in owed \/ a \in uwbRefused \/ uwbDue[a] <= now
              /\ uwbDue[a] = uwbPolled[a] + UwbBaseUs + a * UwbSlotUs
BY UwbAssumption DEF EnvironmentTypeOK, UwbInv, UwbTypeOK, UwbIsOwed, Expected

\* The anchors that still wait keep waiting while time passes.
LEMMA UwbWaits ==
  ASSUME EnvironmentTypeOK, UwbInv, now' \in Nat, now' >= now,
         StillOwed \subseteq owed', uwbPending' \subseteq uwbPending,
         UNCHANGED <<uwbDue, uwbPolled, uwbRefused>>
  PROVE  UwbInv'
<1>1. UwbTypeOK'
  BY DEF UwbInv, UwbTypeOK
<1>2. ASSUME NEW a \in uwbPending'
      PROVE  Expected(uwbDue[a], IF a \in uwbRefused THEN "yes" ELSE "no")'
  <2>1. a \in uwbPending /\ uwbDue'[a] = uwbDue[a] /\ uwbDue[a] \in Nat
    BY <1>2, UwbTypes
  <2>2. uwbDue[a] \in owed \/ a \in uwbRefused \/ uwbDue[a] <= now
    BY <2>1, UwbTypes
  <2>3. uwbDue[a] \in owed /\ uwbDue[a] > now' => uwbDue[a] \in owed'
    BY DEF StillOwed
  <2>4. now \in Nat
    BY UwbTypes
  <2>5. uwbDue[a] <= now => uwbDue[a] <= now'
    BY <2>1, <2>4
  <2>6. uwbDue[a] > now' \/ uwbDue[a] <= now'
    BY <2>1
  <2>7. QED
    BY <2>1, <2>2, <2>3, <2>5, <2>6 DEF Expected
<1>3. UwbIsOwed'
  BY <1>2 DEF UwbIsOwed
<1>4. QED
  BY <1>1, <1>3 DEF UwbInv

LEMMA UwbStep ==
  EnvironmentTypeOK /\ UwbInv /\ UwbNext => EnvironmentTypeOK' /\ UwbInv'
<1> SUFFICES ASSUME EnvironmentTypeOK, UwbInv, UwbNext
             PROVE  EnvironmentTypeOK' /\ UwbInv'
  OBVIOUS
<1>a. /\ now \in Nat /\ owed \subseteq Nat
      /\ uwbPending \subseteq UwbAnchors /\ uwbRefused \subseteq UwbAnchors
      /\ uwbDue \in [UwbAnchors -> Nat] /\ uwbPolled \in [UwbAnchors -> Nat]
  BY UwbTypes
<1>b. \A a \in uwbPending :
        /\ a \in Nat /\ uwbDue[a] \in Nat /\ uwbPolled[a] \in Nat
        /\ uwbDue[a] \in owed \/ a \in uwbRefused \/ uwbDue[a] <= now
        /\ uwbDue[a] = uwbPolled[a] + UwbBaseUs + a * UwbSlotUs
  BY UwbTypes
<1>1. ASSUME NEW heard \in SUBSET UwbAnchors, UwbPoll(heard)
      PROVE  EnvironmentTypeOK' /\ UwbInv'
  <2> DEFINE taken == heard \ uwbPending
  <2>1. /\ uwbPending' = uwbPending \cup taken
        /\ uwbDue' = [a \in UwbAnchors |-> IF a \in taken THEN UwbSlot(a) ELSE uwbDue[a]]
        /\ uwbPolled' = [a \in UwbAnchors |-> IF a \in taken THEN now ELSE uwbPolled[a]]
        /\ UNCHANGED <<now, level>>
    BY <1>1 DEF UwbPoll
  <2>2. PICK refused \in SUBSET taken :
          /\ owed' = owed \cup {uwbDue'[a] : a \in taken \ refused}
          /\ uwbRefused' = (uwbRefused \ taken) \cup refused
    BY <1>1 DEF UwbPoll
  <2>3. \A a \in UwbAnchors :
          UwbSlot(a) \in Nat /\ UwbSlot(a) = now + UwbBaseUs + a * UwbSlotUs
    BY <1>a, UwbAssumption DEF UwbSlot
  <2>4. /\ taken \subseteq UwbAnchors
        /\ \A a \in taken : uwbDue'[a] = UwbSlot(a) /\ uwbPolled'[a] = now
        /\ \A a \in uwbPending : uwbDue'[a] = uwbDue[a] /\ uwbPolled'[a] = uwbPolled[a]
        /\ uwbDue' \in [UwbAnchors -> Nat] /\ uwbPolled' \in [UwbAnchors -> Nat]
    BY <1>a, <2>1, <2>3
  <2>5. /\ owed \subseteq owed' /\ owed' \subseteq Nat
        /\ \A a \in taken : uwbDue'[a] \in owed' \/ a \in uwbRefused'
        /\ \A a \in uwbPending : a \in uwbRefused => a \in uwbRefused'
    BY <1>a, <2>2, <2>3, <2>4
  <2>6. UwbTypeOK'
    BY <1>a, <2>1, <2>2, <2>4 DEF UwbTypeOK
  <2>7. UwbIsOwed'
    <3>1. ASSUME NEW a \in uwbPending'
          PROVE  uwbDue'[a] \in owed' \/ a \in uwbRefused' \/ uwbDue'[a] <= now'
      BY <1>b, <2>1, <2>4, <2>5, <3>1
    <3>2. QED
      BY <3>1 DEF UwbIsOwed, Expected
  <2>8. \A a \in uwbPending' : uwbDue'[a] = uwbPolled'[a] + UwbBaseUs + a * UwbSlotUs
    BY <1>b, <2>1, <2>3, <2>4
  <2>9. QED
    BY <2>1, <2>5, <2>6, <2>7, <2>8, StandingTime DEF UwbInv
<1>2. ASSUME NEW some \in SUBSET UwbAnchors, UwbReset(some)
      PROVE  EnvironmentTypeOK' /\ UwbInv'
  <2>1. /\ uwbPending' = uwbPending \ some /\ uwbRefused' = uwbRefused \ some
        /\ uwbDue' = [a \in UwbAnchors |-> IF a \in some THEN 0 ELSE uwbDue[a]]
        /\ uwbPolled' = [a \in UwbAnchors |-> IF a \in some THEN 0 ELSE uwbPolled[a]]
    BY <1>2 DEF UwbReset
  <2>2. UwbTypeOK'
    BY <1>a, <2>1 DEF UwbTypeOK
  <2>3. CASE UNCHANGED environment
    <3>1. UNCHANGED <<now, owed, level>>
      BY <2>3 DEF environment
    <3>2. \A a \in uwbPending' :
            /\ a \in uwbPending /\ (a \in uwbRefused => a \in uwbRefused')
            /\ uwbDue'[a] = uwbDue[a] /\ uwbPolled'[a] = uwbPolled[a]
      BY <1>a, <2>1
    <3>3. UwbIsOwed'
      BY <1>b, <3>1, <3>2 DEF UwbIsOwed, Expected
    <3>4. QED
      BY <1>b, <2>2, <3>1, <3>2, <3>3 DEF UwbInv, EnvironmentTypeOK
  <2>4. CASE some = UwbAnchors /\ ClockRestarts
    <3>1. uwbPending' = {}
      BY <1>a, <2>1, <2>4
    <3>2. EnvironmentTypeOK'
      BY <2>4, RepoweringTime DEF Repowers
    <3>3. QED
      BY <2>2, <3>1, <3>2 DEF UwbInv, UwbIsOwed
  <2>5. QED
    BY <1>2, <2>3, <2>4 DEF UwbReset
<1>3. CASE UwbAdvance
  <2>1. /\ EnvironmentTypeOK' /\ now' \in Nat /\ now' >= now
        /\ StillOwed \subseteq owed'
    BY <1>3, AdvanceTime, AdvanceTypes DEF UwbAdvance
  <2>2. /\ uwbPending' \subseteq uwbPending
        /\ UNCHANGED <<uwbDue, uwbPolled, uwbRefused>>
    BY <1>3 DEF UwbAdvance
  <2>3. QED
    BY <2>1, <2>2, UwbWaits
<1>4. CASE UwbIdle
  <2>1. EnvironmentTypeOK' /\ now' >= now /\ StillOwed \subseteq owed'
    BY <1>4, PassingTime DEF UwbIdle, StillOwed
  <2>2. now' \in Nat /\ UNCHANGED <<uwbPending, uwbDue, uwbPolled, uwbRefused>>
    BY <1>4, <2>1 DEF UwbIdle, uwb, EnvironmentTypeOK
  <2>3. QED
    BY <2>1, <2>2, UwbWaits
<1>5. QED
  BY <1>1, <1>2, <1>3, <1>4 DEF UwbNext

\* The slots of one poll are apart.
LEMMA SlotsApart ==
  ASSUME NEW a \in Nat, NEW b \in Nat, a < b
  PROVE  a * UwbSlotUs < b * UwbSlotUs
<1>1. UwbSlotUs \in Nat /\ UwbSlotUs > 0
  BY UwbAssumption
<1>2. PICK d \in Nat : b = a + d /\ d > 0
  <2>1. b - a \in Nat /\ b = a + (b - a) /\ b - a > 0
    OBVIOUS
  <2>2. QED
    BY <2>1
<1>3. b * UwbSlotUs = a * UwbSlotUs + d * UwbSlotUs
  BY <1>1, <1>2
<1>4. d * UwbSlotUs > 0 /\ d * UwbSlotUs \in Nat /\ a * UwbSlotUs \in Nat
  BY <1>1, <1>2
<1>5. QED
  BY <1>3, <1>4

LEMMA UwbEnds ==
  EnvironmentTypeOK /\ UwbInv /\ UwbNext =>
    (UwbAdvance =>
       \A a, b \in uwbPending \ uwbPending' :
         a < b /\ uwbPolled[a] = uwbPolled[b] =>
           a \in uwbRefused \/ now >= uwbDue[a])
<1> SUFFICES ASSUME EnvironmentTypeOK, UwbInv, UwbAdvance,
                    NEW a \in uwbPending \ uwbPending',
                    NEW b \in uwbPending \ uwbPending',
                    a < b, uwbPolled[a] = uwbPolled[b], a \notin uwbRefused
             PROVE  now >= uwbDue[a]
  OBVIOUS
<1>1. /\ now \in Nat /\ a \in Nat /\ b \in Nat
      /\ uwbDue[a] \in Nat /\ uwbDue[b] \in Nat /\ uwbPolled[a] \in Nat
      /\ uwbDue[a] \in owed \/ uwbDue[a] <= now
      /\ uwbDue[a] = uwbPolled[a] + UwbBaseUs + a * UwbSlotUs
      /\ uwbDue[b] = uwbPolled[a] + UwbBaseUs + b * UwbSlotUs
  BY UwbTypes
<1>2. a * UwbSlotUs < b * UwbSlotUs /\ a * UwbSlotUs \in Nat /\ b * UwbSlotUs \in Nat
  BY <1>1, SlotsApart, UwbAssumption
<1>3. uwbDue[a] < uwbDue[b]
  BY <1>1, <1>2, UwbAssumption
<1>4. now' \in Nat /\ \A w \in owed : w > now => w >= now'
  BY AdvanceTime DEF UwbAdvance
<1>5. ~ (uwbDue[b] > now')
  BY DEF UwbAdvance
<1>6. QED
  BY <1>1, <1>3, <1>4, <1>5

-----------------------------------------------------------------------------
(* The catalog: one part is on the bench, the others are as new.           *)

\* What the steps of each part keep.
PartsInv ==
  /\ FlashInv /\ ImuInv /\ RtcInv /\ SonicInv /\ PirInv /\ SdInv /\ ShtInv
  /\ QmpInv /\ TapeInv /\ ChunkInv /\ IrInv /\ LoraInv /\ UwbInv /\ ModbusInv
  /\ GpsInv /\ ModemInv

\* Nothing was ever begun in a part that is not on the bench.
AsideAsNew ==
  /\ part # "flash" => busy = "no"
  /\ part # "imu" => ImuInit
  /\ part # "rtc" => RtcInit
  /\ part # "sonic" => SonicInit
  /\ part # "pir" => PirInit
  /\ part # "sd" => SdInit
  /\ part # "sht" => ShtInit
  /\ part # "qmp" => QmpInit
  /\ part # "tape" => TapeInit
  /\ part # "chunk" => ChunkInit
  /\ part # "ir" => IrInit
  /\ part # "lora" => LoraInit
  /\ part # "uwb" => UwbInit
  /\ part # "modbus" => ModbusInit
  /\ part # "gps" => GpsInit
  /\ part # "modem" => ModemInit

CatalogInv == EnvironmentTypeOK /\ part \in Parts /\ PartsInv /\ AsideAsNew

LEMMA CatalogInitially == CatalogInit => CatalogInv
<1> SUFFICES ASSUME CatalogInit PROVE CatalogInv
  OBVIOUS
<1>1. EnvironmentTypeOK
  BY EnvironmentAssumption
     DEF CatalogInit, FlashInit, EnvironmentInit, EnvironmentTypeOK
<1>2. PartsInv
  BY <1>1, FlashInitially, ImuFresh, RtcFresh, SonicFresh, PirFresh, SdFresh,
     ShtFresh, QmpFresh, TapeFresh, ChunkFresh, IrFresh, LoraFresh, UwbFresh,
     ModbusFresh, GpsFresh, ModemFresh
     DEF CatalogInit, PartsInv
<1>3. AsideAsNew
  BY DEF CatalogInit, AsideAsNew, FlashInit
<1>4. QED
  BY <1>1, <1>2, <1>3 DEF CatalogInit, CatalogInv

\* A step is one of the part on the bench, and leaves the others alone.
LEMMA OneOnTheBench ==
  ASSUME CatalogNext
  PROVE  /\ part' = part
         /\ IF part = "flash" THEN FlashNext ELSE UNCHANGED flash
         /\ IF part = "imu" THEN ImuNext ELSE UNCHANGED imu
         /\ IF part = "rtc" THEN RtcNext ELSE UNCHANGED rtc
         /\ IF part = "sonic" THEN SonicNext ELSE UNCHANGED sonic
         /\ IF part = "pir" THEN PirNext ELSE UNCHANGED pir
         /\ IF part = "sd" THEN SdNext ELSE UNCHANGED sd
         /\ IF part = "sht" THEN ShtNext ELSE UNCHANGED sht
         /\ IF part = "qmp" THEN QmpNext ELSE UNCHANGED qmp
         /\ IF part = "tape" THEN TapeNext ELSE UNCHANGED tape
         /\ IF part = "chunk" THEN ChunkNext ELSE UNCHANGED chunk
         /\ IF part = "ir" THEN IrNext ELSE UNCHANGED ir
         /\ IF part = "lora" THEN LoraNext ELSE UNCHANGED lora
         /\ IF part = "uwb" THEN UwbNext ELSE UNCHANGED uwb
         /\ IF part = "modbus" THEN ModbusNext ELSE UNCHANGED modbus
         /\ IF part = "gps" THEN GpsNextStep ELSE UNCHANGED gps
         /\ IF part = "modem" THEN ModemNext ELSE UNCHANGED modem
<1>1. CASE StoreNext
  BY <1>1 DEF StoreNext, radios, serials, sensors
<1>2. CASE SensorNext
  BY <1>2 DEF SensorNext, radios, serials, stores
<1>3. CASE RadioNext
  BY <1>3 DEF RadioNext, serials, sensors, stores
<1>4. CASE SerialNext
  BY <1>4 DEF SerialNext, radios, sensors, stores
<1>5. QED
  BY <1>1, <1>2, <1>3, <1>4 DEF CatalogNext

\* Time that passes does nothing to a part that is as new.
LEMMA AsideStays ==
  ASSUME PartsInv, AsideAsNew, EnvironmentTypeOK', part' = part
  PROVE  /\ part # "flash" /\ UNCHANGED flash => FlashInv' /\ busy' = "no"
         /\ part # "imu" /\ UNCHANGED imu => ImuInv' /\ ImuInit'
         /\ part # "rtc" /\ UNCHANGED rtc => RtcInv' /\ RtcInit'
         /\ part # "sonic" /\ UNCHANGED sonic => SonicInv' /\ SonicInit'
         /\ part # "pir" /\ UNCHANGED pir => PirInv' /\ PirInit'
         /\ part # "sd" /\ UNCHANGED sd => SdInv' /\ SdInit'
         /\ part # "sht" /\ UNCHANGED sht => ShtInv' /\ ShtInit'
         /\ part # "qmp" /\ UNCHANGED qmp => QmpInv' /\ QmpInit'
         /\ part # "tape" /\ UNCHANGED tape => TapeInv' /\ TapeInit'
         /\ part # "chunk" /\ UNCHANGED chunk => ChunkInv' /\ ChunkInit'
         /\ part # "ir" /\ UNCHANGED ir => IrInv' /\ IrInit'
         /\ part # "lora" /\ UNCHANGED lora => LoraInv' /\ LoraInit'
         /\ part # "uwb" /\ UNCHANGED uwb => UwbInv' /\ UwbInit'
         /\ part # "modbus" /\ UNCHANGED modbus => ModbusInv' /\ ModbusInit'
         /\ part # "gps" /\ UNCHANGED gps => GpsInv' /\ GpsInit'
         /\ part # "modem" /\ UNCHANGED modem => ModemInv' /\ ModemInit'
<1>1. part # "flash" /\ UNCHANGED flash => FlashInv' /\ busy' = "no"
  BY DEF PartsInv, AsideAsNew, FlashInv, FlashTypeOK, WritingIsOwed, flash,
         line, write
<1>2. ASSUME part # "imu", UNCHANGED imu PROVE ImuInv' /\ ImuInit'
  <2>1. ImuInit'
    BY <1>2 DEF AsideAsNew, ImuInit, imu, imuLine, imuFifo
  <2>2. (EnvironmentTypeOK /\ ImuInit => ImuInv)'
    BY ImuFresh, PTL
  <2>3. QED
    BY <2>1, <2>2
<1>3. ASSUME part # "rtc", UNCHANGED rtc PROVE RtcInv' /\ RtcInit'
  <2>1. RtcInit'
    BY <1>3 DEF AsideAsNew, RtcInit, rtc, rtcBase
  <2>2. (EnvironmentTypeOK /\ RtcInit => RtcInv)'
    BY RtcFresh, PTL
  <2>3. QED
    BY <2>1, <2>2
<1>4. ASSUME part # "sonic", UNCHANGED sonic PROVE SonicInv' /\ SonicInit'
  <2>1. SonicInit'
    BY <1>4 DEF AsideAsNew, SonicInit, sonic
  <2>2. (EnvironmentTypeOK /\ SonicInit => SonicInv)'
    BY SonicFresh, PTL
  <2>3. QED
    BY <2>1, <2>2
<1>5. ASSUME part # "pir", UNCHANGED pir PROVE PirInv' /\ PirInit'
  <2>1. PirInit'
    BY <1>5 DEF AsideAsNew, PirInit, pir
  <2>2. (EnvironmentTypeOK /\ PirInit => PirInv)'
    BY PirFresh, PTL
  <2>3. QED
    BY <2>1, <2>2
<1>6. ASSUME part # "sd", UNCHANGED sd PROVE SdInv' /\ SdInit'
  <2>1. SdInit'
    BY <1>6 DEF AsideAsNew, SdInit, sd, sdWrite, sdTransfer
  <2>2. (EnvironmentTypeOK /\ SdInit => SdInv)'
    BY SdFresh, PTL
  <2>3. QED
    BY <2>1, <2>2
<1>7. ASSUME part # "sht", UNCHANGED sht PROVE ShtInv' /\ ShtInit'
  <2>1. ShtInit'
    BY <1>7 DEF AsideAsNew, ShtInit, sht, shtResults
  <2>2. (EnvironmentTypeOK /\ ShtInit => ShtInv)'
    BY ShtFresh, PTL
  <2>3. QED
    BY <2>1, <2>2
<1>8. ASSUME part # "qmp", UNCHANGED qmp PROVE QmpInv' /\ QmpInit'
  <2>1. QmpInit'
    BY <1>8 DEF AsideAsNew, QmpInit, qmp, qmpCycle
  <2>2. (EnvironmentTypeOK /\ QmpInit => QmpInv)'
    BY QmpFresh, PTL
  <2>3. QED
    BY <2>1, <2>2
<1>9. ASSUME part # "tape", UNCHANGED tape PROVE TapeInv' /\ TapeInit'
  <2>1. TapeInit'
    BY <1>9 DEF AsideAsNew, TapeInit, tape, tapeState, tapeTime
  <2>2. (EnvironmentTypeOK /\ TapeInit => TapeInv)'
    BY TapeFresh, PTL
  <2>3. QED
    BY <2>1, <2>2
<1>10. ASSUME part # "chunk", UNCHANGED chunk PROVE ChunkInv' /\ ChunkInit'
  <2>1. ChunkInit'
    BY <1>10 DEF AsideAsNew, ChunkInit, chunk, chSender, chReceiver
  <2>2. (EnvironmentTypeOK /\ ChunkInit => ChunkInv)'
    BY ChunkFresh, PTL
  <2>3. QED
    BY <2>1, <2>2
<1>11. ASSUME part # "ir", UNCHANGED ir PROVE IrInv' /\ IrInit'
  <2>1. IrInit'
    BY <1>11 DEF AsideAsNew, IrInit, ir, irHold, irHistory
  <2>2. (EnvironmentTypeOK /\ IrInit => IrInv)'
    BY IrFresh, PTL
  <2>3. QED
    BY <2>1, <2>2
<1>12. ASSUME part # "lora", UNCHANGED lora PROVE LoraInv' /\ LoraInit'
  <2>1. LoraInit'
    BY <1>12 DEF AsideAsNew, LoraInit, lora
  <2>2. (EnvironmentTypeOK /\ LoraInit => LoraInv)'
    BY LoraFresh, PTL
  <2>3. QED
    BY <2>1, <2>2
<1>13. ASSUME part # "uwb", UNCHANGED uwb PROVE UwbInv' /\ UwbInit'
  <2>1. UwbInit'
    BY <1>13 DEF AsideAsNew, UwbInit, uwb
  <2>2. (EnvironmentTypeOK /\ UwbInit => UwbInv)'
    BY UwbFresh, PTL
  <2>3. QED
    BY <2>1, <2>2
<1>14. ASSUME part # "modbus", UNCHANGED modbus PROVE ModbusInv' /\ ModbusInit'
  <2>1. ModbusInit'
    BY <1>14 DEF AsideAsNew, ModbusInit, modbus
  <2>2. (EnvironmentTypeOK /\ ModbusInit => ModbusInv)'
    BY ModbusFresh, PTL
  <2>3. QED
    BY <2>1, <2>2
<1>15. ASSUME part # "gps", UNCHANGED gps PROVE GpsInv' /\ GpsInit'
  <2>1. GpsInit'
    BY <1>15 DEF AsideAsNew, GpsInit, gps
  <2>2. (EnvironmentTypeOK /\ GpsInit => GpsInv)'
    BY GpsFresh, PTL
  <2>3. QED
    BY <2>1, <2>2
<1>16. ASSUME part # "modem", UNCHANGED modem PROVE ModemInv' /\ ModemInit'
  <2>1. ModemInit'
    BY <1>16 DEF AsideAsNew, ModemInit, modem
  <2>2. (EnvironmentTypeOK /\ ModemInit => ModemInv)'
    BY ModemFresh, PTL
  <2>3. QED
    BY <2>1, <2>2
<1>17. QED
  BY <1>1, <1>2, <1>3, <1>4, <1>5, <1>6, <1>7, <1>8, <1>9, <1>10, <1>11, <1>12, <1>13, <1>14, <1>15, <1>16

LEMMA CatalogKept == CatalogInv /\ CatalogNext => CatalogInv'
<1> SUFFICES ASSUME CatalogInv, CatalogNext PROVE CatalogInv'
  OBVIOUS
<1>1. EnvironmentTypeOK /\ PartsInv /\ AsideAsNew /\ part \in Parts
  BY DEF CatalogInv
<1>2. part' = part
  BY OneOnTheBench
<1>3. EnvironmentTypeOK'
  <2>1. CASE part = "flash"
    BY <1>1, <2>1, OneOnTheBench, FlashStep DEF PartsInv, FlashInv, FlashTypeOK
  <2>2. CASE part = "imu"
    BY <1>1, <2>2, OneOnTheBench, ImuStep DEF PartsInv
  <2>3. CASE part = "rtc"
    BY <1>1, <2>3, OneOnTheBench, RtcStep DEF PartsInv
  <2>4. CASE part = "sonic"
    BY <1>1, <2>4, OneOnTheBench, SonicStep DEF PartsInv
  <2>5. CASE part = "pir"
    BY <1>1, <2>5, OneOnTheBench, PirStep DEF PartsInv
  <2>6. CASE part = "sd"
    BY <1>1, <2>6, OneOnTheBench, SdStep DEF PartsInv
  <2>7. CASE part = "sht"
    BY <1>1, <2>7, OneOnTheBench, ShtStep DEF PartsInv
  <2>8. CASE part = "qmp"
    BY <1>1, <2>8, OneOnTheBench, QmpStep DEF PartsInv
  <2>9. CASE part = "tape"
    BY <1>1, <2>9, OneOnTheBench, TapeStep DEF PartsInv
  <2>10. CASE part = "chunk"
    BY <1>1, <2>10, OneOnTheBench, ChunkStep DEF PartsInv
  <2>11. CASE part = "ir"
    BY <1>1, <2>11, OneOnTheBench, IrStep DEF PartsInv
  <2>12. CASE part = "lora"
    BY <1>1, <2>12, OneOnTheBench, LoraStep DEF PartsInv
  <2>13. CASE part = "uwb"
    BY <1>1, <2>13, OneOnTheBench, UwbStep DEF PartsInv
  <2>14. CASE part = "modbus"
    BY <1>1, <2>14, OneOnTheBench, ModbusStep DEF PartsInv
  <2>15. CASE part = "gps"
    BY <1>1, <2>15, OneOnTheBench, GpsStep DEF PartsInv
  <2>16. CASE part = "modem"
    BY <1>1, <2>16, OneOnTheBench, ModemStep DEF PartsInv
  <2>17. QED
    BY <1>1, <2>1, <2>2, <2>3, <2>4, <2>5, <2>6, <2>7, <2>8, <2>9, <2>10, <2>11, <2>12, <2>13, <2>14, <2>15, <2>16 DEF Parts
<1>4. (part # "flash" => busy' = "no") /\ FlashInv'
  BY <1>1, <1>2, <1>3, OneOnTheBench, AsideStays, FlashStep DEF PartsInv
<1>5. (part # "imu" => ImuInit') /\ ImuInv'
  BY <1>1, <1>2, <1>3, OneOnTheBench, AsideStays, ImuStep DEF PartsInv
<1>6. (part # "rtc" => RtcInit') /\ RtcInv'
  BY <1>1, <1>2, <1>3, OneOnTheBench, AsideStays, RtcStep DEF PartsInv
<1>7. (part # "sonic" => SonicInit') /\ SonicInv'
  BY <1>1, <1>2, <1>3, OneOnTheBench, AsideStays, SonicStep DEF PartsInv
<1>8. (part # "pir" => PirInit') /\ PirInv'
  BY <1>1, <1>2, <1>3, OneOnTheBench, AsideStays, PirStep DEF PartsInv
<1>9. (part # "sd" => SdInit') /\ SdInv'
  BY <1>1, <1>2, <1>3, OneOnTheBench, AsideStays, SdStep DEF PartsInv
<1>10. (part # "sht" => ShtInit') /\ ShtInv'
  BY <1>1, <1>2, <1>3, OneOnTheBench, AsideStays, ShtStep DEF PartsInv
<1>11. (part # "qmp" => QmpInit') /\ QmpInv'
  BY <1>1, <1>2, <1>3, OneOnTheBench, AsideStays, QmpStep DEF PartsInv
<1>12. (part # "tape" => TapeInit') /\ TapeInv'
  BY <1>1, <1>2, <1>3, OneOnTheBench, AsideStays, TapeStep DEF PartsInv
<1>13. (part # "chunk" => ChunkInit') /\ ChunkInv'
  BY <1>1, <1>2, <1>3, OneOnTheBench, AsideStays, ChunkStep DEF PartsInv
<1>14. (part # "ir" => IrInit') /\ IrInv'
  BY <1>1, <1>2, <1>3, OneOnTheBench, AsideStays, IrStep DEF PartsInv
<1>15. (part # "lora" => LoraInit') /\ LoraInv'
  BY <1>1, <1>2, <1>3, OneOnTheBench, AsideStays, LoraStep DEF PartsInv
<1>16. (part # "uwb" => UwbInit') /\ UwbInv'
  BY <1>1, <1>2, <1>3, OneOnTheBench, AsideStays, UwbStep DEF PartsInv
<1>17. (part # "modbus" => ModbusInit') /\ ModbusInv'
  BY <1>1, <1>2, <1>3, OneOnTheBench, AsideStays, ModbusStep DEF PartsInv
<1>18. (part # "gps" => GpsInit') /\ GpsInv'
  BY <1>1, <1>2, <1>3, OneOnTheBench, AsideStays, GpsStep DEF PartsInv
<1>19. (part # "modem" => ModemInit') /\ ModemInv'
  BY <1>1, <1>2, <1>3, OneOnTheBench, AsideStays, ModemStep DEF PartsInv
<1>20. QED
  BY <1>1, <1>2, <1>3, <1>4, <1>5, <1>6, <1>7, <1>8, <1>9, <1>10, <1>11, <1>12, <1>13, <1>14, <1>15, <1>16, <1>17, <1>18, <1>19
     DEF CatalogInv, PartsInv, AsideAsNew

LEMMA CatalogStands == CatalogInv /\ UNCHANGED catalogVars => CatalogInv'
<1> SUFFICES ASSUME CatalogInv, UNCHANGED catalogVars PROVE CatalogInv'
  OBVIOUS
<1>1. EnvironmentTypeOK /\ PartsInv /\ AsideAsNew /\ part \in Parts
  BY DEF CatalogInv
<1>2. /\ UNCHANGED <<environment, part>>
      /\ UNCHANGED <<flash, sd, tape>> /\ UNCHANGED <<chunk, ir, lora, uwb>>
      /\ UNCHANGED <<imu, rtc, sonic, pir, sht, qmp>>
      /\ UNCHANGED <<modbus, gps, modem>>
  BY DEF catalogVars, radios, serials, sensors, stores
<1>3. now' = now /\ owed' = owed /\ level' = level
  BY <1>2 DEF environment
<1>4. EnvironmentTypeOK'
  BY <1>1, <1>3 DEF EnvironmentTypeOK
<1>5. FlashInv' /\ busy' = busy
  BY <1>1, <1>2, <1>3, <1>4
     DEF PartsInv, FlashInv, flash, line, write, FlashTypeOK,
         WritingIsOwed
<1>6. ImuInv' /\ (ImuInit => ImuInit')
  <2>1. ImuInit => ImuInit'
    BY <1>2 DEF ImuInit, imu, imuLine, imuFifo
  <2>2. ImuInv'
    BY <1>1, <1>2, <1>3
       DEF PartsInv, ImuInv, imu, imuLine, imuFifo, ImuTypeOK,
           ImuIsOwed, ImuKeepsGrid, ImuTellsTheTruth, ImuSamples,
           Expected
  <2>3. QED
    BY <2>1, <2>2
<1>7. RtcInv' /\ (RtcInit => RtcInit')
  <2>1. RtcInit => RtcInit'
    BY <1>2 DEF RtcInit, rtc, rtcBase
  <2>2. RtcInv'
    BY <1>1, <1>2, <1>3
       DEF PartsInv, RtcInv, rtc, rtcBase, RtcTypeOK, RtcIsOwed,
           AlarmUs, Expected
  <2>3. QED
    BY <2>1, <2>2
<1>8. SonicInv' /\ (SonicInit => SonicInit')
  <2>1. SonicInit => SonicInit'
    BY <1>2 DEF SonicInit, sonic
  <2>2. SonicInv'
    BY <1>1, <1>2, <1>3
       DEF PartsInv, SonicInv, sonic, SonicTypeOK, SonicIsOwed,
           Expected
  <2>3. QED
    BY <2>1, <2>2
<1>9. PirInv' /\ (PirInit => PirInit')
  <2>1. PirInit => PirInit'
    BY <1>2 DEF PirInit, pir
  <2>2. PirInv'
    BY <1>1, <1>2, <1>3
       DEF PartsInv, PirInv, pir, PirTypeOK, PirIsOwed, Expected
  <2>3. QED
    BY <2>1, <2>2
<1>10. SdInv' /\ (SdInit => SdInit')
  <2>1. SdInit => SdInit'
    BY <1>2 DEF SdInit, sd, sdWrite, sdTransfer
  <2>2. SdInv'
    BY <1>1, <1>2, <1>3
       DEF PartsInv, SdInv, sd, sdWrite, sdTransfer, SdTypeOK,
           SdIsOwed, SdTransfers, Expected
  <2>3. QED
    BY <2>1, <2>2
<1>11. ShtInv' /\ (ShtInit => ShtInit')
  <2>1. ShtInit => ShtInit'
    BY <1>2 DEF ShtInit, sht, shtResults
  <2>2. ShtInv'
    BY <1>1, <1>2, <1>3
       DEF PartsInv, ShtInv, sht, shtResults, ShtTypeOK
  <2>3. QED
    BY <2>1, <2>2
<1>12. QmpInv' /\ (QmpInit => QmpInit')
  <2>1. QmpInit => QmpInit'
    BY <1>2 DEF QmpInit, qmp, qmpCycle
  <2>2. QmpInv'
    BY <1>1, <1>2, <1>3
       DEF PartsInv, QmpInv, qmp, qmpCycle, QmpTypeOK, QmpIsOwed,
           QmpKeepsSchedule, QmpPeriod, Expected
  <2>3. QED
    BY <2>1, <2>2
<1>13. TapeInv' /\ (TapeInit => TapeInit')
  <2>1. TapeInit => TapeInit'
    BY <1>2 DEF TapeInit, tape, tapeState, tapeTime
  <2>2. TapeInv'
    BY <1>1, <1>2, <1>3
       DEF PartsInv, TapeInv, tape, tapeState, tapeTime, TapeTypeOK, TapeIsOwed,
           TapeTimed, TapeAt, Expected
  <2>3. QED
    BY <2>1, <2>2
<1>14. ChunkInv' /\ (ChunkInit => ChunkInit')
  <2>1. ChunkInit => ChunkInit'
    BY <1>2 DEF ChunkInit, chunk, chSender, chReceiver
  <2>2. ChunkInv'
    BY <1>1, <1>2, <1>3
       DEF PartsInv, ChunkInv, chunk, chSender, chReceiver,
           ChunkTypeOK, ChunkIsOwed, ChunkWhole, ChunkFollows,
           ChunkPart, Expected
  <2>3. QED
    BY <2>1, <2>2
<1>15. IrInv' /\ (IrInit => IrInit')
  <2>1. IrInit => IrInit'
    BY <1>2 DEF IrInit, ir, irHold, irHistory
  <2>2. IrInv'
    BY <1>1, <1>2, <1>3
       DEF PartsInv, IrInv, ir, irHold, irHistory, IrTypeOK, IrIsOwed,
           IrRepeatsAsAsked, Expected
  <2>3. QED
    BY <2>1, <2>2
<1>16. LoraInv' /\ (LoraInit => LoraInit')
  <2>1. LoraInit => LoraInit'
    BY <1>2 DEF LoraInit, lora
  <2>2. LoraInv'
    BY <1>1, <1>2, <1>3
       DEF PartsInv, LoraInv, lora, LoraTypeOK, LoraIsOwed, Expected
  <2>3. QED
    BY <2>1, <2>2
<1>17. UwbInv' /\ (UwbInit => UwbInit')
  <2>1. UwbInit => UwbInit'
    BY <1>2 DEF UwbInit, uwb
  <2>2. UwbInv'
    BY <1>1, <1>2, <1>3
       DEF PartsInv, UwbInv, uwb, UwbTypeOK, UwbIsOwed, Expected
  <2>3. QED
    BY <2>1, <2>2
<1>18. ModbusInv' /\ (ModbusInit => ModbusInit')
  <2>1. ModbusInit => ModbusInit'
    BY <1>2 DEF ModbusInit, modbus
  <2>2. ModbusInv'
    BY <1>1, <1>2, <1>3
       DEF PartsInv, ModbusInv, modbus, ModbusTypeOK, ModbusFramesBySilence
  <2>3. QED
    BY <2>1, <2>2
<1>19. GpsInv' /\ (GpsInit => GpsInit')
  <2>1. GpsInit => GpsInit'
    BY <1>2 DEF GpsInit, gps
  <2>2. GpsInv'
    BY <1>1, <1>2, <1>3
       DEF PartsInv, GpsInv, gps, GpsTypeOK, GpsIsOwed, Expected
  <2>3. QED
    BY <2>1, <2>2
<1>20. ModemInv' /\ (ModemInit => ModemInit')
  <2>1. ModemInit => ModemInit'
    BY <1>2 DEF ModemInit, modem
  <2>2. ModemInv'
    BY <1>1, <1>2, <1>3
       DEF PartsInv, ModemInv, modem, ModemTypeOK
  <2>3. QED
    BY <2>1, <2>2
<1>21. QED
  BY <1>1, <1>2, <1>3, <1>4, <1>5, <1>6, <1>7, <1>8, <1>9, <1>10, <1>11, <1>12, <1>13, <1>14, <1>15, <1>16, <1>17, <1>18, <1>19, <1>20
     DEF CatalogInv, PartsInv, AsideAsNew

LEMMA CatalogStep == CatalogInv /\ [CatalogNext]_catalogVars => CatalogInv'
BY CatalogKept, CatalogStands

\* Whatever order the steps come in, every variable of every part has its
\* type, for any sizes, durations and tapes.
THEOREM CatalogTypeCorrect == CatalogSpec => []CatalogTypeOK
<1>1. CatalogInv => CatalogTypeOK
  BY DEF CatalogInv, PartsInv, CatalogTypeOK, FlashInv, ImuInv, RtcInv,
         SonicInv, PirInv, SdInv, ShtInv, QmpInv, TapeInv, ChunkInv, IrInv,
         LoraInv, UwbInv, ModbusInv, GpsInv, ModemInv
<1>2. QED
  BY <1>1, CatalogInitially, CatalogStep, PTL DEF CatalogSpec

\* No part waits for a moment that nobody will tell it of: what it has yet to
\* do is owed its wake, was refused it, or is past, however it was re-armed,
\* cancelled, overwritten or reset before.
THEOREM WhatIsDueIsOwed == CatalogSpec => []DueIsOwed
<1>1. CatalogInv => DueIsOwed
  BY ModbusOwed DEF CatalogInv, PartsInv, DueIsOwed, FlashInv, ImuInv, RtcInv,
         SonicInv, PirInv, SdInv, QmpInv, TapeInv, ChunkInv, IrInv,
         LoraInv, UwbInv, GpsInv
<1>2. QED
  BY <1>1, CatalogInitially, CatalogStep, PTL DEF CatalogSpec

\* The parts that work on their own keep to the grid that was begun: samples,
\* repeats and conversions are neither skipped nor taken twice nor shifted,
\* however many fell due in one advance.
THEOREM TheScheduleIsKept == CatalogSpec => []KeepsSchedule
<1>1. CatalogInv => KeepsSchedule
  BY DEF CatalogInv, PartsInv, KeepsSchedule, ImuInv, IrInv, QmpInv
<1>2. QED
  BY <1>1, CatalogInitially, CatalogStep, PTL DEF CatalogSpec

\* The unit says "overflow" while a sample was lost that it has not told of,
\* and interrupts while the FIFO is at its watermark, and not otherwise.
THEOREM TheUnitTellsTheTruth == CatalogSpec => []ImuTellsTheTruth
<1>1. CatalogInv => ImuTellsTheTruth
  BY DEF CatalogInv, PartsInv, ImuInv
<1>2. QED
  BY <1>1, CatalogInitially, CatalogStep, PTL DEF CatalogSpec

\* No measurement is read twice, whether it is held back or under way.
THEOREM AResultIsReadOnce == CatalogSpec => []ShtReadOnce
<1>1. CatalogInv => ShtReadOnce
  BY DEF CatalogInv, PartsInv, ShtInv, ShtReadOnce
<1>2. QED
  BY <1>1, CatalogInitially, CatalogStep, PTL DEF CatalogSpec

\* What the far end takes for a message is one message and the whole of it,
\* whichever pieces were lost and for any caps; and the slave answers what
\* came between two silences of the line, no more of it than its buffer
\* holds, but for a silence that passed without the advance it asks for.
THEOREM AMessageIsWhole == CatalogSpec => []MessagesWhole
<1>1. CatalogInv => MessagesWhole
  BY DEF CatalogInv, PartsInv, ChunkInv, ModbusInv, MessagesWhole
<1>2. QED
  BY <1>1, CatalogInitially, CatalogStep, PTL DEF CatalogSpec

-----------------------------------------------------------------------------
(* What a step of a part that is on the bench may do is all that a step of *)
(* the catalog does to it.                                                 *)

LEMMA BenchSteps ==
  ASSUME UNCHANGED catalogVars
  PROVE  UNCHANGED <<environment, sd, tape, rtc, sonic, pir, lora, uwb,
                     modbus, modem, flash>>
BY DEF catalogVars, radios, serials, sensors, stores

EchoEnds ==
  sonicPhase = "echoing" /\ sonicPhase' = "idle" /\ ~ SonicReset =>
    OnTime(sonicRose + sonicMeant, sonicRefused)

HoldEnds ==
  pirLine = "high" /\ pirLine' = "low" /\ ~ PirReset =>
    OnTime(pirMotion + PirHoldUs, pirRefused)

UplinkEnds ==
  loraBusy = "yes" /\ loraDone' = "high" /\ loraDone = "low" =>
    OnTime(loraSince + loraBytes * LoraByteUs, loraRefused)

SilenceEnds ==
  /\ ModbusAdvance => OnTime(mbCame + ModbusGapUs, mbRefused)
  /\ mbMissed = "no" /\ mbMissed' = "yes"
       => mbRefused = "yes" \/ mbIdleAt \in owed

AnswerEnds ==
  ModemAdvance => \A t \in modemOwing : now' >= t + ModemUs

AlarmRings ==
  rtcFired = "no" /\ rtcFired' = "yes" =>
    OnTime(AlarmUs, rtcRefused) \/ rtcAlarm < rtcBaseSec

AnchorsTakeTurns ==
  UwbAdvance =>
    \A a, b \in uwbPending \ uwbPending' :
      a < b /\ uwbPolled[a] = uwbPolled[b] =>
        a \in uwbRefused \/ now >= uwbDue[a]

\* What a part has begun ends when it is to, and later only when its wake was
\* refused or waited past: the echo after the range, the hold after the last
\* motion, the uplink after its time on the air, the frame after the silence,
\* the answer after the last request, the alarm at its second, the anchors
\* each in its slot.
THEOREM WhatIsBegunEnds == CatalogSpec => EndsOnTime
<1> DEFINE Step == CatalogInv /\ [CatalogNext]_catalogVars
<1>1. Step => [EchoEnds]_<<environment, sonic>>
  <2>1. ASSUME CatalogInv, CatalogNext, part = "sonic" PROVE EchoEnds
    BY <2>1, OneOnTheBench, SonicEnds DEF CatalogInv, PartsInv, EchoEnds
  <2>2. ASSUME CatalogInv, CatalogNext, part # "sonic" PROVE EchoEnds
    BY <2>2, OneOnTheBench DEF CatalogInv, AsideAsNew, EchoEnds, SonicInit
  <2>3. UNCHANGED catalogVars => UNCHANGED <<environment, sonic>>
    BY BenchSteps
  <2>4. QED
    BY <2>1, <2>2, <2>3
<1>2. Step => [HoldEnds]_<<environment, pir>>
  <2>1. ASSUME CatalogInv, CatalogNext, part = "pir" PROVE HoldEnds
    BY <2>1, OneOnTheBench, PirEnds DEF CatalogInv, PartsInv, HoldEnds
  <2>2. ASSUME CatalogInv, CatalogNext, part # "pir" PROVE HoldEnds
    BY <2>2, OneOnTheBench DEF CatalogInv, AsideAsNew, HoldEnds, PirInit
  <2>3. UNCHANGED catalogVars => UNCHANGED <<environment, pir>>
    BY BenchSteps
  <2>4. QED
    BY <2>1, <2>2, <2>3
<1>3. Step => [UplinkEnds]_<<environment, lora>>
  <2>1. ASSUME CatalogInv, CatalogNext, part = "lora" PROVE UplinkEnds
    BY <2>1, OneOnTheBench, LoraEnds DEF CatalogInv, PartsInv, UplinkEnds
  <2>2. ASSUME CatalogInv, CatalogNext, part # "lora" PROVE UplinkEnds
    BY <2>2, OneOnTheBench DEF CatalogInv, AsideAsNew, UplinkEnds, LoraInit
  <2>3. UNCHANGED catalogVars => UNCHANGED <<environment, lora>>
    BY BenchSteps
  <2>4. QED
    BY <2>1, <2>2, <2>3
<1>4. Step => [SilenceEnds]_<<environment, modbus>>
  <2>1. ASSUME CatalogInv, CatalogNext, part = "modbus" PROVE SilenceEnds
    BY <2>1, OneOnTheBench, ModbusEnds DEF CatalogInv, PartsInv, SilenceEnds
  <2>2. ASSUME CatalogInv, CatalogNext, part # "modbus" PROVE SilenceEnds
    BY <2>2, OneOnTheBench DEF CatalogInv, AsideAsNew, SilenceEnds, ModbusInit, ModbusAdvance, modbus
  <2>3. UNCHANGED catalogVars => UNCHANGED <<environment, modbus>>
    BY BenchSteps
  <2>4. QED
    BY <2>1, <2>2, <2>3
<1>5. Step => [AnswerEnds]_<<environment, modem>>
  <2>1. ASSUME CatalogInv, CatalogNext, part = "modem" PROVE AnswerEnds
    BY <2>1, OneOnTheBench, ModemEnds DEF CatalogInv, PartsInv, AnswerEnds
  <2>2. ASSUME CatalogInv, CatalogNext, part # "modem" PROVE AnswerEnds
    BY <2>2, OneOnTheBench DEF CatalogInv, AsideAsNew, AnswerEnds, ModemInit
  <2>3. UNCHANGED catalogVars => UNCHANGED <<environment, modem>>
    BY BenchSteps
  <2>4. QED
    BY <2>1, <2>2, <2>3
<1>6. Step => [AlarmRings]_<<environment, rtc>>
  <2>1. ASSUME CatalogInv, CatalogNext, part = "rtc" PROVE AlarmRings
    BY <2>1, OneOnTheBench, RtcEnds DEF CatalogInv, PartsInv, AlarmRings
  <2>2. ASSUME CatalogInv, CatalogNext, part # "rtc" PROVE AlarmRings
    BY <2>2, OneOnTheBench DEF CatalogInv, AsideAsNew, AlarmRings, rtc
  <2>3. UNCHANGED catalogVars => UNCHANGED <<environment, rtc>>
    BY BenchSteps
  <2>4. QED
    BY <2>1, <2>2, <2>3
<1>7. Step => [AnchorsTakeTurns]_<<environment, uwb>>
  <2>1. ASSUME CatalogInv, CatalogNext, part = "uwb" PROVE AnchorsTakeTurns
    BY <2>1, OneOnTheBench, UwbEnds DEF CatalogInv, PartsInv, AnchorsTakeTurns
  <2>2. ASSUME CatalogInv, CatalogNext, part # "uwb" PROVE AnchorsTakeTurns
    BY <2>2, OneOnTheBench DEF CatalogInv, AsideAsNew, AnchorsTakeTurns, UwbInit
  <2>3. UNCHANGED catalogVars => UNCHANGED <<environment, uwb>>
    BY BenchSteps
  <2>4. QED
    BY <2>1, <2>2, <2>3
<1>8. QED
  BY <1>1, <1>2, <1>3, <1>4, <1>5, <1>6, <1>7, CatalogInitially, CatalogStep, PTL
     DEF CatalogSpec, EndsOnTime, EchoIsTheRange, PirHolds, LoraSendsItsTime, ModbusWaitsForSilence,
         ModemAnswersLast, RtcRingsOnTime, UwbOneAtATime, EchoEnds, HoldEnds, UplinkEnds, SilenceEnds,
         AnswerEnds, AlarmRings, AnchorsTakeTurns

\* A block that was accepted is written whole, once and at its moment, to
\* the block that the command named unless the director filled another since,
\* and nothing but that and the filling of a card changes a block.
THEOREM ABlockIsWrittenWhole == CatalogSpec => SdWritesWhole
<1>1. ASSUME CatalogInv, CatalogNext PROVE SdOneStep
  <2>1. CASE part = "sd"
    BY <1>1, <2>1, OneOnTheBench, SdEnds DEF CatalogInv, PartsInv
  <2>2. CASE part # "sd"
    BY <1>1, <2>2, OneOnTheBench DEF SdOneStep, SdWriteEnds, sd
  <2>3. QED
    BY <2>1, <2>2
<1>2. UNCHANGED catalogVars => UNCHANGED <<environment, sd>>
  BY BenchSteps
<1>3. CatalogInv /\ [CatalogNext]_catalogVars =>
        [SdOneStep]_<<environment, sd>>
  BY <1>1, <1>2
<1>4. QED
  BY <1>3, CatalogInitially, CatalogStep, PTL
     DEF CatalogSpec, SdWritesWhole, SdOneStep

\* The tape goes on in order: what it sends goes out after its own delay, and
\* at that moment when its wake was granted; a busy step is passed by the first
\* write or read once its time is over and by nothing before; a step of the
\* application's only by a request of its kind.
THEOREM TheTapeKeepsPace == CatalogSpec => TapeKeepsPace
<1>1. ASSUME CatalogInv, CatalogNext PROVE TapePaced
  <2>1. CASE part = "tape"
    BY <1>1, <2>1, OneOnTheBench, TapeEnds DEF CatalogInv, PartsInv
  <2>2. CASE part # "tape"
    <3>1. UNCHANGED tape /\ tapeAsked = "none"
      BY <1>1, <2>2, OneOnTheBench DEF CatalogInv, AsideAsNew, TapeInit
    <3>2. tapeStep' = tapeStep /\ tapeAsked' = "none"
      BY <3>1 DEF tape, tapeState
    <3>3. QED
      BY <3>2 DEF TapePaced, TapeListens
  <2>3. QED
    BY <2>1, <2>2
<1>2. UNCHANGED catalogVars => UNCHANGED <<environment, tape>>
  BY BenchSteps
<1>3. CatalogInv /\ [CatalogNext]_catalogVars =>
        [TapePaced]_<<environment, tape>>
  BY <1>1, <1>2
<1>4. QED
  BY <1>3, CatalogInitially, CatalogStep, PTL
     DEF CatalogSpec, TapeKeepsPace, TapePaced, TapeGoesOn, TapeListens

\* On the bench, too, the flash implements the programmable array, and its
\* writes end when they are due.
THEOREM TheFlashKeepsItsWord == CatalogSpec => KeepsArray /\ WriteEndsWhenDue
<1>1. ASSUME CatalogInv, CatalogNext
      PROVE  [Array!Next]_Array!vars /\ Punctual
  <2>1. CASE part = "flash"
    BY <1>1, <2>1, OneOnTheBench, ArrayStep, WriteEnds
       DEF CatalogInv, PartsInv
  <2>2. CASE part # "flash"
    <3>1. UNCHANGED flash /\ busy = "no"
      BY <1>1, <2>2, OneOnTheBench DEF CatalogInv, AsideAsNew
    <3>2. QED
      BY <3>1 DEF Punctual, Array!vars, Change, flash, write
  <2>3. QED
    BY <2>1, <2>2
<1>2. UNCHANGED catalogVars => UNCHANGED flashVars /\ UNCHANGED Array!vars
  BY BenchSteps DEF flashVars, Array!vars, Change, flash, write
<1>3. CatalogInv /\ [CatalogNext]_catalogVars =>
        [Array!Next]_Array!vars /\ [Punctual]_flashVars
  BY <1>1, <1>2
<1>4. CatalogInit => Array!Init
  BY FlashIsArrayInitially DEF CatalogInit
<1>5. QED
  BY <1>3, <1>4, CatalogInitially, CatalogStep, PTL
     DEF CatalogSpec, KeepsArray, Array!Spec, WriteEndsWhenDue, Punctual
==============================================================================
