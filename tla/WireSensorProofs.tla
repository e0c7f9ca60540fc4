-------------------------- MODULE WireSensorProofs --------------------------
(***************************************************************************)
(* Two results for every choice of the constants: a measurement ends when  *)
(* it is due, in any environment that keeps the time contract; and a       *)
(* reading never answers with a register another context selected, for any *)
(* number of buses, devices and nested handlers.                           *)
(***************************************************************************)
EXTENDS WireSensor, TLAPS

-----------------------------------------------------------------------------
(* The sensor in its environment.                                          *)

\* A moment granted is not in the past while it is owed at a time before it;
\* nothing else is needed of the environment.
SensorInv == SensorTypeOK /\ MeasuringIsOwed

LEMMA SensorInitially == SensorInit => SensorInv
BY SensorAssumption, EnvironmentAssumption
   DEF SensorInit, SensorInv, SensorTypeOK, MeasuringIsOwed, Pointers,
       EnvironmentInit, EnvironmentTypeOK

LEMMA SensorStep == SensorInv /\ [SensorNext]_sensorVars => SensorInv'
<1> USE SensorAssumption, EnvironmentAssumption
    DEF SensorTypeOK, EnvironmentTypeOK, MeasuringIsOwed, environment,
        measurement, sensor
<1> SUFFICES ASSUME SensorInv, [SensorNext]_sensorVars PROVE SensorInv'
  OBVIOUS
<1> USE DEF SensorInv
<1>1. ASSUME NEW r \in Registers, WritePointer(r) PROVE SensorInv'
  BY <1>1 DEF WritePointer, Pointers
<1>2. ASSUME ForceMeasurement PROVE SensorInv'
  <2>1. /\ pointer' \in Pointers /\ now + MeasureUs \in Nat
        /\ UNCHANGED <<now, level, raw, latched>>
    BY <1>2 DEF ForceMeasurement, Pointers
  <2>2. CASE measuring = "yes" /\ UNCHANGED <<measurement, owed>>
    BY <2>1, <2>2
  <2>3. CASE /\ measuring' = "yes" /\ readyAt' = now + MeasureUs
             /\ owed' = owed \cup {readyAt'} /\ wakeRefused' = "no"
    <3>1. readyAt' \in Nat /\ owed' \subseteq Nat /\ readyAt' \in owed'
      BY <2>1, <2>3
    <3>2. QED
      BY <2>1, <2>3, <3>1
  <2>4. CASE /\ measuring' = "yes" /\ readyAt' = now + MeasureUs
             /\ owed' = owed /\ wakeRefused' = "yes"
    BY <2>1, <2>4
  <2>5. QED
    BY <1>2, <2>2, <2>3, <2>4 DEF ForceMeasurement, Granted, Refused
<1>3. ASSUME NEW v \in Values, ChannelWrite(v) PROVE SensorInv'
  BY <1>3 DEF ChannelWrite
<1>4. ASSUME AdvanceTo PROVE SensorInv'
  <2>1. /\ now' \in Nat /\ now' >= now
        /\ owed' = {w \in owed : w > now'}
        /\ UNCHANGED <<level, pointer, readyAt, wakeRefused, raw>>
    BY <1>4 DEF AdvanceTo, Advances, Time!Advance
  <2>2. CASE measuring = "yes" /\ now' >= readyAt
    BY <1>4, <2>1, <2>2 DEF AdvanceTo, Measure
  <2>3. CASE ~ (measuring = "yes" /\ now' >= readyAt)
    <3>1. UNCHANGED <<measuring, latched>>
      BY <1>4, <2>3 DEF AdvanceTo, Measure
    <3>2. measuring = "yes" /\ readyAt \in owed => readyAt \in owed'
      BY <2>1, <2>3
    <3>3. owed' \subseteq Nat
      BY <2>1
    <3>4. QED
      BY <2>1, <3>1, <3>2, <3>3
  <2>4. QED
    BY <2>2, <2>3
<1>5. ASSUME Elsewhere PROVE SensorInv'
  <2>1. UNCHANGED sensor
    BY <1>5 DEF Elsewhere
  <2>2. CASE Waits
    <3>1. now' \in Nat /\ UNCHANGED <<owed, level>>
      BY <2>2 DEF Waits, Time!Pass, Time!Overtake
    <3>2. QED
      BY <2>1, <3>1
  <2>3. CASE CallbackBegins \/ CallbackEnds
    <3>1. level' \in 0..MaxLevel
      BY <2>3 DEF CallbackBegins, CallbackEnds
    <3>2. QED
      BY <2>1, <2>3, <3>1 DEF CallbackBegins, CallbackEnds
  <2>4. QED
    BY <1>5, <2>2, <2>3 DEF Elsewhere
<1>6. ASSUME Restart PROVE SensorInv'
  BY <1>6 DEF Restart, ClockRestarts, SensorReset, Time!Restart, Pointers
<1>7. ASSUME UNCHANGED sensorVars PROVE SensorInv'
  BY <1>7 DEF sensorVars
<1>8. QED
  BY <1>1, <1>2, <1>3, <1>4, <1>5, <1>6, <1>7 DEF SensorNext

\* While a measurement runs, its moment is owed unless it was refused.
THEOREM SensorIsOwed == SensorSpec => []MeasuringIsOwed
<1>1. SensorInv => MeasuringIsOwed
  BY DEF SensorInv
<1>2. QED
  BY <1>1, SensorInitially, SensorStep, PTL DEF SensorSpec

\* A measurement ends at its moment, or late for one of the two reasons, and
\* never early: the sensor gets from the time contract what it relies on.
THEOREM MeasurementOnTime == SensorSpec => EndsWhenDue
<1> DEFINE Punctual ==
      measuring = "yes" /\ measuring' = "no" /\ ~ Restart =>
        \/ now' = readyAt
        \/ now' > readyAt /\ (wakeRefused = "yes" \/ now >= readyAt)
<1>1. ASSUME SensorInv, SensorNext PROVE Punctual
  <2> SUFFICES ASSUME measuring = "yes", measuring' = "no", ~ Restart
               PROVE  \/ now' = readyAt
                      \/ /\ now' > readyAt
                         /\ wakeRefused = "yes" \/ now >= readyAt
    OBVIOUS
  <2>1. AdvanceTo
    BY <1>1 DEF SensorNext, WritePointer, ForceMeasurement, ChannelWrite,
                Elsewhere, measurement, sensor
  <2>2. /\ now \in Nat /\ now' \in Nat /\ readyAt \in Nat
        /\ \A w \in owed : w > now => w >= now'
        /\ readyAt \in owed \/ wakeRefused = "yes"
    BY <1>1, <2>1, SensorAssumption, EnvironmentAssumption
       DEF AdvanceTo, Advances, Time!Advance, SensorInv, SensorTypeOK,
           EnvironmentTypeOK, MeasuringIsOwed
  <2>3. now' >= readyAt
    BY <2>1 DEF AdvanceTo, Measure
  <2>4. QED
    BY <2>2, <2>3
<1>2. SensorInv /\ [SensorNext]_sensorVars => [Punctual]_sensorVars
  BY <1>1
<1>3. QED
  BY <1>2, SensorInitially, SensorStep, PTL DEF SensorSpec, EndsWhenDue

-----------------------------------------------------------------------------
(* The bus. What makes the two properties inductive is an account of every *)
(* level at once: the levels above the running one have nothing open; a    *)
(* sequence nobody cut into is the open one; and the bus of a sequence     *)
(* that was cut into is closed, or some handler above it still has to end  *)
(* what it began.                                                          *)

LevelsAboveAreClean ==
  \A l \in Levels :
    l > level => left[l] = {} /\ selected[l] = "none" /\ l \notin disturbed

UndisturbedIsOpen ==
  \A l \in Levels :
    selected[l] # "none" /\ l \notin disturbed =>
      open[SensorBus] = SensorAddress /\ pointer = selected[l]

DisturbedIsOwedAStop ==
  \A l \in disturbed :
    open[SensorBus] = "none" \/ \E k \in Levels : k > l /\ SensorBus \in left[k]

Account == LevelsAboveAreClean /\ UndisturbedIsOpen /\ DisturbedIsOwedAStop

Answers == NeverAnothersRegister /\ UndisturbedIsSupplied

WireTypes ==
  /\ SensorTypeOK
  /\ bound \subseteq Endpoints
  /\ open \in [Buses -> Addresses \cup {"none"}]
  /\ left \in [Levels -> SUBSET Buses]
  /\ selected \in [Levels -> Registers \cup {"none"}]
  /\ disturbed \subseteq Levels

WireInv == SensorInv /\ WireTypes /\ Account /\ Answers

LEMMA LevelIsALevel == SensorTypeOK => level \in Levels /\ Levels \subseteq Nat
BY EnvironmentAssumption DEF SensorTypeOK, EnvironmentTypeOK, Levels

LEMMA AccountGivesOpen == WireTypes /\ Account => SequenceIsOpen
<1> SUFFICES ASSUME WireTypes, Account, selected[level] # "none"
             PROVE  IF level \in disturbed THEN open[SensorBus] = "none"
                    ELSE open[SensorBus] = SensorAddress
                         /\ pointer = selected[level]
  BY DEF SequenceIsOpen
<1>1. level \in Levels /\ Levels \subseteq Nat
  BY LevelIsALevel DEF WireTypes
<1>2. ASSUME level \in disturbed PROVE open[SensorBus] = "none"
  <2>1. ASSUME NEW k \in Levels, k > level PROVE SensorBus \notin left[k]
    BY <2>1 DEF Account, LevelsAboveAreClean
  <2>2. QED
    BY <1>1, <1>2, <2>1 DEF Account, DisturbedIsOwedAStop
<1>3. ASSUME level \notin disturbed
      PROVE  open[SensorBus] = SensorAddress /\ pointer = selected[level]
  BY <1>1, <1>3 DEF Account, UndisturbedIsOpen
<1>4. QED
  BY <1>2, <1>3

\* A transfer keeps the account when what its level selects is the register
\* the sensor points at.
LEMMA TransferKeeps ==
  ASSUME WireTypes, Account, NEW b \in Buses, NEW a \in Addresses,
         NEW stop \in BOOLEAN, NEW selection \in Registers \cup {"none"},
         Transfer(b, a, stop, selection), level' = level,
         b # SensorBus => pointer' = pointer,
         b = SensorBus /\ selection # "none" =>
           stop = FALSE /\ a = SensorAddress /\ pointer' = selection
  PROVE  /\ open' \in [Buses -> Addresses \cup {"none"}]
         /\ left' \in [Levels -> SUBSET Buses]
         /\ selected' \in [Levels -> Registers \cup {"none"}]
         /\ disturbed' \subseteq Levels
         /\ bound' \subseteq Endpoints
         /\ Account'
<1>1. level \in Levels /\ Levels \subseteq Nat /\ SensorBus \in Buses
  BY LevelIsALevel, WireAssumption DEF WireTypes
<1>2. /\ open' \in [Buses -> Addresses \cup {"none"}]
      /\ \A c \in Buses : c # b => open'[c] = open[c]
      /\ stop = TRUE => open'[b] = "none"
      /\ stop = FALSE => open'[b] = a
  BY DEF Transfer, OpenAfter, WireTypes
<1>3. /\ left' \in [Levels -> SUBSET Buses]
      /\ \A l \in Levels : l # level => left'[l] = left[l]
      /\ stop = FALSE => b \in left'[level]
      /\ \A c \in Buses : c # b => (c \in left'[level] <=> c \in left[level])
  BY <1>1 DEF Transfer, WireTypes
<1>4. ASSUME b = SensorBus
      PROVE  /\ selected' \in [Levels -> Registers \cup {"none"}]
             /\ \A l \in Levels : l # level => selected'[l] = selected[l]
             /\ selected'[level] = selection
             /\ disturbed' = (disturbed \ {level}) \cup 0..level - 1
  BY <1>1, <1>4 DEF Transfer, WireTypes
<1>5. ASSUME b # SensorBus
      PROVE  /\ UNCHANGED <<selected, disturbed, pointer>>
             /\ open'[SensorBus] = open[SensorBus]
             /\ \A l \in Levels :
                  SensorBus \in left'[l] <=> SensorBus \in left[l]
  BY <1>1, <1>2, <1>3, <1>5 DEF Transfer
<1>6. 0..level - 1 \subseteq Levels
  BY <1>1, SensorAssumption, EnvironmentAssumption DEF Levels
<1>7. /\ selected' \in [Levels -> Registers \cup {"none"}]
      /\ disturbed' \subseteq Levels
  BY <1>4, <1>5, <1>6 DEF WireTypes
<1>8. LevelsAboveAreClean'
  <2> SUFFICES ASSUME NEW l \in Levels, l > level
               PROVE  /\ left'[l] = {} /\ selected'[l] = "none"
                      /\ l \notin disturbed'
    BY DEF LevelsAboveAreClean
  <2>1. l # level /\ l \notin 0..level - 1
    BY <1>1
  <2>2. left[l] = {} /\ selected[l] = "none" /\ l \notin disturbed
    BY DEF Account, LevelsAboveAreClean
  <2>3. QED
    BY <1>3, <1>4, <1>5, <2>1, <2>2
<1>9. UndisturbedIsOpen'
  <2> SUFFICES ASSUME NEW l \in Levels, selected'[l] # "none",
                      l \notin disturbed'
               PROVE  open'[SensorBus] = SensorAddress
                      /\ pointer' = selected'[l]
    BY DEF UndisturbedIsOpen
  <2>1. CASE b # SensorBus
    BY <1>5, <2>1 DEF Account, UndisturbedIsOpen
  <2>2. CASE b = SensorBus /\ l = level
    BY <1>2, <1>4, <2>2
  <2>3. CASE b = SensorBus /\ l # level
    <3>1. l > level
      BY <1>1, <1>4, <2>3
    <3>2. selected[l] = "none"
      BY <3>1 DEF Account, LevelsAboveAreClean
    <3>3. QED
      BY <1>4, <2>3, <3>2
  <2>4. QED
    BY <2>1, <2>2, <2>3
<1>10. DisturbedIsOwedAStop'
  <2> SUFFICES ASSUME NEW l \in disturbed', open'[SensorBus] # "none"
               PROVE  \E k \in Levels : k > l /\ SensorBus \in left'[k]
    BY DEF DisturbedIsOwedAStop
  <2>1. CASE b # SensorBus
    <3>1. PICK k \in Levels : k > l /\ SensorBus \in left[k]
      BY <1>5, <2>1 DEF Account, DisturbedIsOwedAStop
    <3>2. QED
      BY <1>5, <2>1, <3>1
  <2>2. CASE b = SensorBus
    <3>1. l < level
      <4>1. l \in Levels /\ l # level
        BY <1>1, <1>4, <1>7, <2>2
      <4>2. l > level => l \notin disturbed
        BY <4>1 DEF Account, LevelsAboveAreClean
      <4>3. l \in disturbed \/ l \in 0..level - 1
        BY <1>4, <2>2
      <4>4. QED
        BY <1>1, <4>1, <4>2, <4>3
    <3>2. SensorBus \in left'[level]
      BY <1>2, <1>3, <2>2
    <3>3. QED
      BY <1>1, <3>1, <3>2
  <2>3. QED
    BY <2>1, <2>2
<1>11. bound' \subseteq Endpoints
  BY DEF Transfer, WireTypes
<1>12. QED
  BY <1>2, <1>3, <1>7, <1>8, <1>9, <1>10, <1>11 DEF Account

LEMMA SensorTakesPart == WireNext => [SensorNext]_sensorVars
BY DEF WireNext, SensorNext, Bind, SelectRegister, StartMeasurement,
       OtherWrite, ReadSensor, OtherRead, IsrEnter, IsrExit, WaitOrWorld,
       RunBegin, Elsewhere

LEMMA NoneIsNoRegister == "none" \notin Registers /\ "none" \notin Known
BY SensorAssumption DEF Known

LEMMA NoAnswerIsRight == answer = NoAnswer => Answers
BY NoneIsNoRegister DEF NoAnswer, Answers, NeverAnothersRegister,
                        UndisturbedIsSupplied

LEMMA WireInitially == WireInit => WireInv
<1> SUFFICES ASSUME WireInit PROVE WireInv
  OBVIOUS
<1>1. SensorInv
  BY SensorInitially DEF WireInit
<1>2. WireTypes
  BY <1>1 DEF WireInit, WireTypes, SensorInv
<1>3. Account
  BY DEF WireInit, Account, LevelsAboveAreClean, UndisturbedIsOpen,
         DisturbedIsOwedAStop
<1>4. Answers
  BY NoAnswerIsRight DEF WireInit
<1>5. QED
  BY <1>1, <1>2, <1>3, <1>4 DEF WireInv

LEMMA WireStep == WireInv /\ [WireNext]_wireVars => WireInv'
<1> SUFFICES ASSUME WireInv, [WireNext]_wireVars PROVE WireInv'
  OBVIOUS
<1> USE DEF WireInv
<1>1. SensorInv' /\ SensorTypeOK'
  BY SensorTakesPart, SensorStep DEF wireVars, sensorVars, SensorInv
<1>2. level \in Levels /\ Levels \subseteq Nat
  BY LevelIsALevel DEF WireTypes
<1> DEFINE Rest == /\ bound' \subseteq Endpoints
                   /\ open' \in [Buses -> Addresses \cup {"none"}]
                   /\ left' \in [Levels -> SUBSET Buses]
                   /\ selected' \in [Levels -> Registers \cup {"none"}]
                   /\ disturbed' \subseteq Levels
<1>3. SUFFICES Rest /\ Account' /\ Answers'
  BY <1>1 DEF WireTypes
<1>4. answer' = NoAnswer => Answers'
  BY NoneIsNoRegister DEF NoAnswer, Answers, NeverAnothersRegister,
                          UndisturbedIsSupplied
<1>5. ASSUME UNCHANGED <<open, left, selected, disturbed, pointer, level>>,
             bound' \subseteq Endpoints
      PROVE  Rest /\ Account'
  BY <1>5 DEF WireTypes, Account, LevelsAboveAreClean, UndisturbedIsOpen,
              DisturbedIsOwedAStop
<1>6. ASSUME NEW b \in Buses, NEW a \in Addresses, Bind(b, a)
      PROVE  Rest /\ Account' /\ Answers'
  <2>1. bound' \subseteq Endpoints
    BY <1>6 DEF Bind, Endpoints, WireTypes
  <2>2. UNCHANGED <<open, left, selected, disturbed, pointer, level>>
        /\ answer' = NoAnswer
    BY <1>6 DEF Bind, sensorVars, environment, sensor, sequences
  <2>3. QED
    BY <1>4, <1>5, <2>1, <2>2
<1>7. ASSUME NEW stop \in BOOLEAN, NEW r \in Registers, SelectRegister(r, stop)
      PROVE  Rest /\ Account' /\ Answers'
  <2>1. level' = level /\ pointer' = r /\ answer' = NoAnswer
    BY <1>7 DEF SelectRegister, WritePointer, environment
  <2>2. PICK selection \in Registers \cup {"none"} :
          /\ selection # "none" => stop = FALSE /\ selection = r
          /\ Transfer(SensorBus, SensorAddress, stop, selection)
    BY <1>7, NoneIsNoRegister DEF SelectRegister
  <2>3. QED
    BY <1>4, <2>1, <2>2, TransferKeeps, WireAssumption
<1>8. ASSUME NEW stop \in BOOLEAN, StartMeasurement(stop)
      PROVE  Rest /\ Account' /\ Answers'
  <2>1. level' = level /\ answer' = NoAnswer
    BY <1>8 DEF StartMeasurement, ForceMeasurement
  <2>2. QED
    BY <1>4, <1>8, <2>1, TransferKeeps, WireAssumption DEF StartMeasurement
<1>9. ASSUME NEW stop \in BOOLEAN, NEW b \in Buses, NEW a \in Addresses,
             OtherWrite(b, a, stop) \/ OtherRead(b, a, stop)
      PROVE  Rest /\ Account' /\ Answers'
  <2>1. /\ level' = level /\ pointer' = pointer /\ answer' = NoAnswer
        /\ Transfer(b, a, stop, "none")
    BY <1>9 DEF OtherWrite, OtherRead, sensorVars, environment, sensor
  <2>2. QED
    BY <1>4, <2>1, TransferKeeps
<1>10. ASSUME NEW stop \in BOOLEAN, ReadSensor(stop)
       PROVE  Rest /\ Account' /\ Answers'
  <2>1. level' = level /\ pointer' = pointer
    BY <1>10 DEF ReadSensor, sensorVars, environment, sensor
  <2>2. selected[level] \in Registers \cup {"none"}
    BY <1>2 DEF WireTypes
  <2>3. SequenceIsOpen
    BY AccountGivesOpen
  <2>4. PICK selection \in Registers \cup {"none"} :
          /\ selection # "none" =>
               stop = FALSE /\ level \notin disturbed
                 /\ selection = selected[level]
          /\ Transfer(SensorBus, SensorAddress, stop, selection)
    BY <1>10, <2>2 DEF ReadSensor
  <2>5. Rest /\ Account'
    BY <2>1, <2>3, <2>4, TransferKeeps, WireAssumption DEF SequenceIsOpen
  <2>6. /\ answer'.asked = selected[level]
        /\ answer'.supplied =
             IF Supplies(Continued(SensorBus, SensorAddress)) THEN pointer
                                                              ELSE "none"
        /\ answer'.cut = IF level \in disturbed THEN "yes" ELSE "no"
    BY <1>10 DEF ReadSensor
  <2>7. NeverAnothersRegister'
    <3> SUFFICES ASSUME selected[level] # "none", answer'.supplied # "none"
                 PROVE  answer'.supplied = selected[level]
      BY <2>6 DEF NeverAnothersRegister
    <3>1. open[SensorBus] = SensorAddress /\ answer'.supplied = pointer
      BY <2>6 DEF Supplies, Continued
    <3>2. QED
      BY <2>3, <3>1, WireAssumption DEF SequenceIsOpen
  <2>8. UndisturbedIsSupplied'
    <3> SUFFICES ASSUME selected[level] \in Known, answer'.cut = "no"
                 PROVE  answer'.supplied = selected[level]
      BY <2>6 DEF UndisturbedIsSupplied
    <3>1. level \notin disturbed /\ selected[level] # "none"
      BY <2>6, NoneIsNoRegister
    <3>2. open[SensorBus] = SensorAddress /\ pointer = selected[level]
      BY <2>3, <3>1 DEF SequenceIsOpen
    <3>3. Sensor \in bound
      BY <1>10 DEF ReadSensor
    <3>4. QED
      BY <2>6, <3>2, <3>3 DEF Supplies, Continued, Sensor
  <2>9. QED
    BY <2>5, <2>7, <2>8 DEF Answers
<1>11. ASSUME IsrEnter PROVE Rest /\ Account' /\ Answers'
  <2>1. /\ level' = level + 1 /\ answer' = NoAnswer
        /\ UNCHANGED <<bound, open, left, selected, disturbed, pointer>>
    BY <1>11 DEF IsrEnter, CallbackBegins, wire, sequences, sensor
  <2>2. Rest
    BY <2>1 DEF WireTypes
  <2>3. LevelsAboveAreClean'
    BY <1>2, <2>1 DEF Account, LevelsAboveAreClean
  <2>4. UndisturbedIsOpen' /\ DisturbedIsOwedAStop'
    BY <2>1 DEF Account, UndisturbedIsOpen, DisturbedIsOwedAStop
  <2>5. QED
    BY <1>4, <2>1, <2>2, <2>3, <2>4 DEF Account
<1>12. ASSUME IsrExit PROVE Rest /\ Account' /\ Answers'
  <2>1. /\ level' = level - 1 /\ answer' = NoAnswer /\ left[level] = {}
        /\ UNCHANGED <<bound, open, left, pointer>>
        /\ selected' = [selected EXCEPT ![level] = "none"]
        /\ disturbed' = disturbed \ {level}
    BY <1>12 DEF IsrExit, CallbackEnds, wire, sensor
  <2>2. Rest
    BY <2>1 DEF WireTypes
  <2>3. /\ selected'[level] = "none"
        /\ \A l \in Levels : l # level => selected'[l] = selected[l]
    BY <1>2, <2>1 DEF WireTypes
  <2>4. LevelsAboveAreClean'
    <3> SUFFICES ASSUME NEW l \in Levels, l > level'
                 PROVE  left'[l] = {} /\ selected'[l] = "none"
                        /\ l \notin disturbed'
      BY DEF LevelsAboveAreClean
    <3>1. l = level \/ l > level
      BY <1>2, <2>1
    <3>2. QED
      BY <2>1, <2>3, <3>1 DEF Account, LevelsAboveAreClean
  <2>5. UndisturbedIsOpen'
    BY <2>1, <2>3 DEF Account, UndisturbedIsOpen
  <2>6. DisturbedIsOwedAStop'
    BY <2>1 DEF Account, DisturbedIsOwedAStop
  <2>7. QED
    BY <1>4, <2>1, <2>2, <2>4, <2>5, <2>6 DEF Account
<1>13. ASSUME WaitOrWorld PROVE Rest /\ Account' /\ Answers'
  <2>1. answer' = NoAnswer /\ UNCHANGED <<wire, sequences>>
    BY <1>13 DEF WaitOrWorld
  <2>2. UNCHANGED <<pointer, level>>
    BY <1>13 DEF WaitOrWorld, AdvanceTo, Advances, Waits, ChannelWrite, sensor,
                 environment
  <2>3. bound' \subseteq Endpoints
    BY <2>1 DEF wire, WireTypes
  <2>4. UNCHANGED <<open, left, selected, disturbed, pointer, level>>
    BY <2>1, <2>2 DEF wire, sequences
  <2>5. QED
    BY <1>4, <1>5, <2>1, <2>3, <2>4
<1>14. ASSUME RunBegin PROVE Rest /\ Account' /\ Answers'
  <2>1. /\ open' = [b \in Buses |-> "none"]
        /\ left' = [l \in Levels |-> {}]
        /\ selected' = [l \in Levels |-> "none"]
        /\ disturbed' = {}
        /\ answer' = NoAnswer
        /\ bound' = bound
    BY <1>14 DEF RunBegin
  <2>2. Rest
    BY <2>1 DEF WireTypes
  <2>3. Account'
    BY <2>1 DEF Account, LevelsAboveAreClean, UndisturbedIsOpen,
                DisturbedIsOwedAStop
  <2>4. QED
    BY <1>4, <2>1, <2>2, <2>3
<1>15. ASSUME UNCHANGED wireVars PROVE Rest /\ Account' /\ Answers'
  <2>1. UNCHANGED <<open, left, selected, disturbed, pointer, level, bound,
                    answer>>
    BY <1>15 DEF wireVars, sensorVars, environment, sensor, wire, sequences
  <2>2. bound' \subseteq Endpoints
    BY <2>1 DEF WireTypes
  <2>3. Answers'
    BY <2>1 DEF Answers, NeverAnothersRegister, UndisturbedIsSupplied
  <2>4. QED
    BY <1>5, <2>1, <2>2, <2>3
<1>16. QED
  BY <1>6, <1>7, <1>8, <1>9, <1>10, <1>11, <1>12, <1>13, <1>14, <1>15
     DEF WireNext

LEMMA WireAlways == WireSpec => []WireInv
BY WireInitially, WireStep, PTL DEF WireSpec

-----------------------------------------------------------------------------
(* What is left of the types: a read asks for what its level selected and  *)
(* is supplied what the sensor points at, and every other step forgets it. *)

AnswerType ==
  answer \in [asked : Registers \cup {"none"}, supplied : Pointers \cup {"none"},
             cut : {"yes", "no"}]

LEMMA NoAnswerIsTyped == answer = NoAnswer => AnswerType
BY DEF AnswerType, NoAnswer

LEMMA AnswerStep == WireTypes /\ AnswerType /\ [WireNext]_wireVars => AnswerType'
<1> SUFFICES ASSUME WireTypes, AnswerType, [WireNext]_wireVars
             PROVE  AnswerType'
  OBVIOUS
<1>1. answer' = NoAnswer => AnswerType'
  BY DEF AnswerType, NoAnswer
<1>2. ASSUME NEW stop \in BOOLEAN, ReadSensor(stop) PROVE AnswerType'
  <2> DEFINE given == IF Supplies(Continued(SensorBus, SensorAddress))
                      THEN pointer ELSE "none"
             mark == IF level \in disturbed THEN "yes" ELSE "no"
  <2>1. selected[level] \in Registers \cup {"none"}
    BY LevelIsALevel DEF WireTypes
  <2>2. given \in Pointers \cup {"none"}
    BY DEF WireTypes, SensorTypeOK
  <2>3. mark \in {"yes", "no"}
    OBVIOUS
  <2>4. answer' = [asked |-> selected[level], supplied |-> given, cut |-> mark]
    BY <1>2 DEF ReadSensor
  <2> HIDE DEF given, mark
  <2>5. QED
    BY <2>1, <2>2, <2>3, <2>4 DEF AnswerType
<1>3. CASE UNCHANGED wireVars
  BY <1>3 DEF AnswerType, wireVars
<1>4. CASE WireNext
  <2>1. ASSUME NEW b \in Buses, NEW a \in Addresses, Bind(b, a)
        PROVE  AnswerType'
    BY <1>1, <2>1 DEF Bind
  <2>2. ASSUME NEW stop \in BOOLEAN,
               \/ \E r \in Registers : SelectRegister(r, stop)
               \/ StartMeasurement(stop)
               \/ \E b \in Buses, a \in Addresses :
                    OtherWrite(b, a, stop) \/ OtherRead(b, a, stop)
        PROVE  AnswerType'
    BY <1>1, <2>2 DEF SelectRegister, StartMeasurement, OtherWrite, OtherRead
  <2>3. IsrEnter \/ IsrExit \/ WaitOrWorld \/ RunBegin => AnswerType'
    BY <1>1 DEF IsrEnter, IsrExit, WaitOrWorld, RunBegin
  <2>4. QED
    BY <1>2, <1>4, <2>1, <2>2, <2>3 DEF WireNext
<1>5. QED
  BY <1>3, <1>4

\* Levels, sequences, endpoints and answers stay what they are for any number
\* of buses, addresses and interrupt handlers.
THEOREM WireTypeCorrect == WireSpec => []WireTypeOK
<1>1. WireInit => AnswerType
  BY NoAnswerIsTyped DEF WireInit
<1>2. WireInv => WireTypes
  BY DEF WireInv
<1>3. WireTypes /\ AnswerType => WireTypeOK
  BY DEF WireTypes, AnswerType, WireTypeOK
<1>4. QED
  BY <1>1, <1>2, <1>3, AnswerStep, WireAlways, PTL DEF WireSpec

\* A reading made in a sequence of one's own never answers with a register
\* another context selected.
THEOREM ReadingIsOnesOwn == WireSpec => []NeverAnothersRegister
<1>1. WireInv => NeverAnothersRegister
  BY DEF WireInv, Answers
<1>2. QED
  BY <1>1, WireAlways, PTL

\* A reading of a sequence nobody cut into is answered.
THEOREM ReadingIsAnswered == WireSpec => []UndisturbedIsSupplied
<1>1. WireInv => UndisturbedIsSupplied
  BY DEF WireInv, Answers
<1>2. QED
  BY <1>1, WireAlways, PTL

\* What the running level has begun is open, or closed and known to be cut.
THEOREM RunningSequence == WireSpec => []SequenceIsOpen
<1>1. WireInv => SequenceIsOpen
  BY AccountGivesOpen DEF WireInv
<1>2. QED
  BY <1>1, WireAlways, PTL

\* The composition is the sensor in an environment that keeps the contract.
THEOREM BusKeepsSensor == WireSpec => KeepsSensor
<1>1. WireInit => SensorInit
  BY DEF WireInit
<1>2. [WireNext]_wireVars => [SensorNext]_sensorVars
  BY SensorTakesPart DEF wireVars
<1>3. QED
  BY <1>1, <1>2, PTL DEF WireSpec, KeepsSensor, SensorSpec
=============================================================================
