------------------------------ MODULE WireSensor ------------------------------
(***************************************************************************)
(* Two I2C buses with the environment sensor on one of them, used by the   *)
(* sketch and by interrupt handlers that interrupt each other              *)
(* (src/src/embedbench_host.cpp: onWireWriteOn, onWireReadOn,              *)
(* bindWireDeviceOn; the sensor is EnvSensor).                             *)
(*                                                                         *)
(* A transfer is one step: no device calls a bus, and what it raises is    *)
(* delivered when its response has been recorded. Between two transfers    *)
(* of the sketch any number of handlers may run, and each may be           *)
(* interrupted in the same way. level counts them.                         *)
(***************************************************************************)
EXTENDS EnvSensor, FiniteSets

CONSTANTS
  Buses, Addresses,
  WireSlots,            \* kMaxWireDevices
  SensorBus, SensorAddress

ASSUME WireAssumption ==
  /\ SensorBus \in Buses /\ SensorAddress \in Addresses
  /\ "none" \notin Addresses /\ WireSlots \in Nat

VARIABLES
  bound,          \* wireDevices: the endpoints in use
  open,           \* i2cOpenAddress, "none" for 0xFFFF
  left,           \* history: the buses each level has left without STOP
  selected,       \* history: the register each level has selected in a
                  \* sequence it has not ended, or "none"
  disturbed,      \* history: levels whose sequence another one cut into
  answer          \* history: the read just made

wire == <<bound, open>>
sequences == <<left, selected, disturbed>>
wireVars == <<sensorVars, wire, sequences, answer>>

Levels == 0..MaxLevel
Endpoints == Buses \X Addresses
Sensor == <<SensorBus, SensorAddress>>

NoAnswer == [asked |-> "none", supplied |-> "none", cut |-> "no"]

WireTypeOK ==
  /\ SensorTypeOK
  /\ bound \subseteq Endpoints
  /\ open \in [Buses -> Addresses \cup {"none"}]
  /\ left \in [Levels -> SUBSET Buses]
  /\ selected \in [Levels -> Registers \cup {"none"}]
  /\ disturbed \subseteq Levels
  /\ answer \in [asked : Registers \cup {"none"},
                 supplied : Pointers \cup {"none"}, cut : {"yes", "no"}]

WireInit ==
  /\ SensorInit
  /\ bound = {}
  /\ open = [b \in Buses |-> "none"]
  /\ left = [l \in Levels |-> {}]
  /\ selected = [l \in Levels |-> "none"]
  /\ disturbed = {}
  /\ answer = NoAnswer

-----------------------------------------------------------------------------
(* The buses.                                                              *)

\* bindWireDeviceOn: an endpoint in use is refused, and so is one more than
\* the table holds; none is ever given up.
Bind(b, a) ==
  /\ <<b, a>> \notin bound /\ Cardinality(bound) < WireSlots
  /\ bound' = bound \cup {<<b, a>>}
  /\ answer' = NoAnswer
  /\ UNCHANGED <<sensorVars, open, sequences>>

Continued(b, a) == <<b, a>> \in bound /\ open[b] = a

\* Mutated form: one open address for both buses.
OpenAfterShared(b, a, stop) == [c \in Buses |-> IF stop THEN "none" ELSE a]

\* Mutated form: a STOP ends nothing.
OpenAfterAlways(b, a, stop) == [open EXCEPT ![b] = a]

\* What is open on each bus after a transfer to address a of bus b.
OpenAfter(b, a, stop) == [open EXCEPT ![b] = IF stop THEN "none" ELSE a]

\* The bookkeeping of a transfer: selection is what the level that made it
\* now has selected, if it was with the sensor's bus.
Transfer(b, a, stop, selection) ==
  /\ open' = OpenAfter(b, a, stop)
  /\ left' = [left EXCEPT ![level] = IF stop THEN @ \ {b} ELSE @ \cup {b}]
  /\ selected' = IF b = SensorBus
                 THEN [selected EXCEPT ![level] = selection] ELSE selected
  /\ disturbed' = IF b = SensorBus
                  THEN (disturbed \ {level}) \cup 0..level - 1
                  ELSE disturbed
  /\ UNCHANGED bound

\* The three writes the sensor knows, and every other transfer of a write.
SelectRegister(register, stop) ==
  /\ Sensor \in bound
  /\ WritePointer(register)
  /\ Transfer(SensorBus, SensorAddress, stop,
              IF stop THEN "none" ELSE register)
  /\ answer' = NoAnswer

StartMeasurement(stop) ==
  /\ Sensor \in bound
  /\ ForceMeasurement
  /\ Transfer(SensorBus, SensorAddress, stop, "none")
  /\ answer' = NoAnswer

\* A write the sensor refuses, to another device, or to nobody.
OtherWrite(b, a, stop) ==
  /\ Transfer(b, a, stop, "none")
  /\ answer' = NoAnswer
  /\ UNCHANGED sensorVars

\* A read from the sensor: what it is asked, and what it supplies.
ReadSensor(stop) ==
  /\ Sensor \in bound
  /\ answer' = [asked |-> selected[level],
                supplied |-> IF Supplies(Continued(SensorBus, SensorAddress))
                             THEN pointer ELSE "none",
                cut |-> IF level \in disturbed THEN "yes" ELSE "no"]
  /\ Transfer(SensorBus, SensorAddress, stop,
              IF stop \/ level \in disturbed THEN "none" ELSE selected[level])
  /\ UNCHANGED sensorVars

OtherRead(b, a, stop) ==
  /\ <<b, a>> # Sensor \/ Sensor \notin bound
  /\ Transfer(b, a, stop, "none")
  /\ answer' = NoAnswer
  /\ UNCHANGED sensorVars

-----------------------------------------------------------------------------
(* Interrupt handlers, time, and windows.                                  *)

IsrEnter ==
  /\ CallbackBegins
  /\ UNCHANGED sensor
  /\ answer' = NoAnswer
  /\ UNCHANGED <<wire, sequences>>

\* A handler ends the sequences it begins.
IsrExit ==
  /\ left[level] = {}
  /\ CallbackEnds
  /\ UNCHANGED sensor
  /\ selected' = [selected EXCEPT ![level] = "none"]
  /\ disturbed' = disturbed \ {level}
  /\ answer' = NoAnswer
  /\ UNCHANGED <<wire, left>>

WaitOrWorld ==
  /\ \/ AdvanceTo
     \/ Waits /\ UNCHANGED sensor
     \/ \E v \in Values : ChannelWrite(v)
  /\ answer' = NoAnswer
  /\ UNCHANGED <<wire, sequences>>

\* runBegin, and the reset of the sensor that goes with a new clock.
RunBegin ==
  /\ Restart
  /\ open' = [b \in Buses |-> "none"]
  /\ left' = [l \in Levels |-> {}]
  /\ selected' = [l \in Levels |-> "none"]
  /\ disturbed' = {}
  /\ answer' = NoAnswer
  /\ UNCHANGED bound

WireNext ==
  \/ \E b \in Buses, a \in Addresses : Bind(b, a)
  \/ \E stop \in BOOLEAN :
       \/ \E r \in Registers : SelectRegister(r, stop)
       \/ StartMeasurement(stop) \/ ReadSensor(stop)
       \/ \E b \in Buses, a \in Addresses :
            OtherWrite(b, a, stop) \/ OtherRead(b, a, stop)
  \/ IsrEnter \/ IsrExit \/ WaitOrWorld \/ RunBegin

WireSpec == WireInit /\ [][WireNext]_wireVars

-----------------------------------------------------------------------------
(* Properties.                                                             *)

\* Who selected a register in a sequence of its own and reads in the same
\* sequence gets that register or nothing, however many handlers selected
\* other registers in between: the sensor's insistence on a repeated start
\* and the open address of the bus keep a handler's pointer out of the
\* sketch's reading.
NeverAnothersRegister ==
  answer.asked # "none" /\ answer.supplied # "none" =>
    answer.supplied = answer.asked

\* The sensor refuses a reading of its own sequence only if something else
\* went over that bus in between; the other bus, waits and measurements do
\* not break a sequence.
UndisturbedIsSupplied ==
  answer.asked \in Known /\ answer.cut = "no" =>
    answer.supplied = answer.asked

\* Behind both, between the steps of the sketch and of every handler: the
\* sequence of the running level is open with its register, and a sequence
\* another level cut into is closed on the bus.
SequenceIsOpen ==
  selected[level] # "none" =>
    IF level \in disturbed THEN open[SensorBus] = "none"
    ELSE open[SensorBus] = SensorAddress /\ pointer = selected[level]

\* The bus leaves the sensor's own behaviour as it was.
KeepsSensor == SensorSpec
=============================================================================
