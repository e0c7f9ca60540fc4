------------------------------ MODULE EnvSensor ------------------------------
(***************************************************************************)
(* The environment sensor of the catalog                                   *)
(* (src/devices/src/env_sensor_model.cpp) in an environment of which it    *)
(* knows only the time contract of the device interface: a forced          *)
(* measurement asks to be woken when it is due, and ends at the first      *)
(* advance at or after that moment.                                        *)
(***************************************************************************)
EXTENDS Environment

CONSTANTS
  MeasureUs,   \* kMeasureUs
  Registers,   \* what a pointer write may select; "unmapped" stands for
               \* every register the part does not have
  Values       \* temperatures the world may show

Known == {"id", "status", "temp"}

ASSUME SensorAssumption ==
  /\ MeasureUs \in Nat \ {0}
  /\ Registers \subseteq Known \cup {"unmapped"}
  /\ 0 \in Values

VARIABLES
  pointer,                \* pointer_: the register selected
  measuring, readyAt,     \* "yes" or "no", and when it ends
  raw, latched,           \* what the world shows, what was captured
  wakeRefused             \* history: requestWake said no to the one under way

measurement == <<measuring, readyAt, wakeRefused>>
sensor == <<pointer, measurement, raw, latched>>
sensorVars == <<environment, sensor>>

Pointers == Registers \cup {"power-on", "ctrl"}

SensorTypeOK ==
  /\ EnvironmentTypeOK
  /\ pointer \in Pointers
  /\ measuring \in {"yes", "no"} /\ readyAt \in Nat
  /\ raw \in Values /\ latched \in Values
  /\ wakeRefused \in {"yes", "no"}

\* reset().
SensorReset ==
  /\ pointer' = "power-on"
  /\ measuring' = "no" /\ readyAt' = 0 /\ wakeRefused' = "no"
  /\ raw' = 0 /\ latched' = 0

SensorInit ==
  /\ EnvironmentInit
  /\ pointer = "power-on"
  /\ measuring = "no" /\ readyAt = 0 /\ wakeRefused = "no"
  /\ raw = 0 /\ latched = 0

-----------------------------------------------------------------------------
(* Calls of the environment into the sensor.                               *)

\* i2cWrite of one byte.
WritePointer(register) ==
  /\ pointer' = register
  /\ UNCHANGED <<environment, measurement, raw, latched>>

\* Mutated form: the end is reckoned backwards.
ForceMeasurementBackwards ==
  /\ now + MeasureUs <= Horizon
  /\ pointer' = "ctrl"
  /\ measuring' = "yes" /\ readyAt' = now - MeasureUs
  /\ UNCHANGED <<environment, raw, latched, wakeRefused>>

\* i2cWrite of the forced measurement command. A measurement under way goes
\* on; requestWake may be refused, and the part does not look at the answer.
ForceMeasurement ==
  /\ now + MeasureUs <= Horizon
  /\ pointer' = "ctrl"
  /\ \/ measuring = "yes" /\ UNCHANGED <<measurement, owed>>
     \/ /\ measuring = "no"
        /\ measuring' = "yes" /\ readyAt' = now + MeasureUs
        /\ \/ Granted(readyAt') /\ wakeRefused' = "no"
           \/ Refused /\ wakeRefused' = "yes"
  /\ UNCHANGED <<now, level, raw, latched>>

\* i2cRead: whether it supplies anything.
Supplies(continued) == continued /\ pointer \in Known

ChannelWrite(value) ==
  /\ raw' = value
  /\ UNCHANGED <<environment, pointer, measurement, latched>>

\* Mutated form: the measurement is taken as done whenever time has passed.
MeasureOnAnyAdvance ==
  IF measuring = "yes" /\ now' > now
  THEN measuring' = "no" /\ latched' = raw
  ELSE UNCHANGED <<measuring, latched>>

\* advanceTo(now').
Measure ==
  IF measuring = "yes" /\ now' >= readyAt
  THEN measuring' = "no" /\ latched' = raw
  ELSE UNCHANGED <<measuring, latched>>

-----------------------------------------------------------------------------
(* The environment: whatever the time contract allows.                     *)

AdvanceTo ==
  /\ Advances
  /\ Measure
  /\ UNCHANGED <<pointer, readyAt, wakeRefused, raw>>

\* Waits and callbacks that do not reach the sensor.
Elsewhere ==
  /\ Waits \/ CallbackBegins \/ CallbackEnds
  /\ UNCHANGED sensor

\* A new window.
Restart == ClockRestarts /\ SensorReset

SensorNext ==
  \/ \E r \in Registers : WritePointer(r)
  \/ ForceMeasurement
  \/ \E v \in Values : ChannelWrite(v)
  \/ AdvanceTo \/ Elsewhere \/ Restart

SensorSpec == SensorInit /\ [][SensorNext]_sensorVars

-----------------------------------------------------------------------------
(* Properties.                                                             *)

\* A measurement under way is owed a wake at the very moment it ends, unless
\* the environment refused one, through commands repeated while it measures,
\* waits nested in callbacks and advances made for others.
MeasuringIsOwed ==
  measuring = "yes" => readyAt \in owed \/ wakeRefused = "yes"

\* A measurement ends at its moment exactly. It ends later only if no wake
\* was granted or a callback's own wait reached the moment, never earlier.
EndsWhenDue ==
  [][measuring = "yes" /\ measuring' = "no" /\ ~ Restart =>
       \/ now' = readyAt
       \/ now' > readyAt /\ (wakeRefused = "yes" \/ now >= readyAt)]_sensorVars
=============================================================================
