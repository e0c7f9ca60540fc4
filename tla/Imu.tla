-------------------------------- MODULE Imu --------------------------------
(***************************************************************************)
(* The inertial unit of the catalog (src/devices/src/unit_imu_model.cpp):  *)
(* it samples into a FIFO on its own, whether or not anyone reads. What a  *)
(* sample says is left out; how many there are is what can go wrong.       *)
(***************************************************************************)
EXTENDS Environment

CONSTANTS ImuDepth, ImuWatermark, ImuSampleUs   \* kFifoDepth, ...

ASSUME ImuAssumption ==
  /\ ImuDepth \in Nat \ {0} /\ ImuWatermark \in 1..ImuDepth
  /\ ImuSampleUs \in Nat \ {0}

VARIABLES
  imuReg, imuSampling, imuNext,         \* reg_, sampling_, nextSampleUs_
  imuCount, imuOverflow, imuIrq,        \* count_, flags_, irq_
  imuTaken, imuLost,                    \* taken_, lost_
  imuRefused,                           \* history: the last wake was refused
  imuStarted, imuBefore,                \* history: when sampling was begun,
                                        \* and the samples there were by then
  imuTold                               \* history: losses told by a status

imuLine == <<imuSampling, imuNext, imuRefused, imuStarted, imuBefore>>
imuFifo == <<imuCount, imuIrq, imuTaken>>
imu == <<imuReg, imuLine, imuFifo, imuOverflow, imuLost, imuTold>>

ImuSamples == imuTaken + imuCount + imuLost
ImuRegisters == {"status", "fifo", "control", "unmapped"}

ImuTypeOK ==
  /\ imuReg \in ImuRegisters /\ imuSampling \in Flag
  /\ imuCount \in 0..ImuDepth /\ imuOverflow \in Flag
  /\ imuIrq \in {"low", "high"} /\ imuRefused \in Flag
  /\ {imuNext, imuTaken, imuLost, imuStarted, imuBefore, imuTold} \subseteq Nat

ImuInit ==
  /\ imuReg = "status" /\ imuSampling = "no" /\ imuNext = 0
  /\ imuCount = 0 /\ imuOverflow = "no" /\ imuIrq = "low"
  /\ imuTaken = 0 /\ imuLost = 0
  /\ imuRefused = "no" /\ imuStarted = 0 /\ imuBefore = 0 /\ imuTold = 0

ImuReset ==
  /\ Repowers
  /\ imuReg' = "status" /\ imuSampling' = "no" /\ imuNext' = 0
  /\ imuCount' = 0 /\ imuOverflow' = "no" /\ imuIrq' = "low"
  /\ imuTaken' = 0 /\ imuLost' = 0
  /\ imuRefused' = "no" /\ imuStarted' = 0 /\ imuBefore' = 0 /\ imuTold' = 0

\* The line follows the watermark both ways.
UpdateIrq == imuIrq' = IF imuCount' >= ImuWatermark THEN "high" ELSE "low"

\* i2cWrite of a register alone; one that is not mapped is refused, and yet
\* selected.
ImuSelect(r) ==
  /\ imuReg' = r
  /\ UNCHANGED <<environment, imuLine, imuFifo, imuOverflow, imuLost, imuTold>>

\* i2cWrite to the control register. Sampling that runs goes on as it was.
ImuStart ==
  /\ imuReg' = "control" /\ imuSampling' = "yes"
  /\ UNCHANGED <<now, level, imuFifo, imuOverflow, imuLost, imuTold>>
  /\ \/ /\ imuSampling = "no"
        /\ imuNext' = now + ImuSampleUs
        /\ Asks(imuNext', owed, imuRefused)
        /\ imuStarted' = now /\ imuBefore' = ImuSamples
     \/ /\ imuSampling = "yes"
        /\ UNCHANGED <<owed, imuNext, imuRefused, imuStarted, imuBefore>>

ImuStop ==
  /\ imuReg' = "control" /\ imuSampling' = "no"
  /\ UNCHANGED <<environment, imuNext, imuRefused, imuStarted, imuBefore,
                 imuFifo, imuOverflow, imuLost, imuTold>>

\* i2cRead of the status: the overflow has been told.
ImuReadStatus ==
  /\ imuReg = "status"
  /\ imuOverflow' = "no" /\ imuTold' = imuLost
  /\ UNCHANGED <<environment, imuReg, imuLine, imuFifo, imuLost>>

\* Mutated form: a burst that empties the FIFO clears the overflow as well.
ImuReadFifoClearing(n) ==
  /\ imuReg = "fifo" /\ n <= imuCount
  /\ imuCount' = imuCount - n /\ imuTaken' = imuTaken + n
  /\ UpdateIrq
  /\ imuOverflow' = IF imuCount' = 0 THEN "no" ELSE imuOverflow
  /\ UNCHANGED <<environment, imuReg, imuLine, imuLost, imuTold>>

\* i2cRead of the FIFO: what is there, up to what is asked for.
ImuReadFifo(n) ==
  /\ imuReg = "fifo" /\ n <= imuCount
  /\ imuCount' = imuCount - n /\ imuTaken' = imuTaken + n
  /\ UpdateIrq
  /\ UNCHANGED <<environment, imuReg, imuLine, imuOverflow, imuLost, imuTold>>

\* Mutated form: one sample an advance, and the next is reckoned from there.
ImuTakeOne(n) ==
  /\ n = IF imuNext <= now' THEN 1 ELSE 0
  /\ imuNext' = IF n = 0 THEN imuNext ELSE now' + ImuSampleUs

\* The n samples that fell due up to now'.
ImuTake(n) ==
  /\ n > 0 => imuNext + (n - 1) * ImuSampleUs <= now'
  /\ now' < imuNext + n * ImuSampleUs
  /\ imuNext' = imuNext + n * ImuSampleUs

\* advanceTo(now') while sampling: what finds no room is lost.
ImuAdvance ==
  /\ Serves
  /\ imuSampling = "yes"
  /\ \E n \in 0..Horizon + 1, kept \in 0..ImuDepth :
       /\ ImuTake(n)
       /\ kept <= n /\ imuCount + kept <= ImuDepth
       /\ kept < n => imuCount + kept = ImuDepth
       /\ imuCount' = imuCount + kept /\ imuLost' = imuLost + (n - kept)
       /\ imuOverflow' = IF kept < n THEN "yes" ELSE imuOverflow
  /\ UpdateIrq
  /\ Asks(imuNext', StillOwed, imuRefused)
  /\ UNCHANGED <<imuReg, imuSampling, imuTaken, imuStarted, imuBefore, imuTold>>

ImuIdle ==
  /\ PassesBy \/ (imuSampling = "no" /\ Advances)
  /\ UNCHANGED imu

ImuNext ==
  \/ \E r \in ImuRegisters : ImuSelect(r)
  \/ ImuStart \/ ImuStop
  \/ ImuReadStatus
  \/ \E n \in 1..ImuDepth : ImuReadFifo(n)
  \/ ImuAdvance \/ ImuIdle \/ ImuReset

ImuSpec == EnvironmentInit /\ ImuInit /\ [][ImuNext]_<<environment, imu>>

-----------------------------------------------------------------------------
(* Properties.                                                             *)

\* Every sample since sampling was begun is in the FIFO, read, or counted as
\* lost, and the next one is due on the grid that was begun: advances that
\* come late, jumps, reads, and stopping and starting neither skip a sample
\* nor take one twice, nor shift the grid (i2cWrite, i2cRead, advanceTo).
ImuKeepsGrid ==
  imuSampling = "yes" =>
    imuNext = imuStarted + (ImuSamples - imuBefore + 1) * ImuSampleUs

\* The status says overflow exactly while losses have not been told, and the
\* line is up exactly while the watermark is reached, also across bursts,
\* and across sampling that is stopped and begun again.
ImuTellsTheTruth ==
  /\ imuOverflow = "yes" <=> imuLost > imuTold
  /\ imuIrq = "high" <=> imuCount >= ImuWatermark

\* The next sample is owed its wake.
ImuIsOwed == imuSampling = "yes" => Expected(imuNext, imuRefused)
=============================================================================
