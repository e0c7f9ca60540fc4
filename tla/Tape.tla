-------------------------------- MODULE Tape --------------------------------
(***************************************************************************)
(* The tape of the catalog (src/devices/src/tape_model.cpp): a captured    *)
(* session that is played back. A step the application takes waits for it, *)
(* one of the device's own comes a delay after the step before, and a busy *)
(* one refuses every request until then. Whether the bytes of a request    *)
(* are those that were recorded is only told, and left out; a request that *)
(* is not the next step is told as well, and changes nothing else.         *)
(***************************************************************************)
EXTENDS Environment, Sequences

CONSTANT TapeSteps   \* spec_: the steps, each a kind, a length and a delay

TapeKinds == {"write", "read", "serialIn", "spi", "serialOut", "busy"}

ASSUME TapeAssumption ==
  TapeSteps \in Seq([kind : TapeKinds, length : Nat \ {0}, delay : Nat])

VARIABLES
  tapeStep, tapeArmed, tapeDue,   \* step_ from one on, armed_, dueAtUs_
  tapeProgress,                   \* progress_
  tapeRefused,                    \* history: the last wake was refused
  tapeBegan,                      \* history: when the step was begun
  tapeAsked                       \* history: what the application asked for
                                  \* in the last step, or "none"

tapeTime == <<tapeArmed, tapeDue, tapeRefused, tapeBegan>>
tapeState == <<tapeStep, tapeProgress, tapeTime>>
tape == <<tapeState, tapeAsked>>

TapeAt(i, kinds) == i <= Len(TapeSteps) /\ TapeSteps[i].kind \in kinds
TapeTimed(i) == TapeAt(i, {"serialOut", "busy"})

TapeTypeOK ==
  /\ tapeStep \in 1..Len(TapeSteps) + 1 /\ tapeProgress \in Nat
  /\ tapeStep <= Len(TapeSteps) => tapeProgress < TapeSteps[tapeStep].length
  /\ tapeArmed \in Flag /\ tapeRefused \in Flag
  /\ tapeDue \in Nat /\ tapeBegan \in Nat
  /\ tapeAsked \in TapeKinds \cup {"none"}

TapeInit ==
  /\ tapeStep = 1 /\ tapeProgress = 0
  /\ tapeArmed = "no" /\ tapeDue = 0 /\ tapeRefused = "no" /\ tapeBegan = 0
  /\ tapeAsked = "none"

TapeReset ==
  /\ Repowers
  /\ tapeStep' = 1 /\ tapeProgress' = 0
  /\ tapeArmed' = "no" /\ tapeDue' = 0 /\ tapeRefused' = "no" /\ tapeBegan' = 0
  /\ tapeAsked' = "none"

\* arm(): step i is current from t on, with the wakes of left still owed. A
\* busy step only waits to be asked.
TapeArm(i, t, left) ==
  /\ tapeBegan' = t
  /\ tapeArmed' = IF TapeTimed(i) THEN "yes" ELSE "no"
  /\ tapeDue' = IF TapeTimed(i) THEN t + TapeSteps[i].delay ELSE tapeDue
  /\ IF TapeAt(i, {"serialOut"}) THEN Asks(tapeDue', left, tapeRefused)
     ELSE owed' = left /\ UNCHANGED tapeRefused

\* finishStep(), up to step i.
TapeGoTo(i, t, left) ==
  tapeStep' = i /\ tapeProgress' = 0 /\ TapeArm(i, t, left)

\* When the current step is due, asked at t: one that is not armed, which
\* only the first can be, is armed now.
TapeDueAt(t) ==
  IF tapeArmed = "yes" THEN tapeDue ELSE t + TapeSteps[tapeStep].delay

\* Mutated form: the time of a busy step is not waited for.
TapeBusyIgnored == TapeAt(tapeStep, {"busy"}) /\ FALSE

\* busy().
TapeBusy == TapeAt(tapeStep, {"busy"}) /\ now < TapeDueAt(now)

\* Mutated form: any request is taken for the one that was recorded.
TapeWantsAny(kind) == TapeAt(tapeStep, {"write", "read"})

\* The step is a request of this kind.
TapeWants(kind) == TapeAt(tapeStep, {kind})

\* i2cWrite and i2cRead. A request that is not the next step leaves it; a
\* busy step whose time has come is passed all the same.
TapeRequest(kind) ==
  /\ tapeAsked' = kind
  /\ UNCHANGED <<now, level>>
  /\ \/ /\ TapeBusy
        /\ IF tapeArmed = "no" THEN TapeArm(tapeStep, now, owed)
           ELSE UNCHANGED <<owed, tapeTime>>
        /\ UNCHANGED <<tapeStep, tapeProgress>>
     \/ /\ TapeAt(tapeStep, {"busy"}) /\ ~ TapeBusy
        /\ TapeGoTo(IF TapeAt(tapeStep + 1, {kind}) THEN tapeStep + 2
                    ELSE tapeStep + 1, now, owed)
     \/ /\ TapeWants(kind)
        /\ TapeGoTo(tapeStep + 1, now, owed)
     \/ /\ ~ TapeWants(kind) /\ ~ TapeAt(tapeStep, {"busy"})
        /\ UNCHANGED <<owed, tapeState>>

\* serialIn and spiTransfer, a byte at a time; one that does not belong to
\* the step is dropped.
TapeByte(kind) ==
  /\ tapeAsked' = kind
  /\ UNCHANGED <<now, level>>
  /\ IF ~ TapeAt(tapeStep, {kind}) THEN UNCHANGED <<owed, tapeState>>
     ELSE IF tapeProgress + 1 >= TapeSteps[tapeStep].length
     THEN TapeGoTo(tapeStep + 1, now, owed)
     ELSE tapeProgress' = tapeProgress + 1 /\ UNCHANGED <<owed, tapeStep, tapeTime>>

\* advanceTo(now'): the k-th step from the current one is sent as well; a
\* step after one that was sent only if it has no delay of its own.
TapeSendsAt(k) ==
  /\ TapeAt(tapeStep + k, {"serialOut"})
  /\ IF k = 0 THEN now' >= TapeDueAt(now') ELSE TapeSteps[tapeStep + k].delay = 0

TapeAdvance ==
  /\ Serves
  /\ tapeAsked' = "none"
  /\ \E n \in 0..Len(TapeSteps) :
       /\ \A k \in 0..n - 1 : TapeSendsAt(k)
       /\ ~ TapeSendsAt(n)
       /\ IF n > 0 THEN TapeGoTo(tapeStep + n, now', StillOwed)
          ELSE IF TapeTimed(tapeStep) /\ tapeArmed = "no"
          THEN /\ TapeArm(tapeStep, now', StillOwed)
               /\ UNCHANGED <<tapeStep, tapeProgress>>
          ELSE owed' = StillOwed /\ UNCHANGED tapeState

TapeIdle == PassesBy /\ UNCHANGED tapeState /\ tapeAsked' = "none"

TapeNext ==
  \/ \E kind \in {"write", "read"} : TapeRequest(kind)
  \/ \E kind \in {"serialIn", "spi"} : TapeByte(kind)
  \/ TapeAdvance \/ TapeIdle \/ TapeReset

TapeSpec == EnvironmentInit /\ TapeInit /\ [][TapeNext]_<<environment, tape>>

-----------------------------------------------------------------------------
(* Properties.                                                             *)

\* The steps are taken in order and at the pace of the recording. What the
\* device sends goes out when its delay after the step before is over, and
\* takes along only what it sends without a delay. A busy step is passed by a
\* write or a read, by the first that comes once its time is over and by none
\* before, and that request is still the next step if it is of its kind. A
\* step of the application's is taken only by a request of its kind, whatever
\* else is asked, comes in or falls due before.
TapeKeepsPace ==
  [][LET own == tapeBegan + TapeSteps[tapeStep].delay
         requests == {"write", "read"} IN
     /\ tapeStep' # tapeStep /\ ~ TapeReset =>
          /\ tapeStep' > tapeStep
          /\ TapeAt(tapeStep, {"serialOut"}) =>
               /\ \/ TapeAdvance /\ OnTime(own, tapeRefused)
                  \/ tapeStep = 1 /\ tapeArmed = "no"
               /\ \A i \in tapeStep + 1..tapeStep' - 1 :
                    TapeAt(i, {"serialOut"}) /\ TapeSteps[i].delay = 0
          /\ TapeAt(tapeStep, {"busy"}) =>
               /\ now >= own /\ tapeAsked' \in requests
               /\ tapeStep' = IF TapeAt(tapeStep + 1, {tapeAsked'})
                              THEN tapeStep + 2 ELSE tapeStep + 1
          /\ ~ TapeTimed(tapeStep) =>
               /\ tapeStep' = tapeStep + 1
               /\ tapeAsked' = TapeSteps[tapeStep].kind
     /\ tapeAsked' \in requests =>
          /\ TapeAt(tapeStep, {"busy"}) /\ tapeArmed = "yes" /\ now >= own
               => tapeStep' # tapeStep
          /\ TapeAt(tapeStep, {tapeAsked'}) => tapeStep' # tapeStep
    ]_<<environment, tape>>

\* A step of the device's own is owed its wake.
TapeIsOwed ==
  TapeAt(tapeStep, {"serialOut"}) /\ tapeArmed = "yes" =>
    Expected(tapeDue, tapeRefused)
=============================================================================
