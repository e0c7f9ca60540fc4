----------------------------- MODULE HostClock -----------------------------
(***************************************************************************)
(* The virtual clock of the host environment: onWait and what it calls     *)
(* (src/src/embedbench_host.cpp). A wait made by the application is split  *)
(* at tick boundaries and at the moments devices asked to be woken; a wait *)
(* made inside a callback only moves time and leaves the ticks it passed   *)
(* for the outer splitter to fire late.                                    *)
(*                                                                         *)
(* The program is one thread. Every interleaving below is a call made from *)
(* inside another call, and pc says where the outermost onWait stands:     *)
(*   "app"      no split wait on the stack: the sketch is running          *)
(*   "loop"     head of the splitter's loop                                *)
(*   "advance"  inside tickDevice: the device models run                   *)
(*   "deliver"  inside deliverDeferred: held interrupts run                *)
(*   "handler"  inside the director's tick handler                         *)
(*   "zero"     inside the director's zero-wait handler                    *)
(***************************************************************************)
EXTENDS Integers, FiniteSets

CONSTANTS
  TickUs,      \* tick period given to runBegin
  Slice,       \* kCoreLoopSliceUs: the wait length of the core's own loops
  WakeSlots,   \* kWakeSlots: how many distinct moments can be held
  Waits,       \* wait lengths the sketch and the callbacks use, 0 included
  Delays,      \* lengths of the core's delay()
  Ahead,       \* how far ahead of now devices ask to be woken, 0 included
  MaxIsr,      \* bound: nesting of interrupt handlers
  Horizon,     \* bound: no wait is begun that would end after this time;
               \* it ends behaviours, it is no claim about callbacks
  MaxCount     \* bound: zeroWaits, zeroInDirector and droppedWakes

ASSUME TickAssumption == TickUs \in Nat \ {0}
ASSUME ClockAssumption ==
  /\ Slice \in Nat \ {0}
  /\ WakeSlots \in Nat
  /\ Waits \subseteq Nat
  /\ Delays \subseteq Nat \ {0}
  /\ Ahead \subseteq Nat
  /\ MaxIsr \in Nat
  /\ Horizon \in Nat
  /\ MaxCount \in Nat

VARIABLES
  vnow, nextTick,                    \* virtual time, next tick boundary
  ticks, pendingTicks, lateTicks,    \* fired, deferred, fired late
  wakes, droppedWakes,               \* wakeAtUs as a set, refusals
  zeroWaits, zeroInDirector,
  dirDepth, isrDepth,
  pc, target, length, serving,       \* the outermost onWait and its locals:
                                     \* what it waits for, what it serves
  deadline,                          \* end of the core's delay(), or 0
  owed                               \* history: accepted, not served yet

clock == <<vnow, nextTick>>
counts == <<ticks, pendingTicks, lateTicks>>
zeros == <<zeroWaits, zeroInDirector>>
table == <<wakes, droppedWakes>>
frame == <<pc, target, length, serving>>
vars == <<clock, counts, table, zeros, dirDepth, isrDepth, frame, deadline,
          owed>>

Positions == {"app", "loop", "advance", "deliver", "handler", "zero"}

TypeOK ==
  /\ vnow \in Nat /\ nextTick \in Nat
  /\ ticks \in Nat /\ pendingTicks \in Nat /\ lateTicks \in Nat
  /\ wakes \subseteq Nat \ {0} /\ owed \subseteq Nat \ {0}
  /\ droppedWakes \in Nat /\ zeroWaits \in Nat /\ zeroInDirector \in Nat
  /\ dirDepth \in {0, 1} /\ isrDepth \in Nat
  /\ pc \in Positions /\ target \in Nat
  /\ length \in {"none", "slice", "oneshot"}
  /\ serving \in {"none", "wake", "tick"}
  /\ deadline \in Nat

Init ==
  /\ vnow = 0 /\ nextTick = TickUs
  /\ ticks = 0 /\ pendingTicks = 0 /\ lateTicks = 0
  /\ wakes = {} /\ droppedWakes = 0
  /\ zeroWaits = 0 /\ zeroInDirector = 0
  /\ dirDepth = 0 /\ isrDepth = 0
  /\ pc = "app" /\ target = 0 /\ length = "none" /\ serving = "none"
  /\ deadline = 0
  /\ owed = {}

-----------------------------------------------------------------------------
(* The wake table.                                                         *)

\* Mutated form: the first wake found, not the earliest.
WakeIsNextUnordered(w) == w \in wakes /\ vnow < w /\ w < nextTick

\* nextWakeAfter(vnow) when it is the next stop of the splitter.
WakeIsNext(w) ==
  /\ w \in wakes /\ vnow < w /\ w < nextTick
  /\ \A x \in wakes : vnow < x => w <= x

\* No wake falls before the next tick boundary.
TickIsNext == \A x \in wakes : vnow < x => nextTick <= x

\* retireWakesUpTo(when): what is left of the table.
RetireUpTo(when) == {w \in wakes : w > when}

\* The moments still owed once the devices have been advanced to when.
StillOwed(when) == {w \in owed : w > when}

\* requestWake(whenUs): a past moment needs nothing held, a moment already
\* held shares its slot, and a full table refuses.
Hold(whenUs) ==
  \/ whenUs <= vnow /\ UNCHANGED <<table, owed>>
  \/ /\ whenUs > vnow
     /\ whenUs \in wakes \/ Cardinality(wakes) < WakeSlots
     /\ wakes' = wakes \cup {whenUs}
     /\ owed' = owed \cup {whenUs}
     /\ UNCHANGED droppedWakes
  \/ /\ whenUs > vnow /\ whenUs \notin wakes
     /\ Cardinality(wakes) >= WakeSlots
     /\ droppedWakes < MaxCount
     /\ droppedWakes' = droppedWakes + 1
     /\ UNCHANGED <<wakes, owed>>

-----------------------------------------------------------------------------
(* Who may call what. Code that is neither the host's nor a device's: the  *)
(* sketch, an interrupt handler, a director callback.                      *)

UserCode ==
  \/ isrDepth > 0
  \/ pc \in {"handler", "zero"}
  \/ pc = "app" /\ deadline = 0

\* A device model runs: called by the splitter, or by any bus or pin
\* operation of user code.
DeviceRuns == pc = "advance" \/ UserCode

RequestWake ==
  /\ DeviceRuns
  /\ \E a \in Ahead : Hold(vnow + a)
  /\ UNCHANGED <<clock, counts, zeros, dirDepth, isrDepth, frame, deadline>>

\* An interrupt handler starts: a director's pinInject, an effect delivered
\* by deliverDeferred, or one delivered after an operation of user code.
IsrEnter ==
  /\ UserCode \/ pc = "deliver"
  /\ isrDepth < MaxIsr
  /\ isrDepth' = isrDepth + 1
  /\ UNCHANGED <<clock, counts, table, zeros, dirDepth, frame, deadline, owed>>

IsrExit ==
  /\ isrDepth > 0
  /\ isrDepth' = isrDepth - 1
  /\ UNCHANGED <<clock, counts, table, zeros, dirDepth, frame, deadline, owed>>

-----------------------------------------------------------------------------
(* onWait: the three ways in.                                              *)

InCallback == dirDepth > 0 \/ isrDepth > 0

ZeroWaitNested ==
  /\ UserCode /\ InCallback
  /\ 0 \in Waits /\ zeroInDirector < MaxCount
  /\ zeroInDirector' = zeroInDirector + 1
  /\ UNCHANGED <<clock, counts, table, zeroWaits, dirDepth, isrDepth, frame,
                 deadline, owed>>

ZeroWait ==
  /\ UserCode /\ ~InCallback
  /\ 0 \in Waits /\ zeroWaits < MaxCount
  /\ zeroWaits' = zeroWaits + 1
  /\ dirDepth' = dirDepth + 1
  /\ pc' = "zero"
  /\ UNCHANGED <<clock, counts, table, zeroInDirector, isrDepth, target,
                 length, serving, deadline, owed>>

ZeroHandlerReturns ==
  /\ pc = "zero" /\ isrDepth = 0
  /\ dirDepth' = dirDepth - 1
  /\ pc' = "app"
  /\ UNCHANGED <<clock, counts, table, zeros, isrDepth, target, length,
                 serving, deadline, owed>>

\* Mutated form: an if where the code has a while.
PassesOneTick(k, end) == k = IF nextTick <= end THEN 1 ELSE 0

\* The tick boundaries a nested wait passes: the while loop leaves nextTick
\* at the first boundary after the wait's end, k periods further on.
PassesTicks(k, end) ==
  /\ end < nextTick + k * TickUs
  /\ k > 0 => nextTick + (k - 1) * TickUs <= end

NestedWait ==
  /\ UserCode /\ InCallback
  /\ \E us \in Waits \ {0} :
       /\ vnow + us <= Horizon
       /\ \E k \in 0 .. us :
            /\ PassesTicks(k, vnow + us)
            /\ pendingTicks' = pendingTicks + k
            /\ nextTick' = nextTick + k * TickUs
       /\ vnow' = vnow + us
  /\ UNCHANGED <<ticks, lateTicks, table, zeros, dirDepth, isrDepth, frame,
                 deadline, owed>>

\* A wait of the sketch enters the splitter.
EnterLoop(us) ==
  /\ ~InCallback
  /\ target' = vnow + us
  /\ length' = IF us = Slice THEN "slice" ELSE "oneshot"
  /\ pc' = "loop"
  /\ UNCHANGED <<clock, counts, table, zeros, dirDepth, isrDepth, serving,
                 owed>>

Wait ==
  /\ UserCode
  /\ \E us \in Waits \ {0} : vnow + us <= Horizon /\ EnterLoop(us)
  /\ UNCHANGED deadline

-----------------------------------------------------------------------------
(* delay() of the host core: waits of exactly one slice until its deadline *)
(* has passed. External, as tests/clock and onWait's own comment show it.  *)

DelayBegin ==
  /\ UserCode /\ ~InCallback
  /\ \E d \in Delays :
       /\ vnow + d + Slice <= Horizon
       /\ deadline' = vnow + d
  /\ UNCHANGED <<clock, counts, table, zeros, dirDepth, isrDepth, frame, owed>>

DelaySlice ==
  /\ pc = "app" /\ deadline > vnow
  /\ EnterLoop(Slice)
  /\ UNCHANGED deadline

DelayEnd ==
  /\ pc = "app" /\ deadline > 0 /\ deadline <= vnow /\ ~InCallback
  /\ deadline' = 0
  /\ UNCHANGED <<clock, counts, table, zeros, dirDepth, isrDepth, frame, owed>>

-----------------------------------------------------------------------------
(* The splitter.                                                           *)

\* The wait is over: nothing more falls inside it. A nested wait may have
\* moved time past the target already.
WaitDone ==
  /\ pc = "loop"
  /\ \/ TickIsNext /\ nextTick > target
     \/ \E w \in wakes : WakeIsNext(w) /\ w > target
  /\ vnow' = IF target > vnow THEN target ELSE vnow
  /\ pc' = "app" /\ target' = 0 /\ length' = "none"
  /\ UNCHANGED <<nextTick, counts, table, zeros, dirDepth, isrDepth, serving,
                 deadline, owed>>

\* Mutated form: the wake being served stays in the table and still counts
\* as to come.
ServeWakeUnretired ==
  /\ pc = "loop"
  /\ \E w \in wakes :
       /\ vnow <= w /\ w < nextTick /\ w <= target
       /\ vnow' = w
       /\ owed' = StillOwed(w)
  /\ dirDepth' = dirDepth + 1
  /\ pc' = "advance" /\ serving' = "wake"
  /\ UNCHANGED <<nextTick, counts, table, zeros, isrDepth, target, length,
                 deadline>>

\* A requested moment is the next stop: the devices are advanced there.
ServeWake ==
  /\ pc = "loop"
  /\ \E w \in wakes :
       /\ WakeIsNext(w) /\ w <= target
       /\ vnow' = w
       /\ wakes' = RetireUpTo(w)
       /\ owed' = StillOwed(w)
  /\ dirDepth' = dirDepth + 1
  /\ pc' = "advance" /\ serving' = "wake"
  /\ UNCHANGED <<nextTick, counts, droppedWakes, zeros, isrDepth, target,
                 length, deadline>>

\* A tick boundary is the next stop: fireTick begins with the devices.
ServeTick ==
  /\ pc = "loop"
  /\ TickIsNext /\ nextTick <= target
  /\ vnow' = nextTick
  /\ nextTick' = nextTick + TickUs
  /\ wakes' = RetireUpTo(nextTick)
  /\ owed' = StillOwed(nextTick)
  /\ ticks' = ticks + 1
  /\ dirDepth' = dirDepth + 1
  /\ pc' = "advance" /\ serving' = "tick"
  /\ UNCHANGED <<pendingTicks, lateTicks, droppedWakes, zeros, isrDepth,
                 target, length, deadline>>

\* tickDevice returns, and the effects it raised are delivered.
AdvanceReturns ==
  /\ pc = "advance"
  /\ pc' = "deliver"
  /\ UNCHANGED <<clock, counts, table, zeros, dirDepth, isrDepth, target,
                 length, serving, deadline, owed>>

\* Mutated form: every wait comes back at a wake, a one-shot one too.
WakeServedCutsShort ==
  /\ pc = "deliver" /\ isrDepth = 0 /\ serving = "wake"
  /\ dirDepth' = dirDepth - 1
  /\ pc' = "app" /\ target' = 0 /\ length' = "none" /\ serving' = "none"
  /\ UNCHANGED <<clock, counts, table, zeros, isrDepth, deadline, owed>>

\* After a wake the loop goes on, or the slice comes back early so that the
\* application sees the answer at the moment it was produced.
WakeServed ==
  /\ pc = "deliver" /\ isrDepth = 0 /\ serving = "wake"
  /\ dirDepth' = dirDepth - 1
  /\ IF length = "slice" THEN pc' = "app" /\ target' = 0 /\ length' = "none"
              ELSE pc' = "loop" /\ UNCHANGED <<target, length>>
  /\ serving' = "none"
  /\ UNCHANGED <<clock, counts, table, zeros, isrDepth, deadline, owed>>

TickHandlerCalled ==
  /\ pc = "deliver" /\ isrDepth = 0 /\ serving = "tick"
  /\ pc' = "handler"
  /\ UNCHANGED <<clock, counts, table, zeros, dirDepth, isrDepth, target,
                 length, serving, deadline, owed>>

\* fireTick returns. A tick some nested wait left behind is fired now, late
\* and at the present time; with none left the loop goes on.
DrainTick ==
  /\ pc = "handler" /\ isrDepth = 0
  /\ pendingTicks > 0
  /\ pendingTicks' = pendingTicks - 1
  /\ lateTicks' = lateTicks + 1
  /\ ticks' = ticks + 1
  /\ owed' = StillOwed(vnow)
  /\ pc' = "advance"
  /\ UNCHANGED <<clock, table, zeros, dirDepth, isrDepth, target, length,
                 serving, deadline>>

\* Mutated form: the table is cleaned after the service, not before it.
TicksDrainedRetires ==
  /\ pc = "handler" /\ isrDepth = 0
  /\ pendingTicks = 0
  /\ dirDepth' = dirDepth - 1
  /\ pc' = "loop" /\ serving' = "none"
  /\ wakes' = RetireUpTo(vnow)
  /\ UNCHANGED <<clock, counts, droppedWakes, zeros, isrDepth, target, length,
                 deadline, owed>>

TicksDrained ==
  /\ pc = "handler" /\ isrDepth = 0
  /\ pendingTicks = 0
  /\ dirDepth' = dirDepth - 1
  /\ pc' = "loop" /\ serving' = "none"
  /\ UNCHANGED <<clock, counts, table, zeros, isrDepth, target, length,
                 deadline, owed>>

-----------------------------------------------------------------------------
\* runBegin between two waits: the clock part of a new run window.
RunBegin ==
  /\ pc = "app" /\ ~InCallback /\ deadline = 0
  /\ vnow' = 0 /\ nextTick' = TickUs
  /\ ticks' = 0 /\ pendingTicks' = 0 /\ lateTicks' = 0
  /\ zeroWaits' = 0 /\ zeroInDirector' = 0
  /\ wakes' = {} /\ droppedWakes' = 0
  /\ owed' = {}
  /\ UNCHANGED <<dirDepth, isrDepth, frame, deadline>>

\* The steps the host itself owes once a wait or a delay is under way.
HostStep ==
  \/ WaitDone \/ ServeWake \/ ServeTick \/ AdvanceReturns \/ WakeServed
  \/ TickHandlerCalled \/ DrainTick \/ TicksDrained
  \/ ZeroHandlerReturns \/ IsrExit \/ DelaySlice \/ DelayEnd

UserStep ==
  \/ RequestWake \/ IsrEnter \/ ZeroWaitNested \/ ZeroWait \/ NestedWait
  \/ Wait \/ DelayBegin \/ RunBegin

Next == HostStep \/ UserStep

Spec == Init /\ [][Next]_vars

\* One thread runs: a call that can go on goes on; and a callback that can
\* return again and again does so in the end (an interrupt handler it runs
\* returns to it). What a callback asks of the clock is left open: how often
\* it waits is what WaitsReturn is about.
CallbackReturns ==
  \/ WakeServed \/ TickHandlerCalled \/ DrainTick \/ TicksDrained
  \/ ZeroHandlerReturns

FairSpec == Spec /\ WF_vars(HostStep) /\ SF_vars(CallbackReturns)

-----------------------------------------------------------------------------
(* Safety.                                                                 *)

\* Every tick boundary the clock has passed is either fired or pending, once
\* each, whatever waits were nested in whatever callback: onWait's two
\* branches (666-674, 733-740) never lose a tick and never fire one twice.
TicksAccounted ==
  /\ (ticks + pendingTicks) * TickUs <= vnow
  /\ vnow < (ticks + pendingTicks + 1) * TickUs

\* The boundary the splitter will stop at is the first one not accounted for.
NextTickIsNext == nextTick = (ticks + pendingTicks + 1) * TickUs

\* A moment accepted by requestWake keeps its slot until the devices have
\* been advanced at it or after it: retireWakesUpTo (641-647) never frees a
\* request nobody served, also when callbacks wait and ask while it is served.
OwedIsHeld == owed \subseteq wakes

\* A wait other than the core's own slice never ends before its time, however
\* many wakes and ticks it serves on its way (687, 702-715).
OneShotNeverShort ==
  [][pc # "app" /\ pc' = "app" /\ pc # "zero"
       => vnow' >= target \/ length = "slice"]_vars

\* The whole clock keeps the time contract of the device interface.
Contract ==
  INSTANCE TimeContract WITH now <- vnow, busy <- InCallback

KeepsTimeContract == Contract!Spec

-----------------------------------------------------------------------------
(* Liveness.                                                               *)

\* A wait of the sketch returns, and so does the core's delay() although a
\* wake may cut every slice of it short (716-731), whatever the devices ask
\* for meanwhile and however often callbacks have waited by then, unless they
\* go on waiting for ever. The exception is the code's: a tick handler that
\* waits one period each time it is called leaves one more pending tick each
\* time (668-672), so the loop that fires them (736-740) never ends and the
\* wait of the sketch never returns, though every callback does.
WaitsReturn ==
  (<>[][~NestedWait]_vars)
    => /\ (pc = "loop") ~> (pc = "app")
       /\ (deadline > 0) ~> (deadline = 0)

-----------------------------------------------------------------------------
(* What the documents say and the code does not do.                        *)

\* embedbench_host.h:185-187: a latency "is still served when it is due".
ServedWhenDue ==
  [][pc = "loop" /\ pc' = "app" => \A w \in owed' : w > vnow']_vars
=============================================================================
