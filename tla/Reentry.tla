------------------------------- MODULE Reentry -------------------------------
(***************************************************************************)
(* Device calls and the deferral of what devices raise while they run      *)
(* (src/src/embedbench_host.cpp: enterDevice, leaveDevice, queueDeferred,  *)
(* deliverDeferred, and every entry point that brackets a device call).    *)
(*                                                                         *)
(* The program is one thread, so a state is a call stack. A frame is       *)
(*   "device"    a device method whose operation delivers when it returns  *)
(*   "byte"      a device method serving a byte of an SPI transaction      *)
(*   "deliver"   the loop of deliverDeferred                               *)
(*   "isr"       an interrupt handler of the sketch                        *)
(*   "receiver"  the frame receiver of the sketch                          *)
(*   "tick"      fireTick before its handler, "handler" inside it          *)
(*   "wake"      onWait serving a wake                                     *)
(* and the sketch itself is below the first frame.                         *)
(***************************************************************************)
EXTENDS Integers, Sequences

CONSTANTS
  Pins,         \* pins with an interrupt
  Attached,     \* triggers the sketch attaches, "none" to detach
  Capacity,     \* kDeferralCapacity
  MaxStack,     \* bound: frames under a call the sketch makes
  MaxRaised     \* bound: effects raised, and calls refused

Triggers == {"none", "rising", "falling", "change"}

ASSUME ReentryAssumption ==
  /\ "frame" \notin Pins
  /\ Attached \subseteq Triggers
  /\ Capacity \in Nat /\ MaxStack \in Nat /\ MaxRaised \in Nat

VARIABLES
  stack,                                \* the call stack, top last
  deviceDepth, dirDepth, isrDepth,
  held,                                 \* deferred[0 .. deferredCount - 1]
  deferredDropped,
  refused,                              \* diag.reentrant: calls refused
  inSpiTransaction,                     \* "yes" or "no"
  level, trigger,                       \* of each pin
  frameReceiver, tickDevice,            \* each "bound" or "none"
  raised, served, lastServed            \* history: effects raised inside a
                                        \* device; those taken from the queue
                                        \* and the number of the last one

depths == <<deviceDepth, dirDepth, isrDepth>>
queue == <<held, deferredDropped>>
wiring == <<level, trigger, frameReceiver, tickDevice>>
log == <<raised, served, lastServed>>
vars == <<stack, depths, queue, refused, inSpiTransaction, wiring, log>>

DeviceFrames == {"device", "byte"}
DirectorFrames == {"tick", "wake", "handler"}
AppFrames == {"isr", "receiver", "handler"}
Frames == DeviceFrames \cup DirectorFrames \cup AppFrames \cup {"deliver"}

\* Deferred: what it is for, and its place among the effects raised.
Effect == [source : Pins \cup {"frame"}, n : Nat]

TypeOK ==
  /\ stack \in Seq(Frames)
  /\ deviceDepth \in Nat /\ dirDepth \in Int /\ isrDepth \in Nat
  /\ held \in Seq(Effect) /\ deferredDropped \in Nat
  /\ refused \in Nat
  /\ inSpiTransaction \in {"yes", "no"}
  /\ level \in [Pins -> {0, 1}] /\ trigger \in [Pins -> Triggers]
  /\ frameReceiver \in {"bound", "none"} /\ tickDevice \in {"bound", "none"}
  /\ raised \in Nat /\ served \in Nat /\ lastServed \in Nat

Init ==
  /\ stack = <<>>
  /\ deviceDepth = 0 /\ dirDepth = 0 /\ isrDepth = 0
  /\ held = <<>> /\ deferredDropped = 0 /\ refused = 0
  /\ inSpiTransaction = "no"
  /\ level = [p \in Pins |-> 0] /\ trigger = [p \in Pins |-> "none"]
  /\ frameReceiver = "none" /\ tickDevice = "none"
  /\ raised = 0 /\ served = 0 /\ lastServed = 0

-----------------------------------------------------------------------------
(* The call stack.                                                         *)

Top(f) == stack # <<>> /\ stack[Len(stack)] = f
Below == SubSeq(stack, 1, Len(stack) - 1)
Push(f) == stack' = Append(stack, f)
Return == stack' = Below
Replace(f) == stack' = Append(Below, f)

\* Code of the sketch or of the director runs; CanCall: and the bound
\* leaves room for what it calls.
AppRuns == stack = <<>> \/ \E f \in AppFrames : Top(f)
CanCall == AppRuns /\ Len(stack) < MaxStack
DeviceRuns == \E f \in DeviceFrames : Top(f)

\* enterDevice.
EnterDevice(f) == Push(f) /\ deviceDepth' = deviceDepth + 1

-----------------------------------------------------------------------------
(* Entering and leaving devices.                                           *)

\* A Wire transfer, a UART write, a pin write that is forwarded, or one of
\* the guarded calls below when no device runs: the device is entered and
\* what it raised is delivered when it has returned.
DeviceOp ==
  /\ CanCall
  /\ EnterDevice("device")
  /\ UNCHANGED <<dirDepth, isrDepth, queue, refused, inSpiTransaction, wiring,
                 log>>

\* chanWrite and frameTx, called by a port or a shim while a device runs.
RefuseReentrantCall ==
  /\ DeviceRuns /\ deviceDepth > 0
  /\ refused < MaxRaised
  /\ refused' = refused + 1
  /\ UNCHANGED <<stack, depths, queue, inSpiTransaction, wiring, log>>

\* onSpiTransfer: inside a transaction nothing is delivered after the byte.
SpiTransfer ==
  /\ CanCall
  /\ EnterDevice(IF inSpiTransaction = "yes" THEN "byte" ELSE "device")
  /\ UNCHANGED <<dirDepth, isrDepth, queue, refused, inSpiTransaction, wiring,
                 log>>

SpiBegin ==
  /\ AppRuns
  /\ inSpiTransaction' = "yes"
  /\ UNCHANGED <<stack, depths, queue, refused, wiring, log>>

\* Mutated form: what the transaction held is left where it is.
SpiEndHolds ==
  /\ AppRuns
  /\ inSpiTransaction' = "no"
  /\ UNCHANGED <<stack, depths, queue, refused, wiring, log>>

SpiEnd ==
  /\ CanCall
  /\ inSpiTransaction' = "no"
  /\ Push("deliver")
  /\ UNCHANGED <<depths, queue, refused, wiring, log>>

\* leaveDevice, and deliverDeferred unless a transaction is open.
DeviceReturns ==
  /\ DeviceRuns
  /\ IF Top("byte") THEN Return ELSE Replace("deliver")
  /\ deviceDepth' = IF deviceDepth > 0 THEN deviceDepth - 1 ELSE 0
  /\ UNCHANGED <<dirDepth, isrDepth, queue, refused, inSpiTransaction, wiring,
                 log>>

-----------------------------------------------------------------------------
(* Effects.                                                                *)

\* queueDeferred, with the number of the effect.
QueueDeferred(source) ==
  /\ raised < MaxRaised
  /\ raised' = raised + 1
  /\ IF Len(held) < Capacity
     THEN /\ held' = Append(held, [source |-> source, n |-> raised + 1])
          /\ UNCHANGED deferredDropped
     ELSE /\ deferredDropped' = deferredDropped + 1
          /\ UNCHANGED held
  /\ UNCHANGED <<stack, depths, served, lastServed>>

\* triggerInterrupt and the calls it makes to onInterruptEvent.
CallIsr == Push("isr") /\ isrDepth' = isrDepth + 1

\* Mutated form: the handler runs at once, whoever runs.
RaiseAtOnce(source) ==
  /\ IF source = "frame" THEN Push("receiver") /\ UNCHANGED isrDepth
                         ELSE CallIsr
  /\ UNCHANGED <<deviceDepth, dirDepth, queue, log>>

\* An effect is held while a device runs and takes place at once otherwise.
Raise(source) ==
  IF deviceDepth > 0 THEN QueueDeferred(source)
  ELSE /\ IF source = "frame" THEN Push("receiver") /\ UNCHANGED isrDepth
                              ELSE CallIsr
       /\ UNCHANGED <<deviceDepth, dirDepth, queue, log>>

\* The edge a pin's interrupt waits for.
Match(p, new) ==
  \/ level[p] = 0 /\ new = 1 /\ trigger[p] \in {"rising", "change"}
  \/ level[p] = 1 /\ new = 0 /\ trigger[p] \in {"falling", "change"}

\* pinInject, called by a device (lineOut), the sketch or the director.
PinInject(p, new) ==
  /\ CanCall \/ DeviceRuns
  /\ level' = [level EXCEPT ![p] = new]
  /\ IF Match(p, new) THEN Raise(p) ELSE UNCHANGED <<stack, depths, queue, log>>
  /\ UNCHANGED <<refused, inSpiTransaction, trigger, frameReceiver, tickDevice>>

\* frameRx of an acceptable frame: without a receiver it is only recorded.
FrameRx ==
  /\ CanCall \/ DeviceRuns
  /\ frameReceiver = "bound"
  /\ Raise("frame")
  /\ UNCHANGED <<refused, inSpiTransaction, wiring>>

\* Who is called for an effect is looked up when it is delivered.
Wanted(source) ==
  \/ source = "frame" /\ frameReceiver = "bound"
  \/ source # "frame" /\ trigger[source] # "none"

\* Mutated form: the last effect raised goes first.
DeliverLast ==
  /\ Top("deliver") /\ deviceDepth = 0 /\ held # <<>>
  /\ held' = SubSeq(held, 1, Len(held) - 1)
  /\ served' = served + 1 /\ lastServed' = held[Len(held)].n
  /\ IF ~ Wanted(held[Len(held)].source) THEN UNCHANGED <<stack, isrDepth>>
     ELSE IF held[Len(held)].source = "frame"
          THEN Push("receiver") /\ UNCHANGED isrDepth
          ELSE CallIsr
  /\ UNCHANGED <<deviceDepth, dirDepth, deferredDropped, refused,
                 inSpiTransaction, wiring, raised>>

\* One turn of deliverDeferred's loop: the first effect is taken and its
\* handler called, or nobody is any more.
Deliver ==
  /\ Top("deliver") /\ deviceDepth = 0 /\ held # <<>>
  /\ held' = Tail(held)
  /\ served' = served + 1 /\ lastServed' = Head(held).n
  /\ IF ~ Wanted(Head(held).source) THEN UNCHANGED <<stack, isrDepth>>
     ELSE IF Head(held).source = "frame"
          THEN Push("receiver") /\ UNCHANGED isrDepth
          ELSE CallIsr
  /\ UNCHANGED <<deviceDepth, dirDepth, deferredDropped, refused,
                 inSpiTransaction, wiring, raised>>

DeliverDone ==
  /\ Top("deliver") /\ ~ (deviceDepth = 0 /\ held # <<>>)
  /\ Return
  /\ UNCHANGED <<depths, queue, refused, inSpiTransaction, wiring, log>>

\* Mutated form: every handler leaves an interrupt, called by one or not.
CallbackReturnsUnguarded ==
  /\ \E f \in AppFrames : Top(f)
  /\ Return
  /\ isrDepth' = IF Top("handler") THEN isrDepth ELSE isrDepth - 1
  /\ dirDepth' = IF Top("handler") THEN dirDepth - 1 ELSE dirDepth
  /\ UNCHANGED <<deviceDepth, queue, refused, inSpiTransaction, wiring, log>>

CallbackReturns ==
  /\ \E f \in AppFrames : Top(f)
  /\ Return
  /\ isrDepth' = IF Top("isr") /\ isrDepth > 0 THEN isrDepth - 1 ELSE isrDepth
  /\ dirDepth' = IF Top("handler") THEN dirDepth - 1 ELSE dirDepth
  /\ UNCHANGED <<deviceDepth, queue, refused, inSpiTransaction, wiring, log>>

-----------------------------------------------------------------------------
(* Waits of the sketch: the devices are advanced at ticks and at wakes.    *)

\* Only a wait made outside every callback of the director and outside
\* every interrupt reaches a boundary. With no tick device nothing is
\* entered and nothing delivered: a tick goes straight to its handler, and
\* a wake passes without a trace.
Advance ==
  /\ CanCall /\ dirDepth = 0 /\ isrDepth = 0
  /\ \/ /\ tickDevice = "bound"
        /\ \E f \in {"tick", "wake"} : stack' = stack \o <<f, "device">>
        /\ deviceDepth' = deviceDepth + 1
     \/ /\ tickDevice = "none"
        /\ Push("handler")
        /\ UNCHANGED deviceDepth
  /\ dirDepth' = 1
  /\ UNCHANGED <<isrDepth, queue, refused, inSpiTransaction, wiring, log>>

\* Mutated form: the handler is called while deliverDeferred still runs.
TickHandlerEarly ==
  /\ Len(stack) > 1 /\ stack[Len(stack) - 1] = "tick" /\ Top("deliver")
  /\ stack' = [stack EXCEPT ![Len(stack) - 1] = "deliver",
                            ![Len(stack)] = "handler"]
  /\ UNCHANGED <<depths, queue, refused, inSpiTransaction, wiring, log>>

\* The device models have run and what they raised has been delivered.
TickHandlerCalled ==
  /\ Top("tick")
  /\ Replace("handler")
  /\ UNCHANGED <<depths, queue, refused, inSpiTransaction, wiring, log>>

WakeServed ==
  /\ Top("wake")
  /\ Return
  /\ dirDepth' = dirDepth - 1
  /\ UNCHANGED <<deviceDepth, isrDepth, queue, refused, inSpiTransaction,
                 wiring, log>>

-----------------------------------------------------------------------------
(* The sketch rewires, and a new window begins between two calls.          *)

Attach(p, t) ==
  /\ AppRuns
  /\ trigger' = [trigger EXCEPT ![p] = t]
  /\ UNCHANGED <<stack, depths, queue, refused, inSpiTransaction, level,
                 frameReceiver, tickDevice, log>>

SetFrameReceiver(r) ==
  /\ AppRuns
  /\ frameReceiver' = r
  /\ UNCHANGED <<stack, depths, queue, refused, inSpiTransaction, level,
                 trigger, tickDevice, log>>

BindTickDevice(d) ==
  /\ AppRuns
  /\ tickDevice' = d
  /\ UNCHANGED <<stack, depths, queue, refused, inSpiTransaction, level,
                 trigger, frameReceiver, log>>

RunBegin ==
  /\ stack = <<>>
  /\ deviceDepth' = 0 /\ dirDepth' = 0 /\ isrDepth' = 0
  /\ held' = <<>> /\ deferredDropped' = 0 /\ refused' = 0
  /\ inSpiTransaction' = "no"
  /\ raised' = 0 /\ served' = 0 /\ lastServed' = 0
  /\ UNCHANGED <<stack, wiring>>

Next ==
  \/ DeviceOp \/ RefuseReentrantCall \/ DeviceReturns
  \/ SpiBegin \/ SpiTransfer \/ SpiEnd
  \/ \E p \in Pins, new \in {0, 1} : PinInject(p, new)
  \/ FrameRx \/ Deliver \/ DeliverDone \/ CallbackReturns
  \/ Advance \/ TickHandlerCalled \/ WakeServed
  \/ \E p \in Pins, t \in Attached : Attach(p, t)
  \/ \E r \in {"bound", "none"} : SetFrameReceiver(r) \/ BindTickDevice(r)
  \/ RunBegin

Spec == Init /\ [][Next]_vars

-----------------------------------------------------------------------------
(* Properties.                                                             *)

\* A device that runs is alone: it is on top of the stack, so nothing it
\* raised has called into the sketch or into another device, and the depth
\* the host counts says so (embedbench_device.h, "Re-entrancy").
DeviceRunsAlone ==
  /\ deviceDepth = (IF DeviceRuns THEN 1 ELSE 0)
  /\ \A i \in 1..Len(stack) : stack[i] \in DeviceFrames => i = Len(stack)

\* Held effects keep the order they were raised in, across nested delivery
\* loops, ticks and transactions: what waits is younger than all that was
\* delivered (deliverDeferred).
HeldInOrder ==
  /\ \A i \in 1..Len(held) : lastServed < held[i].n /\ held[i].n <= raised
  /\ \A i, j \in 1..Len(held) : i < j => held[i].n < held[j].n

\* Every effect raised inside a device is held, was delivered, or has been
\* counted as dropped (queueDeferred: never lost in silence).
NothingLostInSilence == raised = served + Len(held) + deferredDropped

\* When control is back in the sketch and no SPI transaction is open,
\* nothing is held any more: no operation leaves its effects for the next.
NothingLeftBehind ==
  stack = <<>> /\ inSpiTransaction = "no" => held = <<>>

\* fireTick: the effects of the device models, and all that an open
\* transaction of the sketch held, are delivered before the director's
\* handler is called (embedbench_host.h:86-87, the device is bracketed and
\* run before the handler). That is so while a tick device is bound: with
\* none, fireTick delivers nothing (618-623) and the handler runs with
\* whatever the transaction holds.
HandlerSeesAllDelivered ==
  [][stack' # stack /\ Len(stack') >= Len(stack)
       /\ stack'[Len(stack')] = "handler" /\ tickDevice = "bound"
       => held = <<>>]_vars

\* The host keeps the re-entrancy contract of the device interface.
Contract ==
  INSTANCE DeferralContract WITH Effects <- Effect, depth <- deviceDepth,
                                 lost <- deferredDropped
KeepsDeferralContract == Contract!Spec

\* Every device method and every callback returns, at whatever depth, and
\* the sketch ends its transactions. A callback that may call something
\* itself is enabled to return again and again; above MaxStack it makes no
\* calls and stays enabled.
FairSpec ==
  /\ Spec
  /\ WF_vars(DeviceReturns \/ Deliver \/ DeliverDone \/ TickHandlerCalled
               \/ WakeServed \/ (Len(stack) > MaxStack /\ CallbackReturns))
  /\ \A d \in 1..MaxStack : SF_vars(Len(stack) = d /\ CallbackReturns)
  /\ SF_vars(stack = <<>> /\ inSpiTransaction = "yes" /\ SpiEnd)

\* What is held is delivered in the end, whatever the handlers it is
\* delivered to call and raise themselves.
HeldIsDelivered == held # <<>> ~> held = <<>>
=============================================================================
