--------------------------- MODULE ReentryProofs ---------------------------
(***************************************************************************)
(* No device is ever entered while it runs, and what devices raise is      *)
(* delivered in order or counted, for every set of pins, every capacity    *)
(* and every depth of the call stack.                                      *)
(***************************************************************************)
EXTENDS Reentry, SequenceTheorems, TLAPS

-----------------------------------------------------------------------------
(* The three things a step does to the call stack.                         *)

Grows(f) ==
  /\ stack' \in Seq(Frames) /\ Len(stack') = Len(stack) + 1
  /\ \A i \in 1..Len(stack) : stack'[i] = stack[i]
  /\ stack'[Len(stack) + 1] = f

Shrinks ==
  /\ stack' \in Seq(Frames) /\ Len(stack') = Len(stack) - 1
  /\ \A i \in 1..Len(stack) - 1 : stack'[i] = stack[i]

Swaps(f) ==
  /\ stack' \in Seq(Frames) /\ Len(stack') = Len(stack)
  /\ \A i \in 1..Len(stack) - 1 : stack'[i] = stack[i]
  /\ stack'[Len(stack)] = f

LEMMA Lengths ==
  ASSUME NEW s \in Seq(Frames)
  PROVE  Len(s) \in Nat /\ (s # <<>> <=> Len(s) > 0)
BY EmptySeq

LEMMA BelowTop ==
  ASSUME stack \in Seq(Frames), stack # <<>>
  PROVE  /\ Below \in Seq(Frames) /\ Len(Below) = Len(stack) - 1
         /\ \A i \in 1..Len(stack) - 1 : Below[i] = stack[i]
         /\ Len(stack) \in Nat \ {0}
<1> DEFINE n == Len(stack) - 1
<1>1. Len(stack) \in Nat \ {0} /\ n \in Nat
  BY Lengths
<1>2. \A i \in 1..n : stack[i] \in Frames
  BY <1>1
<1> HIDE DEF n
<1>3. /\ SubSeq(stack, 1, n) \in Seq(Frames)
      /\ Len(SubSeq(stack, 1, n)) = IF 1 <= n THEN n - 1 + 1 ELSE 0
      /\ \A i \in 1..n - 1 + 1 : SubSeq(stack, 1, n)[i] = stack[1 + i - 1]
  BY <1>1, <1>2, SubSeqProperties, 1 \in Int, n \in Int
<1>4. /\ Len(SubSeq(stack, 1, n)) = n
      /\ \A i \in 1..n : SubSeq(stack, 1, n)[i] = stack[i]
  <2>1. ASSUME NEW i \in 1..n PROVE SubSeq(stack, 1, n)[i] = stack[i]
    <3>1. i \in 1..n - 1 + 1 /\ 1 + i - 1 = i
      BY <1>1
    <3>2. QED
      BY <1>3, <3>1
  <2>2. QED
    BY <1>1, <1>3, <2>1
<1>5. QED
  BY <1>1, <1>3, <1>4 DEF Below, n

LEMMA PushGrows ==
  ASSUME stack \in Seq(Frames), NEW f \in Frames, Push(f)
  PROVE  Grows(f)
BY DEF Push, Grows

LEMMA ReturnShrinks ==
  ASSUME stack \in Seq(Frames), stack # <<>>, Return
  PROVE  Shrinks
BY BelowTop DEF Return, Shrinks

LEMMA ReplaceSwaps ==
  ASSUME stack \in Seq(Frames), stack # <<>>, NEW f \in Frames, Replace(f)
  PROVE  Swaps(f)
BY BelowTop DEF Replace, Swaps

-----------------------------------------------------------------------------
(* The call stack.                                                         *)

\* A director's frame calls devices and deliveries only, and a byte is
\* transferred without a delivery only inside a transaction.
StackInv ==
  /\ TypeOK
  /\ DeviceRunsAlone
  /\ \A i \in 1..Len(stack) - 1 :
       stack[i] \in {"tick", "wake"} => stack[i + 1] \in {"device", "deliver"}
  /\ Top("byte") => inSpiTransaction = "yes"

\* The sketch or a callback runs: no device is on the stack and the top
\* frame is not one of the director's own.
LEMMA AppBelow ==
  ASSUME StackInv, AppRuns
  PROVE  /\ deviceDepth = 0
         /\ \A i \in 1..Len(stack) : stack[i] \notin DeviceFrames
         /\ stack # <<>> => stack[Len(stack)] \in AppFrames
BY DEF StackInv, TypeOK, DeviceRunsAlone, DeviceRuns, AppRuns, Top, AppFrames,
   DeviceFrames

LEMMA InitStackInv == Init => StackInv
<1> SUFFICES ASSUME Init PROVE StackInv
  OBVIOUS
<1>1. TypeOK
  BY ReentryAssumption DEF Init, TypeOK, Triggers
<1>2. QED
  BY <1>1 DEF Init, StackInv, DeviceRunsAlone, DeviceRuns, Top, DeviceFrames

\* What a call into a device, the start of a delivery loop or a callback
\* leaves of the stack's invariant, when it is made above code of the
\* sketch or of the director.
LEMMA CallKeepsStack ==
  ASSUME StackInv, TypeOK', AppRuns,
         NEW f \in {"device", "byte", "deliver", "isr", "receiver", "handler"},
         Grows(f),
         deviceDepth' = IF f \in DeviceFrames THEN 1 ELSE 0,
         f = "byte" => inSpiTransaction' = "yes"
  PROVE  StackInv'
<1>0. /\ Len(stack) \in Nat /\ (stack # <<>> <=> Len(stack) > 0)
      /\ Len(stack') \in Nat /\ (stack' # <<>> <=> Len(stack') > 0)
      /\ stack \in Seq(Frames) /\ stack' \in Seq(Frames)
  BY Lengths DEF StackInv, TypeOK
<1>1. /\ \A i \in 1..Len(stack) : stack[i] \notin DeviceFrames
      /\ stack # <<>> => stack[Len(stack)] \in AppFrames
  BY AppBelow
<1>2. DeviceRunsAlone'
  BY <1>0, <1>1 DEF DeviceRunsAlone, DeviceRuns, Top, Grows, DeviceFrames, StackInv
<1>3. \A i \in 1..Len(stack') - 1 :
        stack'[i] \in {"tick", "wake"} => stack'[i + 1] \in {"device", "deliver"}
  <2> SUFFICES ASSUME NEW i \in 1..Len(stack') - 1,
                      stack'[i] \in {"tick", "wake"}
               PROVE  stack'[i + 1] \in {"device", "deliver"}
    OBVIOUS
  <2>1. i \in 1..Len(stack) /\ stack[i] = stack'[i]
    BY <1>0 DEF Grows, StackInv
  <2>2. i # Len(stack)
    BY <1>1, <2>1 DEF AppFrames
  <2>3. i + 1 \in 1..Len(stack) /\ i \in 1..Len(stack) - 1
    BY <1>0, <2>1, <2>2
  <2>4. QED
    BY <1>0, <2>1, <2>3 DEF Grows, StackInv
<1>4. (Top("byte") => inSpiTransaction = "yes")'
  BY <1>0 DEF Top, Grows, StackInv
<1>5. QED
  BY <1>2, <1>3, <1>4 DEF StackInv

\* Leaving the top frame, which no frame of the director may outlive when
\* the top frame is a callback's.
LEMMA LeaveKeepsStack ==
  ASSUME StackInv, TypeOK', stack # <<>>, Shrinks, deviceDepth' = 0
  PROVE  StackInv'
<1>0. /\ Len(stack) \in Nat /\ (stack # <<>> <=> Len(stack) > 0)
      /\ Len(stack') \in Nat /\ (stack' # <<>> <=> Len(stack') > 0)
      /\ stack \in Seq(Frames) /\ stack' \in Seq(Frames)
  BY Lengths DEF StackInv, TypeOK
<1>1. \A i \in 1..Len(stack') : stack'[i] \notin DeviceFrames
  BY <1>0 DEF Shrinks, StackInv, DeviceRunsAlone
<1>2. DeviceRunsAlone'
  BY <1>0, <1>1 DEF DeviceRunsAlone, DeviceRuns, Top, Shrinks, StackInv,
     DeviceFrames
<1>3. \A i \in 1..Len(stack') - 1 :
        stack'[i] \in {"tick", "wake"} => stack'[i + 1] \in {"device", "deliver"}
  BY <1>0 DEF Shrinks, StackInv
<1>4. (Top("byte") => inSpiTransaction = "yes")'
  BY <1>0, <1>1 DEF Top, Shrinks, StackInv, DeviceFrames
<1>5. QED
  BY <1>2, <1>3, <1>4 DEF StackInv

\* One top frame becomes another: a device's the loop of deliverDeferred,
\* a tick's its handler.
LEMMA SwapKeepsStack ==
  ASSUME StackInv, TypeOK', stack # <<>>, deviceDepth' = 0,
         \/ DeviceRuns /\ Swaps("deliver")
         \/ Top("tick") /\ Swaps("handler")
  PROVE  StackInv'
<1>0. /\ Len(stack) \in Nat /\ (stack # <<>> <=> Len(stack) > 0)
      /\ Len(stack') \in Nat /\ (stack' # <<>> <=> Len(stack') > 0)
      /\ stack \in Seq(Frames) /\ stack' \in Seq(Frames)
  BY Lengths DEF StackInv, TypeOK
<1>1. \A i \in 1..Len(stack') : stack'[i] \notin DeviceFrames
  BY <1>0 DEF Swaps, StackInv, DeviceRunsAlone, DeviceFrames
<1>2. DeviceRunsAlone'
  BY <1>0, <1>1 DEF DeviceRunsAlone, DeviceRuns, Top, Swaps, StackInv,
     DeviceFrames
<1>3. \A i \in 1..Len(stack') - 1 :
        stack'[i] \in {"tick", "wake"} => stack'[i + 1] \in {"device", "deliver"}
  BY <1>0 DEF Swaps, StackInv, Top
<1>4. (Top("byte") => inSpiTransaction = "yes")'
  BY <1>0, <1>1 DEF Top, Swaps, StackInv, DeviceFrames
<1>5. QED
  BY <1>2, <1>3, <1>4 DEF StackInv

\* deliverDeferred's loop calls a handler.
LEMMA DeliverKeepsStack ==
  ASSUME StackInv, TypeOK', Top("deliver"), deviceDepth' = 0,
         NEW f \in {"isr", "receiver"}, Grows(f)
  PROVE  StackInv'
<1>0. /\ Len(stack) \in Nat /\ (stack # <<>> <=> Len(stack) > 0)
      /\ Len(stack') \in Nat /\ (stack' # <<>> <=> Len(stack') > 0)
  BY Lengths DEF StackInv, TypeOK
<1>1. \A i \in 1..Len(stack) : stack[i] \notin DeviceFrames
  BY <1>0 DEF StackInv, DeviceRunsAlone, Top, DeviceFrames
<1>2. DeviceRunsAlone'
  BY <1>0, <1>1 DEF DeviceRunsAlone, DeviceRuns, Top, Grows, DeviceFrames
<1>3. \A i \in 1..Len(stack') - 1 :
        stack'[i] \in {"tick", "wake"} => stack'[i + 1] \in {"device", "deliver"}
  <2> SUFFICES ASSUME NEW i \in 1..Len(stack') - 1,
                      stack'[i] \in {"tick", "wake"}
               PROVE  stack'[i + 1] \in {"device", "deliver"}
    OBVIOUS
  <2>1. i \in 1..Len(stack) /\ stack[i] = stack'[i]
    BY <1>0 DEF Grows
  <2>2. i # Len(stack)
    BY <2>1 DEF Top
  <2>3. i + 1 \in 1..Len(stack) /\ i \in 1..Len(stack) - 1
    BY <1>0, <2>1, <2>2
  <2>4. QED
    BY <1>0, <2>1, <2>3 DEF Grows, StackInv
<1>4. (Top("byte") => inSpiTransaction = "yes")'
  BY <1>0 DEF Top, Grows
<1>5. QED
  BY <1>2, <1>3, <1>4 DEF StackInv

\* The splitter advances the device models.
LEMMA AdvanceKeepsStack ==
  ASSUME StackInv, TypeOK', AppRuns, deviceDepth' = deviceDepth + 1,
         \E f \in {"tick", "wake"} : stack' = stack \o <<f, "device">>
  PROVE  StackInv'
<1>1. PICK f \in {"tick", "wake"} : stack' = stack \o <<f, "device">>
  OBVIOUS
<1>2. /\ Len(stack) \in Nat /\ (stack # <<>> <=> Len(stack) > 0)
      /\ stack \in Seq(Frames) /\ <<f, "device">> \in Seq(Frames)
  BY Lengths DEF StackInv, TypeOK, Frames, DeviceFrames, DirectorFrames
<1>3. /\ Len(stack') = Len(stack) + 2 /\ stack' # <<>>
      /\ \A i \in 1..Len(stack) : stack'[i] = stack[i]
      /\ stack'[Len(stack) + 1] = f /\ stack'[Len(stack) + 2] = "device"
  BY <1>1, <1>2
<1>4. /\ \A i \in 1..Len(stack) : stack[i] \notin DeviceFrames
      /\ stack # <<>> => stack[Len(stack)] \in AppFrames
      /\ deviceDepth = 0
  BY AppBelow
<1>5. \A i \in 1..Len(stack') : i # Len(stack') => stack'[i] \notin DeviceFrames
  BY <1>2, <1>3, <1>4 DEF DeviceFrames
<1>6. DeviceRunsAlone'
  BY <1>2, <1>3, <1>4, <1>5 DEF DeviceRunsAlone, DeviceRuns, Top, DeviceFrames
<1>7. \A i \in 1..Len(stack') - 1 :
        stack'[i] \in {"tick", "wake"} => stack'[i + 1] \in {"device", "deliver"}
  <2> SUFFICES ASSUME NEW i \in 1..Len(stack') - 1,
                      stack'[i] \in {"tick", "wake"}
               PROVE  stack'[i + 1] \in {"device", "deliver"}
    OBVIOUS
  <2>1. CASE i = Len(stack) + 1
    BY <1>2, <1>3, <2>1
  <2>2. CASE i # Len(stack) + 1
    <3>1. i \in 1..Len(stack) /\ stack[i] = stack'[i]
      BY <1>2, <1>3, <2>2
    <3>2. i # Len(stack)
      BY <1>2, <1>4, <3>1 DEF AppFrames
    <3>3. i + 1 \in 1..Len(stack) /\ i \in 1..Len(stack) - 1
      BY <1>2, <3>1, <3>2
    <3>4. QED
      BY <1>3, <3>1, <3>3 DEF StackInv
  <2>3. QED
    BY <2>1, <2>2
<1>8. (Top("byte") => inSpiTransaction = "yes")'
  BY <1>2, <1>3 DEF Top
<1>9. QED
  BY <1>6, <1>7, <1>8 DEF StackInv

\* What Raise does to the types, whichever way it goes.
LEMMA RaiseTypes ==
  ASSUME TypeOK, NEW source \in Pins \cup {"frame"}, Raise(source)
  PROVE  /\ stack' \in Seq(Frames) /\ held' \in Seq(Effect)
         /\ deviceDepth' \in Nat /\ dirDepth' \in Int /\ isrDepth' \in Nat
         /\ deferredDropped' \in Nat
         /\ raised' \in Nat /\ served' \in Nat /\ lastServed' \in Nat
<1> DEFINE e == [source |-> source, n |-> raised + 1]
<1>1. e \in Effect
  BY DEF TypeOK, Effect
<1>2. Append(held, e) \in Seq(Effect)
  BY <1>1, AppendProperties DEF TypeOK
<1>3. CASE deviceDepth > 0
  <2>1. QueueDeferred(source)
    BY <1>3 DEF Raise
  <2>2. held' \in Seq(Effect) /\ deferredDropped' \in Nat
    <3>1. CASE Len(held) < Capacity
      BY <1>2, <2>1, <3>1 DEF QueueDeferred, TypeOK
    <3>2. CASE ~ (Len(held) < Capacity)
      BY <2>1, <3>2 DEF QueueDeferred, TypeOK
    <3>3. QED
      BY <3>1, <3>2
  <2>3. /\ UNCHANGED <<stack, depths, served, lastServed>>
        /\ raised' = raised + 1
    BY <2>1 DEF QueueDeferred
  <2>4. QED
    BY <2>2, <2>3 DEF TypeOK, depths
<1>4. CASE ~ (deviceDepth > 0)
  <2>1. /\ Append(stack, "isr") \in Seq(Frames)
        /\ Append(stack, "receiver") \in Seq(Frames)
    <3>1. "isr" \in Frames /\ "receiver" \in Frames
      BY DEF Frames, AppFrames
    <3>2. QED
      BY <3>1, AppendProperties DEF TypeOK
  <2>2. /\ UNCHANGED <<deviceDepth, dirDepth, queue, log>>
        /\ \/ stack' = Append(stack, "receiver") /\ UNCHANGED isrDepth
           \/ stack' = Append(stack, "isr") /\ isrDepth' = isrDepth + 1
    BY <1>4 DEF Raise, CallIsr, Push
  <2>3. stack' \in Seq(Frames) /\ isrDepth' \in Nat
    <3>1. isrDepth \in Nat /\ isrDepth + 1 \in Nat
      BY DEF TypeOK
    <3>2. QED
      BY <2>1, <2>2, <3>1
  <2>4. QED
    BY <2>2, <2>3 DEF TypeOK, queue, log
<1>5. QED
  BY <1>3, <1>4

LEMMA StepTypeOK == StackInv /\ [Next]_vars => TypeOK'
<1> SUFFICES ASSUME StackInv, [Next]_vars PROVE TypeOK'
  OBVIOUS
<1>a. TypeOK
  BY DEF StackInv
<1>b. DeviceFrames \cup AppFrames \cup {"deliver", "tick", "wake"} \subseteq Frames
  BY DEF Frames, AppFrames, DirectorFrames
<1>c. \A f \in Frames : Append(stack, f) \in Seq(Frames)
  BY <1>a, AppendProperties DEF TypeOK
<1>d. stack # <<>> => /\ Below \in Seq(Frames)
                      /\ \A f \in Frames : Append(Below, f) \in Seq(Frames)
  BY <1>a, BelowTop, AppendProperties DEF TypeOK
<1>e. held # <<>> => Tail(held) \in Seq(Effect) /\ Head(held) \in Effect
  BY <1>a, HeadTailProperties DEF TypeOK
<1> USE DEF depths, queue, wiring, log
<1>1. CASE DeviceOp
  BY <1>1, <1>a, <1>b, <1>c DEF DeviceOp, EnterDevice, Push, TypeOK, DeviceFrames
<1>2. CASE RefuseReentrantCall
  BY <1>2, <1>a DEF RefuseReentrantCall, TypeOK
<1>3. CASE DeviceReturns
  <2>1. stack' \in Seq(Frames)
    BY <1>3, <1>b, <1>d DEF DeviceReturns, DeviceRuns, Top, Return, Replace
  <2>2. deviceDepth' \in Nat
    BY <1>3, <1>a DEF DeviceReturns, TypeOK
  <2>3. QED
    BY <1>3, <1>a, <2>1, <2>2 DEF DeviceReturns, TypeOK
<1>4. CASE SpiBegin
  BY <1>4, <1>a DEF SpiBegin, TypeOK
<1>5. CASE SpiTransfer
  BY <1>5, <1>a, <1>b, <1>c DEF SpiTransfer, EnterDevice, Push, TypeOK,
     DeviceFrames
<1>6. CASE SpiEnd
  BY <1>6, <1>a, <1>b, <1>c DEF SpiEnd, Push, TypeOK
<1>7. ASSUME NEW p \in Pins, NEW new \in {0, 1}, PinInject(p, new)
      PROVE  TypeOK'
  <2>1. level' \in [Pins -> {0, 1}]
    BY <1>7, <1>a DEF PinInject, TypeOK
  <2>2. CASE Match(p, new)
    BY <1>7, <1>a, <2>1, <2>2, RaiseTypes DEF PinInject, TypeOK
  <2>3. CASE ~ Match(p, new)
    BY <1>7, <1>a, <2>1, <2>3 DEF PinInject, TypeOK
  <2>4. QED
    BY <2>2, <2>3
<1>8. CASE FrameRx
  BY <1>8, <1>a, RaiseTypes DEF FrameRx, TypeOK
<1>9. CASE Deliver
  <2>1. held' \in Seq(Effect) /\ lastServed' \in Nat /\ served' \in Nat
    BY <1>9, <1>a, <1>e DEF Deliver, TypeOK, Effect
  <2>2. stack' \in Seq(Frames) /\ isrDepth' \in Nat
    <3>1. \/ UNCHANGED <<stack, isrDepth>>
          \/ stack' = Append(stack, "receiver") /\ UNCHANGED isrDepth
          \/ stack' = Append(stack, "isr") /\ isrDepth' = isrDepth + 1
      BY <1>9, Zenon DEF Deliver, CallIsr, Push
    <3>2. /\ Append(stack, "receiver") \in Seq(Frames)
          /\ Append(stack, "isr") \in Seq(Frames)
          /\ stack \in Seq(Frames) /\ isrDepth \in Nat /\ isrDepth + 1 \in Nat
      BY <1>a, <1>b, <1>c DEF TypeOK, AppFrames
    <3>3. QED
      BY <3>1, <3>2
  <2>3. QED
    BY <1>9, <1>a, <2>1, <2>2 DEF Deliver, TypeOK
<1>10. CASE DeliverDone
  BY <1>10, <1>a, <1>d DEF DeliverDone, Top, Return, TypeOK
<1>11. CASE CallbackReturns
  BY <1>11, <1>a, <1>d DEF CallbackReturns, Top, Return, TypeOK
<1>12. CASE Advance
  <2>1. ASSUME NEW f \in {"tick", "wake"}, stack' = stack \o <<f, "device">>
        PROVE  stack' \in Seq(Frames)
    <3>1. <<f, "device">> \in Seq(Frames)
      BY <1>b DEF DeviceFrames
    <3>2. QED
      BY <1>a, <2>1, <3>1, ConcatProperties DEF TypeOK
  <2>2. Push("handler") => stack' \in Seq(Frames)
    BY <1>b, <1>c DEF Push, AppFrames
  <2>3. stack' \in Seq(Frames) /\ deviceDepth' \in Nat
    BY <1>12, <1>a, <2>1, <2>2 DEF Advance, TypeOK
  <2>4. QED
    BY <1>12, <1>a, <2>3 DEF Advance, TypeOK
<1>13. CASE TickHandlerCalled
  BY <1>13, <1>a, <1>b, <1>d DEF TickHandlerCalled, Top, Replace, TypeOK, AppFrames
<1>14. CASE WakeServed
  BY <1>14, <1>a, <1>d DEF WakeServed, Top, Return, TypeOK
<1>15. ASSUME NEW p \in Pins, NEW t \in Attached, Attach(p, t)
       PROVE  TypeOK'
  BY <1>15, <1>a, ReentryAssumption DEF Attach, TypeOK
<1>16. ASSUME NEW r \in {"bound", "none"}, SetFrameReceiver(r)
       PROVE  TypeOK'
  BY <1>16, <1>a DEF SetFrameReceiver, TypeOK
<1>17. CASE RunBegin
  BY <1>17, <1>a DEF RunBegin, TypeOK
<1>18. ASSUME NEW d \in {"bound", "none"}, BindTickDevice(d)
       PROVE  TypeOK'
  BY <1>18, <1>a DEF BindTickDevice, TypeOK
<1>19. CASE UNCHANGED vars
  BY <1>19, <1>a DEF vars, TypeOK
<1>20. QED
  BY <1>1, <1>2, <1>3, <1>4, <1>5, <1>6, <1>7, <1>8, <1>9, <1>10, <1>11, <1>12,
     <1>13, <1>14, <1>15, <1>16, <1>17, <1>18, <1>19 DEF Next

\* An effect that takes place at once is a call into the sketch.
LEMMA RaiseStack ==
  ASSUME StackInv, TypeOK', NEW source, Raise(source),
         AppRuns \/ DeviceRuns, UNCHANGED inSpiTransaction
  PROVE  StackInv'
<1>1. CASE deviceDepth > 0
  <2>1. UNCHANGED <<stack, deviceDepth>>
    BY <1>1 DEF Raise, QueueDeferred, depths
  <2>2. QED
    BY <2>1 DEF StackInv, DeviceRunsAlone, DeviceRuns, Top
<1>2. CASE ~ (deviceDepth > 0)
  <2>1. PICK f \in {"isr", "receiver"} : Push(f)
    BY <1>2, Zenon DEF Raise, CallIsr
  <2>2. UNCHANGED deviceDepth
    BY <1>2, Zenon DEF Raise
  <2>3. AppRuns /\ deviceDepth = 0
    BY <1>2, AppBelow DEF StackInv, DeviceRunsAlone
  <2>4. Grows(f)
    BY <2>1, PushGrows DEF StackInv, TypeOK, Frames, AppFrames
  <2>5. QED
    BY <2>2, <2>3, <2>4, CallKeepsStack DEF DeviceFrames
<1>3. QED
  BY <1>1, <1>2

LEMMA StepStackInv == StackInv /\ [Next]_vars => StackInv'
<1> SUFFICES ASSUME StackInv, [Next]_vars PROVE StackInv'
  OBVIOUS
<1>a. TypeOK /\ TypeOK' /\ stack \in Seq(Frames)
  BY StepTypeOK DEF StackInv, TypeOK
<1>b. {"device", "byte", "deliver", "isr", "receiver", "handler"} \subseteq Frames
  BY DEF Frames, AppFrames, DeviceFrames
<1>c. AppRuns => deviceDepth = 0
  BY AppBelow
<1>d. DeviceRuns => deviceDepth = 1 /\ stack # <<>>
  BY DEF StackInv, DeviceRunsAlone, DeviceRuns, Top
<1>e. ~ DeviceRuns => deviceDepth = 0
  BY DEF StackInv, DeviceRunsAlone
<1>f. /\ \A f \in AppFrames \cup {"deliver", "tick", "wake"} :
           Top(f) => stack # <<>> /\ ~ DeviceRuns
  BY DEF Top, DeviceRuns, AppFrames, DeviceFrames
<1>g. UNCHANGED <<stack, deviceDepth, inSpiTransaction>> => StackInv'
  BY <1>a DEF StackInv, DeviceRunsAlone, DeviceRuns, Top
<1> USE DEF depths, queue, wiring, log
<1>1. CASE DeviceOp
  <2>1. Grows("device") /\ deviceDepth' = 1 /\ AppRuns
    BY <1>1, <1>a, <1>b, <1>c, PushGrows DEF DeviceOp, CanCall, EnterDevice
  <2>2. QED
    BY <1>a, <2>1, CallKeepsStack DEF DeviceFrames
<1>2. CASE RefuseReentrantCall
  BY <1>2, <1>g DEF RefuseReentrantCall
<1>3. CASE DeviceReturns
  <2>1. deviceDepth' = 0 /\ stack # <<>>
    BY <1>3, <1>d DEF DeviceReturns
  <2>2. CASE Top("byte")
    BY <1>3, <1>a, <2>1, <2>2, ReturnShrinks, LeaveKeepsStack DEF DeviceReturns
  <2>3. CASE ~ Top("byte")
    BY <1>3, <1>a, <1>b, <2>1, <2>3, ReplaceSwaps, SwapKeepsStack
       DEF DeviceReturns
  <2>4. QED
    BY <2>2, <2>3
<1>4. CASE SpiBegin
  <2>1. ~ Top("byte") /\ UNCHANGED <<stack, deviceDepth>>
    BY <1>4, <1>c, <1>d DEF SpiBegin, DeviceRuns, DeviceFrames
  <2>2. QED
    BY <1>a, <2>1 DEF StackInv, DeviceRunsAlone, DeviceRuns, Top
<1>5. CASE SpiTransfer
  <2>1. CASE inSpiTransaction = "yes"
    <3>1. Grows("byte") /\ deviceDepth' = 1 /\ AppRuns /\ inSpiTransaction' = "yes"
      BY <1>5, <1>a, <1>b, <1>c, <2>1, PushGrows
         DEF SpiTransfer, CanCall, EnterDevice
    <3>2. QED
      BY <1>a, <3>1, CallKeepsStack DEF DeviceFrames
  <2>2. CASE inSpiTransaction # "yes"
    <3>1. Grows("device") /\ deviceDepth' = 1 /\ AppRuns
      BY <1>5, <1>a, <1>b, <1>c, <2>2, PushGrows
         DEF SpiTransfer, CanCall, EnterDevice
    <3>2. QED
      BY <1>a, <3>1, CallKeepsStack DEF DeviceFrames
  <2>3. QED
    BY <2>1, <2>2
<1>6. CASE SpiEnd
  <2>1. Grows("deliver") /\ deviceDepth' = 0 /\ AppRuns
    BY <1>6, <1>a, <1>b, <1>c, PushGrows DEF SpiEnd, CanCall
  <2>2. QED
    BY <1>a, <2>1, CallKeepsStack DEF DeviceFrames
<1>7. ASSUME NEW p \in Pins, NEW new \in {0, 1}, PinInject(p, new)
      PROVE  StackInv'
  <2>1. AppRuns \/ DeviceRuns
    BY <1>7 DEF PinInject, CanCall
  <2>2. UNCHANGED inSpiTransaction
    BY <1>7 DEF PinInject
  <2>3. Raise(p) \/ UNCHANGED <<stack, depths>>
    BY <1>7, Zenon DEF PinInject
  <2>4. QED
    BY <1>a, <1>g, <2>1, <2>2, <2>3, RaiseStack
<1>8. CASE FrameRx
  BY <1>8, <1>a, RaiseStack DEF FrameRx, CanCall
<1>9. CASE Deliver
  <2>1. UNCHANGED <<deviceDepth, inSpiTransaction>> /\ Top("deliver")
    BY <1>9 DEF Deliver
  <2>2. UNCHANGED stack \/ Push("isr") \/ Push("receiver")
    BY <1>9, Zenon DEF Deliver, CallIsr
  <2>3. ASSUME NEW f \in {"isr", "receiver"}, Push(f) PROVE StackInv'
    <3>1. Grows(f)
      BY <1>a, <1>b, <2>3, PushGrows
    <3>2. QED
      BY <1>a, <1>e, <1>f, <2>1, <3>1, DeliverKeepsStack
  <2>4. QED
    BY <1>g, <2>1, <2>2, <2>3
<1>10. CASE DeliverDone
  BY <1>10, <1>a, <1>e, <1>f, ReturnShrinks, LeaveKeepsStack DEF DeliverDone
<1>11. CASE CallbackReturns
  BY <1>11, <1>a, <1>e, <1>f, ReturnShrinks, LeaveKeepsStack DEF CallbackReturns
<1>12. CASE Advance
  <2>1. CASE tickDevice = "bound"
    BY <1>12, <1>a, <1>c, <2>1, AdvanceKeepsStack DEF Advance, CanCall
  <2>2. CASE tickDevice # "bound"
    <3>1. Grows("handler") /\ deviceDepth' = 0 /\ AppRuns
      BY <1>12, <1>a, <1>b, <1>c, <2>2, PushGrows DEF Advance, CanCall
    <3>2. QED
      BY <1>a, <3>1, CallKeepsStack DEF DeviceFrames
  <2>3. QED
    BY <2>1, <2>2
<1>13. CASE TickHandlerCalled
  BY <1>13, <1>a, <1>b, <1>e, <1>f, ReplaceSwaps, SwapKeepsStack
     DEF TickHandlerCalled
<1>14. CASE WakeServed
  BY <1>14, <1>a, <1>e, <1>f, ReturnShrinks, LeaveKeepsStack DEF WakeServed
<1>15. ASSUME NEW p \in Pins, NEW t \in Attached, Attach(p, t)
       PROVE  StackInv'
  BY <1>15, <1>g DEF Attach
<1>16. ASSUME NEW r \in {"bound", "none"}, SetFrameReceiver(r)
       PROVE  StackInv'
  BY <1>16, <1>g DEF SetFrameReceiver
<1>17. CASE RunBegin
  <2>1. stack' = <<>> /\ deviceDepth' = 0
    BY <1>17 DEF RunBegin
  <2>2. QED
    BY <1>a, <2>1 DEF StackInv, DeviceRunsAlone, DeviceRuns, Top
<1>18. ASSUME NEW d \in {"bound", "none"}, BindTickDevice(d)
       PROVE  StackInv'
  BY <1>18, <1>g DEF BindTickDevice
<1>19. CASE UNCHANGED vars
  BY <1>19, <1>g DEF vars
<1>20. QED
  BY <1>1, <1>2, <1>3, <1>4, <1>5, <1>6, <1>7, <1>8, <1>9, <1>10, <1>11, <1>12,
     <1>13, <1>14, <1>15, <1>16, <1>17, <1>18, <1>19 DEF Next

-----------------------------------------------------------------------------
(* The queue.                                                              *)

\* What a step does to the queue, and to the depth beside it.
Quiet == UNCHANGED <<held, deferredDropped, raised, served, lastServed>>
Holds ==
  /\ deviceDepth > 0 /\ Len(held) < Capacity
  /\ raised' = raised + 1
  /\ \E s \in Pins \cup {"frame"} :
       held' = Append(held, [source |-> s, n |-> raised + 1])
  /\ UNCHANGED <<stack, deviceDepth, deferredDropped, served, lastServed>>
Drops ==
  /\ deviceDepth > 0 /\ ~ (Len(held) < Capacity)
  /\ raised' = raised + 1 /\ deferredDropped' = deferredDropped + 1
  /\ UNCHANGED <<stack, deviceDepth, held, served, lastServed>>
Serves ==
  /\ Top("deliver") /\ deviceDepth = 0 /\ held # <<>>
  /\ held' = Tail(held)
  /\ served' = served + 1 /\ lastServed' = Head(held).n
  /\ UNCHANGED <<deviceDepth, deferredDropped, raised>>
Resets ==
  /\ held' = <<>> /\ deferredDropped' = 0
  /\ raised' = 0 /\ served' = 0 /\ lastServed' = 0
  /\ deviceDepth' = 0

\* A quiet step enters a device from the sketch, leaves one, or neither.
MovesDepth ==
  \/ UNCHANGED deviceDepth
  \/ AppRuns /\ deviceDepth' = deviceDepth + 1
  \/ DeviceRuns /\ deviceDepth' = deviceDepth - 1

LEMMA RaiseQueue ==
  ASSUME NEW s \in Pins \cup {"frame"}, Raise(s)
  PROVE  (Quiet /\ UNCHANGED deviceDepth) \/ Holds \/ Drops
<1>1. CASE deviceDepth > 0
  <2>1. QueueDeferred(s)
    BY <1>1 DEF Raise
  <2>2. CASE Len(held) < Capacity
    BY <1>1, <2>1, <2>2 DEF QueueDeferred, Holds, depths
  <2>3. CASE ~ (Len(held) < Capacity)
    BY <1>1, <2>1, <2>3 DEF QueueDeferred, Drops, depths
  <2>4. QED
    BY <2>2, <2>3
<1>2. CASE ~ (deviceDepth > 0)
  <2>1. UNCHANGED <<deviceDepth, queue, log>>
    BY <1>2, Zenon DEF Raise
  <2>2. QED
    BY <2>1 DEF Quiet, queue, log
<1>3. QED
  BY <1>1, <1>2

LEMMA QueueSteps ==
  ASSUME StackInv, [Next]_vars
  PROVE  (Quiet /\ MovesDepth) \/ Holds \/ Drops \/ Serves \/ Resets
<1>a. DeviceRuns => deviceDepth = 1
  BY DEF StackInv, DeviceRunsAlone
<1> USE DEF depths, queue, wiring, log, Quiet, MovesDepth
<1>1. CASE DeviceOp
  BY <1>1 DEF DeviceOp, CanCall, EnterDevice
<1>2. CASE RefuseReentrantCall
  BY <1>2 DEF RefuseReentrantCall
<1>3. CASE DeviceReturns
  BY <1>3, <1>a DEF DeviceReturns
<1>4. CASE SpiBegin
  BY <1>4 DEF SpiBegin
<1>5. CASE SpiTransfer
  BY <1>5 DEF SpiTransfer, CanCall, EnterDevice
<1>6. CASE SpiEnd
  BY <1>6 DEF SpiEnd
<1>7. ASSUME NEW p \in Pins, NEW new \in {0, 1}, PinInject(p, new)
      PROVE  (Quiet /\ MovesDepth) \/ Holds \/ Drops
  <2>1. Raise(p) \/ UNCHANGED <<stack, depths, queue, log>>
    BY <1>7, Zenon DEF PinInject
  <2>2. QED
    BY <2>1, RaiseQueue
<1>8. CASE FrameRx
  BY <1>8, RaiseQueue DEF FrameRx
<1>9. CASE Deliver
  BY <1>9, Zenon DEF Deliver, Serves
<1>10. CASE DeliverDone
  BY <1>10 DEF DeliverDone
<1>11. CASE CallbackReturns
  BY <1>11 DEF CallbackReturns
<1>12. CASE Advance
  BY <1>12 DEF Advance, CanCall
<1>13. CASE TickHandlerCalled
  BY <1>13 DEF TickHandlerCalled
<1>14. CASE WakeServed
  BY <1>14 DEF WakeServed
<1>15. ASSUME NEW p \in Pins, NEW t \in Attached, Attach(p, t)
       PROVE  Quiet /\ MovesDepth
  BY <1>15 DEF Attach
<1>16. ASSUME NEW r \in {"bound", "none"}, SetFrameReceiver(r)
       PROVE  Quiet /\ MovesDepth
  BY <1>16 DEF SetFrameReceiver
<1>17. CASE RunBegin
  BY <1>17 DEF RunBegin, Resets
<1>18. ASSUME NEW d \in {"bound", "none"}, BindTickDevice(d)
       PROVE  Quiet /\ MovesDepth
  BY <1>18 DEF BindTickDevice
<1>19. CASE UNCHANGED vars
  BY <1>19 DEF vars
<1>20. QED
  BY <1>1, <1>2, <1>3, <1>4, <1>5, <1>6, <1>7, <1>8, <1>9, <1>10, <1>11, <1>12,
     <1>13, <1>14, <1>15, <1>16, <1>17, <1>18, <1>19 DEF Next

\* The queue is within its capacity, in order, and everything is accounted
\* for.
QueueInv ==
  /\ Len(held) <= Capacity
  /\ lastServed <= raised
  /\ HeldInOrder
  /\ NothingLostInSilence

LEMMA InitQueueInv == Init => QueueInv
BY ReentryAssumption DEF Init, QueueInv, HeldInOrder, NothingLostInSilence

LEMMA StepQueueInv ==
  ASSUME StackInv, QueueInv, [Next]_vars
  PROVE  QueueInv'
<1>a. /\ held \in Seq(Effect) /\ Len(held) \in Nat /\ Capacity \in Nat
      /\ raised \in Nat /\ served \in Nat /\ lastServed \in Nat
      /\ deferredDropped \in Nat
  BY ReentryAssumption DEF StackInv, TypeOK
<1>b. \A i \in 1..Len(held) : held[i].n \in Nat
  <2>1. \A i \in 1..Len(held) : held[i] \in Effect
    BY <1>a
  <2>2. QED
    BY <2>1 DEF Effect
<1>c. /\ \A i \in 1..Len(held) : lastServed < held[i].n /\ held[i].n <= raised
      /\ \A i, j \in 1..Len(held) : i < j => held[i].n < held[j].n
  BY DEF QueueInv, HeldInOrder
<1>1. CASE Quiet
  BY <1>1 DEF Quiet, QueueInv, HeldInOrder, NothingLostInSilence
<1>2. CASE Holds
  <2>1. PICK s \in Pins \cup {"frame"} :
          held' = Append(held, [source |-> s, n |-> raised + 1])
    BY <1>2 DEF Holds
  <2>2. /\ Len(held') = Len(held) + 1
        /\ \A i \in 1..Len(held) : held'[i] = held[i]
        /\ held'[Len(held) + 1].n = raised + 1
    BY <1>a, <2>1
  <2>3. /\ \A i \in 1..Len(held') : lastServed < held'[i].n
                                    /\ held'[i].n <= raised + 1
        /\ \A i, j \in 1..Len(held') : i < j => held'[i].n < held'[j].n
    <3>1. ASSUME NEW i \in 1..Len(held')
          PROVE  /\ i \in 1..Len(held) => held'[i].n = held[i].n
                 /\ i \notin 1..Len(held) => i = Len(held) + 1
      BY <1>a, <2>2
    <3>2. ASSUME NEW i \in 1..Len(held')
          PROVE  lastServed < held'[i].n /\ held'[i].n <= raised + 1
      BY <1>a, <1>b, <1>c, <2>2, <3>1 DEF QueueInv
    <3>3. ASSUME NEW i \in 1..Len(held'), NEW j \in 1..Len(held'), i < j
          PROVE  held'[i].n < held'[j].n
      BY <1>a, <1>b, <1>c, <2>2, <3>1, <3>3
    <3>4. QED
      BY <3>2, <3>3
  <2>4. QED
    BY <1>2, <1>a, <2>2, <2>3 DEF Holds, QueueInv, HeldInOrder,
       NothingLostInSilence
<1>3. CASE Drops
  <2>1. \A i \in 1..Len(held) : held[i].n <= raised + 1
    BY <1>a, <1>b, <1>c
  <2>2. QED
    BY <1>3, <1>a, <1>c, <2>1 DEF Drops, QueueInv, HeldInOrder,
       NothingLostInSilence
<1>4. CASE Serves
  <2>1. /\ Len(held) > 0 /\ Head(held) = held[1]
        /\ Len(held') = Len(held) - 1
        /\ \A i \in 1..Len(held') : held'[i] = held[i + 1]
    BY <1>4, <1>a, EmptySeq, HeadTailProperties DEF Serves
  <2>2. /\ \A i \in 1..Len(held') : held[1].n < held'[i].n /\ held'[i].n <= raised
        /\ \A i, j \in 1..Len(held') : i < j => held'[i].n < held'[j].n
    <3>1. \A i \in 1..Len(held') : i + 1 \in 1..Len(held) /\ 1 < i + 1
      BY <1>a, <2>1
    <3>2. 1 \in 1..Len(held)
      BY <1>a, <2>1
    <3>3. QED
      BY <1>c, <2>1, <3>1, <3>2
  <2>3. held[1].n <= raised /\ held[1].n \in Nat
    <3>1. 1 \in 1..Len(held)
      BY <1>a, <2>1
    <3>2. QED
      BY <1>b, <1>c, <3>1
  <2>4. QED
    BY <1>4, <1>a, <2>1, <2>2, <2>3 DEF Serves, QueueInv, HeldInOrder,
       NothingLostInSilence
<1>5. CASE Resets
  BY <1>5, <1>a DEF Resets, QueueInv, HeldInOrder, NothingLostInSilence
<1>6. QED
  BY <1>1, <1>2, <1>3, <1>4, <1>5, QueueSteps

-----------------------------------------------------------------------------
(* Nothing is left behind.                                                 *)

Delivering == \E i \in 1..Len(stack) : stack[i] = "deliver"

\* Outside a transaction, what is held waits for a device that runs or for a
\* loop that is on the stack; before a tick's handler nothing is held.
DeliveryInv ==
  /\ held # <<>> /\ inSpiTransaction # "yes" => DeviceRuns \/ Delivering
  /\ Top("tick") => held = <<>>

\* Only fireTick puts the director's handler on the stack.
LEMMA HandlerCalled ==
  ASSUME StackInv, [Next]_vars, tickDevice = "bound",
         stack' # stack, Len(stack') >= Len(stack),
         stack'[Len(stack')] = "handler"
  PROVE  Top("tick")
<1>a. stack \in Seq(Frames) /\ Len(stack) \in Nat /\ stack' # stack
  <2>1. stack \in Seq(Frames)
    BY DEF StackInv, TypeOK
  <2>2. QED
    BY <2>1
<1>b. {"device", "byte", "deliver", "isr", "receiver", "handler"} \subseteq Frames
  BY DEF Frames, AppFrames, DeviceFrames
<1>c. \A f \in Frames \ {"handler"} : ~ Push(f)
  BY <1>a, PushGrows DEF Grows
<1>d. ~ (stack # <<>> /\ Return)
  BY <1>a, ReturnShrinks DEF Shrinks
<1>e. ~ (stack # <<>> /\ Replace("deliver"))
  BY <1>a, <1>b, ReplaceSwaps DEF Swaps
<1>f. ASSUME NEW s, Raise(s) PROVE FALSE
  <2>1. UNCHANGED stack \/ Push("isr") \/ Push("receiver")
    BY <1>f, Zenon DEF Raise, QueueDeferred, CallIsr
  <2>2. QED
    BY <1>a, <1>b, <1>c, <2>1
<1> USE DEF depths, queue, wiring, log
<1>1. ~ DeviceOp /\ ~ SpiTransfer /\ ~ SpiEnd
  BY <1>b, <1>c DEF DeviceOp, SpiTransfer, SpiEnd, EnterDevice
<1>2. ~ RefuseReentrantCall /\ ~ SpiBegin
  BY <1>a DEF RefuseReentrantCall, SpiBegin
<1>3. ~ DeviceReturns
  BY <1>d, <1>e DEF DeviceReturns, DeviceRuns, Top
<1>4. ASSUME NEW p \in Pins, NEW new \in {0, 1}, PinInject(p, new)
      PROVE  FALSE
  <2>1. Raise(p) \/ UNCHANGED <<stack, depths, queue, log>>
    BY <1>4, Zenon DEF PinInject
  <2>2. QED
    BY <1>a, <1>f, <2>1
<1>5. ~ FrameRx
  BY <1>f DEF FrameRx
<1>6. ~ Deliver
  <2>1. Deliver => UNCHANGED stack \/ Push("isr") \/ Push("receiver")
    BY Zenon DEF Deliver, CallIsr
  <2>2. QED
    BY <1>a, <1>b, <1>c, <2>1
<1>7. ~ DeliverDone /\ ~ CallbackReturns /\ ~ WakeServed
  BY <1>d DEF DeliverDone, CallbackReturns, WakeServed, Top
<1>8. ~ Advance
  <2> SUFFICES ASSUME Advance PROVE FALSE
    OBVIOUS
  <2>1. PICK f \in {"tick", "wake"} : stack' = stack \o <<f, "device">>
    BY DEF Advance
  <2>2. <<f, "device">> \in Seq(Frames)
    BY DEF Frames, DirectorFrames, DeviceFrames
  <2>3. Len(stack') = Len(stack) + 2 /\ stack'[Len(stack) + 2] = "device"
    BY <1>a, <2>1, <2>2
  <2>4. QED
    BY <1>a, <2>3
<1>9. \A p \in Pins, t \in Attached : ~ Attach(p, t)
  BY <1>a DEF Attach
<1>10. \A r \in {"bound", "none"} : ~ SetFrameReceiver(r)
  BY <1>a DEF SetFrameReceiver
<1>11. ~ RunBegin /\ ~ (UNCHANGED vars)
  BY <1>a DEF RunBegin, vars
<1>12. \A d \in {"bound", "none"} : ~ BindTickDevice(d)
  BY <1>a DEF BindTickDevice
<1>13. QED
  BY <1>1, <1>2, <1>3, <1>4, <1>5, <1>6, <1>7, <1>8, <1>9, <1>10, <1>11, <1>12
     DEF Next, TickHandlerCalled

LEMMA InitDeliveryInv == Init => DeliveryInv
BY DEF Init, DeliveryInv, Top

LEMMA GrowDelivering ==
  ASSUME stack \in Seq(Frames), NEW f, Grows(f)
  PROVE  /\ Delivering => Delivering'
         /\ f = "deliver" => Delivering'
         /\ \A g : Top(g)' <=> g = f
<1>1. Len(stack) \in Nat /\ Len(stack) + 1 > 0 /\ stack' # <<>>
  BY Lengths DEF Grows
<1>2. QED
  BY <1>1 DEF Grows, Delivering, Top

LEMMA ShrinkDelivering ==
  ASSUME stack \in Seq(Frames), stack # <<>>, ~ Top("deliver"), Shrinks
  PROVE  Delivering => Delivering'
<1>1. Len(stack) \in Nat /\ Len(stack) > 0 /\ stack[Len(stack)] # "deliver"
  BY Lengths DEF Top
<1>2. QED
  BY <1>1 DEF Shrinks, Delivering

LEMMA SwapDelivering ==
  ASSUME stack \in Seq(Frames), stack # <<>>, NEW f, Swaps(f)
  PROVE  /\ ~ Top("deliver") /\ Delivering => Delivering'
         /\ f = "deliver" => Delivering'
         /\ \A g : Top(g)' <=> g = f
<1>1. /\ Len(stack) \in Nat /\ Len(stack) > 0
      /\ stack' # <<>> /\ Len(stack') = Len(stack)
  BY Lengths DEF Swaps
<1>2. QED
  BY <1>1 DEF Swaps, Delivering, Top

\* A tick's frame is uncovered by the end of the loop above it only.
LEMMA UncoverTick ==
  ASSUME StackInv, stack # <<>>, Shrinks,
         ~ Top("deliver"), ~ Top("device")
  PROVE  ~ Top("tick")'
<1>1. /\ Len(stack) \in Nat /\ Len(stack) > 0
      /\ stack' # <<>> <=> Len(stack') > 0
      /\ stack[Len(stack)] \notin {"device", "deliver"}
  BY Lengths DEF StackInv, TypeOK, Top, Shrinks
<1>2. SUFFICES ASSUME Top("tick")' PROVE FALSE
  OBVIOUS
<1>3. /\ Len(stack) - 1 \in 1..Len(stack) - 1
      /\ stack[Len(stack) - 1] = "tick"
      /\ Len(stack) - 1 + 1 = Len(stack)
  BY <1>1, <1>2 DEF Top, Shrinks
<1>4. QED
  BY <1>1, <1>3 DEF StackInv

LEMMA StepDeliveryInv ==
  ASSUME StackInv, StackInv', DeliveryInv, [Next]_vars
  PROVE  DeliveryInv'
<1>a. /\ TypeOK /\ stack \in Seq(Frames) /\ stack' \in Seq(Frames)
      /\ inSpiTransaction \in {"yes", "no"}
  BY DEF StackInv, TypeOK
<1>b. {"device", "byte", "deliver", "isr", "receiver", "handler"} \subseteq Frames
  BY DEF Frames, AppFrames, DeviceFrames
<1>c. AppRuns => ~ DeviceRuns /\ ~ Top("tick") /\ deviceDepth = 0
  BY AppBelow, Lengths, <1>a
     DEF AppRuns, DeviceRuns, Top, AppFrames, DeviceFrames
<1>d. DeviceRuns => /\ deviceDepth = 1 /\ stack # <<>>
                    /\ ~ Top("tick") /\ ~ Top("deliver")
  BY DEF StackInv, DeviceRunsAlone, DeviceRuns, Top, DeviceFrames
<1>e. ~ DeviceRuns => deviceDepth = 0
  BY DEF StackInv, DeviceRunsAlone
<1>f. UNCHANGED <<stack, held, inSpiTransaction>> => DeliveryInv'
  BY DEF DeliveryInv, DeviceRuns, Delivering, Top
<1>g. \A f \in AppFrames \cup {"deliver", "tick", "wake"} :
        Top(f) => stack # <<>> /\ ~ DeviceRuns
  BY DEF Top, DeviceRuns, AppFrames, DeviceFrames
<1>h. ASSUME NEW f \in {"device", "byte"}, Grows(f) PROVE DeliveryInv'
  BY <1>a, <1>h, GrowDelivering DEF DeliveryInv, DeviceRuns, DeviceFrames
<1>i. ASSUME NEW f \in {"isr", "receiver"}, Grows(f), ~ DeviceRuns,
             held' # <<>> => held # <<>>, UNCHANGED inSpiTransaction
      PROVE  DeliveryInv'
  BY <1>a, <1>i, GrowDelivering DEF DeliveryInv
<1> USE DEF depths, queue, wiring, log
<1>1. CASE DeviceOp
  BY <1>1, <1>a, <1>b, <1>h, PushGrows DEF DeviceOp, EnterDevice
<1>2. CASE RefuseReentrantCall
  BY <1>2, <1>f DEF RefuseReentrantCall
<1>3. CASE DeviceReturns
  <2>1. DeviceRuns /\ UNCHANGED <<held, inSpiTransaction>>
    BY <1>3 DEF DeviceReturns
  <2>2. CASE Top("byte")
    <3>1. Shrinks /\ ~ Top("device") /\ inSpiTransaction = "yes"
      BY <1>3, <1>a, <1>d, <2>1, <2>2, ReturnShrinks
         DEF DeviceReturns, Top, StackInv
    <3>2. QED
      BY <1>d, <2>1, <3>1, UncoverTick DEF DeliveryInv
  <2>3. CASE ~ Top("byte")
    BY <1>3, <1>a, <1>b, <1>d, <2>1, <2>3, ReplaceSwaps, SwapDelivering
       DEF DeviceReturns, DeliveryInv
  <2>4. QED
    BY <2>2, <2>3
<1>4. CASE SpiBegin
  BY <1>4, <1>c DEF SpiBegin, DeliveryInv, Top
<1>5. CASE SpiTransfer
  BY <1>5, <1>a, <1>b, <1>h, PushGrows DEF SpiTransfer, EnterDevice
<1>6. CASE SpiEnd
  BY <1>6, <1>a, <1>b, PushGrows, GrowDelivering DEF SpiEnd, DeliveryInv
<1>7. ASSUME NEW s \in Pins \cup {"frame"}, Raise(s), CanCall \/ DeviceRuns,
             UNCHANGED inSpiTransaction
      PROVE  DeliveryInv'
  <2>1. CASE deviceDepth > 0
    <3>1. DeviceRuns /\ UNCHANGED stack
      BY <1>7, <1>e, <2>1 DEF Raise, QueueDeferred
    <3>2. DeviceRuns' /\ ~ Top("tick")'
      BY <1>d, <3>1 DEF DeviceRuns, Top
    <3>3. QED
      BY <3>2 DEF DeliveryInv
  <2>2. CASE ~ (deviceDepth > 0)
    <3>1. PICK f \in {"isr", "receiver"} : Push(f)
      BY <1>7, <2>2, Zenon DEF Raise, CallIsr
    <3>2. UNCHANGED held
      BY <1>7, <2>2, Zenon DEF Raise
    <3>3. Grows(f) /\ ~ DeviceRuns
      BY <1>a, <1>b, <1>d, <2>2, <3>1, PushGrows
    <3>4. QED
      BY <1>7, <1>i, <3>2, <3>3
  <2>3. QED
    BY <2>1, <2>2
<1>8. ASSUME NEW p \in Pins, NEW new \in {0, 1}, PinInject(p, new)
      PROVE  DeliveryInv'
  <2>1. Raise(p) \/ UNCHANGED <<stack, depths, queue, log>>
    BY <1>8, Zenon DEF PinInject
  <2>2. UNCHANGED inSpiTransaction /\ (CanCall \/ DeviceRuns)
    BY <1>8 DEF PinInject
  <2>3. QED
    BY <1>7, <1>f, <2>1, <2>2
<1>9. CASE FrameRx
  BY <1>9, <1>7 DEF FrameRx
<1>10. CASE Deliver
  <2>1. /\ UNCHANGED inSpiTransaction /\ Top("deliver") /\ held # <<>>
        /\ ~ DeviceRuns
    BY <1>10, <1>d DEF Deliver
  <2>2. UNCHANGED stack \/ Push("isr") \/ Push("receiver")
    BY <1>10, Zenon DEF Deliver, CallIsr
  <2>3. CASE UNCHANGED stack
    <3>1. Top("deliver")' /\ Len(stack) \in Nat /\ Len(stack) > 0
      BY <1>a, <2>1, <2>3, Lengths DEF Top
    <3>2. Delivering' /\ ~ Top("tick")'
      BY <2>3, <3>1 DEF Top, Delivering
    <3>3. QED
      BY <3>2 DEF DeliveryInv
  <2>4. ASSUME NEW f \in {"isr", "receiver"}, Push(f) PROVE DeliveryInv'
    BY <1>a, <1>b, <1>i, <2>1, <2>4, PushGrows
  <2>5. QED
    BY <2>2, <2>3, <2>4
<1>11. CASE DeliverDone
  <2>1. held = <<>> /\ held' = held
    BY <1>11, <1>e, <1>g DEF DeliverDone
  <2>2. QED
    BY <2>1 DEF DeliveryInv
<1>12. ASSUME NEW f \in AppFrames \cup {"wake"}, Top(f), Return,
              UNCHANGED <<held, inSpiTransaction>>
       PROVE  DeliveryInv'
  <2>1. /\ stack # <<>> /\ ~ DeviceRuns /\ ~ Top("deliver") /\ ~ Top("device")
    BY <1>12, <1>g DEF Top, AppFrames
  <2>2. Shrinks
    BY <1>12, <1>a, <2>1, ReturnShrinks
  <2>3. (Delivering => Delivering') /\ ~ Top("tick")'
    BY <1>a, <2>1, <2>2, ShrinkDelivering, UncoverTick
  <2>4. QED
    BY <1>12, <2>1, <2>3 DEF DeliveryInv
<1>13. CASE CallbackReturns
  BY <1>12, <1>13 DEF CallbackReturns
<1>14. CASE Advance
  <2>1. CASE tickDevice = "bound"
    <3>1. PICK f \in {"tick", "wake"} : stack' = stack \o <<f, "device">>
      BY <1>14, <2>1 DEF Advance
    <3>2. Len(stack) \in Nat /\ <<f, "device">> \in Seq(Frames)
      BY <1>a, <1>b DEF Frames, DirectorFrames, DeviceFrames
    <3>3. /\ stack' # <<>> /\ Len(stack') = Len(stack) + 2
          /\ stack'[Len(stack) + 2] = "device"
      BY <1>a, <3>1, <3>2
    <3>4. DeviceRuns' /\ ~ Top("tick")'
      BY <3>2, <3>3 DEF DeviceRuns, Top, DeviceFrames
    <3>5. QED
      BY <3>4 DEF DeliveryInv
  <2>2. CASE tickDevice # "bound"
    <3>1. /\ Grows("handler") /\ ~ DeviceRuns
          /\ UNCHANGED <<held, inSpiTransaction>>
      BY <1>14, <1>a, <1>b, <1>c, <2>2, PushGrows DEF Advance, CanCall
    <3>2. (Delivering => Delivering') /\ ~ Top("tick")'
      BY <1>a, <3>1, GrowDelivering
    <3>3. QED
      BY <3>1, <3>2 DEF DeliveryInv
  <2>3. QED
    BY <2>1, <2>2
<1>15. CASE TickHandlerCalled
  <2>1. /\ stack # <<>> /\ held = <<>> /\ held' = held
    BY <1>15, <1>g DEF TickHandlerCalled, DeliveryInv
  <2>2. QED
    BY <2>1 DEF DeliveryInv
<1>16. CASE WakeServed
  BY <1>12, <1>16 DEF WakeServed
<1>17. ASSUME NEW p \in Pins, NEW t \in Attached, Attach(p, t)
       PROVE  DeliveryInv'
  BY <1>17, <1>f DEF Attach
<1>18. ASSUME NEW r \in {"bound", "none"}, SetFrameReceiver(r)
       PROVE  DeliveryInv'
  BY <1>18, <1>f DEF SetFrameReceiver
<1>19. CASE RunBegin
  BY <1>19 DEF RunBegin, DeliveryInv
<1>20. CASE UNCHANGED vars
  BY <1>20, <1>f DEF vars
<1>21. ASSUME NEW d \in {"bound", "none"}, BindTickDevice(d)
       PROVE  DeliveryInv'
  BY <1>21, <1>f DEF BindTickDevice
<1>22. QED
  BY <1>1, <1>2, <1>3, <1>4, <1>5, <1>6, <1>8, <1>9, <1>10, <1>11, <1>13, <1>14,
     <1>15, <1>16, <1>17, <1>18, <1>19, <1>20, <1>21 DEF Next

LEMMA Invariants == Spec => [](StackInv /\ QueueInv /\ DeliveryInv)
<1>1. Init => StackInv /\ QueueInv /\ DeliveryInv
  BY InitStackInv, InitQueueInv, InitDeliveryInv
<1>2. StackInv /\ QueueInv /\ DeliveryInv /\ [Next]_vars
        => StackInv' /\ QueueInv' /\ DeliveryInv'
  BY StepStackInv, StepQueueInv, StepDeliveryInv
<1>3. QED
  BY <1>1, <1>2, PTL DEF Spec

-----------------------------------------------------------------------------
(* Theorems.                                                               *)

\* The host's variables keep their types (State, embedbench_host.cpp).
THEOREM TypeCorrect == Spec => []TypeOK
<1>1. StackInv => TypeOK
  BY DEF StackInv
<1>2. QED
  BY <1>1, Invariants, PTL

\* No device is entered while one runs, and nothing a device raises runs
\* above it (enterDevice, queueDeferred, refuseReentrantCall).
THEOREM NoReentry == Spec => []DeviceRunsAlone
<1>1. StackInv => DeviceRunsAlone
  BY DEF StackInv
<1>2. QED
  BY <1>1, Invariants, PTL

\* Held effects are delivered in the order they were raised in
\* (deliverDeferred).
THEOREM DeliveryInOrder == Spec => []HeldInOrder
<1>1. QueueInv => HeldInOrder
  BY DEF QueueInv
<1>2. QED
  BY <1>1, Invariants, PTL

\* An effect raised inside a device is held, delivered or counted
\* (queueDeferred).
THEOREM EffectsAccounted == Spec => []NothingLostInSilence
<1>1. QueueInv => NothingLostInSilence
  BY DEF QueueInv
<1>2. QED
  BY <1>1, Invariants, PTL

\* Outside a transaction the sketch finds nothing held when it has control
\* again (deliverDeferred after every operation).
THEOREM OperationsDeliver == Spec => []NothingLeftBehind
<1>1. StackInv /\ DeliveryInv => NothingLeftBehind
  BY DEF DeliveryInv, NothingLeftBehind, DeviceRuns, Delivering, Top
<1>2. QED
  BY <1>1, Invariants, PTL

\* While a tick device is bound, the director's handler never comes onto the
\* stack with an effect still held, in an open transaction or not (fireTick).
THEOREM HandlerAfterEffects == Spec => HandlerSeesAllDelivered
<1>1. StackInv /\ DeliveryInv /\ [Next]_vars =>
        [stack' # stack /\ Len(stack') >= Len(stack)
           /\ stack'[Len(stack')] = "handler" /\ tickDevice = "bound"
         => held = <<>>]_vars
  BY HandlerCalled DEF DeliveryInv
<1>2. QED
  BY <1>1, Invariants, PTL DEF Spec, HandlerSeesAllDelivered

\* The host keeps the re-entrancy contract of the device interface: every
\* step is a step of the contract or leaves it alone.
THEOREM ImplementsDeferralContract == Spec => KeepsDeferralContract
<1>1. Init => Contract!Init
  BY DEF Init, Contract!Init
<1>2. StackInv /\ QueueInv /\ [Next]_vars => [Contract!Next]_(Contract!vars)
  <2> SUFFICES ASSUME StackInv, QueueInv, [Next]_vars
               PROVE  [Contract!Next]_(Contract!vars)
    OBVIOUS
  <2>a. /\ held \in Seq(Effect) /\ Len(held) \in Nat /\ Capacity \in Nat
        /\ Len(held) <= Capacity
    BY ReentryAssumption DEF StackInv, TypeOK, QueueInv
  <2>b. /\ AppRuns => deviceDepth = 0
        /\ DeviceRuns => deviceDepth = 1
        /\ deviceDepth > 0 => deviceDepth = 1
    BY AppBelow DEF StackInv, DeviceRunsAlone
  <2>1. CASE Quiet /\ MovesDepth
    BY <2>1, <2>b DEF Quiet, MovesDepth, Contract!Next, Contract!Enter,
       Contract!Leave, Contract!vars
  <2>2. CASE Holds
    <3>1. PICK s \in Pins \cup {"frame"} :
            held' = Append(held, [source |-> s, n |-> raised + 1])
      BY <2>2 DEF Holds
    <3>2. [source |-> s, n |-> raised + 1] \in Effect
      BY DEF StackInv, TypeOK, Effect
    <3>3. /\ Len(held') = Len(held) + 1
          /\ held'[Len(held) + 1] \in Effect
          /\ \A i \in 1..Len(held) : held'[i] = held[i]
      BY <2>a, <3>1, <3>2, AppendProperties
    <3>4. SubSeq(held', 1, Len(held)) = held
      BY <2>a, <3>1, <3>2
    <3>5. QED
      BY <2>2, <2>a, <2>b, <3>3, <3>4 DEF Holds, Contract!Next, Contract!Raise
  <2>3. CASE Drops
    BY <2>3, <2>a, <2>b DEF Drops, Contract!Next, Contract!Refuse
  <2>4. CASE Serves
    BY <2>4 DEF Serves, Contract!Next, Contract!Deliver
  <2>5. CASE Resets
    BY <2>5 DEF Resets, Contract!Next, Contract!Restart
  <2>6. QED
    BY <2>1, <2>2, <2>3, <2>4, <2>5, QueueSteps
<1>3. QED
  BY <1>1, <1>2, Invariants, PTL DEF Spec, KeepsDeferralContract, Contract!Spec
=============================================================================
