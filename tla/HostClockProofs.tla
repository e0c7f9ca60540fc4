-------------------------- MODULE HostClockProofs --------------------------
(***************************************************************************)
(* The clock of the host never loses a tick or a wake, for every tick      *)
(* period, every length of wait and every nesting of callbacks.            *)
(***************************************************************************)
EXTENDS HostClock, TLAPS

\* A callback of the director or of the splitter is on the stack exactly
\* when dirDepth says so, and interrupts run only where code that is neither
\* the splitter's nor a device's is on top.
DepthAgrees ==
  /\ dirDepth = IF pc \in {"advance", "deliver", "handler", "zero"} THEN 1 ELSE 0
  /\ isrDepth > 0 => pc \in {"app", "deliver", "handler", "zero"}

\* The inductive invariant.
ClockInv ==
  /\ TypeOK
  /\ DepthAgrees
  /\ NextTickIsNext
  /\ nextTick - TickUs <= vnow /\ vnow < nextTick
  /\ OwedIsHeld

\* A multiple of the tick period, one period on.
LEMMA NextMultiple ==
  ASSUME NEW n \in Nat
  PROVE  /\ n * TickUs \in Nat
         /\ (n + 1) * TickUs = n * TickUs + TickUs
BY TickAssumption

LEMMA MultiplesAdd ==
  ASSUME NEW n \in Nat, NEW k \in Nat
  PROVE  /\ k * TickUs \in Nat
         /\ (n + k) * TickUs = n * TickUs + k * TickUs
BY TickAssumption

LEMMA InitClockInv == Init => ClockInv
<1> SUFFICES ASSUME Init PROVE ClockInv
  OBVIOUS
<1>1. (0 + 0 + 1) * TickUs = TickUs
  BY TickAssumption
<1>2. QED
  BY <1>1, TickAssumption DEF Init, ClockInv, TypeOK, DepthAgrees,
     NextTickIsNext, OwedIsHeld, Positions

LEMMA StepTypeOK == ClockInv /\ [Next]_vars => TypeOK' /\ DepthAgrees'
<1> SUFFICES ASSUME ClockInv, [Next]_vars
             PROVE  TypeOK' /\ DepthAgrees'
  OBVIOUS
<1> USE TickAssumption, ClockAssumption DEF ClockInv, TypeOK, DepthAgrees,
        Positions, clock, counts, zeros, table, frame, InCallback, UserCode
<1>1. CASE RequestWake
  <2>1. PICK a \in Ahead : Hold(vnow + a)
    BY <1>1 DEF RequestWake
  <2>2. vnow + a \in Nat
    OBVIOUS
  <2>3. /\ wakes' \subseteq Nat \ {0} /\ owed' \subseteq Nat \ {0}
        /\ droppedWakes' \in Nat
    <3>1. CASE UNCHANGED <<table, owed>>
      BY <3>1
    <3>2. CASE /\ vnow + a > vnow
               /\ wakes' = wakes \cup {vnow + a} /\ owed' = owed \cup {vnow + a}
               /\ UNCHANGED droppedWakes
      <4>1. vnow + a \in Nat \ {0}
        BY <2>2, <3>2
      <4>2. QED
        BY <3>2, <4>1
    <3>3. CASE /\ droppedWakes' = droppedWakes + 1
               /\ UNCHANGED <<wakes, owed>>
      BY <3>3
    <3>4. QED
      BY <2>1, <3>1, <3>2, <3>3 DEF Hold
  <2>4. QED
    BY <1>1, <2>3 DEF RequestWake
<1>2. CASE IsrEnter
  BY <1>2 DEF IsrEnter
<1>3. CASE IsrExit
  BY <1>3 DEF IsrExit
<1>4. CASE ZeroWaitNested
  BY <1>4 DEF ZeroWaitNested
<1>5. CASE ZeroWait
  BY <1>5 DEF ZeroWait
<1>6. CASE ZeroHandlerReturns
  BY <1>6 DEF ZeroHandlerReturns
<1>7. CASE NestedWait
  <2>1. PICK us \in Waits \ {0} :
          /\ \E k \in 0 .. us : /\ pendingTicks' = pendingTicks + k
                                /\ nextTick' = nextTick + k * TickUs
          /\ vnow' = vnow + us
    BY <1>7 DEF NestedWait
  <2>2. PICK k \in 0 .. us : /\ pendingTicks' = pendingTicks + k
                             /\ nextTick' = nextTick + k * TickUs
    BY <2>1
  <2>3. k \in Nat /\ k * TickUs \in Nat
    BY MultiplesAdd
  <2>4. QED
    BY <1>7, <2>1, <2>2, <2>3 DEF NestedWait
<1>8. CASE Wait
  BY <1>8 DEF Wait, EnterLoop
<1>9. CASE DelayBegin
  BY <1>9 DEF DelayBegin
<1>10. CASE DelaySlice
  BY <1>10 DEF DelaySlice, EnterLoop
<1>11. CASE DelayEnd
  BY <1>11 DEF DelayEnd
<1>12. CASE WaitDone
  BY <1>12 DEF WaitDone
<1>13. CASE ServeWake
  <2>1. wakes' \subseteq wakes /\ owed' \subseteq owed /\ vnow' \in wakes
    BY <1>13 DEF ServeWake, RetireUpTo, StillOwed
  <2>2. /\ wakes' \subseteq Nat \ {0} /\ owed' \subseteq Nat \ {0}
        /\ vnow' \in Nat
    BY <2>1
  <2>3. /\ dirDepth = 0 /\ isrDepth = 0 /\ dirDepth' = dirDepth + 1 /\ pc' = "advance"
        /\ serving' = "wake"
        /\ UNCHANGED <<nextTick, counts, droppedWakes, zeros, isrDepth, target,
                       length, deadline>>
    BY <1>13 DEF ServeWake
  <2>4. QED
    BY <2>2, <2>3
<1>14. CASE ServeTick
  <2>1. wakes' \subseteq wakes /\ owed' \subseteq owed
    BY <1>14 DEF ServeTick, RetireUpTo, StillOwed
  <2>2. wakes' \subseteq Nat \ {0} /\ owed' \subseteq Nat \ {0}
    BY <2>1
  <2>3. /\ dirDepth = 0 /\ isrDepth = 0 /\ dirDepth' = dirDepth + 1 /\ pc' = "advance"
        /\ serving' = "tick"
        /\ vnow' = nextTick /\ nextTick' = nextTick + TickUs
        /\ ticks' = ticks + 1
        /\ UNCHANGED <<pendingTicks, lateTicks, droppedWakes, zeros, isrDepth,
                       target, length, deadline>>
    BY <1>14 DEF ServeTick
  <2>4. QED
    BY <2>2, <2>3
<1>15. CASE AdvanceReturns
  BY <1>15 DEF AdvanceReturns
<1>16. CASE WakeServed
  BY <1>16 DEF WakeServed
<1>17. CASE TickHandlerCalled
  BY <1>17 DEF TickHandlerCalled
<1>18. CASE DrainTick
  <2>1. owed' \subseteq owed
    BY <1>18 DEF DrainTick, StillOwed
  <2>2. owed' \subseteq Nat \ {0}
    BY <2>1
  <2>3. /\ pc = "handler" /\ isrDepth = 0 /\ pc' = "advance"
        /\ pendingTicks > 0 /\ pendingTicks' = pendingTicks - 1
        /\ lateTicks' = lateTicks + 1 /\ ticks' = ticks + 1
        /\ UNCHANGED <<clock, table, zeros, dirDepth, isrDepth, target, length,
                       serving, deadline>>
    BY <1>18 DEF DrainTick
  <2>4. QED
    BY <2>2, <2>3
<1>19. CASE TicksDrained
  BY <1>19 DEF TicksDrained
<1>20. CASE RunBegin
  BY <1>20 DEF RunBegin
<1>21. CASE UNCHANGED vars
  BY <1>21 DEF vars
<1>22. QED
  BY <1>1, <1>2, <1>3, <1>4, <1>5, <1>6, <1>7, <1>8, <1>9, <1>10, <1>11,
     <1>12, <1>13, <1>14, <1>15, <1>16, <1>17, <1>18, <1>19, <1>20, <1>21
     DEF Next, HostStep, UserStep

LEMMA StepClock ==
  ClockInv /\ [Next]_vars
    => NextTickIsNext' /\ (nextTick - TickUs <= vnow)' /\ (vnow < nextTick)'
<1> SUFFICES ASSUME ClockInv, [Next]_vars
             PROVE  /\ NextTickIsNext'
                    /\ nextTick' - TickUs <= vnow' /\ vnow' < nextTick'
  OBVIOUS
<1> USE TickAssumption DEF clock, counts
<1>0. /\ {vnow, nextTick, ticks, pendingTicks} \subseteq Nat
      /\ target \in Nat /\ wakes \subseteq Nat
      /\ nextTick = (ticks + pendingTicks + 1) * TickUs
      /\ nextTick - TickUs <= vnow /\ vnow < nextTick
  BY DEF ClockInv, TypeOK, NextTickIsNext
<1>1. ASSUME UNCHANGED <<clock, counts>>
      PROVE  /\ NextTickIsNext'
             /\ nextTick' - TickUs <= vnow' /\ vnow' < nextTick'
  BY <1>0, <1>1 DEF NextTickIsNext
<1>2. CASE NestedWait
  <2>0. PICK us \in Waits \ {0} :
          /\ \E k \in 0 .. us : /\ PassesTicks(k, vnow + us)
                                /\ pendingTicks' = pendingTicks + k
                                /\ nextTick' = nextTick + k * TickUs
          /\ vnow' = vnow + us
    BY <1>2 DEF NestedWait
  <2>1. PICK k \in 0 .. us : /\ PassesTicks(k, vnow + us)
                             /\ pendingTicks' = pendingTicks + k
                             /\ nextTick' = nextTick + k * TickUs
    BY <2>0
  <2>2. us \in Nat /\ k \in Nat /\ ticks' = ticks
    BY <1>2, ClockAssumption DEF NestedWait
  <2>3. (ticks + pendingTicks + 1 + k) * TickUs = nextTick + k * TickUs
    BY <1>0, <2>2, MultiplesAdd
  <2>4. NextTickIsNext'
    BY <1>0, <2>1, <2>2, <2>3 DEF NextTickIsNext
  <2>5. k > 0 => k * TickUs = (k - 1) * TickUs + TickUs
    BY <2>2, NextMultiple
  <2>6. k * TickUs \in Nat /\ (k > 0 => (k - 1) * TickUs \in Nat)
    BY <2>2, MultiplesAdd, NextMultiple
  <2>7. vnow' < nextTick'
    BY <2>0, <2>1 DEF PassesTicks
  <2>8. nextTick' - TickUs <= vnow'
    <3>1. CASE k = 0
      BY <3>1, <1>0, <2>0, <2>1, <2>2
    <3>2. CASE k > 0
      BY <3>2, <1>0, <2>0, <2>1, <2>2, <2>5, <2>6 DEF PassesTicks
    <3>3. QED
      BY <3>1, <3>2, <2>2
  <2>9. QED
    BY <2>4, <2>7, <2>8
<1>3. CASE WaitDone
  <2>1. UNCHANGED <<nextTick, counts>> /\ vnow <= vnow' /\ vnow' \in Nat
    BY <1>3, <1>0 DEF WaitDone
  <2>2. vnow' < nextTick
    BY <1>3, <1>0 DEF WaitDone, WakeIsNext
  <2>3. QED
    BY <1>0, <2>1, <2>2 DEF NextTickIsNext
<1>4. CASE ServeWake
  <2>1. UNCHANGED <<nextTick, counts>> /\ vnow < vnow' /\ vnow' < nextTick
        /\ vnow' \in Nat
    BY <1>4, <1>0 DEF ServeWake, WakeIsNext
  <2>2. QED
    BY <1>0, <2>1 DEF NextTickIsNext
<1>5. CASE ServeTick
  <2>1. (ticks + pendingTicks + 1 + 1) * TickUs = nextTick + TickUs
    BY <1>0, NextMultiple
  <2>2. QED
    BY <1>0, <1>5, <2>1 DEF ServeTick, NextTickIsNext
<1>6. CASE DrainTick
  <2>1. ticks' + pendingTicks' = ticks + pendingTicks
    BY <1>0, <1>6 DEF DrainTick
  <2>2. QED
    BY <1>0, <1>6, <2>1 DEF DrainTick, NextTickIsNext
<1>7. CASE RunBegin
  <2>1. (0 + 0 + 1) * TickUs = TickUs
    OBVIOUS
  <2>2. QED
    BY <1>7, <2>1 DEF RunBegin, NextTickIsNext
<1>8. QED
  <2>1. \/ UNCHANGED <<clock, counts>>
        \/ NestedWait \/ WaitDone \/ ServeWake \/ ServeTick \/ DrainTick
        \/ RunBegin
    BY DEF Next, HostStep, UserStep, vars, RequestWake, IsrEnter, IsrExit,
       ZeroWaitNested, ZeroWait, ZeroHandlerReturns, Wait, EnterLoop,
       DelayBegin, DelaySlice, DelayEnd, AdvanceReturns, WakeServed,
       TickHandlerCalled, TicksDrained
  <2>2. QED
    BY <2>1, <1>1, <1>2, <1>3, <1>4, <1>5, <1>6, <1>7

LEMMA StepOwed == ClockInv /\ [Next]_vars => OwedIsHeld'
<1> SUFFICES ASSUME ClockInv, [Next]_vars PROVE OwedIsHeld'
  OBVIOUS
<1> USE DEF OwedIsHeld, RetireUpTo, StillOwed, table
<1>0. owed \subseteq wakes
  BY DEF ClockInv
<1>1. CASE RequestWake
  BY <1>0, <1>1 DEF RequestWake, Hold
<1>2. CASE ServeWake
  BY <1>0, <1>2 DEF ServeWake
<1>3. CASE ServeTick
  BY <1>0, <1>3 DEF ServeTick
<1>4. CASE DrainTick
  BY <1>0, <1>4 DEF DrainTick
<1>5. CASE RunBegin
  BY <1>5 DEF RunBegin
<1>6. QED
  BY <1>0, <1>1, <1>2, <1>3, <1>4, <1>5
     DEF Next, HostStep, UserStep, vars, IsrEnter, IsrExit, ZeroWaitNested,
     ZeroWait, ZeroHandlerReturns, NestedWait, Wait, EnterLoop, DelayBegin,
     DelaySlice, DelayEnd, WaitDone, AdvanceReturns, WakeServed,
     TickHandlerCalled, TicksDrained

LEMMA ClockInvariant == Spec => []ClockInv
<1>1. ClockInv /\ [Next]_vars => ClockInv'
  BY StepTypeOK, StepClock, StepOwed DEF ClockInv
<1>2. QED
  BY InitClockInv, <1>1, PTL DEF Spec

-----------------------------------------------------------------------------

\* Every variable of the clock keeps its type: in particular the director is
\* never entered from inside itself (dirDepth, onWait 653 and 665).
THEOREM TypeCorrect == Spec => []TypeOK
BY ClockInvariant, PTL DEF ClockInv

\* Whatever the tick period, the lengths of the waits and the nesting of
\* callbacks, each boundary the clock has passed is fired or pending exactly
\* once (onWait 665-674 and 733-740).
THEOREM NoTickLost == Spec => []TicksAccounted
<1>1. ClockInv => TicksAccounted
  <2> SUFFICES ASSUME ClockInv PROVE TicksAccounted
    OBVIOUS
  <2>1. /\ ticks + pendingTicks \in Nat /\ nextTick \in Nat /\ vnow \in Nat
        /\ nextTick = (ticks + pendingTicks + 1) * TickUs
        /\ nextTick - TickUs <= vnow /\ vnow < nextTick
    BY DEF ClockInv, TypeOK, NextTickIsNext
  <2>2. /\ (ticks + pendingTicks) * TickUs \in Nat
        /\ nextTick = (ticks + pendingTicks) * TickUs + TickUs
    BY <2>1, NextMultiple
  <2>3. QED
    BY <2>1, <2>2, TickAssumption DEF TicksAccounted
<1>2. QED
  BY <1>1, ClockInvariant, PTL

\* The splitter's next boundary is the first one not accounted for.
THEOREM NextBoundary == Spec => []NextTickIsNext
BY ClockInvariant, PTL DEF ClockInv

\* An accepted wake keeps its slot until the devices were advanced at it or
\* after it (requestWake, retireWakesUpTo).
THEOREM NoWakeLost == Spec => []OwedIsHeld
BY ClockInvariant, PTL DEF ClockInv

\* The detailed clock implements the time contract of the device interface:
\* an advance never skips a moment still owed, and outside callbacks time
\* never passes one.
THEOREM ImplementsTimeContract == Spec => KeepsTimeContract
<1> USE DEF InCallback, clock
<1>1. Init => Contract!Init
  BY DEF Init, Contract!Init
<1>2. ClockInv /\ [Next]_vars => [Contract!Next]_(Contract!vars)
  <2> SUFFICES ASSUME ClockInv, [Next]_vars
               PROVE  Contract!Next \/ UNCHANGED Contract!vars
    OBVIOUS
  <2>0. /\ vnow \in Nat /\ nextTick \in Nat /\ target \in Nat
        /\ TickUs \in Nat /\ wakes \subseteq Nat /\ owed \subseteq wakes
        /\ vnow < nextTick /\ InCallback' \in BOOLEAN
    BY TickAssumption DEF ClockInv, TypeOK, OwedIsHeld
  <2>1. CASE RequestWake
    <3>1. PICK a \in Ahead : Hold(vnow + a)
      BY <2>1 DEF RequestWake
    <3>2. Contract!Accept
      BY <2>1, <3>1 DEF RequestWake, Hold, Contract!Accept
    <3>3. QED
      BY <2>0, <3>2 DEF Contract!Next
  <2>2. CASE NestedWait
    <3>1. PICK us \in Waits \ {0} : vnow' = vnow + us
      BY <2>2 DEF NestedWait
    <3>2. InCallback /\ vnow' >= vnow /\ UNCHANGED owed
      BY <2>0, <2>2, <3>1, ClockAssumption DEF NestedWait
    <3>3. QED
      BY <2>0, <3>2 DEF Contract!Next, Contract!Overtake
  <2>3. CASE WaitDone
    <3>1. vnow' >= vnow /\ UNCHANGED owed /\ ~InCallback
      BY <2>0, <2>3 DEF WaitDone, ClockInv, DepthAgrees, TypeOK
    <3>2. ASSUME NEW w \in owed, w > vnow
          PROVE  w > vnow'
      BY <2>0, <2>3, <3>2 DEF WaitDone, WakeIsNext, TickIsNext
    <3>3. QED
      BY <2>0, <3>1, <3>2 DEF Contract!Next, Contract!Pass
  <2>4. CASE ServeWake
    <3>1. PICK w \in wakes : /\ WakeIsNext(w) /\ vnow' = w
                             /\ owed' = StillOwed(w)
      BY <2>4 DEF ServeWake
    <3>2. Contract!Advance
      BY <2>0, <3>1 DEF WakeIsNext, StillOwed, Contract!Advance
    <3>3. QED
      BY <2>0, <3>2 DEF Contract!Next
  <2>5. CASE ServeTick
    <3>1. vnow' = nextTick /\ owed' = StillOwed(nextTick) /\ TickIsNext
      BY <2>5 DEF ServeTick
    <3>2. Contract!Advance
      BY <2>0, <3>1 DEF TickIsNext, StillOwed, Contract!Advance
    <3>3. QED
      BY <2>0, <3>2 DEF Contract!Next
  <2>6. CASE DrainTick
    <3>1. vnow' = vnow /\ owed' = StillOwed(vnow)
      BY <2>6 DEF DrainTick
    <3>2. Contract!Advance
      BY <2>0, <3>1 DEF StillOwed, Contract!Advance
    <3>3. QED
      BY <2>0, <3>2 DEF Contract!Next
  <2>7. CASE RunBegin
    BY <2>0, <2>7 DEF RunBegin, Contract!Next, Contract!Restart
  <2>8. ASSUME UNCHANGED <<vnow, owed>>
        PROVE  Contract!Next \/ UNCHANGED Contract!vars
    <3>1. Contract!Accept
      BY <2>8 DEF Contract!Accept
    <3>2. QED
      BY <2>0, <3>1 DEF Contract!Next
  <2>9. QED
    BY <2>1, <2>2, <2>3, <2>4, <2>5, <2>6, <2>7, <2>8
       DEF Next, HostStep, UserStep, vars, IsrEnter, IsrExit, ZeroWaitNested,
       ZeroWait, ZeroHandlerReturns, Wait, EnterLoop, DelayBegin, DelaySlice,
       DelayEnd, AdvanceReturns, WakeServed, TickHandlerCalled, TicksDrained
<1>3. QED
  BY <1>1, <1>2, ClockInvariant, PTL DEF Spec, KeepsTimeContract, Contract!Spec

\* A one-shot wait never ends before its time: only a wait of the core's own
\* slice length comes back early at a wake (onWait 687, 702-732).
THEOREM OneShotWaits == Spec => OneShotNeverShort
<1>1. ClockInv /\ [Next]_vars
        => [pc # "app" /\ pc' = "app" /\ pc # "zero"
              => vnow' >= target \/ length = "slice"]_vars
  <2> SUFFICES ASSUME ClockInv, Next, pc # "app", pc' = "app", pc # "zero"
               PROVE  vnow' >= target \/ length = "slice"
    BY DEF vars
  <2>0. vnow \in Nat /\ target \in Nat
    BY DEF ClockInv, TypeOK
  <2>1. CASE WaitDone
    BY <2>0, <2>1 DEF WaitDone
  <2>2. CASE WakeServed
    BY <2>2 DEF WakeServed
  <2>3. QED
    BY <2>1, <2>2
       DEF Next, HostStep, UserStep, vars, frame, RequestWake, IsrEnter,
       IsrExit, ZeroWaitNested, ZeroWait, ZeroHandlerReturns, NestedWait, Wait,
       EnterLoop, DelayBegin, DelaySlice, DelayEnd, ServeWake, ServeTick,
       AdvanceReturns, TickHandlerCalled, DrainTick, TicksDrained, RunBegin
<1>2. QED
  BY <1>1, ClockInvariant, PTL DEF Spec, OneShotNeverShort
=============================================================================
