--------------------------- MODULE RunWindowProofs ---------------------------
(***************************************************************************)
(* For any loop counts and however often the window is armed: a window the *)
(* lifecycle opened, and the program left alone, holds exactly its loops.  *)
(***************************************************************************)
EXTENDS RunWindow, TLAPS

\* Before setup() no loop has been counted; a window that the lifecycle
\* opened was armed, and it is closed as soon as its count is complete.
WindowInv ==
  /\ TypeOK
  /\ phase = "boot" =>
       opener # "setup" /\ loopsDone = 0 /\ windowClosed = "no"
  /\ windowArmed = "yes" => windowLoops \in 1..MaxCount - 1
  /\ opener = "setup" =>
       /\ windowArmed = "yes"
       /\ windowClosed = "no" => loopsDone < windowLoops
  /\ WindowSpansLoops

LEMMA InitWindowInv == Init => WindowInv
BY WindowAssumption
   DEF Init, WindowInv, TypeOK, WindowSpansLoops, Phases, YesNo

\* A step that leaves the window and its counters as they are.
LEMMA Beside ==
  ASSUME WindowInv, phase' \in Phases, phase' = "boot" => phase = "boot",
         outsideWindow' \in Nat,
         UNCHANGED <<windowArmed, windowClosed, windowLoops, loopsDone, running,
                     windows, opener, loopsInside>>
  PROVE  WindowInv'
BY DEF WindowInv, TypeOK, WindowSpansLoops

LEMMA OutsideCounts ==
  ASSUME TypeOK, NEW lines \in 0..2, Outside(lines)
  PROVE  outsideWindow' \in Nat
BY WindowAssumption DEF TypeOK, Outside, Capped

LEMMA WindowStep == WindowInv /\ [Next]_vars => WindowInv'
<1> USE WindowAssumption
<1> SUFFICES ASSUME WindowInv, [Next]_vars PROVE WindowInv'
  OBVIOUS
<1>a. TypeOK
  BY DEF WindowInv
<1>1. ASSUME NEW n \in Loops, Arm(n) PROVE WindowInv'
  <2>1. windowLoops' \in 1..MaxCount - 1
    BY <1>1 DEF Arm
  <2>2. opener' \in {"nobody", "hand"} /\ (opener' = "nobody" => opener = "nobody")
    BY <1>1 DEF Arm
  <2>3. QED
    BY <1>1, <1>a, <2>1, <2>2
       DEF Arm, WindowInv, TypeOK, WindowSpansLoops, YesNo
<1>2. CASE RunBegin
  BY <1>2, <1>a DEF RunBegin, Capped, WindowInv, TypeOK, WindowSpansLoops, YesNo
<1>3. CASE RunEnd
  BY <1>3, <1>a DEF RunEnd, WindowInv, TypeOK, WindowSpansLoops, YesNo
<1>4. CASE SinkCall
  BY <1>4, <1>a, OutsideCounts, Beside DEF SinkCall, TypeOK
<1>5. CASE PreSetup
  <2>1. CASE Hooked /\ windowClosed = "no"
    <3>1. /\ phase = "boot" /\ phase' = "setup"
          /\ running' = "yes" /\ windows' = Capped(windows + 1)
          /\ opener' = "setup" /\ loopsInside' = 0
      BY <1>5, <2>1 DEF PreSetup
    <3>2. QED
      BY <1>5, <1>a, <2>1, <3>1
         DEF PreSetup, Hooked, Capped, WindowInv, TypeOK, WindowSpansLoops,
             YesNo, Phases
  <2>2. CASE ~ (Hooked /\ windowClosed = "no")
    BY <1>5, <1>a, <2>2, Beside DEF PreSetup, TypeOK, Phases
  <2>3. QED
    BY <2>1, <2>2
<1>6. CASE PostSetup
  BY <1>6, <1>a, OutsideCounts, Beside DEF PostSetup, TypeOK, Phases
<1>7. CASE PreLoop
  BY <1>7, <1>a, OutsideCounts, Beside DEF PreLoop, TypeOK, Phases
<1>8. CASE PostLoop
  <2>1. outsideWindow' \in Nat
    BY <1>8, <1>a, OutsideCounts DEF PostLoop
  <2>2. /\ loopsDone' \in Nat /\ loopsInside' \in Nat
        /\ running' \in YesNo /\ windowClosed' \in YesNo
    BY <1>8, <1>a DEF PostLoop, Capped, TypeOK, YesNo
  <2>3. TypeOK'
    BY <1>8, <1>a, <2>1, <2>2 DEF PostLoop, TypeOK, Phases
  <2>4. CASE ClosesNow
    BY <1>8, <1>a, <2>3, <2>4
       DEF PostLoop, ClosesNow, Hooked, Capped, WindowInv, TypeOK,
           WindowSpansLoops, YesNo
  <2>5. CASE ~ ClosesNow
    BY <1>8, <1>a, <2>3, <2>5
       DEF PostLoop, ClosesNow, Hooked, Capped, WindowInv, TypeOK,
           WindowSpansLoops, YesNo
  <2>6. QED
    BY <2>4, <2>5
<1>9. CASE UNCHANGED vars
  BY <1>9, <1>a, Beside DEF vars, TypeOK
<1>10. QED
  BY <1>1, <1>2, <1>3, <1>4, <1>5, <1>6, <1>7, <1>8, <1>9 DEF Next

-----------------------------------------------------------------------------
(* The theorems.                                                           *)

\* The phases, the flags and the counters have their types.
THEOREM WindowTypeCorrect == Spec => []TypeOK
<1>1. WindowInv => TypeOK
  BY DEF WindowInv
<1>2. QED
  BY <1>1, InitWindowInv, WindowStep, PTL DEF Spec

\* A window that opened before setup() and was left alone is open until its
\* last loop has ended and holds the loops it was armed for (onLifecycle).
THEOREM WindowHoldsItsLoops == Spec => []WindowSpansLoops
<1>1. WindowInv => WindowSpansLoops
  BY DEF WindowInv
<1>2. QED
  BY <1>1, InitWindowInv, WindowStep, PTL DEF Spec
=============================================================================
