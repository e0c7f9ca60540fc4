------------------------------ MODULE RunWindow ------------------------------
(***************************************************************************)
(* The run window (src/src/embedbench_host.cpp: armRunWindow, onLifecycle, *)
(* runBegin, runEnd). The core announces the phases of the program to one  *)
(* hook; a window armed before main opens before setup() and closes after  *)
(* a number of loops, unless the program opens and closes windows itself.  *)
(***************************************************************************)
EXTENDS Integers

CONSTANTS
  Loops,      \* loop counts a program arms a window with, 0 included
  MaxCount    \* bound: counts stay at this value once they reach it

ASSUME WindowAssumption ==
  /\ Loops \subseteq Nat /\ MaxCount \in Nat \ {0, 1}
  /\ \A n \in Loops : n < MaxCount

VARIABLES
  phase,                                  \* where the core's main() stands
  windowArmed, windowClosed,              \* "yes" or "no"
  windowLoops, loopsDone,
  running, windows, outsideWindow,
  opener,                                 \* history: who opened the window,
                                          \* "setup", or "hand" as soon as
                                          \* the program has a say in it
  loopsInside                             \* history: loops completed in it

vars == <<phase, windowArmed, windowClosed, windowLoops, loopsDone, running,
          windows, outsideWindow, opener, loopsInside>>

Phases == {"boot", "setup", "between", "loop"}
YesNo == {"yes", "no"}

TypeOK ==
  /\ phase \in Phases
  /\ windowArmed \in YesNo /\ windowClosed \in YesNo /\ running \in YesNo
  /\ windowLoops \in Nat /\ loopsDone \in Nat /\ windows \in Nat
  /\ outsideWindow \in Nat
  /\ loopsInside \in Nat
  /\ opener \in {"nobody", "setup", "hand"}

Init ==
  /\ phase = "boot"
  /\ windowArmed = "no" /\ windowClosed = "no"
  /\ windowLoops = 0 /\ loopsDone = 0
  /\ running = "no" /\ windows = 0 /\ outsideWindow = 0
  /\ opener = "nobody" /\ loopsInside = 0

-----------------------------------------------------------------------------
(* Calls of the program, from a global constructor, setup() or loop().     *)

ProgramRuns == phase \in {"boot", "setup", "loop"}

Capped(n) == IF n > MaxCount THEN MaxCount ELSE n

\* vrecord of lines: those recorded with no window open are counted only.
Outside(lines) ==
  outsideWindow' = IF running = "no" THEN Capped(outsideWindow + lines)
                                     ELSE outsideWindow

\* Mutated form: the number of the last loop is kept, not their count.
ArmLastLoop(loops) ==
  /\ ProgramRuns
  /\ windowArmed' = "yes" /\ windowClosed' = "no"
  /\ windowLoops' = loops - 1
  /\ loopsDone' = 0
  /\ opener' = IF opener = "nobody" THEN "nobody" ELSE "hand"
  /\ UNCHANGED <<phase, running, windows, outsideWindow, loopsInside>>

\* armRunWindow.
Arm(loops) ==
  /\ ProgramRuns
  /\ windowArmed' = "yes" /\ windowClosed' = "no"
  /\ windowLoops' = IF loops > 0 THEN loops ELSE 1
  /\ loopsDone' = 0
  /\ opener' = IF opener = "nobody" THEN "nobody" ELSE "hand"
  /\ UNCHANGED <<phase, running, windows, outsideWindow, loopsInside>>

\* runBegin and runEnd, called by hand.
RunBegin ==
  /\ ProgramRuns
  /\ running' = "yes" /\ windows' = Capped(windows + 1)
  /\ opener' = "hand" /\ loopsInside' = 0
  /\ UNCHANGED <<phase, windowArmed, windowClosed, windowLoops, loopsDone,
                 outsideWindow>>

RunEnd ==
  /\ ProgramRuns
  /\ running' = "no" /\ opener' = "hand"
  /\ UNCHANGED <<phase, windowArmed, windowClosed, windowLoops, loopsDone,
                 windows, outsideWindow, loopsInside>>

\* pinInject, uartInject, chanWrite and the other sinks: one line each.
SinkCall ==
  /\ ProgramRuns
  /\ Outside(1)
  /\ UNCHANGED <<phase, windowArmed, windowClosed, windowLoops, loopsDone,
                 running, windows, opener, loopsInside>>

-----------------------------------------------------------------------------
(* onLifecycle. Before the first arming nobody listens to the core.        *)

Hooked == windowArmed = "yes"

PreSetup ==
  /\ phase = "boot" /\ phase' = "setup"
  /\ \/ /\ Hooked /\ windowClosed = "no"
        /\ running' = "yes" /\ windows' = Capped(windows + 1)
        /\ opener' = "setup" /\ loopsInside' = 0
     \/ /\ ~ (Hooked /\ windowClosed = "no")
        /\ UNCHANGED <<running, windows, opener, loopsInside>>
  /\ UNCHANGED <<windowArmed, windowClosed, windowLoops, loopsDone,
                 outsideWindow>>

\* kPostSetup and kPreLoop: a line each.
PostSetup ==
  /\ phase = "setup" /\ phase' = "between"
  /\ Outside(IF Hooked THEN 1 ELSE 0)
  /\ UNCHANGED <<windowArmed, windowClosed, windowLoops, loopsDone, running,
                 windows, opener, loopsInside>>

PreLoop ==
  /\ phase = "between" /\ phase' = "loop"
  /\ Outside(IF Hooked THEN 1 ELSE 0)
  /\ UNCHANGED <<windowArmed, windowClosed, windowLoops, loopsDone, running,
                 windows, opener, loopsInside>>

\* Mutated form: the window is closed one loop late.
ClosesLate ==
  Hooked /\ windowClosed = "no" /\ loopsDone + 1 > windowLoops

\* Mutated form: only a window that is still open is closed.
ClosesOnlyOpen ==
  /\ Hooked /\ windowClosed = "no" /\ running = "yes"
  /\ loopsDone + 1 >= windowLoops

\* Whether this loop is the last of the armed window.
ClosesNow ==
  Hooked /\ windowClosed = "no" /\ loopsDone + 1 >= windowLoops

PostLoop ==
  /\ phase = "loop" /\ phase' = "between"
  /\ loopsDone' = IF Hooked THEN Capped(loopsDone + 1) ELSE loopsDone
  /\ loopsInside' = IF running = "yes" THEN Capped(loopsInside + 1)
                                       ELSE loopsInside
  /\ Outside(IF ClosesNow THEN 2 ELSE IF Hooked THEN 1 ELSE 0)
  /\ \/ ClosesNow /\ windowClosed' = "yes" /\ running' = "no"
     \/ ~ ClosesNow /\ UNCHANGED <<windowClosed, running>>
  /\ UNCHANGED <<windowArmed, windowLoops, windows, opener>>

Core == PreSetup \/ PostSetup \/ PreLoop \/ PostLoop

Next ==
  \/ \E n \in Loops : Arm(n)
  \/ RunBegin \/ RunEnd \/ SinkCall
  \/ PreSetup \/ PostSetup \/ PreLoop \/ PostLoop

\* The core goes on: setup() and loop() return.
Spec == Init /\ [][Next]_vars
FairSpec == Spec /\ WF_vars(Core)

-----------------------------------------------------------------------------
(* Properties.                                                             *)

\* A window the lifecycle opened, and the program left alone, is open from
\* before setup() until its last loop has ended, and holds exactly the loops
\* it was armed for, however it was armed before (onLifecycle).
WindowSpansLoops ==
  opener = "setup" =>
    IF windowClosed = "yes"
    THEN running = "no" /\ loopsInside = windowLoops
    ELSE running = "yes" /\ loopsInside = loopsDone

\* However often the program arms the window, in whatever phase, and whatever
\* windows it opens and closes by hand, an armed window is reported closed in
\* the end, unless the program goes on arming it for ever: armRunWindow starts
\* the count of loops again (1247), so one called in every loop() with a count
\* of two or more keeps the window from ever closing.
ArmedCloses ==
  (<>[][~ \E n \in Loops : Arm(n)]_vars)
    => (windowArmed = "yes" ~> windowClosed = "yes")
=============================================================================
