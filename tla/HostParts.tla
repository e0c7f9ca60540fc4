----------------------------- MODULE HostParts -----------------------------
(***************************************************************************)
(* Two parts of the host (src/src/embedbench_host.cpp) that keep no state  *)
(* in common, the run window and the table of listeners, examined one at a *)
(* time. What joins them is a recorded line, which goes to the listeners   *)
(* when a window is open: Listeners begins where that has been decided.    *)
(* What a listener does to the window is what any code of the program does *)
(* to it; a listener that does it while a line of the lifecycle itself is  *)
(* offered, between the count of a loop and the test for the last one, is  *)
(* left out.                                                               *)
(***************************************************************************)
EXTENDS RunWindow, Listeners

VARIABLE examined   \* "window" or "listeners"

hostParts == <<vars, listenerVars, examined>>

HostPartsInit ==
  /\ examined \in {"window", "listeners"}
  /\ Init /\ ListenersInit

HostPartsNext ==
  /\ \/ examined = "window" /\ Next /\ UNCHANGED listenerVars
     \/ examined = "listeners" /\ ListenersNext /\ UNCHANGED vars
  /\ UNCHANGED examined

\* The core goes on: setup() and loop() return. Nothing is asked of the
\* listeners.
HostPartsSpec ==
  /\ HostPartsInit /\ [][HostPartsNext]_hostParts
  /\ WF_hostParts(/\ examined = "window" /\ Core
                  /\ UNCHANGED <<listenerVars, examined>>)
=============================================================================
