------------------------------ MODULE Listeners ------------------------------
(***************************************************************************)
(* The observers of the event stream (src/src/embedbench_host.cpp:         *)
(* addListener, removeListener and the fan-out at the end of vrecord). The *)
(* table is walked while the listeners it holds add and remove each other  *)
(* and cause events themselves; an event recorded during the walk is not   *)
(* offered to anybody.                                                     *)
(***************************************************************************)
EXTENDS Naturals

CONSTANTS
  Functions,   \* listener functions of the program
  Slots,       \* kMaxListeners
  MaxRejected  \* bound: refusals, counted up to it

ASSUME ListenerAssumption ==
  /\ "free" \notin Functions /\ "nobody" \notin Functions
  /\ Slots \in Nat \ {0} /\ MaxRejected \in Nat

VARIABLES
  listeners,              \* the table, "free" for an empty slot
  dispatching,            \* "yes" while the table is walked
  cursor,                 \* the slot the walk has come to
  listening,              \* the listener that is being called, or "nobody"
  rejectedListeners,
  steady,                 \* history: slots held since the event began
  called                  \* history: slots whose listener was called for it

listenerVars == <<listeners, dispatching, cursor, listening,
                  rejectedListeners, steady, called>>

SlotNumbers == 1..Slots
Held == {i \in SlotNumbers : listeners[i] # "free"}

ListenersTypeOK ==
  /\ listeners \in [SlotNumbers -> Functions \cup {"free"}]
  /\ dispatching \in {"yes", "no"} /\ cursor \in 0..Slots + 1
  /\ listening \in Functions \cup {"nobody"}
  /\ rejectedListeners \in Nat
  /\ steady \subseteq SlotNumbers /\ called \subseteq SlotNumbers

ListenersInit ==
  /\ listeners = [i \in SlotNumbers |-> "free"]
  /\ dispatching = "no" /\ cursor = 0 /\ listening = "nobody"
  /\ rejectedListeners = 0
  /\ steady = {} /\ called = {}

-----------------------------------------------------------------------------
(* The end of vrecord.                                                     *)

\* The walk begins; inside a walk an event is recorded and no more.
Offer ==
  \/ /\ dispatching = "no"
     /\ dispatching' = "yes" /\ cursor' = 1
     /\ steady' = Held /\ called' = {}
  \/ /\ dispatching = "yes"
     /\ UNCHANGED <<dispatching, cursor, steady, called>>

\* Anything the host records, done by the program or by a listener.
MayAct == dispatching = "no" \/ listening # "nobody"

Record ==
  /\ MayAct
  /\ Offer
  /\ UNCHANGED <<listeners, listening, rejectedListeners>>

\* Mutated form: a call counts for two slots.
CallSkipsNext ==
  /\ dispatching = "yes" /\ listening = "nobody" /\ cursor <= Slots
  /\ listeners[cursor] # "free"
  /\ listening' = listeners[cursor]
  /\ called' = called \cup {cursor}
  /\ cursor' = cursor + 2
  /\ UNCHANGED <<listeners, dispatching, rejectedListeners, steady>>

Call ==
  /\ dispatching = "yes" /\ listening = "nobody" /\ cursor <= Slots
  /\ listeners[cursor] # "free"
  /\ listening' = listeners[cursor]
  /\ called' = called \cup {cursor}
  /\ cursor' = cursor + 1
  /\ UNCHANGED <<listeners, dispatching, rejectedListeners, steady>>

SkipFree ==
  /\ dispatching = "yes" /\ listening = "nobody" /\ cursor <= Slots
  /\ listeners[cursor] = "free"
  /\ cursor' = cursor + 1
  /\ UNCHANGED <<listeners, dispatching, listening, rejectedListeners,
                 steady, called>>

ListenerReturns ==
  /\ listening # "nobody"
  /\ listening' = "nobody"
  /\ UNCHANGED <<listeners, dispatching, cursor, rejectedListeners, steady,
                 called>>

WalkEnds ==
  /\ dispatching = "yes" /\ listening = "nobody" /\ cursor > Slots
  /\ dispatching' = "no" /\ cursor' = 0
  /\ UNCHANGED <<listeners, listening, rejectedListeners, steady, called>>

-----------------------------------------------------------------------------
(* The table.                                                              *)

FirstFree(i) ==
  i \notin Held /\ \A j \in SlotNumbers : j < i => j \in Held

FirstHolding(i, f) ==
  listeners[i] = f /\ \A j \in SlotNumbers : j < i => listeners[j] # f

Add(f) ==
  /\ MayAct
  /\ \E i \in SlotNumbers :
       FirstFree(i) /\ listeners' = [listeners EXCEPT ![i] = f]
  /\ UNCHANGED <<dispatching, cursor, listening, rejectedListeners, steady,
                 called>>

\* A full table: the refusal is counted and recorded, which is an event.
AddRejected ==
  /\ MayAct
  /\ Held = SlotNumbers
  /\ rejectedListeners < MaxRejected
  /\ rejectedListeners' = rejectedListeners + 1
  /\ Offer
  /\ UNCHANGED <<listeners, listening>>

\* Mutated form: the slots behind are moved up, and the walk's index is not.
RemoveShifting(f) ==
  /\ MayAct
  /\ \E i \in SlotNumbers :
       /\ FirstHolding(i, f)
       /\ listeners' = [j \in SlotNumbers |->
            IF j < i THEN listeners[j]
            ELSE IF j < Slots THEN listeners[j + 1] ELSE "free"]
       /\ steady' = {j \in SlotNumbers :
            \/ j < i /\ j \in steady
            \/ j >= i /\ j + 1 \in steady}
       /\ called' = {j \in SlotNumbers :
            \/ j < i /\ j \in called
            \/ j >= i /\ j + 1 \in called}
  /\ UNCHANGED <<dispatching, cursor, listening, rejectedListeners>>

Remove(f) ==
  /\ MayAct
  /\ \E i \in SlotNumbers :
       /\ FirstHolding(i, f)
       /\ listeners' = [listeners EXCEPT ![i] = "free"]
       /\ steady' = steady \ {i} /\ called' = called \ {i}
  /\ UNCHANGED <<dispatching, cursor, listening, rejectedListeners>>

ListenersNext ==
  \/ Record \/ Call \/ SkipFree \/ ListenerReturns \/ WalkEnds
  \/ AddRejected
  \/ \E f \in Functions : Add(f) \/ Remove(f)

ListenersSpec == ListenersInit /\ [][ListenersNext]_listenerVars

-----------------------------------------------------------------------------
(* Properties.                                                             *)

\* A registration that stands throughout an event is called for it, in its
\* turn and once, whatever the listeners before it add or remove, itself
\* and their neighbours included: the walk's index never slips. What stands
\* only for a part of the event is left open: the walk looks a slot up when it
\* comes to it (437), so a removal or an addition behind the index takes effect
\* at once, though embedbench_host.h:133-134 speaks of the events that follow.
SteadyIsCalled ==
  dispatching = "yes" =>
    /\ \A i \in steady : i < cursor => i \in called
    /\ called \subseteq 1..cursor - 1
=============================================================================
