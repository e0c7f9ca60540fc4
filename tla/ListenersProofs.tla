--------------------------- MODULE ListenersProofs ---------------------------
(***************************************************************************)
(* For any table and any listeners: whoever is registered throughout an    *)
(* event is called for it, in turn and once, whatever the listeners do to  *)
(* the table meanwhile.                                                    *)
(***************************************************************************)
EXTENDS Listeners, TLAPS

\* The walk has begun at the first slot, only a walk calls anybody, and a
\* slot that was held throughout still is.
ListenersInv ==
  /\ ListenersTypeOK
  /\ SteadyIsCalled
  /\ dispatching = "yes" => cursor >= 1 /\ steady \subseteq Held
  /\ listening # "nobody" => dispatching = "yes"

LEMMA InitListenersInv == ListenersInit => ListenersInv
BY ListenerAssumption
   DEF ListenersInit, ListenersInv, ListenersTypeOK, SteadyIsCalled, SlotNumbers

\* A walk begins over a table that is as it was; inside one nothing begins.
LEMMA OfferKeeps ==
  ASSUME ListenersInv, Offer, UNCHANGED <<listeners, listening>>,
         rejectedListeners' \in Nat
  PROVE  ListenersInv'
<1> USE ListenerAssumption
<1>1. CASE dispatching = "no"
  <2>1. /\ dispatching' = "yes" /\ cursor' = 1
        /\ steady' = Held /\ called' = {}
    BY <1>1 DEF Offer
  <2>2. ListenersTypeOK'
    BY <2>1 DEF ListenersInv, ListenersTypeOK, Held, SlotNumbers
  <2>3. SteadyIsCalled' /\ steady' \subseteq Held'
    BY <2>1 DEF SteadyIsCalled, Held, SlotNumbers
  <2>4. QED
    BY <2>1, <2>2, <2>3 DEF ListenersInv
<1>2. CASE dispatching # "no"
  <2>1. UNCHANGED <<dispatching, cursor, steady, called>>
    BY <1>2 DEF Offer
  <2>2. QED
    BY <2>1 DEF ListenersInv, ListenersTypeOK, SteadyIsCalled, Held
<1>3. QED
  BY <1>1, <1>2

LEMMA ListenersStep ==
  ListenersInv /\ [ListenersNext]_listenerVars => ListenersInv'
<1> USE ListenerAssumption
<1> SUFFICES ASSUME ListenersInv, [ListenersNext]_listenerVars
             PROVE  ListenersInv'
  OBVIOUS
<1>a. ListenersTypeOK
  BY DEF ListenersInv
<1>1. CASE Record
  BY <1>1, <1>a, OfferKeeps DEF Record, ListenersTypeOK
<1>2. CASE Call
  <2>1. /\ dispatching = "yes" /\ cursor \in 1..Slots
        /\ listening' = listeners[cursor] /\ listeners[cursor] # "free"
        /\ called' = called \cup {cursor} /\ cursor' = cursor + 1
        /\ UNCHANGED <<listeners, dispatching, rejectedListeners,
                       steady>>
    BY <1>2, <1>a DEF Call, ListenersInv, ListenersTypeOK
  <2>2. ListenersTypeOK'
    BY <1>a, <2>1 DEF ListenersTypeOK, SlotNumbers
  <2>3. SteadyIsCalled'
    <3>1. /\ \A i \in steady : i < cursor => i \in called
          /\ called \subseteq 1..cursor - 1
          /\ steady \subseteq 1..Slots
      BY <1>a, <2>1
         DEF ListenersInv, SteadyIsCalled, ListenersTypeOK, SlotNumbers
    <3>2. QED
      BY <2>1, <3>1 DEF SteadyIsCalled
  <2>4. QED
    BY <2>1, <2>2, <2>3 DEF ListenersInv, Held
<1>3. CASE SkipFree
  <2>1. /\ dispatching = "yes" /\ cursor \in 1..Slots
        /\ listeners[cursor] = "free" /\ cursor' = cursor + 1
        /\ UNCHANGED <<listeners, dispatching, listening, rejectedListeners,
                       steady, called>>
    BY <1>3, <1>a DEF SkipFree, ListenersInv, ListenersTypeOK
  <2>2. ListenersTypeOK'
    BY <1>a, <2>1 DEF ListenersTypeOK, SlotNumbers
  <2>3. SteadyIsCalled'
    <3>1. /\ \A i \in steady : i < cursor => i \in called
          /\ called \subseteq 1..cursor - 1
          /\ steady \subseteq 1..Slots /\ cursor \notin steady
      BY <1>a, <2>1
         DEF ListenersInv, SteadyIsCalled, ListenersTypeOK, SlotNumbers, Held
    <3>2. QED
      BY <2>1, <3>1 DEF SteadyIsCalled
  <2>4. QED
    BY <2>1, <2>2, <2>3 DEF ListenersInv, Held
<1>4. CASE ListenerReturns
  BY <1>4, <1>a
     DEF ListenerReturns, ListenersInv, ListenersTypeOK, SteadyIsCalled, Held
<1>5. CASE WalkEnds
  BY <1>5, <1>a
     DEF WalkEnds, ListenersInv, ListenersTypeOK, SteadyIsCalled, Held
<1>6. CASE AddRejected
  BY <1>6, <1>a, OfferKeeps DEF AddRejected, ListenersTypeOK
<1>7. ASSUME NEW f \in Functions, Add(f) PROVE ListenersInv'
  <2>1. PICK i \in SlotNumbers :
          FirstFree(i) /\ listeners' = [listeners EXCEPT ![i] = f]
    BY <1>7 DEF Add
  <2>2. UNCHANGED <<dispatching, cursor, listening, rejectedListeners,
                    steady, called>>
    BY <1>7 DEF Add
  <2>3. ListenersTypeOK'
    BY <1>a, <2>1, <2>2 DEF ListenersTypeOK
  <2>4. Held \subseteq Held'
    BY <1>a, <2>1 DEF ListenersTypeOK, Held
  <2>5. QED
    BY <2>2, <2>3, <2>4 DEF ListenersInv, SteadyIsCalled
<1>8. ASSUME NEW f \in Functions, Remove(f) PROVE ListenersInv'
  <2>1. PICK i \in SlotNumbers :
          /\ listeners' = [listeners EXCEPT ![i] = "free"]
          /\ steady' = steady \ {i} /\ called' = called \ {i}
    BY <1>8 DEF Remove
  <2>2. UNCHANGED <<dispatching, cursor, listening, rejectedListeners>>
    BY <1>8 DEF Remove
  <2>3. ListenersTypeOK'
    BY <1>a, <2>1, <2>2 DEF ListenersTypeOK
  <2>4. dispatching = "yes" => steady' \subseteq Held'
    BY <1>a, <2>1 DEF ListenersTypeOK, Held, ListenersInv
  <2>5. SteadyIsCalled'
    BY <2>1, <2>2 DEF ListenersInv, SteadyIsCalled
  <2>6. QED
    BY <2>2, <2>3, <2>4, <2>5 DEF ListenersInv
<1>9. CASE UNCHANGED listenerVars
  BY <1>9 DEF listenerVars, ListenersInv, ListenersTypeOK, SteadyIsCalled, Held
<1>10. QED
  BY <1>1, <1>2, <1>3, <1>4, <1>5, <1>6, <1>7, <1>8, <1>9 DEF ListenersNext

-----------------------------------------------------------------------------
(* The theorems.                                                           *)

\* The table, the walk and the counters have their types: the walk's index
\* never leaves the table, however listeners and events are nested.
THEOREM ListenersTypeCorrect == ListenersSpec => []ListenersTypeOK
<1>1. ListenersInv => ListenersTypeOK
  BY DEF ListenersInv
<1>2. QED
  BY <1>1, InitListenersInv, ListenersStep, PTL DEF ListenersSpec

\* A registration that stands throughout an event is called for it in its
\* turn, and nobody before his turn (vrecord, addListener, removeListener).
THEOREM NobodyIsPassedOver == ListenersSpec => []SteadyIsCalled
<1>1. ListenersInv => SteadyIsCalled
  BY DEF ListenersInv
<1>2. QED
  BY <1>1, InitListenersInv, ListenersStep, PTL DEF ListenersSpec
=============================================================================
