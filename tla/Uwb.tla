-------------------------------- MODULE Uwb --------------------------------
(***************************************************************************)
(* The ranging anchors of the catalog (src/devices/src/unit_uwb_model.cpp):*)
(* several identical ones hear the same poll, and each waits for its own   *)
(* slot before it answers. The distance they answer with is left out.      *)
(***************************************************************************)
EXTENDS Environment

CONSTANTS
  UwbAnchors,         \* the anchorId_ of the parts
  UwbBaseUs, UwbSlotUs   \* kBaseLatencyUs, kSlotUs

ASSUME UwbAssumption ==
  /\ UwbAnchors \subseteq Nat
  /\ UwbBaseUs \in Nat \ {0} /\ UwbSlotUs \in Nat \ {0}

VARIABLES
  uwbPending,   \* the anchors whose pending_ is set
  uwbDue,       \* replyDueUs_ of each
  uwbPolled,    \* history: when each took the last poll
  uwbRefused    \* history: those whose last wake was refused

uwb == <<uwbPending, uwbDue, uwbPolled, uwbRefused>>

UwbTypeOK ==
  /\ uwbPending \subseteq UwbAnchors /\ uwbRefused \subseteq UwbAnchors
  /\ uwbDue \in [UwbAnchors -> Nat] /\ uwbPolled \in [UwbAnchors -> Nat]

UwbInit ==
  /\ uwbPending = {} /\ uwbRefused = {}
  /\ uwbDue = [a \in UwbAnchors |-> 0] /\ uwbPolled = [a \in UwbAnchors |-> 0]

\* reset() of some of them, and of all for a new window.
UwbReset(some) ==
  /\ UNCHANGED environment \/ (some = UwbAnchors /\ ClockRestarts)
  /\ uwbPending' = uwbPending \ some /\ uwbRefused' = uwbRefused \ some
  /\ uwbDue' = [a \in UwbAnchors |-> IF a \in some THEN 0 ELSE uwbDue[a]]
  /\ uwbPolled' = [a \in UwbAnchors |-> IF a \in some THEN 0 ELSE uwbPolled[a]]

\* Mutated form: every anchor answers in the first slot.
UwbFirstSlot(a) == now + UwbBaseUs

UwbSlot(a) == now + UwbBaseUs + a * UwbSlotUs

\* frameIn of those that a poll reaches: one that has yet to answer drops it
\* with a note.
UwbPoll(heard) ==
  LET taken == heard \ uwbPending
  IN  /\ uwbPending' = uwbPending \cup taken
      /\ uwbDue' = [a \in UwbAnchors |-> IF a \in taken THEN UwbSlot(a) ELSE uwbDue[a]]
      /\ uwbPolled' = [a \in UwbAnchors |-> IF a \in taken THEN now ELSE uwbPolled[a]]
      /\ \E refused \in SUBSET taken :
           /\ owed' = owed \cup {uwbDue'[a] : a \in taken \ refused}
           /\ \A a \in refused : uwbDue'[a] \notin owed
           /\ uwbRefused' = (uwbRefused \ taken) \cup refused
      /\ UNCHANGED <<now, level>>

\* advanceTo(now') of each.
UwbAdvance ==
  /\ Advances
  /\ uwbPending' = {a \in uwbPending : uwbDue[a] > now'}
  /\ UNCHANGED <<uwbDue, uwbPolled, uwbRefused>>

UwbIdle == PassesBy /\ UNCHANGED uwb

UwbNext ==
  \/ \E some \in SUBSET UwbAnchors \ {{}} : UwbPoll(some) \/ UwbReset(some)
  \/ UwbAdvance \/ UwbIdle

UwbSpec == EnvironmentInit /\ UwbInit /\ [][UwbNext]_<<environment, uwb>>

-----------------------------------------------------------------------------
(* Properties.                                                             *)

\* Two anchors that took the same poll do not answer it at one moment: only
\* when the wake of the first was refused or waited past. A poll in the
\* middle of a round is taken by those that have answered, and their answers
\* may then meet those of the round before (frameIn, advanceTo).
UwbOneAtATime ==
  [][UwbAdvance =>
       \A a, b \in uwbPending \ uwbPending' :
         a < b /\ uwbPolled[a] = uwbPolled[b] =>
           a \in uwbRefused \/ now >= uwbDue[a]]_<<environment, uwb>>

\* Every answer that is to come is owed its wake.
UwbIsOwed ==
  \A a \in uwbPending : Expected(uwbDue[a], IF a \in uwbRefused THEN "yes" ELSE "no")
=============================================================================
