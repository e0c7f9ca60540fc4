------------------------------- MODULE Chunk -------------------------------
(***************************************************************************)
(* The chunked radio link of the catalog                                   *)
(* (src/devices/src/unit_chunk_model.cpp): one node cuts a message into    *)
(* pieces that its link can carry and another puts them together. Any      *)
(* piece may be lost on the way. A byte of a message is the message it is  *)
(* of, where it stands, and how long that message is.                      *)
(***************************************************************************)
EXTENDS Environment, Sequences

CONSTANTS
  ChunkMax,        \* kMaxMessage
  ChunkCaps,       \* what the buses carry beyond kHeaderBytes: maxFrameBits
  ChunkGapUs,      \* kFrameGapUs
  ChunkMessages    \* bound: messages that are sent

ASSUME ChunkAssumption ==
  /\ ChunkMax \in Nat \ {0} /\ ChunkCaps \subseteq Nat
  /\ ChunkGapUs \in Nat \ {0} /\ ChunkMessages \in Nat

VARIABLES
  chMessage, chLen, chSent, chSeq, \* pending_, pendingLen_, ..., sendSeq_
  chCap, chPerFrame,               \* sendBus_ by its capacity, perFrame_
  chSending, chNext,               \* sending_, nextFrameUs_
  chAssembled, chExpect,           \* of the far end: assembled_, expectSeq_
  chGap,                           \* history: a first piece was lost since
                                   \* the last one that was taken
  chRefused                        \* history: the last wake was refused

chSender == <<chMessage, chLen, chSent, chSeq, chCap, chPerFrame, chSending,
              chNext, chRefused>>
chReceiver == <<chAssembled, chExpect, chGap>>
chunk == <<chSender, chReceiver>>

ChunkBytes == (1..ChunkMessages) \X (1..ChunkMax) \X (1..ChunkMax)

ChunkTypeOK ==
  /\ chMessage \in 0..ChunkMessages /\ chLen \in 0..ChunkMax
  /\ chSent \in 0..chLen /\ chSeq \in 0..ChunkMax
  /\ chCap \in ChunkCaps \cup {0} /\ chPerFrame \in ChunkCaps \cup {0}
  /\ chSending \in Flag /\ chNext \in Nat /\ chRefused \in Flag
  /\ chAssembled \in Seq(ChunkBytes) /\ Len(chAssembled) <= ChunkMax
  /\ chExpect \in 0..ChunkMax /\ chGap \in Flag

ChunkInit ==
  /\ chMessage = 0 /\ chLen = 0 /\ chSent = 0 /\ chSeq = 0
  /\ chCap = 0 /\ chPerFrame = 0 /\ chSending = "no" /\ chNext = 0
  /\ chAssembled = <<>> /\ chExpect = 0 /\ chGap = "no" /\ chRefused = "no"

\* reset(): of either end as its power is cycled, of both for a new window.
ChunkSenderForgets ==
  /\ chLen' = 0 /\ chSent' = 0 /\ chSeq' = 0 /\ chCap' = 0
  /\ chPerFrame' = 0 /\ chSending' = "no" /\ chNext' = 0 /\ chRefused' = "no"
  /\ UNCHANGED chMessage
ChunkReceiverForgets == chAssembled' = <<>> /\ chExpect' = 0 /\ chGap' = "no"

ChunkReset ==
  \/ UNCHANGED <<environment, chReceiver>> /\ ChunkSenderForgets
  \/ UNCHANGED <<environment, chSender>> /\ ChunkReceiverForgets
  \/ ClockRestarts /\ ChunkSenderForgets /\ ChunkReceiverForgets

\* Mutated form: a piece that is out of order is dropped alone.
ChunkFrameInSkipping(seq, more, body) ==
  IF seq # chExpect THEN UNCHANGED chReceiver
  ELSE /\ LET all == (IF seq = 0 THEN <<>> ELSE chAssembled) \o body
          IN  chAssembled' = SubSeq(all, 1, IF Len(all) < ChunkMax THEN Len(all)
                                            ELSE ChunkMax)
       /\ chExpect' = IF more THEN chExpect + 1 ELSE 0
       /\ chGap' = IF seq = 0 THEN "no" ELSE chGap

\* frameIn: a piece that is out of order takes what was put together along.
ChunkFrameIn(seq, more, body) ==
  IF seq # chExpect THEN ChunkReceiverForgets
  ELSE /\ LET all == (IF seq = 0 THEN <<>> ELSE chAssembled) \o body
          IN  chAssembled' = SubSeq(all, 1, IF Len(all) < ChunkMax THEN Len(all)
                                            ELSE ChunkMax)
       /\ chExpect' = IF more THEN chExpect + 1 ELSE 0
       /\ chGap' = IF seq = 0 THEN "no" ELSE chGap

ChunkLost(seq) ==
  /\ UNCHANGED <<chAssembled, chExpect>>
  /\ chGap' = IF seq = 0 THEN "yes" ELSE chGap

\* emitNext of the message as it now is, of which sent bytes are out as the
\* pieces up to seq, when the moments of left are owed. The link may refuse
\* the piece: perFrame_ may be that of another bus.
ChunkEmit(sent, seq, left) ==
  LET take == IF chLen' - sent < chPerFrame' THEN chLen' - sent ELSE chPerFrame'
      more == sent + take < chLen'
      body == [i \in 1..take |-> <<chMessage', sent + i, chLen'>>]
  IN  /\ chSeq' = seq + 1
      /\ \/ /\ take > chCap'
            /\ chSent' = sent /\ chSending' = "no"
            /\ UNCHANGED chReceiver
         \/ /\ take <= chCap'
            /\ chSent' = sent + take
            /\ chSending' = IF more THEN "yes" ELSE "no"
            /\ ChunkFrameIn(seq, more, body) \/ ChunkLost(seq)
      /\ IF chSending' = "yes"
         THEN chNext' = now' + ChunkGapUs /\ Asks(chNext', left, chRefused)
         ELSE owed' = left /\ UNCHANGED <<chNext, chRefused>>

\* channelWrite, also while another message is going out.
ChunkSend(cap, len) ==
  /\ cap > 0 /\ len \in 1..ChunkMax
  /\ chMessage < ChunkMessages
  /\ chMessage' = chMessage + 1 /\ chLen' = len
  /\ chCap' = cap /\ chPerFrame' = cap
  /\ UNCHANGED <<now, level>>
  /\ ChunkEmit(0, 0, owed)

\* One that is too long is refused, and yet it has set perFrame_.
ChunkSendTooLong(cap) ==
  /\ cap > 0 /\ chPerFrame' = cap
  /\ UNCHANGED <<environment, chMessage, chLen, chSent, chSeq, chCap,
                 chSending, chNext, chRefused, chReceiver>>

\* advanceTo(now'): the next piece, and the one after it a gap from now'.
ChunkAdvance ==
  /\ Serves
  /\ chSending = "yes" /\ now' >= chNext
  /\ UNCHANGED <<chMessage, chLen, chCap, chPerFrame>>
  /\ ChunkEmit(chSent, chSeq, StillOwed)

ChunkIdle ==
  /\ PassesBy \/ (Advances /\ (chSending = "no" \/ now' < chNext))
  /\ UNCHANGED chunk

ChunkNext ==
  \/ \E cap \in ChunkCaps :
       ChunkSendTooLong(cap) \/ \E len \in 1..ChunkMax : ChunkSend(cap, len)
  \/ ChunkAdvance \/ ChunkIdle \/ ChunkReset

ChunkSpec == EnvironmentInit /\ ChunkInit /\ [][ChunkNext]_<<environment, chunk>>

-----------------------------------------------------------------------------
(* Properties.                                                             *)

\* What is taken for a message is one that was sent, whole: however many of
\* its pieces are lost, whichever message replaced another while that was
\* going out, and whatever either end forgot. Only the loss of a first piece
\* can join the beginning of one message to the end of the next
\* (channelWrite, emitNext, advanceTo and frameIn).
ChunkWhole ==
  chExpect = 0 /\ chAssembled # <<>> /\ chGap = "no" =>
    LET whole == chAssembled[1]
    IN  chAssembled = [i \in 1..whole[3] |-> <<whole[1], i, whole[3]>>]

\* The next piece is owed its wake.
ChunkIsOwed == chSending = "yes" => Expected(chNext, chRefused)
=============================================================================
