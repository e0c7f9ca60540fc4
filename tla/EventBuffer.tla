----------------------------- MODULE EventBuffer -----------------------------
(***************************************************************************)
(* The record of a run (src/src/embedbench_host.cpp: vrecord, foldCycle,   *)
(* foldShapeCycle, markTruncated). A full buffer first folds a cycle of    *)
(* equal lines into its first copy, then a cycle of lines of equal shape   *)
(* into a summary, and only when nothing repeats spends its last slot on a *)
(* truncation notice.                                                      *)
(*                                                                         *)
(* A line is its shape (the text with the values taken out), the values,   *)
(* and whether it is already a summary, whose value is a checksum. Every   *)
(* event has a moment of its own, so its number stands for its time.       *)
(***************************************************************************)
EXTENDS Integers, Sequences, FiniteSets

CONSTANTS
  Slots,       \* kCapacity
  MaxWidth,    \* kMaxWidth: the longest cycle looked for
  Shapes,      \* shapes of the lines the run records; no line but the notice
               \* begins with "trace.truncated"
  Values,      \* values that occur in a line
  CrcMod,      \* how many checksums there are
  MaxEvents,   \* bound: events recorded in a window
  MaxOutside   \* bound: events outside a window

ASSUME BufferAssumption ==
  /\ Slots \in Nat \ {0} /\ MaxWidth \in Nat \ {0}
  /\ CrcMod \in Nat \ {0} /\ Values \subseteq 0..CrcMod - 1
  /\ "trace.truncated" \notin Shapes
  /\ MaxEvents \in Nat /\ MaxOutside \in Nat

VARIABLES
  buf,                        \* the events kept
  nextSeq, dropped, folded,
  outsideWindow,
  foldExhausted, truncated,   \* "yes" or "no"
  running,                    \* "yes" or "no"
  recorded                    \* history: the lines recorded in this window

flags == <<foldExhausted, truncated>>
vars == <<buf, nextSeq, dropped, folded, outsideWindow, flags, running,
          recorded>>

Lines == [shape : Shapes, value : 0..CrcMod - 1, summary : {"no", "yes"}]
Notice == [shape |-> "trace.truncated", value |-> 0, summary |-> "no"]
YesNo == {"yes", "no"}

Events ==
  [line : Lines \cup {Notice}, seq : Nat \ {0}, time : Nat, last : Nat,
   repeats : Nat \ {0}, at : Nat]

TypeOK ==
  /\ buf \in Seq(Events) /\ Len(buf) <= Slots
  /\ nextSeq \in Nat \ {0} /\ dropped \in Nat /\ folded \in Nat
  /\ outsideWindow \in Nat
  /\ foldExhausted \in YesNo /\ truncated \in YesNo /\ running \in YesNo
  /\ recorded \in Seq(Lines)

Init ==
  /\ buf = <<>> /\ nextSeq = 1 /\ dropped = 0 /\ folded = 0
  /\ outsideWindow = 0
  /\ foldExhausted = "no" /\ truncated = "no" /\ running = "no"
  /\ recorded = <<>>

\* Event: `at` is history, when the last event a slot stands for happened.
Event(line) ==
  [line |-> line, seq |-> nextSeq, time |-> nextSeq, last |-> nextSeq,
   repeats |-> 1, at |-> nextSeq]

-----------------------------------------------------------------------------
(* Cycles.                                                                 *)

SameText(e, f) == e.line = f.line
SameShape(e, f) ==
  e.line.shape = f.line.shape /\ e.line.summary = f.line.summary

Same(by, e, f) == IF by = "text" THEN SameText(e, f) ELSE SameShape(e, f)

\* A cycle: `copies` equal rounds of `width` events from `start` on, and no
\* further copy behind them.
Repeats(by, start, width, copies) ==
  /\ start + width * copies - 1 <= Len(buf)
  /\ \A k \in 0..width * copies - 1 :
       Same(by, buf[start + (k % width)], buf[start + k])

Cycles(by) ==
  {c \in [width : 1..MaxWidth, start : 1..Len(buf), copies : 2..Len(buf)] :
     /\ Repeats(by, c.start, c.width, c.copies)
     /\ ~ Repeats(by, c.start, c.width, c.copies + 1)}

Removed(c) == c.width * (c.copies - 1)

\* The order of the search: narrow cycles first, then from the beginning.
SearchedBefore(c, d) ==
  \/ c.width < d.width
  \/ c.width = d.width /\ c.start < d.start

FirstCycle ==
  CHOOSE c \in Cycles("text") :
    \A d \in Cycles("text") : c = d \/ SearchedBefore(c, d)

BestCycle ==
  CHOOSE c \in Cycles("shape") :
    \A d \in Cycles("shape") :
      \/ Removed(c) > Removed(d)
      \/ Removed(c) = Removed(d) /\ (c = d \/ SearchedBefore(c, d))

\* The events that the k-th event of a cycle's first round stands for.
Copies(c, k) == [j \in 1..c.copies |-> buf[c.start + c.width * (j - 1) + k]]

\* Mutated form: a copy counts once, whatever it already stands for.
TotalCounted(copies) == Len(copies)

\* f[1] + ... + f[n]
SumTo(f, n) ==
  LET sum[i \in 0..n] == IF i = 0 THEN 0 ELSE sum[i - 1] + f[i]
  IN  sum[n]

Total(copies) ==
  SumTo([j \in 1..Len(copies) |-> copies[j].repeats], Len(copies))

\* Mutated form: the last copy is the one that is kept.
MergedIntoLast(c, k) ==
  [buf[c.start + c.width * (c.copies - 1) + k] EXCEPT
     !.repeats = Total(Copies(c, k)),
     !.last = buf[c.start + c.width * c.copies - 1].time]

\* What the first copy becomes: the sum of the counts and the time of the
\* last line of the last copy.
Merged(c, k) ==
  [buf[c.start + k] EXCEPT
     !.repeats = Total(Copies(c, k)),
     !.last = buf[c.start + c.width * c.copies - 1].time,
     !.at = buf[c.start + c.width * (c.copies - 1) + k].at]

MergedRound(c) == [k \in 0..c.width - 1 |-> Merged(c, k)]

\* crc8Step over every copy: the summary's value.
Crc(copies) ==
  LET crc[i \in 0..Len(copies)] ==
        IF i = 0 THEN 0
        ELSE (2 * crc[i - 1] + copies[i].line.value) % CrcMod
  IN  crc[Len(copies)]

Summarised(c, k) ==
  [Merged(c, k) EXCEPT
     !.line = [@ EXCEPT !.value = Crc(Copies(c, k)), !.summary = "yes"]]

SummaryRound(c) == [k \in 0..c.width - 1 |-> Summarised(c, k)]

\* The buffer once cycle c has given up all its copies but the first, and
\* that one has become round.
Folded(c, round) ==
  [i \in 1..Len(buf) - Removed(c) |->
     IF i < c.start THEN buf[i]
     ELSE IF i < c.start + c.width THEN round[i - c.start]
     ELSE buf[i + Removed(c)]]

-----------------------------------------------------------------------------
(* vrecord.                                                                *)

RecordOutside ==
  /\ running = "no"
  /\ outsideWindow < MaxOutside
  /\ nextSeq' = nextSeq + 1
  /\ outsideWindow' = outsideWindow + 1
  /\ UNCHANGED <<buf, dropped, folded, flags, running, recorded>>

\* Every event of a window takes the next number.
Recorded(line) ==
  /\ running = "yes"
  /\ Len(recorded) < MaxEvents
  /\ nextSeq' = nextSeq + 1
  /\ recorded' = Append(recorded, line)
  /\ UNCHANGED <<outsideWindow, running>>

\* Mutated form: a full buffer is not noticed.
StoreUnguarded(line) ==
  /\ Recorded(line)
  /\ buf' = Append(buf, Event(line))
  /\ UNCHANGED <<dropped, folded, flags>>

Store(line) ==
  /\ Recorded(line)
  /\ Len(buf) < Slots
  /\ buf' = Append(buf, Event(line))
  /\ UNCHANGED <<dropped, folded, flags>>

FoldAndStore(line) ==
  /\ Recorded(line)
  /\ Len(buf) >= Slots /\ foldExhausted = "no"
  /\ Cycles("text") # {}
  /\ buf' = Append(Folded(FirstCycle, MergedRound(FirstCycle)), Event(line))
  /\ folded' = folded + Removed(FirstCycle)
  /\ UNCHANGED <<dropped, flags>>

SummariseAndStore(line) ==
  /\ Recorded(line)
  /\ Len(buf) >= Slots /\ foldExhausted = "no"
  /\ Cycles("text") = {} /\ Cycles("shape") # {}
  /\ buf' = Append(Folded(BestCycle, SummaryRound(BestCycle)), Event(line))
  /\ folded' = folded + Removed(BestCycle)
  /\ UNCHANGED <<dropped, flags>>

\* markTruncated: the last slot becomes the notice.
MarkTruncated == buf' = [buf EXCEPT ![Slots] = Event(Notice)]

\* Mutated form: the notice takes a real event's slot uncounted.
TruncateUncounted(line) ==
  /\ Recorded(line)
  /\ Len(buf) >= Slots /\ foldExhausted = "no"
  /\ Cycles("text") = {} /\ Cycles("shape") = {}
  /\ foldExhausted' = "yes" /\ truncated' = "yes"
  /\ dropped' = dropped + 1
  /\ MarkTruncated
  /\ UNCHANGED folded

\* Mutated form: the search for a shape is skipped.
TruncateEarly(line) ==
  /\ Recorded(line)
  /\ Len(buf) >= Slots /\ foldExhausted = "no"
  /\ Cycles("text") = {}
  /\ foldExhausted' = "yes" /\ truncated' = "yes"
  /\ dropped' = dropped + 2
  /\ MarkTruncated
  /\ UNCHANGED folded

Truncate(line) ==
  /\ Recorded(line)
  /\ Len(buf) >= Slots /\ foldExhausted = "no"
  /\ Cycles("text") = {} /\ Cycles("shape") = {}
  /\ foldExhausted' = "yes" /\ truncated' = "yes"
  /\ dropped' = dropped + 2
  /\ MarkTruncated
  /\ UNCHANGED folded

Drop(line) ==
  /\ Recorded(line)
  /\ Len(buf) >= Slots /\ foldExhausted = "yes"
  /\ dropped' = dropped + 1
  /\ MarkTruncated
  /\ UNCHANGED <<folded, flags>>

RunBegin ==
  /\ buf' = <<>> /\ nextSeq' = 1 /\ dropped' = 0 /\ folded' = 0
  /\ foldExhausted' = "no" /\ truncated' = "no" /\ running' = "yes"
  /\ recorded' = <<>>
  /\ UNCHANGED outsideWindow

RunEnd ==
  /\ running = "yes"
  /\ running' = "no"
  /\ UNCHANGED <<buf, nextSeq, dropped, folded, outsideWindow, flags, recorded>>

Ordinary == [shape : Shapes, value : Values, summary : {"no"}]

Next ==
  \/ \E line \in Ordinary :
       \/ Store(line) \/ FoldAndStore(line) \/ SummariseAndStore(line)
       \/ Truncate(line) \/ Drop(line)
  \/ RecordOutside \/ RunBegin \/ RunEnd

Spec == Init /\ [][Next]_vars

-----------------------------------------------------------------------------
(* Properties.                                                             *)

\* The slots that hold one of lines, and the events they stand for.
Holding(lines) == {i \in 1..Len(buf) : buf[i].line \in lines}
Counted(lines) ==
  SumTo([i \in 1..Len(buf) |->
           IF i \in Holding(lines) THEN buf[i].repeats ELSE 0], Len(buf))

\* Whatever was folded, summarised or cut: the counts of the lines kept and
\* the count of the lines lost add up to the events of the window, and the
\* slots saved to what the folds report (stats: events, folded, dropped).
EveryEventAccounted ==
  /\ Counted(Lines) + dropped = Len(recorded)
  /\ Counted(Lines) = Cardinality(Holding(Lines)) + folded

\* The record is cut only with a notice in the last slot, and then nothing
\* that could still be folded was thrown away, then or later (vrecord:
\* "once the buffer is full and no cycle remains, it can never change").
CutOnlyWhenNothingRepeats ==
  dropped > 0 =>
    /\ buf[Slots].line = Notice
    /\ Cycles("text") = {} /\ Cycles("shape") = {}

\* Folding keeps the beginning and the order: the first event of the window
\* stays first, and lines stand in the order their first copies happened.
BeginningAndOrderKept ==
  /\ buf # <<>> => buf[1].seq = 1 \/ Slots = 1
  /\ \A i, j \in 1..Len(buf) : i < j => buf[i].seq < buf[j].seq

\* While no summary was made and nothing was cut, each text's counts add up
\* to the number of times it was recorded, whatever cycles overlapped
\* (vrecord: "lossless first").
LosslessCounts ==
  dropped = 0 /\ (\A i \in 1..Len(buf) : buf[i].line.summary = "no") =>
    \A line \in Ordinary :
      Counted({line})
        = Cardinality({n \in 1..Len(recorded) : recorded[n] = line})

\* The guide to the trace: a folded line "happened eight times, and the last
\* was at 007000" (docs/ADVANCED.md).
LastTimeIsTheLines ==
  \A i \in 1..Len(buf) : buf[i].repeats > 1 => buf[i].last = buf[i].at
=============================================================================
