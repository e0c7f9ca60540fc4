------------------------------- MODULE Frames -------------------------------
(***************************************************************************)
(* Frames between the devices and the application, and the registry of the *)
(* formats they are written in (src/src/embedbench_host.cpp:               *)
(* registerFormat, frameAccept, frameTx, frameRx). A format has a name and *)
(* a layout that libraries know from each other, and a number that only    *)
(* this host knows. Each library asks for its number once or again, keeps  *)
(* the answer, and writes it on what it sends; who finds its own number on *)
(* a frame reads it in its own layout.                                     *)
(***************************************************************************)
EXTENDS Naturals, Sequences

CONSTANTS
  Libraries,           \* of devices and of the application
  NameOf, SchemaOf,    \* the format of each library: its name and the
                       \* fingerprint of its layout
  LongNames,           \* names of more than kFormatNameMaxLength characters
  MaxFormats,          \* kMaxFormats
  MaxFrameBits,        \* kMaxFrameBits
  Capacity,            \* kDeferralCapacity
  MaxSent              \* bound: frames, and names refused, in a window

Names == {NameOf[l] : l \in Libraries}
Schemas == {SchemaOf[l] : l \in Libraries}

ASSUME FramesAssumption ==
  /\ "director" \notin Libraries
  /\ NameOf = [l \in Libraries |-> NameOf[l]]
  /\ SchemaOf = [l \in Libraries |-> SchemaOf[l]]
  /\ MaxFormats \in Nat /\ MaxFrameBits \in Nat
  /\ Capacity \in Nat /\ MaxSent \in Nat

VARIABLES
  formats,             \* the slots in use, of which the number is the index
  id,                  \* the number each library was given, 0 for none
  inDevice,            \* "yes" while a device method runs
  held,                \* frames raised by it
  receiver,            \* frameReceiver: "bound" or "none"
  frameDevice,         \* frameDevice, who takes what the application sends:
                       \* as well "bound" or "none"
  diagCount,
  sent, accepted,      \* history: frames given to the host, those it said
  handed, unheard,     \* true to; those handed over, those nobody took
  turnedAway,          \* history: names refused
  last                 \* history: the frame handed over last

registry == <<formats, id>>
wiring == <<receiver, frameDevice>>
log == <<sent, accepted, handed, unheard, last>>
vars == <<registry, inDevice, held, wiring, diagCount, turnedAway, log>>

\* A frame as its sender gives it: the padding of the last byte, or no data.
Frame == [from : Libraries \cup {"director"}, format : 0..MaxFormats + 1,
          bits : 0..MaxFrameBits + 1, content : {"clean", "dirty", "null"}]
Carried == {f \in Frame : f.bits <= MaxFrameBits}
NoFrame == [from |-> "director", format |-> 0, bits |-> 0, content |-> "null"]

Entry(l) == [name |-> NameOf[l], schema |-> SchemaOf[l]]

TypeOK ==
  /\ formats \in Seq([name : Names, schema : Schemas])
  /\ Len(formats) <= MaxFormats
  /\ id \in [Libraries -> 0..MaxFormats]
  /\ inDevice \in {"yes", "no"}
  /\ {receiver, frameDevice} \subseteq {"bound", "none"}
  /\ held \in Seq(Carried) /\ Len(held) <= Capacity
  /\ diagCount \in Nat /\ turnedAway \in Nat
  /\ sent \in Nat /\ accepted \in Nat /\ handed \in Nat /\ unheard \in Nat
  /\ last \in Carried

Init ==
  /\ formats = <<>> /\ id = [l \in Libraries |-> 0]
  /\ inDevice = "no" /\ held = <<>> /\ receiver = "none" /\ frameDevice = "none"
  /\ diagCount = 0 /\ turnedAway = 0
  /\ sent = 0 /\ accepted = 0 /\ handed = 0 /\ unheard = 0
  /\ last = NoFrame

-----------------------------------------------------------------------------
(* registerFormat.                                                         *)

TurnAway(l) ==
  /\ turnedAway < MaxSent
  /\ turnedAway' = turnedAway + 1 /\ diagCount' = diagCount + 1
  /\ id' = [id EXCEPT ![l] = 0]
  /\ UNCHANGED formats

Give(l, n) ==
  /\ id' = [id EXCEPT ![l] = n]
  /\ UNCHANGED <<turnedAway, diagCount>>

Numbers == 1..Len(formats)
Known(name) == \E n \in Numbers : formats[n].name = name

\* Mutated form: a long name is cut to what fits.
RegisterClipped(l) ==
  LET name == IF NameOf[l] \in LongNames
              THEN CHOOSE m \in LongNames : TRUE ELSE NameOf[l]
  IN \/ \E n \in Numbers :
          /\ formats[n] = [name |-> name, schema |-> SchemaOf[l]]
          /\ Give(l, n) /\ UNCHANGED formats
     \/ /\ ~ Known(name) /\ Len(formats) < MaxFormats
        /\ formats' = Append(formats, [name |-> name, schema |-> SchemaOf[l]])
        /\ Give(l, Len(formats) + 1)

\* Mutated form: the layouts are not compared.
RegisterByName(l) ==
  \/ \E n \in Numbers :
       /\ formats[n].name = NameOf[l]
       /\ Give(l, n) /\ UNCHANGED formats
  \/ /\ NameOf[l] \notin LongNames
     /\ ~ Known(NameOf[l]) /\ Len(formats) < MaxFormats
     /\ formats' = Append(formats, Entry(l))
     /\ Give(l, Len(formats) + 1)

\* A library asks, or asks again. A name that is too long, that another
\* layout goes by, or for which there is no slot is refused with a note.
Register(l) ==
  \/ /\ NameOf[l] \in LongNames
     /\ TurnAway(l)
  \/ /\ NameOf[l] \notin LongNames
     /\ \E n \in Numbers :
          /\ formats[n].name = NameOf[l]
          /\ IF formats[n].schema = SchemaOf[l]
             THEN Give(l, n) /\ UNCHANGED formats ELSE TurnAway(l)
  \/ /\ NameOf[l] \notin LongNames /\ ~ Known(NameOf[l])
     /\ IF Len(formats) < MaxFormats
        THEN formats' = Append(formats, Entry(l)) /\ Give(l, Len(formats) + 1)
        ELSE TurnAway(l)

RegisterFormat(l) ==
  /\ Register(l)
  /\ UNCHANGED <<inDevice, held, wiring, log>>

-----------------------------------------------------------------------------
(* frameAccept, frameTx, frameRx.                                          *)

\* frameAccept, and with a frame refused its note.
Acceptable(f) ==
  /\ f.format \in Numbers
  /\ f.bits <= MaxFrameBits
  /\ f.bits > 0 => f.content = "clean"

Sends(f) ==
  /\ sent < MaxSent
  /\ f.from \in Libraries => f.format = id[f.from]
  /\ sent' = sent + 1

Refuse ==
  /\ diagCount' = diagCount + 1
  /\ UNCHANGED <<inDevice, held, accepted, handed, unheard, last>>

HandOver(f) == handed' = handed + 1 /\ last' = f

\* The application sends to the devices. Without one that takes frames it is
\* answered true and nobody gets it; with one, the call is refused while a
\* device runs.
FrameTx(f) ==
  /\ Sends(f)
  /\ \/ ~ Acceptable(f) /\ Refuse
     \/ /\ Acceptable(f) /\ frameDevice = "none"
        /\ accepted' = accepted + 1 /\ unheard' = unheard + 1
        /\ UNCHANGED <<inDevice, held, diagCount, handed, last>>
     \/ /\ Acceptable(f) /\ frameDevice = "bound" /\ inDevice = "yes"
        /\ Refuse
     \/ /\ Acceptable(f) /\ frameDevice = "bound" /\ inDevice = "no"
        /\ HandOver(f) /\ inDevice' = "yes" /\ accepted' = accepted + 1
        /\ UNCHANGED <<held, diagCount, unheard>>
  /\ UNCHANGED <<registry, wiring, turnedAway>>

\* Mutated form: a full queue forgets the frame.
HoldSilently(f) ==
  /\ held' = IF Len(held) < Capacity THEN Append(held, f) ELSE held
  /\ UNCHANGED diagCount

\* queueDeferred.
Hold(f) ==
  \/ Len(held) < Capacity /\ held' = Append(held, f) /\ UNCHANGED diagCount
  \/ /\ Len(held) = Capacity
     /\ diagCount' = diagCount + 1 /\ UNCHANGED held

\* A device, or the director for one, sends to the application. The answer
\* is true whether there was room to hold the frame or not.
FrameRx(f) ==
  /\ Sends(f)
  /\ \/ ~ Acceptable(f) /\ Refuse
     \/ /\ Acceptable(f)
        /\ accepted' = accepted + 1
        /\ \/ /\ receiver = "none"
              /\ unheard' = unheard + 1
              /\ UNCHANGED <<held, diagCount, handed, last>>
           \/ /\ receiver = "bound" /\ inDevice = "yes"
              /\ Hold(f)
              /\ UNCHANGED <<handed, unheard, last>>
           \/ /\ receiver = "bound" /\ inDevice = "no"
              /\ HandOver(f)
              /\ UNCHANGED <<held, diagCount, unheard>>
        /\ UNCHANGED inDevice
  /\ UNCHANGED <<registry, wiring, turnedAway>>

\* Any other operation that runs a device, and the end of one.
EnterDevice ==
  /\ inDevice = "no" /\ inDevice' = "yes"
  /\ UNCHANGED <<registry, held, wiring, diagCount, turnedAway, log>>

LeaveDevice ==
  /\ inDevice = "yes" /\ inDevice' = "no"
  /\ UNCHANGED <<registry, held, wiring, diagCount, turnedAway, log>>

\* deliverDeferred: who receives is looked up now. What the receiver does
\* comes between two deliveries.
Deliver ==
  /\ inDevice = "no" /\ held # <<>>
  /\ held' = Tail(held)
  /\ \/ receiver = "bound" /\ HandOver(Head(held)) /\ UNCHANGED unheard
     \/ /\ receiver = "none"
        /\ unheard' = unheard + 1 /\ UNCHANGED <<handed, last>>
  /\ UNCHANGED <<registry, inDevice, wiring, diagCount, turnedAway, sent,
                 accepted>>

SetFrameReceiver(r) ==
  /\ receiver' = r
  /\ UNCHANGED <<registry, inDevice, held, frameDevice, diagCount, turnedAway, log>>

BindFrameDevice(d) ==
  /\ frameDevice' = d
  /\ UNCHANGED <<registry, inDevice, held, receiver, diagCount, turnedAway, log>>

\* A new window: the registry and what the libraries remember of it stay.
RunBegin ==
  /\ inDevice' = "no" /\ held' = <<>> /\ diagCount' = 0
  /\ sent' = 0 /\ accepted' = 0 /\ handed' = 0 /\ unheard' = 0
  /\ turnedAway' = 0
  /\ UNCHANGED <<registry, wiring, last>>

Next ==
  \/ \E l \in Libraries : RegisterFormat(l)
  \/ \E f \in Frame : FrameTx(f) \/ FrameRx(f)
  \/ EnterDevice \/ LeaveDevice \/ Deliver
  \/ \E b \in {"bound", "none"} : SetFrameReceiver(b) \/ BindFrameDevice(b)
  \/ RunBegin

Spec == Init /\ [][Next]_vars

-----------------------------------------------------------------------------
(* Properties.                                                             *)

\* A number a library remembers names its own format, name and layout, and
\* no name has two numbers, in whatever order libraries that agree, collide
\* or do not fit ask for theirs, and in later windows (registerFormat).
OneNameOneId ==
  /\ \A l \in Libraries :
       id[l] # 0 => id[l] \in Numbers /\ formats[id[l]] = Entry(l)
  /\ \A m, n \in Numbers : formats[m].name = formats[n].name => m = n

\* Whoever takes a library's frame for its own means the same format by it,
\* in name and layout, however long the frame was held.
UnderstoodAsSent ==
  last.from \in Libraries =>
    \A l \in Libraries : id[l] = last.format => Entry(l) = Entry(last.from)

\* An answer stands: asking again gives the same number, and nothing another
\* library does takes it away.
AnswerStands == [][\A l \in Libraries : id[l] # 0 => id'[l] = id[l]]_vars

\* No frame is lost in silence: it was handed over, is held, found nobody to
\* receive it, or a note says that it was refused or dropped.
EveryFrameAccounted ==
  sent + turnedAway = handed + unheard + Len(held) + diagCount

\* docs/ADVANCED.md:234: "`true` from `frameOut` means "carried"".
AcceptedIsCarried == accepted = handed + unheard + Len(held)
=============================================================================
