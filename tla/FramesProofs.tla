---------------------------- MODULE FramesProofs ----------------------------
(***************************************************************************)
(* For any libraries, any number of slots and any room for frames raised   *)
(* by devices: numbers of formats are unambiguous and stand, a frame is    *)
(* read in the format it was written in however long it was held, and no   *)
(* frame is lost in silence.                                               *)
(***************************************************************************)
EXTENDS Frames, SequenceTheorems, TLAPS

LEMMA EntryType ==
  ASSUME NEW l \in Libraries PROVE Entry(l) \in [name : Names, schema : Schemas]
BY DEF Entry, Names, Schemas

LEMMA AppendNth ==
  ASSUME NEW S, NEW s \in Seq(S), NEW x \in S
  PROVE  /\ Append(s, x) \in Seq(S)
         /\ Len(Append(s, x)) = Len(s) + 1
         /\ \A i \in 1..Len(s) : Append(s, x)[i] = s[i]
         /\ Append(s, x)[Len(s) + 1] = x
OBVIOUS

LEMMA ElementOf ==
  ASSUME NEW S, NEW s \in Seq(S), NEW i \in 1..Len(s) PROVE s[i] \in S
OBVIOUS

LEMMA TailNth ==
  ASSUME NEW S, NEW s \in Seq(S), s # <<>>
  PROVE  /\ Tail(s) \in Seq(S) /\ Head(s) \in S
         /\ Len(s) \in Nat /\ Len(s) > 0
         /\ Len(Tail(s)) = Len(s) - 1
         /\ Head(s) = s[1]
         /\ \A i \in 1..Len(Tail(s)) : Tail(s)[i] = s[i + 1]
BY EmptySeq

-----------------------------------------------------------------------------
(* The registry only ever grows, and an entry is added only under a name   *)
(* nobody goes by. What a library remembers therefore stays its own.       *)

RegistryTypeOK ==
  /\ formats \in Seq([name : Names, schema : Schemas])
  /\ Len(formats) <= MaxFormats
  /\ id \in [Libraries -> 0..MaxFormats]

RegistryInv ==
  /\ RegistryTypeOK
  /\ OneNameOneId
  /\ \A l \in Libraries : id[l] # 0 => NameOf[l] \notin LongNames

\* What a request may do to the registry and to what the asker remembers.
Refused(l) == id' = [id EXCEPT ![l] = 0] /\ formats' = formats
Found(l) ==
  /\ NameOf[l] \notin LongNames
  /\ \E n \in Numbers :
       /\ formats[n] = Entry(l)
       /\ id' = [id EXCEPT ![l] = n] /\ formats' = formats
Added(l) ==
  /\ NameOf[l] \notin LongNames /\ ~ Known(NameOf[l])
  /\ Len(formats) < MaxFormats
  /\ formats' = Append(formats, Entry(l))
  /\ id' = [id EXCEPT ![l] = Len(formats) + 1]

\* Who is refused had no number to lose.
LEMMA RegisterCases ==
  ASSUME NEW l \in Libraries, RegistryInv, Register(l)
  PROVE  (id[l] = 0 /\ Refused(l)) \/ Found(l) \/ Added(l)
<1>1. CASE NameOf[l] \in LongNames /\ TurnAway(l)
  BY <1>1 DEF RegistryInv, TurnAway, Refused
<1>2. ASSUME NameOf[l] \notin LongNames,
             NEW n \in Numbers, formats[n].name = NameOf[l],
             IF formats[n].schema = SchemaOf[l]
             THEN Give(l, n) /\ UNCHANGED formats ELSE TurnAway(l)
      PROVE (id[l] = 0 /\ Refused(l)) \/ Found(l)
  <2>1. formats[n] \in [name : Names, schema : Schemas]
    BY ElementOf DEF RegistryInv, RegistryTypeOK, Numbers
  <2>2. CASE formats[n].schema = SchemaOf[l]
    <3>1. formats[n] = Entry(l)
      BY <1>2, <2>1, <2>2 DEF Entry
    <3>2. Give(l, n) /\ UNCHANGED formats
      BY <1>2, <2>2
    <3>3. QED
      BY <1>2, <3>1, <3>2 DEF Give, Found
  <2>3. CASE formats[n].schema # SchemaOf[l]
    <3>1. TurnAway(l)
      BY <1>2, <2>3
    <3>2. ASSUME id[l] # 0 PROVE FALSE
      <4>1. id[l] \in Numbers /\ formats[id[l]] = Entry(l)
        BY <3>2 DEF RegistryInv, OneNameOneId
      <4>2. formats[id[l]].name = NameOf[l]
            /\ formats[id[l]].schema = SchemaOf[l]
        BY <4>1 DEF Entry
      <4>3. id[l] = n
        BY <1>2, <4>1, <4>2 DEF RegistryInv, OneNameOneId
      <4>4. QED
        BY <2>3, <4>2, <4>3
    <3>3. QED
      BY <3>1, <3>2 DEF TurnAway, Refused
  <2>4. QED
    BY <2>2, <2>3
<1>3. CASE /\ NameOf[l] \notin LongNames /\ ~ Known(NameOf[l])
           /\ Len(formats) < MaxFormats
           /\ formats' = Append(formats, Entry(l)) /\ Give(l, Len(formats) + 1)
  BY <1>3 DEF Give, Added
<1>4. CASE /\ NameOf[l] \notin LongNames /\ ~ Known(NameOf[l])
           /\ TurnAway(l)
  <2>1. ASSUME id[l] # 0 PROVE FALSE
    <3>1. id[l] \in Numbers /\ formats[id[l]] = Entry(l)
      BY <2>1 DEF RegistryInv, OneNameOneId
    <3>2. formats[id[l]].name = NameOf[l]
      BY <3>1 DEF Entry
    <3>3. QED
      BY <1>4, <3>1, <3>2 DEF Known
  <2>2. QED
    BY <1>4, <2>1 DEF TurnAway, Refused
<1>5. QED
  BY <1>1, <1>2, <1>3, <1>4 DEF Register

\* What every step may do to the registry.
RegistryStep ==
  \/ UNCHANGED registry
  \/ \E l \in Libraries : (id[l] = 0 /\ Refused(l)) \/ Found(l) \/ Added(l)

LEMMA StepsOfTheRegistry ==
  RegistryInv /\ [Next]_vars => RegistryStep
<1> SUFFICES ASSUME RegistryInv, [Next]_vars PROVE RegistryStep
  OBVIOUS
<1>1. ASSUME NEW l \in Libraries, RegisterFormat(l) PROVE RegistryStep
  <2>1. (id[l] = 0 /\ Refused(l)) \/ Found(l) \/ Added(l)
    BY <1>1, RegisterCases DEF RegisterFormat
  <2>2. QED
    BY <2>1 DEF RegistryStep
<1>2. CASE UNCHANGED registry
  BY <1>2 DEF RegistryStep
<1>3. QED
  BY <1>1, <1>2
     DEF Next, vars, FrameTx, FrameRx, EnterDevice, LeaveDevice, Deliver,
         SetFrameReceiver, BindFrameDevice, RunBegin

LEMMA RegistryGrows ==
  RegistryInv /\ RegistryStep =>
    /\ Len(formats') \in Nat /\ Len(formats) \in Nat
    /\ Len(formats') >= Len(formats)
    /\ \A n \in 1..Len(formats) : formats'[n] = formats[n]
<1> SUFFICES ASSUME RegistryInv, RegistryStep
             PROVE  /\ Len(formats') \in Nat /\ Len(formats) \in Nat
                    /\ Len(formats') >= Len(formats)
                    /\ \A n \in 1..Len(formats) : formats'[n] = formats[n]
  OBVIOUS
<1>1. formats \in Seq([name : Names, schema : Schemas]) /\ Len(formats) \in Nat
  BY DEF RegistryInv, RegistryTypeOK
<1>2. CASE formats' = formats
  BY <1>1, <1>2
<1>3. ASSUME NEW l \in Libraries, Added(l) 
      PROVE  /\ Len(formats') = Len(formats) + 1
             /\ \A n \in 1..Len(formats) : formats'[n] = formats[n]
  BY <1>1, <1>3, EntryType, AppendNth DEF Added
<1>4. CASE \E l \in Libraries : Added(l)
  BY <1>1, <1>3, <1>4
<1>5. QED
  BY <1>2, <1>4 DEF RegistryStep, registry, Refused, Found

LEMMA RegistryIsKept == RegistryInv /\ RegistryStep => RegistryInv'
<1> SUFFICES ASSUME RegistryInv, RegistryStep PROVE RegistryInv'
  OBVIOUS
<1>0. /\ formats \in Seq([name : Names, schema : Schemas])
      /\ Len(formats) \in Nat /\ Len(formats) <= MaxFormats
      /\ id \in [Libraries -> 0..MaxFormats] /\ MaxFormats \in Nat
      /\ \A l \in Libraries : id[l] # 0 => /\ id[l] \in 1..Len(formats)
                                         /\ formats[id[l]] = Entry(l)
                                         /\ NameOf[l] \notin LongNames
      /\ \A m, n \in 1..Len(formats) : formats[m].name = formats[n].name => m = n
  BY FramesAssumption DEF RegistryInv, RegistryTypeOK, OneNameOneId, Numbers
<1>1. CASE UNCHANGED registry
  BY <1>1 DEF registry, RegistryInv, RegistryTypeOK, OneNameOneId, Numbers
<1>2. ASSUME NEW l \in Libraries, Refused(l) PROVE RegistryInv'
  BY <1>0, <1>2
     DEF Refused, RegistryInv, RegistryTypeOK, OneNameOneId, Numbers
<1>3. ASSUME NEW l \in Libraries, Found(l) PROVE RegistryInv'
  <2>1. PICK n \in Numbers : /\ formats[n] = Entry(l)
                             /\ id' = [id EXCEPT ![l] = n]
    BY <1>3 DEF Found
  <2>2. formats' = formats /\ NameOf[l] \notin LongNames
        /\ n \in 1..Len(formats) /\ n \in 0..MaxFormats
    BY <1>0, <1>3 DEF Found, Numbers
  <2>3. id' \in [Libraries -> 0..MaxFormats]
    BY <1>0, <2>1, <2>2
  <2>4. \A k \in Libraries : id'[k] = IF k = l THEN n ELSE id[k]
    BY <1>0, <2>1
  <2>5. ASSUME NEW k \in Libraries, id'[k] # 0
        PROVE /\ id'[k] \in 1..Len(formats')
              /\ formats'[id'[k]] = Entry(k)
              /\ NameOf[k] \notin LongNames
    BY <1>0, <2>1, <2>2, <2>4, <2>5
  <2>6. QED
    BY <1>0, <2>2, <2>3, <2>5
       DEF RegistryInv, RegistryTypeOK, OneNameOneId, Numbers, Entry
<1>4. ASSUME NEW l \in Libraries, Added(l) PROVE RegistryInv'
  <2> DEFINE n == Len(formats) + 1
  <2>1. /\ formats' \in Seq([name : Names, schema : Schemas])
        /\ Len(formats') = n /\ n \in 1..MaxFormats
        /\ \A i \in 1..Len(formats) : formats'[i] = formats[i]
        /\ formats'[n] = Entry(l)
        /\ id' = [id EXCEPT ![l] = n]
    BY <1>0, <1>4, EntryType, AppendNth DEF Added
  <2>2. /\ NameOf[l] \notin LongNames
        /\ \A i \in 1..Len(formats) : formats[i].name # NameOf[l]
    BY <1>4 DEF Added, Known, Numbers
  <2>3. Entry(l).name = NameOf[l]
    BY DEF Entry
  <2> HIDE DEF n
  <2>4. id' \in [Libraries -> 0..MaxFormats]
    BY <1>0, <2>1
  <2>5. \A k \in Libraries : id'[k] = IF k = l THEN n ELSE id[k]
    BY <1>0, <2>1
  <2>6. ASSUME NEW k \in Libraries, id'[k] # 0
        PROVE /\ id'[k] \in 1..Len(formats')
              /\ formats'[id'[k]] = Entry(k)
              /\ NameOf[k] \notin LongNames
    BY <1>0, <2>1, <2>2, <2>5, <2>6 DEF n
  <2>7. ASSUME NEW i \in 1..n, NEW j \in 1..n,
               formats'[i].name = formats'[j].name
        PROVE i = j
    <3>1. CASE i = n /\ j = n
      BY <3>1
    <3>2. CASE i = n /\ j # n
      <4>1. j \in 1..Len(formats)
        BY <1>0, <3>2 DEF n
      <4>2. QED
        BY <2>1, <2>2, <2>3, <2>7, <3>2, <4>1
    <3>3. CASE i # n /\ j = n
      <4>1. i \in 1..Len(formats)
        BY <1>0, <3>3 DEF n
      <4>2. QED
        BY <2>1, <2>2, <2>3, <2>7, <3>3, <4>1
    <3>4. CASE i # n /\ j # n
      <4>1. i \in 1..Len(formats) /\ j \in 1..Len(formats)
        BY <1>0, <3>4 DEF n
      <4>2. formats[i].name = formats[j].name
        BY <2>1, <2>7, <4>1
      <4>3. QED
        BY <1>0, <4>1, <4>2
    <3>5. QED
      BY <3>1, <3>2, <3>3, <3>4
  <2>8. Len(formats') <= MaxFormats
    BY <1>0, <2>1
  <2>9. QED
    BY <2>1, <2>4, <2>6, <2>7, <2>8
       DEF RegistryInv, RegistryTypeOK, OneNameOneId, Numbers, Entry
<1>5. QED
  BY <1>1, <1>2, <1>3, <1>4 DEF RegistryStep

LEMMA RegistryInitially == Init => RegistryInv
<1>1. Init => /\ formats \in Seq([name : Names, schema : Schemas])
              /\ Len(formats) = 0
  BY DEF Init
<1>2. QED
  BY <1>1, FramesAssumption
     DEF Init, RegistryInv, RegistryTypeOK, OneNameOneId, Numbers

\* A number means one format for everybody who holds it.
THEOREM NumbersAreUnambiguous == Spec => []OneNameOneId
<1>1. RegistryInv => OneNameOneId
  BY DEF RegistryInv
<1>2. QED
  BY <1>1, RegistryInitially, StepsOfTheRegistry, RegistryIsKept, PTL DEF Spec

\* A number given stands for as long as the host lives.
THEOREM NumbersStand == Spec => AnswerStands
<1> DEFINE Stand == \A l \in Libraries : id[l] # 0 => id'[l] = id[l]
<1>1. RegistryInv /\ RegistryStep => Stand
  <2> SUFFICES ASSUME RegistryInv, RegistryStep,
                      NEW l \in Libraries, id[l] # 0
               PROVE  id'[l] = id[l]
    OBVIOUS
  <2>0. /\ id \in [Libraries -> 0..MaxFormats]
        /\ id[l] \in Numbers /\ formats[id[l]] = Entry(l)
        /\ \A m, n \in Numbers : formats[m].name = formats[n].name => m = n
    BY DEF RegistryInv, RegistryTypeOK, OneNameOneId
  <2>1. CASE UNCHANGED registry
    BY <2>1 DEF registry
  <2>2. ASSUME NEW k \in Libraries, id[k] = 0, Refused(k) PROVE id'[l] = id[l]
    BY <2>0, <2>2 DEF Refused
  <2>3. ASSUME NEW k \in Libraries, Found(k) PROVE id'[l] = id[l]
    BY <2>0, <2>3 DEF Found
  <2>4. ASSUME NEW k \in Libraries, Added(k) PROVE id'[l] = id[l]
    <3>1. k # l
      BY <2>0, <2>4 DEF Added, Known, Entry
    <3>2. QED
      BY <2>0, <2>4, <3>1 DEF Added
  <2>5. QED
    BY <2>1, <2>2, <2>3, <2>4 DEF RegistryStep
<1>2. RegistryInv /\ [Next]_vars => [Stand]_vars
  BY <1>1, StepsOfTheRegistry
<1>3. QED
  BY <1>2, RegistryInitially, StepsOfTheRegistry, RegistryIsKept, PTL
     DEF Spec, AnswerStands

-----------------------------------------------------------------------------
(* Frames. What a frame was written in is in the registry, and stays       *)
(* there: this holds of the frames held as of the one handed over last.    *)

Meant(f) ==
  f.from \in Libraries =>
    f.format \in Numbers /\ formats[f.format] = Entry(f.from)

TrafficTypeOK ==
  /\ inDevice \in {"yes", "no"}
  /\ {receiver, frameDevice} \subseteq {"bound", "none"}
  /\ held \in Seq(Carried) /\ Len(held) <= Capacity
  /\ diagCount \in Nat /\ turnedAway \in Nat
  /\ sent \in Nat /\ accepted \in Nat /\ handed \in Nat /\ unheard \in Nat
  /\ last \in Carried

FramesInv ==
  /\ RegistryInv /\ TrafficTypeOK
  /\ Meant(last)
  /\ \A i \in 1..Len(held) : Meant(held[i])
  /\ EveryFrameAccounted

LEMMA FramesInitially == Init => FramesInv
<1> SUFFICES ASSUME Init PROVE FramesInv
  OBVIOUS
<1>1. NoFrame \in Carried
  BY FramesAssumption DEF NoFrame, Carried, Frame
<1>2. Meant(last)
  BY FramesAssumption DEF Init, NoFrame, Meant
<1>3. held \in Seq(Carried) /\ Len(held) = 0
  BY DEF Init
<1>4. QED
  BY <1>1, <1>2, <1>3, RegistryInitially, FramesAssumption
     DEF Init, FramesInv, TrafficTypeOK, EveryFrameAccounted

\* What was meant is not changed by what libraries ask for later.
LEMMA MeaningStands ==
  ASSUME RegistryInv, RegistryStep, NEW f, Meant(f) PROVE Meant(f)'
<1> USE RegistryGrows DEF Meant, Numbers
<1>1. QED
  BY DEF Entry

\* What the host accepts of a library was meant by it.
LEMMA AcceptedIsMeant ==
  ASSUME RegistryInv, NEW f \in Frame, Acceptable(f), Sends(f)
  PROVE  f \in Carried /\ Meant(f)
<1>1. f \in Carried
  BY DEF Acceptable, Carried
<1>2. ASSUME f.from \in Libraries PROVE formats[f.format] = Entry(f.from)
  <2>1. f.format = id[f.from] /\ f.format \in 1..Len(formats)
    BY <1>2 DEF Sends, Acceptable, Numbers
  <2>2. id[f.from] # 0 => formats[id[f.from]] = Entry(f.from)
    BY <1>2 DEF RegistryInv, OneNameOneId
  <2>3. Len(formats) \in Nat
    BY DEF RegistryInv, RegistryTypeOK
  <2>4. QED
    BY <2>1, <2>2, <2>3
<1>3. QED
  BY <1>1, <1>2 DEF Meant, Acceptable

\* Every frame that waits was meant.
MeantHeld == \A i \in 1..Len(held) : Meant(held[i])

LEMMA FramesStep == FramesInv /\ [Next]_vars => FramesInv'
<1> SUFFICES ASSUME FramesInv, [Next]_vars PROVE FramesInv'
  OBVIOUS
<1>0. /\ RegistryInv /\ RegistryStep /\ RegistryInv'
      /\ MaxFormats \in Nat /\ Capacity \in Nat
      /\ Len(held) \in Nat /\ held \in Seq(Carried)
  BY StepsOfTheRegistry, RegistryIsKept, FramesAssumption
     DEF FramesInv, TrafficTypeOK
<1> DEFINE Good ==
      TrafficTypeOK /\ Meant(last) /\ MeantHeld /\ EveryFrameAccounted
<1>a. SUFFICES Good'
  BY <1>0 DEF FramesInv, MeantHeld
<1>b. Good
  BY DEF FramesInv, MeantHeld
\* A frame that was meant goes on being meant.
<1>c. /\ last' = last => Meant(last)'
      /\ held' = held => MeantHeld'
  <2>1. Meant(last) /\ \A i \in 1..Len(held) : Meant(held[i])
    BY <1>b DEF MeantHeld
  <2>2. ASSUME NEW f, Meant(f)
        PROVE  f.from \in Libraries =>
                 f.format \in Numbers' /\ formats'[f.format] = Entry(f.from)
    BY <1>0, <2>2, MeaningStands DEF Meant, Entry
  <2>3. QED
    BY <2>1, <2>2 DEF Meant, MeantHeld, Entry
<1>1. ASSUME NEW l \in Libraries, RegisterFormat(l) PROVE Good'
  <2>1. /\ UNCHANGED <<inDevice, held, wiring, log>>
        /\ \/ UNCHANGED <<turnedAway, diagCount>>
           \/ turnedAway' = turnedAway + 1 /\ diagCount' = diagCount + 1
    BY <1>1 DEF RegisterFormat, Register, TurnAway, Give
  <2>2. QED
    BY <1>0, <1>b, <1>c, <2>1
       DEF TrafficTypeOK, EveryFrameAccounted, log, wiring
\* What a step does that leaves the registry alone.
<1> DEFINE Grows(f) ==
      /\ held' \in Seq(Carried) /\ Len(held') = Len(held) + 1
      /\ \A i \in 1..Len(held) : held'[i] = held[i]
      /\ held'[Len(held) + 1] = f
<1>d. ASSUME UNCHANGED registry, NEW f, Meant(f) PROVE Meant(f)'
  BY <1>d DEF Meant, Numbers, registry, Entry
<1>e. ASSUME NEW f \in Carried, Hold(f), UNCHANGED registry, Meant(f)
      PROVE  /\ held' \in Seq(Carried) /\ Len(held') <= Capacity /\ MeantHeld'
             /\ diagCount' \in Nat
             /\ Len(held') + diagCount' = Len(held) + diagCount + 1
  <2>0. diagCount \in Nat /\ Len(held) <= Capacity
    BY <1>b DEF TrafficTypeOK
  <2>1. CASE Len(held) = Capacity /\ diagCount' = diagCount + 1 /\ held' = held
    BY <1>0, <1>b, <1>c, <2>0, <2>1
  <2>2. CASE /\ Len(held) < Capacity /\ held' = Append(held, f)
             /\ diagCount' = diagCount
    <3>1. Grows(f)
      BY <1>0, <2>2, AppendNth
    <3>2. ASSUME NEW i \in 1..Len(held') PROVE Meant(held[i])'
      <4>1. Meant(held'[i])
        BY <1>0, <1>b, <1>e, <3>1 DEF MeantHeld
      <4>2. QED
        BY <1>e, <4>1 DEF Meant, Numbers, registry, Entry
    <3>3. MeantHeld'
      BY <3>2 DEF MeantHeld
    <3>4. Len(held') = Len(held) + 1 /\ held' \in Seq(Carried)
      BY <3>1
    <3>5. Len(held') <= Capacity /\ diagCount' \in Nat
          /\ Len(held') + diagCount' = Len(held) + diagCount + 1
      BY <1>0, <2>0, <2>2, <3>4
    <3>6. QED
      BY <3>3, <3>4, <3>5
  <2>3. QED
    BY <1>e, <2>1, <2>2 DEF Hold
<1>2. ASSUME NEW f \in Frame, FrameTx(f) PROVE Good'
  <2>0. UNCHANGED <<registry, receiver, frameDevice, turnedAway>> /\ sent' = sent + 1
        /\ Sends(f)
    BY <1>2 DEF FrameTx, Sends, wiring
  <2>1. CASE Refuse
    BY <1>0, <1>b, <1>c, <2>0, <2>1 
       DEF Refuse, TrafficTypeOK, EveryFrameAccounted
  <2>2. CASE /\ Acceptable(f) /\ HandOver(f)
             /\ inDevice' = "yes" /\ accepted' = accepted + 1
             /\ UNCHANGED <<held, diagCount, unheard>>
    <3>1. f \in Carried /\ Meant(f)
      BY <1>0, <2>0, <2>2, AcceptedIsMeant
    <3>2. Meant(last)' /\ last' \in Carried
      BY <2>0, <2>2, <3>1 DEF HandOver, Meant, Numbers, registry, Entry
    <3>3. QED
      BY <1>0, <1>b, <1>c, <2>0, <2>2, <3>2
         DEF HandOver, TrafficTypeOK, EveryFrameAccounted
  <2>3. CASE /\ accepted' = accepted + 1 /\ unheard' = unheard + 1
             /\ UNCHANGED <<inDevice, held, diagCount, handed, last>>
    BY <1>0, <1>b, <1>c, <2>0, <2>3 DEF TrafficTypeOK, EveryFrameAccounted
  <2>4. QED
    BY <1>2, <2>1, <2>2, <2>3 DEF FrameTx
<1>3. ASSUME NEW f \in Frame, FrameRx(f) PROVE Good'
  <2>0. UNCHANGED <<registry, receiver, frameDevice, turnedAway>> /\ sent' = sent + 1
        /\ Sends(f)
    BY <1>3 DEF FrameRx, Sends, wiring
  <2>1. CASE Refuse
    BY <1>0, <1>b, <1>c, <2>0, <2>1
       DEF Refuse, TrafficTypeOK, EveryFrameAccounted
  <2>2. CASE ~ Refuse
    <3>0. /\ Acceptable(f) /\ accepted' = accepted + 1 /\ inDevice' = inDevice
          /\ f \in Carried /\ Meant(f)
      BY <1>0, <1>3, <2>0, <2>2, AcceptedIsMeant DEF FrameRx
    <3>1. CASE /\ unheard' = unheard + 1
               /\ UNCHANGED <<held, diagCount, handed, last>>
      BY <1>0, <1>b, <1>c, <2>0, <3>0, <3>1
         DEF TrafficTypeOK, EveryFrameAccounted
    <3>2. CASE Hold(f) /\ UNCHANGED <<handed, unheard, last>>
      <4>1. /\ held' \in Seq(Carried) /\ Len(held') <= Capacity /\ MeantHeld'
            /\ diagCount' \in Nat /\ Len(held') \in Nat
            /\ Len(held') + diagCount' = Len(held) + diagCount + 1
        BY <1>e, <2>0, <3>0, <3>2
      <4>2. QED
        BY <1>0, <1>b, <1>c, <2>0, <3>0, <3>2, <4>1
           DEF TrafficTypeOK, EveryFrameAccounted
    <3>3. CASE HandOver(f) /\ UNCHANGED <<held, diagCount, unheard>>
      <4>1. Meant(last)' /\ last' \in Carried
        BY <2>0, <3>0, <3>3 DEF HandOver, Meant, Numbers, registry, Entry
      <4>2. QED
        BY <1>0, <1>b, <1>c, <2>0, <3>0, <3>3, <4>1
           DEF HandOver, TrafficTypeOK, EveryFrameAccounted
    <3>4. QED
      BY <1>3, <2>2, <3>1, <3>2, <3>3 DEF FrameRx
  <2>3. QED
    BY <2>1, <2>2
<1>4. CASE EnterDevice \/ LeaveDevice \/ UNCHANGED vars
  BY <1>0, <1>b, <1>c, <1>4
     DEF EnterDevice, LeaveDevice, vars, wiring, log, TrafficTypeOK,
         EveryFrameAccounted
<1>5. ASSUME NEW b \in {"bound", "none"}, SetFrameReceiver(b) \/ BindFrameDevice(b)
      PROVE  Good'
  BY <1>0, <1>b, <1>c, <1>5
     DEF SetFrameReceiver, BindFrameDevice, log, TrafficTypeOK, EveryFrameAccounted
<1>6. CASE Deliver
  <2>0. /\ UNCHANGED <<registry, inDevice, receiver, frameDevice, diagCount,
                       turnedAway, sent, accepted>>
        /\ held # <<>> /\ held' = Tail(held)
    BY <1>6 DEF Deliver, wiring
  <2>1. /\ held' \in Seq(Carried) /\ Len(held') = Len(held) - 1
        /\ Head(held) \in Carried /\ Head(held) = held[1]
        /\ Len(held) > 0
        /\ \A i \in 1..Len(held') : held'[i] = held[i + 1]
    BY <1>0, <2>0, TailNth
  <2>2. MeantHeld'
    <3>1. ASSUME NEW i \in 1..Len(held') PROVE Meant(held[i])'
      <4>1. i + 1 \in 1..Len(held)
        BY <1>0, <2>1
      <4>2. Meant(held'[i])
        BY <1>b, <2>1, <4>1 DEF MeantHeld
      <4>3. QED
        BY <2>0, <4>2 DEF Meant, Numbers, registry, Entry
    <3>2. QED
      BY <3>1 DEF MeantHeld
  <2>3. Meant(Head(held))
    BY <1>0, <1>b, <2>1 DEF MeantHeld
  <2>4. CASE HandOver(Head(held)) /\ UNCHANGED unheard
    <3>1. Meant(last)' /\ last' \in Carried
      BY <2>0, <2>1, <2>3, <2>4
         DEF HandOver, Meant, Numbers, registry, Entry
    <3>2. QED
      BY <1>0, <1>b, <2>0, <2>1, <2>2, <2>4, <3>1
         DEF HandOver, TrafficTypeOK, EveryFrameAccounted
  <2>5. CASE unheard' = unheard + 1 /\ UNCHANGED <<handed, last>>
    BY <1>0, <1>b, <1>c, <2>0, <2>1, <2>2, <2>5
       DEF TrafficTypeOK, EveryFrameAccounted
  <2>6. QED
    BY <1>6, <2>4, <2>5 DEF Deliver
<1>7. CASE RunBegin
  <2>1. held' \in Seq(Carried) /\ Len(held') = 0
    BY <1>7 DEF RunBegin
  <2>2. MeantHeld'
    BY <2>1 DEF MeantHeld
  <2>3. QED
    BY <1>0, <1>b, <1>c, <1>7, <2>1, <2>2
       DEF RunBegin, wiring, TrafficTypeOK, EveryFrameAccounted
<1>8. QED
  BY <1>1, <1>2, <1>3, <1>4, <1>5, <1>6, <1>7 DEF Next

\* The types of everything, for any constants.
THEOREM FramesTypeCorrect == Spec => []TypeOK
<1>1. FramesInv => TypeOK
  BY DEF FramesInv, RegistryInv, RegistryTypeOK, TrafficTypeOK, TypeOK
<1>2. QED
  BY <1>1, FramesInitially, FramesStep, PTL DEF Spec

\* A frame is read in the format it was written in.
THEOREM FramesAreUnderstood == Spec => []UnderstoodAsSent
<1>1. FramesInv => UnderstoodAsSent
  <2> SUFFICES ASSUME FramesInv, last.from \in Libraries,
                      NEW l \in Libraries, id[l] = last.format
               PROVE  Entry(l) = Entry(last.from)
    BY DEF UnderstoodAsSent
  <2>1. /\ last.format \in 1..Len(formats)
        /\ formats[last.format] = Entry(last.from)
    BY DEF FramesInv, Meant, Numbers
  <2>2. id[l] # 0
    BY <2>1
  <2>3. formats[id[l]] = Entry(l)
    BY <2>2 DEF FramesInv, RegistryInv, OneNameOneId
  <2>4. QED
    BY <2>1, <2>3
<1>2. QED
  BY <1>1, FramesInitially, FramesStep, PTL DEF Spec

\* No frame is lost in silence, whatever room there is to hold them.
THEOREM FramesAreAccounted == Spec => []EveryFrameAccounted
<1>1. FramesInv => EveryFrameAccounted
  BY DEF FramesInv
<1>2. QED
  BY <1>1, FramesInitially, FramesStep, PTL DEF Spec
=============================================================================
