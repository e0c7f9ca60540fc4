------------------------------- MODULE Sonic -------------------------------
(***************************************************************************)
(* The ultrasonic ranger of the catalog                                    *)
(* (src/devices/src/unit_sonic_model.cpp): a trigger is answered by an     *)
(* echo that is as wide as the range.                                      *)
(***************************************************************************)
EXTENDS Environment

CONSTANTS
  SonicDelayUs,   \* kStartDelayUs
  SonicWidths     \* the widths of an echo: ranges times kUsPerMm

ASSUME SonicAssumption ==
  /\ SonicDelayUs \in Nat \ {0}
  /\ SonicWidths \subseteq Nat /\ 0 \in SonicWidths

VARIABLES
  sonicPhase, sonicDue, sonicWidth,  \* phase_, dueUs_, rangeMm_
  sonicRefused,                      \* history: the last wake was refused
  sonicRose, sonicMeant              \* history: when the echo rose, and how
                                     \* wide it was to be

sonic == <<sonicPhase, sonicDue, sonicWidth, sonicRefused, sonicRose,
           sonicMeant>>

SonicTypeOK ==
  /\ sonicPhase \in {"idle", "waiting", "echoing"}
  /\ sonicDue \in Nat /\ sonicRose \in Nat
  /\ sonicWidth \in SonicWidths /\ sonicMeant \in SonicWidths
  /\ sonicRefused \in Flag

SonicInit ==
  /\ sonicPhase = "idle" /\ sonicDue = 0 /\ sonicWidth = 0
  /\ sonicRefused = "no" /\ sonicRose = 0 /\ sonicMeant = 0

SonicReset ==
  /\ Repowers
  /\ sonicPhase' = "idle" /\ sonicDue' = 0 /\ sonicWidth' = 0
  /\ sonicRefused' = "no" /\ sonicRose' = 0 /\ sonicMeant' = 0

\* channelWrite: something moves, also while an echo is under way.
SonicRange(w) ==
  /\ sonicWidth' = w
  /\ UNCHANGED <<environment, sonicPhase, sonicDue, sonicRefused, sonicRose,
                 sonicMeant>>

\* lineIn: a trigger during a measurement is dropped with a note.
SonicTrigger ==
  /\ sonicPhase = "idle"
  /\ sonicPhase' = "waiting" /\ sonicDue' = now + SonicDelayUs
  /\ UNCHANGED <<now, level, sonicWidth, sonicRose, sonicMeant>>
  /\ Asks(sonicDue', owed, sonicRefused)

\* Mutated form: the echo ends where it would have had it begun in time.
SonicRiseOnSchedule ==
  /\ sonicPhase = "waiting" /\ now' >= sonicDue
  /\ sonicPhase' = "echoing" /\ sonicDue' = sonicDue + sonicWidth
  /\ Asks(sonicDue', StillOwed, sonicRefused)
  /\ sonicRose' = now' /\ sonicMeant' = sonicWidth

\* advanceTo(now'), one edge at a time: the width counts from the moment the
\* echo rose.
SonicRise ==
  /\ sonicPhase = "waiting" /\ now' >= sonicDue
  /\ sonicPhase' = "echoing" /\ sonicDue' = now' + sonicWidth
  /\ Asks(sonicDue', StillOwed, sonicRefused)
  /\ sonicRose' = now' /\ sonicMeant' = sonicWidth

SonicFall ==
  /\ sonicPhase = "echoing" /\ now' >= sonicDue
  /\ sonicPhase' = "idle"
  /\ owed' = StillOwed
  /\ UNCHANGED <<sonicDue, sonicRefused, sonicRose, sonicMeant>>

SonicAdvance ==
  /\ Serves
  /\ SonicRise \/ SonicFall
  /\ UNCHANGED sonicWidth

SonicIdle ==
  /\ PassesBy \/ (Advances /\ (sonicPhase = "idle" \/ now' < sonicDue))
  /\ UNCHANGED sonic

SonicNext ==
  \/ \E w \in SonicWidths : SonicRange(w)
  \/ SonicTrigger \/ SonicAdvance \/ SonicIdle \/ SonicReset

SonicSpec ==
  EnvironmentInit /\ SonicInit /\ [][SonicNext]_<<environment, sonic>>

-----------------------------------------------------------------------------
(* Properties.                                                             *)

\* An echo is as wide as the range was when it rose, whenever that came to
\* be and whatever moves meanwhile; wider only when the wake of its end was
\* refused or waited past (lineIn, channelWrite, advanceTo).
EchoIsTheRange ==
  [][sonicPhase = "echoing" /\ sonicPhase' = "idle" /\ ~ SonicReset =>
       OnTime(sonicRose + sonicMeant, sonicRefused)]_<<environment, sonic>>

\* The edge that is to come is owed its wake.
SonicIsOwed == sonicPhase # "idle" => Expected(sonicDue, sonicRefused)
=============================================================================
