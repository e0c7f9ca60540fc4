------------------------------- MODULE Catalog -------------------------------
(***************************************************************************)
(* The parts of the catalog (src/devices/src), each in an environment of   *)
(* which it knows the time contract: one of them is on the bench. Parts    *)
(* share no state, and what one does reaches another only through the      *)
(* wires, which WireSensor and Frames model.                               *)
(***************************************************************************)
EXTENDS Flash, Imu, Rtc, Sonic, Pir, SdCard, Sht30, Qmp6988, Tape, Chunk, Ir,
        Lora, Uwb, Modbus, Gps, Modem

VARIABLE part   \* the one that is on the bench

Parts == {"flash", "imu", "rtc", "sonic", "pir", "sd", "sht", "qmp", "tape",
          "chunk", "ir", "lora", "uwb", "modbus", "gps", "modem"}

CatalogInit ==
  /\ part \in Parts
  /\ FlashInit /\ ImuInit /\ RtcInit /\ SonicInit /\ PirInit /\ SdInit
  /\ ShtInit /\ QmpInit /\ TapeInit /\ ChunkInit /\ IrInit /\ LoraInit
  /\ UwbInit /\ ModbusInit /\ GpsInit /\ ModemInit

radios == <<chunk, ir, lora, uwb>>
serials == <<modbus, gps, modem>>
sensors == <<imu, rtc, sonic, pir, sht, qmp>>
stores == <<flash, sd, tape>>

StoreNext ==
  /\ \/ part = "flash" /\ FlashNext /\ UNCHANGED <<sd, tape>>
     \/ part = "sd" /\ SdNext /\ UNCHANGED <<flash, tape>>
     \/ part = "tape" /\ TapeNext /\ UNCHANGED <<flash, sd>>
  /\ UNCHANGED <<radios, serials, sensors, part>>

SensorNext ==
  /\ \/ part = "imu" /\ ImuNext /\ UNCHANGED <<rtc, sonic, pir, sht, qmp>>
     \/ part = "rtc" /\ RtcNext /\ UNCHANGED <<imu, sonic, pir, sht, qmp>>
     \/ part = "sonic" /\ SonicNext /\ UNCHANGED <<imu, rtc, pir, sht, qmp>>
     \/ part = "pir" /\ PirNext /\ UNCHANGED <<imu, rtc, sonic, sht, qmp>>
     \/ part = "sht" /\ ShtNext /\ UNCHANGED <<imu, rtc, sonic, pir, qmp>>
     \/ part = "qmp" /\ QmpNext /\ UNCHANGED <<imu, rtc, sonic, pir, sht>>
  /\ UNCHANGED <<radios, serials, stores, part>>

RadioNext ==
  /\ \/ part = "chunk" /\ ChunkNext /\ UNCHANGED <<ir, lora, uwb>>
     \/ part = "ir" /\ IrNext /\ UNCHANGED <<chunk, lora, uwb>>
     \/ part = "lora" /\ LoraNext /\ UNCHANGED <<chunk, ir, uwb>>
     \/ part = "uwb" /\ UwbNext /\ UNCHANGED <<chunk, ir, lora>>
  /\ UNCHANGED <<serials, sensors, stores, part>>

SerialNext ==
  /\ \/ part = "modbus" /\ ModbusNext /\ UNCHANGED <<gps, modem>>
     \/ part = "gps" /\ GpsNextStep /\ UNCHANGED <<modbus, modem>>
     \/ part = "modem" /\ ModemNext /\ UNCHANGED <<modbus, gps>>
  /\ UNCHANGED <<radios, sensors, stores, part>>

CatalogNext == StoreNext \/ SensorNext \/ RadioNext \/ SerialNext
catalogVars == <<environment, radios, serials, sensors, stores, part>>
CatalogSpec == CatalogInit /\ [][CatalogNext]_catalogVars

-----------------------------------------------------------------------------
(* Properties of the parts together.                                       *)

\* Every variable of every part has its type.
CatalogTypeOK ==
  /\ FlashTypeOK /\ ImuTypeOK /\ RtcTypeOK /\ SonicTypeOK /\ PirTypeOK
  /\ SdTypeOK /\ ShtTypeOK /\ QmpTypeOK /\ TapeTypeOK /\ ChunkTypeOK
  /\ IrTypeOK /\ LoraTypeOK /\ UwbTypeOK /\ ModbusTypeOK /\ GpsTypeOK
  /\ ModemTypeOK /\ part \in Parts

\* Whatever a part has yet to do by itself is owed the wake at that moment:
\* re-arming, overwriting, cancelling and resetting, in any order, never
\* leave a part waiting for a moment that nobody will tell it of. Only a
\* wake that was refused, which no part retries, is missed; the modem, which
\* asks for none, is left out.
DueIsOwed ==
  /\ WritingIsOwed /\ ImuIsOwed /\ RtcIsOwed /\ SonicIsOwed /\ PirIsOwed
  /\ SdIsOwed /\ QmpIsOwed /\ TapeIsOwed /\ ChunkIsOwed /\ IrIsOwed
  /\ LoraIsOwed /\ UwbIsOwed /\ ModbusIsOwed /\ GpsIsOwed

\* A part that works on its own neither skips a turn nor takes one twice nor
\* shifts those that follow: however late an advance comes, it makes up for
\* all that fell due, on the grid that was begun.
KeepsSchedule == ImuKeepsGrid /\ IrRepeatsAsAsked /\ QmpKeepsSchedule

\* What is taken for a message is one message and the whole of it, whether
\* it came in pieces or its end is a silence, but for a first piece that was
\* lost and a silence that passed without its advance.
MessagesWhole == ChunkWhole /\ ModbusFramesBySilence

\* What a part has begun ends when it is to: not before, whatever the
\* application and the world do meanwhile, and later only when its wake was
\* refused or waited past. So no two anchors answer one poll at one moment.
EndsOnTime ==
  /\ EchoIsTheRange /\ PirHolds /\ LoraSendsItsTime /\ ModbusWaitsForSilence
  /\ ModemAnswersLast /\ RtcRingsOnTime /\ UwbOneAtATime
=============================================================================
