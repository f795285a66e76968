----------------------------- MODULE PlcPayload -----------------------------
(***************************************************************************)
(* What becomes of the readings of one frame: the words the gateway packs  *)
(* at each step of a round (MakeSensorPayloadData and MakeSensorValue of   *)
(* plccomm.c), the bytes it hands to the network manager, and the readings *)
(* the server publishes when it cuts those bytes into chunks of 27 and     *)
(* looks at each of them (convert_hex2decimal and config_fac_msg).  Redis  *)
(* may list any machines; their sensors have codes of one byte, 0001 to    *)
(* 0011 in the list the server itself stores.                              *)
(*                                                                         *)
(* A frame is its 19 words of four bytes, the least significant first.     *)
(* Bytes of a payload are numbers; a value is its four bytes, the most     *)
(* significant first.                                                      *)
(***************************************************************************)
EXTENDS Naturals, Sequences, SequencesExt

CONSTANTS Devices,   \* the devices the gateway may be configured for: a type,
                     \* "TS" or "TK", and the number in the identity
          Frames,    \* the frames the PLC may send
          Catalogue  \* facilities_info: pairs of a machine, the four bytes of its
                     \* identity, and the code of one of its sensors

Words == 1..19
Bytes == 0..255
DevNums == 0..9999
Identities == [type : {"TS", "TK"}, num : DevNums]

ASSUME PayloadConstantsOK ==
  /\ Devices \subseteq Identities
  /\ \A f \in Frames : f \in [Words -> [1..4 -> Bytes]]
  /\ \A entry \in Catalogue : entry \in [1..4 -> Bytes] \X (1..255)

VARIABLES
  device,           \* the manufacture record of the configuration
  frame,            \* the words in rxBuf
  sensorCodeCount,  \* sensorCodeCount
  made,             \* the payload of the last step in txBuf
  sent,             \* what SendData was given of it
  published         \* what the server published of that

vars == <<device, frame, sensorCodeCount, made, sent, published>>

STX == 2
ETX == 3
PV == <<80, 86>>
Letters == <<84, IF device.type = "TS" THEN 83 ELSE 75>>

\* HTONS of a number kept in a little-endian machine.
Short(n) == <<n \div 256, n % 256>>
DevInfo == <<Letters[1], Letters[2], Short(device.num)[1], Short(device.num)[2]>>

-----------------------------------------------------------------------------
(* The gateway                                                             *)

\* The codes of the words of a frame, 0 for a word that is stepped over.
Codes == IF device.type = "TS"
         THEN <<1, 2, 3, 4, 5, 6, 0, 0, 0, 0, 0, 0, 7, 8, 9, 10, 0, 0, 11>>
         ELSE [w \in Words |-> w]
LastCode == IF device.type = "TS" THEN 11 ELSE 19
PressCodes == IF device.type = "TS" THEN {7, 8} ELSE {13, 14}

Decimals(code) == IF code \in PressCodes THEN 3 ELSE 1

\* MakeSensorValue: one packet.  HTONL turns a word round.
PacketLen == 19
ValueNotTurned(word) == word
Value(word) == Reverse(word)
MakeSensorValue(code, word) ==
  LET v == Value(word)
  IN <<STX, 0, 0, 0, 0, DevInfo[1], DevInfo[2], DevInfo[3], DevInfo[4],
       Short(code)[1], Short(code)[2], PV[1], PV[2], v[1], v[2], v[3], v[4],
       Decimals(code), ETX>>

\* The words packed at a step: the one it is for; and a TK device packs those
\* from 7 on at every step.
PackedWords(step) ==
  IF device.type = "TS" THEN <<CHOOSE w \in Words : Codes[w] = step>>
  ELSE (IF step < 7 THEN <<step>> ELSE <<>>) \o [i \in 1..13 |-> i + 6]

\* MakeSensorPayloadData: their packets, one after the other.
MakeSensorPayloadData(f, step) ==
  LET words   == PackedWords(step)
      packets == [i \in 1..Len(words) |-> MakeSensorValue(Codes[words[i]], f[words[i]])]
  IN [b \in 1..(PacketLen * Len(words)) |->
        packets[((b - 1) \div PacketLen) + 1][((b - 1) % PacketLen) + 1]]

\* The length is kept in eight bits.
Handed(payload) == SubSeq(payload, 1, Len(payload) % 256)

-----------------------------------------------------------------------------
(* The server                                                              *)

\* What sock_recv returns, one call after the other.
Chunks(bytes) ==
  [k \in 1..((Len(bytes) + 26) \div 27) |->
     SubSeq(bytes, 27 * (k - 1) + 1,
            IF 27 * k < Len(bytes) THEN 27 * k ELSE Len(bytes))]

\* convert_hex2decimal accepts it; an index past the end is an exception.
Accepts(chunk) ==
  /\ Len(chunk) >= 18 /\ chunk[1] = STX
  /\ chunk[17] = ETX \/ (Len(chunk) >= 19 /\ chunk[19] = ETX)

\* The equipment a chunk names, and the sensor; facilities_info may have them.
Machine(chunk) == SubSeq(chunk, 6, 9)
Code(chunk) == 256 * chunk[10] + chunk[11]
AnyInCatalogue(chunk) == TRUE
InCatalogue(chunk) == <<Machine(chunk), Code(chunk)>> \in Catalogue

Reading(machine, code, value, decimals) ==
  [machine |-> machine, code |-> code, value |-> value, decimals |-> decimals]
Converted(chunk) ==
  Reading(Machine(chunk), Code(chunk), SubSeq(chunk, 14, 17), chunk[18])

\* manage_client publishes what it accepts and finds in the catalogue: the
\* readings by the numbers of their chunks.
Published(bytes) ==
  LET chunks == Chunks(bytes)
      good   == {k \in DOMAIN chunks : Accepts(chunks[k]) /\ InCatalogue(chunks[k])}
  IN [k \in good |-> Converted(chunks[k])]

-----------------------------------------------------------------------------
Init ==
  /\ device \in Devices
  /\ frame \in Frames
  /\ sensorCodeCount = 1
  /\ made = <<>> /\ sent = <<>> /\ published = <<>>

\* sensorCodeCount++, and back to 1 after the last code of the device.
NextCodeLate(code) == IF code > LastCode THEN 1 ELSE code + 1
NextCode(code) == IF code = LastCode THEN 1 ELSE code + 1

\* A step of a round: at the first one there is a new frame.
Step ==
  /\ IF sensorCodeCount = 1 THEN frame' \in Frames ELSE UNCHANGED frame
  /\ made' = MakeSensorPayloadData(frame', sensorCodeCount)
  /\ sent' = Handed(made')
  /\ published' = Published(sent')
  /\ sensorCodeCount' = NextCode(sensorCodeCount)
  /\ UNCHANGED device

Next == Step

Spec == Init /\ [][Next]_vars

-----------------------------------------------------------------------------
\* The word a sensor of a TS device is wired to: three voltages and three
\* currents of the first motor, those of the second, which are not reported,
\* two pressures, the temperature and its set point, and the alarm.
TsWord(code) == IF code < 7 THEN code ELSE IF code < 11 THEN code + 6 ELSE 19

\* Types.
TypeOK ==
  /\ device \in Devices
  /\ frame \in Frames
  /\ sensorCodeCount \in 1..LastCode
  /\ made \in Seq(Bytes) /\ sent \in Seq(Bytes)

\* End to end, for a TS device: a step whose sensor is listed publishes one
\* reading, that of the sensor whose turn it is, with the number that was in its
\* word of the frame and the place of its decimal point.
TurnIsPublished ==
  [][LET code == sensorCodeCount
     IN device.type = "TS" /\ <<DevInfo, code>> \in Catalogue =>
          published' = <<Reading(DevInfo, code, Reverse(frame'[TsWord(code)]),
                                 IF code \in {7, 8} THEN 3 ELSE 1)>>]_vars

\* Whatever the server publishes was measured by this device: a chunk that does not
\* begin where a packet does is never taken for one, although values hold any bytes
\* and any machine may be listed.
PublishedWasMeasured ==
  \A i \in DOMAIN published :
    \E w \in Words :
      /\ published[i].machine = DevInfo
      /\ Codes[w] = published[i].code
      /\ Reverse(frame[w]) = published[i].value
      /\ published[i].decimals = IF Codes[w] \in PressCodes THEN 3 ELSE 1
=============================================================================
