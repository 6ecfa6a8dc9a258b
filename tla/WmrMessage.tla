----------------------------- MODULE WmrMessage -----------------------------
(***************************************************************************)
(* The Oregon WMR88 packet as collector/WmrMessage.cpp sees it: a vector   *)
(* of bytes                                                                *)
(*                                                                         *)
(*     flags  type  payload ...  checksum-low  checksum-high               *)
(*                                                                         *)
(* without the 0xff 0xff start marker, which the stream decoder has taken  *)
(* off.  The module has no state: it holds the packet types, their length  *)
(* and the validity test, which the decoder and the parser share.          *)
(***************************************************************************)
EXTENDS Integers, Sequences, SequencesExt

Byte == 0..255

msgTypeRain         == 65  \* 0x41
msgTypeTempHumidity == 66  \* 0x42
msgTypeAirPressure  == 70  \* 0x46
msgTypeUV           == 71  \* 0x47
msgTypeWind         == 72  \* 0x48
msgTypeDateTime     == 96  \* 0x60

MsgType == {msgTypeRain, msgTypeTempHumidity, msgTypeAirPressure,
            msgTypeUV, msgTypeWind, msgTypeDateTime}

(* Length of a packet of each type, from the flags to the checksum; -1 for *)
(* a type byte the program does not know.                                  *)
packetLengthForType(type) ==
    CASE type = msgTypeTempHumidity -> 12
      [] type = msgTypeRain         -> 17
      [] type = msgTypeAirPressure  -> 8
      [] type = msgTypeWind         -> 11
      [] type = msgTypeUV           -> 6
      [] type = msgTypeDateTime     -> 12
      [] OTHER                      -> -1

uint16(n) == n % 65536

(* A sum of bytes in a uint16_t.                                           *)
Sum16(bytes) ==
    LET sum[i \in 0..Len(bytes)] ==
            IF i = 0 THEN 0 ELSE uint16(sum[i - 1] + bytes[i])
    IN sum[Len(bytes)]

(* The sum of all bytes but the last two.                                  *)
CalcChecksum(data) == Sum16(SubSeq(data, 1, Len(data) - 2))

(* The two last bytes, least significant first.                            *)
PktChecksum(data) == 256 * data[Len(data)] + data[Len(data) - 1]

(* WmrMessage::checkValidityAndCopyData: what isValid() answers.           *)
IsValid(data) ==
    /\ Len(data) >= 4
    /\ CalcChecksum(data) = PktChecksum(data)
    /\ packetLengthForType(data[2]) >= 0
    /\ Len(data) - 4 = packetLengthForType(data[2]) - 4
=============================================================================
