----------------------------- MODULE MCPipeline -----------------------------
(***************************************************************************)
(* An instance of Pipeline for TLC: noise or nothing, and three packets.   *)
(***************************************************************************)
EXTENDS Pipeline

(* A packet as the station sends it, checksum included.                    *)
Packet(flags, type, payload) ==
    LET body == <<flags, type>> \o payload
        sum  == CalcChecksum(body \o <<0, 0>>)
    IN <<255, 255>> \o body \o <<sum % 256, sum \div 256>>

(* UV packets whose payload looks like markers and types, and pressure     *)
(* packets of which two have the same sum and the same prefix sums, so     *)
(* that halves of both make a packet that is valid and was never sent.     *)
UV(f, d0, d1) == Packet(f, msgTypeUV, <<d0, d1>>)
Pressure(d)   == Packet(0, msgTypeAirPressure, d)

PacketSequences ==
    {<<UV(0, 255, 255), UV(64, 71, 71), UV(0, 0, 255)>>,
     <<UV(0, 71, 255), UV(64, 255, 71), Pressure(<<10, 3, 9, 3>>)>>,
     <<Pressure(<<1, 2, 3, 4>>), Pressure(<<2, 1, 4, 3>>), UV(0, 0, 3)>>}

(* What may precede them: bytes over a marker, a type and filler.          *)
Noises == {<<>>, <<255>>, <<255, 255, 71>>, <<255, 255, 71, 0>>}

MCStreams == {StreamOf(noise, packets) :
                 noise \in Noises, packets \in PacketSequences}

MCAlphabet == UNION {ToSet(s.bytes) : s \in MCStreams}

(* OnceInOrder and AtMostOneLost are proved for streams like these.  There *)
(* is something in them that runs into a packet.                           *)
ASSUME MCStreamsAssumption ==
    /\ \A s \in MCStreams : Unmistakable(s) /\ Recoverable(s)
    /\ \E s \in MCStreams :
          \E k \in DOMAIN s.packets, a \in DOMAIN s.bytes : RunsInto(s, a, k)

NoPreamble == {<<>>}
NoBursts == {}

=============================================================================
