---------------------------- MODULE FrameDecoder ----------------------------
(***************************************************************************)
(* The stream decoder of the collector: IoHandler::readComplete with the   *)
(* read it is the completion of.  The bytes a read returns sit in          *)
(* m_recvBuffer; the loop takes them one by one through the switch over    *)
(* m_state.  Each iteration of the loop is an action, so that the position *)
(* in the buffer and the position in the packet are separate, as they are  *)
(* in the code: a packet may span reads and a read may hold packets.       *)
(*                                                                         *)
(* The network is the sequence of bytes the socket holds for the next      *)
(* read.  A connection starts with one of Preambles already sent (nothing, *)
(* or the rest of a packet whose first part went to nobody), and Bursts    *)
(* arrive after it.                                                        *)
(***************************************************************************)
EXTENDS WmrMessage

CONSTANTS
    maxReadLength,  \* maximum amount of data to read in one operation
    Alphabet,       \* the bytes that occur in the stream
    Preambles,      \* byte sequences a connection may start with
    Bursts,         \* byte sequences that may arrive at once
    MaxBursts,      \* bound: bursts sent on the connection
    MaxWire         \* bound: bytes the socket holds unread

ASSUME ConstantsAssumption ==
    /\ maxReadLength \in Nat \ {0}
    /\ Alphabet \subseteq Byte
    /\ Preambles \subseteq Seq(Alphabet)
    /\ Bursts \subseteq Seq(Alphabet)
    /\ MaxBursts \in Nat /\ MaxWire \in Nat

VARIABLES
    wire,           \* bytes in the socket, not yet read
    reading,        \* async_read_some is outstanding
    m_recvBuffer,   \* the bytesTransferred bytes of the last read
    pos,            \* readComplete's position in m_recvBuffer
    m_state, m_pos, m_data,
    messages,       \* the vectors handed to WmrMessage's constructor
    parsed,         \* those of them on which parse() was called
    preamble,       \* history: what was in the stream before the first burst
    sent,           \* history: the bursts sent
    window          \* history: bytes decoded since the decoder started over

ioVars      == <<wire, reading, m_recvBuffer, preamble, sent>>
decoderVars == <<pos, m_state, m_pos, m_data, messages, parsed, window>>
vars        == <<ioVars, decoderVars>>

States == {"StartMarker", "Flags", "Type", "Data"}

(* The capacity IoHandler's constructor reserves for m_data.               *)
Reserved == 64

Init ==
    /\ preamble \in Preambles /\ wire = preamble
    /\ reading = TRUE
    /\ m_recvBuffer = <<>>
    /\ pos = 0
    /\ m_state = "StartMarker"
    /\ m_pos = 0
    /\ m_data = <<>>
    /\ messages = <<>>
    /\ parsed = <<>>
    /\ sent = <<>>
    /\ window = <<>>

-----------------------------------------------------------------------------

(* The peer sends.                                                         *)
Arrive(burst) ==
    /\ Len(sent) < MaxBursts
    /\ Len(wire) + Len(burst) =< MaxWire
    /\ wire' = wire \o burst
    /\ sent' = Append(sent, burst)
    /\ UNCHANGED <<reading, m_recvBuffer, preamble, decoderVars>>

(* Mutant: each read starts with a fresh decoder.                          *)
ReadCompleteForgetting(n) ==
    /\ reading
    /\ n \in 1..Len(wire)
    /\ n =< maxReadLength
    /\ reading' = FALSE
    /\ m_recvBuffer' = SubSeq(wire, 1, n)
    /\ wire' = SubSeq(wire, n + 1, Len(wire))
    /\ pos' = 0
    /\ m_state' = "StartMarker" /\ m_pos' = 0 /\ m_data' = <<>> /\ window' = <<>>
    /\ UNCHANGED <<messages, parsed, preamble, sent>>

(* readComplete is called with n bytes.                                    *)
ReadComplete(n) ==
    /\ reading
    /\ n \in 1..Len(wire)
    /\ n =< maxReadLength
    /\ reading' = FALSE
    /\ m_recvBuffer' = SubSeq(wire, 1, n)
    /\ wire' = SubSeq(wire, n + 1, Len(wire))
    /\ pos' = 0
    /\ UNCHANGED <<m_state, m_pos, m_data, messages, parsed,
                   preamble, sent, window>>

Decoding == ~reading /\ pos < Len(m_recvBuffer)

dataByte == m_recvBuffer[pos + 1]

(* while (pos < bytesTransferred) dataByte = m_recvBuffer[pos++]           *)
TakeByte ==
    /\ Decoding
    /\ pos' = pos + 1
    /\ UNCHANGED ioVars

(* The decoder goes back to looking for a start marker.                    *)
StartOver ==
    /\ m_state' = "StartMarker"
    /\ m_pos' = 0
    /\ m_data' = <<>>
    /\ window' = <<>>

(* Mutant: a byte that is no marker does not undo the first half of one.   *)
StartMarkerByteSticky ==
    /\ m_state = "StartMarker"
    /\ TakeByte
    /\ IF dataByte = 255
       THEN \/ m_pos = 0 /\ m_pos' = 1 /\ UNCHANGED m_state
            \/ m_pos = 1 /\ m_state' = "Flags" /\ UNCHANGED m_pos
       ELSE UNCHANGED <<m_pos, m_state>>
    /\ window' = Append(window, dataByte)
    /\ UNCHANGED <<m_data, messages, parsed>>

StartMarkerByte ==
    /\ m_state = "StartMarker"
    /\ TakeByte
    /\ \/ /\ m_pos = 0 /\ dataByte = 255
          /\ m_pos' = 1
          /\ UNCHANGED m_state
       \/ /\ m_pos = 1 /\ dataByte = 255
          /\ m_state' = "Flags"
          /\ UNCHANGED m_pos
       \/ /\ ~(m_pos \in {0, 1} /\ dataByte = 255)
          /\ m_pos' = 0
          /\ UNCHANGED m_state
    /\ window' = Append(window, dataByte)
    /\ UNCHANGED <<m_data, messages, parsed>>

FlagsByte ==
    /\ m_state = "Flags"
    /\ TakeByte
    /\ m_data' = Append(m_data, dataByte)
    /\ m_state' = "Type"
    /\ window' = Append(window, dataByte)
    /\ UNCHANGED <<m_pos, messages, parsed>>

(* The common part of the mutants of TypeByte: the bytes left to read      *)
(* behind a type byte of a packet of length len, and what an unknown type  *)
(* resets.                                                                 *)
TypeByteLike(known(_), left(_), startOver) ==
    /\ m_state = "Type"
    /\ TakeByte
    /\ LET len == packetLengthForType(dataByte) IN
       IF known(len)
       THEN /\ m_pos' = left(len)
            /\ m_state' = "Data"
            /\ m_data' = Append(m_data, dataByte)
            /\ window' = Append(window, dataByte)
       ELSE startOver
    /\ UNCHANGED <<messages, parsed>>

(* Mutant: the -1 of an unknown type is taken for a length.                *)
TypeByteUnchecked ==
    TypeByteLike(LAMBDA len : TRUE, LAMBDA len : len - 2, StartOver)

(* Mutant: m_pos stays 1 at an unknown type.                               *)
TypeByteKeepingPos ==
    TypeByteLike(LAMBDA len : len > 0, LAMBDA len : len - 2,
                 /\ m_state' = "StartMarker" /\ m_data' = <<>>
                 /\ window' = <<>> /\ UNCHANGED m_pos)

TypeByte ==
    /\ m_state = "Type"
    /\ TakeByte
    /\ LET len == packetLengthForType(dataByte) IN
       \/ /\ len > 0
          /\ m_pos' = len - 2    \* we already read flags + type
          /\ m_state' = "Data"
          /\ m_data' = Append(m_data, dataByte)
          /\ window' = Append(window, dataByte)
       \/ /\ ~(len > 0)
          /\ StartOver
    /\ UNCHANGED <<messages, parsed>>

DataByte ==
    /\ m_state = "Data"
    /\ TakeByte
    /\ LET data == Append(m_data, dataByte) IN
       \/ /\ m_pos - 1 # 0
          /\ m_pos' = m_pos - 1
          /\ m_data' = data
          /\ window' = Append(window, dataByte)
          /\ UNCHANGED <<m_state, messages, parsed>>
       \/ /\ m_pos - 1 = 0
          /\ messages' = Append(messages, data)
          /\ parsed' = IF IsValid(data) THEN Append(parsed, data) ELSE parsed
          /\ StartOver

(* The loop is through: readStart().                                       *)
ReadStart ==
    /\ ~reading /\ pos = Len(m_recvBuffer)
    /\ reading' = TRUE
    /\ UNCHANGED <<wire, m_recvBuffer, preamble, sent, decoderVars>>

Next ==
    \/ \E burst \in Bursts : Arrive(burst)
    \/ \E n \in 1..Len(wire) : ReadComplete(n)
    \/ StartMarkerByte
    \/ FlagsByte
    \/ TypeByte
    \/ DataByte
    \/ ReadStart

Spec == Init /\ [][Next]_vars

-----------------------------------------------------------------------------

TypeOK ==
    /\ wire \in Seq(Alphabet) /\ m_recvBuffer \in Seq(Alphabet)
    /\ reading \in BOOLEAN
    /\ pos \in 0..Len(m_recvBuffer)
    /\ m_state \in States
    /\ m_pos \in Nat
    /\ m_data \in Seq(Alphabet) /\ window \in Seq(Alphabet)
    /\ messages \in Seq(Seq(Alphabet)) /\ parsed \in Seq(Seq(Alphabet))
    /\ preamble \in Preambles /\ sent \in Seq(Seq(Alphabet))

(* m_state, m_pos and m_data always agree.  In the Data state m_pos bytes  *)
(* are missing to the length of the type in m_data[1], at least one, so    *)
(* that the decrement of the size_t m_pos never goes below zero, and       *)
(* m_data never outgrows what IoHandler.cpp:48 reserves for it.            *)
PacketPosition ==
    /\ m_state = "StartMarker" => m_pos \in {0, 1} /\ m_data = <<>>
    /\ m_state = "Flags" => m_pos = 1 /\ m_data = <<>>
    /\ m_state = "Type" => m_pos = 1 /\ Len(m_data) = 1
    /\ m_state = "Data" =>
          /\ Len(m_data) >= 2
          /\ m_data[2] \in MsgType
          /\ m_pos > 0
          /\ Len(m_data) + m_pos = packetLengthForType(m_data[2])
    /\ Len(m_data) =< Reserved

(* Every vector handed to WmrMessage has exactly the length of its type:   *)
(* of the three tests of checkValidityAndCopyData only the checksum can    *)
(* fail, and the payload indices the parsers use are within the payload.   *)
MessageLength ==
    \A i \in DOMAIN messages :
        /\ Len(messages[i]) >= 4
        /\ messages[i][2] \in MsgType
        /\ Len(messages[i]) = packetLengthForType(messages[i][2])

(* The decoder delivers the packets FrameStream promises, whatever bytes   *)
(* come and however they are cut into reads.                               *)
FS == INSTANCE FrameStream
ImplementsFrameStream == FS!Spec

(* The three registers say where in the window the decoder is: before a    *)
(* marker and with how much of one seen, or so many bytes behind the first *)
(* marker, with exactly the bytes after it collected in m_data.            *)
MarkerPosition == Len(window) - Len(m_data) - 1

WindowMatches ==
    /\ m_state = "StartMarker" =>
          /\ \A i \in 1..Len(window) - 1 :
                ~(window[i] = FS!Marker /\ window[i + 1] = FS!Marker)
          /\ m_pos = 1 <=> Len(window) > 0 /\ window[Len(window)] = FS!Marker
    /\ m_state # "StartMarker" =>
          /\ FS!MarkerAt(window, MarkerPosition)
          /\ \A i \in 1..Len(m_data) : m_data[i] = window[MarkerPosition + 1 + i]
=============================================================================
