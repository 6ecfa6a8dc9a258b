------------------------------ MODULE Pipeline ------------------------------
(***************************************************************************)
(* From the station to the parser.  The station sends packets, its USB     *)
(* device cuts them into reports wherever it likes, the forwarder passes   *)
(* each report to whoever is connected, and the collector looks for the    *)
(* packets again.  The forwarder is what Broadcast says of it, the         *)
(* decoder is FrameDecoder; they meet at the socket.  The collector's      *)
(* connection may end at any time, with bytes under way and a packet half  *)
(* read, and the next one begins with whatever the device says next.       *)
(***************************************************************************)
EXTENDS FrameDecoder, FiniteSets

CONSTANTS
    Streams,      \* what the station may send, each a StreamOf(...)
    ReportSizes,  \* bytes that a report may carry
    MaxJoins,     \* bound: connections of the collector
    MaxReports    \* bound: reports of the device

(* A packet without its marker, as parse() gets to see it.                 *)
Body(packet) == SubSeq(packet, 3, Len(packet))

(* Some noise and then packets: the bytes, and how many of them come       *)
(* before each packet and before the end.                                  *)
StreamOf(noise, packets) ==
    LET upto(i) == noise \o FlattenSeq(SubSeq(packets, 1, i)) IN
    [packets |-> packets,
     bytes   |-> upto(Len(packets)),
     begin   |-> [i \in 1..Len(packets) + 1 |-> Len(upto(i - 1))]]

(* What every such stream has: behind the noise the packets follow each    *)
(* other up to the end, each with its marker, the length of its type and a *)
(* valid checksum.                                                         *)
WellFormed(s) ==
    /\ s.bytes \in Seq(Alphabet) /\ s.packets \in Seq(Seq(Alphabet))
    /\ s.begin \in [1..Len(s.packets) + 1 -> 0..Len(s.bytes)]
    /\ s.begin[Len(s.packets) + 1] = Len(s.bytes)
    /\ \A i, j \in DOMAIN s.begin : i < j => s.begin[i] < s.begin[j]
    /\ \A i \in DOMAIN s.packets :
          /\ s.packets[i] = SubSeq(s.bytes, s.begin[i] + 1, s.begin[i + 1])
          /\ FS!MarkerAt(s.packets[i], 1)
          /\ s.packets[i][4] \in MsgType
          /\ Len(s.packets[i]) = 2 + packetLengthForType(s.packets[i][4])
          /\ IsValid(Body(s.packets[i]))

(* From a to z the bytes pass for a packet: marker, length and checksum.   *)
LooksLikePacket(bytes, a, z) ==
    /\ a \in DOMAIN bytes /\ z \in a + 3..Len(bytes)
    /\ bytes[a] = 255 /\ bytes[a + 1] = 255
    /\ bytes[a + 3] \in MsgType
    /\ z = a + 1 + packetLengthForType(bytes[a + 3])
    /\ IsValid(SubSeq(bytes, a + 2, z))

(* What the checksum is for: nothing but the packets passes for one.  A    *)
(* station cannot promise it; OnceInOrder depends on it.                   *)
Unmistakable(s) ==
    \A a, z \in DOMAIN s.bytes :
        LooksLikePacket(s.bytes, a, z) =>
            \E i \in DOMAIN s.packets : s.begin[i] = a - 1

(* Two marker bytes in a row where no packet begins.                       *)
FalseMarker(s, a) ==
    /\ a \in DOMAIN s.bytes /\ a < Len(s.bytes)
    /\ s.bytes[a] = 255 /\ s.bytes[a + 1] = 255
    /\ \A i \in DOMAIN s.packets : s.begin[i] # a - 1

(* The last byte the decoder takes for a part of a packet with its marker  *)
(* at a: up to the length of its type, or the type if it knows none such.  *)
FrameEnd(bytes, a) ==
    LET len == packetLengthForType(bytes[a + 3])
    IN IF len > 0 THEN a + 1 + len ELSE a + 3

(* What begins at a false marker goes on into the k-th packet.             *)
RunsInto(s, a, k) ==
    FalseMarker(s, a) /\ a =< s.begin[k] /\ FrameEnd(s.bytes, a) > s.begin[k]

(* What runs into a packet ends in it, and nothing behind this end runs    *)
(* into the next one.  This too depends on what is measured.               *)
Recoverable(s) ==
    \A k \in DOMAIN s.packets, a \in DOMAIN s.bytes :
        RunsInto(s, a, k) =>
            /\ FrameEnd(s.bytes, a) =< s.begin[k + 1]
            /\ k + 1 \in DOMAIN s.packets =>
                  \A b \in FrameEnd(s.bytes, a) + 1..Len(s.bytes) :
                      ~RunsInto(s, b, k + 1)

ASSUME PipelineAssumption ==
    /\ Preambles = {<<>>}  \* the stream begins with what the device says
    /\ \A s \in Streams : WellFormed(s)
    /\ ReportSizes \subseteq 1..7
    /\ MaxJoins \in Nat /\ MaxReports \in Nat

VARIABLES
    stream,     \* what the station sends in this behaviour
    taken,      \* bytes of it that the forwarder has taken up, by report
    log, members, since, received,  \* the forwarder
    conn,       \* number of the collector's connection, 0 before the first
    collected   \* history: packets parsed on earlier connections

deviceVars    == <<stream, taken>>
forwarderVars == <<log, members, since, received>>
sessionVars   == <<conn, collected>>
pipelineVars  == <<vars, deviceVars, forwarderVars, sessionVars>>

F == INSTANCE Broadcast WITH Conns <- 1..MaxJoins

Packets  == stream.packets
Bytes    == stream.bytes
Begin(i) == stream.begin[i]

(* Number of bytes in the first n reports.                                 *)
Upto(n) == IF n = 0 THEN 0 ELSE taken[n]

PipelineInit ==
    /\ Init
    /\ stream \in Streams /\ taken = <<>>
    /\ F!Init
    /\ conn = 0 /\ collected = <<>>

(* The device has a report, and the forwarder takes it up.                 *)
Report(n) ==
    LET rest == Len(Bytes) - Upto(Len(taken)) IN
    /\ Len(log) < MaxReports /\ rest > 0
    /\ F!TakeUp(Len(log) + 1)
    /\ taken' = Append(taken, Upto(Len(taken)) + IF n < rest THEN n ELSE rest)
    /\ UNCHANGED <<vars, stream, sessionVars>>

(* The forwarder writes it to the collector: the bytes are in the socket.  *)
Deliver ==
    /\ conn # 0
    /\ F!Deliver(conn)
    /\ Arrive(SubSeq(Bytes, Upto(Len(log) - 1) + 1, Upto(Len(log))))
    /\ UNCHANGED <<deviceVars, sessionVars>>

(* The collector is connected, with an IoHandler made for the connection.  *)
Connect ==
    /\ conn < MaxJoins /\ conn \notin members
    /\ conn' = conn + 1
    /\ F!Join(conn + 1)
    /\ UNCHANGED <<vars, deviceVars, collected>>

(* Mutant: the next connection goes on with the handler of the last.       *)
DisconnectKeepingDecoder ==
    /\ conn \in members
    /\ F!Leave({conn})
    /\ collected' = collected \o parsed
    /\ wire' = <<>> /\ sent' = <<>> /\ parsed' = <<>>
    /\ reading' = TRUE /\ m_recvBuffer' = <<>> /\ pos' = 0
    /\ UNCHANGED <<m_state, m_pos, m_data, messages, window, preamble,
                   deviceVars, conn>>

(* The connection ends, and what was under way with it; main destroys the  *)
(* IoHandler, whose place a new one takes.                                 *)
Disconnect ==
    /\ conn \in members
    /\ F!Leave({conn})
    /\ collected' = collected \o parsed
    /\ wire' = <<>> /\ sent' = <<>> /\ messages' = <<>> /\ parsed' = <<>>
    /\ reading' = TRUE /\ m_recvBuffer' = <<>> /\ pos' = 0
    /\ StartOver
    /\ UNCHANGED <<preamble, deviceVars, conn>>

Decode ==
    /\ \/ \E n \in 1..Len(wire) : ReadComplete(n)
       \/ StartMarkerByte \/ FlagsByte \/ TypeByte \/ DataByte
       \/ ReadStart
    /\ UNCHANGED <<deviceVars, forwarderVars, sessionVars>>

PipelineNext ==
    \/ \E n \in ReportSizes : Report(n)
    \/ Deliver
    \/ Connect
    \/ Disconnect
    \/ Decode

PipelineSpec == PipelineInit /\ [][PipelineNext]_pipelineVars

-----------------------------------------------------------------------------

(* The packets as parse() is to see them.                                  *)
Sent == [i \in DOMAIN Packets |-> Body(Packets[i])]

(* Where in the stream the connection begins, and how far it has come.     *)
Joined   == Upto(since[conn])
Arrived  == Upto(since[conn] + Len(received[conn]))

(* This connection has the first byte of the packets from this one on, and *)
(* of no packet before it.  One more than there are: it has none.          *)
WholeFrom(first) ==
    /\ first \in DOMAIN stream.begin
    /\ \A i \in DOMAIN Packets : Begin(i) >= Joined <=> i >= first

WholeBodies(first) == SubSeq(Sent, first, Len(Sent))

WholeArrived(first) ==
    Cardinality({i \in first..Len(Packets) : Begin(i + 1) =< Arrived})

(* There is something like a marker before the first of them.              *)
Misleading(first) ==
    \E j \in Joined + 1..Begin(first) :
        j < Len(Bytes) /\ Bytes[j] = 255 /\ Bytes[j + 1] = 255

(* Up to the parser nothing is invented, repeated or reordered, over all   *)
(* connections together: what is parsed are packets of the station, each   *)
(* at most once, in the order in which they were sent                      *)
(* (IoHandler.cpp:26-34, 110-155, main.cpp:88-127, forwarder.c:300-307).   *)
OnceInOrder ==
    LET all == collected \o parsed IN
    \E at \in [DOMAIN all -> DOMAIN Sent] :
        /\ \A i \in DOMAIN all : all[i] = Sent[at[i]]
        /\ \A i, j \in DOMAIN all : i < j => at[i] < at[j]

(* On a connection no packet is lost but the one it was joined in, if the  *)
(* end of that one has nothing like a marker in it: when the bytes that    *)
(* have arrived are decoded, every packet that is complete was parsed      *)
(* (IoHandler.cpp:26-34, 110-155, main.cpp:88-127, forwarder.c:300-307).   *)
NoneLost ==
    conn \in members => \A first \in DOMAIN stream.begin :
        WholeFrom(first) /\ ~Misleading(first) =>
            /\ IsPrefix(parsed, WholeBodies(first))
            /\ wire = <<>> /\ reading => Len(parsed) = WholeArrived(first)

(* If it has, the first whole packet may be lost too, and no other, as     *)
(* long as the stream is Recoverable                                       *)
(* (IoHandler.cpp:110-155, main.cpp:88-127, forwarder.c:300-307).          *)
AtMostOneLost ==
    conn \in members => \A first \in DOMAIN stream.begin :
        WholeFrom(first) =>
            /\ \/ IsPrefix(parsed, WholeBodies(first))
               \/ IsPrefix(parsed, WholeBodies(first + 1))
            /\ wire = <<>> /\ reading => Len(parsed) >= WholeArrived(first) - 1

(* On every connection the decoder delivers what FrameStream promises.     *)
EachConnectionFramed ==
    /\ FS!Init
    /\ [][\/ Decoding /\ FS!Receive(dataByte)
          \/ Disconnect]_<<window, messages>>
=============================================================================
