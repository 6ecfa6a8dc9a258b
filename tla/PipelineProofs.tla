--------------------------- MODULE PipelineProofs ---------------------------
(***************************************************************************)
(* Proofs about Pipeline for every station, every cut of its bytes into    *)
(* reports and reads, and any number of connections.                       *)
(***************************************************************************)
EXTENDS Pipeline, FrameDecoderProofs, FiniteSetTheorems

(* What the forwarder and the main loop have: there is one connection at a *)
(* time, the reports are numbered and cover more and more of the stream.   *)
ForwarderOK ==
    /\ stream \in Streams
    /\ conn \in 0..MaxJoins /\ members \subseteq {conn} \ {0}
    /\ since \in [1..MaxJoins -> Nat] /\ received \in [1..MaxJoins -> Seq(Nat)]
    /\ log \in Seq(Nat) /\ \A i \in 1..Len(log) : log[i] = i
    /\ taken \in Seq(0..Len(Bytes)) /\ Len(taken) = Len(log)
    /\ \A i, j \in 1..Len(log) : i =< j => taken[i] =< taken[j]
    /\ collected \in Seq(Seq(Alphabet))

(* The collector has every report since it joined, or is owed the last.    *)
Served ==
    conn \in members =>
        /\ since[conn] =< Len(log)
        /\ since[conn] + Len(received[conn]) \in {Len(log) - 1, Len(log)}
        /\ \A k \in 1..Len(received[conn]) : received[conn][k] = since[conn] + k

(* The bytes that the forwarder has taken up.                              *)
Taken == Upto(Len(log))

(* How far the decoder has come in the stream, and where its window begins.*)
Decoded == Arrived - Len(wire) - (Len(m_recvBuffer) - pos)
Opened  == Decoded - Len(window)

(* Window, buffer and socket hold the stream, without a gap.               *)
InTransit ==
    conn \in members =>
        /\ \A k \in 1..Len(wire) : wire[k] = Bytes[Arrived - Len(wire) + k]
        /\ \A k \in pos + 1..Len(m_recvBuffer) :
              m_recvBuffer[k] = Bytes[Decoded - pos + k]
        /\ \A k \in 1..Len(window) : window[k] = Bytes[Opened + k]
        /\ Joined =< Opened
        /\ reading => pos = Len(m_recvBuffer)

(* Between two connections nothing is left.                                *)
Idle ==
    conn \notin members =>
        /\ wire = <<>> /\ m_recvBuffer = <<>> /\ pos = 0 /\ reading
        /\ window = <<>> /\ parsed = <<>>

PInv == RInv /\ ForwarderOK /\ Served /\ InTransit /\ Idle

All == collected \o parsed

(* What is parsed next begins behind this byte of the stream.              *)
Frontier == IF conn \in members THEN Opened ELSE Taken

(* The parsed packets are pieces of the stream, behind markers at these    *)
(* places, one behind the other and all before the frontier.               *)
End(at, i) == at[i] + 1 + Len(All[i])

PiecesAt(at) ==
    /\ \A i \in DOMAIN All :
          /\ LooksLikePacket(Bytes, at[i], End(at, i))
          /\ All[i] = SubSeq(Bytes, at[i] + 2, End(at, i))
    /\ \A i, j \in DOMAIN All : i < j => End(at, i) < at[j]

PiecesInOrder == \E at \in [DOMAIN All -> DOMAIN Bytes] : PiecesAt(at)

PiecesBefore ==
    \E at \in [DOMAIN All -> DOMAIN Bytes] :
        PiecesAt(at) /\ \A i \in DOMAIN All : End(at, i) =< Frontier

(* Somewhere behind the byte from and not behind the byte to there is      *)
(* something like a marker.                                                *)
AnyMarker(from, to) ==
    \E j \in from + 1..to :
        j < Len(Bytes) /\ Bytes[j] = 255 /\ Bytes[j + 1] = 255

(* What was parsed are the packets from the first on, and the window       *)
(* begins where the next one does, or, before the first one, with nothing  *)
(* like a marker between.                                                  *)
AlignedFrom(first) ==
    /\ first + Len(parsed) \in DOMAIN stream.begin
    /\ \A k \in 1..Len(parsed) : parsed[k] = Sent[first - 1 + k]
    /\ \/ Opened = Begin(first + Len(parsed))
       \/ /\ parsed = <<>> /\ Opened =< Begin(first)
          /\ ~AnyMarker(Opened, Begin(first))

Aligned ==
    conn \in members => \A first \in DOMAIN stream.begin :
        WholeFrom(first) /\ ~Misleading(first) => AlignedFrom(first)

-----------------------------------------------------------------------------
(* The elements of a sequence behind the first a up to the b-th.           *)
LEMMA Middle ==
    ASSUME NEW S, NEW s \in Seq(S),
           NEW a \in 0..Len(s), NEW b \in 0..Len(s), a =< b
    PROVE  /\ SubSeq(s, a + 1, b) \in Seq(S)
           /\ Len(SubSeq(s, a + 1, b)) = b - a
           /\ b - a \in Nat
           /\ \A i \in 1..b - a : SubSeq(s, a + 1, b)[i] = s[a + i]
<1>1. /\ a + 1 \in Int /\ b \in Int /\ Len(s) \in Nat /\ a \in Int
      /\ a + 1..b \subseteq 1..Len(s)
  BY LenProperties
<1>2. \A i \in a + 1..b : s[i] \in S
  BY <1>1, ElementOfSeq
<1>3. /\ SubSeq(s, a + 1, b) \in Seq(S)
      /\ Len(SubSeq(s, a + 1, b)) = IF a + 1 <= b THEN b - (a + 1) + 1 ELSE 0
      /\ \A i \in 1..b - (a + 1) + 1 : SubSeq(s, a + 1, b)[i] = s[a + 1 + i - 1]
  BY <1>1, <1>2, SubSeqProperties
<1>4. b - (a + 1) + 1 = b - a /\ b - a \in Nat /\ (~(a + 1 <= b) => b - a = 0)
  BY <1>1
<1>5. ASSUME NEW i \in 1..b - a PROVE SubSeq(s, a + 1, b)[i] = s[a + i]
  <2>1. a + 1 + i - 1 = a + i
    BY <1>1
  <2> QED
    BY <1>3, <1>4, <2>1
<1> QED
  BY <1>3, <1>4, <1>5

(* What is assumed of the stream, by name.                                 *)
LEMMA StreamFacts ==
    ASSUME stream \in Streams
    PROVE  /\ Bytes \in Seq(Alphabet) /\ Packets \in Seq(Seq(Alphabet))
           /\ Len(Bytes) \in Nat /\ Len(Packets) \in Nat
           /\ DOMAIN Packets = 1..Len(Packets)
           /\ DOMAIN stream.begin = 1..Len(Packets) + 1
           /\ \A i \in 1..Len(Packets) + 1 : Begin(i) \in 0..Len(Bytes)
           /\ Begin(Len(Packets) + 1) = Len(Bytes)
           /\ \A i, j \in 1..Len(Packets) + 1 : i < j => Begin(i) < Begin(j)
<1>1. WellFormed(stream)
  BY PipelineAssumption
<1>2. Bytes \in Seq(Alphabet) /\ Packets \in Seq(Seq(Alphabet))
  BY <1>1 DEF WellFormed, Bytes, Packets
<1>3. Len(Bytes) \in Nat /\ Len(Packets) \in Nat /\ DOMAIN Packets = 1..Len(Packets)
  BY <1>2, LenProperties
<1>4. stream.begin \in [1..Len(Packets) + 1 -> 0..Len(Bytes)]
  BY <1>1 DEF WellFormed, Bytes, Packets
<1>5. Begin(Len(Packets) + 1) = Len(Bytes)
  BY <1>1 DEF WellFormed, Bytes, Packets, Begin
<1>6. \A i, j \in DOMAIN stream.begin : i < j => Begin(i) < Begin(j)
  BY <1>1 DEF WellFormed, Begin
<1> QED
  BY <1>2, <1>3, <1>4, <1>5, <1>6 DEF Begin

(* A packet in its stream.                                                 *)
LEMMA PacketFacts ==
    ASSUME stream \in Streams, NEW k \in 1..Len(Packets)
    PROVE  /\ k \in DOMAIN Packets /\ k + 1 \in 1..Len(Packets) + 1
           /\ Begin(k) \in Nat /\ Begin(k + 1) \in 0..Len(Bytes)
           /\ Bytes[Begin(k) + 1] = 255 /\ Bytes[Begin(k) + 2] = 255
           /\ Bytes[Begin(k) + 4] \in MsgType
           /\ packetLengthForType(Bytes[Begin(k) + 4]) \in 6..17
           /\ Begin(k + 1) = Begin(k) + 2 + packetLengthForType(Bytes[Begin(k) + 4])
           /\ Sent[k] = SubSeq(Bytes, Begin(k) + 3, Begin(k + 1))
           /\ IsValid(Sent[k])
<1> DEFINE p == Packets[k]
<1>1. /\ Len(Packets) \in Nat /\ Bytes \in Seq(Alphabet) /\ Len(Bytes) \in Nat
      /\ k \in DOMAIN Packets
  BY StreamFacts
<1>2. k \in 1..Len(Packets) + 1 /\ k + 1 \in 1..Len(Packets) + 1 /\ k < k + 1
  BY <1>1
<1>3. /\ Begin(k) \in 0..Len(Bytes) /\ Begin(k + 1) \in 0..Len(Bytes)
      /\ Begin(k) < Begin(k + 1)
  BY <1>2, StreamFacts
<1>4. PICK b \in Nat, e \in Nat : b = Begin(k) /\ e = Begin(k + 1)
  BY <1>1, <1>3
<1>5. b \in 0..Len(Bytes) /\ e \in 0..Len(Bytes) /\ b =< e
  BY <1>1, <1>4, <1>3
<1>6. /\ p = SubSeq(Bytes, b + 1, e) /\ FS!MarkerAt(p, 1)
      /\ p[4] \in MsgType /\ Len(p) = 2 + packetLengthForType(p[4])
      /\ IsValid(Body(p))
  <2>1. WellFormed(stream)
    BY PipelineAssumption
  <2> QED
    BY <1>1, <1>4, <2>1 DEF WellFormed, Packets, Bytes, Begin
<1> HIDE DEF p
<1>7. PICK len \in 6..17 : len = packetLengthForType(p[4])
  BY <1>6, PacketLengths
<1>8. p[1] = 255 /\ p[2] = 255
  <2>1. FS!MarkerAt(p, 1)
    BY <1>6
  <2>2. p[1] = 255 /\ p[1 + 1] = 255
    BY <2>1, Zenon DEF FS!MarkerAt, FS!Marker
  <2> QED
    BY <2>2
<1>9. /\ Len(p) = e - b /\ e - b \in Nat
      /\ \A m \in 1..e - b : p[m] = Bytes[b + m]
  <2>1. LET part == SubSeq(Bytes, b + 1, e) IN
        /\ Len(part) = e - b /\ e - b \in Nat
        /\ \A m \in 1..e - b : part[m] = Bytes[b + m]
    BY <1>1, <1>5, Middle
  <2> QED
    BY <1>6, <2>1
<1>10. e = b + 2 + len
  <2>1. e - b = 2 + len
    BY <1>6, <1>7, <1>9, Zenon
  <2> QED
    BY <1>1, <1>5, <2>1
<1>11. p[1] = Bytes[b + 1] /\ p[2] = Bytes[b + 2] /\ p[4] = Bytes[b + 4]
  <2>1. 1 \in 1..e - b /\ 2 \in 1..e - b /\ 4 \in 1..e - b
    BY <1>10
  <2> QED
    BY <1>9, <2>1
<1>12. Body(p) = SubSeq(Bytes, b + 3, e)
  <2>1. PICK m \in Int : m = e - b
    BY <1>9
  <2>2. PICK i \in Int : i = b + 1
    BY <1>1, <1>5
  <2>3. /\ i \in 1..Len(Bytes) /\ e \in 1..Len(Bytes)
        /\ 3 \in 1..e - i + 1 /\ m \in 1..e - i + 1
        /\ i + 3 - 1 = b + 3 /\ i + m - 1 = e
    BY <1>1, <1>5, <1>10, <2>1, <2>2
  <2>4. SubSeq(SubSeq(Bytes, i, e), 3, m) = SubSeq(Bytes, i + 3 - 1, i + m - 1)
    BY <1>1, <2>3, SubSeqOfSubSeq
  <2> QED
    BY <1>6, <1>9, <2>1, <2>2, <2>3, <2>4 DEF Body
<1>13. Sent[k] = Body(p)
  BY <1>1 DEF Sent, p
<1>14. /\ Bytes[b + 1] = 255 /\ Bytes[b + 2] = 255 /\ Bytes[b + 4] \in MsgType
       /\ packetLengthForType(Bytes[b + 4]) \in 6..17
       /\ e = b + 2 + packetLengthForType(Bytes[b + 4])
  <2>1. /\ packetLengthForType(p[4]) \in 6..17
        /\ e = b + 2 + packetLengthForType(p[4])
    BY <1>7, <1>10
  <2> QED
    BY <1>6, <1>8, <1>11, <2>1, Zenon
<1>15. Sent[k] = SubSeq(Bytes, b + 3, e) /\ IsValid(Sent[k])
  BY <1>6, <1>12, <1>13
<1>16. b \in Nat /\ e \in 0..Len(Bytes)
  BY <1>5
<1> QED
  BY <1>1, <1>2, <1>4, <1>14, <1>15, <1>16

LEMMA UptoFacts ==
    ASSUME ForwarderOK
    PROVE  /\ Len(log) \in Nat
           /\ \A i \in 0..Len(log) : Upto(i) \in 0..Len(Bytes)
           /\ \A i, j \in 0..Len(log) : i =< j => Upto(i) =< Upto(j)
<1>1. Len(log) \in Nat /\ Len(Bytes) \in Nat
  BY StreamFacts, LenProperties DEF ForwarderOK
<1>2. \A i \in 1..Len(log) : taken[i] \in 0..Len(Bytes)
  BY ElementOfSeq DEF ForwarderOK
<1>3. \A i \in 0..Len(log) : Upto(i) \in 0..Len(Bytes)
  BY <1>1, <1>2 DEF Upto
<1>4. ASSUME NEW i \in 0..Len(log), NEW j \in 0..Len(log), i =< j
      PROVE  Upto(i) =< Upto(j)
  <2>1. CASE i = 0
    BY <1>1, <1>3, <2>1 DEF Upto
  <2>2. CASE i # 0
    <3>1. i \in 1..Len(log) /\ j \in 1..Len(log) /\ j # 0
      BY <1>1, <1>4, <2>2
    <3>2. taken[i] =< taken[j]
      BY <1>4, <3>1 DEF ForwarderOK
    <3> QED
      BY <2>2, <3>1, <3>2 DEF Upto
  <2> QED
    BY <2>1, <2>2
<1> QED
  BY <1>1, <1>3, <1>4

(* The numbers of a connection that is served.                             *)
LEMMA ServedFacts ==
    ASSUME ForwarderOK, Served, conn \in members
    PROVE  /\ conn \in 1..MaxJoins /\ members = {conn}
           /\ since[conn] \in 0..Len(log) /\ Len(received[conn]) \in Nat
           /\ Joined \in 0..Len(Bytes) /\ Arrived \in 0..Len(Bytes)
           /\ Joined =< Arrived /\ Arrived =< Upto(Len(log))
           /\ F!CaughtUp(conn) <=> since[conn] + Len(received[conn]) = Len(log)
<1>1. conn \in 1..MaxJoins /\ members = {conn}
  <2>1. MaxJoins \in Nat
    BY PipelineAssumption
  <2>2. conn \in 0..MaxJoins /\ members \subseteq {conn} \ {0}
    BY DEF ForwarderOK
  <2>3. conn # 0 /\ members = {conn}
    BY <2>2
  <2> QED
    BY <2>1, <2>2, <2>3
<1>2. since[conn] \in Nat /\ received[conn] \in Seq(Nat)
  BY <1>1 DEF ForwarderOK
<1>3. Len(received[conn]) \in Nat /\ Len(log) \in Nat
  BY <1>2, LenProperties DEF ForwarderOK
<1>4. /\ since[conn] =< Len(log)
      /\ since[conn] + Len(received[conn]) \in {Len(log) - 1, Len(log)}
      /\ \A k \in 1..Len(received[conn]) : received[conn][k] = since[conn] + k
  BY DEF Served
<1>5. since[conn] \in 0..Len(log) /\ since[conn] + Len(received[conn]) \in 0..Len(log)
  BY <1>2, <1>3, <1>4
<1>6. /\ Joined \in 0..Len(Bytes) /\ Arrived \in 0..Len(Bytes)
      /\ Joined =< Arrived /\ Arrived =< Upto(Len(log))
  <2>1. since[conn] =< since[conn] + Len(received[conn]) /\ Len(log) \in 0..Len(log)
    BY <1>2, <1>3
  <2> QED
    BY <1>3, <1>5, <2>1, UptoFacts DEF Joined, Arrived
<1>7. F!CaughtUp(conn) <=> since[conn] + Len(received[conn]) = Len(log)
  <2> DEFINE owed == SubSeq(log, since[conn] + 1, Len(log))
  <2>1. F!CaughtUp(conn) <=> received[conn] = owed
    BY DEF F!CaughtUp, F!Owed
  <2>2. \A i \in since[conn] + 1..Len(log) : log[i] \in Nat /\ log[i] = i
    BY <1>2, <1>3 DEF ForwarderOK
  <2>3. /\ owed \in Seq(Nat)
        /\ Len(owed) = IF since[conn] + 1 =< Len(log)
                       THEN Len(log) - (since[conn] + 1) + 1 ELSE 0
        /\ \A k \in 1..Len(log) - (since[conn] + 1) + 1 :
              owed[k] = log[since[conn] + 1 + k - 1]
    BY <1>2, <1>3, <2>2, SubSeqProperties
  <2> HIDE DEF owed
  <2>4. Len(owed) = Len(log) - since[conn]
    BY <1>2, <1>3, <1>4, <2>3
  <2>5. ASSUME NEW k \in 1..Len(owed) PROVE owed[k] = since[conn] + k
    <3>1. k \in 1..Len(log) - (since[conn] + 1) + 1
      BY <1>2, <1>3, <2>4
    <3>2. since[conn] + 1 + k - 1 = since[conn] + k
      BY <1>2
    <3>3. since[conn] + k \in since[conn] + 1..Len(log)
      BY <1>2, <1>3, <2>4
    <3>4. owed[k] = log[since[conn] + k]
      BY <2>3, <3>1, <3>2
    <3> QED
      BY <2>2, <3>3, <3>4
  <2>6. ASSUME since[conn] + Len(received[conn]) = Len(log)
        PROVE  received[conn] = owed
    <3>1. Len(received[conn]) = Len(owed)
      BY <1>2, <1>3, <2>4, <2>6
    <3>2. \A k \in 1..Len(received[conn]) : received[conn][k] = owed[k]
      BY <1>4, <2>5, <3>1
    <3> QED
      BY <1>2, <2>3, <3>1, <3>2, SeqEqual, Zenon
  <2>7. ASSUME received[conn] = owed
        PROVE  since[conn] + Len(received[conn]) = Len(log)
    BY <1>2, <1>3, <2>4, <2>7
  <2> QED
    BY <2>1, <2>6, <2>7
<1> QED
  BY <1>1, <1>3, <1>5, <1>6, <1>7

-----------------------------------------------------------------------------
(* The steps of the forwarder.                                             *)

LEMMA PipelineInitInv == PipelineInit => PInv
<1> SUFFICES ASSUME PipelineInit PROVE PInv
  OBVIOUS
<1> USE DEF PipelineInit, F!Init
<1>1. RInv
  BY InitRInv
<1>2. wire = <<>>
  BY PipelineAssumption DEF Init
<1>3. ForwarderOK
  BY PipelineAssumption DEF ForwarderOK
<1>4. Served /\ InTransit /\ Idle
  BY <1>2 DEF Init, Served, InTransit, Idle
<1> QED
  BY <1>1, <1>3, <1>4 DEF PInv

(* What a step that is none of the forwarder leaves as it is.              *)
LEMMA ForwarderKept ==
    ASSUME ForwarderOK, Served,
           UNCHANGED <<deviceVars, forwarderVars, sessionVars>>
    PROVE  /\ ForwarderOK' /\ Served'
           /\ Bytes' = Bytes /\ Joined' = Joined
           /\ Arrived' = Arrived /\ Taken' = Taken
<1> USE DEF deviceVars, forwarderVars, sessionVars
<1>1. ForwarderOK' /\ Served'
  BY DEF ForwarderOK, Served, Bytes
<1>2. /\ Bytes' = Bytes /\ Joined' = Joined
      /\ Arrived' = Arrived /\ Taken' = Taken
  BY DEF Bytes, Joined, Arrived, Taken, Upto
<1> QED
  BY <1>1, <1>2

(* A report is taken up: the taken bytes grow, a member is owed one.       *)
LEMMA ReportForwarder ==
    ASSUME ForwarderOK, Served, NEW n \in ReportSizes, Report(n)
    PROVE  /\ ForwarderOK' /\ Served'
           /\ Bytes' = Bytes
           /\ \A i \in 0..Len(log) : Upto(i)' = Upto(i)
           /\ Len(log') = Len(log) + 1 /\ Taken =< Taken'
<1> DEFINE rest == Len(Bytes) - Upto(Len(taken))
           more == Upto(Len(taken)) + IF n < rest THEN n ELSE rest
<1>1. /\ rest > 0 /\ \A c \in members : F!CaughtUp(c)
      /\ log' = Append(log, Len(log) + 1) /\ taken' = Append(taken, more)
      /\ UNCHANGED <<members, since, received, stream, conn, collected>>
  BY DEF Report, F!TakeUp, sessionVars
<1>2. /\ Len(log) \in Nat /\ log \in Seq(Nat) /\ Len(taken) = Len(log)
      /\ taken \in Seq(0..Len(Bytes)) /\ Len(Bytes) \in Nat
      /\ Upto(Len(log)) \in 0..Len(Bytes)
      /\ \A i \in 1..Len(log) : log[i] = i
      /\ \A i, j \in 1..Len(log) : i =< j => taken[i] =< taken[j]
  BY UptoFacts, StreamFacts DEF ForwarderOK
<1>3. n \in Nat /\ n > 0
  BY PipelineAssumption
<1>4. more \in 0..Len(Bytes) /\ Upto(Len(log)) =< more
  BY <1>1, <1>2, <1>3
<1> HIDE DEF more, rest
<1>5. /\ log' \in Seq(Nat) /\ Len(log') = Len(log) + 1
      /\ \A i \in 1..Len(log) : log'[i] = log[i]
      /\ log'[Len(log) + 1] = Len(log) + 1
  BY <1>1, <1>2, AppendProperties
<1>6. /\ taken' \in Seq(0..Len(Bytes)) /\ Len(taken') = Len(log')
      /\ \A i \in 1..Len(log) : taken'[i] = taken[i]
      /\ taken'[Len(log) + 1] = more
  BY <1>1, <1>2, <1>4, <1>5, AppendProperties
<1>7. Bytes' = Bytes
  BY <1>1 DEF Bytes
<1>8. \A i \in 0..Len(log) : Upto(i)' = Upto(i)
  BY <1>2, <1>6 DEF Upto
<1>9. Taken' = more /\ Taken = Upto(Len(log))
  BY <1>2, <1>5, <1>6 DEF Taken, Upto
<1>10. \A i \in 1..Len(log') : log'[i] = i
  BY <1>2, <1>5
<1>11. ASSUME NEW i \in 1..Len(log'), NEW j \in 1..Len(log'), i =< j
       PROVE  taken'[i] =< taken'[j]
  <2>1. CASE j \in 1..Len(log)
    <3>1. i \in 1..Len(log)
      BY <1>2, <1>5, <1>11, <2>1
    <3>2. taken[i] =< taken[j]
      BY <1>2, <1>11, <2>1, <3>1
    <3> QED
      BY <1>6, <2>1, <3>1, <3>2
  <2>2. CASE j = Len(log) + 1
    <3>1. CASE i = Len(log) + 1
      BY <1>4, <1>6, <2>2, <3>1
    <3>2. CASE i # Len(log) + 1
      <4>1. i \in 1..Len(log) /\ Len(log) \in 0..Len(log) /\ i \in 0..Len(log)
        BY <1>2, <1>5, <3>2
      <4>2. Upto(i) =< Upto(Len(log)) /\ Upto(i) \in 0..Len(Bytes)
        BY <4>1, UptoFacts
      <4>3. taken'[i] = Upto(i)
        BY <1>6, <4>1 DEF Upto
      <4> QED
        BY <1>2, <1>4, <1>6, <2>2, <4>2, <4>3
    <3> QED
      BY <3>1, <3>2
  <2> QED
    BY <1>2, <1>5, <2>1, <2>2
<1>12. ForwarderOK'
  BY <1>1, <1>5, <1>6, <1>7, <1>10, <1>11 DEF ForwarderOK
<1>13. Served'
  <2> SUFFICES ASSUME conn \in members PROVE Served'
    BY <1>1 DEF Served
  <2>1. since[conn] + Len(received[conn]) = Len(log)
    BY <1>1, ServedFacts
  <2>2. since[conn] \in 0..Len(log)
    BY ServedFacts
  <2>3. since[conn] =< Len(log') /\ since[conn] + Len(received[conn]) = Len(log') - 1
    BY <1>2, <1>5, <2>1, <2>2
  <2> QED
    BY <1>1, <2>3 DEF Served
<1> QED
  BY <1>4, <1>5, <1>7, <1>8, <1>9, <1>12, <1>13

(* It is written to the collector, which now has every report.             *)
LEMMA DeliverForwarder ==
    ASSUME ForwarderOK, Served, Deliver
    PROVE  /\ ForwarderOK' /\ Served' /\ conn \in members
           /\ Bytes' = Bytes /\ Joined' = Joined
           /\ Taken' = Taken
           /\ Len(log) >= 1 /\ Arrived = Upto(Len(log) - 1)
           /\ Arrived' = Taken
<1>1. /\ conn \in members /\ ~F!CaughtUp(conn)
      /\ received' = [received EXCEPT ![conn] = Append(@, log[Len(log)])]
      /\ UNCHANGED <<log, members, since, stream, taken, conn, collected>>
  BY DEF Deliver, F!Deliver, deviceVars, sessionVars
<1>2. /\ conn \in 1..MaxJoins /\ members = {conn}
      /\ since[conn] \in 0..Len(log) /\ Len(received[conn]) \in Nat
      /\ since[conn] + Len(received[conn]) # Len(log)
  BY <1>1, ServedFacts
<1>3. /\ since[conn] + Len(received[conn]) = Len(log) - 1 /\ Len(log) \in Nat
      /\ \A k \in 1..Len(received[conn]) : received[conn][k] = since[conn] + k
  BY <1>1, <1>2, UptoFacts DEF Served
<1>4. Len(log) >= 1 /\ log[Len(log)] = Len(log)
  BY <1>2, <1>3 DEF ForwarderOK
<1>5. /\ received \in [1..MaxJoins -> Seq(Nat)] /\ received[conn] \in Seq(Nat)
  BY <1>2 DEF ForwarderOK
<1>6. received'[conn] = Append(received[conn], Len(log))
  BY <1>1, <1>2, <1>4, <1>5
<1>7. /\ received'[conn] \in Seq(Nat)
      /\ Len(received'[conn]) = Len(received[conn]) + 1
      /\ \A k \in 1..Len(received[conn]) : received'[conn][k] = received[conn][k]
      /\ received'[conn][Len(received[conn]) + 1] = Len(log)
  BY <1>3, <1>5, <1>6, AppendProperties
<1>8. received' \in [1..MaxJoins -> Seq(Nat)]
  BY <1>1, <1>5, <1>7
<1>9. ForwarderOK'
  <2>1. Bytes' = Bytes
    BY <1>1 DEF Bytes
  <2> QED
    BY <1>1, <1>8, <2>1 DEF ForwarderOK
<1>10. since[conn] + Len(received'[conn]) = Len(log)
  BY <1>2, <1>3, <1>7
<1>11. ASSUME NEW k \in 1..Len(received'[conn])
       PROVE  received'[conn][k] = since[conn] + k
  <2>1. CASE k \in 1..Len(received[conn])
    BY <1>3, <1>7, <2>1
  <2>2. CASE k = Len(received[conn]) + 1
    <3>1. received'[conn][k] = Len(log)
      BY <1>7, <2>2, Zenon
    <3>2. since[conn] \in Nat /\ Len(received[conn]) \in Nat /\ Len(log) \in Nat
      BY <1>2, <1>3
    <3>3. since[conn] + (Len(received[conn]) + 1) = Len(log)
      BY <1>3, <3>2
    <3> QED
      BY <2>2, <3>1, <3>3, Zenon
  <2> QED
    BY <1>2, <1>7, <2>1, <2>2
<1>12. Served'
  BY <1>1, <1>2, <1>3, <1>10, <1>11 DEF Served
<1>13. Bytes' = Bytes /\ Joined' = Joined /\ Taken' = Taken
  BY <1>1 DEF Bytes, Joined, Taken, Upto
<1>14. Arrived' = Taken
  BY <1>1, <1>10 DEF Arrived, Taken, Upto
<1>15. Arrived = Upto(Len(log) - 1)
  BY <1>3 DEF Arrived
<1> QED
  BY <1>1, <1>4, <1>9, <1>12, <1>13, <1>14, <1>15

(* A connection begins with the next report.                               *)
LEMMA ConnectForwarder ==
    ASSUME ForwarderOK, Served, Connect
    PROVE  /\ ForwarderOK' /\ Served'
           /\ conn \notin members /\ conn' \in members'
           /\ Bytes' = Bytes /\ Taken' = Taken
           /\ Joined' = Taken /\ Arrived' = Taken
<1>1. /\ conn < MaxJoins /\ conn \notin members /\ conn' = conn + 1
      /\ received[conn + 1] = <<>>
      /\ members' = members \union {conn + 1}
      /\ since' = [since EXCEPT ![conn + 1] = Len(log)]
      /\ UNCHANGED <<log, received, stream, taken, collected>>
  BY DEF Connect, F!Join, deviceVars
<1>2. conn \in 0..MaxJoins /\ members = {} /\ MaxJoins \in Nat /\ Len(log) \in Nat
  BY <1>1, PipelineAssumption, UptoFacts DEF ForwarderOK
<1>3. conn' \in 1..MaxJoins /\ members' = {conn'}
  BY <1>1, <1>2
<1>4. /\ since' \in [1..MaxJoins -> Nat] /\ since'[conn'] = Len(log)
      /\ received'[conn'] = <<>> /\ Len(received'[conn']) = 0
  BY <1>1, <1>2, <1>3 DEF ForwarderOK
<1>5. Bytes' = Bytes
  BY <1>1 DEF Bytes
<1>6. ForwarderOK'
  BY <1>1, <1>3, <1>4, <1>5 DEF ForwarderOK
<1>7. Served'
  BY <1>1, <1>2, <1>4 DEF Served
<1>8. since'[conn'] + Len(received'[conn']) = Len(log)
  BY <1>2, <1>4
<1>9. Taken' = Taken /\ Joined' = Taken /\ Arrived' = Taken
  BY <1>1, <1>4, <1>8 DEF Taken, Joined, Arrived, Upto
<1> QED
  BY <1>1, <1>3, <1>5, <1>6, <1>7, <1>8, <1>9

(* It ends, and what it parsed is kept.                                    *)
LEMMA DisconnectForwarder ==
    ASSUME ForwarderOK, TypeOK, Disconnect
    PROVE  /\ ForwarderOK' /\ Served' /\ members' = {}
           /\ Bytes' = Bytes /\ Taken' = Taken
<1>1. /\ conn \in members /\ members' = members \ {conn}
      /\ collected' = collected \o parsed
      /\ UNCHANGED <<log, since, received, stream, taken, conn>>
  BY DEF Disconnect, F!Leave, deviceVars
<1>2. members' = {}
  BY <1>1 DEF ForwarderOK
<1>3. collected' \in Seq(Seq(Alphabet))
  BY <1>1, ConcatProperties DEF ForwarderOK, TypeOK
<1>4. Bytes' = Bytes /\ Taken' = Taken
  BY <1>1 DEF Bytes, Taken, Upto
<1>5. ForwarderOK'
  BY <1>1, <1>2, <1>3, <1>4 DEF ForwarderOK
<1> QED
  BY <1>2, <1>4, <1>5 DEF Served

-----------------------------------------------------------------------------
(* What is between the station and the parser.                             *)

(* The numbers of a connection.                                            *)
LEMMA Positions ==
    ASSUME TypeOK, ForwarderOK, Served, InTransit, conn \in members
    PROVE  /\ Len(wire) \in Nat /\ Len(m_recvBuffer) \in Nat
           /\ Len(window) \in Nat /\ pos \in 0..Len(m_recvBuffer)
           /\ Joined \in Nat /\ Arrived \in 0..Len(Bytes) /\ Len(Bytes) \in Nat
           /\ Arrived =< Taken
           /\ Opened \in Nat /\ Joined =< Opened /\ Decoded \in Nat
           /\ Opened + Len(window) = Decoded
           /\ Decoded + (Len(m_recvBuffer) - pos) + Len(wire) = Arrived
<1>1. /\ Len(wire) \in Nat /\ Len(m_recvBuffer) \in Nat
      /\ Len(window) \in Nat /\ pos \in 0..Len(m_recvBuffer)
  BY LenProperties DEF TypeOK
<1>2. Joined \in Nat /\ Arrived \in 0..Len(Bytes) /\ Arrived =< Taken
  BY ServedFacts DEF Taken
<1>3. Len(Bytes) \in Nat /\ Joined =< Opened
  BY StreamFacts DEF ForwarderOK, InTransit
<1> QED
  BY <1>1, <1>2, <1>3 DEF Decoded, Opened

LEMMA ReportTransit ==
    ASSUME PInv, NEW n \in ReportSizes, Report(n)
    PROVE  /\ PInv' /\ UNCHANGED vars
           /\ UNCHANGED <<stream, since, received, conn, members, collected>>
           /\ conn \in members => UNCHANGED <<Joined, Arrived>>
<1>1. /\ UNCHANGED vars /\ UNCHANGED <<since, received, conn, members>>
      /\ UNCHANGED <<stream, collected>>
  BY DEF Report, F!TakeUp, sessionVars
<1>2. /\ ForwarderOK' /\ Served' /\ Bytes' = Bytes
      /\ \A i \in 0..Len(log) : Upto(i)' = Upto(i)
  BY ReportForwarder DEF PInv
<1>3. ASSUME conn \in members PROVE Joined' = Joined /\ Arrived' = Arrived
  <2>1. /\ since[conn] \in 0..Len(log) /\ Len(log) \in Nat
        /\ since[conn] + Len(received[conn]) \in 0..Len(log)
    <3>1. /\ since[conn] \in 0..Len(log) /\ Len(received[conn]) \in Nat
          /\ Len(log) \in Nat
      BY <1>3, ServedFacts, UptoFacts DEF PInv
    <3>2. since[conn] + Len(received[conn]) \in {Len(log) - 1, Len(log)}
      BY <1>3 DEF PInv, Served
    <3> QED
      BY <3>1, <3>2
  <2>2. /\ taken'[since[conn]] = taken[since[conn]] \/ since[conn] = 0
        /\ \/ taken'[since[conn] + Len(received[conn])]
                 = taken[since[conn] + Len(received[conn])]
           \/ since[conn] + Len(received[conn]) = 0
    BY <1>2, <2>1 DEF Upto
  <2> QED
    BY <1>1, <2>2 DEF Joined, Arrived, Upto
<1>4. RInv'
  <2>1. Inv'
    BY <1>1, UnchangedInv DEF PInv, RInv
  <2> QED
    BY <1>1, <2>1, NoByteStep DEF PInv, RInv, vars, decoderVars
<1>5. InTransit'
  BY <1>1, <1>2, <1>3
  DEF PInv, InTransit, Decoded, Opened, vars, ioVars, decoderVars
<1>6. Idle'
  BY <1>1 DEF PInv, Idle, vars, ioVars, decoderVars
<1> QED
  BY <1>1, <1>2, <1>3, <1>4, <1>5, <1>6 DEF PInv

LEMMA DeliverTransit ==
    ASSUME PInv, Deliver
    PROVE  /\ PInv' /\ conn \in members
           /\ UNCHANGED <<stream, since, conn, members, collected, log>>
           /\ UNCHANGED <<m_state, m_pos, m_data, messages, parsed, window>>
           /\ UNCHANGED <<Joined, Decoded, Opened, Taken>>
<1> DEFINE burst == SubSeq(Bytes, Upto(Len(log) - 1) + 1, Upto(Len(log)))
<1>1. /\ Arrive(burst) /\ UNCHANGED <<since, conn, members, stream, collected, log>>
  BY DEF Deliver, F!Deliver, deviceVars, sessionVars
<1>2. /\ ForwarderOK' /\ Served' /\ Bytes' = Bytes /\ Joined' = Joined
      /\ Taken' = Taken /\ conn \in members /\ Len(log) >= 1
      /\ Arrived = Upto(Len(log) - 1) /\ Arrived' = Taken
  BY DeliverForwarder DEF PInv
<1>3. burst = SubSeq(Bytes, Arrived + 1, Taken)
  BY <1>2 DEF Taken
<1>4. /\ Len(wire) \in Nat /\ Len(m_recvBuffer) \in Nat
      /\ Len(window) \in Nat /\ pos \in 0..Len(m_recvBuffer)
      /\ Arrived \in Nat /\ Arrived =< Taken
  BY <1>2, Positions DEF PInv, RInv, Inv
<1>5. Taken \in 0..Len(Bytes) /\ Len(Bytes) \in Nat /\ Bytes \in Seq(Alphabet)
  <2>1. Len(log) \in 0..Len(log)
    BY <1>2, UptoFacts DEF PInv
  <2> QED
    BY <2>1, UptoFacts, StreamFacts DEF PInv, ForwarderOK, Taken
<1>6. Arrived \in 0..Len(Bytes)
  BY <1>4, <1>5
<1>7. burst \in Seq(Alphabet)
  BY <1>3, <1>4, <1>5, <1>6, Middle
<1>8. /\ Len(burst) = Taken - Arrived /\ Len(burst) \in Nat
      /\ \A i \in 1..Len(burst) : burst[i] = Bytes[Arrived + i]
  <2>1. LET part == SubSeq(Bytes, Arrived + 1, Taken) IN
        /\ Len(part) = Taken - Arrived /\ Taken - Arrived \in Nat
        /\ \A i \in 1..Taken - Arrived : part[i] = Bytes[Arrived + i]
    BY <1>4, <1>5, <1>6, Middle
  <2> HIDE DEF burst
  <2> QED
    BY <1>3, <2>1
<1> HIDE DEF burst
<1>9. RInv'
  <2>1. Inv'
    BY <1>1, <1>7, ArriveInv DEF PInv, RInv
  <2> QED
    BY <1>1, <2>1, NoByteStep DEF PInv, RInv, Arrive, decoderVars
<1>10. /\ wire' = wire \o burst /\ wire \in Seq(Alphabet)
       /\ UNCHANGED <<reading, m_recvBuffer, pos, m_state, m_pos, m_data>>
       /\ UNCHANGED <<messages, parsed, window>>
  BY <1>1 DEF Arrive, decoderVars, PInv, RInv, Inv, TypeOK
<1>11. /\ Len(wire') = Len(wire) + Len(burst)
       /\ \A k \in 1..Len(wire) + Len(burst) :
             wire'[k] = IF k =< Len(wire) THEN wire[k] ELSE burst[k - Len(wire)]
  BY <1>7, <1>10, ConcatProperties
<1>12. Arrived' - Len(wire') = Arrived - Len(wire)
  BY <1>2, <1>4, <1>5, <1>8, <1>11
<1>13. Decoded' = Decoded /\ Opened' = Opened
  BY <1>10, <1>12 DEF Decoded, Opened
<1>14. ASSUME NEW k \in 1..Len(wire') PROVE wire'[k] = Bytes[Arrived' - Len(wire') + k]
  <2>1. CASE k =< Len(wire)
    <3>1. k \in 1..Len(wire)
      BY <1>4, <2>1
    <3>2. wire[k] = Bytes[Arrived - Len(wire) + k]
      BY <1>2, <3>1 DEF PInv, InTransit
    <3> QED
      BY <1>11, <1>12, <2>1, <3>2
  <2>2. CASE ~(k =< Len(wire))
    <3>1. k - Len(wire) \in 1..Len(burst)
      BY <1>4, <1>8, <1>11, <2>2
    <3>2. wire'[k] = Bytes[Arrived + (k - Len(wire))]
      BY <1>8, <1>11, <2>2, <3>1
    <3>3. Arrived + (k - Len(wire)) = Arrived' - Len(wire') + k
      BY <1>4, <1>12
    <3> QED
      BY <3>2, <3>3
  <2> QED
    BY <2>1, <2>2
<1>15. InTransit'
  BY <1>1, <1>2, <1>10, <1>13, <1>14 DEF PInv, InTransit
<1>16. Idle'
  BY <1>1, <1>2 DEF Idle
<1> QED
  BY <1>1, <1>2, <1>9, <1>10, <1>13, <1>15, <1>16 DEF PInv

LEMMA ConnectTransit ==
    ASSUME PInv, Connect
    PROVE  /\ PInv' /\ conn \notin members /\ conn' \in members'
           /\ UNCHANGED <<vars, stream, collected>>
           /\ Taken' = Taken /\ Joined' = Taken /\ Opened' = Taken
           /\ parsed = <<>>
<1>1. /\ UNCHANGED vars /\ UNCHANGED <<stream, collected>>
  BY DEF Connect, deviceVars
<1>2. /\ ForwarderOK' /\ Served' /\ Bytes' = Bytes
      /\ conn \notin members /\ conn' \in members'
      /\ Taken' = Taken /\ Joined' = Taken /\ Arrived' = Taken
  BY ConnectForwarder DEF PInv
<1>3. /\ wire = <<>> /\ m_recvBuffer = <<>> /\ pos = 0 /\ reading
      /\ window = <<>> /\ parsed = <<>>
  BY <1>2 DEF PInv, Idle
<1>4. /\ wire' = <<>> /\ m_recvBuffer' = <<>> /\ pos' = 0 /\ window' = <<>>
      /\ reading'
  BY <1>1, <1>3 DEF vars, ioVars, decoderVars
<1>5. Taken \in Nat
  BY UptoFacts DEF PInv, Taken
<1>6. Decoded' = Taken /\ Opened' = Taken
  BY <1>2, <1>4, <1>5 DEF Decoded, Opened
<1>7. RInv'
  <2>1. Inv'
    BY <1>1, UnchangedInv DEF PInv, RInv
  <2> QED
    BY <1>1, <2>1, NoByteStep DEF PInv, RInv, vars, decoderVars
<1>8. InTransit'
  BY <1>2, <1>4, <1>5, <1>6 DEF InTransit
<1>9. Idle'
  BY <1>2 DEF Idle
<1> QED
  BY <1>1, <1>2, <1>3, <1>6, <1>7, <1>8, <1>9 DEF PInv

LEMMA DisconnectTransit ==
    ASSUME PInv, Disconnect
    PROVE  /\ PInv' /\ conn \in members /\ conn' \notin members'
           /\ collected' = collected \o parsed /\ parsed' = <<>>
           /\ UNCHANGED <<stream, Taken>>
<1>1. /\ conn \in members /\ collected' = collected \o parsed
      /\ wire' = <<>> /\ sent' = <<>> /\ messages' = <<>> /\ parsed' = <<>>
      /\ reading' = TRUE /\ m_recvBuffer' = <<>> /\ pos' = 0
      /\ StartOver /\ UNCHANGED <<preamble, stream>>
  BY DEF Disconnect, deviceVars
<1>2. ForwarderOK' /\ Served' /\ members' = {} /\ Taken' = Taken
  BY DisconnectForwarder DEF PInv, RInv, Inv
<1>3. TypeOK'
  BY <1>1 DEF PInv, RInv, Inv, TypeOK, StartOver, States
<1>4. PacketPosition' /\ MessageLength'
  BY <1>1 DEF PacketPosition, MessageLength, StartOver, Reserved
<1>5. WindowMatches'
  BY <1>1, StartOverMatches
<1>6. InTransit' /\ Idle'
  BY <1>1, <1>2 DEF InTransit, Idle, StartOver
<1> QED
  BY <1>1, <1>2, <1>3, <1>4, <1>5, <1>6 DEF PInv, RInv, Inv

Elsewhere == <<deviceVars, forwarderVars, sessionVars>>

LEMMA ReadTransit ==
    ASSUME PInv, NEW n \in 1..Len(wire), ReadComplete(n), UNCHANGED Elsewhere
    PROVE  /\ PInv' /\ conn \in members
           /\ UNCHANGED <<m_state, m_pos, m_data, messages, parsed, window>>
           /\ UNCHANGED <<Joined, Arrived, Decoded, Opened, Taken>>
<1>1. /\ reading /\ reading' = FALSE /\ pos' = 0
      /\ m_recvBuffer' = SubSeq(wire, 1, n)
      /\ wire' = SubSeq(wire, n + 1, Len(wire))
      /\ UNCHANGED <<m_state, m_pos, m_data, messages, parsed, window>>
  BY DEF ReadComplete
<1>2. /\ ForwarderOK' /\ Served' /\ Bytes' = Bytes /\ Taken' = Taken
      /\ Joined' = Joined /\ Arrived' = Arrived
      /\ UNCHANGED <<conn, members>>
  BY ForwarderKept
  DEF PInv, Elsewhere, deviceVars, forwarderVars, sessionVars
<1>3. conn \in members
  <2>1. wire # <<>>
    BY DEF PInv, RInv, Inv, TypeOK
  <2> QED
    BY <2>1 DEF PInv, Idle
<1>4. /\ wire \in Seq(Alphabet) /\ Len(wire) \in Nat
      /\ n \in 0..Len(wire) /\ Len(wire) \in 0..Len(wire) /\ 0 \in 0..Len(wire)
      /\ Len(m_recvBuffer) \in Nat /\ pos = Len(m_recvBuffer)
      /\ Len(window) \in Nat /\ Arrived \in Nat
      /\ Opened \in Nat /\ Joined =< Opened
  BY <1>1, <1>3, Positions DEF PInv, RInv, Inv, TypeOK, InTransit
<1>5. /\ Len(wire') = Len(wire) - n
      /\ \A k \in 1..Len(wire') : wire'[k] = wire[n + k]
  <2>1. LET part == SubSeq(wire, n + 1, Len(wire)) IN
        /\ Len(part) = Len(wire) - n
        /\ \A k \in 1..Len(wire) - n : part[k] = wire[n + k]
    BY <1>4, Middle
  <2> QED
    BY <1>1, <2>1
<1>6. /\ Len(m_recvBuffer') = n
      /\ \A k \in 1..n : m_recvBuffer'[k] = wire[k]
  <2>1. LET part == SubSeq(wire, 0 + 1, n) IN
        /\ Len(part) = n - 0
        /\ \A k \in 1..n - 0 : part[k] = wire[0 + k]
    BY <1>4, Middle
  <2>2. n - 0 = n /\ 0 + 1 = 1 /\ \A k \in 1..n : 0 + k = k
    BY <1>4
  <2> QED
    BY <1>1, <2>1, <2>2
<1>7. Decoded' = Arrived - Len(wire) /\ Decoded = Arrived - Len(wire)
  <2>1. Decoded' = Arrived - (Len(wire) - n) - (n - 0)
    <3>1. pos' = 0 /\ Arrived' = Arrived
      BY <1>1, <1>2
    <3> QED
      BY <1>5, <1>6, <3>1 DEF Decoded
  <2>2. Decoded = Arrived - Len(wire) - (Len(m_recvBuffer) - Len(m_recvBuffer))
    BY <1>4 DEF Decoded
  <2> QED
    BY <1>4, <2>1, <2>2
<1>8. Decoded' = Decoded /\ Opened' = Opened
  BY <1>1, <1>7 DEF Opened
<1>9. RInv'
  <2>1. Inv'
    BY ReadCompleteInv DEF PInv, RInv
  <2> QED
    BY <1>1, <2>1, NoByteStep DEF PInv, RInv
<1>10. \A k \in 1..Len(wire) : wire[k] = Bytes[Arrived - Len(wire) + k]
  BY <1>3 DEF PInv, InTransit
<1>11. ASSUME NEW k \in 1..Len(wire')
       PROVE  wire'[k] = Bytes[Arrived' - Len(wire') + k]
  <2>1. n + k \in 1..Len(wire)
    BY <1>4, <1>5
  <2>2. Arrived - Len(wire) + (n + k) = Arrived' - Len(wire') + k
    BY <1>2, <1>4, <1>5
  <2> QED
    BY <1>5, <1>10, <2>1, <2>2
<1>12. ASSUME NEW k \in pos' + 1..Len(m_recvBuffer')
       PROVE  m_recvBuffer'[k] = Bytes[Decoded' - pos' + k]
  <2>1. k \in 1..n /\ k \in 1..Len(wire)
    BY <1>1, <1>4, <1>6
  <2>2. Decoded' - pos' + k = Arrived - Len(wire) + k
    BY <1>1, <1>4, <1>7
  <2> QED
    BY <1>6, <1>10, <2>1, <2>2
<1>13. InTransit'
  BY <1>1, <1>2, <1>8, <1>11, <1>12 DEF PInv, InTransit
<1>14. Idle'
  BY <1>2, <1>3 DEF Idle
<1> QED
  BY <1>1, <1>2, <1>3, <1>8, <1>9, <1>13, <1>14 DEF PInv

LEMMA ReadStartTransit ==
    ASSUME PInv, ReadStart, UNCHANGED Elsewhere
    PROVE  /\ PInv' /\ conn \in members
           /\ UNCHANGED <<m_state, m_pos, m_data, messages, parsed, window>>
           /\ UNCHANGED <<Joined, Arrived, Decoded, Opened, Taken>>
<1>1. /\ ~reading /\ pos = Len(m_recvBuffer)
      /\ UNCHANGED <<wire, m_recvBuffer, pos>>
      /\ UNCHANGED <<m_state, m_pos, m_data, messages, parsed, window>>
  BY DEF ReadStart, decoderVars
<1>2. /\ ForwarderOK' /\ Served' /\ Bytes' = Bytes /\ Taken' = Taken
      /\ Joined' = Joined /\ Arrived' = Arrived
      /\ UNCHANGED <<conn, members>>
  BY ForwarderKept
  DEF PInv, Elsewhere, deviceVars, forwarderVars, sessionVars
<1>3. conn \in members
  BY <1>1 DEF PInv, Idle
<1>4. Decoded' = Decoded /\ Opened' = Opened
  BY <1>1, <1>2 DEF Decoded, Opened
<1>5. RInv'
  <2>1. Inv'
    BY ReadStartInv DEF PInv, RInv
  <2> QED
    BY <1>1, <2>1, NoByteStep DEF PInv, RInv
<1>6. InTransit'
  BY <1>1, <1>2, <1>4 DEF PInv, InTransit
<1>7. Idle'
  BY <1>2, <1>3 DEF Idle
<1> QED
  BY <1>1, <1>2, <1>3, <1>4, <1>5, <1>6, <1>7 DEF PInv

(* The loop takes the next byte of the stream.                             *)
LEMMA ByteTransit ==
    ASSUME PInv, DecodeByte, UNCHANGED Elsewhere
    PROVE  /\ PInv' /\ conn \in members
           /\ Decoded + 1 \in 1..Len(Bytes) /\ dataByte = Bytes[Decoded + 1]
           /\ Decoded' = Decoded + 1
           /\ \/ window' = <<>> /\ Opened' = Decoded + 1
              \/ window' = Append(window, dataByte) /\ Opened' = Opened
           /\ UNCHANGED <<Joined, Arrived, Taken>>
<1>1. TakeByte /\ (window' = <<>> \/ window' = Append(window, dataByte))
  BY DEF DecodeByte, StartMarkerByte, FlagsByte, TypeByte, DataByte, StartOver
<1>2. /\ ~reading /\ pos < Len(m_recvBuffer) /\ pos' = pos + 1
      /\ UNCHANGED <<wire, reading, m_recvBuffer>>
  BY <1>1 DEF TakeByte, Decoding, ioVars
<1>3. /\ ForwarderOK' /\ Served' /\ Bytes' = Bytes /\ Taken' = Taken
      /\ Joined' = Joined /\ Arrived' = Arrived
      /\ UNCHANGED <<conn, members>>
  BY ForwarderKept
  DEF PInv, Elsewhere, deviceVars, forwarderVars, sessionVars
<1>4. conn \in members
  BY <1>2 DEF PInv, Idle
<1>5. /\ Len(wire) \in Nat /\ Len(m_recvBuffer) \in Nat
      /\ Len(window) \in Nat /\ pos \in Nat
      /\ Arrived \in Nat /\ Arrived =< Len(Bytes) /\ Len(Bytes) \in Nat
      /\ Opened \in Nat /\ Joined \in Nat /\ Joined =< Opened /\ Decoded \in Nat
      /\ Opened + Len(window) = Decoded
      /\ Decoded + (Len(m_recvBuffer) - pos) + Len(wire) = Arrived
  BY <1>4, Positions DEF PInv, RInv, Inv
<1>6. Decoded + 1 \in 1..Len(Bytes)
  BY <1>2, <1>5
<1>7. dataByte = Bytes[Decoded + 1]
  <2>1. pos + 1 \in pos + 1..Len(m_recvBuffer) /\ Decoded - pos + (pos + 1) = Decoded + 1
    BY <1>2, <1>5
  <2>2. m_recvBuffer[pos + 1] = Bytes[Decoded - pos + (pos + 1)]
    BY <1>4, <2>1 DEF PInv, InTransit
  <2> QED
    BY <2>1, <2>2 DEF dataByte
<1>8. Decoded' = Decoded + 1
  BY <1>2, <1>3, <1>5 DEF Decoded
<1>9. RInv' /\ dataByte \in Alphabet /\ window \in Seq(Alphabet)
  BY DecodeByteStep DEF PInv, RInv, Inv, TypeOK
<1>10. \/ window' = <<>> /\ Opened' = Decoded + 1
       \/ window' = Append(window, dataByte) /\ Opened' = Opened
  <2>1. CASE window' = <<>>
    <3>1. Len(window') = 0
      BY <2>1
    <3> QED
      BY <1>5, <1>8, <2>1, <3>1 DEF Opened
  <2>2. CASE window' = Append(window, dataByte)
    <3>1. Len(window') = Len(window) + 1
      BY <1>9, <2>2, AppendByte
    <3> QED
      BY <1>5, <1>8, <2>2, <3>1 DEF Opened
  <2> QED
    BY <1>1, <2>1, <2>2
<1>11. \A k \in 1..Len(window') : window'[k] = Bytes[Opened' + k]
  <2>1. CASE window' = <<>>
    BY <2>1
  <2>2. CASE window' = Append(window, dataByte) /\ Opened' = Opened
    <3>1. /\ Len(window') = Len(window) + 1
          /\ \A k \in 1..Len(window) : window'[k] = window[k]
          /\ window'[Len(window) + 1] = dataByte
      BY <1>9, <2>2, AppendByte
    <3>2. \A k \in 1..Len(window) : window[k] = Bytes[Opened + k]
      BY <1>4 DEF PInv, InTransit
    <3>3. window'[Len(window) + 1] = Bytes[Opened + (Len(window) + 1)]
      <4>1. Opened + (Len(window) + 1) = Decoded + 1
        BY <1>5
      <4> QED
        BY <1>7, <3>1, <4>1
    <3>4. \A k \in 1..Len(window') : k \in 1..Len(window) \/ k = Len(window) + 1
      BY <1>5, <3>1
    <3> QED
      BY <2>2, <3>1, <3>2, <3>3, <3>4
  <2> QED
    BY <1>10, <2>1, <2>2
<1>12. ASSUME NEW k \in pos' + 1..Len(m_recvBuffer')
       PROVE  m_recvBuffer'[k] = Bytes[Decoded' - pos' + k]
  <2>1. k \in pos + 1..Len(m_recvBuffer) /\ Decoded' - pos' + k = Decoded - pos + k
    BY <1>2, <1>5, <1>8
  <2> QED
    BY <1>2, <1>4, <2>1 DEF PInv, InTransit
<1>13. InTransit'
  <2>1. Joined' =< Opened'
    BY <1>3, <1>5, <1>10
  <2> QED
    BY <1>2, <1>3, <1>11, <1>12, <2>1 DEF PInv, InTransit
<1>14. Idle'
  BY <1>3, <1>4 DEF Idle
<1> QED
  BY <1>3, <1>4, <1>6, <1>7, <1>8, <1>9, <1>10, <1>13, <1>14 DEF PInv

(* The decoder's part of the next-state relation.                          *)
LEMMA DecodeCases ==
    ASSUME Decode
    PROVE  /\ UNCHANGED Elsewhere
           /\ \/ \E n \in 1..Len(wire) : ReadComplete(n)
              \/ DecodeByte
              \/ ReadStart
BY DEF Decode, DecodeByte, Elsewhere

LEMMA StutterInv == ASSUME PInv, UNCHANGED pipelineVars PROVE PInv'
<1>1. UNCHANGED vars /\ UNCHANGED Elsewhere
  BY DEF pipelineVars, Elsewhere
<1>2. /\ ForwarderOK' /\ Served' /\ Bytes' = Bytes
      /\ Joined' = Joined /\ Arrived' = Arrived /\ UNCHANGED <<conn, members>>
  BY <1>1, ForwarderKept
  DEF PInv, Elsewhere, deviceVars, forwarderVars, sessionVars
<1>3. RInv'
  <2>1. Inv'
    BY <1>1, UnchangedInv DEF PInv, RInv
  <2> QED
    BY <1>1, <2>1, NoByteStep DEF PInv, RInv, vars, decoderVars
<1>4. InTransit' /\ Idle'
  BY <1>1, <1>2
  DEF PInv, InTransit, Idle, Decoded, Opened, vars, ioVars, decoderVars
<1> QED
  BY <1>2, <1>3, <1>4 DEF PInv

LEMMA PipelineNextInv == PInv /\ [PipelineNext]_pipelineVars => PInv'
<1> SUFFICES ASSUME PInv, [PipelineNext]_pipelineVars PROVE PInv'
  OBVIOUS
<1>1. CASE Decode
  BY <1>1, DecodeCases, ReadTransit, ByteTransit, ReadStartTransit
<1> QED
  BY <1>1, ReportTransit, DeliverTransit, ConnectTransit, DisconnectTransit,
     StutterInv DEF PipelineNext

(* The types of the decoder hold over all connections: m_pos is not        *)
(* decremented below zero whatever the device says and wherever a          *)
(* connection begins (IoHandler.cpp:110-153, main.cpp:88-127).             *)
THEOREM PipelineTypes == PipelineSpec => []TypeOK
<1>1. PInv => TypeOK
  BY DEF PInv, RInv, Inv
<1> QED
  BY PipelineInitInv, PipelineNextInv, <1>1, PTL DEF PipelineSpec

(* So does the match of registers and window: a connection leaves nothing  *)
(* behind in the decoder of the next (IoHandler.cpp:110-153, main.cpp:127).*)
THEOREM PipelineWindow == PipelineSpec => []WindowMatches
<1>1. PInv => WindowMatches
  BY DEF PInv, RInv
<1> QED
  BY PipelineInitInv, PipelineNextInv, <1>1, PTL DEF PipelineSpec

(* A step of the pipeline takes a byte as FrameStream does, or it ends the *)
(* connection, or leaves window and messages alone.                        *)
LEMMA FramedStep ==
    ASSUME PInv, [PipelineNext]_pipelineVars
    PROVE  [\/ Decoding /\ FS!Receive(dataByte)
            \/ Disconnect]_<<window, messages>>
<1>1. CASE Decode
  <2>1. CASE DecodeByte
    <3>1. FS!Receive(dataByte)
      BY <2>1, DecodeByteStep DEF PInv
    <3>2. Decoding
      BY <2>1
      DEF DecodeByte, StartMarkerByte, FlagsByte, TypeByte, DataByte, TakeByte
    <3> QED
      BY <3>1, <3>2
  <2>2. CASE ~DecodeByte
    BY <1>1, <2>2, DecodeCases DEF ReadComplete, ReadStart, decoderVars
  <2> QED
    BY <2>1, <2>2
<1>2. ASSUME NEW n \in ReportSizes, Report(n) PROVE UNCHANGED <<window, messages>>
  BY <1>2 DEF Report, vars, decoderVars
<1>3. CASE Deliver
  BY <1>3 DEF Deliver, Arrive, decoderVars
<1>4. CASE Connect
  BY <1>4 DEF Connect, vars, decoderVars
<1>5. CASE UNCHANGED pipelineVars
  BY <1>5 DEF pipelineVars, vars, decoderVars
<1> QED
  BY <1>1, <1>2, <1>3, <1>4, <1>5 DEF PipelineNext

(* On every connection the decoder delivers what FrameStream promises,     *)
(* from the first byte on that the forwarder writes to it                  *)
(* (IoHandler.cpp:110-155, main.cpp:88-127).                               *)
THEOREM EveryConnectionFramed == PipelineSpec => EachConnectionFramed
<1>1. PipelineInit => FS!Init
  BY DEF PipelineInit, Init, FS!Init
<1>2. PInv /\ [PipelineNext]_pipelineVars =>
        [\/ Decoding /\ FS!Receive(dataByte)
         \/ Disconnect]_<<window, messages>>
  BY FramedStep
<1> QED
  BY PipelineInitInv, PipelineNextInv, <1>1, <1>2, PTL
  DEF PipelineSpec, EachConnectionFramed

-----------------------------------------------------------------------------
(* The marker the decoder has found, as a place in the stream.             *)
Found == Opened + MarkerPosition

LEMMA MarkerInStream ==
    ASSUME PInv, conn \in members, m_state # "StartMarker"
    PROVE  /\ Found \in Nat /\ Opened \in Nat /\ Found > Opened
           /\ Len(m_data) \in Nat /\ Found + 1 + Len(m_data) = Decoded
           /\ Bytes[Found] = 255 /\ Bytes[Found + 1] = 255
           /\ \A i \in Opened + 1..Found - 1 :
                 ~(Bytes[i] = 255 /\ Bytes[i + 1] = 255)
           /\ \A k \in 1..Len(m_data) : m_data[k] = Bytes[Found + 1 + k]
<1>1. /\ MarkerPosition \in 1..Len(window) - 1
      /\ window[MarkerPosition] = 255 /\ window[MarkerPosition + 1] = 255
      /\ \A i \in 1..MarkerPosition - 1 : ~(window[i] = 255 /\ window[i + 1] = 255)
      /\ \A k \in 1..Len(m_data) : m_data[k] = window[MarkerPosition + 1 + k]
  BY DEF PInv, RInv, WindowMatches, FS!MarkerAt, FS!Marker
<1>2. /\ Len(window) \in Nat /\ Opened \in Nat /\ Opened + Len(window) = Decoded
  BY Positions DEF PInv, RInv, Inv
<1>3. Len(m_data) \in Nat
  BY LenProperties DEF PInv, RInv, Inv, TypeOK
<1>4. MarkerPosition = Len(window) - Len(m_data) - 1
  BY DEF MarkerPosition
<1>5. \A k \in 1..Len(window) : window[k] = Bytes[Opened + k]
  BY DEF PInv, InTransit
<1>6. Found \in Nat /\ Found > Opened /\ Found + 1 + Len(m_data) = Decoded
  BY <1>1, <1>2, <1>3, <1>4 DEF Found
<1>7. Bytes[Found] = 255 /\ Bytes[Found + 1] = 255
  <2>1. /\ MarkerPosition \in 1..Len(window) /\ MarkerPosition + 1 \in 1..Len(window)
        /\ Opened + (MarkerPosition + 1) = Found + 1
    BY <1>1, <1>2 DEF Found
  <2> QED
    BY <1>1, <1>5, <2>1 DEF Found
<1>8. ASSUME NEW i \in Opened + 1..Found - 1
      PROVE  ~(Bytes[i] = 255 /\ Bytes[i + 1] = 255)
  <2>1. /\ i - Opened \in 1..MarkerPosition - 1
        /\ i - Opened \in 1..Len(window) /\ (i - Opened) + 1 \in 1..Len(window)
        /\ Opened + (i - Opened) = i /\ Opened + ((i - Opened) + 1) = i + 1
    BY <1>1, <1>2 DEF Found
  <2> QED
    BY <1>1, <1>5, <2>1
<1>9. ASSUME NEW k \in 1..Len(m_data) PROVE m_data[k] = Bytes[Found + 1 + k]
  <2>1. /\ MarkerPosition + 1 + k \in 1..Len(window)
        /\ Opened + (MarkerPosition + 1 + k) = Found + 1 + k
    BY <1>1, <1>2, <1>3, <1>4 DEF Found
  <2> QED
    BY <1>1, <1>5, <2>1
<1> QED
  BY <1>2, <1>3, <1>6, <1>7, <1>8, <1>9

(* What is collected with the byte just taken is what the stream has       *)
(* behind the marker.                                                      *)
LEMMA DataInStream ==
    ASSUME PInv, DecodeByte, UNCHANGED Elsewhere, m_state # "StartMarker"
    PROVE  LET data == Append(m_data, dataByte) IN
           /\ data \in Seq(Alphabet) /\ Len(data) = Len(m_data) + 1
           /\ \A k \in 1..Len(data) : data[k] = Bytes[Found + 1 + k]
           /\ Found + 1 + Len(data) = Decoded + 1
           /\ data = SubSeq(Bytes, Found + 2, Decoded + 1)
<1> DEFINE data == Append(m_data, dataByte)
<1>1. conn \in members /\ Decoded + 1 \in 1..Len(Bytes) /\ dataByte = Bytes[Decoded + 1]
  BY ByteTransit
<1>2. /\ Found \in Nat /\ Len(m_data) \in Nat /\ Found + 1 + Len(m_data) = Decoded
      /\ \A k \in 1..Len(m_data) : m_data[k] = Bytes[Found + 1 + k]
  BY <1>1, MarkerInStream
<1>3. /\ dataByte \in Alphabet /\ m_data \in Seq(Alphabet)
      /\ Bytes \in Seq(Alphabet) /\ Len(Bytes) \in Nat
  BY DecodeByteStep, StreamFacts DEF PInv, RInv, Inv, TypeOK, ForwarderOK
<1>4. /\ data \in Seq(Alphabet) /\ Len(data) = Len(m_data) + 1
      /\ \A k \in 1..Len(m_data) : data[k] = m_data[k]
      /\ data[Len(m_data) + 1] = dataByte
  BY <1>3, AppendByte
<1> HIDE DEF data
<1>5. Found + 1 + Len(data) = Decoded + 1
  BY <1>2, <1>4
<1>6. ASSUME NEW k \in 1..Len(data) PROVE data[k] = Bytes[Found + 1 + k]
  <2>1. CASE k \in 1..Len(m_data)
    BY <1>2, <1>4, <2>1
  <2>2. CASE k = Len(m_data) + 1
    <3>1. Found + 1 + k = Decoded + 1
      BY <1>2, <2>2
    <3> QED
      BY <1>1, <1>4, <2>2, <3>1
  <2> QED
    BY <1>2, <1>4, <2>1, <2>2
<1>7. data = SubSeq(Bytes, Found + 2, Decoded + 1)
  <2> DEFINE part == SubSeq(Bytes, (Found + 1) + 1, Decoded + 1)
  <2>1. /\ Found + 1 \in 0..Len(Bytes) /\ Decoded + 1 \in 0..Len(Bytes)
        /\ Found + 1 =< Decoded + 1 /\ (Found + 1) + 1 = Found + 2
        /\ (Decoded + 1) - (Found + 1) = Len(data)
    BY <1>1, <1>2, <1>3, <1>4, <1>5
  <2>2. /\ part \in Seq(Alphabet)
        /\ Len(part) = (Decoded + 1) - (Found + 1)
        /\ \A i \in 1..(Decoded + 1) - (Found + 1) : part[i] = Bytes[(Found + 1) + i]
    BY <1>3, <2>1, Middle
  <2> HIDE DEF part
  <2>3. data = part
    BY <1>4, <1>6, <2>1, <2>2, SeqEqual
  <2> QED
    BY <2>1, <2>3 DEF part
<1> QED
  BY <1>4, <1>5, <1>6, <1>7 DEF data

(* parse() is called on what the stream has behind a marker, complete to   *)
(* the length of its type and with a valid checksum, or not at all.        *)
LEMMA ParsedByte ==
    ASSUME PInv, DecodeByte, UNCHANGED Elsewhere, parsed' # parsed
    PROVE  /\ m_state = "Data"
           /\ parsed' = Append(parsed, SubSeq(Bytes, Found + 2, Decoded + 1))
           /\ LooksLikePacket(Bytes, Found, Decoded + 1)
           /\ Found > Opened /\ Opened' = Decoded + 1
<1> DEFINE data == Append(m_data, dataByte)
<1>1. /\ DataByte /\ m_state = "Data" /\ m_pos - 1 = 0
      /\ parsed' = Append(parsed, data) /\ IsValid(data) /\ StartOver
  BY DEF DecodeByte, StartMarkerByte, FlagsByte, TypeByte, DataByte
<1>2. conn \in members /\ Decoded + 1 \in 1..Len(Bytes)
  BY ByteTransit
<1>3. /\ Found \in Nat /\ Found > Opened
      /\ Bytes[Found] = 255 /\ Bytes[Found + 1] = 255
  BY <1>1, <1>2, MarkerInStream
<1>4. /\ Len(data) = Len(m_data) + 1
      /\ \A k \in 1..Len(data) : data[k] = Bytes[Found + 1 + k]
      /\ Found + 1 + Len(data) = Decoded + 1
      /\ data = SubSeq(Bytes, Found + 2, Decoded + 1)
  BY <1>1, DataInStream
<1>5. /\ Len(m_data) \in Nat /\ Len(m_data) >= 2 /\ m_data[2] \in MsgType
      /\ Len(m_data) + m_pos = packetLengthForType(m_data[2])
      /\ m_pos \in Nat /\ dataByte \in Alphabet /\ m_data \in Seq(Alphabet)
  BY <1>1, DecodeByteStep, LenProperties
  DEF PInv, RInv, Inv, TypeOK, PacketPosition
<1>6. data[2] = m_data[2] /\ m_data[2] = Bytes[Found + 3]
  <2>1. data[2] = m_data[2]
    BY <1>5, AppendByte
  <2>2. 2 \in 1..Len(data) /\ Found + 1 + 2 = Found + 3
    BY <1>3, <1>4, <1>5
  <2> QED
    BY <1>4, <2>1, <2>2
<1> HIDE DEF data
<1>7. Len(data) = packetLengthForType(Bytes[Found + 3])
  BY <1>1, <1>4, <1>5, <1>6
<1>8. /\ Found \in 1..Len(Bytes) /\ Decoded + 1 \in Found + 3..Len(Bytes)
      /\ Decoded + 1 = Found + 1 + packetLengthForType(Bytes[Found + 3])
  <2>1. Opened \in Nat
    BY <1>2, Positions DEF PInv, RInv, Inv
  <2> QED
    BY <1>2, <1>3, <1>4, <1>5, <1>7, <2>1
<1>9. DOMAIN Bytes = 1..Len(Bytes)
  BY StreamFacts, LenProperties DEF PInv, ForwarderOK
<1>10. LooksLikePacket(Bytes, Found, Decoded + 1)
  BY <1>1, <1>3, <1>4, <1>5, <1>6, <1>8, <1>9 DEF LooksLikePacket
<1>11. Opened' = Decoded + 1
  <2>1. window' = <<>>
    BY <1>1 DEF StartOver
  <2>2. window \in Seq(Alphabet)
    BY DEF PInv, RInv, Inv, TypeOK
  <2>3. Append(window, dataByte) # <<>>
    BY <1>5, <2>2, AppendProperties
  <2> QED
    BY <2>1, <2>3, ByteTransit
<1> QED
  BY <1>1, <1>3, <1>4, <1>10, <1>11

-----------------------------------------------------------------------------
(* What was parsed so far, over all connections.                           *)
LEMMA AllTypes ==
    ASSUME PInv
    PROVE  /\ All \in Seq(Seq(Alphabet)) /\ Len(All) \in Nat
           /\ DOMAIN All = 1..Len(All)
           /\ \A i \in 1..Len(All) : Len(All[i]) \in Nat
           /\ DOMAIN Bytes = 1..Len(Bytes) /\ Len(Bytes) \in Nat
           /\ Frontier \in Nat /\ Frontier =< Taken
<1>1. All \in Seq(Seq(Alphabet))
  BY ConcatProperties DEF PInv, RInv, Inv, TypeOK, ForwarderOK, All
<1>2. Len(All) \in Nat /\ DOMAIN All = 1..Len(All)
  BY <1>1, LenProperties
<1>3. \A i \in 1..Len(All) : Len(All[i]) \in Nat
  BY <1>1, ElementOfSeq, LenProperties
<1>4. DOMAIN Bytes = 1..Len(Bytes) /\ Len(Bytes) \in Nat
  BY StreamFacts, LenProperties DEF PInv, ForwarderOK
<1>5. Taken \in Nat
  BY UptoFacts DEF PInv, Taken
<1>6. Frontier \in Nat /\ Frontier =< Taken
  <2>1. CASE conn \in members
    <3>1. Opened \in Nat /\ Opened =< Taken
      BY <1>5, <2>1, Positions DEF PInv, RInv, Inv
    <3> QED
      BY <2>1, <3>1 DEF Frontier
  <2>2. CASE conn \notin members
    BY <1>5, <2>2 DEF Frontier
  <2> QED
    BY <2>1, <2>2
<1> QED
  BY <1>1, <1>2, <1>3, <1>4, <1>6

(* A step that parses nothing keeps the pieces.                            *)
LEMMA PiecesKept ==
    ASSUME PInv, PiecesBefore, All' = All, Bytes' = Bytes,
           Frontier' \in Nat, Frontier =< Frontier'
    PROVE  PiecesBefore'
<1>1. PICK at \in [DOMAIN All -> DOMAIN Bytes] :
          PiecesAt(at) /\ \A i \in DOMAIN All : End(at, i) =< Frontier
  BY DEF PiecesBefore
<1>2. \A i \in DOMAIN All : End(at, i)' = End(at, i)
  BY DEF End
<1>3. PiecesAt(at)'
  BY <1>1, <1>2 DEF PiecesAt
<1>4. \A i \in DOMAIN All : End(at, i)' =< Frontier'
  <2>1. Frontier \in Nat /\ Frontier' \in Nat
    BY AllTypes
  <2> SUFFICES ASSUME NEW i \in DOMAIN All PROVE End(at, i)' =< Frontier'
    OBVIOUS
  <2>2. End(at, i) \in Int
    <3>1. at[i] \in Int /\ Len(All[i]) \in Int
      BY AllTypes
    <3> QED
      BY <3>1 DEF End
  <2> QED
    BY <1>1, <1>2, <2>1, <2>2
<1> QED
  BY <1>3, <1>4 DEF PiecesBefore

(* A step that parses a packet adds a piece behind all others.             *)
LEMMA PieceAdded ==
    ASSUME PInv, PiecesBefore, DecodeByte, UNCHANGED Elsewhere, parsed' # parsed
    PROVE  PiecesBefore'
<1> DEFINE data == SubSeq(Bytes, Found + 2, Decoded + 1)
<1>0. PICK n : n = Len(All)
  OBVIOUS
<1>1. /\ parsed' = Append(parsed, data)
      /\ LooksLikePacket(Bytes, Found, Decoded + 1)
      /\ Found > Opened /\ Opened' = Decoded + 1
  BY ParsedByte
<1>2. /\ UNCHANGED <<collected, stream, conn, members>> /\ Bytes' = Bytes
      /\ conn \in members
  BY ByteTransit DEF Elsewhere, deviceVars, forwarderVars, sessionVars, Bytes
<1>3. /\ Opened \in Nat /\ Decoded \in Nat /\ Found \in 1..Len(Bytes)
      /\ Decoded + 1 \in Found + 3..Len(Bytes) /\ Len(Bytes) \in Nat
      /\ Bytes \in Seq(Alphabet) /\ DOMAIN Bytes = 1..Len(Bytes)
  <2>1. Opened \in Nat /\ Decoded \in Nat
    BY <1>2, Positions DEF PInv, RInv, Inv
  <2>2. /\ Len(Bytes) \in Nat /\ Bytes \in Seq(Alphabet)
        /\ DOMAIN Bytes = 1..Len(Bytes)
    BY StreamFacts, LenProperties DEF PInv, ForwarderOK
  <2>3. Found \in DOMAIN Bytes /\ Decoded + 1 \in Found + 3..Len(Bytes)
    BY <1>1 DEF LooksLikePacket
  <2> QED
    BY <2>1, <2>2, <2>3
<1>4. /\ All \in Seq(Seq(Alphabet)) /\ n \in Nat /\ DOMAIN All = 1..n
      /\ \A i \in 1..n : Len(All[i]) \in Nat
  BY <1>0, AllTypes
<1>5. data \in Seq(Alphabet) /\ Len(data) = Decoded - Found
  <2>1. /\ Found + 1 \in 0..Len(Bytes) /\ Decoded + 1 \in 0..Len(Bytes)
        /\ Found + 1 =< Decoded + 1 /\ (Found + 1) + 1 = Found + 2
        /\ (Decoded + 1) - (Found + 1) = Decoded - Found
    BY <1>3
  <2>2. /\ SubSeq(Bytes, (Found + 1) + 1, Decoded + 1) \in Seq(Alphabet)
        /\ Len(SubSeq(Bytes, (Found + 1) + 1, Decoded + 1))
              = (Decoded + 1) - (Found + 1)
    BY <1>3, <2>1, Middle
  <2> QED
    BY <2>1, <2>2
<1> HIDE DEF data
<1>6. All' = Append(All, data)
  <2>1. /\ collected \in Seq(Seq(Alphabet)) /\ parsed \in Seq(Seq(Alphabet))
    BY DEF PInv, RInv, Inv, TypeOK, ForwarderOK
  <2>2. All' = collected \o Append(parsed, data)
    BY <1>1, <1>2 DEF All
  <2>3. Append(parsed, data) = parsed \o <<data>> /\ <<data>> \in Seq(Seq(Alphabet))
    BY <1>5, <2>1, AppendIsConcat
  <2>4. collected \o (parsed \o <<data>>) = (collected \o parsed) \o <<data>>
    BY <2>1, <2>3, ConcatAssociative
  <2>5. Append(All, data) = All \o <<data>>
    BY <1>4, <1>5, AppendIsConcat
  <2> QED
    BY <2>2, <2>3, <2>4, <2>5 DEF All
<1>7. /\ Len(All') = n + 1 /\ DOMAIN All' = 1..n + 1
      /\ \A i \in 1..n : All'[i] = All[i]
      /\ All'[n + 1] = data
  BY <1>0, <1>4, <1>5, <1>6, AppendProperties, LenProperties
<1>8. PICK at \in [1..n -> 1..Len(Bytes)] :
          PiecesAt(at) /\ \A i \in 1..n : End(at, i) =< Opened
  BY <1>2, <1>3, <1>4 DEF PiecesBefore, Frontier
<1>9. PICK new : new = [i \in 1..n + 1 |-> IF i \in 1..n THEN at[i] ELSE Found]
  OBVIOUS
<1>10. /\ new \in [1..n + 1 -> 1..Len(Bytes)]
       /\ \A i \in 1..n : new[i] = at[i]
       /\ new[n + 1] = Found
  BY <1>3, <1>4, <1>8, <1>9
<1>11. /\ \A i \in 1..n : End(new, i)' = End(at, i) /\ End(at, i) \in Int
       /\ End(new, n + 1)' = Decoded + 1
  <2>1. \A i \in 1..n : End(new, i)' = End(at, i)
    BY <1>7, <1>10 DEF End
  <2>2. \A i \in 1..n : End(at, i) \in Int
    <3>1. \A i \in 1..n : at[i] \in Int /\ Len(All[i]) \in Int
      BY <1>4, <1>8
    <3> QED
      BY <3>1 DEF End
  <2>3. Found + 1 + (Decoded - Found) = Decoded + 1
    BY <1>3
  <2> QED
    BY <1>5, <1>7, <1>10, <2>1, <2>2, <2>3 DEF End
<1>12. ASSUME NEW i \in 1..n + 1
       PROVE  /\ LooksLikePacket(Bytes, new[i], End(new, i)')
              /\ All'[i] = SubSeq(Bytes, new[i] + 2, End(new, i)')
  <2>1. CASE i \in 1..n
    <3>1. /\ LooksLikePacket(Bytes, at[i], End(at, i))
          /\ All[i] = SubSeq(Bytes, at[i] + 2, End(at, i))
      BY <1>4, <1>8, <2>1 DEF PiecesAt
    <3> QED
      BY <1>7, <1>10, <1>11, <2>1, <3>1
  <2>2. CASE i = n + 1
    BY <1>1, <1>7, <1>10, <1>11, <2>2 DEF data
  <2> QED
    BY <1>4, <2>1, <2>2
<1>13. ASSUME NEW i \in 1..n + 1, NEW j \in 1..n + 1, i < j
       PROVE  End(new, i)' < new[j]
  <2>1. i \in 1..n
    BY <1>4, <1>13
  <2>2. CASE j \in 1..n
    <3>1. End(at, i) < at[j]
      BY <1>4, <1>8, <1>13, <2>1, <2>2 DEF PiecesAt
    <3> QED
      BY <1>10, <1>11, <2>1, <2>2, <3>1
  <2>3. CASE j = n + 1
    <3>1. End(at, i) =< Opened /\ End(at, i) \in Int /\ Found \in Int
      BY <1>3, <1>8, <1>11, <2>1
    <3>2. End(at, i) < Found
      BY <1>1, <1>3, <3>1
    <3> QED
      BY <1>10, <1>11, <2>1, <2>3, <3>2
  <2> QED
    BY <1>4, <2>2, <2>3
<1>14. ASSUME NEW i \in 1..n + 1 PROVE End(new, i)' =< Opened'
  <2>1. CASE i \in 1..n
    <3>1. End(at, i) =< Opened /\ Opened =< Decoded + 1 /\ End(at, i) \in Int
      BY <1>1, <1>3, <1>8, <1>11, <2>1
    <3> QED
      BY <1>1, <1>3, <1>11, <2>1, <3>1
  <2>2. CASE i = n + 1
    BY <1>1, <1>3, <1>11, <2>2
  <2> QED
    BY <1>4, <2>1, <2>2
<1>15. Frontier' = Opened'
  BY <1>2 DEF Frontier
<1>16. PiecesAt(new)'
  BY <1>2, <1>7, <1>12, <1>13 DEF PiecesAt
<1>17. new \in [DOMAIN All' -> DOMAIN Bytes']
  BY <1>2, <1>3, <1>7, <1>10
<1>18. \A i \in DOMAIN All' : End(new, i)' =< Frontier'
  BY <1>7, <1>14, <1>15
<1> QED
  BY <1>16, <1>17, <1>18 DEF PiecesBefore

LEMMA PiecesInit == PipelineInit => PiecesBefore
<1> SUFFICES ASSUME PipelineInit PROVE PiecesBefore
  OBVIOUS
<1>1. All = <<>>
  BY DEF PipelineInit, Init, All
<1>2. PICK at : at = [i \in DOMAIN All |-> 0]
  OBVIOUS
<1>3. DOMAIN All = {}
  BY <1>1
<1>4. at \in [DOMAIN All -> DOMAIN Bytes]
  BY <1>2, <1>3
<1>5. PiecesAt(at)
  BY <1>3 DEF PiecesAt
<1> QED
  BY <1>3, <1>4, <1>5 DEF PiecesBefore

LEMMA PiecesNext ==
    PInv /\ PiecesBefore /\ [PipelineNext]_pipelineVars => PiecesBefore'
<1> SUFFICES ASSUME PInv, PiecesBefore, [PipelineNext]_pipelineVars
             PROVE  PiecesBefore'
  OBVIOUS
<1>1. Taken \in Nat /\ Frontier \in Nat /\ Frontier =< Taken
  BY AllTypes, UptoFacts DEF PInv, Taken
<1>2. ASSUME UNCHANGED <<collected, parsed, stream, conn, members>>,
             conn \in members => Opened' = Opened,
             Taken' \in Nat, Taken =< Taken'
      PROVE  PiecesBefore'
  <2>1. All' = All /\ Bytes' = Bytes
    BY <1>2 DEF All, Bytes
  <2>2. Frontier' \in Nat /\ Frontier =< Frontier'
    BY <1>1, <1>2 DEF Frontier
  <2> QED
    BY <2>1, <2>2, PiecesKept
<1>3. ASSUME NEW n \in ReportSizes, Report(n) PROVE PiecesBefore'
  <2>1. /\ UNCHANGED vars /\ UNCHANGED <<stream, conn, members, collected>>
        /\ conn \in members => UNCHANGED <<Joined, Arrived>>
        /\ PInv'
    BY <1>3, ReportTransit
  <2>2. conn \in members => Opened' = Opened
    BY <2>1 DEF Opened, Decoded, vars, ioVars, decoderVars
  <2>3. Taken =< Taken' /\ Taken' \in Nat
    <3>1. Taken =< Taken'
      BY <1>3, ReportForwarder DEF PInv
    <3>2. Len(log') \in Nat /\ Len(log') # 0 /\ Len(taken') = Len(log')
          /\ taken' \in Seq(0..Len(Bytes))
      BY <1>3, ReportForwarder, UptoFacts DEF PInv, ForwarderOK
    <3>3. taken'[Len(log')] \in 0..Len(Bytes)
      BY <3>2, ElementOfSeq
    <3>4. Len(Bytes) \in Nat
      BY StreamFacts DEF PInv, ForwarderOK
    <3> QED
      BY <3>1, <3>2, <3>3, <3>4 DEF Taken, Upto
  <2> QED
    BY <1>2, <2>1, <2>2, <2>3 DEF vars, decoderVars
<1>4. CASE Deliver
  BY <1>1, <1>2, <1>4, DeliverTransit
<1>5. CASE Connect
  <2>1. /\ conn \notin members /\ conn' \in members'
        /\ UNCHANGED <<vars, stream, collected>> /\ Opened' = Taken
    BY <1>5, ConnectTransit
  <2>2. All' = All /\ Bytes' = Bytes
    BY <2>1 DEF All, Bytes, vars, decoderVars
  <2>3. Frontier' = Taken /\ Frontier = Taken
    BY <2>1 DEF Frontier
  <2> QED
    BY <1>1, <2>2, <2>3, PiecesKept
<1>6. CASE Disconnect
  <2>1. /\ conn \in members /\ conn' \notin members'
        /\ collected' = collected \o parsed /\ parsed' = <<>>
        /\ UNCHANGED <<stream, Taken>>
    BY <1>6, DisconnectTransit
  <2>2. collected \o parsed \in Seq(Seq(Alphabet))
    BY AllTypes DEF All
  <2>3. (collected \o parsed) \o <<>> = collected \o parsed
    BY <2>2, ConcatEmptySeq
  <2>4. All' = All /\ Bytes' = Bytes
    BY <2>1, <2>3 DEF All, Bytes
  <2>5. Frontier' = Taken
    BY <2>1 DEF Frontier
  <2> QED
    BY <1>1, <2>4, <2>5, PiecesKept
<1>7. CASE Decode
  <2>1. UNCHANGED Elsewhere
    BY <1>7, DecodeCases
  <2>2. UNCHANGED <<collected, stream, conn, members>> /\ Bytes' = Bytes
    BY <2>1 DEF Elsewhere, deviceVars, forwarderVars, sessionVars, Bytes
  <2>3. CASE DecodeByte
    <3>1. CASE parsed' = parsed
      <4>1. All' = All
        BY <2>2, <3>1 DEF All
      <4>2. /\ conn \in members /\ Opened' \in {Decoded + 1, Opened}
        BY <2>1, <2>3, ByteTransit
      <4>3. /\ Opened \in Nat /\ Decoded \in Nat /\ Opened =< Decoded
        <5>1. /\ Opened \in Nat /\ Decoded \in Nat /\ Len(window) \in Nat
              /\ Opened + Len(window) = Decoded
          BY <4>2, Positions, <2>1, <2>3, ByteTransit DEF PInv, RInv, Inv
        <5> QED
          BY <5>1
      <4>4. Frontier = Opened /\ Frontier' = Opened'
        BY <2>1, <2>2, <2>3, ByteTransit DEF Frontier
      <4> QED
        BY <2>2, <4>1, <4>2, <4>3, <4>4, PiecesKept
    <3>2. CASE parsed' # parsed
      BY <2>1, <2>3, <3>2, PieceAdded
    <3> QED
      BY <3>1, <3>2
  <2>4. CASE ~DecodeByte
    <3>1. /\ UNCHANGED <<parsed, Opened, Taken>>
      BY <1>7, <2>1, <2>4, DecodeCases, ReadTransit, ReadStartTransit
    <3> QED
      BY <1>1, <1>2, <2>2, <3>1
  <2> QED
    BY <2>3, <2>4
<1>8. CASE UNCHANGED pipelineVars
  <2>1. UNCHANGED <<collected, parsed, stream, conn, members>>
    BY <1>8
    DEF pipelineVars, vars, decoderVars, deviceVars, forwarderVars, sessionVars
  <2>2. Opened' = Opened /\ Taken' = Taken
    BY <1>8
    DEF pipelineVars, vars, ioVars, decoderVars, deviceVars, forwarderVars,
        sessionVars, Opened, Decoded, Arrived, Taken, Upto
  <2> QED
    BY <1>1, <1>2, <2>1, <2>2
<1> QED
  BY <1>3, <1>4, <1>5, <1>6, <1>7, <1>8 DEF PipelineNext

(* Whatever a station sends and whenever connections end: what is parsed,  *)
(* over all connections together, are pieces of its bytes, each behind a   *)
(* marker and complete, with a valid checksum, and each piece lies behind  *)
(* the one parsed before it.  No byte is used twice, none is invented and  *)
(* no halves are put together                                              *)
(* (IoHandler.cpp:26-34, 110-155, main.cpp:88-127, forwarder.c:300-307).   *)
THEOREM ParsedPieces == PipelineSpec => []PiecesInOrder
<1>1. PiecesBefore => PiecesInOrder
  BY DEF PiecesBefore, PiecesInOrder
<1> QED
  BY PipelineInitInv, PipelineNextInv, PiecesInit, PiecesNext, <1>1, PTL
  DEF PipelineSpec

(* If nothing but a packet looks like one in the bytes of the station, the *)
(* pieces are its packets.                                                 *)
LEMMA PiecesArePackets ==
    ASSUME PInv, PiecesInOrder, Unmistakable(stream)
    PROVE  OnceInOrder
<1>1. PICK at \in [DOMAIN All -> DOMAIN Bytes] : PiecesAt(at)
  BY DEF PiecesInOrder
<1>2. ASSUME NEW i \in DOMAIN All
      PROVE  \E k \in DOMAIN Sent : Begin(k) = at[i] - 1 /\ All[i] = Sent[k]
  <2>1. /\ LooksLikePacket(Bytes, at[i], End(at, i))
        /\ All[i] = SubSeq(Bytes, at[i] + 2, End(at, i))
    BY <1>1 DEF PiecesAt
  <2>2. /\ at[i] \in DOMAIN Bytes /\ End(at, i) \in at[i] + 3..Len(Bytes)
        /\ Bytes[at[i] + 3] \in MsgType
        /\ End(at, i) = at[i] + 1 + packetLengthForType(Bytes[at[i] + 3])
    BY <2>1 DEF LooksLikePacket
  <2>3. DOMAIN Bytes = 1..Len(Bytes) /\ Len(Bytes) \in Nat
    BY AllTypes
  <2>4. End(at, i) \in DOMAIN Bytes
    BY <2>2, <2>3
  <2>5. PICK k \in DOMAIN Packets : Begin(k) = at[i] - 1
    BY <2>1, <2>2, <2>4 DEF Unmistakable, Bytes, Packets, Begin
  <2>6. k \in 1..Len(Packets) /\ k \in DOMAIN Sent
    BY <2>5, StreamFacts DEF PInv, ForwarderOK, Sent
  <2>7. /\ Begin(k) \in Nat
        /\ packetLengthForType(Bytes[Begin(k) + 4]) \in 6..17
        /\ Begin(k + 1) = Begin(k) + 2 + packetLengthForType(Bytes[Begin(k) + 4])
        /\ Sent[k] = SubSeq(Bytes, Begin(k) + 3, Begin(k + 1))
    BY <2>6, PacketFacts DEF PInv, ForwarderOK
  <2>8. at[i] \in Nat /\ Begin(k) + 3 = at[i] + 2 /\ Begin(k) + 4 = at[i] + 3
    BY <2>2, <2>3, <2>5, <2>7
  <2>9. End(at, i) = Begin(k + 1)
    <3>1. PICK len \in Int : len = packetLengthForType(Bytes[at[i] + 3])
      BY <2>7, <2>8
    <3>2. Begin(k + 1) = Begin(k) + 2 + len /\ End(at, i) = at[i] + 1 + len
      BY <2>2, <2>7, <2>8, <3>1
    <3> QED
      BY <2>5, <2>7, <2>8, <3>1, <3>2
  <2> QED
    BY <2>1, <2>5, <2>6, <2>7, <2>8, <2>9
<1>3. PICK which : which = [i \in DOMAIN All |->
                      CHOOSE k \in DOMAIN Sent : Begin(k) = at[i] - 1 /\ All[i] = Sent[k]]
  OBVIOUS
<1>4. \A i \in DOMAIN All :
          /\ which[i] \in DOMAIN Sent /\ Begin(which[i]) = at[i] - 1
          /\ All[i] = Sent[which[i]]
  BY <1>2, <1>3
<1>5. which \in [DOMAIN All -> DOMAIN Sent]
  BY <1>3, <1>4
<1>6. ASSUME NEW i \in DOMAIN All, NEW j \in DOMAIN All, i < j
      PROVE  which[i] < which[j]
  <2>1. End(at, i) < at[j]
    BY <1>1, <1>6 DEF PiecesAt
  <2>2. at[i] \in Nat /\ at[j] \in Nat /\ Len(All[i]) \in Nat
    BY <1>1, AllTypes
  <2>3. at[i] < at[j]
    BY <2>1, <2>2 DEF End
  <2>4. Begin(which[i]) < Begin(which[j])
    BY <1>4, <2>2, <2>3
  <2>5. /\ which[i] \in 1..Len(Packets) + 1 /\ which[j] \in 1..Len(Packets) + 1
        /\ Len(Packets) \in Nat /\ Len(Bytes) \in Nat
    <3>1. /\ DOMAIN Packets = 1..Len(Packets)
          /\ Len(Packets) \in Nat /\ Len(Bytes) \in Nat
      BY StreamFacts DEF PInv, ForwarderOK
    <3>2. DOMAIN Sent = DOMAIN Packets
      BY DEF Sent
    <3>3. which[i] \in DOMAIN Sent /\ which[j] \in DOMAIN Sent
      BY <1>4
    <3> QED
      BY <3>1, <3>2, <3>3
  <2>6. Begin(which[i]) \in 0..Len(Bytes) /\ Begin(which[j]) \in 0..Len(Bytes)
    BY <2>5, StreamFacts DEF PInv, ForwarderOK
  <2>7. which[j] < which[i] => Begin(which[j]) < Begin(which[i])
    BY <2>5, StreamFacts DEF PInv, ForwarderOK
  <2>8. ~(which[j] < which[i]) /\ which[i] # which[j]
    BY <2>4, <2>5, <2>6, <2>7
  <2> QED
    BY <2>5, <2>8
<1> QED
  BY <1>4, <1>5, <1>6 DEF OnceInOrder, All

(* Then what is parsed, over all connections together, are packets of the  *)
(* station, each at most once and in the order in which they were sent     *)
(* (IoHandler.cpp:26-34, 110-155, main.cpp:88-127, forwarder.c:300-307).   *)
THEOREM ParsedOnceInOrder ==
    ASSUME \A s \in Streams : Unmistakable(s)
    PROVE  PipelineSpec => []OnceInOrder
<1>1. PInv /\ PiecesBefore => OnceInOrder
  BY PiecesArePackets DEF PiecesBefore, PiecesInOrder, PInv, ForwarderOK
<1> QED
  BY PipelineInitInv, PipelineNextInv, PiecesInit, PiecesNext, <1>1, PTL
  DEF PipelineSpec

-----------------------------------------------------------------------------
(* Connections that are not misled.  If the window is aligned, the marker  *)
(* the decoder finds is the one of the packet that is to be parsed next.   *)
LEMMA AlignedFacts ==
    ASSUME PInv, conn \in members, NEW first \in DOMAIN stream.begin,
           AlignedFrom(first)
    PROVE  /\ first \in 1..Len(Packets) + 1 /\ Len(Packets) \in Nat
           /\ Len(parsed) \in Nat /\ first + Len(parsed) \in 1..Len(Packets) + 1
           /\ Opened =< Begin(first + Len(parsed))
           /\ Begin(first + Len(parsed)) \in 0..Len(Bytes) /\ Len(Bytes) \in Nat
           /\ \A j \in Opened + 1..Begin(first + Len(parsed)) :
                 j < Len(Bytes) => ~(Bytes[j] = 255 /\ Bytes[j + 1] = 255)
<1>1. /\ first \in 1..Len(Packets) + 1 /\ Len(Packets) \in Nat
      /\ first + Len(parsed) \in 1..Len(Packets) + 1
      /\ DOMAIN Packets = 1..Len(Packets) /\ Len(Bytes) \in Nat
      /\ Begin(Len(Packets) + 1) = Len(Bytes)
      /\ \A i \in 1..Len(Packets) + 1 : Begin(i) \in 0..Len(Bytes)
  BY StreamFacts DEF PInv, ForwarderOK, AlignedFrom
<1>2. Len(parsed) \in Nat /\ parsed = <<>> => Len(parsed) = 0
  BY LenProperties DEF PInv, RInv, Inv, TypeOK
<1>3. Opened \in Nat
  BY Positions DEF PInv, RInv, Inv
<1>5. Begin(first + Len(parsed)) \in 0..Len(Bytes)
  BY <1>1
<1>6. CASE Opened = Begin(first + Len(parsed))
  <2>1. Opened + 1..Begin(first + Len(parsed)) = {}
    BY <1>3, <1>6
  <2> QED
    BY <1>1, <1>2, <1>3, <1>5, <1>6, <2>1
<1>7. CASE /\ parsed = <<>> /\ Opened =< Begin(first)
           /\ ~AnyMarker(Opened, Begin(first))
  <2>1. Len(parsed) = 0 /\ first + 0 = first
    BY <1>1, <1>7
  <2>2. \A j \in Opened + 1..Begin(first) :
            j < Len(Bytes) => ~(Bytes[j] = 255 /\ Bytes[j + 1] = 255)
    BY <1>7 DEF AnyMarker
  <2> QED
    BY <1>1, <1>2, <1>3, <1>5, <1>7, <2>1, <2>2
<1> QED
  BY <1>6, <1>7 DEF AlignedFrom

(* The decoder does not run past the marker of a packet that is behind     *)
(* where its window begins.                                                *)
LEMMA FirstMarker ==
    ASSUME PInv, conn \in members, m_state # "StartMarker",
           NEW k \in 1..Len(Packets), Opened =< Begin(k), Found > Begin(k)
    PROVE  Found = Begin(k) + 1
<1>1. /\ stream \in Streams /\ Begin(k) \in Nat
      /\ Bytes[Begin(k) + 1] = 255 /\ Bytes[Begin(k) + 2] = 255
  BY PacketFacts DEF PInv, ForwarderOK
<1>2. PICK b \in Nat : b = Begin(k)
  BY <1>1
<1>3. /\ Found \in Nat /\ Opened \in Nat
      /\ \A i \in Opened + 1..Found - 1 : ~(Bytes[i] = 255 /\ Bytes[i + 1] = 255)
  BY MarkerInStream
<1>4. PICK f \in Nat : f = Found
  BY <1>3
<1>5. PICK o \in Nat : o = Opened
  BY <1>3
<1>6. o =< b /\ f > b /\ (b + 1) + 1 = b + 2
  BY <1>2, <1>4, <1>5
<1>7. ~(b + 1 \in o + 1..f - 1)
  <2>1. \A i \in o + 1..f - 1 : ~(Bytes[i] = 255 /\ Bytes[i + 1] = 255)
    BY <1>3, <1>4, <1>5, Zenon
  <2>2. Bytes[b + 1] = 255 /\ Bytes[(b + 1) + 1] = 255
    BY <1>1, <1>2, <1>6
  <2> QED
    BY <2>1, <2>2
<1>8. f = b + 1
  BY <1>6, <1>7
<1> QED
  BY <1>2, <1>4, <1>8

(* What the decoder takes for a packet is not complete before its end.     *)
LEMMA FrameOpen ==
    ASSUME PInv, conn \in members, m_state # "StartMarker"
    PROVE  Decoded < FrameEnd(Bytes, Found) /\ FrameEnd(Bytes, Found) \in Nat
<1>1. /\ Found \in Nat /\ Len(m_data) \in Nat /\ Found + 1 + Len(m_data) = Decoded
      /\ \A k \in 1..Len(m_data) : m_data[k] = Bytes[Found + 1 + k]
  BY MarkerInStream
<1>2. PICK len \in Int :
         /\ len = packetLengthForType(Bytes[Found + 3])
         /\ len > 0 => len >= 6
  BY DEF packetLengthForType
<1>3. /\ len > 0 => FrameEnd(Bytes, Found) = Found + 1 + len
      /\ ~(len > 0) => FrameEnd(Bytes, Found) = Found + 3
  BY <1>2 DEF FrameEnd
<1>4. CASE m_state = "Data"
  <2>1. /\ Len(m_data) >= 2 /\ m_pos > 0 /\ m_pos \in Nat
        /\ Len(m_data) + m_pos = packetLengthForType(m_data[2])
    BY <1>4 DEF PInv, RInv, Inv, TypeOK, PacketPosition
  <2>2. 2 \in 1..Len(m_data) /\ Found + 1 + 2 = Found + 3
    BY <1>1, <2>1
  <2>3. m_data[2] = Bytes[Found + 3]
    BY <1>1, <2>2
  <2>4. Len(m_data) + m_pos = len
    BY <1>2, <2>1, <2>3, Zenon
  <2> QED
    BY <1>1, <1>3, <2>1, <2>4
<1>5. CASE m_state \in {"Flags", "Type"}
  <2>1. m_data = <<>> \/ Len(m_data) = 1
    BY <1>5 DEF PInv, RInv, Inv, PacketPosition
  <2>2. Len(m_data) =< 1
    BY <1>1, <2>1
  <2> QED
    BY <1>1, <1>2, <1>3, <2>2
<1> QED
  BY <1>4, <1>5 DEF PInv, RInv, Inv, TypeOK, States

(* A packet that begins behind where the window begins is not complete, if *)
(* nothing that was taken for one goes beyond it.                          *)
LEMMA NotPast ==
    ASSUME PInv, conn \in members, NEW k \in 1..Len(Packets), Opened =< Begin(k),
           m_state # "StartMarker" /\ Found =< Begin(k)
             => FrameEnd(Bytes, Found) =< Begin(k + 1)
    PROVE  Decoded < Begin(k + 1)
<1>1. /\ stream \in Streams /\ Opened \in Nat /\ Decoded \in Nat /\ Len(window) \in Nat
      /\ Opened + Len(window) = Decoded
  BY Positions DEF PInv, RInv, Inv, ForwarderOK
<1>2. /\ Begin(k) \in Nat /\ packetLengthForType(Bytes[Begin(k) + 4]) \in 6..17
      /\ Begin(k + 1) = Begin(k) + 2 + packetLengthForType(Bytes[Begin(k) + 4])
      /\ Bytes[Begin(k) + 1] = 255 /\ Bytes[Begin(k) + 2] = 255
  BY <1>1, PacketFacts
<1>3. PICK b \in Nat : b = Begin(k)
  BY <1>2
<1>4. PICK len \in 6..17 : len = packetLengthForType(Bytes[Begin(k) + 4])
  BY <1>2
<1>5. /\ b = Begin(k) /\ len = packetLengthForType(Bytes[b + 4])
      /\ Begin(k + 1) = b + 2 + len
      /\ Bytes[b + 1] = 255 /\ Bytes[b + 2] = 255
  BY <1>2, <1>3, <1>4, Zenon
<1>6. PICK e \in Nat : e = b + 2 + len
  OBVIOUS
<1>7. e = Begin(k + 1) /\ e = b + 2 + len /\ b + 2 < e
  <2>1. e = Begin(k + 1)
    BY <1>5, <1>6, Zenon
  <2>2. b + 2 < e
    BY <1>6
  <2> QED
    BY <1>6, <2>1, <2>2
<1>8. CASE m_state = "StartMarker"
  <2>1. ASSUME Decoded >= b + 2 PROVE FALSE
    <3>1. \A i \in 1..Len(window) - 1 : ~(window[i] = 255 /\ window[i + 1] = 255)
      BY <1>8 DEF PInv, RInv, WindowMatches, FS!Marker
    <3>2. \A i \in 1..Len(window) : window[i] = Bytes[Opened + i]
      BY DEF PInv, InTransit
    <3>3. Opened =< b
      BY <1>5
    <3>4. PICK i \in Int : i = b + 1 - Opened
      BY <1>1, <1>5
    <3>5. /\ i \in 1..Len(window) - 1 /\ i \in 1..Len(window)
          /\ i + 1 \in 1..Len(window)
          /\ Opened + i = b + 1 /\ Opened + (i + 1) = b + 2
      BY <1>1, <2>1, <3>3, <3>4
    <3>6. window[i] = Bytes[Opened + i] /\ window[i + 1] = Bytes[Opened + (i + 1)]
      BY <3>2, <3>5
    <3>7. window[i] = Bytes[b + 1] /\ window[i + 1] = Bytes[b + 2]
      BY <3>5, <3>6
    <3>8. window[i] = 255 /\ window[i + 1] = 255
      BY <1>5, <3>7
    <3> QED
      BY <3>1, <3>5, <3>8
  <2> QED
    BY <1>1, <1>7, <2>1
<1>9. CASE m_state # "StartMarker"
  <2>1. Decoded < FrameEnd(Bytes, Found) /\ FrameEnd(Bytes, Found) \in Nat
    BY <1>9, FrameOpen
  <2>2. Found \in Nat
    BY <1>9, MarkerInStream
  <2>3. CASE Found =< Begin(k)
    BY <1>1, <1>7, <1>9, <2>1, <2>3
  <2>4. CASE Found > b
    <3>1. Found = b + 1
      BY <1>5, <1>9, <2>4, FirstMarker
    <3>2. Found + 3 = b + 4 /\ Found + 1 + len = b + 2 + len
      BY <1>5, <3>1
    <3>3. len = packetLengthForType(Bytes[Found + 3]) /\ len > 0
      <4>1. len = packetLengthForType(Bytes[Found + 3])
        BY <1>5, <3>2, Zenon
      <4> QED
        BY <4>1
    <3>4. FrameEnd(Bytes, Found) = Found + 1 + len
      BY <3>3, Zenon DEF FrameEnd
    <3> QED
      BY <1>1, <1>7, <2>1, <3>2, <3>4
  <2> QED
    BY <1>5, <2>2, <2>3, <2>4
<1> QED
  BY <1>8, <1>9

LEMMA AlignedMarker ==
    ASSUME PInv, conn \in members, NEW first \in DOMAIN stream.begin,
           AlignedFrom(first),
           m_state # "StartMarker"
    PROVE  /\ first + Len(parsed) \in 1..Len(Packets)
           /\ Found = Begin(first + Len(parsed)) + 1
<1>1. PICK cur : cur = first + Len(parsed)
  OBVIOUS
<1>2. /\ Len(Packets) \in Nat /\ cur \in 1..Len(Packets) + 1
      /\ Opened =< Begin(cur) /\ Begin(cur) \in 0..Len(Bytes) /\ Len(Bytes) \in Nat
      /\ \A j \in Opened + 1..Begin(cur) :
            j < Len(Bytes) => ~(Bytes[j] = 255 /\ Bytes[j + 1] = 255)
  BY <1>1, AlignedFacts
<1>3. /\ Found \in Nat /\ Opened \in Nat /\ Found > Opened
      /\ Len(m_data) \in Nat /\ Found + 1 + Len(m_data) = Decoded
      /\ Bytes[Found] = 255 /\ Bytes[Found + 1] = 255
      /\ \A i \in Opened + 1..Found - 1 : ~(Bytes[i] = 255 /\ Bytes[i + 1] = 255)
  BY MarkerInStream
<1>4. Decoded \in Nat /\ Decoded =< Len(Bytes)
  <2>1. /\ Decoded \in Nat /\ Len(wire) \in Nat /\ Len(m_recvBuffer) \in Nat
        /\ pos \in 0..Len(m_recvBuffer) /\ Arrived \in 0..Len(Bytes)
        /\ Decoded + (Len(m_recvBuffer) - pos) + Len(wire) = Arrived
    BY Positions DEF PInv, RInv, Inv
  <2> QED
    BY <1>2, <2>1
<1>5. Found < Len(Bytes)
  BY <1>2, <1>3, <1>4
<1>6. Found > Begin(cur)
  <2>1. Found \in Opened + 1..Begin(cur) \/ Found > Begin(cur)
    BY <1>2, <1>3
  <2> QED
    BY <1>2, <1>3, <1>5, <2>1
<1>7. cur \in 1..Len(Packets)
  <2>1. Begin(Len(Packets) + 1) = Len(Bytes)
    BY StreamFacts DEF PInv, ForwarderOK
  <2>2. cur # Len(Packets) + 1
    BY <1>2, <1>3, <1>5, <1>6, <2>1
  <2> QED
    BY <1>2, <2>2
<1>8. Found = Begin(cur) + 1
  BY <1>2, <1>6, <1>7, FirstMarker
<1> QED
  BY <1>1, <1>7, <1>8

(* The packet to be parsed next is not complete yet.                       *)
LEMMA NotYetComplete ==
    ASSUME PInv, conn \in members, NEW first \in DOMAIN stream.begin,
           AlignedFrom(first), first + Len(parsed) \in 1..Len(Packets)
    PROVE  Decoded < Begin(first + Len(parsed) + 1)
<1>1. PICK cur \in 1..Len(Packets) : cur = first + Len(parsed)
  OBVIOUS
<1>2. Opened =< Begin(cur) /\ Begin(cur) \in Nat
  BY <1>1, AlignedFacts
<1>3. ~(m_state # "StartMarker" /\ Found =< Begin(cur))
  <2>1. CASE m_state # "StartMarker"
    <3>1. Found = Begin(cur) + 1
      BY <1>1, <2>1, AlignedMarker
    <3> QED
      BY <1>2, <3>1
  <2> QED
    BY <2>1
<1>4. Decoded < Begin(cur + 1)
  BY <1>2, <1>3, NotPast
<1> QED
  BY <1>1, <1>4

(* What makes the decoder start over: an unknown type, or the last byte of *)
(* a packet, which is parsed if it is valid.                               *)
LEMMA StartOverByte ==
    ASSUME PInv, DecodeByte, UNCHANGED Elsewhere, Opened' # Opened
    PROVE  /\ m_state # "StartMarker" /\ Opened' = Decoded + 1
           /\ LET type == Bytes[Found + 3]
                  data == SubSeq(Bytes, Found + 2, Decoded + 1)
              IN \/ ~(packetLengthForType(type) > 0) /\ Decoded + 1 = Found + 3
                    /\ parsed' = parsed
                 \/ /\ Decoded + 1 = Found + 1 + packetLengthForType(type)
                    /\ parsed' = IF IsValid(data) THEN Append(parsed, data)
                                 ELSE parsed
<1> DEFINE data == Append(m_data, dataByte)
<1>1. /\ conn \in members /\ window' = <<>> /\ Opened' = Decoded + 1
      /\ dataByte = Bytes[Decoded + 1]
  BY ByteTransit
<1>2. window' # Append(window, dataByte)
  <2>1. window \in Seq(Alphabet) /\ dataByte \in Alphabet
    BY DecodeByteStep DEF PInv, RInv, Inv, TypeOK
  <2> QED
    BY <1>1, <2>1, AppendProperties
<1>3. CASE TypeByte
  <2>1. /\ m_state = "Type" /\ ~(packetLengthForType(dataByte) > 0)
        /\ parsed' = parsed
    BY <1>2, <1>3 DEF TypeByte
  <2>2. Found \in Nat /\ Len(m_data) = 1 /\ Found + 1 + Len(m_data) = Decoded
    BY <1>1, <2>1, MarkerInStream DEF PInv, RInv, Inv, PacketPosition
  <2>3. Decoded + 1 = Found + 3
    BY <2>2
  <2> QED
    BY <1>1, <2>1, <2>3
<1>4. CASE DataByte
  <2>1. /\ m_state = "Data" /\ m_pos - 1 = 0
        /\ parsed' = IF IsValid(data) THEN Append(parsed, data) ELSE parsed
    BY <1>2, <1>4 DEF DataByte
  <2>2. /\ Len(data) = Len(m_data) + 1
        /\ \A k \in 1..Len(data) : data[k] = Bytes[Found + 1 + k]
        /\ Found + 1 + Len(data) = Decoded + 1
        /\ data = SubSeq(Bytes, Found + 2, Decoded + 1)
    BY <2>1, DataInStream
  <2>3. /\ Len(m_data) \in Nat /\ Len(m_data) >= 2 /\ m_pos \in Nat
        /\ Len(m_data) + m_pos = packetLengthForType(m_data[2])
    BY <2>1, LenProperties DEF PInv, RInv, Inv, TypeOK, PacketPosition
  <2>4. /\ Found \in Nat
        /\ \A k \in 1..Len(m_data) : m_data[k] = Bytes[Found + 1 + k]
    BY <1>1, <2>1, MarkerInStream
  <2>5. m_data[2] = Bytes[Found + 3]
    <3>1. 2 \in 1..Len(m_data) /\ Found + 1 + 2 = Found + 3
      BY <2>3, <2>4
    <3> QED
      BY <2>4, <3>1
  <2> HIDE DEF data
  <2>6. Len(data) = packetLengthForType(Bytes[Found + 3])
    BY <2>1, <2>2, <2>3, <2>5
  <2> QED
    BY <1>1, <2>1, <2>2, <2>6
<1>5. CASE StartMarkerByte \/ FlagsByte
  BY <1>2, <1>5 DEF StartMarkerByte, FlagsByte
<1> QED
  BY <1>3, <1>4, <1>5 DEF DecodeByte


(* A step that leaves the window where it begins keeps it aligned.         *)
LEMMA AlignedFromKept ==
    ASSUME NEW first \in DOMAIN stream.begin, AlignedFrom(first),
           UNCHANGED <<parsed, stream, Opened>>
    PROVE  AlignedFrom(first)'
<1>1. /\ Bytes' = Bytes /\ Sent' = Sent /\ Begin(first)' = Begin(first)
      /\ Begin(first + Len(parsed))' = Begin(first + Len(parsed))
  BY DEF Bytes, Sent, Packets, Begin
<1>2. AnyMarker(Opened, Begin(first))' <=> AnyMarker(Opened, Begin(first))
  BY <1>1 DEF AnyMarker
<1> QED
  BY <1>1, <1>2, Zenon DEF AlignedFrom

LEMMA AlignedKept ==
    ASSUME Aligned, UNCHANGED <<conn, members, parsed, stream>>,
           conn \in members => Joined' = Joined /\ Opened' = Opened
    PROVE  Aligned'
<1> SUFFICES ASSUME conn \in members, NEW first \in DOMAIN stream.begin,
                    WholeFrom(first)', ~Misleading(first)'
             PROVE  AlignedFrom(first)'
  BY DEF Aligned
<1>1. Joined' = Joined /\ Opened' = Opened /\ parsed' = parsed /\ stream' = stream
  OBVIOUS
<1>2. WholeFrom(first) /\ ~Misleading(first)
  BY <1>1 DEF WholeFrom, Misleading, Packets, Bytes, Begin
<1>3. AlignedFrom(first)
  BY <1>2 DEF Aligned
<1> QED
  BY <1>1, <1>3, AlignedFromKept

(* The packets as parse() is to see them are sequences of bytes.           *)
LEMMA SentFacts ==
    ASSUME stream \in Streams
    PROVE  /\ Sent \in Seq(Seq(Alphabet)) /\ Len(Sent) = Len(Packets)
           /\ \A k \in 1..Len(Packets) : Sent[k] \in Seq(Alphabet)
<1>1. /\ Len(Packets) \in Nat /\ DOMAIN Packets = 1..Len(Packets)
      /\ Bytes \in Seq(Alphabet) /\ Len(Bytes) \in Nat
  BY StreamFacts
<1>2. ASSUME NEW k \in 1..Len(Packets) PROVE Sent[k] \in Seq(Alphabet)
  <2>1. /\ Begin(k) \in Nat /\ Begin(k + 1) \in 0..Len(Bytes)
        /\ packetLengthForType(Bytes[Begin(k) + 4]) \in 6..17
        /\ Begin(k + 1) = Begin(k) + 2 + packetLengthForType(Bytes[Begin(k) + 4])
        /\ Sent[k] = SubSeq(Bytes, Begin(k) + 3, Begin(k + 1))
    BY PacketFacts
  <2>2. PICK begin \in Nat : begin = Begin(k)
    BY <2>1
  <2>3. PICK end \in 0..Len(Bytes) : end = Begin(k + 1)
    BY <2>1
  <2>4. PICK len \in 6..17 : len = packetLengthForType(Bytes[Begin(k) + 4])
    BY <2>1
  <2>5. end = begin + 2 + len
    BY <2>1, <2>2, <2>3, <2>4, Zenon
  <2>6. /\ begin + 2 \in 0..Len(Bytes) /\ begin + 2 =< end
        /\ begin + 2 + 1 = begin + 3
    BY <1>1, <2>5
  <2>7. SubSeq(Bytes, begin + 2 + 1, end) \in Seq(Alphabet)
    BY <1>1, <2>6, Middle
  <2> QED
    BY <2>1, <2>2, <2>3, <2>6, <2>7
<1>3. DOMAIN Sent = 1..Len(Packets)
  BY <1>1 DEF Sent
<1>4. Sent = [k \in 1..Len(Packets) |-> Sent[k]]
  BY <1>1 DEF Sent
<1> QED
  BY <1>1, <1>2, <1>3, <1>4

(* A byte keeps it aligned: the decoder starts over at the end of the      *)
(* packet that was to be parsed next, and that one is parsed.              *)
LEMMA AlignedFromByte ==
    ASSUME PInv, NEW first \in DOMAIN stream.begin, AlignedFrom(first),
           DecodeByte, UNCHANGED Elsewhere
    PROVE  AlignedFrom(first)'
<1>1. /\ conn \in members /\ Joined' = Joined
      /\ UNCHANGED <<conn, members, stream>>
  BY ByteTransit DEF Elsewhere, deviceVars, forwarderVars, sessionVars
<1>2. /\ Opened \in Nat /\ Decoded \in Nat /\ Len(window) \in Nat
      /\ Opened + Len(window) = Decoded
  BY <1>1, Positions DEF PInv, RInv, Inv
<1>3. CASE Opened' = Opened
  <2>1. Opened' # Decoded + 1
    BY <1>2, <1>3
  <2>2. parsed' = parsed
    BY <2>1, ParsedByte
  <2> QED
    BY <1>1, <1>3, <2>2, AlignedFromKept
<1>4. CASE Opened' # Opened
  <2>1. m_state # "StartMarker" /\ Opened' = Decoded + 1
    BY <1>4, StartOverByte
  <2>2. PICK cur : cur = first + Len(parsed)
    OBVIOUS
  <2>3. /\ cur \in 1..Len(Packets) /\ Found = Begin(cur) + 1
        /\ Len(parsed) \in Nat /\ first \in 1..Len(Packets) + 1 /\ Len(Packets) \in Nat
    BY <1>1, <2>1, <2>2, AlignedMarker, AlignedFacts
  <2>4. /\ Begin(cur) \in Nat
        /\ packetLengthForType(Bytes[Begin(cur) + 4]) \in 6..17
        /\ Begin(cur + 1) = Begin(cur) + 2 + packetLengthForType(Bytes[Begin(cur) + 4])
        /\ Sent[cur] = SubSeq(Bytes, Begin(cur) + 3, Begin(cur + 1))
        /\ IsValid(Sent[cur])
    <3>1. stream \in Streams
      BY DEF PInv, ForwarderOK
    <3> QED
      BY <2>3, <3>1, PacketFacts
  <2>5. PICK len \in 6..17 :
           /\ len = packetLengthForType(Bytes[Begin(cur) + 4])
           /\ Begin(cur + 1) = Begin(cur) + 2 + len
    BY <2>4
  <2>6. Found + 2 = Begin(cur) + 3 /\ Found + 3 = Begin(cur) + 4
    BY <2>3, <2>4
  <2>7. packetLengthForType(Bytes[Found + 3]) = len /\ len > 0
    BY <2>5, <2>6
  <2>8. /\ Decoded + 1 = Found + 1 + len
         /\ parsed' = IF IsValid(SubSeq(Bytes, Found + 2, Decoded + 1))
                      THEN Append(parsed, SubSeq(Bytes, Found + 2, Decoded + 1))
                      ELSE parsed
    BY <1>4, <2>7, StartOverByte
  <2>9. Decoded + 1 = Begin(cur + 1)
    <3>1. Found + 1 + len = Begin(cur) + 2 + len
      BY <2>3, <2>4
    <3> QED
      BY <2>5, <2>8, <3>1
  <2>10. parsed' = Append(parsed, Sent[cur])
    BY <2>4, <2>6, <2>8, <2>9
  <2>11. /\ Len(parsed') = Len(parsed) + 1
         /\ \A k \in 1..Len(parsed) : parsed'[k] = parsed[k]
         /\ parsed'[Len(parsed) + 1] = Sent[cur]
    <3>1. parsed \in Seq(Seq(Alphabet))
      BY DEF PInv, RInv, Inv, TypeOK
    <3>2. Sent[cur] \in Seq(Alphabet)
      BY <2>3, SentFacts DEF PInv, ForwarderOK
    <3> QED
      BY <2>10, <3>1, <3>2, AppendProperties
  <2>12. /\ cur + 1 \in 1..Len(Packets) + 1
         /\ first - 1 + (Len(parsed) + 1) = cur
         /\ first + (Len(parsed) + 1) = cur + 1
    BY <2>2, <2>3
  <2>13. \A k \in 1..Len(parsed') : parsed'[k] = Sent[first - 1 + k]
    <3> SUFFICES ASSUME NEW k \in 1..Len(parsed')
                 PROVE  parsed'[k] = Sent[first - 1 + k]
      OBVIOUS
    <3>1. k \in 1..Len(parsed) \/ k = Len(parsed) + 1
      BY <2>3, <2>11
    <3>2. CASE k \in 1..Len(parsed)
      BY <2>11, <3>2 DEF AlignedFrom
    <3>3. CASE k = Len(parsed) + 1
      BY <2>11, <2>12, <3>3
    <3> QED
      BY <3>1, <3>2, <3>3
  <2>14. /\ DOMAIN stream.begin = 1..Len(Packets) + 1
         /\ \A i \in 1..Len(Packets) + 1 : Begin(i)' = Begin(i)
         /\ Sent' = Sent /\ stream' = stream
    BY <1>1, StreamFacts DEF PInv, ForwarderOK, Begin, Sent, Packets
  <2>15. (first + Len(parsed))' = cur + 1
    BY <2>11, <2>12
  <2>16. Opened' = Begin(first + Len(parsed))'
    <3>1. Opened' = Begin(cur + 1)' /\ stream' = stream
      BY <2>1, <2>9, <2>12, <2>14
    <3>2. Begin(first + Len(parsed))' = Begin(cur + 1)'
      BY <2>15, <2>14 DEF Begin
    <3> QED
      BY <3>1, <3>2
  <2>17. \A k \in 1..Len(parsed') : parsed'[k] = Sent'[first - 1 + k]
    BY <2>13, <2>14
  <2>18. (first + Len(parsed))' \in DOMAIN stream'.begin
    BY <2>12, <2>14, <2>15
  <2> QED
    BY <2>16, <2>17, <2>18 DEF AlignedFrom
<1> QED
  BY <1>3, <1>4

LEMMA AlignedByte ==
    ASSUME PInv, Aligned, DecodeByte, UNCHANGED Elsewhere
    PROVE  Aligned'
<1>1. /\ conn \in members /\ Joined' = Joined
      /\ UNCHANGED <<conn, members, stream>>
  BY ByteTransit DEF Elsewhere, deviceVars, forwarderVars, sessionVars
<1> SUFFICES ASSUME NEW first \in DOMAIN stream.begin,
                    WholeFrom(first)', ~Misleading(first)'
             PROVE  AlignedFrom(first)'
  BY <1>1 DEF Aligned
<1>2. WholeFrom(first) /\ ~Misleading(first)
  BY <1>1 DEF WholeFrom, Misleading, Packets, Bytes, Begin
<1> QED
  BY <1>1, <1>2, AlignedFromByte DEF Aligned

(* A connection begins before its first whole packet.                      *)
LEMMA ConnectAligned ==
    ASSUME PInv, Connect, NEW first \in DOMAIN stream'.begin, WholeFrom(first)'
    PROVE  /\ first + Len(parsed') = first /\ parsed' = <<>>
           /\ Opened' = Joined' /\ Joined' =< Begin(first)'
           /\ first \in 1..Len(Packets) + 1
<1>1. /\ stream' = stream /\ parsed' = <<>> /\ Opened' = Taken /\ Joined' = Taken
  BY ConnectTransit DEF vars, decoderVars
<1>2. /\ DOMAIN stream.begin = 1..Len(Packets) + 1 /\ Len(Packets) \in Nat
      /\ DOMAIN Packets = 1..Len(Packets) /\ Begin(Len(Packets) + 1) = Len(Bytes)
      /\ Len(Bytes) \in Nat
  BY StreamFacts DEF PInv, ForwarderOK
<1>3. Taken \in 0..Len(Bytes)
  BY UptoFacts DEF PInv, Taken
<1>4. Packets' = Packets /\ Begin(first)' = Begin(first) /\ first \in 1..Len(Packets) + 1
  BY <1>1, <1>2 DEF Packets, Begin
<1>5. \A i \in DOMAIN Packets : Begin(i)' = Begin(i)
  BY <1>1 DEF Begin
<1>6. Taken =< Begin(first)
  <2>1. CASE first \in 1..Len(Packets)
    <3>1. Begin(first) >= Taken <=> first >= first
      BY <1>1, <1>2, <1>4, <1>5, <2>1 DEF WholeFrom
    <3> QED
      BY <1>2, <2>1, <3>1
  <2>2. CASE first = Len(Packets) + 1
    BY <1>2, <1>3, <2>2
  <2> QED
    BY <1>2, <1>4, <2>1, <2>2
<1>7. Len(parsed') = 0 /\ first + 0 = first
  BY <1>1, <1>2, <1>4
<1> QED
  BY <1>1, <1>4, <1>6, <1>7

LEMMA AlignedInit == PipelineInit => Aligned
BY DEF PipelineInit, F!Init, Aligned

LEMMA AlignedNext == PInv /\ Aligned /\ [PipelineNext]_pipelineVars => Aligned'
<1> SUFFICES ASSUME PInv, Aligned, [PipelineNext]_pipelineVars
             PROVE  Aligned'
  OBVIOUS
<1>1. ASSUME NEW n \in ReportSizes, Report(n) PROVE Aligned'
  <2>1. /\ UNCHANGED vars /\ UNCHANGED <<stream, conn, members>>
        /\ conn \in members => UNCHANGED <<Joined, Arrived>>
    BY <1>1, ReportTransit
  <2>2. parsed' = parsed /\ (conn \in members => Opened' = Opened)
    BY <2>1 DEF Opened, Decoded, vars, ioVars, decoderVars
  <2> QED
    BY <2>1, <2>2, AlignedKept
<1>2. CASE Deliver
  BY <1>2, DeliverTransit, AlignedKept
<1>3. CASE Connect
  <2> SUFFICES ASSUME NEW first \in DOMAIN stream'.begin,
                      WholeFrom(first)', ~Misleading(first)'
               PROVE  AlignedFrom(first)'
    BY DEF Aligned
  <2>1. /\ first + Len(parsed') = first /\ parsed' = <<>>
        /\ Opened' = Joined' /\ Joined' =< Begin(first)'
    BY <1>3, ConnectAligned
  <2>2. ~AnyMarker(Opened, Begin(first))'
    BY <2>1 DEF Misleading, AnyMarker
  <2> QED
    BY <2>1, <2>2 DEF AlignedFrom
<1>4. CASE Disconnect
  BY <1>4, DisconnectTransit DEF Aligned
<1>5. CASE Decode
  <2>1. UNCHANGED Elsewhere
    BY <1>5, DecodeCases
  <2>2. UNCHANGED <<stream, conn, members>>
    BY <2>1 DEF Elsewhere, deviceVars, forwarderVars, sessionVars
  <2>3. CASE DecodeByte
    BY <2>1, <2>3, AlignedByte
  <2>4. CASE ~DecodeByte
    <3>1. UNCHANGED <<parsed, Joined, Opened>>
      BY <1>5, <2>1, <2>4, DecodeCases, ReadTransit, ReadStartTransit
    <3> QED
      BY <2>2, <3>1, AlignedKept
  <2> QED
    BY <2>3, <2>4
<1>6. CASE UNCHANGED pipelineVars
  <2>1. UNCHANGED <<parsed, stream, conn, members>>
    BY <1>6
    DEF pipelineVars, vars, decoderVars, deviceVars, forwarderVars, sessionVars
  <2>2. Opened' = Opened /\ Joined' = Joined
    BY <1>6
    DEF pipelineVars, vars, ioVars, decoderVars, deviceVars, forwarderVars,
        sessionVars, Opened, Decoded, Arrived, Joined, Upto
  <2> QED
    BY <2>1, <2>2, AlignedKept
<1> QED
  BY <1>1, <1>2, <1>3, <1>4, <1>5, <1>6 DEF PipelineNext

(* An aligned connection has parsed the beginning of its whole packets.    *)
LEMMA ParsedPrefix ==
    ASSUME PInv, conn \in members, NEW first \in DOMAIN stream.begin,
           AlignedFrom(first)
    PROVE  IsPrefix(parsed, WholeBodies(first))
<1> DEFINE whole == WholeBodies(first)
<1>1. PICK n \in Nat : n = Len(parsed)
  BY LenProperties DEF PInv, RInv, Inv, TypeOK
<1>2. /\ first \in 1..Len(Packets) + 1 /\ Len(Packets) \in Nat
      /\ first + n \in 1..Len(Packets) + 1
  BY <1>1, AlignedFacts
<1>3. /\ parsed \in Seq(Seq(Alphabet))
      /\ \A k \in 1..n : parsed[k] = Sent[first - 1 + k]
  BY <1>1 DEF PInv, RInv, Inv, TypeOK, AlignedFrom
<1>4. PICK a \in Nat, b \in Nat :
         a = first - 1 /\ b = Len(Packets) /\ a =< b /\ a + 1 = first
  BY <1>2
<1>5. /\ whole \in Seq(Seq(Alphabet)) /\ Len(whole) = b - a
      /\ \A k \in 1..b - a : whole[k] = Sent[a + k]
  <2>1. Sent \in Seq(Seq(Alphabet)) /\ Len(Sent) = b
    BY <1>4, SentFacts DEF PInv, ForwarderOK
  <2>2. a \in 0..Len(Sent) /\ b \in 0..Len(Sent) /\ a =< b
    BY <1>4, <2>1
  <2>3. /\ SubSeq(Sent, a + 1, b) \in Seq(Seq(Alphabet))
        /\ Len(SubSeq(Sent, a + 1, b)) = b - a
        /\ \A k \in 1..b - a : SubSeq(Sent, a + 1, b)[k] = Sent[a + k]
    BY <2>1, <2>2, Middle, Zenon
  <2>4. whole = SubSeq(Sent, a + 1, b)
    <3>1. a + 1 = first /\ Len(Sent) = b
      BY <1>4, <2>1
    <3> QED
      BY <3>1, Zenon DEF WholeBodies
  <2> QED
    BY <2>3, <2>4
<1> HIDE DEF whole
<1>6. n =< b - a /\ n \in 0..Len(whole)
  BY <1>2, <1>4, <1>5
<1>7. /\ SubSeq(whole, 1, n) \in Seq(Seq(Alphabet)) /\ Len(SubSeq(whole, 1, n)) = n
      /\ \A k \in 1..n : SubSeq(whole, 1, n)[k] = whole[k]
  <2>1. 0 \in 0..Len(whole) /\ 0 =< n /\ 0 + 1 = 1 /\ n - 0 = n
    BY <1>1, <1>6
  <2>2. /\ SubSeq(whole, 0 + 1, n) \in Seq(Seq(Alphabet))
        /\ Len(SubSeq(whole, 0 + 1, n)) = n - 0
        /\ \A k \in 1..n - 0 : SubSeq(whole, 0 + 1, n)[k] = whole[0 + k]
    BY <1>5, <1>6, <2>1, Middle
  <2>3. \A k \in 1..n : 0 + k = k
    OBVIOUS
  <2> QED
    BY <2>1, <2>2, <2>3
<1>8. \A k \in 1..n : SubSeq(whole, 1, n)[k] = parsed[k]
  <2> SUFFICES ASSUME NEW k \in 1..n PROVE SubSeq(whole, 1, n)[k] = parsed[k]
    OBVIOUS
  <2>1. k \in 1..b - a
    BY <1>4, <1>6
  <2> QED
    BY <1>3, <1>4, <1>5, <1>7, <2>1
<1>9. SubSeq(whole, 1, n) = parsed
  BY <1>1, <1>3, <1>7, <1>8, SeqEqual
<1>10. SubSeq(parsed, 1, n) = parsed
  BY <1>1, <1>3, SubSeqFull
<1>11. n =< Len(whole)
  BY <1>5, <1>6
<1> QED
  BY <1>1, <1>9, <1>10, <1>11 DEF IsPrefix, whole

(* When what has arrived is decoded, the packets parsed are those complete.*)
LEMMA ParsedWhole ==
    ASSUME PInv, conn \in members, NEW first \in DOMAIN stream.begin,
           AlignedFrom(first),
           wire = <<>>, reading
    PROVE  Len(parsed) = WholeArrived(first)
<1>1. PICK n \in Nat : n = Len(parsed)
  BY LenProperties DEF PInv, RInv, Inv, TypeOK
<1>2. /\ first \in 1..Len(Packets) + 1 /\ Len(Packets) \in Nat
      /\ first + n \in 1..Len(Packets) + 1
      /\ Opened =< Begin(first + n)
  BY <1>1, AlignedFacts
<1>3. PICK cur \in 1..Len(Packets) + 1 : cur = first + n
  BY <1>2
<1>4. /\ Opened \in Nat /\ Decoded \in Nat /\ Opened =< Decoded /\ Decoded = Arrived
  <2>1. pos = Len(m_recvBuffer) /\ Len(wire) = 0
    BY DEF PInv, InTransit
  <2>2. /\ Len(m_recvBuffer) \in Nat /\ Len(window) \in Nat
        /\ Opened \in Nat /\ Decoded \in Nat /\ Arrived \in Nat
        /\ Opened + Len(window) = Decoded
        /\ Decoded + (Len(m_recvBuffer) - pos) + Len(wire) = Arrived
    BY Positions DEF PInv, RInv, Inv
  <2> QED
    BY <2>1, <2>2
<1>5. /\ \A i \in 1..Len(Packets) + 1 : Begin(i) \in Nat
      /\ \A i, j \in 1..Len(Packets) + 1 : i < j => Begin(i) < Begin(j)
  BY StreamFacts DEF PInv, ForwarderOK
<1>6. n > 0 => Begin(cur) = Opened
  BY <1>1, <1>3 DEF AlignedFrom
<1>7. ASSUME NEW i \in first..Len(Packets)
      PROVE  Begin(i + 1) =< Arrived <=> i \in first..cur - 1
  <2>1. i + 1 \in 1..Len(Packets) + 1 /\ i \in Nat
    BY <1>2
  <2>2. CASE i < cur
    <3>1. n > 0 /\ (i + 1 < cur \/ i + 1 = cur)
      BY <1>2, <1>3, <2>1, <2>2
    <3>2. Begin(i + 1) \in Nat /\ Begin(cur) = Opened
      BY <1>5, <1>6, <2>1, <3>1
    <3>3. Begin(i + 1) < Begin(cur) \/ Begin(i + 1) = Begin(cur)
      BY <1>5, <2>1, <3>1
    <3>4. i \in first..cur - 1
      BY <1>2, <2>2
    <3> QED
      BY <1>4, <3>2, <3>3, <3>4
  <2>3. CASE ~(i < cur)
    <3>1. /\ cur \in 1..Len(Packets) /\ cur + 1 \in 1..Len(Packets) + 1
          /\ cur + 1 < i + 1 \/ cur + 1 = i + 1
      BY <1>2, <2>1, <2>3
    <3>2. Decoded < Begin(cur + 1)
      <4>1. first + Len(parsed) \in 1..Len(Packets)
        BY <1>1, <1>3, <3>1
      <4>2. Decoded < Begin(first + Len(parsed) + 1)
        BY <4>1, NotYetComplete
      <4>3. first + Len(parsed) + 1 = cur + 1
        BY <1>1, <1>3
      <4> QED
        BY <4>2, <4>3
    <3>3. /\ Begin(cur + 1) < Begin(i + 1) \/ Begin(cur + 1) = Begin(i + 1)
          /\ Begin(cur + 1) \in Nat /\ Begin(i + 1) \in Nat
      BY <1>5, <2>1, <3>1
    <3>4. ~(i \in first..cur - 1)
      BY <2>1, <2>3
    <3> QED
      BY <1>4, <3>2, <3>3, <3>4
  <2> QED
    BY <2>2, <2>3
<1>8. {i \in first..Len(Packets) : Begin(i + 1) =< Arrived} = first..cur - 1
  <2>1. \A i : i \in first..cur - 1 => i \in first..Len(Packets)
    BY <1>2
  <2> QED
    BY <1>7, <2>1
<1>9. Cardinality(first..cur - 1) = n
  <2>1. first \in Int /\ cur - 1 \in Int
    BY <1>2
  <2>2. Cardinality(first..cur - 1)
          = IF first > cur - 1 THEN 0 ELSE cur - 1 - first + 1
    BY <2>1, FS_Interval
  <2>3. (first > cur - 1 => n = 0) /\ cur - 1 - first + 1 = n
    BY <1>2, <1>3
  <2> QED
    BY <2>2, <2>3
<1> QED
  BY <1>1, <1>8, <1>9 DEF WholeArrived

(* On every connection whose first bytes, up to its first whole packet,    *)
(* hold nothing like a marker, no packet is lost: what was parsed is the   *)
(* beginning of what the connection got whole, and when the bytes that     *)
(* arrived are decoded, every packet that is complete was parsed           *)
(* (IoHandler.cpp:26-34, 110-155, main.cpp:88-127, forwarder.c:300-307).   *)
THEOREM NoPacketLost == PipelineSpec => []NoneLost
<1>1. PInv /\ Aligned => NoneLost
  <2> SUFFICES ASSUME PInv, Aligned, conn \in members,
                      NEW first \in DOMAIN stream.begin,
                      WholeFrom(first), ~Misleading(first)
               PROVE  /\ IsPrefix(parsed, WholeBodies(first))
                      /\ wire = <<>> /\ reading => Len(parsed) = WholeArrived(first)
    BY DEF NoneLost
  <2>1. AlignedFrom(first)
    BY DEF Aligned
  <2> QED
    BY <2>1, ParsedPrefix, ParsedWhole
<1> QED
  BY PipelineInitInv, PipelineNextInv, AlignedInit, AlignedNext, <1>1, PTL
  DEF PipelineSpec

-----------------------------------------------------------------------------
(* Connections that are misled.  A packet is waited for: nothing is parsed *)
(* yet, and the window begins behind where every packet before it begins,  *)
(* and not behind where it does.                                           *)
Waiting(k) ==
    /\ k \in DOMAIN stream.begin /\ parsed = <<>> /\ Opened =< Begin(k)
    /\ \A i \in DOMAIN Packets : i < k => Begin(i) < Opened

(* Nothing that is still to come runs into it.                             *)
Unaffected(k) ==
    k \in DOMAIN Packets =>
        \A b \in Opened + 1..Len(Bytes) : ~RunsInto(stream, b, k)

(* The parsed packets begin with the first one or with the second, or will *)
(* do so; with the second, once something has run into the first.          *)
Resumes(first) ==
    \/ AlignedFrom(first) \/ Waiting(first)
    \/ /\ first \in DOMAIN Packets
       /\ \/ AlignedFrom(first + 1)
          \/ Waiting(first + 1) /\ Unaffected(first + 1)

Resuming ==
    conn \in members => \A first \in DOMAIN stream.begin :
        WholeFrom(first) => Resumes(first)

(* While a packet is waited for, what was found is a false marker before   *)
(* it or its own.                                                          *)
LEMMA WaitingMarker ==
    ASSUME PInv, conn \in members, NEW k \in DOMAIN stream.begin, Waiting(k),
           m_state # "StartMarker"
    PROVE  \/ Found =< Begin(k) /\ FalseMarker(stream, Found)
           \/ AlignedFrom(k)
<1>1. /\ Found \in Nat /\ Opened \in Nat /\ Found > Opened
      /\ Len(m_data) \in Nat /\ Found + 1 + Len(m_data) = Decoded
      /\ Bytes[Found] = 255 /\ Bytes[Found + 1] = 255
      /\ \A i \in Opened + 1..Found - 1 : ~(Bytes[i] = 255 /\ Bytes[i + 1] = 255)
  BY MarkerInStream
<1>2. /\ Decoded \in Nat /\ Decoded =< Len(Bytes) /\ Len(Bytes) \in Nat
  <2>1. /\ Decoded \in Nat /\ Len(wire) \in Nat /\ Len(m_recvBuffer) \in Nat
        /\ pos \in 0..Len(m_recvBuffer) /\ Arrived \in 0..Len(Bytes)
        /\ Len(Bytes) \in Nat
        /\ Decoded + (Len(m_recvBuffer) - pos) + Len(wire) = Arrived
    BY Positions DEF PInv, RInv, Inv
  <2> QED
    BY <2>1
<1>3. /\ k \in 1..Len(Packets) + 1 /\ Len(Packets) \in Nat
      /\ DOMAIN Packets = 1..Len(Packets) /\ Bytes \in Seq(Alphabet)
      /\ \A i \in 1..Len(Packets) + 1 : Begin(i) \in 0..Len(Bytes)
      /\ Begin(Len(Packets) + 1) = Len(Bytes)
      /\ \A i, j \in 1..Len(Packets) + 1 : i < j => Begin(i) < Begin(j)
      /\ DOMAIN stream.begin = 1..Len(Packets) + 1
  BY StreamFacts DEF PInv, ForwarderOK
<1>4. Begin(k) \in 0..Len(Bytes)
  BY <1>3
<1>5. CASE Found =< Begin(k)
  <2>1. Found \in 1..Len(Bytes) /\ Found < Len(Bytes)
    BY <1>1, <1>2
  <2>2. ASSUME NEW i \in DOMAIN Packets PROVE Begin(i) # Found - 1
    <3>1. i \in 1..Len(Packets) + 1 /\ Begin(i) \in 0..Len(Bytes)
      BY <1>3
    <3>2. CASE i < k
      <4>1. Begin(i) < Opened
        BY <3>2 DEF Waiting
      <4> QED
        BY <1>1, <3>1, <4>1
    <3>3. CASE ~(i < k)
      <4>1. i = k \/ k < i
        BY <1>3, <3>1, <3>3
      <4>2. Begin(k) = Begin(i) \/ Begin(k) < Begin(i)
        BY <1>3, <3>1, <4>1
      <4> QED
        BY <1>1, <1>4, <1>5, <3>1, <4>2
    <3> QED
      BY <3>2, <3>3
  <2>3. Found \in DOMAIN Bytes
    BY <1>3, <2>1
  <2>4. \A i \in DOMAIN stream.packets : stream.begin[i] # Found - 1
    BY <2>2 DEF Packets, Begin
  <2>5. FalseMarker(stream, Found)
    BY <1>1, <2>1, <2>3, <2>4 DEF FalseMarker, Bytes
  <2> QED
    BY <1>5, <2>5
<1>6. CASE Found > Begin(k)
  <2>1. ~AnyMarker(Opened, Begin(k))
    <3>1. \A j \in Opened + 1..Begin(k) : j \in Opened + 1..Found - 1
      BY <1>1, <1>4, <1>6
    <3> QED
      BY <1>1, <3>1 DEF AnyMarker
  <2>2. parsed = <<>> /\ Opened =< Begin(k)
    BY DEF Waiting
  <2>3. Len(parsed) = 0 /\ k + 0 = k
    BY <1>3, <2>2
  <2>4. k + Len(parsed) \in DOMAIN stream.begin /\ 1..Len(parsed) = {}
    BY <2>3
  <2> QED
    BY <2>1, <2>2, <2>4 DEF AlignedFrom
<1> QED
  BY <1>1, <1>4, <1>5, <1>6

(* What begins at a false marker is not parsed: the decoder starts over at *)
(* its end.                                                                *)
LEMMA FalseFrame ==
    ASSUME PInv, DecodeByte, UNCHANGED Elsewhere, Opened' # Opened,
           Unmistakable(stream), FalseMarker(stream, Found)
    PROVE  /\ m_state # "StartMarker" /\ parsed' = parsed
           /\ Opened' = FrameEnd(Bytes, Found)
           /\ Opened' \in 1..Len(Bytes) /\ Opened < Opened'
<1>1. m_state # "StartMarker" /\ Opened' = Decoded + 1
  BY StartOverByte
<1>2. conn \in members /\ Decoded + 1 \in 1..Len(Bytes)
  BY ByteTransit
<1>3. /\ Found \in Nat /\ Opened \in Nat /\ Found > Opened
      /\ Len(m_data) \in Nat /\ Found + 1 + Len(m_data) = Decoded
  BY <1>1, <1>2, MarkerInStream
<1>4. Opened < Opened'
  BY <1>1, <1>3
<1>5. ASSUME parsed' # parsed PROVE FALSE
  <2>1. LooksLikePacket(Bytes, Found, Decoded + 1)
    BY <1>5, ParsedByte
  <2>2. Found \in DOMAIN Bytes /\ Decoded + 1 \in DOMAIN Bytes
    BY <1>2, <2>1, StreamFacts DEF LooksLikePacket, PInv, ForwarderOK
  <2>3. \E i \in DOMAIN stream.packets : stream.begin[i] = Found - 1
    BY <2>1, <2>2 DEF Unmistakable, Bytes
  <2> QED
    BY <2>3 DEF FalseMarker
<1>6. Decoded + 1 = FrameEnd(Bytes, Found)
  <2>1. PICK len \in Int : len = packetLengthForType(Bytes[Found + 3])
    BY DEF packetLengthForType
  <2>2. \/ ~(len > 0) /\ Decoded + 1 = Found + 3
        \/ Decoded + 1 = Found + 1 + len
    BY <2>1, StartOverByte
  <2>3. CASE ~(len > 0) /\ Decoded + 1 = Found + 3
    BY <2>1, <2>3 DEF FrameEnd
  <2>4. CASE Decoded + 1 = Found + 1 + len
    <3>1. len > 0
      BY <1>3, <2>4
    <3> QED
      BY <2>1, <2>4, <3>1 DEF FrameEnd
  <2> QED
    BY <2>2, <2>3, <2>4
<1> QED
  BY <1>1, <1>2, <1>4, <1>5, <1>6

(* What it takes to wait in the next state.                                *)
LEMMA WaitingNext ==
    ASSUME NEW k, UNCHANGED <<stream, parsed>>, parsed = <<>>
    PROVE  /\ /\ k \in DOMAIN stream.begin /\ Opened' =< Begin(k)
              /\ \A i \in DOMAIN Packets : i < k => Begin(i) < Opened'
              => Waiting(k)'
           /\ (k \in DOMAIN Packets =>
                 \A b \in Opened' + 1..Len(Bytes) : ~RunsInto(stream, b, k))
              => Unaffected(k)'
<1>1. /\ stream' = stream /\ parsed' = <<>> /\ Packets' = Packets /\ Bytes' = Bytes
      /\ \A i : Begin(i)' = Begin(i)
  BY DEF Packets, Bytes, Begin
<1>2. ASSUME k \in DOMAIN stream.begin, Opened' =< Begin(k),
             \A i \in DOMAIN Packets : i < k => Begin(i) < Opened'
      PROVE  Waiting(k)'
  BY <1>1, <1>2 DEF Waiting, Packets, Begin
<1>3. ASSUME k \in DOMAIN Packets =>
                 \A b \in Opened' + 1..Len(Bytes) : ~RunsInto(stream, b, k)
      PROVE  Unaffected(k)'
  BY <1>1, <1>3 DEF Unaffected, Packets, Bytes, RunsInto, FalseMarker
<1> QED
  BY <1>2, <1>3

(* A byte while a packet is waited for: it is the one to be parsed next,   *)
(* or is waited for still, or something has run into it and the next one   *)
(* is waited for, into which nothing runs any more.                        *)
LEMMA WaitingByte ==
    ASSUME PInv, NEW k \in DOMAIN stream.begin, Waiting(k),
           DecodeByte, UNCHANGED Elsewhere,
           Unmistakable(stream), Recoverable(stream)
    PROVE  \/ AlignedFrom(k)'
           \/ Waiting(k)' /\ (Unaffected(k) => Unaffected(k)')
           \/ /\ k \in DOMAIN Packets /\ ~Unaffected(k)
              /\ Waiting(k + 1)' /\ Unaffected(k + 1)'
<1>1. /\ conn \in members /\ UNCHANGED <<conn, members, stream>>
  BY ByteTransit DEF Elsewhere, deviceVars, forwarderVars, sessionVars
<1>2. /\ Opened \in Nat /\ Decoded \in Nat /\ Len(window) \in Nat
      /\ Opened + Len(window) = Decoded
  BY <1>1, Positions DEF PInv, RInv, Inv
<1>3. /\ parsed = <<>> /\ Opened =< Begin(k)
      /\ \A i \in DOMAIN Packets : i < k => Begin(i) < Opened
  BY DEF Waiting
<1>4. CASE Opened' = Opened
  <2>1. Opened' # Decoded + 1
    BY <1>2, <1>4
  <2>2. parsed' = parsed
    BY <2>1, ParsedByte
  <2>3. Waiting(k)'
    BY <1>1, <1>3, <1>4, <2>2, WaitingNext
  <2>4. ASSUME Unaffected(k) PROVE Unaffected(k)'
    <3>1. k \in DOMAIN Packets =>
             \A b \in Opened' + 1..Len(Bytes) : ~RunsInto(stream, b, k)
      BY <1>4, <2>4 DEF Unaffected
    <3> QED
      BY <1>1, <1>3, <2>2, <3>1, WaitingNext
  <2> QED
    BY <2>3, <2>4
<1>5. CASE AlignedFrom(k)
  BY <1>5, AlignedFromByte
<1>6. CASE Opened' # Opened /\ ~AlignedFrom(k)
  <2>1. m_state # "StartMarker"
    BY <1>6, StartOverByte
  <2>2. Found =< Begin(k) /\ FalseMarker(stream, Found)
    BY <1>1, <1>6, <2>1, WaitingMarker
  <2>3. /\ parsed' = parsed /\ Opened' = FrameEnd(Bytes, Found)
        /\ Opened' \in 1..Len(Bytes) /\ Opened < Opened'
    BY <1>6, <2>2, FalseFrame
  <2>4. PICK e \in Nat : e = Opened' /\ e = FrameEnd(Bytes, Found) /\ Opened < e
    BY <2>3
  <2>5. /\ k \in 1..Len(Packets) + 1 /\ Len(Packets) \in Nat /\ Len(Bytes) \in Nat
        /\ DOMAIN Packets = 1..Len(Packets)
        /\ DOMAIN stream.begin = 1..Len(Packets) + 1
        /\ \A i \in 1..Len(Packets) + 1 : Begin(i) \in 0..Len(Bytes)
        /\ Begin(Len(Packets) + 1) = Len(Bytes)
        /\ \A i, j \in 1..Len(Packets) + 1 : i < j => Begin(i) < Begin(j)
    BY StreamFacts DEF PInv, ForwarderOK
  <2>6. CASE e =< Begin(k)
    <3>1. ASSUME NEW i \in DOMAIN Packets, i < k PROVE Begin(i) < e
      <4>1. Begin(i) < Opened /\ Begin(i) \in 0..Len(Bytes)
        BY <1>3, <2>5, <3>1
      <4> QED
        BY <1>2, <2>4, <4>1
    <3>2. Waiting(k)'
      BY <1>1, <1>3, <2>3, <2>4, <2>6, <3>1, WaitingNext
    <3>3. ASSUME Unaffected(k) PROVE Unaffected(k)'
      <4>1. \A b \in e + 1..Len(Bytes) : b \in Opened + 1..Len(Bytes)
        BY <1>2, <2>4, <2>5
      <4>2. k \in DOMAIN Packets =>
               \A b \in Opened' + 1..Len(Bytes) : ~RunsInto(stream, b, k)
        BY <2>4, <3>3, <4>1 DEF Unaffected
      <4> QED
        BY <1>1, <1>3, <2>3, <4>2, WaitingNext
    <3> QED
      BY <3>2, <3>3
  <2>7. CASE e > Begin(k)
    <3>1. k \in 1..Len(Packets) /\ k \in DOMAIN Packets /\ k + 1 \in DOMAIN stream.begin
      <4>1. k # Len(Packets) + 1
        BY <2>3, <2>4, <2>5, <2>7
      <4> QED
        BY <2>5, <4>1
    <3>2. RunsInto(stream, Found, k)
      BY <2>2, <2>4, <2>7 DEF RunsInto, Begin, Bytes
    <3>3. Found \in DOMAIN Bytes /\ DOMAIN Bytes = 1..Len(Bytes)
      BY <2>2, StreamFacts, LenProperties DEF FalseMarker, Bytes, PInv, ForwarderOK
    <3>4. ~Unaffected(k)
      <4>1. Found \in Nat /\ Found > Opened
        BY <1>1, <2>1, MarkerInStream
      <4>2. Found \in Opened + 1..Len(Bytes)
        BY <1>2, <2>5, <3>3, <4>1
      <4> QED
        BY <3>1, <3>2, <4>2 DEF Unaffected
    <3>5. /\ e =< Begin(k + 1)
          /\ k + 1 \in DOMAIN Packets =>
                \A b \in e + 1..Len(Bytes) : ~RunsInto(stream, b, k + 1)
      BY <2>4, <3>1, <3>2, <3>3 DEF Recoverable, Packets, Bytes, Begin
    <3>6. ASSUME NEW i \in DOMAIN Packets, i < k + 1 PROVE Begin(i) < e
      <4>1. i \in 1..Len(Packets) + 1 /\ (i < k \/ i = k)
        BY <2>5, <3>6
      <4>2. Begin(i) \in 0..Len(Bytes) /\ Begin(k) \in 0..Len(Bytes)
        BY <2>5, <4>1
      <4>3. Begin(i) < Begin(k) \/ Begin(i) = Begin(k)
        BY <2>5, <4>1
      <4> QED
        BY <2>4, <2>7, <4>2, <4>3
    <3>7. Waiting(k + 1)'
      BY <1>1, <1>3, <2>3, <2>4, <3>1, <3>5, <3>6, WaitingNext
    <3>8. Unaffected(k + 1)'
      BY <1>1, <1>3, <2>3, <2>4, <3>5, WaitingNext
    <3> QED
      BY <3>1, <3>4, <3>7, <3>8
  <2>8. Begin(k) \in 0..Len(Bytes)
    BY <2>5
  <2> QED
    BY <2>4, <2>6, <2>7, <2>8
<1> QED
  BY <1>4, <1>5, <1>6

LEMMA ResumesByte ==
    ASSUME PInv, NEW first \in DOMAIN stream.begin, Resumes(first),
           DecodeByte, UNCHANGED Elsewhere,
           Unmistakable(stream), Recoverable(stream)
    PROVE  Resumes(first)'
<1>1. stream' = stream /\ DOMAIN Packets' = DOMAIN Packets
  BY DEF Elsewhere, deviceVars, Packets
<1>2. first \in DOMAIN Packets => first + 1 \in DOMAIN stream.begin
  BY StreamFacts DEF PInv, ForwarderOK
<1>3. CASE AlignedFrom(first)
  BY <1>3, AlignedFromByte DEF Resumes
<1>4. CASE Waiting(first)
  <2>1. \/ AlignedFrom(first)' \/ Waiting(first)'
        \/ first \in DOMAIN Packets /\ Waiting(first + 1)' /\ Unaffected(first + 1)'
    BY <1>4, WaitingByte
  <2> QED
    BY <1>1, <2>1 DEF Resumes
<1>5. CASE first \in DOMAIN Packets /\ AlignedFrom(first + 1)
  <2>1. AlignedFrom(first + 1)'
    BY <1>2, <1>5, AlignedFromByte
  <2> QED
    BY <1>1, <1>5, <2>1 DEF Resumes
<1>6. CASE first \in DOMAIN Packets /\ Waiting(first + 1) /\ Unaffected(first + 1)
  <2>1. PICK k \in DOMAIN stream.begin :
           k = first + 1 /\ Waiting(k) /\ Unaffected(k)
    BY <1>2, <1>6
  <2>2. AlignedFrom(k)' \/ (Waiting(k)' /\ Unaffected(k)')
    BY <2>1, WaitingByte
  <2> QED
    BY <1>1, <1>6, <2>1, <2>2 DEF Resumes
<1> QED
  BY <1>3, <1>4, <1>5, <1>6 DEF Resumes

(* A step that leaves the window where it begins.                          *)
LEMMA ResumingKept ==
    ASSUME PInv, Resuming, UNCHANGED <<conn, members, parsed, stream>>,
           conn \in members => Joined' = Joined /\ Opened' = Opened
    PROVE  Resuming'
<1> SUFFICES ASSUME conn \in members, NEW first \in DOMAIN stream.begin,
                    WholeFrom(first)'
             PROVE  Resumes(first)'
  BY DEF Resuming
<1>1. Joined' = Joined /\ Opened' = Opened /\ parsed' = parsed /\ stream' = stream
  OBVIOUS
<1>2. WholeFrom(first)
  BY <1>1 DEF WholeFrom, Packets, Begin
<1>3. Resumes(first)
  BY <1>2 DEF Resuming
<1>4. DOMAIN Packets' = DOMAIN Packets
  BY <1>1 DEF Packets
<1>5. first \in DOMAIN Packets => first + 1 \in DOMAIN stream.begin
  BY StreamFacts DEF PInv, ForwarderOK
<1>6. ASSUME NEW k, Waiting(k) PROVE Waiting(k)'
  BY <1>1, <1>6 DEF Waiting, Packets, Begin
<1>7. ASSUME NEW k, Unaffected(k) PROVE Unaffected(k)'
  BY <1>1, <1>7 DEF Unaffected, Packets, Bytes, RunsInto, FalseMarker
<1>8. ASSUME NEW k \in DOMAIN stream.begin, AlignedFrom(k) PROVE AlignedFrom(k)'
  BY <1>1, <1>8, AlignedFromKept
<1> QED
  BY <1>3, <1>4, <1>5, <1>6, <1>7, <1>8 DEF Resumes

LEMMA ResumingInit == PipelineInit => Resuming
BY DEF PipelineInit, F!Init, Resuming

LEMMA ResumingNext ==
    ASSUME \A s \in Streams : Unmistakable(s) /\ Recoverable(s)
    PROVE  PInv /\ Resuming /\ [PipelineNext]_pipelineVars => Resuming'
<1> SUFFICES ASSUME PInv, Resuming, [PipelineNext]_pipelineVars
             PROVE  Resuming'
  OBVIOUS
<1>1. ASSUME NEW n \in ReportSizes, Report(n) PROVE Resuming'
  <2>1. /\ UNCHANGED vars /\ UNCHANGED <<stream, conn, members>>
        /\ conn \in members => UNCHANGED <<Joined, Arrived>>
    BY <1>1, ReportTransit
  <2>2. parsed' = parsed /\ (conn \in members => Opened' = Opened)
    BY <2>1 DEF Opened, Decoded, vars, ioVars, decoderVars
  <2> QED
    BY <2>1, <2>2, ResumingKept
<1>2. CASE Deliver
  BY <1>2, DeliverTransit, ResumingKept
<1>3. CASE Connect
  <2> SUFFICES ASSUME NEW first \in DOMAIN stream'.begin, WholeFrom(first)'
               PROVE  Resumes(first)'
    BY DEF Resuming
  <2>1. /\ parsed' = <<>> /\ Opened' = Joined' /\ Joined' =< Begin(first)'
    BY <1>3, ConnectAligned
  <2>2. \A i \in DOMAIN Packets' : i < first => Begin(i)' < Opened'
    <3>1. stream' = stream /\ Joined' = Taken
      BY <1>3, ConnectTransit
    <3>2. /\ DOMAIN Packets = 1..Len(Packets) /\ Len(Packets) \in Nat
          /\ first \in 1..Len(Packets) + 1 /\ Len(Bytes) \in Nat
          /\ \A i \in 1..Len(Packets) + 1 : Begin(i) \in 0..Len(Bytes)
      BY <3>1, StreamFacts DEF PInv, ForwarderOK
    <3>3. Taken \in 0..Len(Bytes)
      BY UptoFacts DEF PInv, Taken
    <3>4. \A i \in DOMAIN Packets' : Begin(i)' >= Joined' <=> i >= first
      BY DEF WholeFrom
    <3>5. Packets' = Packets /\ \A i : Begin(i)' = Begin(i)
      BY <3>1 DEF Packets, Begin
    <3>6. ASSUME NEW i \in DOMAIN Packets', i < first PROVE Begin(i)' < Opened'
      <4>1. i \in 1..Len(Packets) /\ Begin(i) \in 0..Len(Bytes)
        BY <3>2, <3>5
      <4>2. ~(Begin(i) >= Taken)
        BY <3>1, <3>2, <3>4, <3>5, <3>6, <4>1
      <4> QED
        BY <2>1, <3>1, <3>2, <3>3, <3>5, <4>1, <4>2
    <3> QED
      BY <3>6
  <2>3. Waiting(first)'
    BY <2>1, <2>2 DEF Waiting
  <2> QED
    BY <2>3 DEF Resumes
<1>4. CASE Disconnect
  BY <1>4, DisconnectTransit DEF Resuming
<1>5. CASE Decode
  <2>1. UNCHANGED Elsewhere
    BY <1>5, DecodeCases
  <2>2. UNCHANGED <<stream, conn, members>>
    BY <2>1 DEF Elsewhere, deviceVars, forwarderVars, sessionVars
  <2>3. CASE DecodeByte
    <3>1. Joined' = Joined
      BY <2>1, <2>3, ByteTransit
    <3> SUFFICES ASSUME conn \in members, NEW first \in DOMAIN stream.begin,
                        WholeFrom(first)'
                 PROVE  Resumes(first)'
      BY <2>2 DEF Resuming
    <3>2. WholeFrom(first)
      BY <2>2, <3>1 DEF WholeFrom, Packets, Begin
    <3>3. Resumes(first)
      BY <3>2 DEF Resuming
    <3>4. Unmistakable(stream) /\ Recoverable(stream)
      BY DEF PInv, ForwarderOK
    <3> QED
      BY <2>1, <2>3, <3>3, <3>4, ResumesByte
  <2>4. CASE ~DecodeByte
    <3>1. UNCHANGED <<parsed, Joined, Opened>>
      BY <1>5, <2>1, <2>4, DecodeCases, ReadTransit, ReadStartTransit
    <3> QED
      BY <2>2, <3>1, ResumingKept
  <2> QED
    BY <2>3, <2>4
<1>6. CASE UNCHANGED pipelineVars
  <2>1. UNCHANGED <<parsed, stream, conn, members>>
    BY <1>6
    DEF pipelineVars, vars, decoderVars, deviceVars, forwarderVars, sessionVars
  <2>2. Opened' = Opened /\ Joined' = Joined
    BY <1>6
    DEF pipelineVars, vars, ioVars, decoderVars, deviceVars, forwarderVars,
        sessionVars, Opened, Decoded, Arrived, Joined, Upto
  <2> QED
    BY <2>1, <2>2, ResumingKept
<1> QED
  BY <1>1, <1>2, <1>3, <1>4, <1>5, <1>6 DEF PipelineNext

(* A packet that is waited for is not complete.                            *)
LEMMA NotYetWaited ==
    ASSUME PInv, conn \in members, NEW k \in 1..Len(Packets), Waiting(k),
           Recoverable(stream)
    PROVE  Decoded < Begin(k + 1)
<1>1. /\ k \in DOMAIN Packets /\ k \in DOMAIN stream.begin
      /\ k + 1 \in 1..Len(Packets) + 1 /\ Begin(k) \in 0..Len(Bytes)
      /\ Begin(k + 1) \in 0..Len(Bytes) /\ Begin(k) < Begin(k + 1)
      /\ DOMAIN Bytes = 1..Len(Bytes) /\ k + 0 = k
  <2>1. /\ k \in 1..Len(Packets) + 1 /\ k + 1 \in 1..Len(Packets) + 1 /\ k < k + 1
        /\ k + 0 = k /\ DOMAIN Packets = 1..Len(Packets) /\ Len(Packets) \in Nat
        /\ DOMAIN stream.begin = 1..Len(Packets) + 1 /\ Bytes \in Seq(Alphabet)
    BY StreamFacts DEF PInv, ForwarderOK
  <2> QED
    BY <2>1, StreamFacts, LenProperties DEF PInv, ForwarderOK
<1>2. parsed = <<>> /\ Len(parsed) = 0 /\ Opened =< Begin(k)
  BY DEF Waiting
<1>3. CASE AlignedFrom(k)
  <2>1. k + Len(parsed) = k
    BY <1>1, <1>2
  <2>2. k + Len(parsed) \in 1..Len(Packets)
    BY <2>1
  <2>3. Decoded < Begin(k + Len(parsed) + 1)
    BY <1>1, <1>3, <2>2, NotYetComplete
  <2> QED
    BY <2>1, <2>3
<1>4. CASE ~AlignedFrom(k)
  <2>1. ASSUME m_state # "StartMarker", Found =< Begin(k)
        PROVE  FrameEnd(Bytes, Found) =< Begin(k + 1)
    <3>1. FalseMarker(stream, Found)
      BY <1>1, <1>4, <2>1, WaitingMarker
    <3>2. FrameEnd(Bytes, Found) \in Nat
      BY <2>1, FrameOpen
    <3>3. CASE FrameEnd(Bytes, Found) > Begin(k)
      <4>1. RunsInto(stream, Found, k) /\ Found \in DOMAIN Bytes
        BY <2>1, <3>1, <3>3 DEF RunsInto, FalseMarker, Begin, Bytes
      <4> QED
        BY <1>1, <4>1 DEF Recoverable, Packets, Bytes, Begin
    <3>4. CASE ~(FrameEnd(Bytes, Found) > Begin(k))
      BY <1>1, <3>2, <3>4
    <3> QED
      BY <3>3, <3>4
  <2> QED
    BY <1>2, <2>1, NotPast
<1> QED
  BY <1>3, <1>4

(* One packet more is complete, or not.                                    *)
LEMMA OneMore ==
    ASSUME PInv, NEW first \in 1..Len(Packets)
    PROVE  /\ WholeArrived(first) \in Nat /\ WholeArrived(first + 1) \in Nat
           /\ WholeArrived(first) =< WholeArrived(first + 1) + 1
<1> DEFINE S == {i \in first..Len(Packets) : Begin(i + 1) =< Arrived}
           T == {i \in first + 1..Len(Packets) : Begin(i + 1) =< Arrived}
<1>1. Len(Packets) \in Nat
  BY StreamFacts DEF PInv, ForwarderOK
<1>2. WholeArrived(first) = Cardinality(S) /\ WholeArrived(first + 1) = Cardinality(T)
  BY DEF WholeArrived
<1>3. IsFiniteSet(first..Len(Packets)) /\ IsFiniteSet(first + 1..Len(Packets))
  BY <1>1, FS_Interval
<1>4. IsFiniteSet(S) /\ IsFiniteSet(T)
  <2>1. S \subseteq first..Len(Packets) /\ T \subseteq first + 1..Len(Packets)
    OBVIOUS
  <2> QED
    BY <1>3, <2>1, FS_Subset
<1>5. S \subseteq T \cup {first}
  <2>1. \A i \in first..Len(Packets) : i = first \/ i \in first + 1..Len(Packets)
    BY <1>1
  <2> QED
    BY <2>1
<1> HIDE DEF S, T
<1>6. /\ IsFiniteSet(T \cup {first})
      /\ Cardinality(T \cup {first}) \in {Cardinality(T), Cardinality(T) + 1}
  BY <1>4, FS_AddElement
<1>7. Cardinality(S) =< Cardinality(T \cup {first})
  BY <1>5, <1>6, FS_Subset
<1>8. Cardinality(S) \in Nat /\ Cardinality(T) \in Nat
  BY <1>4, FS_CardinalityType
<1> QED
  BY <1>2, <1>6, <1>7, <1>8

(* While a packet is waited for, it and those behind it have not arrived.  *)
LEMMA NoneArrived ==
    ASSUME PInv, conn \in members, NEW k \in DOMAIN stream.begin, Waiting(k),
           Recoverable(stream), wire = <<>>, reading
    PROVE  WholeArrived(k) = 0
<1>1. Decoded \in Nat /\ Decoded = Arrived
  <2>1. pos = Len(m_recvBuffer) /\ Len(wire) = 0
    BY DEF PInv, InTransit
  <2>2. /\ Len(m_recvBuffer) \in Nat /\ Decoded \in Nat /\ Arrived \in Nat
        /\ Decoded + (Len(m_recvBuffer) - pos) + Len(wire) = Arrived
    BY Positions DEF PInv, RInv, Inv
  <2> QED
    BY <2>1, <2>2
<1>2. /\ k \in 1..Len(Packets) + 1 /\ Len(Packets) \in Nat
      /\ \A i \in 1..Len(Packets) + 1 : Begin(i) \in 0..Len(Bytes)
      /\ \A i, j \in 1..Len(Packets) + 1 : i < j => Begin(i) < Begin(j)
  BY StreamFacts DEF PInv, ForwarderOK
<1>3. ASSUME NEW i \in k..Len(Packets) PROVE ~(Begin(i + 1) =< Arrived)
  <2>1. /\ k \in 1..Len(Packets) /\ k + 1 \in 1..Len(Packets) + 1
        /\ i + 1 \in 1..Len(Packets) + 1 /\ (k + 1 < i + 1 \/ k + 1 = i + 1)
    BY <1>2
  <2>2. Decoded < Begin(k + 1)
    BY <2>1, NotYetWaited
  <2>3. /\ Begin(k + 1) < Begin(i + 1) \/ Begin(k + 1) = Begin(i + 1)
        /\ Begin(k + 1) \in 0..Len(Bytes) /\ Begin(i + 1) \in 0..Len(Bytes)
    BY <1>2, <2>1
  <2> QED
    BY <1>1, <2>2, <2>3
<1>4. {i \in k..Len(Packets) : Begin(i + 1) =< Arrived} = {}
  BY <1>3
<1> QED
  BY <1>4, FS_EmptySet DEF WholeArrived

(* Nothing parsed is the beginning of whatever is to be parsed.            *)
LEMMA NothingParsed ==
    ASSUME PInv, NEW first \in DOMAIN stream.begin, parsed = <<>>
    PROVE  IsPrefix(parsed, WholeBodies(first))
<1>1. /\ Sent \in Seq(Seq(Alphabet)) /\ Len(Sent) = Len(Packets)
      /\ first \in 1..Len(Packets) + 1 /\ Len(Packets) \in Nat
  BY StreamFacts, SentFacts DEF PInv, ForwarderOK
<1>2. PICK a \in Nat : a = first - 1 /\ a + 1 = first /\ a =< Len(Sent)
  BY <1>1
<1>3. WholeBodies(first) \in Seq(Seq(Alphabet))
  <2>1. SubSeq(Sent, a + 1, Len(Sent)) \in Seq(Seq(Alphabet))
    BY <1>1, <1>2, Middle
  <2> QED
    BY <1>2, <2>1 DEF WholeBodies
<1>4. Len(WholeBodies(first)) \in Nat /\ Len(parsed) = 0
  BY <1>3, LenProperties
<1>5. SubSeq(WholeBodies(first), 1, 0) = <<>> /\ SubSeq(parsed, 1, 0) = <<>>
  BY <1>3, SubSeqEmpty
<1> QED
  BY <1>4, <1>5 DEF IsPrefix

LEMMA ResumingLosesOne ==
    ASSUME PInv, Resuming, Recoverable(stream)
    PROVE  AtMostOneLost
<1> SUFFICES ASSUME conn \in members, NEW first \in DOMAIN stream.begin,
                    WholeFrom(first)
             PROVE  /\ \/ IsPrefix(parsed, WholeBodies(first))
                       \/ IsPrefix(parsed, WholeBodies(first + 1))
                    /\ wire = <<>> /\ reading
                         => Len(parsed) >= WholeArrived(first) - 1
  BY DEF AtMostOneLost
<1>1. Resumes(first)
  BY DEF Resuming
<1>2. /\ first \in DOMAIN Packets =>
            first \in 1..Len(Packets) /\ first + 1 \in DOMAIN stream.begin
  BY StreamFacts DEF PInv, ForwarderOK
<1>3. Len(parsed) \in Nat
  BY LenProperties DEF PInv, RInv, Inv, TypeOK
<1>4. CASE AlignedFrom(first)
  <2>1. IsPrefix(parsed, WholeBodies(first))
    BY <1>4, ParsedPrefix
  <2>2. wire = <<>> /\ reading => Len(parsed) = WholeArrived(first)
    BY <1>4, ParsedWhole
  <2> QED
    BY <1>3, <2>1, <2>2
<1>5. CASE Waiting(first)
  <2>1. parsed = <<>> /\ IsPrefix(parsed, WholeBodies(first))
    BY <1>5, NothingParsed DEF Waiting
  <2>2. wire = <<>> /\ reading => WholeArrived(first) = 0
    BY <1>5, NoneArrived
  <2> QED
    BY <1>3, <2>1, <2>2
<1>6. CASE first \in DOMAIN Packets /\ AlignedFrom(first + 1)
  <2>1. IsPrefix(parsed, WholeBodies(first + 1))
    BY <1>2, <1>6, ParsedPrefix
  <2>2. wire = <<>> /\ reading => Len(parsed) = WholeArrived(first + 1)
    BY <1>2, <1>6, ParsedWhole
  <2>3. /\ WholeArrived(first) \in Nat /\ WholeArrived(first + 1) \in Nat
        /\ WholeArrived(first) =< WholeArrived(first + 1) + 1
    BY <1>2, <1>6, OneMore
  <2> QED
    BY <1>3, <2>1, <2>2, <2>3
<1>7. CASE first \in DOMAIN Packets /\ Waiting(first + 1)
  <2>1. parsed = <<>> /\ IsPrefix(parsed, WholeBodies(first))
    BY <1>7, NothingParsed DEF Waiting
  <2>2. wire = <<>> /\ reading => WholeArrived(first + 1) = 0
    BY <1>2, <1>7, NoneArrived
  <2>3. /\ WholeArrived(first) \in Nat
        /\ WholeArrived(first) =< WholeArrived(first + 1) + 1
    BY <1>2, <1>7, OneMore
  <2> QED
    BY <1>3, <2>1, <2>2, <2>3
<1> QED
  BY <1>1, <1>4, <1>5, <1>6, <1>7 DEF Resumes

(* On every connection, also on one whose first bytes hold something like  *)
(* a marker, the first whole packet is the only one that may be lost: if   *)
(* only the packets pass for packets, and what runs into a packet ends in  *)
(* it and is not followed by what runs into the next                       *)
(* (IoHandler.cpp:26-34, 110-155, main.cpp:88-127, forwarder.c:300-307).   *)
THEOREM LostAtMostOne ==
    ASSUME \A s \in Streams : Unmistakable(s) /\ Recoverable(s)
    PROVE  PipelineSpec => []AtMostOneLost
<1>1. PInv /\ Resuming => AtMostOneLost
  BY ResumingLosesOne DEF PInv, ForwarderOK
<1>2. PInv /\ Resuming /\ [PipelineNext]_pipelineVars => Resuming'
  BY ResumingNext
<1> QED
  BY PipelineInitInv, PipelineNextInv, ResumingInit, <1>1, <1>2, PTL
  DEF PipelineSpec
=============================================================================
