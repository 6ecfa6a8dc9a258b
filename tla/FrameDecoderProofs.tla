-------------------------- MODULE FrameDecoderProofs --------------------------
(***************************************************************************)
(* Proofs about FrameDecoder for every alphabet, every preamble, every     *)
(* burst and every maxReadLength.                                          *)
(***************************************************************************)
EXTENDS FrameDecoder, SequenceTheorems, TLAPS

(* The length table: every known type has a length between 6 and 17, every *)
(* other byte has none (WmrMessage.cpp:40-59).                             *)
LEMMA PacketLengths ==
    /\ \A t \in MsgType : packetLengthForType(t) \in 6..17
    /\ \A t \in Byte \ MsgType : packetLengthForType(t) = -1
    /\ MsgType \subseteq Byte
BY DEF Byte, MsgType, packetLengthForType, msgTypeRain, msgTypeTempHumidity,
       msgTypeAirPressure, msgTypeUV, msgTypeWind, msgTypeDateTime

(* Appending a byte to a vector of bytes keeps the bytes it has.           *)
LEMMA AppendByte ==
    ASSUME NEW S, NEW s \in Seq(S), NEW b \in S
    PROVE  /\ Append(s, b) \in Seq(S)
           /\ Len(Append(s, b)) = Len(s) + 1
           /\ \A i \in 1..Len(s) : Append(s, b)[i] = s[i]
           /\ Append(s, b)[Len(s) + 1] = b
OBVIOUS

(* The end of a sequence, from its m-th element on.                        *)
LEMMA Suffix ==
    ASSUME NEW S, NEW s \in Seq(S), NEW m \in 1..Len(s)
    PROVE  /\ SubSeq(s, m, Len(s)) \in Seq(S)
           /\ Len(SubSeq(s, m, Len(s))) = Len(s) - m + 1
           /\ \A i \in 1 .. Len(s) - m + 1 :
                 SubSeq(s, m, Len(s))[i] = s[m + i - 1]
<1>1. m \in Int /\ Len(s) \in Int /\ m =< Len(s) /\ m..Len(s) \subseteq 1..Len(s)
  BY LenProperties
<1>2. \A i \in m..Len(s) : s[i] \in S
  BY <1>1, ElementOfSeq
<1> QED
  BY <1>1, <1>2, SubSeqProperties

(* The inductive invariant of the decoder proper.                          *)
Inv == TypeOK /\ PacketPosition /\ MessageLength

LEMMA InitInv == Init => Inv
<1> SUFFICES ASSUME Init PROVE Inv
  OBVIOUS
<1>1. wire \in Seq(Alphabet)
  BY ConstantsAssumption DEF Init
<1>2. TypeOK
  BY <1>1 DEF Init, TypeOK, States
<1>3. PacketPosition /\ MessageLength
  BY DEF Init, PacketPosition, MessageLength, Reserved
<1> QED
  BY <1>2, <1>3 DEF Inv

(* The byte the loop takes next is one of the alphabet.                    *)
LEMMA TakenByte ==
    ASSUME TypeOK, TakeByte
    PROVE  dataByte \in Alphabet /\ pos' \in 0..Len(m_recvBuffer)
BY DEF TypeOK, TakeByte, Decoding, dataByte

LEMMA StartMarkerInv == Inv /\ StartMarkerByte => Inv'
<1> SUFFICES ASSUME Inv, StartMarkerByte PROVE Inv'
  OBVIOUS
<1>1. dataByte \in Alphabet /\ pos' \in 0..Len(m_recvBuffer)
  BY TakenByte DEF Inv, StartMarkerByte
<1>2. window' \in Seq(Alphabet)
  BY <1>1 DEF Inv, TypeOK, StartMarkerByte
<1>3. TypeOK'
  BY <1>1, <1>2
  DEF Inv, TypeOK, StartMarkerByte, TakeByte, ioVars, States
<1>4. PacketPosition'
  BY DEF Inv, TypeOK, PacketPosition, StartMarkerByte, States, Reserved
<1>5. MessageLength'
  BY DEF Inv, MessageLength, StartMarkerByte
<1> QED
  BY <1>3, <1>4, <1>5 DEF Inv

LEMMA FlagsInv == Inv /\ FlagsByte => Inv'
<1> SUFFICES ASSUME Inv, FlagsByte PROVE Inv'
  OBVIOUS
<1>1. dataByte \in Alphabet /\ pos' \in 0..Len(m_recvBuffer)
  BY TakenByte DEF Inv, FlagsByte
<1>2. window' \in Seq(Alphabet) /\ m_data' \in Seq(Alphabet)
  BY <1>1 DEF Inv, TypeOK, FlagsByte
<1>3. Len(m_data') = 1 /\ m_pos' = 1 /\ m_state' = "Type"
  BY <1>1 DEF Inv, TypeOK, PacketPosition, FlagsByte
<1>4. TypeOK'
  BY <1>1, <1>2, <1>3 DEF Inv, TypeOK, FlagsByte, TakeByte, ioVars, States
<1>5. PacketPosition'
  BY <1>3 DEF PacketPosition, Reserved
<1>6. MessageLength'
  BY DEF Inv, MessageLength, FlagsByte
<1> QED
  BY <1>4, <1>5, <1>6 DEF Inv

LEMMA TypeInv == Inv /\ TypeByte => Inv'
<1> SUFFICES ASSUME Inv, TypeByte PROVE Inv'
  OBVIOUS
<1>1. dataByte \in Alphabet /\ pos' \in 0..Len(m_recvBuffer)
  BY TakenByte DEF Inv, TypeByte
<1>2. MessageLength'
  BY DEF Inv, MessageLength, TypeByte
<1>3. CASE StartOver
  <2>1. TypeOK'
    BY <1>1, <1>3
    DEF Inv, TypeOK, TypeByte, TakeByte, ioVars, States, StartOver
  <2>2. PacketPosition'
    BY <1>3 DEF PacketPosition, StartOver, Reserved
  <2> QED
    BY <1>2, <2>1, <2>2 DEF Inv
<1>4. CASE ~StartOver
  <2>1. /\ packetLengthForType(dataByte) > 0
        /\ m_pos' = packetLengthForType(dataByte) - 2
        /\ m_state' = "Data"
        /\ m_data' = Append(m_data, dataByte)
        /\ window' = Append(window, dataByte)
    BY <1>4 DEF TypeByte
  <2>2. dataByte \in MsgType /\ packetLengthForType(dataByte) \in 6..17
    BY <1>1, <2>1, PacketLengths, ConstantsAssumption
  <2>3. /\ m_data' \in Seq(Alphabet) /\ window' \in Seq(Alphabet)
        /\ Len(m_data') = 2 /\ m_data'[2] = dataByte
    <3>1. m_data \in Seq(Alphabet) /\ Len(m_data) = 1 /\ window \in Seq(Alphabet)
      BY DEF Inv, TypeOK, PacketPosition, TypeByte
    <3>2. /\ Append(m_data, dataByte) \in Seq(Alphabet)
          /\ Len(Append(m_data, dataByte)) = Len(m_data) + 1
          /\ Append(m_data, dataByte)[Len(m_data) + 1] = dataByte
      BY <1>1, <3>1, AppendByte
    <3>3. Append(window, dataByte) \in Seq(Alphabet)
      BY <1>1, <3>1, AppendByte
    <3> QED
      BY <2>1, <3>1, <3>2, <3>3
  <2>4. TypeOK'
    <3>1. m_pos' \in Nat /\ m_state' \in States
      BY <2>1, <2>2 DEF States
    <3>2. /\ UNCHANGED <<messages, parsed>> /\ UNCHANGED ioVars
      BY DEF TypeByte, TakeByte
    <3> QED
      BY <1>1, <2>3, <3>1, <3>2 DEF Inv, TypeOK, ioVars
  <2>5. PacketPosition'
    BY <2>1, <2>2, <2>3 DEF PacketPosition, Reserved
  <2> QED
    BY <1>2, <2>4, <2>5 DEF Inv
<1> QED
  BY <1>3, <1>4

LEMMA DataInv == Inv /\ DataByte => Inv'
<1> SUFFICES ASSUME Inv, DataByte PROVE Inv'
  OBVIOUS
<1> DEFINE data == Append(m_data, dataByte)
<1>1. dataByte \in Alphabet /\ pos' \in 0..Len(m_recvBuffer)
  BY TakenByte DEF Inv, DataByte
<1>2. /\ data \in Seq(Alphabet) /\ Len(data) = Len(m_data) + 1
      /\ data[2] = m_data[2]
  BY <1>1, AppendByte DEF Inv, TypeOK, PacketPosition, DataByte
<1>3. /\ m_data[2] \in MsgType /\ m_pos > 0 /\ m_pos \in Nat
      /\ Len(m_data) \in Nat /\ Len(m_data) >= 2
      /\ Len(m_data) + m_pos = packetLengthForType(m_data[2])
      /\ packetLengthForType(m_data[2]) \in 6..17
  <2>1. /\ m_data[2] \in MsgType /\ m_pos > 0
        /\ Len(m_data) >= 2
        /\ Len(m_data) + m_pos = packetLengthForType(m_data[2])
    BY DEF Inv, PacketPosition, DataByte
  <2>2. m_pos \in Nat /\ Len(m_data) \in Nat
    BY DEF Inv, TypeOK
  <2> QED
    BY <2>1, <2>2, PacketLengths
<1>4. CASE m_pos - 1 # 0
  <2>1. /\ m_pos' = m_pos - 1 /\ m_data' = data /\ m_state' = "Data"
        /\ window' = Append(window, dataByte)
        /\ UNCHANGED <<messages, parsed>>
    BY <1>4 DEF DataByte
  <2>2. window' \in Seq(Alphabet)
    BY <1>1, <2>1 DEF Inv, TypeOK
  <2>3. TypeOK'
    BY <1>1, <1>2, <1>3, <1>4, <2>1, <2>2
    DEF Inv, TypeOK, DataByte, TakeByte, ioVars, States
  <2>4. PacketPosition'
    BY <1>2, <1>3, <1>4, <2>1 DEF PacketPosition, Reserved
  <2>5. MessageLength'
    BY <2>1 DEF Inv, MessageLength
  <2> QED
    BY <2>3, <2>4, <2>5 DEF Inv
<1>5. CASE m_pos - 1 = 0
  <2>1. /\ messages' = Append(messages, data)
        /\ parsed' = IF IsValid(data) THEN Append(parsed, data) ELSE parsed
        /\ StartOver
    BY <1>5 DEF DataByte
  <2>2. messages' \in Seq(Seq(Alphabet)) /\ parsed' \in Seq(Seq(Alphabet))
    BY <1>2, <2>1 DEF Inv, TypeOK
  <2>3. TypeOK'
    BY <1>1, <2>1, <2>2
    DEF Inv, TypeOK, DataByte, TakeByte, ioVars, States, StartOver
  <2>4. PacketPosition'
    BY <2>1 DEF PacketPosition, StartOver, Reserved
  <2>5. data[2] \in MsgType /\ Len(data) = packetLengthForType(data[2])
    BY <1>2, <1>3, <1>5
  <2>6. MessageLength'
    <3>1. messages \in Seq(Seq(Alphabet)) /\ MessageLength
      BY DEF Inv, TypeOK
    <3>2. /\ Len(messages') = Len(messages) + 1
          /\ messages'[Len(messages) + 1] = data
          /\ \A i \in 1..Len(messages) : messages'[i] = messages[i]
          /\ DOMAIN messages' = 1..Len(messages')
      BY <1>2, <2>1, <3>1, AppendByte, LenProperties
    <3>3. Len(data) >= 4
      BY <1>2, <1>3, <2>5
    <3>4. SUFFICES ASSUME NEW i \in 1..Len(messages) + 1
                   PROVE  /\ Len(messages'[i]) >= 4
                          /\ messages'[i][2] \in MsgType
                          /\ Len(messages'[i]) =
                                packetLengthForType(messages'[i][2])
      BY <3>2 DEF MessageLength
    <3>5. CASE i = Len(messages) + 1
      BY <2>5, <3>2, <3>3, <3>5
    <3>6. CASE i \in 1..Len(messages)
      BY <3>1, <3>2, <3>6, LenProperties DEF MessageLength
    <3> QED
      BY <3>1, <3>5, <3>6, LenProperties
  <2> QED
    BY <2>3, <2>4, <2>6 DEF Inv
<1> QED
  BY <1>4, <1>5

(* The steps of the network and of the reads.                              *)
LEMMA ArriveInv ==
    ASSUME Inv, NEW burst \in Seq(Alphabet), Arrive(burst) PROVE Inv'
<1>1. TypeOK'
  BY DEF Inv, TypeOK, Arrive, decoderVars
<1>2. PacketPosition' /\ MessageLength'
  BY DEF Inv, PacketPosition, MessageLength, Arrive, decoderVars
<1> QED
  BY <1>1, <1>2 DEF Inv

LEMMA ReadCompleteInv ==
    ASSUME Inv, NEW n \in 1..Len(wire), ReadComplete(n) PROVE Inv'
<1>1. m_recvBuffer' \in Seq(Alphabet) /\ wire' \in Seq(Alphabet)
  BY SubSeqProperties DEF Inv, TypeOK, ReadComplete
<1>2. TypeOK'
  <2>1. pos' = 0 /\ reading' = FALSE
    BY DEF ReadComplete
  <2>2. Len(m_recvBuffer') \in Nat
    BY <1>1, LenProperties
  <2>3. pos' \in 0..Len(m_recvBuffer')
    BY <2>1, <2>2
  <2>4. reading' \in BOOLEAN
    BY <2>1, Zenon
  <2> QED
    BY <1>1, <2>3, <2>4, Zenon DEF Inv, TypeOK, ReadComplete
<1>3. PacketPosition' /\ MessageLength'
  BY DEF Inv, PacketPosition, MessageLength, ReadComplete
<1> QED
  BY <1>2, <1>3 DEF Inv

LEMMA ReadStartInv == Inv /\ ReadStart => Inv'
BY DEF Inv, TypeOK, PacketPosition, MessageLength, ReadStart, decoderVars

LEMMA UnchangedInv == Inv /\ UNCHANGED vars => Inv'
BY DEF Inv, TypeOK, PacketPosition, MessageLength, vars, ioVars, decoderVars

LEMMA NextInv == Inv /\ [Next]_vars => Inv'
<1> SUFFICES ASSUME Inv, [Next]_vars PROVE Inv'
  OBVIOUS
<1>1. ASSUME NEW burst \in Bursts, Arrive(burst) PROVE Inv'
  <2>1. burst \in Seq(Alphabet)
    BY ConstantsAssumption
  <2> QED
    BY <1>1, <2>1, ArriveInv
<1>2. ASSUME NEW n \in 1..Len(wire), ReadComplete(n) PROVE Inv'
  BY <1>2, ReadCompleteInv
<1> QED
  BY <1>1, <1>2, StartMarkerInv, FlagsInv, TypeInv, DataInv,
     ReadStartInv, UnchangedInv DEF Next

(* Every reachable state of the decoder is well typed.                     *)
THEOREM TypeCorrect == Spec => []TypeOK
<1>1. Inv => TypeOK
  BY DEF Inv
<1> QED
  BY InitInv, NextInv, <1>1, PTL DEF Spec

(* m_state, m_pos and m_data agree in every reachable state: m_pos is not  *)
(* decremented below zero and m_data stays within its reserved capacity    *)
(* (IoHandler.cpp:110-153).                                                *)
THEOREM PositionCorrect == Spec => []PacketPosition
<1>1. Inv => PacketPosition
  BY DEF Inv
<1> QED
  BY InitInv, NextInv, <1>1, PTL DEF Spec

(* Every vector handed to WmrMessage has the length of its type, so its    *)
(* size tests cannot fail (WmrMessage.cpp:70, 96-110).                     *)
THEOREM LengthCorrect == Spec => []MessageLength
<1>1. Inv => MessageLength
  BY DEF Inv
<1> QED
  BY InitInv, NextInv, <1>1, PTL DEF Spec

-----------------------------------------------------------------------------
(* Refinement.  A window has at most one start marker, the first; a byte   *)
(* more leaves it where it is, and makes one only out of the last two.     *)

LEMMA MarkerUnique ==
    ASSUME NEW w \in Seq(Alphabet), NEW j, NEW k,
           FS!MarkerAt(w, j), FS!MarkerAt(w, k)
    PROVE  j = k
BY DEF FS!MarkerAt

LEMMA MarkerKept ==
    ASSUME NEW w \in Seq(Alphabet), NEW b \in Alphabet, NEW j,
           FS!MarkerAt(w, j)
    PROVE  FS!MarkerAt(Append(w, b), j)
BY AppendByte DEF FS!MarkerAt

LEMMA MarkerMade ==
    ASSUME NEW w \in Seq(Alphabet), NEW b \in Alphabet,
           \A i \in 1..Len(w) - 1 :
              ~(w[i] = FS!Marker /\ w[i + 1] = FS!Marker)
    PROVE  /\ \A j : FS!MarkerAt(Append(w, b), j) => j = Len(w)
           /\ Len(w) > 0 /\ w[Len(w)] = FS!Marker /\ b = FS!Marker
                => FS!MarkerAt(Append(w, b), Len(w))
           /\ ~(Len(w) > 0 /\ w[Len(w)] = FS!Marker /\ b = FS!Marker)
                => \A i \in 1..Len(Append(w, b)) - 1 :
                      ~(Append(w, b)[i] = FS!Marker /\ Append(w, b)[i + 1] = FS!Marker)
<1>1. /\ Len(Append(w, b)) = Len(w) + 1 /\ Len(w) \in Nat
      /\ \A i \in 1..Len(w) : Append(w, b)[i] = w[i]
      /\ Append(w, b)[Len(w) + 1] = b
  BY AppendByte
<1> QED
  BY <1>1 DEF FS!MarkerAt

(* The step of the abstract specification for a byte that neither ends a   *)
(* packet nor gives one up.                                                *)
LEMMA PlainStep ==
    ASSUME NEW b \in Alphabet,
           window' = Append(window, b), UNCHANGED messages,
           \A j \in 1..Len(Append(window, b)) :
              /\ ~FS!Complete(Append(window, b), j)
              /\ ~FS!Unknown(Append(window, b), j)
    PROVE  FS!Receive(b)
BY DEF FS!Receive

RInv == Inv /\ WindowMatches

LEMMA InitRInv == Init => RInv
BY InitInv DEF RInv, Init, WindowMatches

LEMMA StartMarkerStep ==
    ASSUME RInv, StartMarkerByte PROVE WindowMatches' /\ FS!Receive(dataByte)
<1> DEFINE w == Append(window, dataByte)
<1>1. /\ dataByte \in Alphabet /\ window \in Seq(Alphabet)
      /\ m_state = "StartMarker" /\ m_pos \in {0, 1} /\ m_data = <<>>
      /\ \A i \in 1..Len(window) - 1 :
            ~(window[i] = FS!Marker /\ window[i + 1] = FS!Marker)
      /\ m_pos = 1 <=> Len(window) > 0 /\ window[Len(window)] = FS!Marker
      /\ UNCHANGED <<messages, m_data>> /\ window' = w
  BY TakenByte DEF RInv, Inv, TypeOK, PacketPosition, WindowMatches, StartMarkerByte
<1>2. /\ w \in Seq(Alphabet) /\ Len(w) = Len(window) + 1
      /\ w[Len(window) + 1] = dataByte /\ Len(window) \in Nat
  BY <1>1, AppendByte
<1>3. \A j : FS!MarkerAt(w, j) => j = Len(window)
  BY <1>1, MarkerMade
<1>4. \A j \in 1..Len(w) : ~FS!Complete(w, j) /\ ~FS!Unknown(w, j)
  BY <1>2, <1>3 DEF FS!Complete, FS!Unknown
<1>5. FS!Receive(dataByte)
  BY <1>1, <1>4, PlainStep
<1>6. CASE m_pos = 1 /\ dataByte = 255
  <2>1. FS!MarkerAt(w, Len(window)) /\ m_state' = "Flags" /\ m_data' = <<>>
    BY <1>1, <1>6, MarkerMade DEF FS!Marker, StartMarkerByte
  <2>2. MarkerPosition' = Len(window)
    BY <1>1, <1>2, <2>1 DEF MarkerPosition
  <2>3. WindowMatches'
    BY <1>1, <2>1, <2>2 DEF WindowMatches
  <2> QED
    BY <1>5, <2>3
<1>7. CASE ~(m_pos = 1 /\ dataByte = 255)
  <2>1. m_state' = "StartMarker" /\ (m_pos' = 1 <=> dataByte = 255)
    BY <1>1, <1>7 DEF StartMarkerByte
  <2>2. \A i \in 1..Len(w) - 1 : ~(w[i] = FS!Marker /\ w[i + 1] = FS!Marker)
    BY <1>1, <1>7, MarkerMade DEF FS!Marker
  <2>3. WindowMatches'
    BY <1>1, <1>2, <2>1, <2>2 DEF WindowMatches, FS!Marker
  <2> QED
    BY <1>5, <2>3
<1> QED
  BY <1>6, <1>7

(* What the bytes behind the marker have in common.                        *)
LEMMA BehindMarker ==
    ASSUME RInv, TakeByte, m_state # "StartMarker"
    PROVE  /\ dataByte \in Alphabet
           /\ window \in Seq(Alphabet) /\ m_data \in Seq(Alphabet)
           /\ Len(window) \in Nat /\ Len(m_data) \in Nat
           /\ Append(window, dataByte) \in Seq(Alphabet)
           /\ Len(Append(window, dataByte)) = MarkerPosition + Len(m_data) + 2
           /\ MarkerPosition \in 1..Len(window)
           /\ FS!MarkerAt(Append(window, dataByte), MarkerPosition)
           /\ \A j : FS!MarkerAt(Append(window, dataByte), j) => j = MarkerPosition
           /\ \A i \in 1..Len(m_data) + 1 :
                 Append(m_data, dataByte)[i]
                    = Append(window, dataByte)[MarkerPosition + 1 + i]
<1>1. /\ dataByte \in Alphabet
      /\ window \in Seq(Alphabet) /\ m_data \in Seq(Alphabet)
      /\ FS!MarkerAt(window, MarkerPosition)
      /\ \A i \in 1..Len(m_data) : m_data[i] = window[MarkerPosition + 1 + i]
  BY TakenByte DEF RInv, Inv, TypeOK, WindowMatches
<1>2. Len(window) \in Nat /\ Len(m_data) \in Nat
  BY <1>1, LenProperties
<1>3. MarkerPosition \in 1..Len(window) - 1
  BY <1>1 DEF FS!MarkerAt
<1>4. MarkerPosition + Len(m_data) + 1 = Len(window)
  BY <1>2 DEF MarkerPosition
<1>5. /\ Append(window, dataByte) \in Seq(Alphabet)
      /\ Len(Append(window, dataByte)) = Len(window) + 1
      /\ \A i \in 1..Len(window) : Append(window, dataByte)[i] = window[i]
      /\ Append(window, dataByte)[Len(window) + 1] = dataByte
      /\ \A i \in 1..Len(m_data) : Append(m_data, dataByte)[i] = m_data[i]
      /\ Append(m_data, dataByte)[Len(m_data) + 1] = dataByte
  BY <1>1, AppendByte
<1>6. FS!MarkerAt(Append(window, dataByte), MarkerPosition)
  BY <1>1, MarkerKept
<1>7. \A j : FS!MarkerAt(Append(window, dataByte), j) => j = MarkerPosition
  BY <1>5, <1>6, MarkerUnique
<1>8. ASSUME NEW i \in 1..Len(m_data) + 1
      PROVE  Append(m_data, dataByte)[i]
                = Append(window, dataByte)[MarkerPosition + 1 + i]
  <2>1. CASE i = Len(m_data) + 1
    BY <1>2, <1>3, <1>4, <1>5, <2>1
  <2>2. CASE i \in 1..Len(m_data)
    <3>1. MarkerPosition + 1 + i \in 1..Len(window)
      BY <1>2, <1>3, <1>4, <2>2
    <3> QED
      BY <1>1, <1>5, <2>2, <3>1
  <2>3. \A n \in Nat : \A k \in 1..n + 1 : k = n + 1 \/ k \in 1..n
    OBVIOUS
  <2> QED
    BY <1>2, <2>1, <2>2, <2>3, Zenon
<1>9. Len(Append(window, dataByte)) = MarkerPosition + Len(m_data) + 2
  BY <1>2, <1>3, <1>4, <1>5
<1>10. MarkerPosition \in 1..Len(window)
  BY <1>2, <1>3
<1> QED
  BY <1>1, <1>2, <1>5, <1>6, <1>7, <1>8, <1>9, <1>10

(* A step that collects one more byte behind the marker keeps the match.   *)
LEMMA CollectMatches ==
    ASSUME RInv, TakeByte, m_state # "StartMarker",
           m_data' = Append(m_data, dataByte),
           window' = Append(window, dataByte),
           m_state' # "StartMarker"
    PROVE  WindowMatches'
<1>1. Len(m_data') = Len(m_data) + 1
  BY BehindMarker, AppendByte
<1>2. MarkerPosition' = MarkerPosition
  BY <1>1, BehindMarker DEF MarkerPosition
<1>3. FS!MarkerAt(window', MarkerPosition')
  BY <1>2, BehindMarker
<1>4. \A i \in 1..Len(m_data') : m_data'[i] = window'[MarkerPosition' + 1 + i]
  BY <1>1, <1>2, BehindMarker
<1> QED
  BY <1>3, <1>4 DEF WindowMatches

LEMMA StartOverMatches == StartOver => WindowMatches'
BY DEF StartOver, WindowMatches

LEMMA FlagsStep ==
    ASSUME RInv, FlagsByte PROVE WindowMatches' /\ FS!Receive(dataByte)
<1> DEFINE w == Append(window, dataByte)
<1>1. /\ TakeByte /\ m_state = "Flags" /\ m_state' = "Type"
      /\ m_data' = Append(m_data, dataByte) /\ window' = w
      /\ UNCHANGED messages
  BY DEF FlagsByte
<1>2. Len(m_data) = 0
  BY <1>1 DEF RInv, Inv, PacketPosition
<1>3. Len(w) = MarkerPosition + 2 /\ MarkerPosition \in Nat
  BY <1>1, <1>2, BehindMarker
<1>4. \A j : FS!MarkerAt(w, j) => j = MarkerPosition
  BY <1>1, BehindMarker
<1>5. \A j \in 1..Len(w) : ~FS!Complete(w, j) /\ ~FS!Unknown(w, j)
  BY <1>3, <1>4 DEF FS!Complete, FS!Unknown
<1>6. FS!Receive(dataByte)
  BY <1>1, <1>5, BehindMarker, PlainStep
<1> QED
  BY <1>1, <1>6, CollectMatches

LEMMA TypeStep ==
    ASSUME RInv, TypeByte PROVE WindowMatches' /\ FS!Receive(dataByte)
<1> DEFINE w == Append(window, dataByte)
           j == MarkerPosition
<1>1. TakeByte /\ m_state = "Type" /\ UNCHANGED messages
  BY DEF TypeByte
<1>2. Len(m_data) = 1
  BY <1>1 DEF RInv, Inv, PacketPosition
<1>3. Len(w) = j + 3 /\ j \in 1..Len(w) /\ j \in Nat /\ dataByte \in Alphabet
  BY <1>1, <1>2, BehindMarker
<1>4. FS!MarkerAt(w, j) /\ \A k : FS!MarkerAt(w, k) => k = j
  BY <1>1, BehindMarker
<1>5. w[j + 3] = dataByte
  <2>1. Len(w) = Len(window) + 1 /\ w[Len(window) + 1] = dataByte
    BY <1>1, BehindMarker, AppendByte
  <2>2. Len(window) + 1 = j + 3
    BY <1>3, <2>1
  <2> QED
    BY <2>1, <2>2
<1>6. dataByte \in Byte
  BY <1>3, ConstantsAssumption
<1>7. CASE dataByte \in MsgType
  <2>1. packetLengthForType(dataByte) \in 6..17
    BY <1>7, PacketLengths
  <2>2. /\ m_state' = "Data" /\ m_data' = Append(m_data, dataByte)
        /\ window' = w
    BY <2>1 DEF TypeByte
  <2>3. ~FS!Complete(w, j) /\ ~FS!Unknown(w, j)
    BY <1>3, <1>5, <1>7, <2>1 DEF FS!Complete, FS!Unknown
  <2>4. \A k \in 1..Len(w) : ~FS!Complete(w, k) /\ ~FS!Unknown(w, k)
    BY <1>4, <2>3 DEF FS!Complete, FS!Unknown
  <2>5. FS!Receive(dataByte)
    BY <1>1, <1>3, <2>2, <2>4, PlainStep
  <2> QED
    BY <1>1, <2>2, <2>5, CollectMatches
<1>8. CASE dataByte \notin MsgType
  <2>1. packetLengthForType(dataByte) = -1
    BY <1>6, <1>8, PacketLengths
  <2>2. StartOver
    BY <2>1 DEF TypeByte
  <2>3. FS!Unknown(w, j)
    BY <1>3, <1>4, <1>5, <1>8 DEF FS!Unknown
  <2>4. window' = <<>>
    BY <2>2 DEF StartOver
  <2>5. FS!Receive(dataByte)
    BY <1>1, <1>3, <2>3, <2>4 DEF FS!Receive
  <2> QED
    BY <2>2, <2>5, StartOverMatches
<1> QED
  BY <1>7, <1>8

LEMMA DataStep ==
    ASSUME RInv, DataByte PROVE WindowMatches' /\ FS!Receive(dataByte)
<1> DEFINE w == Append(window, dataByte)
           data == Append(m_data, dataByte)
           j == MarkerPosition
<1>1. TakeByte /\ m_state = "Data"
  BY DEF DataByte
<1>2. /\ Len(m_data) >= 2 /\ m_data[2] \in MsgType
      /\ m_pos \in Nat /\ m_pos > 0
      /\ Len(m_data) + m_pos = packetLengthForType(m_data[2])
  BY <1>1 DEF RInv, Inv, TypeOK, PacketPosition
<1>3. /\ Len(w) = j + Len(m_data) + 2 /\ j \in 1..Len(w) /\ j \in Nat
      /\ Len(m_data) \in Nat /\ dataByte \in Alphabet
      /\ w \in Seq(Alphabet) /\ m_data \in Seq(Alphabet)
      /\ FS!MarkerAt(w, j) /\ \A k : FS!MarkerAt(w, k) => k = j
  BY <1>1, BehindMarker
<1>4. \A i \in 1..Len(m_data) + 1 : data[i] = w[j + 1 + i]
  BY <1>1, BehindMarker
<1>5. /\ data \in Seq(Alphabet) /\ Len(data) = Len(m_data) + 1
      /\ \A i \in 1..Len(m_data) : data[i] = m_data[i]
  BY <1>3, AppendByte
<1>6. w[j + 3] = m_data[2]
  <2>1. data[2] = w[j + 1 + 2]
    BY <1>2, <1>3, <1>4
  <2>2. data[2] = m_data[2]
    BY <1>2, <1>3, <1>5
  <2>3. j + 1 + 2 = j + 3
    BY <1>3
  <2> QED
    BY <2>1, <2>2, <2>3, Zenon
<1>7. packetLengthForType(w[j + 3]) = Len(m_data) + m_pos
  BY <1>2, <1>6
<1>8. ~FS!Unknown(w, j)
  BY <1>2, <1>6 DEF FS!Unknown
<1>9. CASE m_pos - 1 # 0
  <2>1. /\ m_state' = "Data" /\ m_data' = data
        /\ window' = w /\ UNCHANGED messages
    BY <1>1, <1>9 DEF DataByte
  <2>2. ~FS!Complete(w, j)
    BY <1>2, <1>3, <1>7, <1>9 DEF FS!Complete
  <2>3. \A k \in 1..Len(w) : ~FS!Complete(w, k) /\ ~FS!Unknown(w, k)
    BY <1>3, <1>8, <2>2 DEF FS!Complete, FS!Unknown
  <2>4. FS!Receive(dataByte)
    BY <1>3, <2>1, <2>3, PlainStep
  <2> QED
    BY <1>1, <2>1, <2>4, CollectMatches
<1>10. CASE m_pos - 1 = 0
  <2>1. StartOver /\ messages' = Append(messages, data)
    BY <1>10 DEF DataByte
  <2>2. FS!Complete(w, j)
    BY <1>2, <1>3, <1>6, <1>7, <1>10 DEF FS!Complete
  <2>3. data = SubSeq(w, j + 2, Len(w))
    <3> DEFINE rest == SubSeq(w, j + 2, Len(w))
    <3>2. j + 2 \in 1..Len(w)
      BY <1>3
    <3>3. /\ rest \in Seq(Alphabet) /\ Len(rest) = Len(w) - (j + 2) + 1
          /\ \A i \in 1 .. Len(w) - (j + 2) + 1 : rest[i] = w[j + 2 + i - 1]
      BY <1>3, <3>2, Suffix, Zenon
    <3>4. Len(w) - (j + 2) + 1 = Len(m_data) + 1
      BY <1>3
    <3>5. Len(rest) = Len(data)
      BY <1>5, <3>3, <3>4
    <3>6. ASSUME NEW i \in 1..Len(data) PROVE data[i] = rest[i]
      <4>1. i \in 1..Len(m_data) + 1 /\ i \in Int
        BY <1>3, <1>5
      <4>2. j + 2 + i - 1 = j + 1 + i
        BY <1>3, <4>1
      <4> QED
        BY <1>4, <3>3, <3>4, <4>1, <4>2, Zenon
    <3> QED
      BY <1>5, <3>3, <3>5, <3>6, SeqEqual, Zenon
  <2>4. window' = <<>>
    BY <2>1 DEF StartOver
  <2>5. FS!Receive(dataByte)
    BY <1>3, <2>1, <2>2, <2>3, <2>4 DEF FS!Receive
  <2> QED
    BY <2>1, <2>5, StartOverMatches
<1> QED
  BY <1>9, <1>10

(* A step that leaves window and registers alone.                          *)
LEMMA NoByteStep ==
    ASSUME RInv, UNCHANGED <<m_state, m_pos, m_data, messages, window>>
    PROVE  WindowMatches' /\ UNCHANGED FS!vars
BY DEF RInv, WindowMatches, MarkerPosition, FS!MarkerAt, FS!vars

(* The loop takes a byte.                                                  *)
DecodeByte == StartMarkerByte \/ FlagsByte \/ TypeByte \/ DataByte

(* Taking a byte is receiving it.                                          *)
LEMMA DecodeByteStep ==
    ASSUME RInv, DecodeByte
    PROVE  RInv' /\ dataByte \in Alphabet /\ FS!Receive(dataByte)
<1>1. Inv'
  BY StartMarkerInv, FlagsInv, TypeInv, DataInv DEF DecodeByte, RInv
<1>2. dataByte \in Alphabet
  BY TakenByte DEF RInv, Inv, DecodeByte, StartMarkerByte, FlagsByte, TypeByte, DataByte
<1>3. WindowMatches' /\ FS!Receive(dataByte)
  BY StartMarkerStep, FlagsStep, TypeStep, DataStep DEF DecodeByte
<1> QED
  BY <1>1, <1>2, <1>3 DEF RInv

(* Every step of the decoder is a step of FrameStream or leaves it alone.  *)
LEMMA RefinementStep ==
    RInv /\ [Next]_vars => RInv' /\ [FS!Next]_FS!vars
<1> SUFFICES ASSUME RInv, [Next]_vars
             PROVE  WindowMatches' /\ [FS!Next]_FS!vars
  BY NextInv DEF RInv
<1>1. CASE DecodeByte
  <2>1. RInv' /\ dataByte \in Alphabet /\ FS!Receive(dataByte)
    BY <1>1, DecodeByteStep
  <2> QED
    BY <2>1 DEF RInv, FS!Next
<1>2. CASE ~DecodeByte
  <2>1. UNCHANGED <<m_state, m_pos, m_data, messages, window>>
    BY <1>2 DEF Next, DecodeByte, Arrive, ReadComplete, ReadStart, vars, decoderVars
  <2> QED
    BY <2>1, NoByteStep
<1> QED
  BY <1>1, <1>2

(* In every reachable state the registers of the decoder describe the      *)
(* bytes it has seen since it started over (IoHandler.cpp:110-153).        *)
THEOREM WindowCorrect == Spec => []WindowMatches
<1>1. RInv => WindowMatches
  BY DEF RInv
<1>2. RInv /\ [Next]_vars => RInv'
  BY RefinementStep
<1> QED
  BY InitRInv, <1>1, <1>2, PTL DEF Spec

(* The decoder implements FrameStream: it hands over exactly the packets   *)
(* that the stream of bytes contains, however it is cut into reads.        *)
THEOREM Refinement == Spec => ImplementsFrameStream
<1>1. Init => FS!Init
  BY DEF Init, FS!Init
<1>2. RInv /\ [Next]_vars => RInv' /\ [FS!Next]_FS!vars
  BY RefinementStep
<1> QED
  BY InitRInv, <1>1, <1>2, PTL DEF Spec, ImplementsFrameStream, FS!Spec
=============================================================================
