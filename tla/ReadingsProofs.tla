--------------------------- MODULE ReadingsProofs ---------------------------
(***************************************************************************)
(* What RainGauge says of the recorded rain, for every collection time,    *)
(* amount of rain, number of resets and delay of the messages, and what    *)
(* Readings says of all that the station can measure.                      *)
(***************************************************************************)
EXTENDS Readings, SequenceTheorems, FiniteSetTheorems, WellFoundedInduction, TLAPS

USE DEF gaugeVars, rainVars, skyVars

(* Every step keeps the types.                                             *)
LEMMA GaugeTypesKept == GaugeTypeOK /\ [GaugeNext]_gaugeVars => GaugeTypeOK'
<1> SUFFICES ASSUME GaugeTypeOK, [GaugeNext]_gaugeVars PROVE GaugeTypeOK'
  OBVIOUS
<1> USE RainGaugeAssumption DEF GaugeTypeOK
<1>1. CASE convertRainAmountValue(total)
  BY <1>1 DEF convertRainAmountValue, FirstAmount, CloseWindow, WithinWindow, Collected
<1>2. CASE Rain
  BY <1>2 DEF Rain
<1>3. CASE CounterReset
  BY <1>3 DEF CounterReset
<1>4. CASE Tick
  BY <1>4 DEF Tick
<1>5. CASE Restart
  BY <1>5 DEF Restart
<1>6. CASE UNCHANGED gaugeVars
  BY <1>6
<1> QED BY <1>1, <1>2, <1>3, <1>4, <1>5, <1>6 DEF GaugeNext

(* The amounts and times are what they should be; in particular the rain   *)
(* of a window is never negative (Database.cpp:34-43).                     *)
THEOREM GaugeTypes == GaugeSpec => []GaugeTypeOK
<1>1. GaugeInit => GaugeTypeOK
  BY DEF GaugeInit, GaugeTypeOK
<1> QED BY <1>1, GaugeTypesKept, PTL DEF GaugeSpec

(* Nothing has been credited that the counter does not show: the inductive *)
(* strengthening of NeverTooMuch.  Until it is reset the counter is where  *)
(* the amount that counting started from and the rain since then put it.   *)
CounterShows ==
    /\ NeverTooMuch
    /\ Started => credited =< fallen

(* Rain is never credited twice, nor before it falls: a call moves what    *)
(* Collected says into credited, rain raises both sides by at most one,    *)
(* and a reset of the counter only lowers the left one                     *)
(* (Database.cpp:34-43).                                                   *)
THEOREM NoRainTwice == GaugeSpec => []NeverTooMuch
<1>1. GaugeInit => CounterShows
  BY DEF GaugeInit, CounterShows, NeverTooMuch, Started
<1>2. GaugeTypeOK /\ CounterShows /\ [GaugeNext]_gaugeVars => CounterShows'
  <2> SUFFICES ASSUME GaugeTypeOK, CounterShows, [GaugeNext]_gaugeVars
               PROVE CounterShows'
    OBVIOUS
  <2> USE DEF CounterShows, NeverTooMuch, Started, Collected, GaugeTypeOK
  <2>1. CASE FirstAmount(total) /\ UNCHANGED <<total, now, resets>>
    BY <2>1 DEF FirstAmount
  <2>2. CASE CloseWindow(total) /\ UNCHANGED <<total, now, resets>>
    BY <2>2 DEF CloseWindow
  <2>3. CASE WithinWindow(total) /\ UNCHANGED <<total, now, resets>>
    BY <2>3 DEF WithinWindow
  <2>4. CASE Rain
    BY <2>4 DEF Rain
  <2>5. CASE CounterReset
    BY <2>5 DEF CounterReset
  <2>6. CASE Tick
    BY <2>6 DEF Tick
  <2>7. CASE Restart
    BY <2>7 DEF Restart
  <2>8. CASE UNCHANGED gaugeVars
    BY <2>8
  <2> QED BY <2>1, <2>2, <2>3, <2>4, <2>5, <2>6, <2>7, <2>8
          DEF GaugeNext, convertRainAmountValue
<1>3. CounterShows => NeverTooMuch
  BY DEF CounterShows
<1> QED BY <1>1, <1>2, <1>3, GaugeTypes, PTL DEF GaugeSpec

(* Until the counter is reset it is never below the amount that counting   *)
(* started from.                                                           *)
NeverBelow == Started /\ resets = 0 => m_lastRainAmount =< total

(* As long as the counter is not reset no rain is left out, whatever the   *)
(* times of the messages are (Database.cpp:34-43).                         *)
THEOREM NoRainLost == GaugeSpec => []NothingLeftOut
<1>1. GaugeInit => NothingLeftOut /\ NeverBelow
  BY DEF GaugeInit, NothingLeftOut, NeverBelow, Started
<1>2. GaugeTypeOK /\ NothingLeftOut /\ NeverBelow /\ [GaugeNext]_gaugeVars
        => NothingLeftOut' /\ NeverBelow'
  <2> SUFFICES ASSUME GaugeTypeOK, NothingLeftOut, NeverBelow, [GaugeNext]_gaugeVars
               PROVE NothingLeftOut' /\ NeverBelow'
    OBVIOUS
  <2> USE DEF NothingLeftOut, NeverBelow, Started, Collected, GaugeTypeOK
  <2>1. CASE FirstAmount(total) /\ UNCHANGED <<total, now, resets>>
    BY <2>1 DEF FirstAmount
  <2>2. CASE CloseWindow(total) /\ UNCHANGED <<total, now, resets>>
    BY <2>2 DEF CloseWindow
  <2>3. CASE WithinWindow(total) /\ UNCHANGED <<total, now, resets>>
    BY <2>3 DEF WithinWindow
  <2>4. CASE Rain
    BY <2>4 DEF Rain
  <2>5. CASE CounterReset
    BY <2>5 DEF CounterReset
  <2>6. CASE Tick
    BY <2>6 DEF Tick
  <2>7. CASE Restart
    BY <2>7 DEF Restart
  <2>8. CASE UNCHANGED gaugeVars
    BY <2>8
  <2> QED BY <2>1, <2>2, <2>3, <2>4, <2>5, <2>6, <2>7, <2>8
          DEF GaugeNext, convertRainAmountValue
<1> QED BY <1>1, <1>2, GaugeTypes, PTL DEF GaugeSpec

(* Windows are neither closed early nor drift: after k of them the next    *)
(* one began k collection times after the first (Database.cpp:38-40).      *)
THEOREM NoWindowEarly == GaugeSpec => []WindowsKeepTime
<1>1. GaugeInit => WindowsKeepTime
  BY DEF GaugeInit, WindowsKeepTime, Started
<1>2. GaugeTypeOK /\ WindowsKeepTime /\ [GaugeNext]_gaugeVars => WindowsKeepTime'
  <2> SUFFICES ASSUME GaugeTypeOK, WindowsKeepTime, [GaugeNext]_gaugeVars
               PROVE WindowsKeepTime'
    OBVIOUS
  <2> USE RainGaugeAssumption DEF WindowsKeepTime, Started, GaugeTypeOK
  <2>1. CASE FirstAmount(total) /\ UNCHANGED <<total, now, resets>>
    BY <2>1 DEF FirstAmount
  <2>2. CASE CloseWindow(total) /\ UNCHANGED <<total, now, resets>>
    <3>1. (closed + 1) * rainAmountCollectionTime
            = closed * rainAmountCollectionTime + rainAmountCollectionTime
      OBVIOUS
    <3> QED BY <2>2, <3>1 DEF CloseWindow, WindowOver
  <2>3. CASE WithinWindow(total) /\ UNCHANGED <<total, now, resets>>
    BY <2>3 DEF WithinWindow
  <2>4. CASE Rain
    BY <2>4 DEF Rain
  <2>5. CASE CounterReset
    BY <2>5 DEF CounterReset
  <2>6. CASE Tick
    BY <2>6 DEF Tick
  <2>7. CASE Restart
    BY <2>7 DEF Restart
  <2>8. CASE UNCHANGED gaugeVars
    BY <2>8
  <2> QED BY <2>1, <2>2, <2>3, <2>4, <2>5, <2>6, <2>7, <2>8
          DEF GaugeNext, convertRainAmountValue
<1> QED BY <1>1, <1>2, GaugeTypes, PTL DEF GaugeSpec

-----------------------------------------------------------------------------
(* The checksum.                                                           *)

(* Induction over a set of numbers.                                        *)
LEMMA AllNumbers ==
    ASSUME NEW G, 0 \in G, \A i \in Nat : i \in G => i + 1 \in G
    PROVE  \A i \in Nat : i \in G
<1>. SUFFICES ASSUME NEW k \in Nat, k \notin G PROVE FALSE
  OBVIOUS
<1>. DEFINE others == Nat \ G
<1>1. k \in others /\ others \subseteq Nat
  OBVIOUS
<1>2. PICK x \in others : \A y \in others : <<y, x>> \notin OpToRel(<, Nat)
  BY <1>1, NatLessThanWellFounded, WFMin, Zenon
<1>3. \A y \in others : ~(y < x)
  BY <1>1, <1>2, Zenon DEF OpToRel
<1>4. x \in Nat /\ x # 0 /\ x \notin G
  OBVIOUS
<1>5. x - 1 \in Nat /\ x - 1 < x /\ (x - 1) + 1 = x
  BY <1>4
<1>6. x - 1 \notin others
  BY <1>3, <1>5
<1>. QED
  BY <1>4, <1>5, <1>6

(* g is the function by which Sum16 is defined, up to n.                   *)
Sums(g, bytes, n) ==
    g = [i \in 0..n |-> IF i = 0 THEN 0 ELSE uint16(g[i - 1] + bytes[i])]

(* The function that Sum16 is defined by exists: it can be built up.       *)
LEMMA BuiltUp ==
    ASSUME NEW bytes, NEW n \in Nat
    PROVE  \E g : Sums(g, bytes, n)
<1>. DEFINE More(t, i) == uint16(t + bytes[i])
<1>. HIDE DEF More
<1>. DEFINE Built(g, m) == g = [i \in 0..m |-> IF i = 0 THEN 0 ELSE More(g[i - 1], i)]
            G == {m \in Nat : \E g : Built(g, m)}
<1>1. 0 \in G
  <2>. DEFINE g == [i \in 0..0 |-> 0]
  <2>1. Built(g, 0)
    OBVIOUS
  <2>. QED
    BY <2>1
<1>2. ASSUME NEW m \in Nat, m \in G
      PROVE  m + 1 \in G
  <2>1. PICK g : Built(g, m)
    BY <1>2
  <2>. DEFINE h == [i \in 0..m + 1 |-> IF i = m + 1 THEN More(g[m], m + 1) ELSE g[i]]
              k == [i \in 0..m + 1 |-> IF i = 0 THEN 0 ELSE More(h[i - 1], i)]
  <2>2. ASSUME NEW i \in 0..m + 1
        PROVE  h[i] = IF i = 0 THEN 0 ELSE More(h[i - 1], i)
    <3>1. CASE i = m + 1
      <4>1. i # 0 /\ i - 1 = m /\ m \in 0..m + 1 /\ m # m + 1
        BY <3>1
      <4>2. h[m] = g[m] /\ h[m + 1] = More(g[m], m + 1)
        BY <4>1
      <4>. HIDE DEF h
      <4>. QED
        BY <3>1, <4>1, <4>2
    <3>2. CASE i # m + 1
      <4>1. i \in 0..m /\ (i # 0 => i - 1 \in 0..m /\ i - 1 \in 0..m + 1 /\ i - 1 # m + 1)
        BY <3>2
      <4>2. h[i] = g[i] /\ (i # 0 => h[i - 1] = g[i - 1])
        BY <3>2, <4>1
      <4>3. g[i] = IF i = 0 THEN 0 ELSE More(g[i - 1], i)
        BY <2>1, <4>1, Zenon
      <4>. HIDE DEF h
      <4>. QED
        BY <4>2, <4>3, Zenon
    <3>. QED
      BY <3>1, <3>2
  <2>3. h = k
    <3>1. h = [i \in 0..m + 1 |-> h[i]]
      OBVIOUS
    <3>. HIDE DEF h
    <3>. QED
      BY <2>2, <3>1, Zenon
  <2>4. Built(h, m + 1)
    BY <2>3
  <2>. HIDE DEF h, Built
  <2>. QED
    BY <2>4
<1>. HIDE DEF G
<1>3. n \in G
  BY <1>1, <1>2, AllNumbers
<1>. QED
  BY <1>3 DEF G, More, Sums

(* A sum of bytes is a number.                                             *)
LEMMA SumRange ==
    ASSUME NEW bytes \in Seq(Nat)
    PROVE  Sum16(bytes) \in Nat
<1>. DEFINE sum == CHOOSE g : Sums(g, bytes, Len(bytes))
<1>1. Sum16(bytes) = sum[Len(bytes)]
  BY Zenon DEF Sum16, Sums
<1>2. Len(bytes) \in Nat /\ \A i \in 1..Len(bytes) : bytes[i] \in Nat
  OBVIOUS
<1>3. Sums(sum, bytes, Len(bytes))
  BY <1>2, BuiltUp, Zenon
<1>. HIDE DEF sum
<1>. DEFINE More(t, i) == uint16(t + bytes[i])
            G == {i \in Nat : i =< Len(bytes) => sum[i] \in Nat}
<1>4. sum[0] = 0 /\ \A i \in 1..Len(bytes) : sum[i] = More(sum[i - 1], i)
  <2>. HIDE DEF More
  <2>1. sum = [i \in 0..Len(bytes) |-> IF i = 0 THEN 0 ELSE More(sum[i - 1], i)]
    BY <1>3, Zenon DEF Sums, More
  <2>. QED
    BY <1>2, <2>1
<1>5. 0 \in G
  BY <1>4
<1>6. ASSUME NEW i \in Nat, i \in G
      PROVE  i + 1 \in G
  <2>. SUFFICES ASSUME i + 1 =< Len(bytes) PROVE sum[i + 1] \in Nat
    OBVIOUS
  <2>1. i + 1 \in 1..Len(bytes) /\ (i + 1) - 1 = i
    BY <1>2
  <2>2. sum[i] \in Nat /\ bytes[i + 1] \in Nat
    BY <1>2, <1>6, <2>1
  <2>3. sum[i + 1] = uint16(sum[i] + bytes[i + 1])
    BY <1>4, <2>1
  <2>. HIDE DEF G
  <2>. QED
    BY <2>2, <2>3 DEF uint16
<1>7. \A i \in Nat : i \in G
  <2>. HIDE DEF G
  <2>. QED
    BY <1>5, <1>6, AllNumbers
<1>. QED
  BY <1>1, <1>2, <1>7

(* What two sequences are together.                                        *)
LEMMA Joined ==
    ASSUME NEW s \in Seq(Nat), NEW t \in Seq(Nat)
    PROVE  /\ s \o t \in Seq(Nat) /\ Len(s \o t) = Len(s) + Len(t)
           /\ Len(s) \in Nat /\ Len(t) \in Nat
           /\ \A i \in 1..Len(s) : (s \o t)[i] = s[i]
           /\ \A i \in 1..Len(t) : (s \o t)[Len(s) + i] = t[i]
           /\ SubSeq(s \o t, 1, Len(s)) = s
<1>1. /\ s \o t \in Seq(Nat) /\ Len(s \o t) = Len(s) + Len(t)
      /\ Len(s) \in Nat /\ Len(t) \in Nat
  OBVIOUS
<1>2. \A i \in 1..Len(s) : (s \o t)[i] = s[i]
  OBVIOUS
<1>3. \A i \in 1..Len(t) : (s \o t)[Len(s) + i] = t[i]
  OBVIOUS
<1>4. SubSeq(s \o t, 1, Len(s)) = s
  <2>. DEFINE all == s \o t
  <2>1. all \in Seq(Nat) /\ Len(s) =< Len(all)
    BY <1>1
  <2>2. \A i \in 1..Len(s) : all[i] = s[i]
    BY <1>2
  <2>. HIDE DEF all
  <2>. DEFINE part == SubSeq(all, 1, Len(s))
  <2>3. part \in Seq(Nat) /\ Len(part) = Len(s) /\ \A i \in 1..Len(s) : part[i] = all[i]
    BY <1>1, <2>1
  <2>. HIDE DEF part
  <2>4. part = s
    BY <2>2, <2>3, SeqEqual
  <2>. QED
    BY <2>4 DEF part, all
<1>. QED
  BY <1>1, <1>2, <1>3, <1>4

(* A packet of the length of its type is valid, and the parsers find in    *)
(* m_data what the station has put there.                                  *)
LEMMA Framed ==
    ASSUME NEW m, m.type \in MsgType, NEW p \in Seq(Nat), p = Payload(m),
           Len(p) + 4 = packetLengthForType(m.type)
    PROVE  /\ IsValid(Packet(m))
           /\ Packet(m)[2] = m.type
           /\ \A i \in 1..Len(p) : Packet(m)[i + 2] = p[i]
<1>. DEFINE head == <<64, m.type>>
            body == head \o p
            sum  == CalcChecksum(body \o <<0, 0>>)
            tail == <<Low(sum), High(sum)>>
<1>1. m.type \in Nat
  BY DEF MsgType, msgTypeRain, msgTypeTempHumidity, msgTypeAirPressure, msgTypeUV,
         msgTypeWind, msgTypeDateTime
<1>2. head \in Seq(Nat) /\ Len(head) = 2 /\ head[1] = 64 /\ head[2] = m.type
  BY <1>1
<1>. HIDE DEF head
<1>3. /\ body \in Seq(Nat) /\ Len(body) = Len(p) + 2 /\ Len(p) \in Nat
      /\ body[2] = m.type /\ \A i \in 1..Len(p) : body[i + 2] = p[i]
  <2>1. /\ body \in Seq(Nat) /\ Len(body) = 2 + Len(p) /\ Len(p) \in Nat
        /\ \A i \in 1..2 : body[i] = head[i]
        /\ \A i \in 1..Len(p) : body[2 + i] = p[i]
    <3>1. /\ body \in Seq(Nat) /\ Len(body) = Len(head) + Len(p) /\ Len(p) \in Nat
          /\ \A i \in 1..Len(head) : body[i] = head[i]
          /\ \A i \in 1..Len(p) : body[Len(head) + i] = p[i]
      BY <1>2, Joined
    <3>. HIDE DEF body
    <3>. QED
      BY <1>2, <3>1
  <2>. HIDE DEF body
  <2>. QED
    BY <1>2, <2>1
<1>. HIDE DEF body
<1>4. ASSUME NEW x \in Nat, NEW y \in Nat
      PROVE  /\ body \o <<x, y>> \in Seq(Nat)
             /\ Len(body \o <<x, y>>) = Len(p) + 4
             /\ \A i \in 1..Len(p) + 2 : (body \o <<x, y>>)[i] = body[i]
             /\ (body \o <<x, y>>)[Len(p) + 3] = x /\ (body \o <<x, y>>)[Len(p) + 4] = y
             /\ SubSeq(body \o <<x, y>>, 1, Len(p) + 2) = body
  <2>. DEFINE last == <<x, y>>
              all  == body \o last
  <2>1. last \in Seq(Nat) /\ Len(last) = 2 /\ last[1] = x /\ last[2] = y
    OBVIOUS
  <2>. HIDE DEF last
  <2>2. /\ all \in Seq(Nat) /\ Len(all) = Len(p) + 2 + 2
        /\ \A i \in 1..Len(p) + 2 : all[i] = body[i]
        /\ \A i \in 1..2 : all[Len(p) + 2 + i] = last[i]
        /\ SubSeq(all, 1, Len(p) + 2) = body
    <3>1. /\ all \in Seq(Nat) /\ Len(all) = Len(body) + Len(last)
          /\ \A i \in 1..Len(body) : all[i] = body[i]
          /\ \A i \in 1..Len(last) : all[Len(body) + i] = last[i]
          /\ SubSeq(all, 1, Len(body)) = body
      BY <1>3, <2>1, Joined
    <3>. HIDE DEF all
    <3>. QED
      BY <1>3, <2>1, <3>1
  <2>. HIDE DEF all
  <2>3. all[Len(p) + 2 + 1] = last[1] /\ all[Len(p) + 2 + 2] = last[2]
    BY <2>2
  <2>4. Len(p) + 2 + 1 = Len(p) + 3 /\ Len(p) + 2 + 2 = Len(p) + 4
    BY <1>3
  <2>. QED
    BY <2>1, <2>2, <2>3, <2>4 DEF all, last
<1>5. sum = Sum16(body) /\ sum \in Nat
  <2>. DEFINE zeros == body \o <<0, 0>>
  <2>1. SubSeq(zeros, 1, Len(p) + 2) = body /\ Len(zeros) = Len(p) + 4
    BY <1>4
  <2>. HIDE DEF zeros
  <2>2. Len(zeros) - 2 = Len(p) + 2
    BY <1>3, <2>1
  <2>3. CalcChecksum(zeros) = Sum16(body)
    BY <2>1, <2>2, Zenon DEF CalcChecksum
  <2>4. Sum16(body) \in Nat
    BY <1>3, SumRange
  <2>. QED
    BY <2>3, <2>4 DEF zeros
<1>. HIDE DEF sum
<1>6. Low(sum) \in Nat /\ High(sum) \in Nat /\ 256 * High(sum) + Low(sum) = sum
  BY <1>5 DEF Low, High
<1>7. Packet(m) = body \o tail
  BY DEF Packet, body, head, sum
<1>. DEFINE packet == body \o tail
<1>8. /\ Len(packet) = Len(p) + 4
      /\ \A i \in 1..Len(p) + 2 : packet[i] = body[i]
      /\ packet[Len(p) + 3] = Low(sum) /\ packet[Len(p) + 4] = High(sum)
      /\ SubSeq(packet, 1, Len(p) + 2) = body
  BY <1>4, <1>6
<1>. HIDE DEF packet
<1>9. packet[2] = m.type /\ \A i \in 1..Len(p) : packet[i + 2] = p[i]
  BY <1>3, <1>8
<1>10. CalcChecksum(packet) = PktChecksum(packet)
  <2>1. CalcChecksum(packet) = sum
    <3>1. Len(packet) - 2 = Len(p) + 2
      BY <1>3, <1>8
    <3>. QED
      BY <1>5, <1>8, <3>1, Zenon DEF CalcChecksum
  <2>2. PktChecksum(packet) = 256 * High(sum) + Low(sum)
    <3>1. Len(packet) - 1 = Len(p) + 3
      BY <1>3, <1>8
    <3>. QED
      BY <1>8, <3>1 DEF PktChecksum
  <2>. QED
    BY <1>6, <2>1, <2>2
<1>11. IsValid(packet)
  <2>1. packetLengthForType(packet[2]) = Len(p) + 4
    BY <1>9
  <2>. QED
    BY <1>3, <1>8, <1>10, <2>1 DEF IsValid
<1>. QED
  BY <1>7, <1>9, <1>11 DEF packet

-----------------------------------------------------------------------------
(* The parsers.                                                            *)

(* The fields without and with a sign.                                     *)
LEMMA BelowRange ==
    ASSUME NEW n \in Nat, NEW x \in Below(n) PROVE x \in Nat /\ x < n
BY DEF Below

LEMMA SignedRange ==
    ASSUME NEW n \in Nat, NEW x \in Signed(n) PROVE x \in Int /\ x < n /\ -n < x
BY DEF Signed

(* The measurements by their types, with the ranges of their fields.       *)
Temperature(m) ==
    /\ m.type = msgTypeTempHumidity
    /\ m.channel \in Below(16) /\ m.humidity \in Below(256)
    /\ m.temperature \in Signed(4096) /\ m.dewPoint \in Signed(4096)

Wind(m) ==
    /\ m.type = msgTypeWind
    /\ m.average \in Below(4096) /\ m.gust \in Below(4096)
    /\ m.direction \in Below(16)

Pressure(m) ==
    /\ m.type = msgTypeAirPressure
    /\ m.absolute \in Below(4096) /\ m.relative \in Below(4096)

UV(m) == m.type = msgTypeUV /\ m.level \in Below(256)

LEMMA Kinds ==
    ASSUME NEW m \in Measurable
    PROVE  Temperature(m) \/ Wind(m) \/ Pressure(m) \/ UV(m) \/ m.type = msgTypeDateTime
BY DEF Measurable, Temperature, Wind, Pressure, UV

(* A number in two bytes.                                                  *)
LEMMA TwoBytes ==
    ASSUME NEW n \in Nat
    PROVE  Low(n) \in Nat /\ High(n) \in Nat /\ 256 * High(n) + Low(n) = n
BY DEF Low, High

(* A word comes back from its two bytes.                                   *)
LEMMA WordBack ==
    ASSUME NEW n \in Nat, NEW packet, NEW i \in Nat,
           packet[i + 3] = Low(n), packet[i + 4] = High(n)
    PROVE  Word(packet, i) = n
<1>1. (i + 1) + 3 = i + 4
  OBVIOUS
<1>2. Word(packet, i) = 256 * High(n) + Low(n)
  BY <1>1, Zenon DEF Word, m_data
<1>. QED
  BY <1>2, TwoBytes

(* The sign is in the upper half of the high byte, the rest in twelve bits.*)
LEMMA SignedBack ==
    ASSUME NEW x \in Signed(4096), NEW packet, NEW i \in Nat,
           packet[i + 3] = Low(SignMagnitude(x)), packet[i + 4] = High(SignMagnitude(x))
    PROVE  SignedTenths(packet, i) = x
<1>. DEFINE n == SignMagnitude(x)
<1>1. x \in Int /\ x < 4096 /\ -4096 < x
  BY SignedRange
<1>2. n = (IF x < 0 THEN 32768 - x ELSE x) /\ n \in Nat
  BY <1>1 DEF SignMagnitude
<1>. HIDE DEF n
<1>3. Word(packet, i) = n
  BY <1>2, WordBack DEF n
<1>4. m_data(packet, i + 1) = High(n)
  <2>1. (i + 1) + 3 = i + 4
    OBVIOUS
  <2>. QED
    BY <2>1 DEF m_data, n
<1>5. CASE x < 0
  <2>1. n = 32768 - x
    BY <1>2, <1>5
  <2>2. n % 4096 = -x /\ High(n) \div 16 # 0
    BY <1>1, <1>5, <2>1 DEF High
  <2>. QED
    BY <1>1, <1>3, <1>4, <2>2 DEF SignedTenths
<1>6. CASE x >= 0
  <2>1. n = x
    BY <1>1, <1>2, <1>6
  <2>2. n % 4096 = x /\ High(n) \div 16 = 0
    BY <1>1, <1>6, <2>1 DEF High
  <2>. QED
    BY <1>1, <1>3, <1>4, <2>2 DEF SignedTenths
<1>. QED
  BY <1>1, <1>5, <1>6

(* Which of the parsers a valid packet gets to.                            *)
LEMMA Parser ==
    ASSUME NEW packet, IsValid(packet)
    PROVE  /\ packet[2] = msgTypeTempHumidity =>
                 parse(packet) = parseTemperatureMessage(packet)
           /\ packet[2] = msgTypeRain => parse(packet) = parseRainMessage(packet)
           /\ packet[2] = msgTypeAirPressure =>
                 parse(packet) = parsePressureMessage(packet)
           /\ packet[2] = msgTypeWind => parse(packet) = parseWindMessage(packet)
           /\ packet[2] = msgTypeUV => parse(packet) = parseUVMessage(packet)
           /\ packet[2] = msgTypeDateTime => parse(packet) = <<>>
BY DEF parse, msgTypeRain, msgTypeTempHumidity, msgTypeAirPressure, msgTypeUV,
       msgTypeWind, msgTypeDateTime, parseDateTimeMessage

(* What each parser makes of the packet of a measurement.                  *)
LEMMA TemperatureParsed ==
    ASSUME NEW m, Temperature(m)
    PROVE  \E interval :
              parse(Packet(m)) =
                 IF m.channel \notin 0..3 THEN <<>>
                 ELSE <<Call(SensorTemp[m.channel], m.temperature, interval),
                        Call(SensorDewPoint[m.channel], m.dewPoint, interval),
                        Call(SensorHumidity[m.channel], m.humidity, interval)>>
<1>. DEFINE t == SignMagnitude(m.temperature)
            d == SignMagnitude(m.dewPoint)
            p == <<16 * 9 + m.channel, Low(t), High(t), m.humidity, Low(d), High(d), 0, 0>>
            packet == Packet(m)
<1>1. m.channel \in Nat /\ m.channel < 16 /\ m.humidity \in Nat
  BY BelowRange DEF Temperature
<1>2. t \in Nat /\ d \in Nat
  BY SignedRange DEF SignMagnitude, Temperature
<1>0. m.type = msgTypeTempHumidity
  BY DEF Temperature
<1>. HIDE DEF t, d
<1>3. p \in Seq(Nat) /\ Len(p) = 8
  <2>1. Low(t) \in Nat /\ High(t) \in Nat /\ Low(d) \in Nat /\ High(d) \in Nat
    BY <1>2, TwoBytes, Zenon
  <2>2. 16 * 9 + m.channel \in Nat
    BY <1>1
  <2>. QED
    BY <1>1, <2>1, <2>2
<1>4. p = Payload(m)
  BY <1>0 DEF Payload, t, d, msgTypeRain, msgTypeTempHumidity, msgTypeAirPressure, msgTypeUV,
         msgTypeWind, msgTypeDateTime
<1>5. p[1] = 144 + m.channel /\ p[2] = Low(t) /\ p[3] = High(t) /\ p[4] = m.humidity
      /\ p[5] = Low(d) /\ p[6] = High(d)
  BY <1>1
<1>. HIDE DEF p
<1>6. m.type \in MsgType /\ Len(p) + 4 = packetLengthForType(m.type)
  BY <1>0, <1>3 DEF MsgType, packetLengthForType, msgTypeRain, msgTypeTempHumidity, msgTypeAirPressure,
         msgTypeUV, msgTypeWind, msgTypeDateTime
<1>7. /\ IsValid(packet) /\ packet[2] = m.type
      /\ \A i \in 1..Len(p) : packet[i + 2] = p[i]
  BY <1>3, <1>4, <1>6, Framed, Zenon
<1>. HIDE DEF packet
<1>8. /\ packet[3] = 144 + m.channel /\ packet[4] = Low(t) /\ packet[5] = High(t)
      /\ packet[6] = m.humidity /\ packet[7] = Low(d) /\ packet[8] = High(d)
  BY <1>3, <1>5, <1>7
<1>9. SignedTenths(packet, 1) = m.temperature
  BY <1>8, SignedBack DEF t, Temperature
<1>10. SignedTenths(packet, 4) = m.dewPoint
  BY <1>8, SignedBack DEF d, Temperature
<1>11. m_data(packet, 0) % 16 = m.channel /\ m_data(packet, 3) = m.humidity
  BY <1>1, <1>8 DEF m_data
<1>12. parse(packet) = parseTemperatureMessage(packet)
  BY <1>0, <1>7, Parser
<1>. DEFINE interval == IF m.channel = 0 THEN 15 ELSE 60
<1>13. parse(packet) =
          IF m.channel \notin 0..3 THEN <<>>
          ELSE <<Call(SensorTemp[m.channel], m.temperature, interval),
                 Call(SensorDewPoint[m.channel], m.dewPoint, interval),
                 Call(SensorHumidity[m.channel], m.humidity, interval)>>
  BY <1>9, <1>10, <1>11, <1>12 DEF parseTemperatureMessage
<1>. QED
  <2>. HIDE DEF interval
  <2>. QED
    BY <1>13, Zenon DEF packet

LEMMA RainParsed ==
    ASSUME NEW m, m.type = msgTypeRain, m.rate \in Nat, m.total \in Nat
    PROVE  parse(Packet(m)) = <<Call(SensorRainRate, m.rate, 70),
                                Call(SensorRainAmount, m.total, 70),
                                Call(SensorRainTotalSum, m.total, 70)>>
<1>. DEFINE hour == m.total % 100
            p == <<Low(m.rate), High(m.rate), Low(hour), High(hour),
                   Low(m.total), High(m.total), Low(m.total), High(m.total),
                   0, 12, 1, 1, 12>>
            packet == Packet(m)
<1>1. hour \in Nat
  OBVIOUS
<1>2. p = Payload(m)
  BY DEF Payload, msgTypeRain, msgTypeTempHumidity, msgTypeAirPressure, msgTypeUV,
         msgTypeWind, msgTypeDateTime
<1>. HIDE DEF hour
<1>3. p \in Seq(Nat) /\ Len(p) = 13
  <2>1. /\ Low(m.rate) \in Nat /\ High(m.rate) \in Nat
        /\ Low(hour) \in Nat /\ High(hour) \in Nat
        /\ Low(m.total) \in Nat /\ High(m.total) \in Nat
    BY <1>1, TwoBytes
  <2>. QED
    BY <2>1
<1>4. /\ p[1] = Low(m.rate) /\ p[2] = High(m.rate)
      /\ p[7] = Low(m.total) /\ p[8] = High(m.total)
  OBVIOUS
<1>. HIDE DEF p
<1>5. m.type \in MsgType /\ Len(p) + 4 = packetLengthForType(m.type)
  BY <1>3 DEF MsgType, packetLengthForType, msgTypeRain, msgTypeTempHumidity, msgTypeAirPressure,
         msgTypeUV, msgTypeWind, msgTypeDateTime
<1>6. /\ IsValid(packet) /\ packet[2] = m.type
      /\ \A i \in 1..Len(p) : packet[i + 2] = p[i]
  BY <1>2, <1>3, <1>5, Framed
<1>. HIDE DEF packet
<1>7. /\ packet[3] = Low(m.rate) /\ packet[4] = High(m.rate)
      /\ packet[9] = Low(m.total) /\ packet[10] = High(m.total)
  BY <1>3, <1>4, <1>6
<1>8. Word(packet, 0) = m.rate /\ Word(packet, 6) = m.total
  BY <1>7, WordBack
<1>9. parse(packet) = parseRainMessage(packet)
  BY <1>6, Parser
<1>. QED
  BY <1>8, <1>9, Zenon DEF parseRainMessage, packet

(* The two speeds in 24 bits, of which the middle byte is shared.          *)
Speeds(m)  == m.gust + 4096 * m.average
LowWord(m) == Speeds(m) % 65536
Top(m)     == Speeds(m) \div 65536

(* Both speeds come back from the three bytes.                             *)
LEMMA SpeedsBack ==
    ASSUME NEW m, Wind(m)
    PROVE  /\ LowWord(m) \in Nat /\ Top(m) \in Nat
           /\ LowWord(m) % 4096 = m.gust
           /\ 16 * Top(m) + (High(LowWord(m)) \div 16) = m.average
<1>. DEFINE gust == m.gust
            average == m.average
            speeds == Speeds(m)
            low == LowWord(m)
            top == Top(m)
<1>1. gust \in Nat /\ gust < 4096 /\ average \in Nat /\ average < 4096
  BY BelowRange DEF Wind
<1>2. speeds = gust + 4096 * average /\ low = speeds % 65536 /\ top = speeds \div 65536
  BY DEF Speeds, LowWord, Top
<1>. HIDE DEF gust, average, speeds, low, top
<1>3. low \in Nat /\ top \in Nat /\ speeds = 65536 * top + low /\ low < 65536
  BY <1>1, <1>2
<1>4. PICK k \in Nat : average = 16 * top + k /\ k < 16
  <2>1. 16 * top =< average /\ average - 16 * top < 16
    BY <1>1, <1>2, <1>3
  <2>. QED
    BY <1>1, <1>3, <2>1
<1>5. low = gust + 4096 * k
  BY <1>1, <1>2, <1>3, <1>4
<1>6. low % 4096 = gust /\ low \div 4096 = k
  BY <1>1, <1>4, <1>5
<1>7. High(low) \div 16 = low \div 4096
  BY <1>3 DEF High
<1>. QED
  BY <1>3, <1>4, <1>6, <1>7 DEF gust, average, low, top

(* A sequence with one more element.                                       *)
LEMMA OneMore ==
    ASSUME NEW T, NEW s \in Seq(T), NEW t \in Seq(T), Len(t) = 1
    PROVE  /\ s \o t \in Seq(T) /\ Len(s \o t) = Len(s) + 1
           /\ \A i \in 1..Len(s) : (s \o t)[i] = s[i]
           /\ (s \o t)[Len(s) + 1] = t[1]
<1>. DEFINE both == s \o t
<1>1. /\ both \in Seq(T) /\ Len(both) = Len(s) + Len(t)
      /\ \A i \in 1..Len(s) + Len(t) :
            both[i] = IF i =< Len(s) THEN s[i] ELSE t[i - Len(s)]
  BY ConcatProperties
<1>2. Len(s) \in Nat
  OBVIOUS
<1>. HIDE DEF both
<1>3. /\ Len(both) = Len(s) + 1 /\ \A i \in 1..Len(s) : both[i] = s[i]
      /\ both[Len(s) + 1] = t[1]
  BY <1>1, <1>2
<1>. QED
  BY <1>1, <1>3 DEF both

(* With a gust and without one.                                            *)
LEMMA Tuples ==
    ASSUME NEW a, NEW b, NEW c
    PROVE  /\ <<a>> \o <<b>> \o <<c>> = <<a, b, c>>
           /\ <<a>> \o <<>> \o <<c>> = <<a, c>>
<1>. DEFINE T == {a, b, c}
            x == <<a>>
            y == <<b>>
            z == <<c>>
            three == <<a, b, c>>
            two == <<a, c>>
<1>1. /\ x \in Seq(T) /\ Len(x) = 1 /\ x[1] = a
      /\ y \in Seq(T) /\ Len(y) = 1 /\ y[1] = b
      /\ z \in Seq(T) /\ Len(z) = 1 /\ z[1] = c
      /\ three \in Seq(T) /\ Len(three) = 3
      /\ three[1] = a /\ three[2] = b /\ three[3] = c
      /\ two \in Seq(T) /\ Len(two) = 2 /\ two[1] = a /\ two[2] = c
  OBVIOUS
<1>. HIDE DEF x, y, z, three, two, T
<1>. DEFINE both == x \o z
            pair == x \o y
            all == pair \o z
<1>2. both \in Seq(T) /\ Len(both) = 2 /\ both[1] = a /\ both[2] = c
  <2>1. /\ both \in Seq(T) /\ Len(both) = Len(x) + 1
        /\ (\A i \in 1..Len(x) : both[i] = x[i]) /\ both[Len(x) + 1] = z[1]
    BY <1>1, OneMore, Zenon
  <2>. HIDE DEF both
  <2>. QED
    BY <1>1, <2>1
<1>3. pair \in Seq(T) /\ Len(pair) = 2 /\ pair[1] = a /\ pair[2] = b
  <2>1. /\ pair \in Seq(T) /\ Len(pair) = Len(x) + 1
        /\ (\A i \in 1..Len(x) : pair[i] = x[i]) /\ pair[Len(x) + 1] = y[1]
    BY <1>1, OneMore, Zenon
  <2>. HIDE DEF pair
  <2>. QED
    BY <1>1, <2>1
<1>. HIDE DEF pair, both
<1>4. /\ all \in Seq(T) /\ Len(all) = 3 /\ all[1] = a /\ all[2] = b /\ all[3] = c
  <2>1. /\ all \in Seq(T) /\ Len(all) = Len(pair) + 1
        /\ (\A i \in 1..Len(pair) : all[i] = pair[i]) /\ all[Len(pair) + 1] = z[1]
    BY <1>1, <1>3, OneMore, Zenon
  <2>. HIDE DEF all
  <2>. QED
    BY <1>1, <1>3, <2>1
<1>. HIDE DEF all
<1>5. both = two
  <2>1. Len(both) = Len(two) /\ \A i \in 1..Len(both) : both[i] = two[i]
    BY <1>1, <1>2
  <2>. QED
    BY <1>1, <1>2, <2>1, SeqEqual, Zenon
<1>6. all = three
  <2>1. Len(all) = Len(three) /\ \A i \in 1..Len(all) : all[i] = three[i]
    BY <1>1, <1>4
  <2>. QED
    BY <1>1, <1>4, <2>1, SeqEqual, Zenon
<1>7. x \o <<>> = x
  BY <1>1
<1>. QED
  BY <1>5, <1>6, <1>7, Zenon DEF all, pair, both, x, y, z, three, two

LEMMA WindParsed ==
    ASSUME NEW m, Wind(m)
    PROVE  LET average   == Call(SensorWindSpeedAvg, m.average, 48)
               direction == Call(SensorWindDirection, 225 * m.direction, 48)
           IN parse(Packet(m)) =
                 IF m.average # m.gust
                 THEN <<average, Call(SensorWindSpeedGust, m.gust, 48), direction>>
                 ELSE <<average, direction>>
<1>. DEFINE low == LowWord(m)
            top == Top(m)
            p == <<16 * 3 + m.direction, 0, Low(low), High(low), top, 0, 32>>
            packet == Packet(m)
<1>1. /\ m.type = msgTypeWind
      /\ m.gust \in Nat /\ m.gust < 4096 /\ m.average \in Nat /\ m.average < 4096
      /\ m.direction \in Nat /\ m.direction < 16
  BY BelowRange DEF Wind
<1>2. /\ low \in Nat /\ top \in Nat /\ low % 4096 = m.gust
      /\ 16 * top + (High(low) \div 16) = m.average
  BY SpeedsBack
<1>3. p = Payload(m)
  BY <1>1 DEF Payload, Speeds, LowWord, Top, msgTypeRain, msgTypeTempHumidity, msgTypeAirPressure,
         msgTypeUV, msgTypeWind, msgTypeDateTime
<1>. HIDE DEF low, top
<1>4. p \in Seq(Nat) /\ Len(p) = 7
  <2>0. low \in Nat
    BY <1>2
  <2>1. Low(low) \in Nat /\ High(low) \in Nat
    BY <2>0, TwoBytes, Zenon
  <2>2. 16 * 3 + m.direction \in Nat
    BY <1>1
  <2>. QED
    BY <1>2, <2>1, <2>2
<1>5. p[1] = 48 + m.direction /\ p[3] = Low(low) /\ p[4] = High(low) /\ p[5] = top
  BY <1>1
<1>. HIDE DEF p
<1>6. m.type \in MsgType /\ Len(p) + 4 = packetLengthForType(m.type)
  BY <1>1, <1>4 DEF MsgType, packetLengthForType, msgTypeRain, msgTypeTempHumidity, msgTypeAirPressure,
         msgTypeUV, msgTypeWind, msgTypeDateTime
<1>7. /\ IsValid(packet) /\ packet[2] = m.type
      /\ \A i \in 1..Len(p) : packet[i + 2] = p[i]
  BY <1>3, <1>4, <1>6, Framed
<1>. HIDE DEF packet
<1>8. /\ packet[3] = 48 + m.direction
      /\ packet[5] = Low(low) /\ packet[6] = High(low) /\ packet[7] = top
  BY <1>4, <1>5, <1>7
<1>9. Word(packet, 2) = low
  BY <1>2, <1>8, WordBack
<1>10. /\ m_data(packet, 0) = 48 + m.direction
       /\ m_data(packet, 3) = High(low) /\ m_data(packet, 4) = top
  BY <1>8 DEF m_data
<1>11. m_data(packet, 0) % 16 = m.direction
  BY <1>1, <1>10
<1>12. /\ Word(packet, 2) % 4096 = m.gust
       /\ 16 * m_data(packet, 4) + (m_data(packet, 3) \div 16) = m.average
  BY <1>2, <1>9, <1>10
<1>13. parse(packet) = parseWindMessage(packet)
  BY <1>1, <1>7, Parser
<1>14. parseWindMessage(packet) =
          <<Call(SensorWindSpeedAvg, m.average, 48)>>
          \o (IF m.average # m.gust
              THEN <<Call(SensorWindSpeedGust, m.gust, 48)>> ELSE <<>>)
          \o <<Call(SensorWindDirection, 225 * m.direction, 48)>>
  BY <1>11, <1>12 DEF parseWindMessage
<1>. DEFINE a == Call(SensorWindSpeedAvg, m.average, 48)
            g == Call(SensorWindSpeedGust, m.gust, 48)
            d == Call(SensorWindDirection, 225 * m.direction, 48)
<1>15. parse(packet) = <<a>> \o (IF m.average # m.gust THEN <<g>> ELSE <<>>) \o <<d>>
  BY <1>13, <1>14
<1>. HIDE DEF a, g, d
<1>16. parse(packet) = IF m.average # m.gust THEN <<a, g, d>> ELSE <<a, d>>
  <2>1. CASE m.average # m.gust
    BY <1>15, <2>1, Tuples
  <2>2. CASE m.average = m.gust
    BY <1>15, <2>2, Tuples
  <2>. QED
    BY <2>1, <2>2
<1>. QED
  BY <1>16 DEF a, g, d, packet

LEMMA PressureParsed ==
    ASSUME NEW m, Pressure(m)
    PROVE  parse(Packet(m)) = <<Call(SensorAirPressure, m.relative, 60)>>
<1>. DEFINE absolute == m.absolute + 4096 * 3
            relative == m.relative + 4096 * 2
            p == <<Low(absolute), High(absolute), Low(relative), High(relative)>>
            packet == Packet(m)
<1>1. /\ m.type = msgTypeAirPressure
      /\ m.absolute \in Nat /\ m.relative \in Nat /\ m.relative < 4096
  BY BelowRange DEF Pressure
<1>2. absolute \in Nat /\ relative \in Nat /\ relative % 4096 = m.relative
  BY <1>1
<1>3. p = Payload(m)
  BY <1>1 DEF Payload, msgTypeRain, msgTypeTempHumidity, msgTypeAirPressure,
         msgTypeUV, msgTypeWind, msgTypeDateTime
<1>. HIDE DEF absolute, relative
<1>4. p \in Seq(Nat) /\ Len(p) = 4
  <2>0. absolute \in Nat /\ relative \in Nat
    BY <1>2
  <2>1. /\ Low(absolute) \in Nat /\ High(absolute) \in Nat
        /\ Low(relative) \in Nat /\ High(relative) \in Nat
    BY <2>0, TwoBytes, Zenon
  <2>. QED
    BY <2>1
<1>5. p[3] = Low(relative) /\ p[4] = High(relative)
  OBVIOUS
<1>. HIDE DEF p
<1>6. m.type \in MsgType /\ Len(p) + 4 = packetLengthForType(m.type)
  BY <1>1, <1>4 DEF MsgType, packetLengthForType, msgTypeRain, msgTypeTempHumidity, msgTypeAirPressure,
         msgTypeUV, msgTypeWind, msgTypeDateTime
<1>7. /\ IsValid(packet) /\ packet[2] = m.type
      /\ \A i \in 1..Len(p) : packet[i + 2] = p[i]
  BY <1>3, <1>4, <1>6, Framed
<1>. HIDE DEF packet
<1>8. packet[5] = Low(relative) /\ packet[6] = High(relative)
  BY <1>4, <1>5, <1>7
<1>9. Word(packet, 2) = relative
  BY <1>2, <1>8, WordBack
<1>10. Word(packet, 2) % 4096 = m.relative
  BY <1>2, <1>9
<1>11. parse(packet) = parsePressureMessage(packet)
  BY <1>1, <1>7, Parser
<1>. QED
  BY <1>10, <1>11 DEF parsePressureMessage, packet

LEMMA UVParsed ==
    ASSUME NEW m, UV(m)
    PROVE  parse(Packet(m)) = <<Call(SensorUVLevel, m.level, 60)>>
<1>. DEFINE p == <<255, m.level>>
            packet == Packet(m)
<1>1. m.type = msgTypeUV /\ m.level \in Nat
  BY BelowRange DEF UV
<1>2. p = Payload(m)
  BY <1>1 DEF Payload, msgTypeRain, msgTypeTempHumidity, msgTypeAirPressure,
         msgTypeUV, msgTypeWind, msgTypeDateTime
<1>3. p \in Seq(Nat) /\ Len(p) = 2 /\ p[2] = m.level
  BY <1>1
<1>. HIDE DEF p
<1>4. m.type \in MsgType /\ Len(p) + 4 = packetLengthForType(m.type)
  BY <1>1, <1>3 DEF MsgType, packetLengthForType, msgTypeRain, msgTypeTempHumidity, msgTypeAirPressure,
         msgTypeUV, msgTypeWind, msgTypeDateTime
<1>5. /\ IsValid(packet) /\ packet[2] = m.type
      /\ \A i \in 1..Len(p) : packet[i + 2] = p[i]
  BY <1>2, <1>3, <1>4, Framed
<1>. HIDE DEF packet
<1>6. m_data(packet, 1) = m.level
  BY <1>3, <1>5 DEF m_data
<1>7. parse(packet) = parseUVMessage(packet)
  BY <1>1, <1>5, Parser
<1>. QED
  BY <1>6, <1>7 DEF parseUVMessage, packet

LEMMA DateTimeParsed ==
    ASSUME NEW m, m.type = msgTypeDateTime
    PROVE  parse(Packet(m)) = <<>>
<1>. DEFINE p == <<0, 0, 59, 23, 31, 12, 12, 129>>
<1>1. p = Payload(m)
  BY DEF Payload, msgTypeRain, msgTypeTempHumidity, msgTypeAirPressure,
         msgTypeUV, msgTypeWind, msgTypeDateTime
<1>2. p \in Seq(Nat) /\ Len(p) = 8
  OBVIOUS
<1>. HIDE DEF p
<1>3. m.type \in MsgType /\ Len(p) + 4 = packetLengthForType(m.type)
  BY <1>2 DEF MsgType, packetLengthForType, msgTypeRain, msgTypeTempHumidity, msgTypeAirPressure,
         msgTypeUV, msgTypeWind, msgTypeDateTime
<1>4. IsValid(Packet(m)) /\ Packet(m)[2] = m.type
  BY <1>1, <1>2, <1>3, Framed
<1>. QED
  BY <1>4, Parser

-----------------------------------------------------------------------------
(* What is recorded.                                                       *)

Pairs(calls) == {<<calls[i].sensor, calls[i].value>> : i \in DOMAIN calls}
Sensors(pairs) == {c[1] : c \in pairs}

(* Two different values are two, three are three.                          *)
LEMMA TwoOrThree ==
    ASSUME NEW x, NEW y, x # y
    PROVE  /\ IsFiniteSet({x, y}) /\ Cardinality({x, y}) = 2
           /\ \A z : z # x /\ z # y => Cardinality({x, y, z}) = 3
<1>1. IsFiniteSet({x}) /\ Cardinality({x}) = 1
  BY FS_Singleton, Zenon
<1>2. {x, y} = {x} \union {y} /\ y \notin {x}
  OBVIOUS
<1>3. IsFiniteSet({x} \union {y}) /\ Cardinality({x} \union {y}) = Cardinality({x}) + 1
  BY <1>1, <1>2, FS_AddElement, Zenon
<1>4. IsFiniteSet({x, y}) /\ Cardinality({x, y}) = 2
  BY <1>1, <1>2, <1>3
<1>5. ASSUME NEW z, z # x, z # y
      PROVE  Cardinality({x, y, z}) = 3
  <2>1. {x, y, z} = {x, y} \union {z} /\ z \notin {x, y}
    BY <1>5
  <2>2. Cardinality({x, y} \union {z}) = Cardinality({x, y}) + 1
    BY <1>4, <2>1, FS_AddElement, Zenon
  <2>. QED
    BY <1>4, <2>1, <2>2
<1>. QED
  BY <1>4, <1>5, Zenon

(* The sensors of one, two or three pairs.                                 *)
LEMMA SensorsOf ==
    ASSUME NEW p, NEW q, NEW u
    PROVE  /\ Sensors({p}) = {p[1]}
           /\ Sensors({p, q}) = {p[1], q[1]}
           /\ Sensors({p, q, u}) = {p[1], q[1], u[1]}
BY DEF Sensors

(* Calls for different sensors are as many as there are sensors.           *)
LEMMA NoCalls == Pairs(<<>>) = {} /\ Cardinality(Sensors(Pairs(<<>>))) = Len(<<>>)
<1>1. Pairs(<<>>) = {}
  BY DEF Pairs
<1>2. Sensors({}) = {}
  BY DEF Sensors
<1>3. Cardinality({}) = 0
  BY FS_EmptySet, Zenon
<1>. QED
  BY <1>1, <1>2, <1>3

(* One call is of one sensor.                                              *)
LEMMA OneCall ==
    ASSUME NEW a
    PROVE  /\ Pairs(<<a>>) = {<<a.sensor, a.value>>}
           /\ Cardinality(Sensors(Pairs(<<a>>))) = Len(<<a>>)
<1>1. Pairs(<<a>>) = {<<a.sensor, a.value>>}
  BY DEF Pairs
<1>2. Sensors(Pairs(<<a>>)) = {a.sensor}
  <2>. DEFINE p == <<a.sensor, a.value>>
  <2>1. p[1] = a.sensor
    OBVIOUS
  <2>2. Pairs(<<a>>) = {p}
    BY <1>1, Zenon
  <2>. HIDE DEF p
  <2>3. Sensors({p}) = {p[1]}
    BY SensorsOf, Zenon
  <2>. QED
    BY <2>1, <2>2, <2>3, Zenon
<1>3. Cardinality({a.sensor}) = 1
  BY FS_Singleton, Zenon
<1>4. Len(<<a>>) = 1
  OBVIOUS
<1>. QED
  BY <1>1, <1>2, <1>3, <1>4, Zenon

(* Two calls.                                                              *)
LEMMA TwoCalls ==
    ASSUME NEW a, NEW b, a.sensor # b.sensor
    PROVE  /\ Pairs(<<a, b>>) = {<<a.sensor, a.value>>, <<b.sensor, b.value>>}
           /\ Cardinality(Sensors(Pairs(<<a, b>>))) = Len(<<a, b>>)
<1>1. Pairs(<<a, b>>) = {<<a.sensor, a.value>>, <<b.sensor, b.value>>}
  BY DEF Pairs
<1>2. Sensors(Pairs(<<a, b>>)) = {a.sensor, b.sensor}
  <2>. DEFINE p == <<a.sensor, a.value>>
              q == <<b.sensor, b.value>>
  <2>1. p[1] = a.sensor /\ q[1] = b.sensor
    OBVIOUS
  <2>2. Pairs(<<a, b>>) = {p, q}
    BY <1>1, Zenon
  <2>. HIDE DEF p, q
  <2>3. Sensors({p, q}) = {p[1], q[1]}
    BY SensorsOf, Zenon
  <2>. QED
    BY <2>1, <2>2, <2>3, Zenon
<1>3. Cardinality({a.sensor, b.sensor}) = 2
  BY TwoOrThree, Zenon
<1>4. Len(<<a, b>>) = 2
  OBVIOUS
<1>. QED
  BY <1>1, <1>2, <1>3, <1>4, Zenon

(* Three calls.                                                            *)
LEMMA ThreeCalls ==
    ASSUME NEW a, NEW b, NEW c,
           a.sensor # b.sensor, a.sensor # c.sensor, b.sensor # c.sensor
    PROVE  /\ Pairs(<<a, b, c>>) = {<<a.sensor, a.value>>, <<b.sensor, b.value>>,
                                    <<c.sensor, c.value>>}
           /\ Cardinality(Sensors(Pairs(<<a, b, c>>))) = Len(<<a, b, c>>)
<1>1. Pairs(<<a, b, c>>) = {<<a.sensor, a.value>>, <<b.sensor, b.value>>,
                            <<c.sensor, c.value>>}
  BY DEF Pairs
<1>2. Sensors(Pairs(<<a, b, c>>)) = {a.sensor, b.sensor, c.sensor}
  <2>. DEFINE p == <<a.sensor, a.value>>
              q == <<b.sensor, b.value>>
              u == <<c.sensor, c.value>>
  <2>1. p[1] = a.sensor /\ q[1] = b.sensor /\ u[1] = c.sensor
    OBVIOUS
  <2>2. Pairs(<<a, b, c>>) = {p, q, u}
    BY <1>1, Zenon
  <2>. HIDE DEF p, q, u
  <2>3. Sensors({p, q, u}) = {p[1], q[1], u[1]}
    BY DEF Sensors
  <2>. QED
    BY <2>1, <2>2, <2>3, Zenon
<1>3. Cardinality({a.sensor, b.sensor, c.sensor}) = 3
  <2>1. \A z : z # a.sensor /\ z # b.sensor => Cardinality({a.sensor, b.sensor, z}) = 3
    BY TwoOrThree, Zenon
  <2>. QED
    BY <2>1
<1>4. Len(<<a, b, c>>) = 3
  OBVIOUS
<1>. QED
  BY <1>1, <1>2, <1>3, <1>4, Zenon

(* What is recorded of a measurement, without the gust of a calm.          *)
Calm(m) == IF m.type = msgTypeWind /\ m.gust = m.average
           THEN {<<SensorWindSpeedGust, m.gust>>} ELSE {}

AsMeasured(m, calls, readings) ==
    /\ Pairs(calls) = readings \ Calm(m)
    /\ Cardinality(Sensors(Pairs(calls))) = Len(calls)

LEMMA MessageRecorded ==
    ASSUME NEW m \in Measurable, NEW amount
    PROVE  AsMeasured(m, parse(Packet(m)), Readings(m, amount))
<1>. USE DEF Readings, Calm
<1>0. \A s, v, i : Call(s, v, i).sensor = s /\ Call(s, v, i).value = v
  BY DEF Call
<1>1. CASE Temperature(m)
  <2>1. m.type = msgTypeTempHumidity /\ m.channel \in Nat
    BY <1>1, BelowRange DEF Temperature
  <2>2. PICK interval :
           parse(Packet(m)) =
              IF m.channel \notin 0..3 THEN <<>>
              ELSE <<Call(SensorTemp[m.channel], m.temperature, interval),
                     Call(SensorDewPoint[m.channel], m.dewPoint, interval),
                     Call(SensorHumidity[m.channel], m.humidity, interval)>>
    BY <1>1, TemperatureParsed
  <2>3. Calm(m) = {}
    BY <2>1 DEF msgTypeRain, msgTypeTempHumidity, msgTypeAirPressure,
           msgTypeUV, msgTypeWind, msgTypeDateTime
  <2>4. CASE m.channel \in 0..3
    <3>. DEFINE a == Call(SensorTemp[m.channel], m.temperature, interval)
                b == Call(SensorDewPoint[m.channel], m.dewPoint, interval)
                c == Call(SensorHumidity[m.channel], m.humidity, interval)
    <3>1. /\ SensorTemp[m.channel] # SensorDewPoint[m.channel]
          /\ SensorTemp[m.channel] # SensorHumidity[m.channel]
          /\ SensorDewPoint[m.channel] # SensorHumidity[m.channel]
      BY <2>4 DEF SensorTemp, SensorDewPoint, SensorHumidity
    <3>2. Readings(m, amount) = {<<SensorTemp[m.channel], m.temperature>>,
                         <<SensorHumidity[m.channel], m.humidity>>,
                         <<SensorDewPoint[m.channel], m.dewPoint>>}
      BY <2>1, <2>4 DEF msgTypeRain, msgTypeTempHumidity, msgTypeAirPressure,
           msgTypeUV, msgTypeWind, msgTypeDateTime
    <3>3. /\ a.sensor = SensorTemp[m.channel] /\ a.value = m.temperature
          /\ b.sensor = SensorDewPoint[m.channel] /\ b.value = m.dewPoint
          /\ c.sensor = SensorHumidity[m.channel] /\ c.value = m.humidity
      BY <1>0
    <3>4. parse(Packet(m)) = <<a, b, c>>
      BY <2>2, <2>4
    <3>. HIDE DEF a, b, c, Readings
    <3>5. /\ Pairs(<<a, b, c>>) = {<<a.sensor, a.value>>, <<b.sensor, b.value>>,
                                   <<c.sensor, c.value>>}
          /\ Cardinality(Sensors(Pairs(<<a, b, c>>))) = Len(<<a, b, c>>)
      <4>1. a.sensor # b.sensor /\ a.sensor # c.sensor /\ b.sensor # c.sensor
        BY <3>1, <3>3, Zenon
      <4>. QED
        BY <4>1, ThreeCalls, Zenon
    <3>6. Pairs(<<a, b, c>>) = Readings(m, amount)
      BY <3>2, <3>3, <3>5
    <3>. QED
      BY <2>3, <3>4, <3>5, <3>6 DEF AsMeasured
  <2>5. CASE m.channel \notin 0..3
    <3>1. Readings(m, amount) = {}
      BY <2>1, <2>5 DEF msgTypeRain, msgTypeTempHumidity, msgTypeAirPressure,
           msgTypeUV, msgTypeWind, msgTypeDateTime
    <3>2. parse(Packet(m)) = <<>>
      BY <2>2, <2>5
    <3>. QED
      BY <2>3, <3>1, <3>2, NoCalls DEF AsMeasured
  <2>. QED
    BY <2>4, <2>5
<1>2. CASE Wind(m)
  <2>. DEFINE a == Call(SensorWindSpeedAvg, m.average, 48)
              b == Call(SensorWindSpeedGust, m.gust, 48)
              c == Call(SensorWindDirection, 225 * m.direction, 48)
  <2>1. m.type = msgTypeWind
    BY <1>2 DEF Wind
  <2>2. parse(Packet(m)) = IF m.average # m.gust THEN <<a, b, c>> ELSE <<a, c>>
    BY <1>2, WindParsed
  <2>3. Readings(m, amount) = {<<SensorWindSpeedAvg, m.average>>, <<SensorWindSpeedGust, m.gust>>,
                       <<SensorWindDirection, 225 * m.direction>>}
    BY <2>1 DEF msgTypeRain, msgTypeTempHumidity, msgTypeAirPressure,
           msgTypeUV, msgTypeWind, msgTypeDateTime
  <2>4. /\ a.sensor = SensorWindSpeedAvg /\ a.value = m.average
        /\ b.sensor = SensorWindSpeedGust /\ b.value = m.gust
        /\ c.sensor = SensorWindDirection /\ c.value = 225 * m.direction
    BY <1>0
  <2>5. /\ SensorWindSpeedAvg # SensorWindSpeedGust
        /\ SensorWindSpeedAvg # SensorWindDirection
        /\ SensorWindSpeedGust # SensorWindDirection
    BY DEF SensorWindSpeedAvg, SensorWindSpeedGust, SensorWindDirection
  <2>. HIDE DEF a, b, c, Readings
  <2>6. CASE m.average # m.gust
    <3>1. Calm(m) = {}
      BY <2>6
    <3>2. /\ Pairs(<<a, b, c>>) = {<<a.sensor, a.value>>, <<b.sensor, b.value>>,
                                   <<c.sensor, c.value>>}
          /\ Cardinality(Sensors(Pairs(<<a, b, c>>))) = Len(<<a, b, c>>)
      <4>1. a.sensor # b.sensor /\ a.sensor # c.sensor /\ b.sensor # c.sensor
        BY <2>4, <2>5, Zenon
      <4>. QED
        BY <4>1, ThreeCalls, Zenon
    <3>3. Pairs(<<a, b, c>>) = Readings(m, amount)
      BY <2>3, <2>4, <3>2
    <3>. QED
      BY <2>2, <2>6, <3>1, <3>2, <3>3 DEF AsMeasured
  <2>7. CASE m.average = m.gust
    <3>1. Calm(m) = {<<SensorWindSpeedGust, m.gust>>}
      BY <2>1, <2>7
    <3>2. /\ Pairs(<<a, c>>) = {<<a.sensor, a.value>>, <<c.sensor, c.value>>}
          /\ Cardinality(Sensors(Pairs(<<a, c>>))) = Len(<<a, c>>)
      <4>1. a.sensor # c.sensor
        BY <2>4, <2>5, Zenon
      <4>. QED
        BY <4>1, TwoCalls, Zenon
    <3>3. \A x, y : /\ <<SensorWindSpeedAvg, x>> # <<SensorWindSpeedGust, y>>
                    /\ <<SensorWindDirection, x>> # <<SensorWindSpeedGust, y>>
      BY <2>5
    <3>4. Pairs(<<a, c>>) = Readings(m, amount) \ Calm(m)
      <4>. HIDE DEF Calm
      <4>. QED
        BY <2>3, <2>4, <3>1, <3>2, <3>3
    <3>. QED
      BY <2>2, <2>7, <3>2, <3>4 DEF AsMeasured
  <2>. QED
    BY <2>6, <2>7
<1>3. CASE Pressure(m)
  <2>1. m.type = msgTypeAirPressure
    BY <1>3 DEF Pressure
  <2>2. Readings(m, amount) = {<<SensorAirPressure, m.relative>>} /\ Calm(m) = {}
    BY <2>1 DEF msgTypeRain, msgTypeTempHumidity, msgTypeAirPressure,
           msgTypeUV, msgTypeWind, msgTypeDateTime
  <2>3. parse(Packet(m)) = <<Call(SensorAirPressure, m.relative, 60)>>
    BY <1>3, PressureParsed
  <2>. DEFINE a == Call(SensorAirPressure, m.relative, 60)
  <2>4. a.sensor = SensorAirPressure /\ a.value = m.relative
    BY <1>0
  <2>. HIDE DEF a, Readings, Calm
  <2>5. Pairs(<<a>>) = {<<a.sensor, a.value>>} /\ Cardinality(Sensors(Pairs(<<a>>))) = Len(<<a>>)
    BY OneCall, Zenon
  <2>6. Pairs(<<a>>) = Readings(m, amount) \ Calm(m)
    BY <2>2, <2>4, <2>5
  <2>7. parse(Packet(m)) = <<a>>
    BY <2>3 DEF a
  <2>. QED
    BY <2>5, <2>6, <2>7, Zenon DEF AsMeasured
<1>4. CASE UV(m)
  <2>1. m.type = msgTypeUV
    BY <1>4 DEF UV
  <2>2. Readings(m, amount) = {<<SensorUVLevel, m.level>>} /\ Calm(m) = {}
    BY <2>1 DEF msgTypeRain, msgTypeTempHumidity, msgTypeAirPressure,
           msgTypeUV, msgTypeWind, msgTypeDateTime
  <2>3. parse(Packet(m)) = <<Call(SensorUVLevel, m.level, 60)>>
    BY <1>4, UVParsed
  <2>. DEFINE a == Call(SensorUVLevel, m.level, 60)
  <2>4. a.sensor = SensorUVLevel /\ a.value = m.level
    BY <1>0
  <2>. HIDE DEF a, Readings, Calm
  <2>5. Pairs(<<a>>) = {<<a.sensor, a.value>>} /\ Cardinality(Sensors(Pairs(<<a>>))) = Len(<<a>>)
    BY OneCall, Zenon
  <2>6. Pairs(<<a>>) = Readings(m, amount) \ Calm(m)
    BY <2>2, <2>4, <2>5
  <2>7. parse(Packet(m)) = <<a>>
    BY <2>3 DEF a
  <2>. QED
    BY <2>5, <2>6, <2>7, Zenon DEF AsMeasured
<1>5. CASE m.type = msgTypeDateTime
  <2>1. Readings(m, amount) = {} /\ Calm(m) = {}
    BY <1>5 DEF msgTypeRain, msgTypeTempHumidity, msgTypeAirPressure,
           msgTypeUV, msgTypeWind, msgTypeDateTime
  <2>2. parse(Packet(m)) = <<>>
    BY <1>5, DateTimeParsed
  <2>. HIDE DEF Readings, Calm
  <2>. QED
    BY <2>1, <2>2, NoCalls DEF AsMeasured
<1>. HIDE DEF Readings, Calm
<1>. QED
  BY <1>1, <1>2, <1>3, <1>4, <1>5, Kinds

(* A rain message; the amount has been converted to delta.                 *)
LEMMA RainRecorded ==
    ASSUME NEW rate \in Nat, NEW amount \in Nat, NEW delta
    PROVE  LET m     == [type |-> msgTypeRain, rate |-> rate, total |-> amount]
               calls == parse(Packet(m))
           IN /\ calls[2].value = amount
              /\ AsMeasured(m, [calls EXCEPT ![2].value = delta], Readings(m, delta))
<1>. DEFINE m == [type |-> msgTypeRain, rate |-> rate, total |-> amount]
            a == Call(SensorRainRate, rate, 70)
            b == Call(SensorRainAmount, amount, 70)
            c == Call(SensorRainTotalSum, amount, 70)
            d == Call(SensorRainAmount, delta, 70)
            calls == parse(Packet(m))
            converted == [calls EXCEPT ![2].value = delta]
<1>1. m.type = msgTypeRain /\ m.rate = rate /\ m.total = amount
  OBVIOUS
<1>2. Readings(m, delta) = {<<SensorRainRate, rate>>, <<SensorRainTotalSum, amount>>,
                            <<SensorRainAmount, delta>>}
  BY <1>1 DEF Readings, msgTypeRain, msgTypeTempHumidity, msgTypeAirPressure,
         msgTypeUV, msgTypeWind, msgTypeDateTime
<1>3. Calm(m) = {}
  BY <1>1 DEF Calm, msgTypeRain, msgTypeWind
<1>4. /\ a.sensor = SensorRainRate /\ a.value = rate
      /\ b.sensor = SensorRainAmount /\ b.value = amount
      /\ c.sensor = SensorRainTotalSum /\ c.value = amount
      /\ d.sensor = SensorRainAmount /\ d.value = delta
      /\ [b EXCEPT !.value = delta] = d
  BY DEF Call
<1>. HIDE DEF m
<1>5. calls = <<a, b, c>>
  BY <1>1, RainParsed
<1>. HIDE DEF a, b, c, d
<1>6. converted = <<a, d, c>>
  <2>1. converted = [<<a, b, c>> EXCEPT ![2] = [b EXCEPT !.value = delta]]
    BY <1>5
  <2>2. converted = [<<a, b, c>> EXCEPT ![2] = d]
    BY <1>4, <2>1
  <2>. HIDE DEF converted
  <2>. QED
    BY <2>2
<1>7. a.sensor # d.sensor /\ a.sensor # c.sensor /\ d.sensor # c.sensor
  BY <1>4 DEF SensorRainRate, SensorRainAmount, SensorRainTotalSum
<1>8. /\ Pairs(<<a, d, c>>) = {<<a.sensor, a.value>>, <<d.sensor, d.value>>,
                               <<c.sensor, c.value>>}
      /\ Cardinality(Sensors(Pairs(<<a, d, c>>))) = Len(<<a, d, c>>)
  BY <1>7, ThreeCalls, Zenon
<1>9. Pairs(<<a, d, c>>) = Readings(m, delta) \ Calm(m)
  BY <1>2, <1>3, <1>4, <1>8
<1>10. AsMeasured(m, converted, Readings(m, delta))
  BY <1>6, <1>8, <1>9, Zenon DEF AsMeasured
<1>11. calls[2].value = amount
  BY <1>4, <1>5
<1>. QED
  BY <1>10, <1>11 DEF m

-----------------------------------------------------------------------------
(* The behaviours.                                                         *)

(* RecordsMeasurement as a property of the values of the variables.        *)
Matches == AsMeasured(measured, recorded, Readings(measured, m_lastRainDelta))

LEMMA Restated == RecordsMeasurement <=> Matches
BY Zenon DEF RecordsMeasurement, Matches, AsMeasured, Pairs, Sensors, Calm

(* A message without rain does nothing to the gauge.                       *)
LEMMA Measured ==
    ASSUME NEW m \in Measurements, Message(m)
    PROVE  Matches' /\ UNCHANGED gaugeVars
<1>1. m \in Measurable
  BY ReadingsAssumption
<1>2. /\ measured' = m /\ recorded' = parse(Packet(m)) /\ UNCHANGED gaugeVars
  BY Zenon DEF Message
<1>3. AsMeasured(m, parse(Packet(m)), Readings(m, m_lastRainDelta'))
  BY <1>1, MessageRecorded, Zenon
<1>. QED
  BY <1>2, <1>3, Zenon DEF Matches

(* Of a rain message the gauge gets the counter.                           *)
LEMMA RainMeasured ==
    ASSUME GaugeTypeOK, NEW rate \in {0, 300}, RainMessage(rate)
    PROVE  Matches' /\ convertRainAmountValue(total)
<1>. DEFINE m == [type |-> msgTypeRain, rate |-> rate, total |-> total]
            calls == parse(Packet(m))
<1>1. rate \in Nat /\ total \in Nat
  BY DEF GaugeTypeOK
<1>2. /\ measured' = m /\ convertRainAmountValue(calls[2].value)
      /\ recorded' = [calls EXCEPT ![2].value = m_lastRainDelta']
  BY Zenon DEF RainMessage
<1>3. \A delta : /\ calls[2].value = total
                 /\ AsMeasured(m, [calls EXCEPT ![2].value = delta], Readings(m, delta))
  BY <1>1, RainRecorded
<1>. HIDE DEF m, calls
<1>4. AsMeasured(m, [calls EXCEPT ![2].value = m_lastRainDelta'],
                 Readings(m, m_lastRainDelta'))
  BY <1>3, Zenon
<1>. QED
  BY <1>2, <1>3, <1>4, Zenon DEF Matches

(* Every step of Readings is one of the gauge, or leaves it alone.         *)
LEMMA GaugeStep ==
    ASSUME GaugeTypeOK, [ReadingsNext]_<<gaugeVars, readingVars>>
    PROVE  [GaugeNext]_gaugeVars
<1>1. CASE \E m \in Measurements : Message(m)
  BY <1>1, Measured
<1>2. CASE \E rate \in {0, 300} : RainMessage(rate)
  BY <1>2, RainMeasured DEF GaugeNext
<1>3. CASE Rain \/ CounterReset \/ Tick \/ Restart
  BY <1>3 DEF GaugeNext
<1>4. CASE UNCHANGED <<gaugeVars, readingVars>>
  BY <1>4
<1>. QED
  BY <1>1, <1>2, <1>3, <1>4 DEF ReadingsNext

(* Each message on its way through the parsers is a call of                *)
(* convertRainAmountValue with the counter of the station, or does not     *)
(* concern the gauge: what is proved of the gauge holds of what is         *)
(* recorded (WmrMessage.cpp:253-281, Database.cpp:25-45).                  *)
THEOREM ReadingsGauge == ReadingsSpec => GaugeSpec
<1>1. GaugeInit => GaugeTypeOK
  BY DEF GaugeInit, GaugeTypeOK
<1>2. ReadingsInit => GaugeInit
  BY DEF ReadingsInit
<1>3. GaugeTypeOK /\ [ReadingsNext]_<<gaugeVars, readingVars>> => [GaugeNext]_gaugeVars
  BY GaugeStep
<1>. QED
  BY <1>1, <1>2, <1>3, GaugeTypesKept, PTL DEF ReadingsSpec, GaugeSpec

(* Whatever the station can measure is recorded with its value and sign,   *)
(* for the sensor and channel it is of, and nothing else is, for every     *)
(* value that the fields of a packet can hold (WmrMessage.cpp:205-390).    *)
THEOREM MeasurementsRecorded == ReadingsSpec => []RecordsMeasurement
<1>1. ReadingsInit => Matches
  <2>. SUFFICES ASSUME measured = None, recorded = <<>> PROVE Matches
    BY DEF ReadingsInit
  <2>1. Readings(measured, m_lastRainDelta) = {} /\ Calm(measured) = {}
    BY DEF Readings, Calm, None, msgTypeRain, msgTypeTempHumidity,
         msgTypeAirPressure, msgTypeUV, msgTypeWind, msgTypeDateTime
  <2>. QED
    BY <2>1, NoCalls DEF Matches, AsMeasured
<1>2. GaugeTypeOK /\ Matches /\ [ReadingsNext]_<<gaugeVars, readingVars>> => Matches'
  <2>. SUFFICES ASSUME GaugeTypeOK, Matches, [ReadingsNext]_<<gaugeVars, readingVars>>
                PROVE  Matches'
    OBVIOUS
  <2>1. CASE \E m \in Measurements : Message(m)
    BY <2>1, Measured
  <2>2. CASE \E rate \in {0, 300} : RainMessage(rate)
    BY <2>2, RainMeasured
  <2>3. CASE UNCHANGED <<readingVars, m_lastRainDelta>>
    BY <2>3 DEF Matches, readingVars
  <2>4. CASE (Rain \/ CounterReset \/ Tick) /\ UNCHANGED readingVars
    <3>1. UNCHANGED m_lastRainDelta
      BY <2>4 DEF Rain, CounterReset, Tick
    <3>. QED
      BY <2>3, <2>4, <3>1
  <2>5. CASE Restart /\ measured' = None /\ recorded' = <<>>
    <3>1. Readings(None, m_lastRainDelta') = {} /\ Calm(None) = {}
      BY DEF Readings, Calm, None, msgTypeRain, msgTypeTempHumidity,
         msgTypeAirPressure, msgTypeUV, msgTypeWind, msgTypeDateTime
    <3>2. AsMeasured(None, <<>>, Readings(None, m_lastRainDelta'))
      BY <3>1, NoCalls DEF AsMeasured
    <3>. QED
      BY <2>5, <3>2, Zenon DEF Matches
  <2>6. CASE UNCHANGED <<gaugeVars, readingVars>>
    BY <2>3, <2>6
  <2>. QED
    BY <2>1, <2>2, <2>4, <2>5, <2>6 DEF ReadingsNext
<1>. QED
  BY <1>1, <1>2, GaugeTypes, ReadingsGauge, Restated, PTL DEF ReadingsSpec

=============================================================================
