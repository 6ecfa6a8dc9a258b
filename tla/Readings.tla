------------------------------ MODULE Readings ------------------------------
(***************************************************************************)
(* From a packet to the values that are recorded: WmrMessage::parse with   *)
(* the parsers of each type, and the call of addSensorValue up to where    *)
(* the rain amount is converted.                                           *)
(*                                                                         *)
(* A value is an integer in the unit of the station: tenths of a degree    *)
(* Celsius, of a metre per second or of a degree of direction, hundredths  *)
(* of an inch, percent, millibar.  The program multiplies it by a constant *)
(* to get a float.                                                         *)
(***************************************************************************)
EXTENDS WmrMessage, RainGauge, FiniteSets

CONSTANT Measurements  \* what the station may measure, apart from rain

Below(n)  == 0..n - 1
Signed(n) == -(n - 1)..n - 1

(* The fields of a packet have four, eight and twelve bits.                *)
Measurable ==
    [type : {msgTypeTempHumidity}, channel : Below(16), temperature : Signed(4096),
     dewPoint : Signed(4096), humidity : Below(256)]
    \union [type : {msgTypeWind}, average : Below(4096), gust : Below(4096),
            direction : Below(16)]
    \union [type : {msgTypeAirPressure}, absolute : Below(4096), relative : Below(4096)]
    \union [type : {msgTypeUV}, level : Below(256)]
    \union [type : {msgTypeDateTime}]

ASSUME ReadingsAssumption ==
    /\ Measurements \subseteq Measurable
    /\ MaxRain < 65536  \* or the counter would have run over

VARIABLES
    measured,  \* the last measurement the station sent, or None
    recorded   \* the calls of addSensorValue for it, in order

readingVars == <<measured, recorded>>

None == [type |-> 0]

-----------------------------------------------------------------------------
(* Sensors, by the number of the channel where there are four of them.     *)

SensorTemp     == [ch \in 0..3 |-> IF ch = 0 THEN 1 ELSE 10 * ch + 1]
SensorHumidity == [ch \in 0..3 |-> SensorTemp[ch] + 1]
SensorDewPoint == [ch \in 0..3 |-> SensorTemp[ch] + 2]

SensorAirPressure   == 41
SensorUVLevel       == 42
SensorWindSpeedAvg  == 45
SensorWindSpeedGust == 46
SensorWindDirection == 47
SensorRainRate      == 51
SensorRainAmount    == 52
SensorRainTotalSum  == 53

-----------------------------------------------------------------------------
(* The parsers.  packet is what the decoder hands over; m_data begins      *)
(* behind its type.                                                        *)

m_data(packet, i) == packet[i + 3]

Word(packet, i) == 256 * m_data(packet, i + 1) + m_data(packet, i)

Call(sensor, value, interval) ==
    [sensor |-> sensor, value |-> value, normalInterval |-> interval]

(* Twelve bits and a sign: any bit set in the upper half of the high byte. *)
SignedTenths(packet, i) ==
    LET magnitude == Word(packet, i) % 4096
    IN IF m_data(packet, i + 1) \div 16 # 0 THEN -magnitude ELSE magnitude

parseTemperatureMessage(packet) ==
    LET sensor   == m_data(packet, 0) % 16
        interval == IF sensor = 0 THEN 15 ELSE 60
    IN IF sensor \notin 0..3 THEN <<>>
       ELSE <<Call(SensorTemp[sensor], SignedTenths(packet, 1), interval),
              Call(SensorDewPoint[sensor], SignedTenths(packet, 4), interval),
              Call(SensorHumidity[sensor], m_data(packet, 3), interval)>>

parseRainMessage(packet) ==
    <<Call(SensorRainRate, Word(packet, 0), 70),
      Call(SensorRainAmount, Word(packet, 6), 70),
      Call(SensorRainTotalSum, Word(packet, 6), 70)>>

parsePressureMessage(packet) ==
    <<Call(SensorAirPressure, Word(packet, 2) % 4096, 60)>>

(* Mutant: the nibble the two speeds share goes to both.                   *)
parseWindMessageSharing(packet) ==
    LET avgSpeed  == 16 * m_data(packet, 4) + (m_data(packet, 3) % 16)
        gustSpeed == Word(packet, 2) % 4096
    IN <<Call(SensorWindSpeedAvg, avgSpeed, 48)>>
       \o (IF avgSpeed # gustSpeed
           THEN <<Call(SensorWindSpeedGust, gustSpeed, 48)>> ELSE <<>>)
       \o <<Call(SensorWindDirection, 225 * (m_data(packet, 0) % 16), 48)>>

parseWindMessage(packet) ==
    LET avgSpeed  == 16 * m_data(packet, 4) + (m_data(packet, 3) \div 16)
        gustSpeed == Word(packet, 2) % 4096
    IN <<Call(SensorWindSpeedAvg, avgSpeed, 48)>>
       \o (IF avgSpeed # gustSpeed
           THEN <<Call(SensorWindSpeedGust, gustSpeed, 48)>> ELSE <<>>)
       \o <<Call(SensorWindDirection, 225 * (m_data(packet, 0) % 16), 48)>>

parseUVMessage(packet) == <<Call(SensorUVLevel, m_data(packet, 1), 60)>>

(* The time of the station is only shown.                                  *)
parseDateTimeMessage(packet) == <<>>

parse(packet) ==
    IF ~IsValid(packet) THEN <<>>
    ELSE CASE packet[2] = msgTypeTempHumidity -> parseTemperatureMessage(packet)
           [] packet[2] = msgTypeRain         -> parseRainMessage(packet)
           [] packet[2] = msgTypeAirPressure  -> parsePressureMessage(packet)
           [] packet[2] = msgTypeWind         -> parseWindMessage(packet)
           [] packet[2] = msgTypeUV           -> parseUVMessage(packet)
           [] packet[2] = msgTypeDateTime     -> parseDateTimeMessage(packet)

-----------------------------------------------------------------------------
(* The station: how it puts a measurement into a payload.                  *)

Low(n)  == n % 256
High(n) == n \div 256

SignMagnitude(n) == IF n < 0 THEN 4096 * 8 - n ELSE n

Payload(m) ==
    CASE m.type = msgTypeTempHumidity ->
             LET temperature == SignMagnitude(m.temperature)
                 dewPoint    == SignMagnitude(m.dewPoint)
             IN <<16 * 9 + m.channel, Low(temperature), High(temperature),
                  m.humidity, Low(dewPoint), High(dewPoint), 0, 0>>
      [] m.type = msgTypeRain ->
             <<Low(m.rate), High(m.rate), Low(m.total % 100), High(m.total % 100),
               Low(m.total), High(m.total), Low(m.total), High(m.total),
               0, 12, 1, 1, 12>>
      [] m.type = msgTypeAirPressure ->
             LET absolute == m.absolute + 4096 * 3
                 relative == m.relative + 4096 * 2
             IN <<Low(absolute), High(absolute), Low(relative), High(relative)>>
      [] m.type = msgTypeWind ->   \* gust and average are 24 bits together
             LET speeds == m.gust + 4096 * m.average
             IN <<16 * 3 + m.direction, 0, Low(speeds % 65536), High(speeds % 65536),
                  speeds \div 65536, 0, 32>>
      [] m.type = msgTypeUV -> <<255, m.level>>
      [] m.type = msgTypeDateTime -> <<0, 0, 59, 23, 31, 12, 12, 129>>

Packet(m) ==
    LET body == <<64, m.type>> \o Payload(m)
        sum  == CalcChecksum(body \o <<0, 0>>)
    IN body \o <<Low(sum), High(sum)>>

-----------------------------------------------------------------------------

ReadingsInit ==
    /\ GaugeInit
    /\ measured = None /\ recorded = <<>>

(* A message without rain.  The parsers have no state, so it is enough     *)
(* that such messages come in the first second.                            *)
Message(m) ==
    /\ now = 0
    /\ measured' = m
    /\ \E packet \in {Packet(m)} : recorded' = parse(packet)
    /\ UNCHANGED gaugeVars

(* A rain message: of the three values the amount is converted.            *)
RainMessage(rate) ==
    LET m == [type |-> msgTypeRain, rate |-> rate, total |-> total] IN
    /\ measured' = m
    /\ \E packet \in {Packet(m)} : \E calls \in {parse(packet)} :
           /\ convertRainAmountValue(calls[2].value)
           /\ recorded' = [calls EXCEPT ![2].value = m_lastRainDelta']

ReadingsNext ==
    \/ \E m \in Measurements : Message(m)
    \/ \E rate \in {0, 300} : RainMessage(rate)
    \/ Rain /\ UNCHANGED readingVars
    \/ CounterReset /\ UNCHANGED readingVars
    \/ Tick /\ UNCHANGED readingVars
    \/ Restart /\ measured' = None /\ recorded' = <<>>

ReadingsSpec == ReadingsInit /\ [][ReadingsNext]_<<gaugeVars, readingVars>>

-----------------------------------------------------------------------------

(* What is to be recorded of a measurement, as sensors with their values;  *)
(* amount is the rain of the last window.                                  *)
Readings(m, amount) ==
    CASE m.type = msgTypeTempHumidity /\ m.channel \in 0..3 ->
             {<<SensorTemp[m.channel], m.temperature>>,
              <<SensorHumidity[m.channel], m.humidity>>,
              <<SensorDewPoint[m.channel], m.dewPoint>>}
      [] m.type = msgTypeRain ->
             {<<SensorRainRate, m.rate>>, <<SensorRainTotalSum, m.total>>,
              <<SensorRainAmount, amount>>}
      [] m.type = msgTypeAirPressure -> {<<SensorAirPressure, m.relative>>}
      [] m.type = msgTypeWind ->
             {<<SensorWindSpeedAvg, m.average>>, <<SensorWindSpeedGust, m.gust>>,
              <<SensorWindDirection, 225 * m.direction>>}
      [] m.type = msgTypeUV -> {<<SensorUVLevel, m.level>>}
      [] OTHER -> {}

(* Every value the station measures is recorded, once, with its sign, for  *)
(* the sensor and channel it is of, and nothing else is: no bit of a       *)
(* packed field gets into its neighbour.  Only a gust that is no stronger  *)
(* than the average is left out (WmrMessage.cpp:205-390).                  *)
RecordsMeasurement ==
    LET calls == {<<recorded[i].sensor, recorded[i].value>> : i \in DOMAIN recorded}
        calm  == IF measured.type = msgTypeWind /\ measured.gust = measured.average
                 THEN {<<SensorWindSpeedGust, measured.gust>>} ELSE {}
    IN /\ calls = Readings(measured, m_lastRainDelta) \ calm
       /\ Cardinality({c[1] : c \in calls}) = Len(recorded)
=============================================================================
