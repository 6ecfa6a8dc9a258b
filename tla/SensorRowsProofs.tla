--------------------------- MODULE SensorRowsProofs ---------------------------
(***************************************************************************)
(* Proofs about SensorRows for all sensors, values, intervals and bounds.  *)
(***************************************************************************)
EXTENDS SensorRows, SequenceTheorems, TLAPS

Known == Ids \ orphans

(* No row ends before it starts, or in the future.                         *)
Past ==
    \A i \in Ids : /\ numeric_data[i].starttime =< numeric_data[i].endtime
                   /\ numeric_data[i].endtime =< now

(* A call, once begun, is not behind any known row of its sensor.          *)
CallMatches ==
    call # None =>
        /\ running
        /\ call.timestamp =< now
        /\ call.update => m_lastInsertIds[call.sensor] # 0
        /\ call.insert => Len(numeric_data) < MaxRows
        /\ \A i \in Known : numeric_data[i].sensor = call.sensor =>
               numeric_data[i].endtime =< call.timestamp

(* What is left to do of a call that has not failed so far is what makes   *)
(* the last row of its sensor match it.                                    *)
RecordedCall ==
    call # None /\ recorded[call.sensor] # None =>
        LET id == m_lastInsertIds[call.sensor] IN
        /\ recorded[call.sensor] = [value |-> call.value, time |-> call.timestamp]
        /\ call.value # NaN /\ ~call.insert =>
              /\ id # 0
              /\ numeric_data[id].value = call.value
              /\ ~call.update => numeric_data[id].endtime = call.timestamp

(* Nothing survives in memory while the process is down.                   *)
Stopped ==
    ~running => /\ call = None
                /\ m_numericCache = Empty(None)
                /\ m_lastInsertIds = Empty(0)
                /\ recorded = Empty(None)

(* The inductive invariant.                                                *)
Inv ==
    /\ TypeOK /\ MemoryMatches /\ RowsDisjoint /\ Recorded
    /\ Past /\ CallMatches /\ RecordedCall /\ Stopped

-----------------------------------------------------------------------------
(* Functions and sequences.                                                *)

(* Rows brought up to t keep everything but their ends.                    *)
LEMMA EndsMoved ==
    ASSUME numeric_data \in Seq(Row), NEW ids, NEW t \in Times
    PROVE  /\ WithEnd(ids, t) \in Seq(Row)
           /\ Len(WithEnd(ids, t)) = Len(numeric_data)
           /\ DOMAIN WithEnd(ids, t) = Ids
           /\ \A i \in Ids :
                 /\ WithEnd(ids, t)[i].sensor = numeric_data[i].sensor
                 /\ WithEnd(ids, t)[i].value = numeric_data[i].value
                 /\ WithEnd(ids, t)[i].starttime = numeric_data[i].starttime
                 /\ WithEnd(ids, t)[i].endtime =
                       IF i \in ids THEN t ELSE numeric_data[i].endtime
<1>1. Len(numeric_data) \in Nat /\ Ids = 1..Len(numeric_data)
  BY DEF Ids
<1>2. ASSUME NEW i \in Ids
      PROVE  numeric_data[i] \in Row
  BY <1>2 DEF Ids
<1>3. WithEnd(ids, t) \in [1..Len(numeric_data) -> Row]
  BY <1>1, <1>2 DEF WithEnd, Row
<1>4. WithEnd(ids, t) \in Seq(Row) /\ Len(WithEnd(ids, t)) = Len(numeric_data)
  BY <1>1, <1>3
<1> QED
  BY <1>1, <1>2, <1>4 DEF WithEnd, Row

(* A new row goes behind those that are there.                             *)
LEMMA RowAppended ==
    ASSUME numeric_data \in Seq(Row), NEW row \in Row
    PROVE  /\ Append(numeric_data, row) \in Seq(Row)
           /\ Len(numeric_data) \in Nat /\ Ids = 1..Len(numeric_data)
           /\ Len(Append(numeric_data, row)) = Len(numeric_data) + 1
           /\ DOMAIN Append(numeric_data, row) = Ids \union {Len(numeric_data) + 1}
           /\ Len(numeric_data) + 1 \notin Ids
           /\ \A i \in Ids : Append(numeric_data, row)[i] = numeric_data[i]
           /\ Append(numeric_data, row)[Len(numeric_data) + 1] = row
BY DEF Ids

-----------------------------------------------------------------------------
(* What the steps do to the table.                                         *)

(* The row whose id is remembered is the last one of its sensor.           *)
LEMMA LatestRow ==
    ASSUME TypeOK, MemoryMatches,
           NEW s \in Sensors, m_lastInsertIds[s] # 0
    PROVE  /\ m_lastInsertIds[s] \in Known
           /\ T!Latest(s) = {m_lastInsertIds[s]}
<1> DEFINE id == m_lastInsertIds[s]
<1>1. id \in 0..Len(numeric_data) /\ Len(numeric_data) \in Nat
         /\ Ids = 1..Len(numeric_data) /\ orphans \subseteq Ids
  BY DEF TypeOK, Ids
<1>2. id \in Known
  BY <1>1 DEF MemoryMatches, Known
<1>3. numeric_data[id].sensor = s
  BY DEF MemoryMatches
<1>4. \A i \in Known : numeric_data[i].sensor = s => i =< id
  BY DEF MemoryMatches, Known
<1>5. DOMAIN [i \in Known |-> numeric_data[i]] = Known
  OBVIOUS
<1>6. \A i \in Known : i \in Int
  BY <1>1 DEF Known
<1> QED
  BY <1>1, <1>2, <1>3, <1>4, <1>6 DEF T!Latest, Known

(* Remembered rows may be brought up to any time they have not passed.     *)
LEMMA Extension ==
    ASSUME TypeOK, MemoryMatches, RowsDisjoint, Past,
           NEW S \in SUBSET {s \in Sensors : m_lastInsertIds[s] # 0},
           NEW t \in Times, t =< now,
           \A s \in S : numeric_data[m_lastInsertIds[s]].endtime =< t,
           numeric_data' = WithEnd({m_lastInsertIds[s] : s \in S}, t),
           now' = now, orphans' = orphans
    PROVE  RowsDisjoint' /\ Past' /\ T!Extend(S, t)
<1> DEFINE ids == {m_lastInsertIds[s] : s \in S}
<1>1. /\ numeric_data \in Seq(Row) /\ Len(numeric_data) \in Nat
      /\ Ids = 1..Len(numeric_data)
      /\ \A i \in Ids : numeric_data[i] \in Row
  BY DEF TypeOK, Ids
<1>2. \A i \in Ids : /\ numeric_data[i].starttime \in Int
                     /\ numeric_data[i].endtime \in Int
  BY <1>1 DEF Row, Times
<1>3. now \in Int /\ t \in Int
  BY DEF TypeOK, Times
<1>4. ids \subseteq Known
  BY LatestRow
<1>5. /\ Ids' = Ids /\ Known' = Known
      /\ \A i \in Ids :
            /\ numeric_data'[i].sensor = numeric_data[i].sensor
            /\ numeric_data'[i].starttime = numeric_data[i].starttime
            /\ numeric_data'[i].endtime =
                  IF i \in ids THEN t ELSE numeric_data[i].endtime
  BY <1>1, EndsMoved DEF Ids, Known
<1>6. \A i \in ids : i \in Ids /\ numeric_data[i].endtime =< t
  BY <1>4 DEF Known
<1>7. Past'
  BY <1>2, <1>3, <1>5, <1>6 DEF Past
<1>8. RowsDisjoint'
  <2> SUFFICES ASSUME NEW i \in Ids, NEW j \in Ids, i < j,
                      {i, j} \intersect orphans = {},
                      numeric_data[i].sensor = numeric_data[j].sensor
               PROVE  numeric_data'[i].endtime =< numeric_data[j].starttime
    BY <1>2, <1>5, <1>7 DEF RowsDisjoint, Past
  <2>1. i \notin ids
    <3> SUFFICES ASSUME NEW s \in S, i = m_lastInsertIds[s]
                 PROVE  FALSE
      OBVIOUS
    <3>1. numeric_data[i].sensor = s
      BY DEF MemoryMatches
    <3>2. j =< i
      BY <3>1 DEF MemoryMatches
    <3> QED
      BY <1>1, <3>2
  <2> QED
    BY <1>5, <2>1 DEF RowsDisjoint
<1>9. T!Extend(S, t)
  <2>1. UNION {T!Latest(s) : s \in S} = ids
    BY LatestRow
  <2>2. \A i \in ids : [k \in Known |-> numeric_data[k]][i].endtime =< t
    BY <1>4, <1>6
  <2>3. [i \in Known |-> numeric_data[i]]' =
           [i \in Known |-> IF i \in ids THEN [numeric_data[i] EXCEPT !.endtime = t]
                                         ELSE numeric_data[i]]
    BY <1>1, <1>5 DEF WithEnd, Known
  <2> QED
    BY <2>1, <2>2, <2>3 DEF T!Extend, Known
<1> QED
  BY <1>7, <1>8, <1>9

(* Any such change is a step of Timeline.                                  *)
LEMMA ExtendIsNext ==
    ASSUME NEW S \in SUBSET Sensors, NEW t \in Times, T!Extend(S, t)
    PROVE  T!Next
BY DEF T!Next, T!Times, Times

LEMMA BeginIsNext ==
    ASSUME NEW id \in 1..MaxRows, NEW row \in Row, T!Begin(id, row)
    PROVE  T!Next
BY DEF T!Next, T!Times, Times, T!Row, Row

(* A row for the call may be put behind all others.                        *)
LEMMA Insertion ==
    ASSUME Inv, InsertRow,
           numeric_data' = Append(numeric_data, NewRow)
    PROVE  /\ NewRow \in Row
           /\ orphans' = orphans => T!Next
           /\ orphans' = orphans \/ orphans' = orphans \union {Len(numeric_data) + 1}
           /\ RowsDisjoint' /\ Past'
<1> DEFINE id == Len(numeric_data) + 1
<1>1. /\ numeric_data \in Seq(Row) /\ now \in Int
      /\ orphans \subseteq Ids /\ call \in Call
  BY DEF Inv, TypeOK, InsertRow, Times
<1>2. NewRow \in Row /\ call.timestamp \in Int
  BY <1>1 DEF NewRow, Row, Call, Times
<1>3. /\ Len(numeric_data) \in Nat /\ Ids = 1..Len(numeric_data)
      /\ \A i \in Ids : numeric_data[i] \in Row
  BY <1>1 DEF Ids
<1>4. \A i \in Ids : /\ numeric_data[i].starttime \in Int
                     /\ numeric_data[i].endtime \in Int
  BY <1>3 DEF Row, Times
<1>5. /\ Ids' = Ids \union {id} /\ id \notin Ids
      /\ \A i \in Ids : numeric_data'[i] = numeric_data[i]
      /\ numeric_data'[id] = NewRow
  BY <1>1, <1>2, RowAppended DEF Ids
<1>6. orphans' = orphans \/ orphans' = orphans \union {id}
  BY DEF InsertRow
<1>7. /\ NewRow.sensor = call.sensor
      /\ NewRow.starttime = call.timestamp /\ NewRow.endtime = call.timestamp
  BY DEF NewRow
<1>8. /\ call.timestamp =< now
      /\ \A i \in Known : numeric_data[i].sensor = call.sensor =>
             numeric_data[i].endtime =< call.timestamp
  BY DEF Inv, CallMatches, InsertRow
<1>9. now' = now
  BY DEF InsertRow
<1>10. Past'
  <2>1. ASSUME NEW i \in Ids
        PROVE  /\ numeric_data'[i].starttime =< numeric_data'[i].endtime
               /\ numeric_data'[i].endtime =< now'
    BY <1>5, <1>9 DEF Inv, Past
  <2>2. /\ numeric_data'[id].starttime =< numeric_data'[id].endtime
        /\ numeric_data'[id].endtime =< now'
    BY <1>2, <1>5, <1>7, <1>8, <1>9
  <2> QED
    BY <1>5, <2>1, <2>2 DEF Past
<1>11. RowsDisjoint'
  <2> SUFFICES ASSUME NEW i \in Ids', NEW j \in Ids', i < j,
                      {i, j} \intersect orphans' = {},
                      numeric_data'[i].sensor = numeric_data'[j].sensor
               PROVE  numeric_data'[i].endtime =< numeric_data'[j].starttime
    BY <1>10 DEF RowsDisjoint, Past
  <2>1. i \in Known
    BY <1>3, <1>5, <1>6 DEF Known
  <2>2. CASE j \in Ids
    BY <1>5, <1>6, <2>1, <2>2 DEF Inv, RowsDisjoint, Known
  <2>3. CASE j = id
    BY <1>5, <1>7, <1>8, <2>1, <2>3 DEF Known
  <2> QED
    BY <1>5, <2>2, <2>3
<1>12. ASSUME orphans' = orphans
       PROVE  T!Next
  <2> PICK new \in 1..MaxRows, row \in Row : new = id /\ row = NewRow
    BY <1>2, <1>3, SensorRowsAssumption DEF Inv, CallMatches, InsertRow
  <2>1. \A i \in Known : i < new
    BY <1>3 DEF Known
  <2>2. \A i \in T!Latest(row.sensor) :
           [k \in Known |-> numeric_data[k]][i].endtime =< row.starttime
    BY <1>7, <1>8 DEF T!Latest, Known
  <2>3. [i \in Known |-> numeric_data[i]]' =
           [i \in Known \union {new} |->
               IF i = new THEN row ELSE [k \in Known |-> numeric_data[k]][i]]
    BY <1>1, <1>5, <1>12 DEF Known
  <2>4. T!Begin(new, row)
    BY <1>7, <2>1, <2>2, <2>3 DEF T!Begin, Known
  <2> QED
    BY <2>4, BeginIsNext
<1> QED
  BY <1>2, <1>6, <1>10, <1>11, <1>12

-----------------------------------------------------------------------------
(* The invariant, action by action, and what each step is for Timeline.    *)

(* What Timeline sees of the table.                                        *)
table == [i \in Known |-> numeric_data[i]]

(* The invariant holds of the empty table.                                 *)
LEMMA InitInv == Init => Inv
<1> SUFFICES ASSUME Init PROVE Inv
  OBVIOUS
<1>1. Ids = {} /\ numeric_data \in Seq(Row) /\ Len(numeric_data) = 0
  BY DEF Init, Ids
<1>2. TypeOK
  BY <1>1, SensorRowsAssumption DEF Init, TypeOK, Empty, Times
<1>3. MemoryMatches /\ RowsDisjoint /\ Past
  BY <1>1 DEF Init, MemoryMatches, RowsDisjoint, Past, Empty
<1>4. Recorded /\ CallMatches /\ RecordedCall /\ Stopped
  BY DEF Init, Recorded, CallMatches, RecordedCall, Stopped, Empty
<1> QED
  BY <1>2, <1>3, <1>4 DEF Inv

(* A call may begin: nothing known is younger than the present.            *)
LEMMA AddSensorValueStep ==
    ASSUME Inv, NEW s \in Sensors, NEW v \in Values, AddSensorValue(s, v)
    PROVE  Inv' /\ table' = table
<1> USE DEF Inv
<1>1. /\ now' = now /\ running' = running /\ m_lastInsertIds' = m_lastInsertIds
      /\ numeric_data' = numeric_data /\ orphans' = orphans
      /\ running
  BY DEF AddSensorValue
<1>2. /\ Ids' = Ids /\ Known' = Known /\ table' = table
  BY <1>1 DEF Ids, Known, table
<1>3. /\ m_numericCache' = [m_numericCache EXCEPT ![s] = Cached(s)]
      /\ Cached(s) \in {None, m_numericCache[s]}
  BY DEF AddSensorValue, Cached
<1>4. /\ call' \in Call
      /\ call'.sensor = s /\ call'.value = v /\ call'.timestamp = now
      /\ call'.update = (m_lastInsertIds[s] # 0)
      /\ call'.insert = (v # NaN /\ (Cached(s) = None \/ Cached(s).value # v
                                                      \/ m_lastInsertIds[s] = 0))
  BY DEF AddSensorValue, TypeOK, Call
<1>5. recorded' = [recorded EXCEPT ![s] = [value |-> v, time |-> now]]
  BY DEF AddSensorValue
<1>6. TypeOK'
  <2>1. m_numericCache' \in [Sensors -> Reading \union {None}]
    BY <1>3 DEF TypeOK
  <2>2. recorded' \in [Sensors -> Reading \union {None}]
    BY <1>5 DEF TypeOK, Reading
  <2>3. running' \in BOOLEAN
    BY <1>1, Zenon DEF TypeOK
  <2> QED
    BY <1>1, <1>2, <1>4, <2>1, <2>2, <2>3 DEF TypeOK
<1>7. MemoryMatches'
  BY <1>1, <1>2, <1>3 DEF MemoryMatches, TypeOK
<1>8. RowsDisjoint' /\ Past'
  BY <1>1, <1>2 DEF RowsDisjoint, Past
<1>9. Recorded'
  <2> SUFFICES ASSUME NEW r \in Sensors, recorded'[r] # None, r # s,
                      recorded'[r].value # NaN
               PROVE  /\ m_lastInsertIds[r] # 0
                      /\ numeric_data[m_lastInsertIds[r]].value = recorded'[r].value
                      /\ numeric_data[m_lastInsertIds[r]].endtime = recorded'[r].time
    BY <1>1, <1>4, SensorRowsAssumption DEF Recorded
  <2>1. recorded'[r] = recorded[r] /\ call = None
    BY <1>5 DEF TypeOK, AddSensorValue
  <2> QED
    BY <1>1, <2>1 DEF Recorded
<1>10. CallMatches'
  <2>1. call'.timestamp =< now'
    BY <1>1, <1>4 DEF TypeOK, Times
  <2>3. Len(numeric_data') < MaxRows
    BY <1>1 DEF AddSensorValue
  <2>4. running'
    BY <1>1, Zenon
  <2>2. \A i \in Known : numeric_data[i].endtime =< now
    BY DEF Past, Known
  <2> QED
    BY <1>1, <1>2, <1>4, <2>1, <2>2, <2>3, <2>4 DEF CallMatches
<1>11. RecordedCall'
  <2>1. recorded'[s] = [value |-> v, time |-> now]
    BY <1>5 DEF TypeOK
  <2>2. ASSUME v # NaN, ~call'.insert
        PROVE  /\ m_lastInsertIds[s] # 0
               /\ numeric_data[m_lastInsertIds[s]].value = v
               /\ call'.update
    <3>1. Cached(s) # None /\ Cached(s).value = v /\ m_lastInsertIds[s] # 0
      BY <1>4, <2>2, Zenon
    <3>2. m_numericCache[s] # None /\ m_numericCache[s].value = v
      BY <1>3, <3>1
    <3> QED
      BY <1>4, <3>1, <3>2, Zenon DEF MemoryMatches
  <2> QED
    BY <1>1, <1>4, <2>1, <2>2 DEF RecordedCall
<1>12. Stopped'
  BY <1>1 DEF Stopped
<1> QED
  BY <1>2, <1>6, <1>7, <1>8, <1>9, <1>10, <1>11, <1>12

(* The first query touches the last known row of the sensor only.          *)
LEMMA UpdateRowEndTimeStep ==
    ASSUME Inv, UpdateRowEndTime
    PROVE  Inv' /\ (T!Next \/ table' = table)
<1> USE DEF Inv
<1>0. /\ call \in Call /\ call.value \in Values
      /\ call # None /\ call.update
  BY DEF UpdateRowEndTime, TypeOK, Call
<1> PICK s \in Sensors, t \in Times : s = call.sensor /\ t = call.timestamp
  BY <1>0 DEF Call
<1> DEFINE id == m_lastInsertIds[s]
<1>1. /\ call \in Call /\ call # None /\ call.update
      /\ call.sensor = s /\ call.timestamp = t /\ call.value \in Values
  BY <1>0
<1>2. /\ now' = now /\ running' = running /\ orphans' = orphans
      /\ m_numericCache' = m_numericCache /\ m_lastInsertIds' = m_lastInsertIds
  BY DEF UpdateRowEndTime, memory
<1>3. /\ call' = [call EXCEPT !.update = FALSE]
      /\ call' \in Call /\ call' # None
      /\ call'.sensor = s /\ call'.value = call.value
      /\ call'.timestamp = t
      /\ call'.insert = call.insert /\ ~call'.update
  <2>1. call' = [call EXCEPT !.update = FALSE]
    BY DEF UpdateRowEndTime
  <2> QED
    BY <1>1, <2>1, SensorRowsAssumption DEF Call
<1>4. id # 0 /\ id \in Known /\ Known \subseteq Ids
      /\ numeric_data[id].sensor = s /\ numeric_data[id].endtime =< t
      /\ t =< now
  <2>1. id # 0
    BY <1>1, Zenon DEF CallMatches
  <2>2. id \in Known /\ numeric_data[id].sensor = s
    BY <1>1, <2>1, LatestRow DEF MemoryMatches
  <2> QED
    BY <1>1, <2>1, <2>2 DEF CallMatches, Known
<1>5. /\ Ids' = Ids /\ Known' = Known
      /\ Len(numeric_data') = Len(numeric_data) /\ numeric_data' \in Seq(Row)
      /\ RowsDisjoint' /\ Past' /\ (T!Next \/ table' = table)
      /\ \A i \in Ids : /\ numeric_data'[i].sensor = numeric_data[i].sensor
                        /\ numeric_data'[i].value = numeric_data[i].value
                        /\ numeric_data'[i].starttime = numeric_data[i].starttime
                        /\ numeric_data'[i].endtime \in {t, numeric_data[i].endtime}
                        /\ i # id => numeric_data'[i].endtime = numeric_data[i].endtime
  <2>1. CASE numeric_data' = WithEnd({id}, t)
    <3>1. {m_lastInsertIds[r] : r \in {s}} = {id}
      OBVIOUS
    <3>2. RowsDisjoint' /\ Past' /\ T!Extend({s}, t)
      <4>1. {s} \in SUBSET {r \in Sensors : m_lastInsertIds[r] # 0}
        BY <1>4
      <4>2. \A r \in {s} : numeric_data[m_lastInsertIds[r]].endtime =< t
        BY <1>4
      <4> QED
        BY <1>1, <1>2, <1>4, <2>1, <3>1, <4>1, <4>2, Extension, Zenon
    <3>3. T!Next
      BY <3>2, ExtendIsNext
    <3> QED
      BY <1>1, <1>2, <2>1, <3>2, <3>3, EndsMoved DEF TypeOK, Ids, Known
  <2>2. CASE numeric_data' = numeric_data
    BY <1>2, <2>2 DEF TypeOK, Ids, Known, RowsDisjoint, Past, table
  <2> QED
    BY <2>1, <2>2 DEF UpdateRowEndTime
<1>6. /\ \A r \in Sensors \ {s} : recorded'[r] = recorded[r]
      /\ recorded' \in [Sensors -> Reading \union {None}]
      /\ \/ recorded' = recorded /\ numeric_data' = WithEnd({id}, t)
         \/ recorded'[s] = None
  BY <1>1 DEF UpdateRowEndTime, Forget, TypeOK
<1>7. TypeOK'
  <2>1. running' \in BOOLEAN
    BY <1>2, Zenon DEF TypeOK
  <2> QED
    BY <1>2, <1>3, <1>5, <1>6, <2>1 DEF TypeOK
<1>8. MemoryMatches'
  <2>1. \A r \in Sensors : m_lastInsertIds[r] # 0 => m_lastInsertIds[r] \in Ids
    BY LatestRow DEF Known
  <2> QED
    BY <1>2, <1>5, <2>1 DEF MemoryMatches
<1>9. Recorded'
  <2> SUFFICES ASSUME NEW r \in Sensors, running', recorded'[r] # None, r # s,
                      recorded'[r].value # NaN
               PROVE  /\ m_lastInsertIds[r] # 0
                      /\ numeric_data'[m_lastInsertIds[r]].value = recorded'[r].value
                      /\ numeric_data'[m_lastInsertIds[r]].endtime = recorded'[r].time
    BY <1>2, <1>3 DEF Recorded
  <2>1. /\ m_lastInsertIds[r] # 0
        /\ numeric_data[m_lastInsertIds[r]].value = recorded'[r].value
        /\ numeric_data[m_lastInsertIds[r]].endtime = recorded'[r].time
    BY <1>2, <1>6 DEF Recorded
  <2>2. m_lastInsertIds[r] # id /\ m_lastInsertIds[r] \in Ids
    BY <1>4, <2>1, LatestRow DEF MemoryMatches, Known
  <2> QED
    BY <1>5, <2>1, <2>2
<1>10. CallMatches'
  <2>1. running'
    BY <1>1, <1>2, Zenon DEF CallMatches
  <2>2. /\ call'.timestamp =< now'
        /\ call'.insert => Len(numeric_data') < MaxRows
    BY <1>1, <1>2, <1>3, <1>4, <1>5 DEF CallMatches
  <2>3. \A i \in Known : numeric_data'[i].sensor = s =>
            numeric_data'[i].endtime =< t
    BY <1>1, <1>4, <1>5 DEF CallMatches, Times
  <2> QED
    BY <1>3, <1>5, <2>1, <2>2, <2>3, Zenon DEF CallMatches
<1>11. RecordedCall'
  <2> SUFFICES ASSUME recorded'[s] # None
               PROVE  /\ recorded'[s] = [value |-> call.value, time |-> t]
                      /\ call.value # NaN /\ ~call.insert =>
                            /\ numeric_data'[id].value = call.value
                            /\ numeric_data'[id].endtime = t
    BY <1>2, <1>3, <1>4 DEF RecordedCall
  <2>1. recorded' = recorded /\ numeric_data' = WithEnd({id}, t)
    BY <1>6
  <2>2. numeric_data'[id].endtime = t
    BY <1>1, <1>4, <2>1, EndsMoved DEF TypeOK
  <2> QED
    BY <1>1, <1>4, <1>5, <2>1, <2>2 DEF RecordedCall
<1>12. Stopped'
  BY <1>1, <1>2, Zenon DEF Stopped
<1> QED
  BY <1>5, <1>7, <1>8, <1>9, <1>10, <1>11, <1>12

(* The second query: its row is known, missing or an orphan.               *)
LEMMA InsertRowStep ==
    ASSUME Inv, InsertRow
    PROVE  Inv' /\ (T!Next \/ table' = table)
<1> USE DEF Inv
<1> DEFINE id == Len(numeric_data) + 1
<1>0. /\ call \in Call /\ call.value \in Values
      /\ call # None /\ ~call.update /\ call.insert
  BY DEF InsertRow, TypeOK, Call
<1> PICK s \in Sensors, t \in Times : s = call.sensor /\ t = call.timestamp
  BY <1>0 DEF Call
<1>1. /\ call \in Call /\ call # None /\ ~call.update
      /\ call.sensor = s /\ call.timestamp = t /\ call.value \in Values
  BY <1>0
<1>2. now' = now /\ running' = running
  BY DEF InsertRow
<1>3. /\ call' \in Call /\ call' # None
      /\ call'.sensor = s /\ call'.value = call.value /\ call'.timestamp = t
      /\ ~call'.insert /\ ~call'.update
  <2>1. call' = [call EXCEPT !.insert = FALSE]
    BY DEF InsertRow
  <2> QED
    BY <1>1, <2>1, SensorRowsAssumption DEF Call
<1>4. /\ NewRow \in Row /\ NewRow.sensor = s /\ NewRow.value = call.value
      /\ NewRow.starttime = t /\ NewRow.endtime = t
  BY <1>1 DEF NewRow, Row
<1>5. /\ Len(numeric_data) \in Nat /\ Ids = 1..Len(numeric_data)
      /\ numeric_data \in Seq(Row) /\ orphans \subseteq Ids
  BY DEF TypeOK, Ids
<1>6. CASE /\ numeric_data' = Append(numeric_data, NewRow)
           /\ Remember
           /\ UNCHANGED <<orphans, recorded>>
  <2>1. /\ Ids' = Ids \union {id} /\ id \notin Ids
        /\ Known' = Known \union {id} /\ Known \subseteq Ids
        /\ numeric_data' \in Seq(Row) /\ Len(numeric_data') = id
        /\ \A i \in Ids : numeric_data'[i] = numeric_data[i]
        /\ numeric_data'[id] = NewRow
        /\ RowsDisjoint' /\ Past' /\ T!Next
        /\ orphans' = orphans /\ recorded' = recorded
    BY <1>4, <1>5, <1>6, RowAppended, Insertion DEF Ids, Known
  <2>2. /\ m_numericCache' = [m_numericCache EXCEPT ![s] =
                                  [value |-> call.value, time |-> t]]
        /\ m_lastInsertIds' = [m_lastInsertIds EXCEPT ![s] = id]
    BY <1>1, <1>6 DEF Remember, CacheReading
  <2>3. TypeOK'
    <3>1. running' \in BOOLEAN
      BY <1>2, Zenon DEF TypeOK
    <3>2. m_numericCache' \in [Sensors -> Reading \union {None}]
      BY <1>1, <2>2 DEF TypeOK, Reading
    <3>3. m_lastInsertIds' \in [Sensors -> 0..Len(numeric_data')]
      BY <1>5, <2>1, <2>2 DEF TypeOK
    <3> QED
      BY <1>2, <1>3, <2>1, <3>1, <3>2, <3>3 DEF TypeOK
  <2>4. /\ m_lastInsertIds'[s] = id
        /\ m_numericCache'[s] = [value |-> call.value, time |-> t]
        /\ \A r \in Sensors \ {s} : /\ m_lastInsertIds'[r] = m_lastInsertIds[r]
                                    /\ m_numericCache'[r] = m_numericCache[r]
    BY <2>2 DEF TypeOK
  <2>5. \A r \in Sensors : m_lastInsertIds[r] # 0 => m_lastInsertIds[r] \in Ids
    BY LatestRow DEF Known
  <2>6. MemoryMatches'
    <3> SUFFICES ASSUME NEW r \in Sensors
                 PROVE  /\ m_lastInsertIds'[r] # 0 =>
                             /\ m_lastInsertIds'[r] \notin orphans
                             /\ numeric_data'[m_lastInsertIds'[r]].sensor = r
                             /\ \A i \in Known' : numeric_data'[i].sensor = r =>
                                    i =< m_lastInsertIds'[r]
                        /\ m_numericCache'[r] # None =>
                             /\ m_lastInsertIds'[r] # 0
                             /\ numeric_data'[m_lastInsertIds'[r]].value = m_numericCache'[r].value
                             /\ numeric_data'[m_lastInsertIds'[r]].starttime = m_numericCache'[r].time
      BY <2>1 DEF MemoryMatches, Known
    <3>1. CASE r = s
      BY <1>4, <1>5, <2>1, <2>4, <3>1 DEF Known
    <3>2. CASE r # s
      BY <1>4, <2>1, <2>4, <2>5, <3>2 DEF MemoryMatches, Known
    <3> QED
      BY <3>1, <3>2
  <2>7. Recorded'
    <3> SUFFICES ASSUME NEW r \in Sensors, running', recorded[r] # None, r # s,
                        recorded[r].value # NaN
                 PROVE  /\ m_lastInsertIds'[r] # 0
                        /\ numeric_data'[m_lastInsertIds'[r]].value = recorded[r].value
                        /\ numeric_data'[m_lastInsertIds'[r]].endtime = recorded[r].time
      BY <1>3, <2>1 DEF Recorded
    <3> QED
      BY <1>1, <1>2, <2>1, <2>4, <2>5 DEF Recorded
  <2>8. CallMatches'
    <3>1. running'
      BY <1>1, <1>2, Zenon DEF CallMatches
    <3>2. t =< now'
      BY <1>1, <1>2 DEF CallMatches
    <3>3. \A i \in Known' : numeric_data'[i].sensor = s => numeric_data'[i].endtime =< t
      BY <1>1, <1>4, <2>1 DEF CallMatches, Times
    <3> QED
      BY <1>3, <3>1, <3>2, <3>3, Zenon DEF CallMatches
  <2>9. RecordedCall'
    BY <1>1, <1>3, <1>4, <1>5, <2>1, <2>4 DEF RecordedCall
  <2>10. Stopped'
    BY <2>8, <1>3, Zenon DEF Stopped, CallMatches
  <2> QED
    BY <2>1, <2>3, <2>6, <2>7, <2>8, <2>9, <2>10
<1>7. CASE /\ NotRemembered /\ Forget(call.sensor)
           /\ \/ UNCHANGED <<numeric_data, orphans>>
              \/ /\ numeric_data' = Append(numeric_data, NewRow)
                 /\ orphans' = orphans \union {id}
  <2>1. /\ m_numericCache' = m_numericCache /\ m_lastInsertIds' = m_lastInsertIds
        /\ recorded' = [recorded EXCEPT ![s] = None]
    BY <1>1, <1>7 DEF NotRemembered, Forget, memory
  <2>2. /\ Known' = Known /\ table' = table /\ orphans' \subseteq Ids'
        /\ Ids \subseteq Ids'
        /\ numeric_data' \in Seq(Row) /\ Len(numeric_data') >= Len(numeric_data)
        /\ \A i \in Ids : numeric_data'[i] = numeric_data[i]
        /\ RowsDisjoint' /\ Past'
    <3>1. CASE UNCHANGED <<numeric_data, orphans>>
      <4>1. numeric_data' = numeric_data /\ orphans' = orphans
        BY <3>1
      <4>2. /\ Ids' = Ids /\ Known' = Known /\ table' = table
            /\ RowsDisjoint' /\ Past'
        BY <1>2, <4>1 DEF Ids, Known, table, RowsDisjoint, Past
      <4>3. /\ orphans' \subseteq Ids' /\ Ids \subseteq Ids'
            /\ numeric_data' \in Seq(Row) /\ Len(numeric_data') >= Len(numeric_data)
        BY <1>5, <4>1, <4>2
      <4>4. \A i \in Ids : numeric_data'[i] = numeric_data[i]
        BY <4>1
      <4> QED
        BY <4>2, <4>3, <4>4, Zenon
    <3>2. CASE /\ numeric_data' = Append(numeric_data, NewRow)
               /\ orphans' = orphans \union {id}
      <4>1. /\ Ids' = Ids \union {id} /\ id \notin Ids
            /\ numeric_data' \in Seq(Row) /\ Len(numeric_data') = id
            /\ \A i \in Ids : numeric_data'[i] = numeric_data[i]
            /\ RowsDisjoint' /\ Past'
        BY <1>4, <1>5, <3>2, RowAppended, Insertion DEF Ids
      <4>2. Known' = Known
        BY <1>5, <3>2, <4>1 DEF Known
      <4>3. table' = table
        BY <4>1, <4>2 DEF table, Known
      <4>4. /\ orphans' \subseteq Ids' /\ Ids \subseteq Ids'
        <5>1. orphans \union {id} \subseteq Ids \union {id}
          BY <1>5
        <5> QED
          BY <3>2, <4>1, <5>1, Zenon
      <4>5. Len(numeric_data') >= Len(numeric_data)
        BY <1>5, <4>1
      <4> QED
        BY <4>1, <4>2, <4>3, <4>4, <4>5, Zenon
    <3> QED
      BY <1>7, <3>1, <3>2
  <2>3. \A r \in Sensors : m_lastInsertIds[r] # 0 =>
            m_lastInsertIds[r] \in Known /\ m_lastInsertIds[r] \in Ids
    BY LatestRow DEF Known
  <2>4. TypeOK'
    <3>1. running' \in BOOLEAN
      BY <1>2, Zenon DEF TypeOK
    <3>2. recorded' \in [Sensors -> Reading \union {None}]
      BY <2>1 DEF TypeOK
    <3>3. m_lastInsertIds' \in [Sensors -> 0..Len(numeric_data')]
      BY <1>5, <2>1, <2>2 DEF TypeOK
    <3> QED
      BY <1>2, <1>3, <2>1, <2>2, <3>1, <3>2, <3>3 DEF TypeOK
  <2>5. MemoryMatches'
    BY <2>1, <2>2, <2>3 DEF MemoryMatches, Known
  <2>6. Recorded'
    <3> SUFFICES ASSUME NEW r \in Sensors, running', recorded[r] # None, r # s,
                        recorded[r].value # NaN
                 PROVE  /\ m_lastInsertIds[r] # 0
                        /\ numeric_data'[m_lastInsertIds[r]].value = recorded[r].value
                        /\ numeric_data'[m_lastInsertIds[r]].endtime = recorded[r].time
      BY <1>3, <2>1 DEF Recorded, TypeOK
    <3> QED
      BY <1>1, <1>2, <2>2, <2>3 DEF Recorded
  <2>7. CallMatches'
    <3>1. running'
      BY <1>1, <1>2, Zenon DEF CallMatches
    <3>2. t =< now'
      BY <1>1, <1>2 DEF CallMatches
    <3>3. \A i \in Known' : numeric_data'[i].sensor = s => numeric_data'[i].endtime =< t
      BY <1>1, <2>2 DEF CallMatches, Known
    <3> QED
      BY <1>3, <3>1, <3>2, <3>3, Zenon DEF CallMatches
  <2>8. RecordedCall'
    BY <1>3, <2>1 DEF RecordedCall, TypeOK
  <2>9. Stopped'
    BY <2>7, <1>3, Zenon DEF Stopped, CallMatches
  <2> QED
    BY <2>2, <2>4, <2>5, <2>6, <2>7, <2>8, <2>9
<1> QED
  BY <1>6, <1>7 DEF InsertRow

(* A call that has nothing left to do is recorded, if nothing failed.      *)
LEMMA ReturnStep ==
    ASSUME Inv, Return
    PROVE  Inv' /\ table' = table
<1> USE DEF Inv
<1>1. /\ now' = now /\ running' = running /\ numeric_data' = numeric_data
      /\ m_numericCache' = m_numericCache /\ m_lastInsertIds' = m_lastInsertIds
      /\ orphans' = orphans /\ recorded' = recorded
      /\ call # None /\ ~call.update /\ ~call.insert /\ call' = None
  BY DEF Return, memory
<1>2. Ids' = Ids /\ Known' = Known /\ table' = table
  BY <1>1 DEF Ids, Known, table
<1>3. TypeOK'
  BY <1>1, <1>2, Zenon DEF TypeOK
<1>4. MemoryMatches' /\ RowsDisjoint' /\ Past'
  BY <1>1, <1>2 DEF MemoryMatches, RowsDisjoint, Past
<1>5. Recorded'
  <2> SUFFICES ASSUME NEW s \in Sensors, running, recorded[s] # None,
                      recorded[s].value # NaN
               PROVE  /\ m_lastInsertIds[s] # 0
                      /\ numeric_data[m_lastInsertIds[s]].value = recorded[s].value
                      /\ numeric_data[m_lastInsertIds[s]].endtime = recorded[s].time
    BY <1>1 DEF Recorded
  <2>1. CASE s = call.sensor
    BY <1>1, <2>1 DEF RecordedCall
  <2>2. CASE s # call.sensor
    BY <2>2 DEF Recorded
  <2> QED
    BY <2>1, <2>2
<1>6. CallMatches' /\ RecordedCall'
  BY <1>1 DEF CallMatches, RecordedCall
<1>7. Stopped'
  BY <1>1, Zenon DEF Stopped
<1> QED
  BY <1>2, <1>3, <1>4, <1>5, <1>6, <1>7

(* What Gone does to the invariant, once the table is seen to.             *)
LEMMA GoneStep ==
    ASSUME TypeOK, Gone, orphans' = orphans, Len(numeric_data') = Len(numeric_data),
           numeric_data' \in Seq(Row), RowsDisjoint', Past'
    PROVE  Inv'
<1>1. /\ now' = now /\ ~running' /\ running' \in BOOLEAN /\ call' = None
      /\ m_numericCache' = [s \in Sensors |-> None]
      /\ m_lastInsertIds' = [s \in Sensors |-> 0]
      /\ recorded' = [s \in Sensors |-> None]
  BY DEF Gone, Empty
<1>2. Ids' = Ids /\ Len(numeric_data) \in Nat
  BY DEF TypeOK, Ids
<1>3. TypeOK'
  BY <1>1, <1>2 DEF TypeOK
<1>4. MemoryMatches'
  BY <1>1 DEF MemoryMatches
<1>5. Recorded'
  BY <1>1 DEF Recorded
<1>6. CallMatches' /\ RecordedCall'
  BY <1>1 DEF CallMatches, RecordedCall
<1>7. Stopped'
  BY <1>1 DEF Stopped, Empty
<1> QED
  BY <1>3, <1>4, <1>5, <1>6, <1>7 DEF Inv

(* The destructor extends the last known rows of some sensors.             *)
LEMMA DestroyStep ==
    ASSUME Inv, NEW S \in SUBSET Sensors, Destroy(S)
    PROVE  Inv' /\ (T!Next \/ table' = table)
<1> USE DEF Inv
<1> PICK t \in Times : t = now
  BY DEF TypeOK
<1> DEFINE R == {s \in S : m_lastInsertIds[s] # 0}
<1>1. numeric_data' = WithEnd({m_lastInsertIds[s] : s \in S}, t)
         /\ Gone /\ orphans' = orphans /\ now' = now
  BY DEF Destroy, Gone
<1>2. \A i \in Ids : i # 0
  BY DEF TypeOK, Ids
<1>3. numeric_data' = WithEnd({m_lastInsertIds[s] : s \in R}, t)
  <2>1. \A i \in Ids : i \in {m_lastInsertIds[s] : s \in S}
                          <=> i \in {m_lastInsertIds[s] : s \in R}
    BY <1>2
  <2> QED
    BY <1>1, <2>1 DEF WithEnd
<1>4. R \in SUBSET {s \in Sensors : m_lastInsertIds[s] # 0}
  OBVIOUS
<1>5. \A s \in R : numeric_data[m_lastInsertIds[s]].endtime =< t
  BY LatestRow DEF Past, Known
<1>6. t =< now
  BY DEF Times
<1>7. PICK Q \in SUBSET {s \in Sensors : m_lastInsertIds[s] # 0} : Q = R
  BY <1>4
<1>8. RowsDisjoint' /\ Past' /\ T!Extend(Q, t)
  BY <1>1, <1>3, <1>5, <1>6, <1>7, Extension
<1>9. T!Next
  BY <1>8, ExtendIsNext
<1>10. numeric_data' \in Seq(Row) /\ Len(numeric_data') = Len(numeric_data)
  BY <1>1, EndsMoved DEF TypeOK
<1> QED
  BY <1>1, <1>8, <1>9, <1>10, GoneStep

(* A crash leaves the table alone and the memory empty.                    *)
LEMMA CrashStep ==
    ASSUME Inv, Crash
    PROVE  Inv' /\ table' = table
<1> USE DEF Inv
<1>1. Gone /\ orphans' = orphans /\ numeric_data' = numeric_data /\ now' = now
  BY DEF Crash, Gone
<1>2. RowsDisjoint' /\ Past' /\ table' = table
  BY <1>1 DEF RowsDisjoint, Past, table, Ids, Known
<1> QED
  BY <1>1, <1>2, GoneStep DEF TypeOK

(* An empty memory matches any table.                                      *)
LEMMA RestartStep ==
    ASSUME Inv, Restart
    PROVE  Inv' /\ table' = table
<1> USE DEF Inv
<1>1. /\ now' = now /\ numeric_data' = numeric_data /\ orphans' = orphans
      /\ m_numericCache' = m_numericCache /\ m_lastInsertIds' = m_lastInsertIds
      /\ call' = call /\ recorded' = recorded
      /\ ~running /\ running' = TRUE
  BY DEF Restart, memory
<1>2. call = None /\ recorded = [s \in Sensors |-> None]
  BY <1>1 DEF Stopped, Empty
<1>3. Ids' = Ids /\ Known' = Known /\ table' = table
  BY <1>1 DEF Ids, Known, table
<1>4. TypeOK'
  BY <1>1, <1>3, Zenon DEF TypeOK
<1>5. MemoryMatches' /\ RowsDisjoint' /\ Past'
  BY <1>1, <1>3 DEF MemoryMatches, RowsDisjoint, Past
<1>6. Recorded' /\ CallMatches' /\ RecordedCall'
  BY <1>1, <1>2 DEF Recorded, CallMatches, RecordedCall
<1>7. Stopped'
  BY <1>1 DEF Stopped
<1> QED
  BY <1>3, <1>4, <1>5, <1>6, <1>7

(* Time only moves away from what is in the table.                         *)
LEMMA TickStep ==
    ASSUME Inv, Tick
    PROVE  Inv' /\ table' = table
<1> USE DEF Inv
<1>1. /\ numeric_data' = numeric_data /\ orphans' = orphans
      /\ m_numericCache' = m_numericCache /\ m_lastInsertIds' = m_lastInsertIds
      /\ call' = call /\ recorded' = recorded /\ running' = running
  BY DEF Tick, memory
<1>2. now \in Times /\ now' \in Times /\ now =< now'
  BY SensorRowsAssumption DEF Tick, TypeOK, Times
<1>3. Ids' = Ids /\ Known' = Known /\ table' = table
  BY <1>1 DEF Ids, Known, table
<1>4. TypeOK'
  BY <1>1, <1>2, <1>3, Zenon DEF TypeOK
<1>5. MemoryMatches' /\ RowsDisjoint'
  BY <1>1, <1>3 DEF MemoryMatches, RowsDisjoint
<1>6. Past'
  <2>1. \A i \in Ids : numeric_data[i].endtime \in Times
    <3>1. \A i \in Ids : numeric_data[i] \in Row
      BY DEF TypeOK, Ids
    <3> QED
      BY <3>1 DEF Row
  <2> QED
    BY <1>1, <1>2, <1>3, <2>1 DEF Past, Times
<1>7. Recorded' /\ RecordedCall'
  BY <1>1, Zenon DEF Recorded, RecordedCall
<1>8. CallMatches'
  <2> SUFFICES ASSUME call # None
               PROVE  call.timestamp =< now'
    BY <1>1, <1>3, Zenon DEF CallMatches
  <2>1. call.timestamp \in Times /\ call.timestamp =< now
    BY DEF TypeOK, Call, CallMatches
  <2> QED
    BY <1>2, <2>1 DEF Times
<1>9. Stopped'
  BY <1>1, Zenon DEF Stopped
<1> QED
  BY <1>3, <1>4, <1>5, <1>6, <1>7, <1>8, <1>9

(* Inv is inductive, and every step is one of Timeline or a stutter.       *)
LEMMA NextInv == Inv /\ [Next]_vars => Inv' /\ (T!Next \/ table' = table)
<1> SUFFICES ASSUME Inv, [Next]_vars
             PROVE  Inv' /\ (T!Next \/ table' = table)
  OBVIOUS
<1>1. CASE UNCHANGED vars
  <2>1. /\ now' = now /\ numeric_data' = numeric_data /\ orphans' = orphans
        /\ m_numericCache' = m_numericCache /\ m_lastInsertIds' = m_lastInsertIds
        /\ call' = call /\ recorded' = recorded /\ running' = running
    BY <1>1 DEF vars, memory
  <2> QED
    BY <2>1, Zenon DEF Inv, TypeOK, MemoryMatches, RowsDisjoint, Recorded, Past,
       CallMatches, RecordedCall, Stopped, Ids, Known, table
<1> QED
  BY <1>1, AddSensorValueStep, UpdateRowEndTimeStep, InsertRowStep, ReturnStep,
     DestroyStep, CrashStep, RestartStep, TickStep DEF Next

-----------------------------------------------------------------------------
(* The theorems.                                                           *)

(* Inv holds in every reachable state.                                     *)
LEMMA Invariant == Spec => []Inv
BY InitInv, NextInv, PTL DEF Spec

(* Every reachable state is well typed (MysqlDatabase.cpp:204-242).        *)
THEOREM TypeCorrect == Spec => []TypeOK
<1>1. Inv => TypeOK
  BY DEF Inv
<1> QED
  BY <1>1, Invariant, PTL

(* Cache and row ids always are about the last known row of their sensor   *)
(* (MysqlDatabase.cpp:217-238).                                            *)
THEOREM MemoryCorrect == Spec => []MemoryMatches
<1>1. Inv => MemoryMatches
  BY DEF Inv
<1> QED
  BY <1>1, Invariant, PTL

(* A call none of whose queries failed is recorded (MysqlDatabase.cpp:     *)
(* 204-242).                                                               *)
THEOREM RecordedCorrect == Spec => []Recorded
<1>1. Inv => Recorded
  BY DEF Inv
<1> QED
  BY <1>1, Invariant, PTL

(* The known rows of a sensor never overlap, through failed queries, lost  *)
(* answers, crashes and restarts (MysqlDatabase.cpp:48-52, 227-239).       *)
THEOREM RowsCorrect == Spec => []RowsDisjoint
<1>1. Inv => RowsDisjoint
  BY DEF Inv
<1> QED
  BY <1>1, Invariant, PTL

(* The known rows are a timeline for each sensor.                          *)
THEOREM Refinement == Spec => ImplementsTimeline
<1>1. Init => T!Init
  BY DEF Init, T!Init, Ids
<1>2. Inv /\ [Next]_vars => Inv' /\ [T!Next]_table
  BY NextInv
<1> QED
  BY InitInv, <1>1, <1>2, PTL DEF Spec, ImplementsTimeline, T!Spec, table, Known
=============================================================================
