----------------------------- MODULE SensorRows -----------------------------
(***************************************************************************)
(* The recording of readings: MysqlDatabase::addSensorValue and the        *)
(* destructor, against the table numeric_data.  A reading that does not    *)
(* change extends the row of its sensor, one that does starts a row; the   *)
(* program knows the row by its id and the reading by a cache, both in     *)
(* memory only.  A call makes up to two queries, and each of them may      *)
(* fail, or be carried out with the answer lost; the process may die       *)
(* between them, and is started again.                                     *)
(***************************************************************************)
EXTENDS Integers, Sequences

CONSTANTS
    Sensors, Values,
    NaN,              \* no number; no parser passes it, the code expects it
    normalInterval,   \* time between two readings of a sensor
    None,
    LostReplies,      \* a query may be carried out and reported as failed
    MaxTime,          \* bound: seconds
    MaxRows           \* bound: rows of the table

Times == 0..MaxTime

Reading == [value : Values, time : Times]
Row == [sensor : Sensors, value : Values, starttime : Times, endtime : Times]
Call == [sensor : Sensors, value : Values, timestamp : Times,
         update : BOOLEAN, insert : BOOLEAN]

ASSUME SensorRowsAssumption ==
    /\ None \notin Reading \union Call
    /\ normalInterval \in [Sensors -> Nat \ {0}]
    /\ LostReplies \in BOOLEAN
    /\ MaxTime \in Nat /\ MaxRows \in Nat

VARIABLES
    now,
    running,          \* the process runs and is connected
    m_numericCache,   \* the last reading inserted: its value and time
    m_lastInsertIds,  \* the row of that reading; 0 for none
    call,             \* the call of addSensorValue being executed, or None
    numeric_data,     \* the table; the id of a row is its position
    orphans,          \* history: rows inserted without the program knowing
    recorded          \* history: per sensor the last call, if nothing failed

memory == <<m_numericCache, m_lastInsertIds>>
vars   == <<now, running, memory, call, numeric_data, orphans, recorded>>

Ids == DOMAIN numeric_data

Empty(v) == [s \in Sensors |-> v]

Init ==
    /\ now = 0
    /\ running = TRUE
    /\ m_numericCache = Empty(None) /\ m_lastInsertIds = Empty(0)
    /\ call = None
    /\ numeric_data = <<>>
    /\ orphans = {}
    /\ recorded = Empty(None)

(* The cached reading of s, unless it is older than two intervals.         *)
Cached(s) ==
    LET cached == m_numericCache[s] IN
    IF cached # None /\ now - cached.time > 2 * normalInterval[s] THEN None ELSE cached

(* addSensorValue decides what to do.                                      *)
AddSensorValue(s, v) ==
    /\ running /\ call = None
    /\ Len(numeric_data) < MaxRows
    /\ m_numericCache' = [m_numericCache EXCEPT ![s] = Cached(s)]
    /\ LET valueChanged == Cached(s) = None \/ Cached(s).value # v
           idValid      == m_lastInsertIds[s] # 0
       IN call' = [sensor |-> s, value |-> v, timestamp |-> now,
                   update |-> idValid,
                   insert |-> v # NaN /\ (valueChanged \/ ~idValid)]
    /\ recorded' = [recorded EXCEPT ![s] = [value |-> v, time |-> now]]
    /\ UNCHANGED <<now, running, m_lastInsertIds, numeric_data, orphans>>

WithEnd(ids, t) ==
    [i \in Ids |-> IF i \in ids THEN [numeric_data[i] EXCEPT !.endtime = t]
                   ELSE numeric_data[i]]

Forget(s) == recorded' = [recorded EXCEPT ![s] = None]

(* Mutant: the row is brought up to the time of the query.                 *)
UpdateRowEndTimeNow ==
    /\ call # None /\ call.update
    /\ call' = [call EXCEPT !.update = FALSE]
    /\ \/ /\ numeric_data' = WithEnd({m_lastInsertIds[call.sensor]}, now)
          /\ UNCHANGED recorded
       \/ /\ Forget(call.sensor)
          /\ UNCHANGED numeric_data
    /\ UNCHANGED <<now, running, memory, orphans>>

(* updateRowEndTime, whose result nobody looks at.                         *)
UpdateRowEndTime ==
    /\ call # None /\ call.update
    /\ call' = [call EXCEPT !.update = FALSE]
    /\ \/ /\ numeric_data' = WithEnd({m_lastInsertIds[call.sensor]}, call.timestamp)
          /\ UNCHANGED recorded
       \/ /\ Forget(call.sensor)
          /\ UNCHANGED numeric_data
    /\ UNCHANGED <<now, running, memory, orphans>>

NewRow == [sensor |-> call.sensor, value |-> call.value,
           starttime |-> call.timestamp, endtime |-> call.timestamp]

CacheReading ==
    m_numericCache' = [m_numericCache EXCEPT ![call.sensor] =
                          [value |-> call.value, time |-> call.timestamp]]

(* Mutant: map::insert, which leaves an id that is there alone.            *)
RememberFirst ==
    /\ CacheReading
    /\ m_lastInsertIds' = [m_lastInsertIds EXCEPT ![call.sensor] =
                               IF @ = 0 THEN Len(numeric_data) + 1 ELSE @]

Remember ==
    /\ CacheReading
    /\ m_lastInsertIds' = [m_lastInsertIds EXCEPT ![call.sensor] =
                               Len(numeric_data) + 1]

(* Mutants: the id, or the reading, is stored whatever the query answered. *)
NotRememberedButId ==
    /\ m_lastInsertIds' = [m_lastInsertIds EXCEPT ![call.sensor] =
                               Len(numeric_data) + 1]
    /\ UNCHANGED m_numericCache

NotRememberedButCached == CacheReading /\ UNCHANGED m_lastInsertIds

NotRemembered == UNCHANGED memory

(* The row is inserted, and becomes the row of its sensor only when the    *)
(* query has succeeded.                                                    *)
InsertRow ==
    /\ call # None /\ ~call.update /\ call.insert
    /\ call' = [call EXCEPT !.insert = FALSE]
    /\ \/ /\ numeric_data' = Append(numeric_data, NewRow)
          /\ Remember
          /\ UNCHANGED <<orphans, recorded>>
       \/ /\ NotRemembered /\ Forget(call.sensor)
          /\ UNCHANGED <<numeric_data, orphans>>
       \/ /\ LostReplies
          /\ numeric_data' = Append(numeric_data, NewRow)
          /\ orphans' = orphans \union {Len(numeric_data) + 1}
          /\ NotRemembered /\ Forget(call.sensor)
    /\ UNCHANGED <<now, running>>

Return ==
    /\ call # None /\ ~call.update /\ ~call.insert
    /\ call' = None
    /\ UNCHANGED <<now, running, memory, numeric_data, orphans, recorded>>

Gone ==
    /\ running' = FALSE
    /\ m_numericCache' = Empty(None) /\ m_lastInsertIds' = Empty(0)
    /\ call' = None
    /\ recorded' = Empty(None)
    /\ UNCHANGED now

(* The destructor brings the rows known up to date, one query per sensor;  *)
(* those of S succeed before the process ends.                             *)
Destroy(S) ==
    /\ running /\ call = None
    /\ numeric_data' = WithEnd({m_lastInsertIds[s] : s \in S}, now)
    /\ Gone
    /\ UNCHANGED orphans

(* The process dies, in the middle of a call or not.                       *)
Crash ==
    /\ running
    /\ Gone
    /\ UNCHANGED <<numeric_data, orphans>>

(* It is started again: connect, with nothing in memory.                   *)
Restart ==
    /\ ~running
    /\ running' = TRUE
    /\ UNCHANGED <<now, memory, call, numeric_data, orphans, recorded>>

(* The clock, also while a query is executed.                              *)
Tick ==
    /\ now < MaxTime
    /\ now' = now + 1
    /\ UNCHANGED <<running, memory, call, numeric_data, orphans, recorded>>

Next ==
    \/ \E s \in Sensors, v \in Values : AddSensorValue(s, v)
    \/ UpdateRowEndTime
    \/ InsertRow
    \/ Return
    \/ \E S \in SUBSET Sensors : Destroy(S)
    \/ Crash
    \/ Restart
    \/ Tick

Spec == Init /\ [][Next]_vars

-----------------------------------------------------------------------------

TypeOK ==
    /\ now \in Times
    /\ running \in BOOLEAN
    /\ m_numericCache \in [Sensors -> Reading \union {None}]
    /\ m_lastInsertIds \in [Sensors -> 0..Len(numeric_data)]
    /\ call \in Call \union {None}
    /\ numeric_data \in Seq(Row)
    /\ orphans \subseteq Ids
    /\ recorded \in [Sensors -> Reading \union {None}]

(* The memory of the program is about the table: the id of a sensor is its *)
(* last row, but for rows the program never heard of, and a cached reading *)
(* is the one with which that row began (MysqlDatabase.cpp:217-238).       *)
MemoryMatches ==
    \A s \in Sensors :
        LET id == m_lastInsertIds[s] IN
        /\ id # 0 =>
              /\ id \notin orphans
              /\ numeric_data[id].sensor = s
              /\ \A i \in Ids \ orphans : numeric_data[i].sensor = s => i =< id
        /\ m_numericCache[s] # None =>
              /\ id # 0
              /\ numeric_data[id].value = m_numericCache[s].value
              /\ numeric_data[id].starttime = m_numericCache[s].time

(* The rows of a sensor follow each other without overlap, through failed  *)
(* queries, crashes and restarts, but for rows whose insertion was         *)
(* reported as a failure (MysqlDatabase.cpp:48-52, 227-239).               *)
RowsDisjoint ==
    \A i, j \in Ids :
        /\ numeric_data[i].starttime =< numeric_data[i].endtime
        /\ i < j /\ {i, j} \intersect orphans = {}
             /\ numeric_data[i].sensor = numeric_data[j].sensor
           => numeric_data[i].endtime =< numeric_data[j].starttime

(* When no query of the last call for a sensor failed, the last row of the *)
(* sensor has the reading of that call and reaches up to it                *)
(* (MysqlDatabase.cpp:204-242).                                            *)
Recorded ==
    \A s \in Sensors :
        running /\ recorded[s] # None /\ recorded[s].value # NaN
          /\ (call = None \/ call.sensor # s) =>
            /\ m_lastInsertIds[s] # 0
            /\ numeric_data[m_lastInsertIds[s]].value = recorded[s].value
            /\ numeric_data[m_lastInsertIds[s]].endtime = recorded[s].time

(* The rows the program knows of are a timeline for each sensor.           *)
T == INSTANCE Timeline WITH Ids <- 1..MaxRows,
                            table <- [i \in Ids \ orphans |-> numeric_data[i]]
ImplementsTimeline == T!Spec
=============================================================================
