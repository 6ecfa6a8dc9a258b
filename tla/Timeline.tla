------------------------------ MODULE Timeline ------------------------------
(***************************************************************************)
(* What the table numeric_data promises, said without the cache and the    *)
(* row ids of the program that fills it: per sensor the rows are intervals *)
(* that follow each other.  Only the last row of a sensor is ever changed, *)
(* and only its end, and only forwards; a new row starts where the last    *)
(* one ends, or later.                                                     *)
(***************************************************************************)
EXTENDS Naturals

CONSTANTS Sensors, Values, Ids, MaxTime

VARIABLE table  \* from the ids of the rows to the rows

Times == 0..MaxTime

Row == [sensor : Sensors, value : Values, starttime : Times, endtime : Times]

Latest(s) == {i \in DOMAIN table :
                 /\ table[i].sensor = s
                 /\ \A j \in DOMAIN table : table[j].sensor = s => j =< i}

Init == table = [i \in {} |-> {}]

(* The reading of some sensors is still, or again, seen at t.              *)
Extend(S, t) ==
    LET rows == UNION {Latest(s) : s \in S} IN
    /\ \A i \in rows : table[i].endtime =< t
    /\ table' = [i \in DOMAIN table |->
                    IF i \in rows THEN [table[i] EXCEPT !.endtime = t] ELSE table[i]]

(* A new reading of sensor s begins at t, in a row behind all others.      *)
Begin(id, row) ==
    /\ \A i \in DOMAIN table : i < id
    /\ row.endtime = row.starttime
    /\ \A i \in Latest(row.sensor) : table[i].endtime =< row.starttime
    /\ table' = [i \in DOMAIN table \union {id} |-> IF i = id THEN row ELSE table[i]]

Next ==
    \/ \E S \in SUBSET Sensors, t \in Times : Extend(S, t)
    \/ \E id \in Ids, row \in Row : Begin(id, row)

Spec == Init /\ [][Next]_table
=============================================================================
