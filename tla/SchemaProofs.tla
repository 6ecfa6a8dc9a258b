---------------------------- MODULE SchemaProofs ----------------------------
(***************************************************************************)
(* That the first row of the table sensors decides who creates the schema, *)
(* for any number of instances and of rows.                                *)
(***************************************************************************)
EXTENDS Schema, TLAPS

(* The list is filled from the front.                                      *)
FilledInOrder == \E n \in 0..LastRow : sensors = 1..n

(* An instance that has still to insert its first row begins with the      *)
(* first, and one that has come to the rows has made their table.          *)
Positions ==
    \A p \in Procs :
        /\ pc[p] \in {"select_db", "create_db", "select_again",
                      "show_tables", "create_sensors"} => row[p] = 1
        /\ pc[p] \in {"insert", "create_numeric"} => "sensors" \in tables

Inv == TypeOK /\ FilledInOrder /\ Positions /\ OneFiller

LEMMA Initially == Init => Inv
<1>1. Init => TypeOK
  <2>1. 1 \in Rows
    BY SchemaAssumption DEF Rows
  <2>. QED
    BY <2>1 DEF Init, TypeOK
<1>2. Init => FilledInOrder
  BY SchemaAssumption DEF Init, FilledInOrder
<1>3. Init => Positions /\ OneFiller
  BY DEF Init, Positions, OneFiller, Filling
<1>. QED
  BY <1>1, <1>2, <1>3 DEF Inv

(* Who is not the one that inserts, and stays away from the rows, makes    *)
(* nobody a filler.                                                        *)
LEMMA OtherQuery ==
    ASSUME Inv, NEW p \in Procs, NEW to,
           pc' = [pc EXCEPT ![p] = to],
           to \in {"off", "select_db", "create_db", "select_again",
                   "show_tables", "create_sensors", "insert", "connected"},
           broken' \in BOOLEAN, database' \in BOOLEAN,
           UNCHANGED sensors,
           tables \subseteq tables', tables' \subseteq AllTables,
           "numeric_data" \in tables' => sensors = Rows /\ "sensors" \in tables',
           row' \in [Procs -> Rows],
           \A q \in Procs : q # p => row'[q] = row[q],
           to \notin {"off", "connected"} => row'[p] = 1,
           to = "insert" => "sensors" \in tables'
    PROVE  Inv'
<1>1. TypeOK'
  BY DEF Inv, TypeOK
<1>2. FilledInOrder'
  BY DEF Inv, FilledInOrder
<1>3. Positions'
  BY DEF Inv, TypeOK, Positions
<1>4. ASSUME NEW q \in Procs, Filling(q)'
      PROVE  q # p /\ Filling(q) /\ pc'[q] = pc[q] /\ row'[q] = row[q]
  BY <1>4 DEF Inv, TypeOK, Filling
<1>5. OneFiller'
  <2>1. ("numeric_data" \in tables => Complete)'
    BY DEF Inv, TypeOK, Complete, AllTables
  <2>2. \A q \in Procs : Filling(q)' =>
           /\ sensors' = IF pc'[q] = "insert" THEN 1..row'[q] - 1 ELSE Rows
           /\ \A r \in Procs : Filling(r)' => r = q
    BY <1>4 DEF Inv, OneFiller
  <2>. QED
    BY <2>1, <2>2 DEF OneFiller
<1>. QED
  BY <1>1, <1>2, <1>3, <1>5 DEF Inv

(* The first row of a list is inserted only when there is none, and then   *)
(* no instance is a filler; every other row by the filler.                 *)
LEMMA FillerOf ==
    ASSUME Inv, NEW p \in Procs, pc[p] = "insert", row[p] \notin sensors
    PROVE  /\ sensors = 1..row[p] - 1
           /\ \A q \in Procs : Filling(q) => q = p
           /\ "numeric_data" \notin tables
<1>1. row[p] \in Rows
  BY DEF Inv, TypeOK
<1>2. CASE row[p] > 1
  <2>1. Filling(p)
    BY <1>2 DEF Filling
  <2>2. sensors = 1..row[p] - 1 /\ \A q \in Procs : Filling(q) => q = p
    BY <2>1 DEF Inv, OneFiller
  <2>3. "numeric_data" \notin tables
    BY <1>1 DEF Inv, OneFiller, Complete
  <2>. QED
    BY <2>2, <2>3
<1>3. CASE row[p] = 1
  <2>1. PICK n \in 0..LastRow : sensors = 1..n
    BY DEF Inv, FilledInOrder
  <2>2. sensors = {}
    BY <1>3, <2>1, SchemaAssumption
  <2>3. \A q \in Procs : ~Filling(q)
    BY <2>2, SchemaAssumption DEF Inv, TypeOK, OneFiller, Filling, Rows
  <2>4. "numeric_data" \notin tables
    BY <2>2, SchemaAssumption DEF Inv, OneFiller, Complete, Rows
  <2>5. sensors = 1..row[p] - 1
    BY <2>2, <1>3
  <2>. QED
    BY <2>3, <2>4, <2>5
<1>. QED
  BY <1>1, <1>2, <1>3, SchemaAssumption DEF Rows

LEMMA InsertRowStep ==
    ASSUME Inv, NEW p \in Procs, InsertRow(p)
    PROVE  Inv'
<1>1. /\ pc[p] = "insert" /\ row[p] \in Rows
      /\ UNCHANGED <<database, tables>>
  BY DEF Inv, TypeOK, InsertRow, Answered, InTrouble, Goto
<1>2. CASE row[p] \notin sensors /\ Insert(p)
           /\ Answered(p, "insert",
                       IF row[p] = LastRow THEN "create_numeric" ELSE "insert")
  <2>1. /\ sensors = 1..row[p] - 1
        /\ \A q \in Procs : Filling(q) => q = p
        /\ "numeric_data" \notin tables
    BY <1>1, <1>2, FillerOf
  <2>2. sensors' = 1..row[p]
    BY <1>1, <1>2, <2>1 DEF Insert, Rows
  <2>3. /\ pc' = [pc EXCEPT ![p] = IF row[p] = LastRow THEN "create_numeric" ELSE "insert"]
        /\ row' = [row EXCEPT ![p] = IF row[p] = LastRow THEN 1 ELSE row[p] + 1]
        /\ UNCHANGED broken
    BY <1>2 DEF Insert, Answered, Goto
  <2>4. TypeOK'
    <3>1. row' \in [Procs -> Rows]
      BY <1>1, <2>3, SchemaAssumption DEF Inv, TypeOK, Rows
    <3>2. sensors' \subseteq Rows
      BY <1>1, <2>2, SchemaAssumption DEF Rows
    <3>3. pc' \in [Procs -> {"off", "select_db", "create_db", "select_again",
                             "show_tables", "create_sensors", "insert",
                             "create_numeric", "connected"}]
      BY <2>3 DEF Inv, TypeOK
    <3>. QED
      BY <1>1, <2>3, <3>1, <3>2, <3>3 DEF Inv, TypeOK
  <2>5. FilledInOrder'
    BY <1>1, <2>2, SchemaAssumption DEF FilledInOrder, Rows
  <2>6. Positions'
    BY <1>1, <2>3 DEF Inv, TypeOK, Positions
  <2>7. \A q \in Procs : Filling(q)' => q = p
    BY <2>1, <2>3 DEF Inv, TypeOK, Filling
  <2>8. sensors' = IF pc'[p] = "insert" THEN 1..row'[p] - 1 ELSE Rows
    <3>1. CASE row[p] = LastRow
      BY <1>1, <2>2, <2>3, <3>1 DEF Inv, TypeOK, Rows
    <3>2. CASE row[p] # LastRow
      BY <1>1, <2>2, <2>3, <3>2 DEF Inv, TypeOK, Rows
    <3>. QED
      BY <3>1, <3>2
  <2>9. OneFiller'
    BY <1>1, <2>1, <2>7, <2>8 DEF OneFiller
  <2>. QED
    BY <2>4, <2>5, <2>6, <2>9 DEF Inv
<1>3. CASE UNCHANGED sensors /\ UNCHANGED row /\ pc' = [pc EXCEPT ![p] = "off"]
  <2>1. broken' \in BOOLEAN
    BY DEF Inv, TypeOK, InsertRow, Answered, InTrouble
  <2>. QED
    BY <1>1, <1>3, <2>1, OtherQuery DEF Inv, TypeOK, OneFiller, Complete, AllTables
<1>4. CASE row[p] \notin sensors /\ sensors' = sensors \union {row[p]}
           /\ UNCHANGED row /\ InTrouble(p, "insert", "off")
  <2>1. /\ sensors = 1..row[p] - 1
        /\ \A q \in Procs : Filling(q) => q = p
        /\ "numeric_data" \notin tables
    BY <1>1, <1>4, FillerOf
  <2>2. sensors' = 1..row[p]
    BY <1>1, <1>4, <2>1 DEF Rows
  <2>3. pc' = [pc EXCEPT ![p] = "off"] /\ broken' = TRUE
    BY <1>4 DEF InTrouble, Goto
  <2>4. TypeOK'
    BY <1>1, <1>4, <2>3 DEF Inv, TypeOK
  <2>5. FilledInOrder'
    BY <1>1, <2>2 DEF FilledInOrder, Rows
  <2>6. Positions'
    BY <1>1, <1>4, <2>3 DEF Inv, TypeOK, Positions
  <2>7. \A q \in Procs : ~Filling(q)'
    BY <1>4, <2>1, <2>3 DEF Inv, TypeOK, Filling
  <2>8. OneFiller'
    BY <1>1, <2>1, <2>7 DEF OneFiller
  <2>. QED
    BY <2>4, <2>5, <2>6, <2>8 DEF Inv
<1>5. \/ /\ row[p] \notin sensors /\ Insert(p)
         /\ Answered(p, "insert",
                     IF row[p] = LastRow THEN "create_numeric" ELSE "insert")
      \/ UNCHANGED sensors /\ UNCHANGED row /\ pc' = [pc EXCEPT ![p] = "off"]
      \/ /\ row[p] \notin sensors /\ sensors' = sensors \union {row[p]}
         /\ UNCHANGED row /\ InTrouble(p, "insert", "off")
  BY DEF InsertRow, Answered, InTrouble, Goto
<1>. QED
  BY <1>2, <1>3, <1>4, <1>5

(* Every other query leaves the list of sensors alone.                     *)
LEMMA QueryStep ==
    ASSUME Inv, NEW p \in Procs, Query(p)
    PROVE  Inv'
<1>1. CASE SelectDb(p)
  BY <1>1, OtherQuery
  DEF Inv, TypeOK, Positions, OneFiller, Complete, AllTables,
      SelectDb, Answered, InTrouble, Goto, server
<1>2. CASE CreateDb(p)
  BY <1>2, OtherQuery
  DEF Inv, TypeOK, Positions, OneFiller, Complete, AllTables,
      CreateDb, Answered, InTrouble, Goto
<1>3. CASE SelectAgain(p)
  BY <1>3, OtherQuery
  DEF Inv, TypeOK, Positions, OneFiller, Complete, AllTables,
      SelectAgain, Answered, InTrouble, Goto, server
<1>4. CASE ShowTables(p)
  <2>1. PICK to \in {"connected", "create_sensors", "off"} :
           /\ pc[p] = "show_tables" /\ pc' = [pc EXCEPT ![p] = to]
           /\ broken' \in {broken, TRUE}
    BY <1>4 DEF ShowTables, Answered, InTrouble, Goto
  <2>2. UNCHANGED <<database, tables, sensors, row>> /\ row[p] = 1
    BY <1>4, <2>1 DEF Inv, Positions, ShowTables, server
  <2>. QED
    BY <2>1, <2>2, OtherQuery DEF Inv, TypeOK, OneFiller, Complete, AllTables
<1>5. CASE CreateSensors(p)
  BY <1>5, OtherQuery
  DEF Inv, TypeOK, Positions, OneFiller, Complete, AllTables,
      CreateSensors, CreateTable, Answered, InTrouble, Goto
<1>6. CASE InsertRow(p)
  BY <1>6, InsertRowStep
<1>7. CASE CreateNumeric(p)
  <2>1. pc[p] = "create_numeric" /\ UNCHANGED <<database, sensors, row>>
    BY <1>7 DEF CreateNumeric, CreateTable, Answered, InTrouble, Goto
  <2>2. sensors = Rows /\ "sensors" \in tables
    BY <2>1 DEF Inv, OneFiller, Positions, Filling
  <2>. QED
    BY <1>7, <2>1, <2>2, OtherQuery
    DEF Inv, TypeOK, OneFiller, AllTables,
        CreateNumeric, CreateTable, Answered, InTrouble, Goto
<1>. QED
  BY <1>1, <1>2, <1>3, <1>4, <1>5, <1>6, <1>7 DEF Query

LEMMA Step == Inv /\ [Next]_vars => Inv'
<1>. SUFFICES ASSUME Inv, [Next]_vars PROVE Inv'
  OBVIOUS
<1>1. ASSUME NEW p \in Procs, Start(p) PROVE Inv'
  <2>1. 1 \in Rows
    BY SchemaAssumption DEF Rows
  <2>. QED
    BY <1>1, <2>1, OtherQuery
    DEF Inv, TypeOK, OneFiller, Complete, AllTables, Start, Answered, Goto, server
<1>2. ASSUME NEW p \in Procs, Query(p) PROVE Inv'
  BY <1>2, QueryStep
<1>3. ASSUME NEW p \in Procs, End(p) PROVE Inv'
  <2>1. broken' \in BOOLEAN
    BY <1>3, Zenon DEF Inv, TypeOK, End, UnderWay
  <2>. QED
    BY <1>3, <2>1, OtherQuery
    DEF Inv, TypeOK, OneFiller, Complete, AllTables, End, server
<1>4. CASE UNCHANGED vars
  BY <1>4 DEF Inv, TypeOK, FilledInOrder, Positions, OneFiller, Filling, Complete,
              vars, server
<1>. QED
  BY <1>1, <1>2, <1>3, <1>4 DEF Next

(* However many instances are started, in whatever order their queries     *)
(* come and fail, every reachable state is well typed.                     *)
THEOREM TypeCorrect == Spec => []TypeOK
<1>1. Inv => TypeOK
  BY DEF Inv
<1>. QED
  BY <1>1, Initially, Step, PTL DEF Spec

(* The list of sensors is filled by one instance at a time, in order, and  *)
(* the table of readings is there only when the list is complete, whatever *)
(* fails and whoever dies on the way (MysqlDatabase.cpp:99-187).           *)
THEOREM FillerCorrect == Spec => []OneFiller
<1>1. Inv => OneFiller
  BY DEF Inv
<1>. QED
  BY <1>1, Initially, Step, PTL DEF Spec
(***************************************************************************)
(* Why a schema can stay incomplete only when something is broken: as long *)
(* as it is incomplete one instance is on its way to complete it, and an   *)
(* instance gives up there only when a query fails or it dies.             *)
(***************************************************************************)
Leader(p) == pc[p] \in {"select_again", "show_tables", "create_sensors"}

SomeoneLeads ==
    ~broken =>
        /\ database /\ tables = {} => \E p \in Procs : Leader(p)
        /\ tables # {} /\ sensors = {} => \E p \in Procs : pc[p] = "insert"
        /\ sensors # {} /\ ~Complete => \E p \in Procs : Filling(p)

(* A query that adds nothing to the server, and after which the instance   *)
(* still leads if it did before and there are no tables.                   *)
LEMMA LeadKept ==
    ASSUME Inv, SomeoneLeads, NEW p \in Procs, NEW to,
           pc' = [pc EXCEPT ![p] = to], UNCHANGED <<server, row>>,
           broken' \in {broken, TRUE},
           ~broken' => /\ Leader(p) /\ tables = {} => Leader(p)'
                       /\ pc[p] = "insert" => sensors # {} /\ ~Filling(p)
                       /\ ~Filling(p) \/ Complete
    PROVE  SomeoneLeads'
<1>. SUFFICES ASSUME ~broken' PROVE SomeoneLeads'
  BY DEF SomeoneLeads
<1>1. ~broken /\ UNCHANGED <<database, tables, sensors, row>>
  <2>1. ~broken
    BY Zenon
  <2>2. UNCHANGED <<database, tables, sensors, row>>
    BY DEF server
  <2>. QED
    BY <2>1, <2>2
<1>2. \A q \in Procs : q # p => pc'[q] = pc[q]
  BY DEF Inv, TypeOK
<1>3. database /\ tables = {} => \E q \in Procs : Leader(q)'
  <2>. SUFFICES ASSUME database, tables = {} PROVE \E q \in Procs : Leader(q)'
    OBVIOUS
  <2>1. PICK q \in Procs : Leader(q)
    BY <1>1 DEF SomeoneLeads
  <2>2. Leader(q)'
    BY <2>1, <1>2 DEF Leader
  <2>. QED
    BY <2>2
<1>4. tables # {} /\ sensors = {} => \E q \in Procs : pc'[q] = "insert"
  <2>. SUFFICES ASSUME tables # {}, sensors = {}
                PROVE  \E q \in Procs : pc'[q] = "insert"
    OBVIOUS
  <2>1. PICK q \in Procs : pc[q] = "insert"
    BY <1>1 DEF SomeoneLeads
  <2>2. q # p
    BY <2>1
  <2>. QED
    BY <2>1, <2>2, <1>2
<1>5. sensors # {} /\ ~Complete => \E q \in Procs : Filling(q)'
  <2>. SUFFICES ASSUME sensors # {}, ~Complete PROVE \E q \in Procs : Filling(q)'
    OBVIOUS
  <2>1. PICK q \in Procs : Filling(q)
    BY <1>1 DEF SomeoneLeads
  <2>2. q # p
    BY <2>1
  <2>3. Filling(q)'
    BY <2>1, <2>2, <1>1, <1>2 DEF Filling
  <2>. QED
    BY <2>3
<1>6. Complete' = Complete
  BY <1>1 DEF Complete
<1>. QED
  BY <1>1, <1>3, <1>4, <1>5, <1>6 DEF SomeoneLeads

(* The queries that change the server hand the lead on.                    *)
LEMMA LeadHandedOn ==
    ASSUME Inv, SomeoneLeads, NEW p \in Procs,
           CreateDb(p) \/ CreateSensors(p) \/ CreateNumeric(p) \/ InsertRow(p)
    PROVE  SomeoneLeads'
<1>. SUFFICES ASSUME ~broken' PROVE SomeoneLeads'
  BY DEF SomeoneLeads
<1>1. CASE CreateDb(p)
  <2>1. /\ pc[p] = "create_db" /\ UNCHANGED <<tables, sensors, row, broken>>
        /\ \/ pc' = [pc EXCEPT ![p] = "select_again"] /\ database' = TRUE
           \/ pc' = [pc EXCEPT ![p] = "off"] /\ UNCHANGED database
    BY <1>1 DEF CreateDb, Answered, InTrouble, Goto
  <2>2. CASE pc' = [pc EXCEPT ![p] = "off"] /\ UNCHANGED database
    BY <2>1, <2>2, LeadKept DEF server, Leader, Filling
  <2>3. CASE pc' = [pc EXCEPT ![p] = "select_again"] /\ database' = TRUE
    <3>1. Leader(p)'
      BY <2>3 DEF Inv, TypeOK, Leader
    <3>2. \A q \in Procs : q # p => pc'[q] = pc[q]
      BY <2>3 DEF Inv, TypeOK
    <3>3. tables # {} /\ sensors = {} => \E q \in Procs : pc'[q] = "insert"
      BY <2>1, <3>2 DEF SomeoneLeads
    <3>4. \A q \in Procs : Filling(q) => Filling(q)'
      BY <2>1, <3>2 DEF Filling
    <3>5. Complete' = Complete
      BY <2>1 DEF Complete
    <3>. QED
      BY <2>1, <3>1, <3>3, <3>4, <3>5 DEF SomeoneLeads
  <2>. QED
    BY <2>1, <2>2, <2>3
<1>2. CASE CreateSensors(p)
  <2>1. /\ pc[p] = "create_sensors" /\ pc' = [pc EXCEPT ![p] = "insert"]
        /\ tables' = tables \union {"sensors"}
        /\ UNCHANGED <<database, sensors, row, broken>>
    BY <1>2 DEF CreateSensors, CreateTable, Answered, InTrouble, Goto
  <2>2. pc'[p] = "insert" /\ \A q \in Procs : q # p => pc'[q] = pc[q]
    BY <2>1 DEF Inv, TypeOK
  <2>3. \A q \in Procs : Filling(q) => Filling(q)'
    BY <2>1, <2>2 DEF Filling
  <2>4. Complete => Complete'
    BY <2>1 DEF Complete, AllTables
  <2>5. tables' # {}
    BY <2>1
  <2>. QED
    BY <2>1, <2>2, <2>3, <2>4, <2>5 DEF SomeoneLeads
<1>3. CASE CreateNumeric(p)
  <2>1. /\ pc[p] = "create_numeric"
        /\ tables' = tables \union {"numeric_data"} /\ UNCHANGED sensors
    BY <1>3 DEF CreateNumeric, CreateTable, Answered, InTrouble, Goto
  <2>2. sensors = Rows /\ "sensors" \in tables
    BY <2>1 DEF Inv, OneFiller, Positions, Filling
  <2>3. Complete'
    BY <2>1, <2>2 DEF Inv, TypeOK, Complete, AllTables
  <2>4. tables' # {} /\ sensors' # {}
    BY <2>1, <2>2, SchemaAssumption DEF Rows
  <2>. QED
    BY <2>3, <2>4 DEF SomeoneLeads
<1>4. CASE InsertRow(p)
  <2>1. /\ pc[p] = "insert" /\ row[p] \in Rows /\ "sensors" \in tables
        /\ UNCHANGED <<database, tables, broken>>
    BY <1>4 DEF Inv, TypeOK, Positions, InsertRow, Answered, InTrouble, Goto
  <2>2. \/ /\ row[p] \in sensors /\ pc' = [pc EXCEPT ![p] = "off"]
           /\ UNCHANGED <<sensors, row>>
        \/ /\ row[p] \notin sensors /\ sensors' = sensors \union {row[p]}
           /\ row' = [row EXCEPT ![p] = IF row[p] = LastRow THEN 1 ELSE row[p] + 1]
           /\ pc' = [pc EXCEPT ![p] = IF row[p] = LastRow THEN "create_numeric"
                                                         ELSE "insert"]
    BY <1>4 DEF InsertRow, Insert, Answered, InTrouble, Goto
  <2>3. CASE row[p] \in sensors /\ pc' = [pc EXCEPT ![p] = "off"]
             /\ UNCHANGED <<sensors, row>>
    <3>1. ~Filling(p)
      BY <2>1, <2>3 DEF Inv, OneFiller, Filling, Rows
    <3>2. sensors # {}
      BY <2>3
    <3>. QED
      BY <2>1, <2>3, <3>1, <3>2, LeadKept DEF server, Leader
  <2>4. CASE /\ row[p] \notin sensors /\ sensors' = sensors \union {row[p]}
             /\ row' = [row EXCEPT ![p] = IF row[p] = LastRow THEN 1 ELSE row[p] + 1]
             /\ pc' = [pc EXCEPT ![p] = IF row[p] = LastRow THEN "create_numeric"
                                                           ELSE "insert"]
    <3>1. Filling(p)'
      <4>1. CASE row[p] = LastRow
        BY <2>4, <4>1 DEF Inv, TypeOK, Filling
      <4>2. CASE row[p] # LastRow
        BY <2>1, <2>4, <4>2, SchemaAssumption DEF Inv, TypeOK, Filling, Rows
      <4>. QED
        BY <4>1, <4>2
    <3>2. sensors' # {} /\ tables' # {}
      BY <2>1, <2>4
    <3>. QED
      BY <3>1, <3>2 DEF SomeoneLeads
  <2>. QED
    BY <2>2, <2>3, <2>4
<1>. QED
  BY <1>1, <1>2, <1>3, <1>4

LEMMA LeadStep == Inv /\ SomeoneLeads /\ [Next]_vars => SomeoneLeads'
<1>. SUFFICES ASSUME Inv, SomeoneLeads, [Next]_vars PROVE SomeoneLeads'
  OBVIOUS
<1>1. ASSUME NEW p \in Procs, Start(p) PROVE SomeoneLeads'
  <2>1. /\ pc[p] = "off" /\ pc' = [pc EXCEPT ![p] = "select_db"]
        /\ row' = [row EXCEPT ![p] = 1] /\ UNCHANGED <<database, tables, sensors, broken>>
    BY <1>1 DEF Start, Answered, Goto, server
  <2>2. \A q \in Procs : q # p => pc'[q] = pc[q] /\ row'[q] = row[q]
    BY <2>1 DEF Inv, TypeOK
  <2>3. \A q \in Procs : /\ Leader(q) => Leader(q)'
                         /\ pc[q] = "insert" => pc'[q] = "insert"
                         /\ Filling(q) => Filling(q)'
    BY <2>1, <2>2 DEF Leader, Filling
  <2>4. Complete' = Complete
    BY <2>1 DEF Complete
  <2>. QED
    BY <2>1, <2>3, <2>4 DEF SomeoneLeads
<1>2. ASSUME NEW p \in Procs, SelectDb(p) PROVE SomeoneLeads'
  <2>1. PICK to \in {"show_tables", "create_db"} :
           /\ pc[p] = "select_db" /\ pc' = [pc EXCEPT ![p] = to]
           /\ broken' \in {broken, TRUE} /\ UNCHANGED <<server, row>>
    BY <1>2 DEF SelectDb, Answered, InTrouble, Goto
  <2>. QED
    BY <2>1, LeadKept DEF Leader, Filling
<1>3. ASSUME NEW p \in Procs, SelectAgain(p) PROVE SomeoneLeads'
  <2>1. /\ pc[p] = "select_again" /\ UNCHANGED <<server, row>>
        /\ \/ pc' = [pc EXCEPT ![p] = "show_tables"] /\ UNCHANGED broken
           \/ pc' = [pc EXCEPT ![p] = "off"] /\ broken' = TRUE
    BY <1>3 DEF SelectAgain, Answered, InTrouble, Goto
  <2>. QED
    BY <2>1, LeadKept DEF Inv, TypeOK, Leader, Filling
<1>4. ASSUME NEW p \in Procs, ShowTables(p) PROVE SomeoneLeads'
  <2>1. /\ pc[p] = "show_tables" /\ UNCHANGED <<server, row>>
        /\ \/ /\ tables # {} /\ pc' = [pc EXCEPT ![p] = "connected"]
              /\ UNCHANGED broken
           \/ /\ tables = {} /\ pc' = [pc EXCEPT ![p] = "create_sensors"]
              /\ UNCHANGED broken
           \/ pc' = [pc EXCEPT ![p] = "off"] /\ broken' = TRUE
    BY <1>4 DEF ShowTables, Answered, InTrouble, Goto
  <2>. QED
    BY <2>1, LeadKept DEF Inv, TypeOK, Leader, Filling
<1>5. ASSUME NEW p \in Procs,
             CreateDb(p) \/ CreateSensors(p) \/ InsertRow(p) \/ CreateNumeric(p)
      PROVE  SomeoneLeads'
  BY <1>5, LeadHandedOn
<1>6. ASSUME NEW p \in Procs, End(p) PROVE SomeoneLeads'
  <2>1. CASE UnderWay(p)
    BY <1>6, <2>1 DEF End, SomeoneLeads
  <2>2. CASE ~UnderWay(p)
    <3>1. pc[p] = "connected"
      BY <1>6, <2>2 DEF End, UnderWay
    <3>2. pc' = [pc EXCEPT ![p] = "off"] /\ UNCHANGED <<server, row>>
      BY <1>6 DEF End
    <3>3. broken' \in {broken, TRUE}
      BY <1>6, Zenon DEF Inv, TypeOK, End
    <3>. QED
      BY <3>1, <3>2, <3>3, LeadKept DEF Leader, Filling
  <2>. QED
    BY <2>1, <2>2
<1>7. CASE UNCHANGED vars
  BY <1>7 DEF SomeoneLeads, Leader, Filling, Complete, vars, server
<1>. QED
  BY <1>1, <1>2, <1>3, <1>4, <1>5, <1>6, <1>7 DEF Next, Query

(* However many instances race, as long as no query fails for a reason of  *)
(* its own and none of them dies in connect, a database in which none of   *)
(* them is at work has the complete schema, whichever of them gave up      *)
(* (MysqlDatabase.cpp:74-94, 108-111).                                     *)
THEOREM CompleteCorrect == Spec => []CompleteUnlessBroken
<1>1. Init => SomeoneLeads
  BY DEF Init, SomeoneLeads
<1>2. ASSUME SomeoneLeads PROVE CompleteUnlessBroken
  <2>1. \A p \in Procs : ~UnderWay(p) => ~Leader(p) /\ pc[p] # "insert" /\ ~Filling(p)
    BY DEF UnderWay, Leader, Filling
  <2>. QED
    BY <1>2, <2>1 DEF SomeoneLeads, CompleteUnlessBroken
<1>. QED
  BY <1>1, <1>2, Initially, Step, LeadStep, PTL DEF Spec
=============================================================================
