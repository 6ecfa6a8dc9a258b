------------------------------- MODULE Schema -------------------------------
(***************************************************************************)
(* The start of the collector at the database: MysqlDatabase::connect,     *)
(* createTables and createSensorRows, for several instances that are       *)
(* started on one server, at the same time or again and again.  Each query *)
(* is a step.  What the server already holds decides about its outcome; it *)
(* may also fail for any other reason, and then it may have been carried   *)
(* out all the same.  An instance may die between two queries.             *)
(***************************************************************************)
EXTENDS Naturals

CONSTANTS Procs,
          LastRow  \* the number of rows createSensorRows inserts

ASSUME SchemaAssumption == LastRow \in Nat \ {0}

VARIABLES
    database,  \* the database wmr_data exists
    tables,    \* the tables in it
    sensors,   \* the rows of the table sensors, which are their own keys
    pc,        \* the query each instance makes next
    row,       \* the row that createSensorRows of each instance inserts next
    broken     \* history: a query failed for a reason that is not in the
               \* database, or an instance died in connect

server == <<database, tables, sensors>>
vars   == <<server, pc, row, broken>>

AllTables == {"sensors", "numeric_data"}
Rows == 1..LastRow

Init ==
    /\ database = FALSE /\ tables = {} /\ sensors = {}
    /\ pc = [p \in Procs |-> "off"]
    /\ row = [p \in Procs |-> 1]
    /\ broken = FALSE

Goto(p, from, to) == pc[p] = from /\ pc' = [pc EXCEPT ![p] = to]

(* The outcome of a query, after which the instance goes on to another, or *)
(* to "off": connect returns false, and main returns.                      *)
Answered(p, from, to)  == Goto(p, from, to) /\ UNCHANGED broken
InTrouble(p, from, to) == Goto(p, from, to) /\ broken' = TRUE

(* An instance has reached the server.                                     *)
Start(p) ==
    /\ Answered(p, "off", "select_db")
    /\ row' = [row EXCEPT ![p] = 1]
    /\ UNCHANGED server

(* Any failure is taken for a database that is not yet there.              *)
SelectDb(p) ==
    /\ \/ database /\ Answered(p, "select_db", "show_tables")
       \/ ~database /\ Answered(p, "select_db", "create_db")
       \/ InTrouble(p, "select_db", "create_db")
    /\ UNCHANGED <<server, row>>

(* create_db is an error if another instance has been faster.              *)
CreateDb(p) ==
    /\ \/ ~database /\ database' = TRUE /\ Answered(p, "create_db", "select_again")
       \/ database /\ Answered(p, "create_db", "off") /\ UNCHANGED database
       \/ InTrouble(p, "create_db", "off") /\ database' \in {database, TRUE}
    /\ UNCHANGED <<tables, sensors, row>>

SelectAgain(p) ==
    /\ \/ Answered(p, "select_again", "show_tables")
       \/ InTrouble(p, "select_again", "off")
    /\ UNCHANGED <<server, row>>

(* Any table at all is taken for a complete schema.                        *)
ShowTables(p) ==
    /\ \/ tables # {} /\ Answered(p, "show_tables", "connected")
       \/ tables = {} /\ Answered(p, "show_tables", "create_sensors")
       \/ InTrouble(p, "show_tables", "off")
    /\ UNCHANGED <<server, row>>

(* CREATE TABLE IF NOT EXISTS.                                             *)
CreateTable(p, table, from, to) ==
    /\ \/ tables' = tables \union {table} /\ Answered(p, from, to)
       \/ /\ tables' \in {tables, tables \union {table}}
          /\ InTrouble(p, from, "off")
    /\ UNCHANGED <<database, sensors, row>>

(* Mutant: the query is put together and not executed.                     *)
CreateNumericNot(p) ==
    /\ Answered(p, "create_numeric", "connected")
    /\ UNCHANGED <<server, row>>

CreateSensors(p) == CreateTable(p, "sensors", "create_sensors", "insert")

CreateNumeric(p) == CreateTable(p, "numeric_data", "create_numeric", "connected")

Insert(p) ==
    /\ sensors' = sensors \union {row[p]}
    /\ row' = [row EXCEPT ![p] = IF @ = LastRow THEN 1 ELSE @ + 1]

(* Mutants: a row that is there is left alone; an instance that fails      *)
(* removes the tables.                                                     *)
InsertRowIgnoring(p) ==
    /\ Insert(p)
    /\ Answered(p, "insert", IF row[p] = LastRow THEN "create_numeric" ELSE "insert")
    /\ UNCHANGED <<database, tables>>

InsertRowCleaningUp(p) ==
    /\ \/ /\ row[p] \notin sensors /\ tables # {}
          /\ Insert(p) /\ UNCHANGED tables
          /\ Answered(p, "insert",
                      IF row[p] = LastRow THEN "create_numeric" ELSE "insert")
       \/ /\ row[p] \in sensors \/ tables = {}
          /\ Answered(p, "insert", "off")
          /\ tables' = {} /\ sensors' = {} /\ UNCHANGED row
    /\ UNCHANGED database

(* The rows are inserted one by one; one that is there already is a        *)
(* violation of the primary key.                                           *)
InsertRow(p) ==
    /\ \/ /\ row[p] \notin sensors /\ Insert(p)
          /\ Answered(p, "insert",
                      IF row[p] = LastRow THEN "create_numeric" ELSE "insert")
       \/ /\ row[p] \in sensors /\ Answered(p, "insert", "off")
          /\ UNCHANGED <<sensors, row>>
       \/ /\ sensors' \in {sensors, sensors \union {row[p]}} /\ UNCHANGED row
          /\ InTrouble(p, "insert", "off")
    /\ UNCHANGED <<database, tables>>

UnderWay(p) == pc[p] \notin {"off", "connected"}

(* The end of an instance, which is as good or bad as the time it comes at.*)
End(p) ==
    /\ pc[p] # "off"
    /\ pc' = [pc EXCEPT ![p] = "off"]
    /\ broken' = (broken \/ UnderWay(p))
    /\ UNCHANGED <<server, row>>

Query(p) ==
    \/ SelectDb(p) \/ CreateDb(p) \/ SelectAgain(p) \/ ShowTables(p)
    \/ CreateSensors(p) \/ InsertRow(p) \/ CreateNumeric(p)

Next == \E p \in Procs : Start(p) \/ Query(p) \/ End(p)

Spec == Init /\ [][Next]_vars

(* A query has an outcome in the end.                                      *)
FairSpec == Spec /\ \A p \in Procs : WF_vars(Query(p))

-----------------------------------------------------------------------------

TypeOK ==
    /\ database \in BOOLEAN /\ broken \in BOOLEAN
    /\ tables \subseteq AllTables /\ sensors \subseteq Rows
    /\ pc \in [Procs -> {"off", "select_db", "create_db", "select_again",
                         "show_tables", "create_sensors", "insert",
                         "create_numeric", "connected"}]
    /\ row \in [Procs -> Rows]

Complete == tables = AllTables /\ sensors = Rows

(* The instance has inserted a row.                                        *)
Filling(p) == pc[p] = "create_numeric" \/ (pc[p] = "insert" /\ row[p] > 1)

(* The first row decides among instances that found no tables: only the    *)
(* one that inserted it goes on, so the list of sensors is filled by one   *)
(* instance in order, and a table numeric_data says that all is complete,  *)
(* whatever failed before (MysqlDatabase.cpp:113-139, 161-187).            *)
OneFiller ==
    /\ \A p \in Procs : Filling(p) =>
          /\ sensors = IF pc[p] = "insert" THEN 1..row[p] - 1 ELSE Rows
          /\ \A q \in Procs : Filling(q) => q = p
    /\ "numeric_data" \in tables => Complete

(* As long as only the instances get into each other's way the schema is   *)
(* complete whenever none of them is in connect, whichever of them gave up *)
(* (MysqlDatabase.cpp:74-94, 108-111).                                     *)
CompleteUnlessBroken ==
    ~broken /\ database /\ (\A p \in Procs : ~UnderWay(p)) => Complete

(* A start leads to a complete schema unless something fails: instances    *)
(* that race cannot all give up (MysqlDatabase.cpp:58-154).                *)
StartLeadsToSchema ==
    \A p \in Procs : pc[p] = "select_db" ~> Complete \/ broken
=============================================================================
