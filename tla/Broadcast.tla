----------------------------- MODULE Broadcast -----------------------------
(***************************************************************************)
(* What the forwarder promises its clients, said without descriptors,      *)
(* tables and edge-triggered events.  Reports form a log.  A client that   *)
(* joins receives every report from then on, in order, each one once,      *)
(* until it leaves; and no report is taken up before the one before it has *)
(* gone to every member.                                                   *)
(***************************************************************************)
EXTENDS Naturals, Sequences

CONSTANTS Conns,     \* those who may join
          MaxReports \* reports are numbered by the device up to here

VARIABLES log,       \* the reports taken up so far
          members,   \* the clients served
          since,     \* length of the log when a client joined
          received   \* what was written to each client

vars == <<log, members, since, received>>

Owed(c) == SubSeq(log, since[c] + 1, Len(log))

CaughtUp(c) == received[c] = Owed(c)

Init ==
    /\ log = <<>> /\ members = {}
    /\ since = [c \in Conns |-> 0]
    /\ received = [c \in Conns |-> <<>>]

Join(c) ==
    /\ c \notin members /\ received[c] = <<>>
    /\ members' = members \union {c}
    /\ since' = [since EXCEPT ![c] = Len(log)]
    /\ UNCHANGED <<log, received>>

Leave(C) ==
    /\ members' = members \ C
    /\ UNCHANGED <<log, since, received>>

(* Some reports have nothing for the clients, so numbers may be left out.  *)
TakeUp(report) ==
    /\ \A i \in DOMAIN log : log[i] < report
    /\ \A c \in members : CaughtUp(c)
    /\ log' = Append(log, report)
    /\ UNCHANGED <<members, since, received>>

Deliver(c) ==
    /\ c \in members /\ ~CaughtUp(c)
    /\ received' = [received EXCEPT ![c] = Append(@, log[Len(log)])]
    /\ UNCHANGED <<log, members, since>>

Next ==
    \/ \E c \in Conns : Join(c) \/ Deliver(c)
    \/ \E C \in SUBSET members : Leave(C)
    \/ \E report \in 1..MaxReports : TakeUp(report)

Spec == Init /\ [][Next]_vars
=============================================================================
