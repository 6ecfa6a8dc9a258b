----------------------------- MODULE Forwarder -----------------------------
(***************************************************************************)
(* The forwarder: event_loop of forwarder.c with the loop of main around   *)
(* it.  One process reads reports from the HID device and writes each of   *)
(* them to every connected client, driven by an edge-triggered epoll set.  *)
(* Every system call that another party can race with is a step: the wait, *)
(* each accept, each read, each write to one client.                       *)
(*                                                                         *)
(* The kernel side is what the system calls answer from: the accept queue, *)
(* the ready list of the epoll set, the state of each connection and the   *)
(* queue of the device.  A descriptor number is the lowest one free, and   *)
(* an event names a descriptor number, not a connection.                   *)
(***************************************************************************)
EXTENDS Integers, Sequences, SequencesExt, FiniteSets, FiniteSetsExt

CONSTANTS
    Conns,               \* connections that are made during a run
    NoConn,              \* what a free descriptor holds
    MAXCLIENTS, MAXEVENTS,
    MaxFd,               \* descriptors 1..MaxFd are left for connections
    RESET_TIMEOUT, HEARTBEAT_INTERVAL,
    PollTimeout,         \* timeout of epoll_wait
    Talkers,             \* connections whose peer sends something
    MayStall,            \* connections whose peer may leave its socket full
    Signals,             \* SIGINT or SIGTERM may come
    SetupMayFail,        \* fcntl or epoll_ctl may fail for a new connection
    MaxReports,          \* bound: reports of the device
    MaxTime,             \* bound: seconds
    MaxOpens             \* bound: times the device is opened

ASSUME ForwarderAssumption ==
    /\ NoConn \notin Conns
    /\ MAXCLIENTS \in Nat \ {0} /\ MAXEVENTS \in Nat \ {0} /\ MaxFd \in Nat
    /\ RESET_TIMEOUT \in Nat /\ HEARTBEAT_INTERVAL \in Nat
    /\ PollTimeout \in Nat \ {0}
    /\ Talkers \subseteq Conns /\ MayStall \subseteq Conns
    /\ Signals \in BOOLEAN /\ SetupMayFail \in BOOLEAN
    /\ MaxReports \in Nat /\ MaxTime \in Nat /\ MaxOpens \in Nat \ {0}

VARIABLES
    pc,                            \* where event_loop or main is
    g_running,
    events,                        \* the items of the batch still to handle
    cl, clientfds,                 \* client_count is Len(clientfds)
    last_recv, last_heartbeat,
    now, waited,                   \* the time, and how long epoll_wait waits
    held,                          \* history: seconds spent in write_exact since
                                   \* event_loop last looked at its timers
    watched, ready,                \* interest list and ready list of epoll
    hidQueue, unplugged, produced, \* the device
    backlog,                       \* connections not yet accepted
    peer, unread, full,            \* the state of each connection
    fdConn,                        \* the connection behind each descriptor
    opens,
    forwarded, received, since,    \* history: reports taken up and written
    surplus,                       \* history: accepted with the table full
    sentReset, sentHeartbeat       \* history: time of the last command

loopVars   == <<pc, events, cl>>
timeVars   == <<last_recv, last_heartbeat, sentReset, sentHeartbeat>>
clockVars  == <<now, waited, held>>
hidVars    == <<hidQueue, unplugged, produced>>
peerVars   == <<peer, unread, full>>
tableVars  == <<clientfds, fdConn, watched, surplus>>
logVars    == <<forwarded, received, since>>
vars == <<loopVars, timeVars, clockVars, hidVars, peerVars, tableVars, logVars,
          g_running, ready, backlog, opens>>

FDs == 1..MaxFd
sockfd == -1
hidfd  == 0

(* A report with nothing to forward: a short read or a length byte that is *)
(* not below 8.                                                            *)
Void == 0

-----------------------------------------------------------------------------
(* The kernel.                                                             *)

(* Peers: not yet there, established, closed by the peer, reset while      *)
(* established, reset after the peer's close; or closed by the forwarder.  *)
PeerStates == {"none", "est", "fin", "rst", "pipe", "gone"}

Broken(c) == peer[c] \in {"rst", "pipe"}

Readable(fd) ==
    CASE fd = sockfd -> backlog # <<>>
      [] fd = hidfd  -> hidQueue # <<>> \/ unplugged
      [] OTHER       -> unread[fdConn[fd]] \/ peer[fdConn[fd]] # "est"

ErrorOrHangup(fd) ==
    CASE fd = sockfd -> FALSE
      [] fd = hidfd  -> unplugged
      [] OTHER       -> Broken(fdConn[fd])

(* What a list has in S, in its order.                                     *)
Only(list, S) ==
    LET only[i \in 0..Len(list)] ==
            IF i = 0 THEN <<>>
            ELSE IF list[i] \in S THEN Append(only[i - 1], list[i]) ELSE only[i - 1]
    IN only[Len(list)]

(* An edge: a descriptor goes to the end of the ready list, once.          *)
Edge(fds) == ready \o SetToSeq(fds \ ToSet(ready))

FdsOf(c) == {fd \in watched : fdConn[fd] = c}

Running == pc \notin {"exited", "killed"}

Listening == Running /\ pc # "down"

Connect(c) ==
    /\ Listening /\ peer[c] = "none"
    /\ peer' = [peer EXCEPT ![c] = "est"]
    /\ backlog' = Append(backlog, c)
    /\ ready' = Edge({sockfd})
    /\ UNCHANGED <<loopVars, timeVars, clockVars, hidVars, unread, full,
                   tableVars, logVars, g_running, opens>>

(* The peer sends something, closes its end, or resets the connection.     *)
PeerActs(c) ==
    /\ Running
    /\ \/ /\ c \in Talkers /\ peer[c] = "est" /\ ~unread[c]
          /\ unread' = [unread EXCEPT ![c] = TRUE]
          /\ UNCHANGED peer
       \/ /\ peer[c] = "est"
          /\ peer' = [peer EXCEPT ![c] = "fin"]
          /\ UNCHANGED unread
       \/ /\ peer[c] \in {"est", "fin"}
          /\ peer' = [peer EXCEPT ![c] = IF @ = "est" THEN "rst" ELSE "pipe"]
          /\ UNCHANGED unread
    /\ ready' = Edge(FdsOf(c))
    /\ UNCHANGED <<loopVars, timeVars, clockVars, hidVars, full, tableVars,
                   logVars, g_running, backlog, opens>>

(* The socket buffer towards a peer runs full, and the peer reads again.   *)
PeerStalls(c) ==
    /\ Running /\ c \in MayStall /\ peer[c] = "est" /\ ~full[c]
    /\ full' = [full EXCEPT ![c] = TRUE]
    /\ UNCHANGED <<loopVars, timeVars, clockVars, hidVars, peer, unread,
                   tableVars, logVars, g_running, ready, backlog, opens>>

PeerDrains(c) ==
    /\ Running /\ full[c]
    /\ full' = [full EXCEPT ![c] = FALSE]
    /\ UNCHANGED <<loopVars, timeVars, clockVars, hidVars, peer, unread,
                   tableVars, logVars, g_running, ready, backlog, opens>>

(* The device queues a report.                                             *)
HidReport ==
    /\ Listening /\ ~unplugged /\ produced < MaxReports
    /\ produced' = produced + 1
    /\ \E report \in {produced + 1, Void} : hidQueue' = Append(hidQueue, report)
    /\ ready' = Edge({hidfd})
    /\ UNCHANGED <<loopVars, timeVars, clockVars, unplugged, peerVars,
                   tableVars, logVars, g_running, backlog, opens>>

HidUnplug ==
    /\ Listening /\ ~unplugged /\ opens < MaxOpens
    /\ unplugged' = TRUE
    /\ ready' = Edge({hidfd})
    /\ UNCHANGED <<loopVars, timeVars, clockVars, hidQueue, produced, peerVars,
                   tableVars, logVars, g_running, backlog, opens>>

(* close() of the descriptors C, which takes them out of the epoll set.    *)
(* Closing one that is not open changes nothing.                           *)
Close(C) ==
    LET gone == {fdConn[fd] : fd \in C} IN
    /\ fdConn' = [fd \in FDs |-> IF fd \in C THEN NoConn ELSE fdConn[fd]]
    /\ peer'   = [c \in Conns |-> IF c \in gone THEN "gone" ELSE peer[c]]
    /\ unread' = [c \in Conns |-> c \notin gone /\ unread[c]]
    /\ full'   = [c \in Conns |-> c \notin gone /\ full[c]]
    /\ surplus' = surplus \ gone
    /\ watched' = watched \ C
    /\ ready' = Only(ready, ToSet(ready) \ C)

Init ==
    /\ pc = "wait" /\ g_running = TRUE /\ opens = 1
    /\ events = <<>> /\ cl = 0 /\ clientfds = <<>>
    /\ last_recv = 0 /\ last_heartbeat = 0
    /\ now = 0 /\ waited = 0 /\ held = 0
    /\ watched = {} /\ ready = <<>>
    /\ hidQueue = <<>> /\ unplugged = FALSE /\ produced = 0
    /\ backlog = <<>>
    /\ peer = [c \in Conns |-> "none"]
    /\ unread = [c \in Conns |-> FALSE] /\ full = [c \in Conns |-> FALSE]
    /\ fdConn = [fd \in FDs |-> NoConn]
    /\ forwarded = <<>> /\ received = [c \in Conns |-> <<>>]
    /\ since = [c \in Conns |-> 0]
    /\ surplus = {}
    /\ sentReset = 0 /\ sentHeartbeat = 0

-----------------------------------------------------------------------------
(* The process.                                                            *)

(* epoll_wait returns with up to MAXEVENTS events, or with none when it    *)
(* has waited long enough; then the commands that are due go to the        *)
(* device, if anybody is connected.                                        *)
EventOf(fd) == [fd |-> fd, error |-> ErrorOrHangup(fd),
                of |-> IF fd \in FDs THEN fdConn[fd] ELSE NoConn]

Live == Only(ready, {fd \in ToSet(ready) : Readable(fd)})

(* Mutant: the timers are only looked at when nothing else is to do.       *)
DueWhenIdle(last, interval) ==
    clientfds # <<>> /\ Live = <<>> /\ now - last > interval

Due(last, interval) == clientfds # <<>> /\ now - last > interval

Timers ==
    LET reset     == Due(last_recv, RESET_TIMEOUT)
        heartbeat == Due(last_heartbeat, HEARTBEAT_INTERVAL)
    IN /\ last_recv'      = IF reset THEN now ELSE last_recv
       /\ sentReset'      = IF reset THEN now ELSE sentReset
       /\ last_heartbeat' = IF heartbeat THEN now ELSE last_heartbeat
       /\ sentHeartbeat'  = IF heartbeat THEN now ELSE sentHeartbeat

EpollWait ==
    /\ pc = "wait"
    /\ Live # <<>> \/ waited = PollTimeout
    /\ LET n == Min({Len(Live), MAXEVENTS}) IN
       /\ events' = [i \in 1..n |-> EventOf(Live[i])]
       /\ ready' = SubSeq(Live, n + 1, Len(Live))
    /\ Timers
    /\ pc' = "dispatch"
    /\ waited' = 0 /\ held' = 0
    /\ UNCHANGED <<cl, now, hidVars, peerVars, tableVars, logVars, g_running,
                   backlog, opens>>

(* The loop over the batch is through.                                     *)
NextWait ==
    /\ pc = "dispatch" /\ events = <<>>
    /\ pc' = "wait"
    /\ UNCHANGED <<events, cl, timeVars, clockVars, hidVars, peerVars, tableVars,
                   logVars, g_running, ready, backlog, opens>>

ev == Head(events)

Handling(fds, error) ==
    /\ pc = "dispatch" /\ events # <<>>
    /\ ev.fd \in fds /\ ev.error = error
    /\ events' = Tail(events)

(* The table without fd: the entries behind it are written, one after the  *)
(* other, into its place, so that the last one ends up there.              *)
Without(table, fd) ==
    IF ~Contains(table, fd) THEN table
    ELSE LET i == Min({k \in DOMAIN table : table[k] = fd}) IN
         [k \in 1..Len(table) - 1 |-> IF k = i THEN Last(table) ELSE table[k]]

(* Mutant: the table keeps a descriptor that is closed.                    *)
RemoveClientLeaving(fd) == Close({fd}) /\ UNCHANGED clientfds

RemoveClient(fd) ==
    /\ Close({fd})
    /\ clientfds' = Without(clientfds, fd)

HandleHangup ==
    /\ Handling({sockfd, hidfd}, TRUE)
    /\ pc' = "out"
    /\ UNCHANGED <<cl, timeVars, clockVars, hidVars, peerVars, tableVars, logVars,
                   g_running, ready, backlog, opens>>

HandleClientError ==
    /\ Handling(FDs, TRUE)
    /\ RemoveClient(ev.fd)
    /\ UNCHANGED <<pc, cl, timeVars, clockVars, hidVars, logVars, g_running,
                   backlog, opens>>

(* Mutant: one read, so that an end of file behind data is not seen.       *)
HandleClientOneRead ==
    /\ Handling(FDs, FALSE)
    /\ LET c == fdConn[ev.fd] IN
       IF c = NoConn \/ (peer[c] # "est" /\ ~unread[c])
       THEN RemoveClient(ev.fd)
       ELSE /\ unread' = [unread EXCEPT ![c] = FALSE]
            /\ UNCHANGED <<peer, full, tableVars, ready>>
    /\ UNCHANGED <<pc, cl, timeVars, clockVars, hidVars, logVars, g_running,
                   backlog, opens>>

(* Whatever a client sends is read and discarded until there is no more;   *)
(* at its end, and when the descriptor does not read, the client goes.     *)
HandleClient ==
    /\ Handling(FDs, FALSE)
    /\ LET c == fdConn[ev.fd] IN
       IF c = NoConn \/ peer[c] # "est"
       THEN RemoveClient(ev.fd)
       ELSE /\ unread' = [unread EXCEPT ![c] = FALSE]
            /\ UNCHANGED <<peer, full, tableVars, ready>>
    /\ UNCHANGED <<pc, cl, timeVars, clockVars, hidVars, logVars, g_running,
                   backlog, opens>>

HandleListen ==
    /\ Handling({sockfd}, FALSE)
    /\ pc' = "accept"
    /\ UNCHANGED <<cl, timeVars, clockVars, hidVars, peerVars, tableVars, logVars,
                   g_running, ready, backlog, opens>>

FreeFds == {fd \in FDs : fdConn[fd] = NoConn}

(* Mutant: one client too many.                                            *)
HasRoomForOneMore == Len(clientfds) =< MAXCLIENTS

HasRoom == Len(clientfds) < MAXCLIENTS

(* A connection is accepted and enters the epoll set; with room in the     *)
(* table it becomes a client, and the first one wakes the station up.      *)
Accept ==
    /\ pc = "accept" /\ backlog # <<>> /\ FreeFds # {}
    /\ LET infd == Min(FreeFds)
           c    == Head(backlog)
           room == HasRoom
           wake == room /\ clientfds = <<>>
       IN /\ backlog' = Tail(backlog)
          /\ fdConn' = [fdConn EXCEPT ![infd] = c]
          /\ watched' = watched \union {infd}
          /\ ready' = IF unread[c] \/ peer[c] # "est" THEN Edge({infd}) ELSE ready
          /\ clientfds' = IF room THEN Append(clientfds, infd) ELSE clientfds
          /\ surplus' = IF room THEN surplus ELSE surplus \union {c}
          /\ since' = [since EXCEPT ![c] = IF room THEN Len(forwarded) ELSE @]
          /\ last_recv' = IF wake THEN now ELSE last_recv
          /\ last_heartbeat' = IF wake THEN last_recv' ELSE last_heartbeat
          /\ sentReset' = IF wake THEN now ELSE sentReset
          /\ sentHeartbeat' = IF wake THEN now ELSE sentHeartbeat
    /\ UNCHANGED <<loopVars, clockVars, hidVars, peerVars, forwarded, received,
                   g_running, opens>>

(* fcntl or epoll_ctl fails for the new descriptor: it is closed again.    *)
AcceptAndClose ==
    /\ SetupMayFail
    /\ pc = "accept" /\ backlog # <<>> /\ FreeFds # {}
    /\ backlog' = Tail(backlog)
    /\ peer' = [peer EXCEPT ![Head(backlog)] = "gone"]
    /\ unread' = [unread EXCEPT ![Head(backlog)] = FALSE]
    /\ full' = [full EXCEPT ![Head(backlog)] = FALSE]
    /\ UNCHANGED <<loopVars, timeVars, clockVars, hidVars, tableVars, logVars,
                   g_running, ready, opens>>

(* accept says EAGAIN, or fails for want of a descriptor.                  *)
AcceptEnds ==
    /\ pc = "accept" /\ (backlog = <<>> \/ FreeFds = {})
    /\ pc' = "dispatch"
    /\ UNCHANGED <<events, cl, timeVars, clockVars, hidVars, peerVars, tableVars,
                   logVars, g_running, ready, backlog, opens>>

(* One report is read; last_recv is set whatever the read returned.        *)
HandleHid ==
    /\ Handling({hidfd}, FALSE)
    /\ last_recv' = now
    /\ IF hidQueue # <<>> /\ Head(hidQueue) # Void
       THEN /\ pc' = "forward" /\ cl' = 0
            /\ forwarded' = Append(forwarded, Head(hidQueue))
       ELSE UNCHANGED <<pc, cl, forwarded>>
    /\ hidQueue' = IF hidQueue = <<>> THEN <<>> ELSE Tail(hidQueue)
    /\ UNCHANGED <<last_heartbeat, sentReset, sentHeartbeat, clockVars, unplugged,
                   produced, peerVars, tableVars, received, since, g_running,
                   ready, backlog, opens>>

Forwarding == pc = "forward" /\ cl < Len(clientfds)

(* The connection of clientfds[cl], C's indices starting at 0.             *)
target == fdConn[clientfds[cl + 1]]

(* write_exact finds the socket full, says EAGAIN and tries again.         *)
Spinning == Forwarding /\ target # NoConn /\ ~Broken(target) /\ full[target]

(* write_exact writes the report to one client.                            *)
Write ==
    /\ Forwarding
    /\ target # NoConn /\ ~Broken(target) /\ ~full[target]
    /\ received' = [received EXCEPT ![target] = Append(@, Last(forwarded))]
    /\ cl' = cl + 1
    /\ UNCHANGED <<pc, events, timeVars, clockVars, hidVars, peerVars, tableVars,
                   forwarded, since, g_running, ready, backlog, opens>>

(* Mutant: the loop goes on behind the client that moved into the hole.    *)
WriteFailsSkipping ==
    /\ Forwarding
    /\ target = NoConn \/ peer[target] = "rst"
    /\ RemoveClient(clientfds[cl + 1])
    /\ cl' = cl + 1
    /\ UNCHANGED <<pc, events, timeVars, clockVars, hidVars, logVars, g_running,
                   backlog, opens>>

(* Mutant: the loop starts over with the table as it is now.              *)
WriteFailsRestarting ==
    /\ Forwarding
    /\ target = NoConn \/ peer[target] = "rst"
    /\ RemoveClient(clientfds[cl + 1])
    /\ cl' = 0
    /\ UNCHANGED <<pc, events, timeVars, clockVars, hidVars, logVars, g_running,
                   backlog, opens>>

(* Mutant: the client stays, and is tried again.                           *)
WriteFailsKeeping ==
    /\ Forwarding
    /\ target = NoConn \/ peer[target] = "rst"
    /\ UNCHANGED vars

(* write_exact fails: the client is removed and cl stays.                  *)
WriteFails ==
    /\ Forwarding
    /\ target = NoConn \/ peer[target] = "rst"
    /\ RemoveClient(clientfds[cl + 1])
    /\ UNCHANGED <<loopVars, timeVars, clockVars, hidVars, logVars, g_running,
                   backlog, opens>>

(* The peer has closed and then reset: EPIPE comes with a SIGPIPE, which   *)
(* nobody handles.                                                         *)
WriteKills ==
    /\ Forwarding
    /\ target # NoConn /\ peer[target] = "pipe"
    /\ pc' = "killed"
    /\ Close(FDs)
    /\ clientfds' = <<>> /\ events' = <<>> /\ backlog' = <<>>
    /\ UNCHANGED <<cl, timeVars, clockVars, hidVars, logVars, g_running, opens>>

ForwardEnds ==
    /\ pc = "forward" /\ cl = Len(clientfds)
    /\ pc' = "dispatch"
    /\ UNCHANGED <<events, cl, timeVars, clockVars, hidVars, peerVars, tableVars,
                   logVars, g_running, ready, backlog, opens>>

(* SIGINT or SIGTERM: epoll_wait fails with EINTR; anywhere else only the  *)
(* flag is set, which the event loop does not look at.                     *)
Terminate ==
    /\ Signals /\ Running
    /\ g_running' = FALSE
    /\ pc' = IF pc = "wait" THEN "out" ELSE pc
    /\ UNCHANGED <<events, cl, timeVars, clockVars, hidVars, peerVars, tableVars,
                   logVars, ready, backlog, opens>>

(* The label out, and the close calls of main: those in the table go, the  *)
(* connections accepted with the table full stay open, and the ones still  *)
(* in the accept queue go with the listening socket.                       *)
Out ==
    /\ pc = "out"
    /\ LET table == {clientfds[i] : i \in DOMAIN clientfds}
           gone  == {fdConn[fd] : fd \in table} \union ToSet(backlog)
       IN /\ fdConn' = [fd \in FDs |-> IF fd \in table THEN NoConn ELSE fdConn[fd]]
          /\ peer'   = [c \in Conns |-> IF c \in gone THEN "gone" ELSE peer[c]]
          /\ unread' = [c \in Conns |-> c \notin gone /\ unread[c]]
          /\ full'   = [c \in Conns |-> c \notin gone /\ full[c]]
    /\ pc' = "down"
    /\ clientfds' = <<>> /\ watched' = {}
    /\ events' = <<>> /\ ready' = <<>> /\ backlog' = <<>>
    /\ UNCHANGED <<cl, timeVars, clockVars, hidVars, surplus, logVars, g_running,
                   opens>>

(* main goes round again: the device and the socket are opened anew.       *)
Reopen ==
    /\ pc = "down" /\ g_running /\ opens < MaxOpens
    /\ opens' = opens + 1
    /\ pc' = "wait" /\ waited' = 0
    /\ hidQueue' = <<>> /\ unplugged' = FALSE
    /\ last_recv' = 0 /\ last_heartbeat' = 0
    /\ UNCHANGED <<events, cl, sentReset, sentHeartbeat, now, held, produced,
                   peerVars, tableVars, logVars, g_running, ready, backlog>>

Exit ==
    /\ pc = "down" /\ ~g_running
    /\ pc' = "exited"
    /\ Close(FDs)
    /\ UNCHANGED <<clientfds, events, cl, timeVars, clockVars, hidVars, logVars,
                   g_running, backlog, opens>>

(* A second passes while the process sits in epoll_wait with nothing to    *)
(* report, or spins in write_exact for a client that does not read.        *)
Tick ==
    /\ now < MaxTime
    /\ now' = now + 1
    /\ \/ /\ pc = "wait" /\ Live = <<>> /\ waited < PollTimeout
          /\ waited' = waited + 1 /\ UNCHANGED held
       \/ /\ Spinning
          /\ held' = held + 1 /\ UNCHANGED waited
    /\ UNCHANGED <<loopVars, timeVars, hidVars, peerVars, tableVars, logVars,
                   g_running, ready, backlog, opens>>

Process ==
    \/ EpollWait \/ NextWait
    \/ HandleHangup \/ HandleClientError \/ HandleClient
    \/ HandleListen \/ Accept \/ AcceptAndClose \/ AcceptEnds
    \/ HandleHid \/ Write \/ WriteFails \/ WriteKills \/ ForwardEnds
    \/ Out \/ Reopen \/ Exit

Environment ==
    \/ \E c \in Conns : Connect(c) \/ PeerActs(c) \/ PeerStalls(c)
    \/ HidReport \/ HidUnplug
    \/ Terminate

Next ==
    \/ Process
    \/ Environment
    \/ \E c \in Conns : PeerDrains(c)
    \/ Tick

Spec == Init /\ [][Next]_vars

(* The process is scheduled, and a peer that is slow reads again.  A write *)
(* is tried so often that it meets a moment at which the socket has room.  *)
FairSpec ==
    /\ Spec
    /\ WF_vars(Process) /\ SF_vars(Write)
    /\ \A c \in Conns : WF_vars(PeerDrains(c))

-----------------------------------------------------------------------------

TypeOK ==
    /\ pc \in {"wait", "dispatch", "accept", "forward", "out", "down",
               "exited", "killed"}
    /\ g_running \in BOOLEAN /\ unplugged \in BOOLEAN
    /\ events \in Seq([fd : {sockfd, hidfd} \union FDs, error : BOOLEAN,
                       of : Conns \union {NoConn}])
    /\ clientfds \in Seq(FDs) /\ Len(clientfds) =< MAXCLIENTS
    /\ cl \in 0..MAXCLIENTS
    /\ {last_recv, last_heartbeat, sentReset, sentHeartbeat} \subseteq 0..now
    /\ now \in 0..MaxTime /\ waited \in 0..PollTimeout /\ held \in 0..now
    /\ ready \in Seq({sockfd, hidfd} \union FDs) /\ watched \subseteq FDs
    /\ produced \in 0..MaxReports /\ hidQueue \in Seq(0..MaxReports)
    /\ backlog \in Seq(Conns)
    /\ peer \in [Conns -> PeerStates]
    /\ unread \in [Conns -> BOOLEAN] /\ full \in [Conns -> BOOLEAN]
    /\ fdConn \in [FDs -> Conns \union {NoConn}]
    /\ opens \in 1..MaxOpens
    /\ forwarded \in Seq(1..MaxReports)
    /\ received \in [Conns -> Seq(1..MaxReports)]
    /\ since \in [Conns -> 0..MaxReports]
    /\ surplus \subseteq Conns

InTable == {clientfds[i] : i \in DOMAIN clientfds}

Clients == {fdConn[fd] : fd \in InTable}

(* The table and the open descriptors agree: no entry is double or stale,  *)
(* no two descriptors are one connection, and a connection that is open    *)
(* without being in the table was accepted when the table was full         *)
(* (forwarder.c:164-179, 263-290, 349-351).                                *)
ClientTable ==
    /\ \A i, j \in DOMAIN clientfds : clientfds[i] = clientfds[j] => i = j
    /\ NoConn \notin Clients
    /\ \A fd, gd \in FDs : fdConn[fd] = fdConn[gd] => fd = gd \/ fdConn[fd] = NoConn
    /\ {fdConn[fd] : fd \in FDs} \ {NoConn} = Clients \union surplus
    /\ Clients \intersect surplus = {}
    /\ \A c \in Clients : peer[c] \notin {"none", "gone"}

(* While a report is forwarded the clients before cl have it and the       *)
(* others do not; else every client has exactly the reports since it       *)
(* joined, whoever left in the middle of the loop (forwarder.c:300-307).   *)
Served ==
    \A i \in DOMAIN clientfds :
        LET c    == fdConn[clientfds[i]]
            owed == SubSeq(forwarded, since[c] + 1, Len(forwarded))
        IN received[c] = IF pc = "forward" /\ i > cl THEN Front(owed) ELSE owed

(* The promise of Broadcast: nobody misses, repeats or reorders a report,  *)
(* and no report overtakes another on its way to somebody else.            *)
B == INSTANCE Broadcast WITH log <- forwarded, members <- Clients
ImplementsBroadcast == B!Spec

(* No edge is lost: when the loop waits and nothing is ready, nothing was  *)
(* left in the accept queue, unread, or closed and not noticed             *)
(* (forwarder.c:244-260, 311-336).                                         *)
EdgesServed ==
    pc = "wait" /\ ready = <<>> =>
        /\ backlog = <<>>
        /\ \A fd \in watched : peer[fdConn[fd]] = "est" /\ ~unread[fdConn[fd]]

(* As long as anybody is connected the device gets a heartbeat at least    *)
(* every HEARTBEAT_INTERVAL, and a reset when it says nothing for          *)
(* RESET_TIMEOUT.  Both may be late by one wait and by what the loop was   *)
(* held up by clients that do not read since the timers were looked at,    *)
(* and by no more: whatever was held up is made good at the next look      *)
(* (forwarder.c:111-131, 216-228, 283-288).                                *)
KeptAwake ==
    clientfds # <<>> /\ Listening =>
        /\ now - sentHeartbeat =< HEARTBEAT_INTERVAL + PollTimeout + held
        /\ now - last_recv =< RESET_TIMEOUT + PollTimeout + held
        /\ last_recv >= sentReset

(* A client that goes away leaves the epoll set, even while the forwarder  *)
(* is in the middle of a report (forwarder.c:233-240, 300-343).            *)
ClosedClientsLeave ==
    \A c \in Conns :
        peer[c] \in {"fin", "rst", "pipe"} /\ FdsOf(c) # {} ~> FdsOf(c) = {}

(* "we must read whatever data is available completely, as we are running  *)
(* in edge-triggered mode": the same for the device.                       *)
HidDrained == pc = "wait" /\ ready = <<>> => hidQueue = <<>>

(* "Closing the descriptor will make epoll remove it from the set of       *)
(* descriptors which are monitored": no event of a connection that was     *)
(* closed is taken for one of the next connection on the same descriptor.  *)
EventsAreCurrent ==
    \A i \in DOMAIN events :
        LET fd == events[i].fd IN
        fd \in FDs => fdConn[fd] \in {NoConn, events[i].of}
=============================================================================
