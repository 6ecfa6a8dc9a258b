----------------------- MODULE CollectorSessionProofs -----------------------
(***************************************************************************)
(* That a connection of the collector lives, decodes and ends as main      *)
(* relies on it, for all values of the four delays.  The proofs rest on    *)
(* what the queue of the io_service can hold: the socket has one operation *)
(* outstanding at a time, and its completions and the timer's come before  *)
(* "task" in the queue, so that none of them can be there twice.           *)
(***************************************************************************)
EXTENDS CollectorSession, TLAPS

Kinds == Handlers \union {"task"}

(* The handlers that wait, and that none waits twice.                      *)
Queued == ToSet(queue)

Apart(q) == \A i, j \in DOMAIN q : q[i] = q[j] => i = j

(* What follows "task" has been posted by a handler or by main, and a wait *)
(* that was cancelled by one read is reported before the next read.        *)
InOrder(q) ==
    \A i, j \in DOMAIN q : i < j =>
        /\ q[i] = "task" => q[j] \in {"cancelled", "close"}
        /\ q[i] = "read" => q[j] # "cancelled"

(* A handler exists and is not closed.                                     *)
Live == pc \in {"start", "wait", "join"} /\ ~stopped

(* The thread exists while main waits for it.                              *)
Threads ==
    /\ thread = "none" <=> pc \notin {"wait", "join"}
    /\ pc \in {"start", "wait", "join"} => (m_active <=> ~stopped)
    /\ thread = "decoding" => ~stopped
    /\ pc \in {"wait", "join", "sleep"} => masked
    /\ ~running => pc \in {"join", "exit"}
    /\ thread = "finished" /\ pc = "wait" => stopped
    /\ pc = "join" => stopped \/ thread = "finished" \/ "close" \in Queued

(* The stations of the one operation of the socket: at work in the kernel, *)
(* completed and queued, or in the hands of readComplete.                  *)
Stations == {"connecting", "connected", "connectFailed",
             "reading", "read", "readFailed", "decoding"}

OnlyAt(station) ==
    /\ Connecting <=> station = "connecting"
    /\ \A kind \in {"connected", "connectFailed", "read", "readFailed"} :
          kind \in Queued <=> station = kind
    /\ reading <=> station = "reading"
    /\ thread = "decoding" <=> station = "decoding"

OneOperation == \E s \in Stations : OnlyAt(s)

(* The watchdog is awake from the connect to its expiry.                   *)
Unwatched == Connecting \/ "connected" \in Queued \/ "connectFailed" \in Queued

Watched ==
    IF Unwatched
    THEN m_watchdog = Off /\ {"expired", "cancelled"} \intersect Queued = {}
    ELSE m_watchdog # Off \/ "expired" \in Queued

Service ==
    /\ pc \in {"start", "wait"} => "close" \notin Queued
    /\ pc = "start" => queue = <<"task">>
    /\ Live => /\ InOrder(queue)
               /\ "task" \in Queued /\ "aborted" \notin Queued
               /\ OneOperation /\ Watched

(* The watchdog expires after a silence of its time or in the course of a  *)
(* decoding.  Bytes that are there cut its time short only until they are  *)
(* read.                                                                   *)
Silence ==
    /\ Live /\ m_watchdog # Off /\ ~data => m_watchdog + silence >= Watchdog
    /\ Live /\ m_watchdog = 0 => silent \/ overdue
    /\ Live /\ "expired" \in Queued => silent \/ overdue
    /\ expired => (silent \/ overdue) /\ ~Live

(* A signal that is not obeyed yet is taken by the next sigtimedwait, for  *)
(* which it waits at most for the end of a sleep.                          *)
Obedience ==
    /\ running /\ sinceSignal # Off => signal
    /\ pc = "sleep" => mainTimer =< RetryDelay
    /\ ~slow =>
          /\ sinceSignal =< RetryDelay
          /\ pc = "sleep" => sinceSignal + mainTimer =< RetryDelay
          /\ pc = "join" /\ running => sinceSignal =< 0

Longest == IF Watchdog >= ConnectTimeout THEN Watchdog ELSE ConnectTimeout

(* What is left of Patience in each part of the loop.                      *)
Contact ==
    /\ connection = "connecting" => connectTimer > 0
    /\ pc = "wait" => mainTimer =< PollTimeout
    /\ ~slow /\ running =>
          /\ Live /\ Connecting => sinceContact + connectTimer =< ConnectTimeout
          /\ Live /\ m_watchdog # Off => sinceContact + m_watchdog =< Watchdog
          /\ Live => sinceContact =< Longest
          /\ pc = "start" => sinceContact = 0
          /\ pc = "wait" /\ stopped => sinceContact + mainTimer =< Longest + PollTimeout
          /\ pc = "join" => sinceContact =< Longest + PollTimeout
          /\ pc = "sleep" => sinceContact + mainTimer =< Patience
          /\ pc = "create" => sinceContact =< Patience

(* TypeOK in two parts.                                                    *)
PlainTypes ==
    /\ pc \in {"create", "start", "wait", "join", "sleep", "exit", "killed"}
    /\ running \in BOOLEAN /\ masked \in BOOLEAN /\ signal \in BOOLEAN
    /\ stopped \in BOOLEAN /\ m_active \in BOOLEAN
    /\ data \in BOOLEAN /\ reading \in BOOLEAN
    /\ silent \in BOOLEAN /\ overdue \in BOOLEAN
    /\ expired \in BOOLEAN /\ slow \in BOOLEAN
    /\ thread \in {"none", "reactor", "decoding", "finished"}
    /\ connection \in {"connecting", "accepted", "refused", "up", "lost", "closed"}

Timers ==
    /\ mainTimer \in 0..Max({PollTimeout, RetryDelay})
    /\ connectTimer \in 0..ConnectTimeout
    /\ m_watchdog \in {Off} \union 0..Watchdog
    /\ silence \in 0..Watchdog + 1
    /\ sinceSignal \in {Off} \union 0..RetryDelay + 1
    /\ sinceContact \in 0..Patience + 1

QueueType == queue \in Seq(Kinds) /\ Apart(queue)

Inv == PlainTypes /\ Timers /\ QueueType /\ Threads /\ Service

-----------------------------------------------------------------------------
(* The queue.                                                              *)

LEMMA TailOf ==
    ASSUME NEW S, NEW q \in Seq(S), q # <<>>, Apart(q)
    PROVE  /\ Tail(q) \in Seq(S) /\ Apart(Tail(q))
           /\ ToSet(Tail(q)) = ToSet(q) \ {Head(q)} /\ Head(q) \in ToSet(q)
           /\ InOrder(q) => InOrder(Tail(q))
<1>1. /\ Tail(q) \in Seq(S) /\ Len(Tail(q)) = Len(q) - 1 /\ Len(q) \in Nat \ {0}
      /\ Head(q) = q[1] /\ DOMAIN q = 1..Len(q) /\ DOMAIN Tail(q) = 1..Len(q) - 1
      /\ \A i \in 1..Len(q) - 1 : Tail(q)[i] = q[i + 1]
  OBVIOUS
<1>2. Apart(Tail(q))
  BY <1>1 DEF Apart
<1>3. \A x : x \in ToSet(Tail(q)) <=> x \in ToSet(q) /\ x # Head(q)
  <2>. SUFFICES ASSUME NEW x PROVE x \in ToSet(Tail(q)) <=> x \in ToSet(q) /\ x # Head(q)
    OBVIOUS
  <2>1. ASSUME x \in ToSet(Tail(q)) PROVE x \in ToSet(q) /\ x # Head(q)
    <3>1. PICK i \in 1..Len(q) - 1 : x = q[i + 1]
      BY <1>1, <2>1 DEF ToSet
    <3>2. i + 1 \in DOMAIN q /\ 1 \in DOMAIN q /\ i + 1 # 1
      BY <1>1
    <3>. QED
      BY <1>1, <3>1, <3>2 DEF ToSet, Apart
  <2>2. ASSUME x \in ToSet(q), x # Head(q) PROVE x \in ToSet(Tail(q))
    <3>1. PICK i \in 1..Len(q) : x = q[i]
      BY <1>1, <2>2 DEF ToSet
    <3>2. i - 1 \in 1..Len(q) - 1 /\ Tail(q)[i - 1] = q[i]
      BY <1>1, <2>2, <3>1
    <3>. QED
      BY <1>1, <3>1, <3>2 DEF ToSet
  <2>. QED
    BY <2>1, <2>2
<1>4. ToSet(Tail(q)) = ToSet(q) \ {Head(q)}
  BY <1>3
<1>5. Head(q) \in ToSet(q)
  BY <1>1 DEF ToSet
<1>6. InOrder(q) => InOrder(Tail(q))
  BY <1>1 DEF InOrder
<1>. QED
  BY <1>1, <1>2, <1>4, <1>5, <1>6

(* Something that is not there yet, or nothing, joins the queue.           *)
LEMMA Joined ==
    ASSUME NEW S, NEW q \in Seq(S), Apart(q), NEW x,
           x = <<>> \/ \E k \in S \ ToSet(q) : x = <<k>>
    PROVE  /\ q \o x \in Seq(S) /\ Apart(q \o x)
           /\ ToSet(q \o x) = ToSet(q) \union ToSet(x)
           /\ InOrder(q)
              /\ ("task" \in ToSet(q) => ToSet(x) \subseteq {"cancelled", "close"})
              /\ ("read" \in ToSet(q) => "cancelled" \notin ToSet(x))
              => InOrder(q \o x)
<1>1. CASE x = <<>>
  <2>1. q \o x = q /\ ToSet(x) = {}
    BY <1>1 DEF ToSet
  <2>. QED
    BY <2>1
<1>2. ASSUME NEW k \in S \ ToSet(q), x = <<k>>
      PROVE  /\ q \o x \in Seq(S) /\ Apart(q \o x)
             /\ ToSet(q \o x) = ToSet(q) \union ToSet(x)
             /\ InOrder(q)
                /\ ("task" \in ToSet(q) => ToSet(x) \subseteq {"cancelled", "close"})
                /\ ("read" \in ToSet(q) => "cancelled" \notin ToSet(x))
                => InOrder(q \o x)
  <2>. DEFINE n == Len(q) + 1
  <2>1. /\ q \o x \in Seq(S) /\ DOMAIN (q \o x) = 1..n /\ DOMAIN q = 1..Len(q)
        /\ (q \o x)[n] = k /\ \A i \in 1..Len(q) : (q \o x)[i] = q[i]
        /\ Len(q) \in Nat
    BY <1>2
  <2>2. ToSet(x) = {k}
    BY <1>2 DEF ToSet
  <2>3. \A i \in 1..Len(q) : q[i] \in ToSet(q) /\ q[i] # k
    BY <1>2, <2>1 DEF ToSet
  <2>4. \A i \in 1..n : i = n \/ i \in 1..Len(q)
    BY <2>1
  <2>. HIDE DEF n
  <2>5. Apart(q \o x)
    BY <2>1, <2>3, <2>4 DEF Apart
  <2>6. ToSet(q \o x) = ToSet(q) \union {k}
    <3>1. \A y : y \in ToSet(q \o x) <=> \E i \in 1..n : y = (q \o x)[i]
      BY <2>1 DEF ToSet
    <3>2. \A y : y \in ToSet(q) <=> \E i \in 1..Len(q) : y = q[i]
      BY <2>1 DEF ToSet
    <3>3. n \in 1..n /\ \A i \in 1..Len(q) : i \in 1..n
      BY <2>1 DEF n
    <3>. QED
      BY <2>1, <2>4, <3>1, <3>2, <3>3
  <2>7. ASSUME InOrder(q),
               "task" \in ToSet(q) => k \in {"cancelled", "close"},
               "read" \in ToSet(q) => k # "cancelled"
        PROVE  InOrder(q \o x)
    <3>. SUFFICES ASSUME NEW i \in 1..n, NEW j \in 1..n, i < j
                  PROVE  /\ (q \o x)[i] = "task" => (q \o x)[j] \in {"cancelled", "close"}
                         /\ (q \o x)[i] = "read" => (q \o x)[j] # "cancelled"
      BY <2>1 DEF InOrder
    <3>1. i \in 1..Len(q)
      BY <2>1 DEF n
    <3>2. CASE j = n
      BY <2>1, <2>3, <2>7, <3>1, <3>2
    <3>3. CASE j \in 1..Len(q)
      BY <2>1, <2>7, <3>1, <3>3 DEF InOrder
    <3>. QED
      BY <2>4, <3>2, <3>3
  <2>. QED
    BY <2>1, <2>2, <2>5, <2>6, <2>7
<1>. QED
  BY <1>1, <1>2

LEMMA AppendIsJoin ==
    ASSUME NEW S, NEW q \in Seq(S), NEW k \in S
    PROVE  Append(q, k) = q \o <<k>>
OBVIOUS

LEMMA Singles ==
    /\ ToSet(<<>>) = {}
    /\ \A x : ToSet(<<x>>) = {x}
BY DEF ToSet

LEMMA TypeParts == TypeOK <=> PlainTypes /\ Timers /\ QueueType
BY DEF TypeOK, PlainTypes, Timers, QueueType, Apart, Kinds

LEMMA MaxOfTwo ==
    ASSUME NEW a \in Int, NEW b \in Int
    PROVE  Max({a, b}) = IF a >= b THEN a ELSE b
<1>. DEFINE m == IF a >= b THEN a ELSE b
<1>1. m \in {a, b} /\ \A y \in {a, b} : m >= y
  OBVIOUS
<1>2. \A x \in {a, b} : (\A y \in {a, b} : x >= y) => x = m
  OBVIOUS
<1>. HIDE DEF m
<1>3. Max({a, b}) = m
  BY <1>1, <1>2 DEF Max
<1>. QED
  BY <1>3 DEF m

LEMMA Delays ==
    /\ Watchdog \in Nat /\ Watchdog > 0 /\ PollTimeout \in Nat /\ PollTimeout > 0
    /\ RetryDelay \in Nat /\ RetryDelay > 0
    /\ ConnectTimeout \in Nat /\ ConnectTimeout > 0
    /\ Max({PollTimeout, RetryDelay})
          = IF PollTimeout >= RetryDelay THEN PollTimeout ELSE RetryDelay
    /\ Patience = Longest + PollTimeout + RetryDelay
    /\ Longest \in Nat /\ Longest >= Watchdog /\ Longest >= ConnectTimeout
<1>1. /\ Watchdog \in Nat /\ Watchdog > 0 /\ PollTimeout \in Nat /\ PollTimeout > 0
      /\ RetryDelay \in Nat /\ RetryDelay > 0
      /\ ConnectTimeout \in Nat /\ ConnectTimeout > 0
  BY SessionAssumption
<1>2. /\ Max({PollTimeout, RetryDelay})
            = IF PollTimeout >= RetryDelay THEN PollTimeout ELSE RetryDelay
      /\ Max({Watchdog, ConnectTimeout}) = Longest
  BY <1>1, MaxOfTwo DEF Longest
<1>. QED
  BY <1>1, <1>2 DEF Patience, Longest

-----------------------------------------------------------------------------
(* Types.                                                                  *)

USE DEF mainVars, serviceVars, socketVars, historyVars

LEMMA PlainStep == PlainTypes /\ [Next]_vars => PlainTypes'
<1>. SUFFICES ASSUME PlainTypes, [Next]_vars PROVE PlainTypes'
  OBVIOUS
<1>1. CASE RunReactor
  BY <1>1 DEF PlainTypes, RunReactor
<1>2. CASE HandleConnect
  <2>1. /\ reading' \in BOOLEAN /\ silent' \in BOOLEAN /\ overdue' \in BOOLEAN
        /\ UNCHANGED <<pc, running, masked, signal, thread, stopped, m_active,
                       connection, data, expired, slow>>
    BY <1>2 DEF HandleConnect
  <2>. QED
    BY <2>1 DEF PlainTypes
<1>3. CASE HandleErrorOrClose
  BY <1>3 DEF PlainTypes, HandleErrorOrClose, DoClose
<1>4. CASE ReadComplete
  <2>1. /\ data' \in BOOLEAN /\ thread' = "decoding"
        /\ UNCHANGED <<pc, running, masked, signal, stopped, m_active,
                       connection, reading, silent, overdue, expired, slow>>
    BY <1>4 DEF ReadComplete
  <2>. QED
    BY <2>1 DEF PlainTypes
<1>5. CASE ReadStart
  BY <1>5 DEF PlainTypes, ReadStart
<1>6. CASE WatchdogTimeout
  BY <1>6 DEF PlainTypes, WatchdogTimeout, DoClose
<1>7. CASE WatchdogCancelled
  BY <1>7 DEF PlainTypes, WatchdogCancelled
<1>8. CASE RunReturns
  BY <1>8 DEF PlainTypes, RunReturns
<1>9. CASE Create
  BY <1>9 DEF PlainTypes, Create
<1>10. CASE StartThread
  BY <1>10 DEF PlainTypes, StartThread
<1>11. CASE SignalTaken
  <2>1. /\ signal' \in BOOLEAN /\ running' \in BOOLEAN /\ pc' = "join"
        /\ UNCHANGED <<masked, thread, stopped, m_active, connection, data, reading,
                       silent, overdue, expired, slow>>
    BY <1>11 DEF SignalTaken
  <2>. QED
    BY <2>1 DEF PlainTypes
<1>12. CASE PollTimesOut
  BY <1>12 DEF PlainTypes, PollTimesOut
<1>13. CASE Join
  BY <1>13 DEF PlainTypes, Join
<1>14. CASE WakeUp
  BY <1>14 DEF PlainTypes, WakeUp
<1>15. CASE PeerAnswers \/ PeerSends \/ PeerCloses
  <2>1. CASE PeerAnswers
    BY <2>1 DEF PlainTypes, PeerAnswers
  <2>2. CASE PeerSends
    BY <2>2 DEF PlainTypes, PeerSends
  <2>3. CASE PeerCloses
    BY <2>3 DEF PlainTypes, PeerCloses
  <2>. QED
    BY <1>15, <2>1, <2>2, <2>3
<1>16. CASE Signal
  <2>1. UNCHANGED <<running, masked, thread, stopped, m_active, connection, data,
                    reading, silent, overdue, expired, slow>>
    BY <1>16 DEF Signal
  <2>2. pc' \in {pc, "killed"}
    BY <1>16 DEF Signal
  <2>3. signal' \in BOOLEAN
    BY <1>16 DEF PlainTypes, Signal
  <2>. QED
    BY <2>1, <2>2, <2>3 DEF PlainTypes
<1>17. CASE Tick
  BY <1>17 DEF PlainTypes, Tick
<1>18. CASE UNCHANGED vars
  BY <1>18 DEF PlainTypes, vars
<1>. QED
  BY <1>1, <1>2, <1>3, <1>4, <1>5, <1>6, <1>7, <1>8, <1>9, <1>10, <1>11, <1>12,
     <1>13, <1>14, <1>15, <1>16, <1>17, <1>18
  DEF Next, MainSteps, ThreadSteps

LEMMA Bounds ==
    /\ Watchdog \in Nat /\ ConnectTimeout \in Nat /\ RetryDelay \in Nat
    /\ Max({PollTimeout, RetryDelay}) \in Nat /\ Patience \in Nat
    /\ PollTimeout \in 0..Max({PollTimeout, RetryDelay})
    /\ RetryDelay \in 0..Max({PollTimeout, RetryDelay})
<1>1. /\ Watchdog \in Nat /\ ConnectTimeout \in Nat /\ RetryDelay \in Nat
      /\ Patience \in Nat
  BY Delays
<1>2. /\ Max({PollTimeout, RetryDelay}) \in Nat
      /\ PollTimeout \in 0..Max({PollTimeout, RetryDelay})
      /\ RetryDelay \in 0..Max({PollTimeout, RetryDelay})
  BY Delays
<1>. QED
  BY <1>1, <1>2

LEMMA TimersStep == Timers /\ [Next]_vars => Timers'
<1>. SUFFICES ASSUME Timers, [Next]_vars PROVE Timers'
  OBVIOUS
<1>1. CASE RunReactor
  BY <1>1, Bounds DEF Timers, RunReactor
<1>2. CASE HandleConnect
  BY <1>2, Bounds DEF Timers, HandleConnect, ResetWatchdog
<1>3. CASE HandleErrorOrClose
  BY <1>3 DEF Timers, HandleErrorOrClose, DoClose
<1>4. CASE ReadComplete
  BY <1>4, Bounds DEF Timers, ReadComplete, ResetWatchdog
<1>5. CASE ReadStart
  BY <1>5 DEF Timers, ReadStart
<1>6. CASE WatchdogTimeout
  BY <1>6 DEF Timers, WatchdogTimeout, DoClose
<1>7. CASE WatchdogCancelled
  BY <1>7 DEF Timers, WatchdogCancelled
<1>8. CASE RunReturns
  BY <1>8 DEF Timers, RunReturns
<1>9. CASE Create
  BY <1>9, Bounds DEF Timers, Create
<1>10. CASE StartThread
  BY <1>10, Bounds DEF Timers, StartThread
<1>11. CASE SignalTaken
  BY <1>11, Bounds DEF Timers, SignalTaken
<1>12. CASE PollTimesOut
  BY <1>12, Bounds DEF Timers, PollTimesOut
<1>13. CASE Join
  BY <1>13, Bounds DEF Timers, Join
<1>14. CASE WakeUp
  BY <1>14, Bounds DEF Timers, WakeUp
<1>15. CASE PeerAnswers \/ PeerSends \/ PeerCloses
  <2>1. CASE PeerAnswers \/ PeerCloses
    BY <2>1 DEF Timers, PeerAnswers, PeerCloses
  <2>2. CASE PeerSends
    <3>1. /\ silence' = 0
          /\ UNCHANGED <<mainTimer, connectTimer, m_watchdog, sinceSignal, sinceContact>>
      BY <2>2 DEF PeerSends
    <3>. QED
      BY <3>1, Bounds DEF Timers
  <2>. QED
    BY <1>15, <2>1, <2>2
<1>16. CASE Signal
  BY <1>16, Bounds DEF Timers, Signal, Off
<1>17. CASE Tick
  BY <1>17, Bounds DEF Timers, Tick, Down, Up, Off
<1>18. CASE UNCHANGED vars
  BY <1>18 DEF Timers, vars
<1>. QED
  BY <1>1, <1>2, <1>3, <1>4, <1>5, <1>6, <1>7, <1>8, <1>9, <1>10, <1>11, <1>12,
     <1>13, <1>14, <1>15, <1>16, <1>17, <1>18
  DEF Next, MainSteps, ThreadSteps

-----------------------------------------------------------------------------
(* What a handler finds, and what it leaves behind.                        *)

LEMMA Taken ==
    ASSUME Inv, NEW kind, AtHead(kind)
    PROVE  /\ pc \in {"wait", "join"} /\ thread = "reactor" /\ Live
           /\ ~stopped /\ m_active /\ kind \in Queued
           /\ Tail(queue) \in Seq(Kinds) /\ Apart(Tail(queue)) /\ InOrder(Tail(queue))
           /\ ToSet(Tail(queue)) = Queued \ {kind}
           /\ "task" \in Queued /\ "aborted" \notin Queued
           /\ OneOperation /\ Watched
           /\ kind = "task" => Queued \subseteq {"task", "cancelled", "close"}
           /\ kind = "read" => "cancelled" \notin Queued
<1>1. thread = "reactor" /\ ~stopped /\ queue # <<>> /\ Head(queue) = kind
  BY DEF AtHead
<1>2. pc \in {"wait", "join"}
  BY <1>1 DEF Inv, Threads
<1>3. Live
  BY <1>1, <1>2 DEF Live
<1>4. m_active
  BY <1>1, <1>2 DEF Inv, Threads
<1>5. /\ InOrder(queue) /\ "task" \in Queued /\ "aborted" \notin Queued
      /\ OneOperation /\ Watched
  BY <1>3 DEF Inv, Service
<1>6. /\ Tail(queue) \in Seq(Kinds) /\ Apart(Tail(queue)) /\ InOrder(Tail(queue))
      /\ ToSet(Tail(queue)) = Queued \ {kind} /\ kind \in Queued
  BY <1>1, <1>5, TailOf DEF Inv, QueueType, Queued
<1>7. \A k \in Queued : k # kind => \E j \in DOMAIN queue : 1 < j /\ queue[j] = k
  <2>. SUFFICES ASSUME NEW k \in Queued, k # kind
                PROVE  \E j \in DOMAIN queue : 1 < j /\ queue[j] = k
    OBVIOUS
  <2>1. queue \in Seq(Kinds) /\ queue[1] = kind
    BY <1>1 DEF Inv, QueueType
  <2>2. PICK j \in DOMAIN queue : queue[j] = k
    BY DEF Queued, ToSet
  <2>3. 1 < j
    BY <2>1, <2>2
  <2>. QED
    BY <2>2, <2>3
<1>8. 1 \in DOMAIN queue /\ queue[1] = kind
  BY <1>1 DEF Inv, QueueType
<1>9. kind = "task" => Queued \subseteq {"task", "cancelled", "close"}
  BY <1>5, <1>7, <1>8 DEF InOrder
<1>10. kind = "read" => "cancelled" \notin Queued
  BY <1>5, <1>7, <1>8 DEF InOrder
<1>. QED
  BY <1>1, <1>2, <1>3, <1>4, <1>5, <1>6, <1>9, <1>10

(* A handler that closes the connection.                                   *)
LEMMA Closed ==
    ASSUME Inv, NEW kind, AtHead(kind), DoClose(Tail(queue)),
           UNCHANGED <<mainVars, thread>>
    PROVE  QueueType' /\ Threads' /\ Service'
<1>1. Aborted = <<>> \/ Aborted = <<"aborted">>
  BY DEF Aborted
<1>2. queue' = Tail(queue) \o Aborted /\ stopped' /\ ~m_active'
  BY DEF DoClose
<1>3. "aborted" \in Kinds \ ToSet(Tail(queue))
  BY Taken DEF Kinds, Handlers
<1>4. /\ queue' \in Seq(Kinds) /\ Apart(queue')
      /\ ToSet(queue') = ToSet(Tail(queue)) \union ToSet(Aborted)
  <2>. DEFINE rest == Tail(queue)
  <2>1. rest \in Seq(Kinds) /\ Apart(rest) /\ queue' = rest \o Aborted
    BY <1>2, Taken
  <2>2. Aborted = <<>> \/ \E k \in Kinds \ ToSet(rest) : Aborted = <<k>>
    BY <1>1, <1>3
  <2>. HIDE DEF rest
  <2>3. /\ queue' \in Seq(Kinds) /\ Apart(queue')
        /\ ToSet(queue') = ToSet(rest) \union ToSet(Aborted)
    BY <2>1, <2>2, Joined
  <2>. QED
    BY <2>3 DEF rest
<1>5. Queued' \subseteq Queued \union {"aborted"}
  BY <1>1, <1>4, Taken, Singles DEF Queued
<1>6. QueueType'
  BY <1>4 DEF QueueType
<1>7. Threads'
  BY <1>2, Taken DEF Inv, Threads
<1>8. Service'
  BY <1>2, <1>5, Taken DEF Inv, Service, Live
<1>. QED
  BY <1>6, <1>7, <1>8

LEMMA HandleConnectStep ==
    ASSUME Inv, HandleConnect
    PROVE  /\ QueueType' /\ Threads' /\ Service'
           /\ "expired" \in Queued' => "expired" \in Queued
<1>1. AtHead("connected")
  BY DEF HandleConnect
<1>2. OnlyAt("connected")
  BY <1>1, Taken DEF OneOperation, OnlyAt, Stations
<1>3. m_watchdog = Off /\ {"expired", "cancelled"} \intersect Queued = {}
  BY <1>1, Taken DEF Watched, Unwatched
<1>4. /\ queue' = Tail(queue) /\ m_watchdog' = Watchdog /\ reading'
      /\ UNCHANGED <<pc, running, masked, thread, stopped, m_active, connection>>
  BY <1>3 DEF HandleConnect, ResetWatchdog
<1>5. Queued' = Queued \ {"connected"}
  BY <1>1, <1>4, Taken DEF Queued
<1>6. OnlyAt("reading")'
  BY <1>2, <1>4, <1>5 DEF OnlyAt, Connecting
<1>7. ~Unwatched'
  BY <1>2, <1>4, <1>5 DEF OnlyAt, Unwatched, Connecting
<1>8. Watched'
  BY <1>4, <1>7, Delays DEF Watched, Off
<1>9. OneOperation'
  BY <1>6 DEF OneOperation, Stations
<1>10. QueueType'
  BY <1>1, <1>4, Taken DEF QueueType
<1>11. Threads'
  BY <1>1, <1>4, <1>5, Taken DEF Inv, Threads
<1>12. Service'
  BY <1>1, <1>4, <1>5, <1>8, <1>9, Taken DEF Inv, Service
<1>. QED
  BY <1>10, <1>11, <1>12, <1>5

LEMMA ReadCompleteStep ==
    ASSUME Inv, ReadComplete
    PROVE  /\ QueueType' /\ Threads' /\ Service'
           /\ "expired" \in Queued' => "expired" \in Queued
<1>1. AtHead("read")
  BY DEF ReadComplete
<1>2. OnlyAt("read")
  BY <1>1, Taken DEF OneOperation, OnlyAt, Stations
<1>3. /\ m_watchdog' = Watchdog /\ thread' = "decoding"
      /\ UNCHANGED <<pc, running, masked, stopped, m_active, connection, reading>>
  BY DEF ReadComplete, ResetWatchdog
<1>4. PICK x \in {<<>>, <<"cancelled">>} : queue' = Tail(queue) \o x
  <2>1. queue' = Tail(queue) \/ queue' = Append(Tail(queue), "cancelled")
    BY DEF ReadComplete, ResetWatchdog
  <2>2. Tail(queue) \o <<>> = Tail(queue)
    BY <1>1, Taken
  <2>3. Append(Tail(queue), "cancelled") = Tail(queue) \o <<"cancelled">>
    BY <1>1, Taken, AppendIsJoin DEF Kinds, Handlers
  <2>. QED
    BY <2>1, <2>2, <2>3
<1>5. "cancelled" \in Kinds \ ToSet(Tail(queue)) /\ "read" \notin ToSet(Tail(queue))
  BY <1>1, Taken DEF Kinds, Handlers
<1>6. ToSet(x) \subseteq {"cancelled"}
  BY Singles
<1>7. /\ queue' \in Seq(Kinds) /\ Apart(queue') /\ InOrder(queue')
      /\ Queued' = (Queued \ {"read"}) \union ToSet(x)
  <2>. DEFINE rest == Tail(queue)
  <2>1. /\ rest \in Seq(Kinds) /\ Apart(rest) /\ InOrder(rest)
        /\ ToSet(rest) = Queued \ {"read"} /\ queue' = rest \o x
    BY <1>1, <1>4, Taken
  <2>2. x = <<>> \/ \E k \in Kinds \ ToSet(rest) : x = <<k>>
    BY <1>5
  <2>. HIDE DEF rest
  <2>3. /\ queue' \in Seq(Kinds) /\ Apart(queue') /\ InOrder(queue')
        /\ ToSet(queue') = ToSet(rest) \union ToSet(x)
    BY <1>6, <2>1, <2>2, Joined
  <2>. QED
    BY <2>1, <2>3 DEF Queued
<1>8. OnlyAt("decoding")'
  BY <1>2, <1>3, <1>6, <1>7 DEF OnlyAt, Connecting
<1>9. ~Unwatched'
  BY <1>2, <1>3, <1>6, <1>7 DEF OnlyAt, Unwatched, Connecting
<1>10. Watched'
  BY <1>3, <1>9, Delays DEF Watched, Off
<1>11. OneOperation'
  BY <1>8 DEF OneOperation, Stations
<1>12. QueueType'
  BY <1>7 DEF QueueType
<1>13. Threads'
  BY <1>1, <1>3, <1>6, <1>7, Taken DEF Inv, Threads
<1>14. Service'
  BY <1>1, <1>3, <1>6, <1>7, <1>10, <1>11, Taken DEF Inv, Service
<1>. QED
  BY <1>12, <1>13, <1>14, <1>6, <1>7

(* The reactor finds nothing in the queue that could be there twice.       *)
LEMMA RunReactorStep ==
    ASSUME Inv, RunReactor
    PROVE  /\ QueueType' /\ Threads' /\ Service'
           /\ "expired" \in Queued' => m_watchdog = 0
<1>1. /\ AtHead("task")
      /\ queue' = Tail(queue) \o SocketReady \o TimerReady \o <<"task">>
      /\ connection' = CASE connection = "accepted" -> "up"
                         [] connection = "refused"  -> "closed"
                         [] OTHER                   -> connection
      /\ m_watchdog' = IF m_watchdog = 0 THEN Off ELSE m_watchdog
      /\ UNCHANGED <<pc, running, masked, thread, stopped, m_active>>
  BY DEF RunReactor
<1>2. Queued \subseteq {"task", "cancelled", "close"} /\ OneOperation /\ Watched /\ Live
      /\ thread = "reactor" /\ ~stopped
  BY <1>1, Taken
<1>3. (OnlyAt("connecting") /\ ~reading) \/ (OnlyAt("reading") /\ ~Connecting)
  BY <1>2 DEF OneOperation, OnlyAt, Stations
<1>4. PICK found \in {"nothing", "connected", "connectFailed", "read", "readFailed"} :
         /\ SocketReady = IF found = "nothing" THEN <<>> ELSE <<found>>
         /\ Connecting' <=> Connecting /\ found = "nothing"
         /\ reading' <=> reading /\ found = "nothing"
         /\ found \in {"connected", "connectFailed"} => Connecting
         /\ found \in {"read", "readFailed"} => reading
  <2>1. CASE Connecting /\ ~reading
    <3>1. ~reading' /\ ~Readable /\ ~HungUp
      BY <2>1 DEF RunReactor, Readable, HungUp
    <3>2. CASE connection = "connecting"
      BY <1>1, <2>1, <3>1, <3>2 DEF SocketReady, Connecting
    <3>3. CASE connection = "accepted"
      BY <1>1, <2>1, <3>1, <3>3 DEF SocketReady, Connecting
    <3>4. CASE connection = "refused"
      BY <1>1, <2>1, <3>1, <3>4 DEF SocketReady, Connecting
    <3>. QED
      BY <2>1, <3>2, <3>3, <3>4 DEF Connecting
  <2>2. CASE reading /\ ~Connecting
    <3>1. connection # "accepted" /\ connection # "refused" /\ ~Connecting'
      BY <1>1, <2>2 DEF Connecting
    <3>2. CASE Readable
      <4>1. ~reading'
        BY <3>2 DEF RunReactor
      <4>. QED
        BY <2>2, <3>1, <3>2, <4>1 DEF SocketReady
    <3>3. CASE ~Readable /\ HungUp
      <4>1. ~reading'
        BY <3>3 DEF RunReactor
      <4>. QED
        BY <2>2, <3>1, <3>3, <4>1 DEF SocketReady
    <3>4. CASE ~Readable /\ ~HungUp
      <4>1. reading'
        BY <2>2, <3>4 DEF RunReactor
      <4>. QED
        BY <2>2, <3>1, <3>4, <4>1 DEF SocketReady
    <3>. QED
      BY <3>2, <3>3, <3>4
  <2>. QED
    BY <1>3, <2>1, <2>2 DEF OnlyAt
<1>5. /\ queue' \in Seq(Kinds) /\ Apart(queue') /\ InOrder(queue')
      /\ Queued' = (Queued \ {"task"}) \union ToSet(SocketReady) \union ToSet(TimerReady)
                      \union {"task"}
  <2>. DEFINE rest == Tail(queue)
  <2>1. /\ rest \in Seq(Kinds) /\ Apart(rest) /\ InOrder(rest)
        /\ ToSet(rest) = Queued \ {"task"} /\ ToSet(rest) \subseteq {"cancelled", "close"}
        /\ queue' = ((rest \o SocketReady) \o TimerReady) \o <<"task">>
    BY <1>1, <1>2, Taken
  <2>2. /\ SocketReady = <<>> \/ \E k \in Kinds \ ToSet(rest) : SocketReady = <<k>>
        /\ ToSet(SocketReady) \subseteq {"connected", "connectFailed", "read", "readFailed"}
    BY <1>4, <2>1, Singles DEF Kinds, Handlers
  <2>. HIDE DEF rest
  <2>. DEFINE q1 == rest \o SocketReady
  <2>3. /\ q1 \in Seq(Kinds) /\ Apart(q1) /\ InOrder(q1)
        /\ ToSet(q1) = ToSet(rest) \union ToSet(SocketReady)
    <3>1. "task" \notin ToSet(rest) /\ "cancelled" \notin ToSet(SocketReady)
      BY <2>1, <2>2
    <3>2. rest \in Seq(Kinds) /\ Apart(rest) /\ InOrder(rest)
      BY <2>1
    <3>3. SocketReady = <<>> \/ \E k \in Kinds \ ToSet(rest) : SocketReady = <<k>>
      BY <2>2
    <3>. QED
      BY <3>1, <3>2, <3>3, Joined
  <2>4. /\ ToSet(TimerReady) \subseteq {"expired"}
        /\ TimerReady = <<>> \/ \E k \in Kinds \ ToSet(q1) : TimerReady = <<k>>
    BY <2>1, <2>2, <2>3, Singles DEF TimerReady, Kinds, Handlers
  <2>5. queue' = (q1 \o TimerReady) \o <<"task">>
    BY <2>1
  <2>. HIDE DEF q1
  <2>. DEFINE q2 == q1 \o TimerReady
  <2>6. /\ q2 \in Seq(Kinds) /\ Apart(q2) /\ InOrder(q2)
        /\ ToSet(q2) = ToSet(q1) \union ToSet(TimerReady)
    <3>1. "task" \notin ToSet(q1) /\ "cancelled" \notin ToSet(TimerReady)
      BY <2>1, <2>2, <2>3, <2>4
    <3>2. TimerReady = <<>> \/ \E k \in Kinds \ ToSet(q1) : TimerReady = <<k>>
      BY <2>4
    <3>. QED
      BY <2>3, <3>1, <3>2, Joined
  <2>7. "task" \in Kinds \ ToSet(q2)
    BY <2>1, <2>2, <2>3, <2>4, <2>6 DEF Kinds
  <2>8. queue' = q2 \o <<"task">>
    BY <2>5
  <2>. HIDE DEF q2
  <2>. DEFINE last == <<"task">>
  <2>9. ToSet(last) = {"task"} /\ \E k \in Kinds \ ToSet(q2) : last = <<k>>
    BY <2>7, Singles
  <2>. HIDE DEF last
  <2>10. /\ q2 \o last \in Seq(Kinds) /\ Apart(q2 \o last) /\ InOrder(q2 \o last)
         /\ ToSet(q2 \o last) = ToSet(q2) \union {"task"}
    BY <2>6, <2>7, <2>9, Joined
  <2>11. queue' = q2 \o last
    BY <2>8 DEF last
  <2>. QED
    BY <2>1, <2>3, <2>6, <2>10, <2>11 DEF Queued
<1>6. ToSet(SocketReady) = IF found = "nothing" THEN {} ELSE {found}
  BY <1>4, Singles
<1>7. ToSet(TimerReady) = IF m_watchdog = 0 THEN {"expired"} ELSE {}
  BY Singles DEF TimerReady
<1>8. OneOperation'
  <2>1. \A kind \in {"connected", "connectFailed", "read", "readFailed"} :
           kind \in Queued' <=> found = kind
    BY <1>2, <1>4, <1>5, <1>6, <1>7
  <2>2. CASE OnlyAt("connecting") /\ ~reading /\ found = "nothing"
    <3>1. OnlyAt("connecting")'
      BY <1>1, <1>2, <1>4, <2>1, <2>2 DEF OnlyAt
    <3>. QED
      BY <3>1 DEF OneOperation, Stations
  <2>3. CASE OnlyAt("reading") /\ ~Connecting /\ found = "nothing"
    <3>1. OnlyAt("reading")'
      BY <1>1, <1>2, <1>4, <2>1, <2>3 DEF OnlyAt
    <3>. QED
      BY <3>1 DEF OneOperation, Stations
  <2>4. CASE found # "nothing"
    <3>1. OnlyAt(found)'
      BY <1>1, <1>2, <1>4, <2>1, <2>4 DEF OnlyAt
    <3>2. found \in Stations
      BY <2>4 DEF Stations
    <3>. QED
      BY <3>1, <3>2 DEF OneOperation
  <2>. QED
    BY <1>3, <2>2, <2>3, <2>4
<1>9. Watched'
  <2>1. CASE Connecting /\ ~reading
    <3>1. m_watchdog = Off
      BY <1>2, <2>1 DEF Watched, Unwatched
    <3>2. m_watchdog' = Off /\ ToSet(TimerReady) = {} /\ "cancelled" \notin Queued
      BY <1>1, <1>2, <1>7, <2>1, <3>1 DEF Off, Watched, Unwatched
    <3>3. {"expired", "cancelled"} \intersect Queued' = {}
      BY <1>2, <1>4, <1>5, <1>6, <3>2
    <3>4. Unwatched'
      BY <1>4, <1>5, <1>6, <2>1 DEF Unwatched
    <3>. QED
      BY <3>2, <3>3, <3>4 DEF Watched
  <2>2. CASE reading /\ ~Connecting
    <3>1. m_watchdog # Off
      BY <1>2, <2>2 DEF Watched, Unwatched
    <3>2. ~Unwatched'
      BY <1>2, <1>4, <1>5, <1>6, <1>7, <2>2 DEF Unwatched
    <3>3. m_watchdog' # Off \/ "expired" \in Queued'
      BY <1>1, <1>5, <1>7, <3>1
    <3>. QED
      BY <3>2, <3>3 DEF Watched
  <2>. QED
    BY <1>3, <2>1, <2>2 DEF OnlyAt
<1>10. "aborted" \notin Queued' /\ "task" \in Queued'
       /\ ("close" \in Queued' <=> "close" \in Queued)
  BY <1>2, <1>4, <1>5, <1>6, <1>7
<1>11. QueueType'
  BY <1>5 DEF QueueType
<1>12. Threads'
  BY <1>1, <1>10 DEF Inv, Threads
<1>13. pc \in {"wait", "join"}
  BY <1>1, Taken
<1>14. Service'
  BY <1>1, <1>5, <1>8, <1>9, <1>10, <1>13 DEF Inv, Service
<1>15. "expired" \in Queued' => m_watchdog = 0
  BY <1>2, <1>4, <1>5, <1>6, <1>7
<1>. QED
  BY <1>11, <1>12, <1>14, <1>15

LEMMA ReadStartStep ==
    ASSUME Inv, ReadStart PROVE QueueType' /\ Threads' /\ Service'
<1>1. /\ thread = "decoding" /\ thread' = "reactor" /\ reading'
      /\ UNCHANGED <<pc, running, masked, stopped, queue, m_active, connection, m_watchdog>>
  BY DEF ReadStart
<1>2. Queued' = Queued /\ pc \in {"wait", "join"} /\ Live
  BY <1>1 DEF Queued, Inv, Threads, Live
<1>3. OneOperation /\ Watched
  BY <1>2 DEF Inv, Service
<1>4. OnlyAt("decoding")
  BY <1>1, <1>3 DEF OneOperation, OnlyAt, Stations
<1>5. OnlyAt("reading")'
  BY <1>1, <1>2, <1>4 DEF OnlyAt, Connecting
<1>6. OneOperation'
  BY <1>5 DEF OneOperation, Stations
<1>7. Watched'
  BY <1>1, <1>2, <1>3 DEF Watched, Unwatched, Connecting
<1>8. Threads'
  BY <1>1, <1>2 DEF Inv, Threads
<1>9. Service'
  BY <1>1, <1>2, <1>6, <1>7 DEF Inv, Service, Live
<1>10. QueueType'
  BY <1>1 DEF Inv, QueueType
<1>. QED
  BY <1>8, <1>9, <1>10

LEMMA WatchdogCancelledStep ==
    ASSUME Inv, WatchdogCancelled
    PROVE  /\ QueueType' /\ Threads' /\ Service'
           /\ "expired" \in Queued' => "expired" \in Queued
<1>1. /\ AtHead("cancelled") /\ queue' = Tail(queue)
      /\ UNCHANGED <<pc, running, masked, thread, stopped, m_active, connection, reading,
                     m_watchdog>>
  BY DEF WatchdogCancelled
<1>2. Queued' = Queued \ {"cancelled"} /\ "cancelled" \in Queued
  BY <1>1, Taken DEF Queued
<1>3. OneOperation'
  BY <1>1, <1>2, Taken DEF OneOperation, OnlyAt, Connecting
<1>4. Watched'
  BY <1>1, <1>2, Taken DEF Watched, Unwatched, Connecting
<1>5. Threads'
  BY <1>1, <1>2 DEF Inv, Threads
<1>6. Service'
  BY <1>1, <1>2, <1>3, <1>4, Taken DEF Inv, Service
<1>7. QueueType'
  BY <1>1, Taken DEF QueueType
<1>. QED
  BY <1>5, <1>6, <1>7, <1>2

(* The thread has nothing left to do only when the handler is closed.      *)
LEMMA RunReturnsStep ==
    ASSUME Inv, RunReturns PROVE QueueType' /\ Threads' /\ Service'
<1>1. /\ thread = "reactor" /\ thread' = "finished" /\ (stopped \/ OutOfWork)
      /\ UNCHANGED <<pc, running, masked, stopped, queue, m_active>>
  BY DEF RunReturns
<1>2. pc \in {"wait", "join"} /\ Queued' = Queued
  BY <1>1 DEF Inv, Threads, Queued
<1>3. stopped
  <2>. SUFFICES ASSUME ~stopped PROVE FALSE
    OBVIOUS
  <2>1. Live /\ OutOfWork
    BY <1>1, <1>2 DEF Live
  <2>2. Queued = {"task"} /\ ~Connecting /\ ~reading
    BY <2>1, Singles DEF OutOfWork, Queued
  <2>3. OneOperation
    BY <2>1 DEF Inv, Service
  <2>. QED
    BY <1>1, <2>2, <2>3 DEF OneOperation, OnlyAt, Stations
<1>4. Threads'
  BY <1>1, <1>2, <1>3 DEF Inv, Threads
<1>5. Service'
  BY <1>1, <1>2, <1>3 DEF Inv, Service, Live
<1>6. QueueType'
  BY <1>1 DEF Inv, QueueType
<1>. QED
  BY <1>4, <1>5, <1>6

LEMMA CreateStep ==
    ASSUME Inv, Create PROVE QueueType' /\ Threads' /\ Service'
<1>1. /\ pc = "create" /\ pc' = "start" /\ queue' = <<"task">> /\ ~reading'
      /\ m_watchdog' = Off /\ UNCHANGED <<running, masked, thread>>
  BY DEF Create
<1>2. Queued' = {"task"}
  BY <1>1, Singles DEF Queued
<1>3. QueueType' /\ InOrder(queue')
  BY <1>1 DEF QueueType, Apart, Kinds, InOrder
<1>4. m_active' <=> ~stopped'
  BY DEF Create
<1>5. Threads'
  BY <1>1, <1>4 DEF Inv, Threads
<1>6. ASSUME Live' PROVE OneOperation' /\ Watched'
  <2>1. connection' = "connecting"
    BY <1>6 DEF Create, Live
  <2>2. thread' = "none"
    BY <1>1 DEF Inv, Threads
  <2>3. OnlyAt("connecting")'
    BY <1>1, <1>2, <2>1, <2>2 DEF OnlyAt, Connecting
  <2>4. OneOperation'
    BY <2>3 DEF OneOperation, Stations
  <2>. QED
    BY <1>1, <1>2, <2>1, <2>4 DEF Watched, Unwatched, Connecting
<1>7. Service'
  BY <1>1, <1>2, <1>3, <1>6 DEF Service
<1>. QED
  BY <1>3, <1>5, <1>7

LEMMA SignalTakenStep ==
    ASSUME Inv, SignalTaken
    PROVE  /\ QueueType' /\ Threads' /\ Service'
           /\ "expired" \in Queued' => "expired" \in Queued
<1>1. /\ pc = "wait" /\ pc' = "join" /\ ~running' /\ queue' = Append(queue, "close")
      /\ UNCHANGED <<masked, thread, stopped, m_active, connection, reading, m_watchdog>>
  BY DEF SignalTaken
<1>2. queue \in Seq(Kinds) /\ Apart(queue) /\ "close" \in Kinds \ Queued
  BY <1>1 DEF Inv, QueueType, Service, Kinds, Handlers
<1>3. queue' = queue \o <<"close">>
  BY <1>1, <1>2, AppendIsJoin
<1>4. /\ QueueType' /\ Queued' = Queued \union {"close"}
      /\ InOrder(queue) => InOrder(queue')
  <2>. DEFINE last == <<"close">>
  <2>1. ToSet(last) = {"close"} /\ \E k \in Kinds \ ToSet(queue) : last = <<k>>
    BY <1>2, Singles DEF Queued
  <2>. HIDE DEF last
  <2>2. /\ queue \o last \in Seq(Kinds) /\ Apart(queue \o last)
        /\ ToSet(queue \o last) = ToSet(queue) \union {"close"}
        /\ InOrder(queue) => InOrder(queue \o last)
    BY <1>2, <2>1, Joined
  <2>3. queue' = queue \o last
    BY <1>3 DEF last
  <2>. QED
    BY <2>2, <2>3 DEF QueueType, Queued
<1>5. Threads'
  BY <1>1, <1>4 DEF Inv, Threads
<1>6. ASSUME Live' PROVE /\ InOrder(queue') /\ "task" \in Queued' /\ "aborted" \notin Queued'
                         /\ OneOperation' /\ Watched'
  <2>1. Live
    BY <1>1, <1>6 DEF Live
  <2>2. /\ InOrder(queue) /\ "task" \in Queued /\ "aborted" \notin Queued
        /\ OneOperation /\ Watched
    BY <2>1 DEF Inv, Service
  <2>3. OneOperation'
    BY <1>1, <1>4, <2>2 DEF OneOperation, OnlyAt, Connecting
  <2>4. Watched'
    BY <1>1, <1>4, <2>2 DEF Watched, Unwatched, Connecting
  <2>. QED
    BY <1>4, <2>2, <2>3, <2>4
<1>7. Service'
  BY <1>1, <1>6 DEF Service
<1>. QED
  BY <1>4, <1>5, <1>7

(* The other steps leave the service as it is.                             *)
LEMMA ServiceKept ==
    ASSUME Inv, UNCHANGED <<queue, stopped, reading>>, Connecting' <=> Connecting,
           m_watchdog' = Off <=> m_watchdog = Off,
           thread' = "decoding" <=> thread = "decoding",
           Live' => Live,
           pc' \in {"start", "wait"} => pc \in {"start", "wait"},
           pc' = "start" => pc = "start"
    PROVE  QueueType' /\ Service'
<1>1. Queued' = Queued
  BY DEF Queued
<1>2. QueueType'
  BY DEF Inv, QueueType
<1>3. ASSUME Live' PROVE /\ InOrder(queue') /\ "task" \in Queued' /\ "aborted" \notin Queued'
                         /\ OneOperation' /\ Watched'
  <2>1. /\ InOrder(queue) /\ "task" \in Queued /\ "aborted" \notin Queued
        /\ OneOperation /\ Watched
    BY <1>3 DEF Inv, Service
  <2>2. OneOperation'
    BY <1>1, <2>1 DEF OneOperation, OnlyAt
  <2>3. Watched'
    BY <1>1, <2>1 DEF Watched, Unwatched
  <2>. QED
    BY <1>1, <2>1, <2>2, <2>3
<1>4. Service'
  BY <1>1, <1>3 DEF Inv, Service
<1>. QED
  BY <1>2, <1>4

LEMMA MainStep ==
    ASSUME Inv, StartThread \/ PollTimesOut \/ Join \/ WakeUp
    PROVE  QueueType' /\ Threads' /\ Service'
<1>1. UNCHANGED <<queue, stopped, reading, m_active, connection, m_watchdog, running>>
  BY DEF StartThread, PollTimesOut, Join, WakeUp
<1>2. Connecting' <=> Connecting
  BY <1>1 DEF Connecting
<1>3. CASE StartThread
  <2>1. /\ pc = "start" /\ pc' = "wait" /\ thread' = "reactor" /\ masked'
        /\ thread = "none"
    BY <1>3 DEF StartThread, Inv, Threads
  <2>2. Threads'
    BY <1>1, <2>1 DEF Inv, Threads
  <2>3. Live' => Live
    BY <1>1, <2>1 DEF Live
  <2>. QED
    BY <1>1, <1>2, <2>1, <2>2, <2>3, ServiceKept
<1>4. CASE PollTimesOut
  <2>1. /\ pc = "wait" /\ UNCHANGED <<thread, masked>>
        /\ pc' = "wait" \/ (pc' = "join" /\ ~m_active)
    BY <1>4 DEF PollTimesOut
  <2>2. Threads'
    BY <1>1, <2>1 DEF Inv, Threads
  <2>3. Live' => Live
    BY <1>1, <2>1 DEF Live
  <2>. QED
    BY <1>1, <1>2, <2>1, <2>2, <2>3, ServiceKept
<1>5. CASE Join \/ WakeUp
  <2>1. /\ pc \in {"join", "sleep"} /\ pc' \in {"sleep", "exit", "create"}
        /\ thread # "decoding" /\ thread' = "none" /\ UNCHANGED masked
    BY <1>5 DEF Join, WakeUp, Inv, Threads
  <2>2. pc' = "exit" \/ running
    BY <1>5 DEF Join, WakeUp, Inv, Threads
  <2>3. pc' = "sleep" => masked
    BY <1>5 DEF Join, WakeUp, Inv, Threads
  <2>4. Threads'
    BY <1>1, <2>1, <2>2, <2>3 DEF Inv, Threads
  <2>5. ~Live'
    BY <2>1 DEF Live
  <2>. QED
    BY <1>1, <1>2, <2>1, <2>4, <2>5, ServiceKept
<1>. QED
  BY <1>3, <1>4, <1>5

LEMMA WorldStep ==
    ASSUME Inv, PeerAnswers \/ PeerSends \/ PeerCloses \/ Signal \/ Tick \/ UNCHANGED vars
    PROVE  QueueType' /\ Threads' /\ Service'
<1>1. UNCHANGED <<queue, stopped, reading, m_active, running, masked, thread>>
  BY DEF PeerAnswers, PeerSends, PeerCloses, Signal, Tick, vars
<1>2. Connecting' <=> Connecting
  BY DEF PeerAnswers, PeerSends, PeerCloses, Signal, Tick, vars, Connecting
<1>3. m_watchdog' = Off <=> m_watchdog = Off
  <2>1. CASE Tick
    BY <2>1 DEF Inv, Timers, Tick, Down, Off
  <2>2. CASE ~Tick
    <3>1. UNCHANGED m_watchdog
      BY <2>2 DEF PeerAnswers, PeerSends, PeerCloses, Signal, vars
    <3>. QED
      BY <3>1
  <2>. QED
    BY <2>1, <2>2
<1>4. pc' = pc \/ (pc' = "killed" /\ ~masked /\ pc # "exit")
  BY DEF PeerAnswers, PeerSends, PeerCloses, Signal, Tick, vars, Ended
<1>5. Threads'
  <2>1. Queued' = Queued
    BY <1>1 DEF Queued
  <2>2. CASE pc' = pc
    BY <1>1, <2>1, <2>2 DEF Inv, Threads
  <2>3. CASE pc' = "killed" /\ ~masked /\ pc # "exit"
    <3>1. pc \notin {"wait", "join", "sleep"} /\ running
      BY <2>3 DEF Inv, Threads
    <3>. QED
      BY <1>1, <2>1, <2>3, <3>1 DEF Inv, Threads
  <2>. QED
    BY <1>4, <2>2, <2>3
<1>6. Live' => Live
  BY <1>1, <1>4 DEF Live
<1>7. QueueType' /\ Service'
  BY <1>1, <1>2, <1>3, <1>4, <1>6, ServiceKept
<1>. QED
  BY <1>5, <1>7

LEMMA Initially == Init => Inv
<1>. SUFFICES ASSUME Init PROVE Inv
  OBVIOUS
<1>1. PlainTypes
  BY DEF Init, PlainTypes
<1>2. Timers
  BY Bounds DEF Init, Timers, Off
<1>3. QueueType
  BY DEF Init, QueueType, Apart
<1>4. Threads /\ Service
  BY DEF Init, Threads, Service, Live
<1>. QED
  BY <1>1, <1>2, <1>3, <1>4 DEF Inv

LEMMA Step == Inv /\ [Next]_vars => Inv'
<1>. SUFFICES ASSUME Inv, [Next]_vars PROVE Inv'
  OBVIOUS
<1>1. PlainTypes' /\ Timers'
  BY PlainStep, TimersStep DEF Inv
<1>2. CASE HandleErrorOrClose
  <2>1. PICK kind \in {"connectFailed", "readFailed", "aborted", "close"} : AtHead(kind)
    BY <1>2 DEF HandleErrorOrClose
  <2>2. DoClose(Tail(queue)) /\ UNCHANGED <<mainVars, thread>>
    BY <1>2 DEF HandleErrorOrClose
  <2>. QED
    BY <1>1, <2>1, <2>2, Closed DEF Inv
<1>3. CASE WatchdogTimeout
  <2>1. AtHead("expired") /\ DoClose(Tail(queue)) /\ UNCHANGED <<mainVars, thread>>
    BY <1>3 DEF WatchdogTimeout
  <2>. QED
    BY <1>1, <2>1, Closed DEF Inv
<1>4. CASE RunReactor \/ HandleConnect \/ ReadComplete \/ ReadStart \/ WatchdogCancelled
           \/ RunReturns
  BY <1>1, <1>4, RunReactorStep, HandleConnectStep, ReadCompleteStep, ReadStartStep,
     WatchdogCancelledStep, RunReturnsStep DEF Inv
<1>5. CASE MainSteps
  BY <1>1, <1>5, CreateStep, SignalTakenStep, MainStep DEF Inv, MainSteps
<1>6. CASE PeerAnswers \/ PeerSends \/ PeerCloses \/ Signal \/ Tick \/ UNCHANGED vars
  BY <1>1, <1>6, WorldStep DEF Inv
<1>. QED
  BY <1>2, <1>3, <1>4, <1>5, <1>6 DEF Next, ThreadSteps

LEMMA Invariance == Spec => []Inv
BY Initially, Step, PTL DEF Spec

(* Every reachable state is well typed; in particular no handler waits     *)
(* twice in the queue of the io_service, whatever is posted, completed and *)
(* cancelled meanwhile (IoHandler.cpp:59-168).                             *)
THEOREM TypeCorrect == Spec => []TypeOK
<1>1. Inv => TypeOK
  BY TypeParts DEF Inv
<1>. QED
  BY <1>1, Invariance, PTL

(* As long as main waits for an active handler its thread runs and will be *)
(* woken: run() cannot return for lack of work before the handler is       *)
(* closed (IoHandler.cpp:59-98, main.cpp:114-120).                         *)
THEOREM SessionCorrect == Spec => []SessionAlive
<1>1. Inv => SessionAlive
  <2>. SUFFICES ASSUME Inv, pc = "wait", m_active
                PROVE  /\ thread \in {"reactor", "decoding"}
                       /\ thread = "reactor" /\ queue = <<"task">> =>
                             Connecting \/ (reading /\ (m_watchdog # Off))
    BY DEF SessionAlive
  <2>1. ~stopped /\ Live
    BY DEF Inv, Threads, Live
  <2>2. thread \in {"reactor", "decoding"}
    BY <2>1 DEF Inv, PlainTypes, Threads
  <2>3. OneOperation /\ Watched
    BY <2>1 DEF Inv, Service
  <2>4. ASSUME thread = "reactor", queue = <<"task">>
        PROVE  Connecting \/ (reading /\ (m_watchdog # Off))
    <3>1. Queued = {"task"}
      BY <2>4, Singles DEF Queued
    <3>2. Connecting \/ (reading /\ ~Connecting)
      BY <2>3, <2>4, <3>1 DEF OneOperation, OnlyAt, Stations
    <3>3. ~Connecting => m_watchdog # Off
      BY <2>3, <3>1 DEF Watched, Unwatched
    <3>. QED
      BY <3>2, <3>3
  <2>. QED
    BY <2>2, <2>4
<1>. QED
  BY <1>1, Invariance, PTL

(* Readings are decoded only while the handler is open and main cannot     *)
(* have destroyed it: main joins the thread first, and doClose runs in the *)
(* same thread as readComplete (IoHandler.cpp:158-168, main.cpp:122).      *)
THEOREM DecodingCorrect == Spec => []DecodesOnlyWhenActive
<1>1. Inv => DecodesOnlyWhenActive
  BY DEF Inv, PlainTypes, Threads, DecodesOnlyWhenActive
<1>. QED
  BY <1>1, Invariance, PTL

-----------------------------------------------------------------------------
(* The watchdog and the silence.                                           *)

LEMMA QueueUnchanged == UNCHANGED queue => Queued' = Queued
BY DEF Queued

(* Time passes with the watchdog running only while something is decoded,  *)
(* or when there are no bytes to read.                                     *)
LEMMA WhenWatched ==
    ASSUME Inv, Tick, Live, m_watchdog # Off
    PROVE  thread = "decoding" \/ ~data
<1>1. pc \in {"wait", "join"}
  BY DEF Tick, MainIdle, Live
<1>2. thread \in {"reactor", "decoding"}
  <2>1. thread \in {"reactor", "decoding", "finished"}
    BY <1>1 DEF Inv, PlainTypes, Threads
  <2>2. pc = "wait" => thread # "finished"
    BY DEF Inv, Threads, Live
  <2>3. pc = "join" => thread # "finished"
    BY DEF Tick, MainIdle
  <2>. QED
    BY <1>1, <2>1, <2>2, <2>3
<1>3. ASSUME thread = "reactor" PROVE ~data
  <2>1. queue = <<"task">> /\ SocketReady \o TimerReady = <<>>
    BY <1>3 DEF Tick, ThreadIdle
  <2>2. Queued = {"task"}
    BY <2>1, Singles DEF Queued
  <2>3. OneOperation /\ Watched
    BY DEF Inv, Service
  <2>4. ~Connecting
    BY <2>3 DEF Watched, Unwatched
  <2>5. reading
    BY <1>3, <2>2, <2>3, <2>4 DEF OneOperation, OnlyAt, Stations
  <2>6. SocketReady = <<>>
    <3>1. /\ SocketReady \in {<<>>, <<"connected">>, <<"connectFailed">>, <<"read">>,
                              <<"readFailed">>}
          /\ TimerReady \in {<<>>, <<"expired">>}
      BY DEF SocketReady, TimerReady
    <3>. QED
      BY <2>1, <3>1
  <2>7. ~Readable
    BY <2>4, <2>6 DEF SocketReady, Connecting
  <2>. QED
    BY <2>5, <2>7 DEF Readable
<1>. QED
  BY <1>2, <1>3

LEMMA SilenceStep == Inv /\ Silence /\ [Next]_vars => Silence'
<1>. SUFFICES ASSUME Inv, Silence, [Next]_vars PROVE Silence'
  OBVIOUS
<1>1. CASE RunReactor
  <2>1. /\ m_watchdog' = IF m_watchdog = 0 THEN Off ELSE m_watchdog
        /\ UNCHANGED <<pc, stopped, data, silence, silent, overdue, expired>>
    BY <1>1 DEF RunReactor
  <2>2. "expired" \in Queued' => m_watchdog = 0
    BY <1>1, RunReactorStep
  <2>3. (m_watchdog' # Off => m_watchdog' = m_watchdog) /\ m_watchdog' # 0
    BY <2>1 DEF Off
  <2>. QED
    BY <2>1, <2>2, <2>3 DEF Silence, Live
<1>2. CASE HandleConnect
  <2>1. /\ m_watchdog' = Watchdog /\ silence' = 0 /\ UNCHANGED <<pc, stopped, expired>>
    BY <1>2 DEF HandleConnect, ResetWatchdog
  <2>2. Live /\ ~expired /\ "expired" \notin Queued
    BY <1>2, Taken DEF HandleConnect, Silence, Watched, Unwatched
  <2>3. "expired" \notin Queued' /\ ~expired'
    BY <1>2, <2>1, <2>2, HandleConnectStep
  <2>4. m_watchdog' # 0 /\ m_watchdog' + silence' >= Watchdog
    BY <2>1, Delays
  <2>. QED
    BY <2>3, <2>4 DEF Silence
<1>3. CASE HandleErrorOrClose
  <2>1. UNCHANGED <<silent, overdue, expired>> /\ ~Live'
    BY <1>3 DEF HandleErrorOrClose, DoClose, Live
  <2>. QED
    BY <2>1 DEF Silence
<1>4. CASE ReadComplete
  <2>1. /\ m_watchdog' = Watchdog
        /\ UNCHANGED <<pc, stopped, silence, silent, overdue, expired>>
    BY <1>4 DEF ReadComplete, ResetWatchdog
  <2>2. Live' = Live /\ ("expired" \in Queued' => "expired" \in Queued)
    BY <1>4, <2>1, ReadCompleteStep DEF Live
  <2>3. m_watchdog' # 0 /\ m_watchdog' + silence' >= Watchdog
    BY <2>1, Delays DEF Inv, Timers
  <2>. QED
    BY <2>1, <2>2, <2>3 DEF Silence
<1>5. CASE WatchdogTimeout
  <2>1. UNCHANGED <<silent, overdue>> /\ ~Live'
    BY <1>5 DEF WatchdogTimeout, DoClose, Live
  <2>2. silent \/ overdue
    BY <1>5, Taken DEF WatchdogTimeout, Silence
  <2>. QED
    BY <2>1, <2>2 DEF Silence
<1>6. CASE WatchdogCancelled \/ SignalTaken
  <2>1. /\ UNCHANGED <<stopped, data, m_watchdog, silence, silent, overdue, expired>>
        /\ pc' \in {"start", "wait", "join"} => pc \in {"start", "wait", "join"}
    BY <1>6 DEF WatchdogCancelled, SignalTaken
  <2>2. (Live' => Live) /\ ("expired" \in Queued' => "expired" \in Queued)
    BY <1>6, <2>1, WatchdogCancelledStep, SignalTakenStep DEF Live
  <2>. QED
    BY <2>1, <2>2 DEF Silence
<1>7. CASE Create
  <2>1. m_watchdog' = Off /\ ~expired' /\ queue' = <<"task">>
    BY <1>7 DEF Create
  <2>2. "expired" \notin Queued'
    BY <2>1, Singles DEF Queued
  <2>. QED
    BY <2>1, <2>2 DEF Silence, Off
<1>8. CASE Tick
  <2>1. /\ m_watchdog' = Down(m_watchdog) /\ silence' = Up(silence, Watchdog)
        /\ UNCHANGED <<pc, stopped, queue, data, expired>>
    BY <1>8 DEF Tick
  <2>2. /\ silent' <=> silent \/ silence' >= Watchdog
        /\ overdue' <=> overdue \/ (thread = "decoding" /\ m_watchdog' = 0)
    BY <1>8 DEF Tick
  <2>3. Live' = Live /\ Queued' = Queued
    BY <2>1, QueueUnchanged DEF Live
  <2>4. ASSUME Live, m_watchdog # Off, ~data
        PROVE  m_watchdog' + silence' >= Watchdog
    BY <2>1, <2>4, Delays DEF Inv, Timers, Silence, Down, Up, Off
  <2>5. m_watchdog' # Off => m_watchdog # Off
    BY <2>1 DEF Down, Off
  <2>6. ASSUME Live, m_watchdog' = 0 PROVE silent' \/ overdue'
    <3>1. CASE thread = "decoding"
      BY <2>2, <2>6, <3>1
    <3>2. CASE ~data
      <4>1. m_watchdog' + silence' >= Watchdog
        BY <2>4, <2>5, <2>6, <3>2 DEF Off
      <4>2. silence' \in Int
        BY <2>1 DEF Inv, Timers, Up, Off
      <4>3. PICK s \in Int : s = silence'
        BY <4>2
      <4>4. 0 + s >= Watchdog
        BY <2>6, <4>1, <4>3
      <4>5. s >= Watchdog
        BY <4>4, Delays
      <4>. QED
        BY <2>2, <4>3, <4>5
    <3>. QED
      BY <1>8, <2>5, <2>6, <3>1, <3>2, WhenWatched DEF Off
  <2>7. silent \/ overdue => silent' \/ overdue'
    BY <2>2
  <2>. QED
    BY <2>1, <2>3, <2>4, <2>5, <2>6, <2>7 DEF Silence
<1>9. CASE PeerSends
  <2>1. data' /\ UNCHANGED <<pc, stopped, queue, m_watchdog, silent, overdue, expired>>
    BY <1>9 DEF PeerSends
  <2>. QED
    BY <2>1, QueueUnchanged DEF Silence, Live
<1>10. CASE ReadStart \/ RunReturns \/ StartThread \/ PollTimesOut \/ Join \/ WakeUp
            \/ PeerAnswers \/ PeerCloses \/ Signal \/ UNCHANGED vars
  <2>1. UNCHANGED <<stopped, queue, data, m_watchdog, silence, silent, overdue, expired>>
    BY <1>10 DEF ReadStart, RunReturns, StartThread, PollTimesOut, Join, WakeUp,
                 PeerAnswers, PeerCloses, Signal, vars
  <2>2. pc' \in {"start", "wait", "join"} => pc \in {"start", "wait", "join"}
    BY <1>10 DEF ReadStart, RunReturns, StartThread, PollTimesOut, Join, WakeUp,
                 PeerAnswers, PeerCloses, Signal, vars
  <2>3. Live' => Live
    BY <2>1, <2>2 DEF Live
  <2>. QED
    BY <2>1, <2>3, QueueUnchanged DEF Silence
<1>. QED
  BY <1>1, <1>2, <1>3, <1>4, <1>5, <1>6, <1>7, <1>8, <1>9, <1>10
     DEF Next, MainSteps, ThreadSteps

(* The watchdog closes no connection whose peer has not been silent for    *)
(* its whole time, unless one decoding lasted that long: neither a wait    *)
(* that was cancelled and is still queued nor a slow database that answers *)
(* in that time does (IoHandler.cpp:70-84, 98-148).                        *)
THEOREM WatchdogCorrect == Spec => []WatchdogWasSilence
<1>1. Init => Silence
  BY DEF Init, Silence, Live, Off
<1>2. Silence => WatchdogWasSilence
  BY DEF Silence, WatchdogWasSilence
<1>. QED
  BY <1>1, <1>2, Invariance, SilenceStep, PTL DEF Spec

-----------------------------------------------------------------------------
(* Deadlines.                                                              *)

(* When time passes nothing is queued that is not behind a slow query.     *)
LEMMA WhenTimePasses ==
    ASSUME Inv, Tick
    PROVE  /\ pc \in {"wait", "join", "sleep"}
           /\ pc \in {"wait", "sleep"} => mainTimer > 0
           /\ pc = "wait" => ~signal
           /\ pc = "join" => slow'
           /\ Live /\ ~slow' =>
                 \/ connection = "connecting"
                 \/ ~Connecting /\ m_watchdog # Off /\ m_watchdog # 0
<1>1. /\ pc \in {"wait", "join", "sleep"}
      /\ pc \in {"wait", "sleep"} => mainTimer > 0
      /\ pc = "wait" => ~signal
      /\ pc = "join" => thread # "finished"
  BY DEF Tick, Ended, MainIdle, Inv, PlainTypes
<1>2. thread = "decoding" => slow'
  BY DEF Tick
<1>3. thread = "reactor" => /\ ~stopped /\ queue = <<"task">>
                            /\ SocketReady \o TimerReady = <<>>
  BY DEF Tick, ThreadIdle
<1>4. thread = "reactor" => Queued = {"task"}
  BY <1>3, Singles DEF Queued
<1>5. ASSUME pc = "join" PROVE slow'
  <2>1. thread \in {"reactor", "decoding"}
    BY <1>1, <1>5 DEF Inv, PlainTypes, Threads
  <2>2. thread # "reactor"
    BY <1>1, <1>3, <1>4, <1>5 DEF Inv, Threads
  <2>. QED
    BY <1>2, <2>1, <2>2
<1>6. ASSUME Live, ~slow'
      PROVE  \/ connection = "connecting"
             \/ ~Connecting /\ m_watchdog # Off /\ m_watchdog # 0
  <2>1. pc = "wait" /\ ~stopped
    BY <1>1, <1>5, <1>6 DEF Live
  <2>2. thread = "reactor"
    BY <1>2, <1>6, <2>1 DEF Inv, PlainTypes, Threads
  <2>3. OneOperation /\ Watched
    BY <1>6 DEF Inv, Service
  <2>4. SocketReady = <<>> /\ TimerReady = <<>>
    <3>1. SocketReady \in {<<>>, <<"connected">>, <<"connectFailed">>, <<"read">>,
                           <<"readFailed">>}
      BY DEF SocketReady
    <3>2. TimerReady \in {<<>>, <<"expired">>}
      BY DEF TimerReady
    <3>. QED
      BY <1>3, <2>2, <3>1, <3>2
  <2>5. connection # "accepted" /\ connection # "refused"
    BY <2>4 DEF SocketReady
  <2>6. CASE Connecting
    BY <2>5, <2>6 DEF Connecting
  <2>7. CASE ~Connecting
    <3>1. m_watchdog # Off
      BY <1>4, <2>2, <2>3, <2>7 DEF Watched, Unwatched
    <3>2. m_watchdog # 0
      BY <2>4 DEF TimerReady
    <3>. QED
      BY <2>7, <3>1, <3>2
  <2>. QED
    BY <2>6, <2>7
<1>. QED
  BY <1>1, <1>5, <1>6

LEMMA ObedienceStep == Inv /\ Obedience /\ [Next]_vars => Obedience'
<1>. SUFFICES ASSUME Inv, Obedience, [Next]_vars PROVE Obedience'
  OBVIOUS
<1>1. CASE ThreadSteps \/ PeerAnswers \/ PeerSends \/ PeerCloses \/ UNCHANGED vars
  <2>1. UNCHANGED <<pc, running, signal, mainTimer, slow, sinceSignal>>
    BY <1>1 DEF ThreadSteps, RunReactor, HandleConnect, HandleErrorOrClose, ReadComplete,
                ReadStart, WatchdogTimeout, WatchdogCancelled, RunReturns,
                PeerAnswers, PeerSends, PeerCloses, vars
  <2>. QED
    BY <2>1 DEF Obedience
<1>2. CASE Create \/ StartThread \/ WakeUp
  <2>1. /\ UNCHANGED <<running, signal, slow, sinceSignal>>
        /\ pc' \in {"start", "wait", "create"}
    BY <1>2 DEF Create, StartThread, WakeUp
  <2>. QED
    BY <2>1 DEF Obedience
<1>3. CASE SignalTaken
  <2>1. ~running' /\ pc' = "join" /\ UNCHANGED <<slow, sinceSignal>>
    BY <1>3 DEF SignalTaken
  <2>. QED
    BY <2>1 DEF Obedience
<1>4. CASE PollTimesOut
  <2>1. /\ pc = "wait" /\ ~signal /\ pc' \in {"wait", "join"}
        /\ UNCHANGED <<running, signal, slow, sinceSignal>>
    BY <1>4 DEF PollTimesOut
  <2>2. sinceSignal = Off
    BY <2>1 DEF Inv, Threads, Obedience
  <2>. QED
    BY <2>1, <2>2 DEF Obedience, Off
<1>5. CASE Join
  <2>1. UNCHANGED <<running, signal, slow>> /\ pc = "join"
    BY <1>5 DEF Join
  <2>2. CASE running
    <3>1. pc' = "sleep" /\ mainTimer' = RetryDelay /\ UNCHANGED sinceSignal
      BY <1>5, <2>2 DEF Join
    <3>2. ~slow => sinceSignal =< 0 /\ sinceSignal + RetryDelay =< RetryDelay
      BY <2>1, <2>2, Delays DEF Obedience, Inv, Timers, Off
    <3>. QED
      BY <2>1, <3>1, <3>2, Delays DEF Obedience
  <2>3. CASE ~running
    <3>1. pc' = "exit" /\ sinceSignal' = Off
      BY <1>5, <2>3 DEF Join
    <3>. QED
      BY <3>1, Delays DEF Obedience, Off
  <2>. QED
    BY <2>2, <2>3
<1>6. CASE Signal
  <2>1. UNCHANGED <<running, mainTimer, slow>>
    BY <1>6 DEF Signal
  <2>2. CASE masked
    <3>1. /\ signal' /\ pc' = pc
          /\ sinceSignal' = sinceSignal \/ sinceSignal' = 0
      BY <1>6, <2>2 DEF Signal
    <3>2. /\ sinceSignal' =< 0 \/ sinceSignal' = sinceSignal
          /\ mainTimer \in Nat /\ sinceSignal \in Int
          /\ running' /\ sinceSignal' # Off => signal'
      BY <3>1 DEF Inv, Timers, Off
    <3>3. ~slow => /\ sinceSignal' =< RetryDelay
                   /\ pc = "sleep" => sinceSignal' + mainTimer =< RetryDelay
                   /\ pc = "join" /\ running => sinceSignal' =< 0
      BY <3>1, <3>2, Delays DEF Obedience
    <3>. QED
      BY <2>1, <3>1, <3>2, <3>3 DEF Obedience
  <2>3. CASE ~masked
    <3>1. pc' = "killed" /\ UNCHANGED <<signal, sinceSignal>>
      BY <1>6, <2>3 DEF Signal
    <3>. QED
      BY <2>1, <3>1 DEF Obedience
  <2>. QED
    BY <2>2, <2>3
<1>7. CASE Tick
  <2>1. /\ sinceSignal' = Up(sinceSignal, RetryDelay) /\ mainTimer' = Down(mainTimer)
        /\ UNCHANGED <<pc, running, signal>>
    BY <1>7 DEF Tick
  <2>2. slow => slow'
    BY <1>7 DEF Tick
  <2>3. /\ pc \in {"wait", "join", "sleep"}
        /\ pc \in {"wait", "sleep"} => mainTimer > 0
        /\ pc = "wait" => ~signal
        /\ pc = "join" => slow'
    BY <1>7, WhenTimePasses
  <2>4. pc = "wait" => sinceSignal = Off
    BY <2>3 DEF Inv, Threads, Obedience
  <2>5. sinceSignal' # Off => sinceSignal # Off
    BY <2>1 DEF Up
  <2>6. ~slow' => /\ sinceSignal' =< RetryDelay
                  /\ pc = "sleep" => sinceSignal' + mainTimer' =< RetryDelay
    BY <2>1, <2>2, <2>3, <2>4, Delays DEF Inv, Timers, Obedience, Up, Down, Off
  <2>7. pc = "sleep" => mainTimer' =< RetryDelay
    BY <2>1, Delays DEF Inv, Timers, Obedience, Down
  <2>. QED
    BY <2>1, <2>3, <2>5, <2>6, <2>7 DEF Obedience
<1>. QED
  BY <1>1, <1>2, <1>3, <1>4, <1>5, <1>6, <1>7 DEF Next, MainSteps

(* A signal ends the program within one RetryDelay, as long as no query is *)
(* slow: main obeys it at once, or when it wakes up (main.cpp:112-126).    *)
THEOREM ExitCorrect == Spec => []ExitsInTime
<1>1. Init => Obedience
  BY Delays DEF Init, Obedience, Off
<1>2. Obedience => ExitsInTime
  BY DEF Obedience, ExitsInTime
<1>. QED
  BY <1>1, <1>2, Invariance, ObedienceStep, PTL DEF Spec

LEMMA Clocks ==
    Inv => /\ mainTimer \in Nat /\ sinceContact \in Nat
           /\ connectTimer \in Nat /\ connectTimer =< ConnectTimeout
           /\ m_watchdog \in Int /\ (m_watchdog # Off => m_watchdog \in Nat)
BY Delays DEF Inv, Timers, Off

LEMMA HandlerContact ==
    ASSUME Inv, Contact, ThreadSteps PROVE Contact'
<1>1. UNCHANGED <<pc, running, mainTimer, slow, connectTimer>>
  BY DEF ThreadSteps, RunReactor, HandleConnect, HandleErrorOrClose, ReadComplete,
         ReadStart, WatchdogTimeout, WatchdogCancelled, RunReturns, DoClose
<1>2. CASE RunReactor
  <2>1. /\ connection' = CASE connection = "accepted" -> "up"
                           [] connection = "refused"  -> "closed"
                           [] OTHER                   -> connection
        /\ m_watchdog' = IF m_watchdog = 0 THEN Off ELSE m_watchdog
        /\ UNCHANGED <<stopped, sinceContact>>
    BY <1>2 DEF RunReactor
  <2>2. connection' = connection \/ ~Connecting'
    BY <2>1 DEF Connecting
  <2>3. Connecting' => Connecting
    BY <2>2 DEF Connecting
  <2>4. connection' = "connecting" => connection = "connecting"
    BY <2>2 DEF Connecting
  <2>5. m_watchdog' # Off => m_watchdog' = m_watchdog
    BY <2>1
  <2>6. Live' => Live
    BY <1>1, <2>1 DEF Live
  <2>. QED
    BY <1>1, <2>1, <2>3, <2>4, <2>5, <2>6 DEF Contact
<1>3. CASE HandleConnect \/ ReadComplete
  <2>1. /\ m_watchdog' = Watchdog /\ sinceContact' = 0
        /\ UNCHANGED <<connection, stopped>>
    BY <1>3 DEF HandleConnect, ReadComplete, ResetWatchdog
  <2>2. pc \in {"wait", "join"} /\ ~stopped
    <3>1. AtHead("connected") \/ AtHead("read")
      BY <1>3 DEF HandleConnect, ReadComplete
    <3>. QED
      BY <3>1, Taken
  <2>. QED
    BY <1>1, <2>1, <2>2, Clocks, Delays DEF Contact
<1>4. CASE HandleErrorOrClose \/ WatchdogTimeout
  <2>1. connection' = "closed" /\ stopped' /\ UNCHANGED sinceContact
    BY <1>4 DEF HandleErrorOrClose, WatchdogTimeout, DoClose
  <2>2. pc \in {"wait", "join"} /\ Live
    <3>1. PICK kind : AtHead(kind)
      BY <1>4 DEF HandleErrorOrClose, WatchdogTimeout
    <3>. QED
      BY <3>1, Taken
  <2>3. ~slow /\ running =>
            /\ pc = "wait" => sinceContact + mainTimer =< Longest + PollTimeout
            /\ sinceContact =< Longest + PollTimeout
    BY <2>2, Clocks, Delays DEF Contact
  <2>4. ~Live'
    BY <2>1 DEF Live
  <2>. QED
    BY <1>1, <2>1, <2>2, <2>3, <2>4 DEF Contact
<1>5. CASE ReadStart \/ WatchdogCancelled \/ RunReturns
  <2>1. UNCHANGED <<connection, stopped, m_watchdog, sinceContact>>
    BY <1>5 DEF ReadStart, WatchdogCancelled, RunReturns
  <2>. QED
    BY <1>1, <2>1 DEF Contact, Connecting, Live
<1>. QED
  BY <1>2, <1>3, <1>4, <1>5 DEF ThreadSteps

LEMMA MainContact ==
    ASSUME Inv, Contact, MainSteps PROVE Contact'
<1>1. CASE Create
  <2>1. /\ pc' = "start" /\ sinceContact' = 0 /\ m_watchdog' = Off
        /\ \/ connection' = "connecting" /\ connectTimer' = ConnectTimeout
           \/ connection' = "closed"
    BY <1>1 DEF Create
  <2>. QED
    BY <2>1, Delays DEF Contact, Connecting
<1>2. CASE StartThread
  <2>1. /\ pc = "start" /\ pc' = "wait" /\ mainTimer' = PollTimeout
        /\ UNCHANGED <<running, stopped, connection, connectTimer, m_watchdog, slow,
                       sinceContact>>
    BY <1>2 DEF StartThread
  <2>2. ~slow /\ running => sinceContact = 0
    BY <2>1 DEF Contact
  <2>3. Live' = Live /\ Connecting' = Connecting
    BY <2>1 DEF Live, Connecting
  <2>. QED
    BY <2>1, <2>2, <2>3, Delays DEF Contact
<1>3. CASE SignalTaken
  <2>1. pc' = "join" /\ ~running' /\ UNCHANGED <<connection, connectTimer>>
    BY <1>3 DEF SignalTaken
  <2>. QED
    BY <2>1 DEF Contact
<1>4. CASE PollTimesOut
  <2>1. /\ pc = "wait"
        /\ UNCHANGED <<running, stopped, connection, connectTimer, m_watchdog, slow,
                       sinceContact>>
        /\ \/ m_active /\ pc' = "wait" /\ mainTimer' = PollTimeout
           \/ ~m_active /\ pc' = "join" /\ UNCHANGED mainTimer
    BY <1>4 DEF PollTimesOut
  <2>2. m_active <=> ~stopped
    BY <2>1 DEF Inv, Threads
  <2>3. CASE m_active /\ pc' = "wait" /\ mainTimer' = PollTimeout
    <3>1. ~stopped' /\ (Live' => Live) /\ (Connecting' => Connecting)
      BY <2>1, <2>2, <2>3 DEF Live, Connecting
    <3>. QED
      BY <2>1, <2>3, <3>1, Delays DEF Contact
  <2>4. CASE ~m_active /\ pc' = "join"
    <3>1. stopped /\ ~Live'
      BY <2>1, <2>2, <2>4 DEF Live
    <3>2. ~slow /\ running => sinceContact =< Longest + PollTimeout
      BY <2>1, <3>1, Clocks, Delays DEF Contact
    <3>. QED
      BY <2>1, <2>4, <3>1, <3>2 DEF Contact
  <2>. QED
    BY <2>1, <2>3, <2>4
<1>5. CASE Join
  <2>1. /\ pc = "join" /\ UNCHANGED <<running, connection, connectTimer, slow, sinceContact>>
        /\ pc' = "exit" \/ (pc' = "sleep" /\ mainTimer' = RetryDelay)
    BY <1>5 DEF Join
  <2>2. ~Live'
    BY <2>1 DEF Live
  <2>3. ~slow /\ running => sinceContact + RetryDelay =< Patience
    BY <2>1, Clocks, Delays DEF Contact
  <2>. QED
    BY <2>1, <2>2, <2>3 DEF Contact
<1>6. CASE WakeUp
  <2>1. /\ pc = "sleep" /\ pc' = "create"
        /\ UNCHANGED <<running, connection, connectTimer, slow, sinceContact>>
    BY <1>6 DEF WakeUp
  <2>2. ~Live'
    BY <2>1 DEF Live
  <2>3. ~slow /\ running => sinceContact =< Patience
    BY <2>1, Clocks, Delays DEF Contact
  <2>. QED
    BY <2>1, <2>2, <2>3 DEF Contact
<1>. QED
  BY <1>1, <1>2, <1>3, <1>4, <1>5, <1>6 DEF MainSteps

LEMMA TickContact ==
    ASSUME Inv, Contact, Tick PROVE Contact'
<1>1. /\ mainTimer' = Down(mainTimer) /\ m_watchdog' = Down(m_watchdog)
      /\ connectTimer' = Down(connectTimer)
      /\ connection' = IF connection = "connecting" /\ connectTimer' = 0
                       THEN "refused" ELSE connection
      /\ sinceContact' = Up(sinceContact, Patience)
      /\ UNCHANGED <<pc, running, stopped>>
  BY DEF Tick
<1>2. slow => slow'
  BY DEF Tick
<1>3. /\ mainTimer' = IF mainTimer > 0 THEN mainTimer - 1 ELSE mainTimer
      /\ m_watchdog' = IF m_watchdog > 0 THEN m_watchdog - 1 ELSE m_watchdog
      /\ connectTimer' = IF connectTimer > 0 THEN connectTimer - 1 ELSE connectTimer
      /\ sinceContact' \in {sinceContact, sinceContact + 1}
  BY <1>1 DEF Down, Up
<1>4. connection' = "connecting" => connection = "connecting" /\ connectTimer' > 0
  BY <1>1, <1>3, Clocks
<1>5. Connecting' => Connecting
  BY <1>1 DEF Connecting
<1>6. Live' = Live
  BY <1>1 DEF Live
<1>7. /\ pc \in {"wait", "join", "sleep"}
      /\ pc \in {"wait", "sleep"} => mainTimer > 0
      /\ pc = "join" => slow'
  BY WhenTimePasses
<1>8. ASSUME Live, ~slow', running
      PROVE  /\ Connecting => sinceContact' + connectTimer' =< ConnectTimeout
             /\ m_watchdog' # Off => sinceContact' + m_watchdog' =< Watchdog
             /\ sinceContact' =< Longest
  <2>1. \/ connection = "connecting"
        \/ ~Connecting /\ m_watchdog # Off /\ m_watchdog # 0
    BY <1>8, WhenTimePasses
  <2>2. ~slow
    BY <1>2, <1>8
  <2>3. CASE connection = "connecting"
    <3>1. Connecting /\ connectTimer > 0 /\ sinceContact + connectTimer =< ConnectTimeout
      BY <1>8, <2>2, <2>3 DEF Contact, Connecting
    <3>2. m_watchdog = Off
      BY <1>8, <3>1 DEF Inv, Service, Watched, Unwatched
    <3>3. m_watchdog' = Off
      BY <1>3, <3>2 DEF Off
    <3>. QED
      BY <1>3, <3>1, <3>3, Clocks, Delays
  <2>4. CASE ~Connecting /\ m_watchdog # Off /\ m_watchdog # 0
    <3>1. m_watchdog \in Nat /\ m_watchdog > 0 /\ sinceContact + m_watchdog =< Watchdog
      BY <1>8, <2>2, <2>4, Clocks DEF Contact
    <3>. QED
      BY <1>3, <2>4, <3>1, Clocks, Delays
  <2>. QED
    BY <2>1, <2>3, <2>4
<1>9. ASSUME ~slow', running
      PROVE  /\ pc = "wait" /\ stopped => sinceContact' + mainTimer' =< Longest + PollTimeout
             /\ pc = "sleep" => sinceContact' + mainTimer' =< Patience
  <2>1. /\ pc = "wait" /\ stopped => sinceContact + mainTimer =< Longest + PollTimeout
        /\ pc = "sleep" => sinceContact + mainTimer =< Patience
    BY <1>2, <1>9 DEF Contact
  <2>. QED
    BY <1>3, <1>7, <2>1, Clocks, Delays
<1>10. pc = "wait" => mainTimer' =< PollTimeout
  BY <1>3, Clocks, Delays DEF Contact
<1>. QED
  BY <1>1, <1>4, <1>5, <1>6, <1>7, <1>8, <1>9, <1>10 DEF Contact

LEMMA ContactStep == Inv /\ Contact /\ [Next]_vars => Contact'
<1>. SUFFICES ASSUME Inv, Contact, [Next]_vars PROVE Contact'
  OBVIOUS
<1>1. CASE PeerAnswers \/ PeerSends \/ PeerCloses \/ Signal \/ UNCHANGED vars
  <2>1. UNCHANGED <<running, stopped, mainTimer, connectTimer, m_watchdog, slow, sinceContact>>
    BY <1>1 DEF PeerAnswers, PeerSends, PeerCloses, Signal, vars
  <2>2. /\ Connecting' <=> Connecting
        /\ connection' = "connecting" => connection = "connecting"
    BY <1>1 DEF PeerAnswers, PeerSends, PeerCloses, Signal, vars, Connecting
  <2>3. pc' = pc \/ pc' = "killed"
    BY <1>1 DEF PeerAnswers, PeerSends, PeerCloses, Signal, vars
  <2>4. CASE pc' = pc
    BY <2>1, <2>2, <2>4 DEF Contact, Live
  <2>5. CASE pc' = "killed"
    BY <2>1, <2>2, <2>5 DEF Contact, Live
  <2>. QED
    BY <2>3, <2>4, <2>5
<1>. QED
  BY <1>1, HandlerContact, MainContact, TickContact DEF Next

(* Between an attempt, a connect or bytes and the next of them at most     *)
(* Patience passes: the timeout of the connect or of the watchdog, one     *)
(* poll and one sleep, unless a query is slow (IoHandler.cpp:73,           *)
(* main.cpp:85, 125).                                                      *)
THEOREM ReconnectCorrect == Spec => []ReconnectsInTime
<1>1. Init => Contact
  BY Delays DEF Init, Contact, Live
<1>2. Inv /\ Contact => ReconnectsInTime
  <2>. SUFFICES ASSUME Inv, Contact, ~slow, ~Ended, running
                PROVE  sinceContact =< Patience
    BY DEF ReconnectsInTime
  <2>1. CASE pc = "start"
    BY <2>1, Delays DEF Contact
  <2>2. CASE pc = "wait"
    <3>1. CASE stopped
      BY <2>2, <3>1, Clocks, Delays DEF Contact
    <3>2. CASE ~stopped
      BY <2>2, <3>2, Clocks, Delays DEF Contact, Live
    <3>. QED
      BY <3>1, <3>2
  <2>3. CASE pc \in {"join", "sleep", "create"}
    BY <2>3, Clocks, Delays DEF Contact
  <2>. QED
    BY <2>1, <2>2, <2>3 DEF Inv, PlainTypes, Ended
<1>. QED
  BY <1>1, <1>2, Invariance, ContactStep, PTL DEF Spec
=============================================================================
