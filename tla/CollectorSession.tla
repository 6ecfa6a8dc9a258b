-------------------------- MODULE CollectorSession --------------------------
(***************************************************************************)
(* The life of a connection of the collector: the loop of main, which      *)
(* creates an IoHandler, runs it in a thread, waits for a signal or for    *)
(* the handler to become inactive, joins the thread and tries again; and   *)
(* the IoHandler, an asio io_service with a socket and a watchdog timer.   *)
(* What a completed read does with its bytes is FrameDecoder's business;   *)
(* here it is the span of time in which the thread is busy.                *)
(*                                                                         *)
(* Time is discrete: a Tick passes only when neither thread has anything   *)
(* to do at once.  Timers count down to 0.  The handlers that are due wait *)
(* in the queue of the io_service, in which "task" marks the place where   *)
(* the reactor looks for operations that have completed meanwhile.         *)
(***************************************************************************)
EXTENDS Integers, Sequences, SequencesExt, FiniteSetsExt

CONSTANTS
    Watchdog,        \* silence after which the connection is closed
    PollTimeout,     \* timeout of sigtimedwait
    RetryDelay,      \* sleep before the next attempt
    ConnectTimeout   \* time after which the kernel gives a connect up

ASSUME SessionAssumption ==
    {Watchdog, PollTimeout, RetryDelay, ConnectTimeout} \subseteq Nat \ {0}

VARIABLES
    pc,               \* where main is
    running,          \* main's flag
    masked,           \* the signals are blocked
    signal,           \* one is pending
    mainTimer,        \* what is left of main's sigtimedwait or sleep
    thread,           \* where the thread that runs the io_service is
    stopped, queue,   \* the io_service
    m_active,
    connection,       \* the socket, and how its connect went
    connectTimer,
    data, reading,    \* bytes to read; an async_read_some is outstanding
    m_watchdog,       \* what is left of the timer, or Off
    silence, silent,  \* history: time since the connect or since the peer last
                      \* sent, and whether it reached Watchdog
    overdue,          \* history: one decoding lasted as long as Watchdog
    expired,          \* history: the watchdog closed the connection
    slow,             \* history: decoding once waited for the database
    sinceSignal,      \* history: age of a signal not yet obeyed, or Off
    sinceContact      \* history: time since an attempt, a connect or a read

mainVars    == <<pc, running, masked, signal, mainTimer>>
serviceVars == <<thread, stopped, queue, m_active>>
socketVars  == <<connection, connectTimer, data, reading>>
historyVars == <<silence, silent, overdue, expired, slow, sinceSignal,
                 sinceContact>>
vars == <<mainVars, serviceVars, socketVars, m_watchdog, historyVars>>

Off == -1

Connecting == connection \in {"connecting", "accepted", "refused"}

Init ==
    /\ pc = "create" /\ running = TRUE /\ masked = FALSE /\ signal = FALSE
    /\ mainTimer = 0
    /\ thread = "none" /\ stopped = FALSE /\ queue = <<>> /\ m_active = FALSE
    /\ connection = "closed" /\ connectTimer = 0
    /\ data = FALSE /\ reading = FALSE
    /\ m_watchdog = Off
    /\ silence = 0 /\ silent = FALSE /\ overdue = FALSE
    /\ expired = FALSE /\ slow = FALSE
    /\ sinceSignal = Off /\ sinceContact = 0

-----------------------------------------------------------------------------
(* The IoHandler.                                                          *)

(* The operations of the socket that are cut off by closing it complete    *)
(* with operation_aborted.                                                 *)
Aborted == IF Connecting \/ reading THEN <<"aborted">> ELSE <<>>

(* Mutant: the io_service is not stopped.                                  *)
DoCloseWithoutStop(rest) ==
    /\ connection' = "closed" /\ data' = FALSE /\ reading' = FALSE
    /\ m_active' = FALSE
    /\ queue' = rest \o Aborted
    /\ UNCHANGED <<stopped, connectTimer>>

(* doClose, called from a handler with rest queued behind it.              *)
DoClose(rest) ==
    /\ connection' = "closed" /\ data' = FALSE /\ reading' = FALSE
    /\ m_active' = FALSE
    /\ stopped' = TRUE
    /\ queue' = rest \o Aborted
    /\ UNCHANGED connectTimer

(* expires_from_now cancels a wait that has not yet completed, whose       *)
(* handler then runs with operation_aborted; async_wait starts another.    *)
ResetWatchdog(rest) ==
    /\ queue' = IF m_watchdog = Off THEN rest ELSE Append(rest, "cancelled")
    /\ m_watchdog' = Watchdog

(* The reactor: completed operations enter the queue, those of the socket  *)
(* before those of the timer.                                              *)
Readable == reading /\ data
HungUp   == reading /\ ~data /\ connection = "lost"

SocketReady ==
    CASE connection = "accepted" -> <<"connected">>
      [] connection = "refused"  -> <<"connectFailed">>
      [] Readable                -> <<"read">>
      [] HungUp                  -> <<"readFailed">>
      [] OTHER                   -> <<>>

TimerReady == IF m_watchdog = 0 THEN <<"expired">> ELSE <<>>

AtHead(kind) == thread = "reactor" /\ ~stopped /\ queue # <<>> /\ Head(queue) = kind

RunReactor ==
    /\ AtHead("task")
    /\ Len(queue) > 1 \/ SocketReady \o TimerReady # <<>>
    /\ queue' = Tail(queue) \o SocketReady \o TimerReady \o <<"task">>
    /\ connection' = CASE connection = "accepted" -> "up"
                       [] connection = "refused"  -> "closed"
                       [] OTHER                   -> connection
    /\ reading' = (reading /\ ~Readable /\ ~HungUp)
    /\ m_watchdog' = IF m_watchdog = 0 THEN Off ELSE m_watchdog
    /\ UNCHANGED <<mainVars, thread, stopped, m_active, connectTimer, data,
                   historyVars>>

(* Mutant: no watchdog until the first bytes.                              *)
HandleConnectUnwatched ==
    /\ AtHead("connected")
    /\ queue' = Tail(queue)
    /\ reading' = TRUE
    /\ silence' = 0 /\ silent' = FALSE /\ overdue' = FALSE /\ sinceContact' = 0
    /\ UNCHANGED <<mainVars, thread, stopped, m_active, connection, connectTimer,
                   data, m_watchdog, expired, slow, sinceSignal>>

HandleConnect ==
    /\ AtHead("connected")
    /\ ResetWatchdog(Tail(queue))
    /\ reading' = TRUE
    /\ silence' = 0 /\ silent' = FALSE /\ overdue' = FALSE /\ sinceContact' = 0
    /\ UNCHANGED <<mainVars, thread, stopped, m_active, connection, connectTimer,
                   data, expired, slow, sinceSignal>>

(* handleConnect and readComplete with an error, and the close() of main.  *)
HandleErrorOrClose ==
    /\ \E kind \in {"connectFailed", "readFailed", "aborted", "close"} : AtHead(kind)
    /\ DoClose(Tail(queue))
    /\ UNCHANGED <<mainVars, thread, m_watchdog, historyVars>>

(* Mutant: the timer is set but not waited for.                            *)
ReadCompleteUnwatched ==
    /\ AtHead("read")
    /\ queue' = IF m_watchdog = Off THEN Tail(queue) ELSE Append(Tail(queue), "cancelled")
    /\ m_watchdog' = Off
    /\ data' = FALSE
    /\ thread' = "decoding"
    /\ sinceContact' = 0
    /\ UNCHANGED <<mainVars, stopped, m_active, connection, connectTimer, reading,
                   silence, silent, overdue, expired, slow, sinceSignal>>

(* readComplete: the watchdog is reset, then the bytes are decoded.        *)
ReadComplete ==
    /\ AtHead("read")
    /\ ResetWatchdog(Tail(queue))
    /\ data' = FALSE
    /\ thread' = "decoding"
    /\ sinceContact' = 0
    /\ UNCHANGED <<mainVars, stopped, m_active, connection, connectTimer, reading,
                   silence, silent, overdue, expired, slow, sinceSignal>>

(* Its end, readStart.                                                     *)
ReadStart ==
    /\ thread = "decoding"
    /\ thread' = "reactor"
    /\ reading' = TRUE
    /\ UNCHANGED <<mainVars, stopped, queue, m_active, connection, connectTimer,
                   data, m_watchdog, historyVars>>

WatchdogTimeout ==
    /\ AtHead("expired")
    /\ DoClose(Tail(queue))
    /\ expired' = TRUE
    /\ UNCHANGED <<mainVars, thread, m_watchdog, silence, silent, overdue,
                   slow, sinceSignal, sinceContact>>

(* Mutant: the error code of the handler is not looked at.                 *)
WatchdogCancelledCloses ==
    /\ AtHead("cancelled")
    /\ DoClose(Tail(queue))
    /\ expired' = TRUE
    /\ UNCHANGED <<mainVars, thread, m_watchdog, silence, silent, overdue,
                   slow, sinceSignal, sinceContact>>

(* watchdogTimeout with operation_aborted.                                 *)
WatchdogCancelled ==
    /\ AtHead("cancelled")
    /\ queue' = Tail(queue)
    /\ UNCHANGED <<mainVars, thread, stopped, m_active, socketVars, m_watchdog,
                   historyVars>>

(* run returns when the io_service is stopped or has nothing left to do.   *)
OutOfWork ==
    /\ queue = <<"task">>
    /\ ~Connecting /\ ~reading /\ m_watchdog = Off

RunReturns ==
    /\ thread = "reactor" /\ (stopped \/ OutOfWork)
    /\ thread' = "finished"
    /\ UNCHANGED <<mainVars, stopped, queue, m_active, socketVars, m_watchdog,
                   historyVars>>

-----------------------------------------------------------------------------
(* main.                                                                   *)

(* A new IoHandler, the last one being destroyed.  Its constructor starts  *)
(* the connect, or closes the handler when the name does not resolve.      *)
Create ==
    /\ pc = "create"
    /\ pc' = "start"
    /\ queue' = <<"task">>
    /\ data' = FALSE /\ reading' = FALSE /\ m_watchdog' = Off
    /\ silence' = 0 /\ silent' = FALSE /\ overdue' = FALSE /\ expired' = FALSE
    /\ sinceContact' = 0
    /\ \/ /\ connection' = "connecting" /\ connectTimer' = ConnectTimeout
          /\ m_active' = TRUE /\ stopped' = FALSE
       \/ /\ connection' = "closed" /\ connectTimer' = 0
          /\ m_active' = FALSE /\ stopped' = TRUE
    /\ UNCHANGED <<running, masked, signal, mainTimer, thread, slow, sinceSignal>>

(* The thread is started, and the signals stay blocked from here on.       *)
StartThread ==
    /\ pc = "start"
    /\ thread' = "reactor"
    /\ masked' = TRUE
    /\ pc' = "wait" /\ mainTimer' = PollTimeout
    /\ UNCHANGED <<running, signal, stopped, queue, m_active, socketVars,
                   m_watchdog, historyVars>>

(* Mutant: the loop goes on waiting after the signal.                      *)
SignalTakenAndWait ==
    /\ pc = "wait" /\ signal
    /\ signal' = FALSE /\ running' = FALSE
    /\ queue' = Append(queue, "close")
    /\ mainTimer' = PollTimeout
    /\ UNCHANGED <<pc, masked, thread, stopped, m_active, socketVars, m_watchdog,
                   historyVars>>

(* Mutant: the handler is not closed.                                      *)
SignalTakenWithoutClose ==
    /\ pc = "wait" /\ signal
    /\ signal' = FALSE /\ running' = FALSE
    /\ pc' = "join"
    /\ UNCHANGED <<masked, mainTimer, serviceVars, socketVars, m_watchdog,
                   historyVars>>

(* sigtimedwait returns a signal: the thread is asked to close.            *)
SignalTaken ==
    /\ pc = "wait" /\ signal
    /\ signal' = FALSE /\ running' = FALSE
    /\ queue' = Append(queue, "close")
    /\ pc' = "join"
    /\ UNCHANGED <<masked, mainTimer, thread, stopped, m_active, socketVars,
                   m_watchdog, historyVars>>

(* It times out: on it goes while the handler is active.                   *)
PollTimesOut ==
    /\ pc = "wait" /\ ~signal /\ mainTimer = 0
    /\ IF m_active THEN mainTimer' = PollTimeout /\ UNCHANGED pc
                   ELSE pc' = "join" /\ UNCHANGED mainTimer
    /\ UNCHANGED <<running, masked, signal, serviceVars, socketVars, m_watchdog,
                   historyVars>>

Join ==
    /\ pc = "join" /\ thread = "finished"
    /\ thread' = "none"
    /\ IF running THEN pc' = "sleep" /\ mainTimer' = RetryDelay /\ UNCHANGED sinceSignal
                  ELSE pc' = "exit" /\ sinceSignal' = Off /\ UNCHANGED mainTimer
    /\ UNCHANGED <<running, masked, signal, stopped, queue, m_active, socketVars,
                   m_watchdog, silence, silent, overdue, expired, slow,
                   sinceContact>>

WakeUp ==
    /\ pc = "sleep" /\ mainTimer = 0
    /\ pc' = "create"
    /\ UNCHANGED <<running, masked, signal, mainTimer, serviceVars, socketVars,
                   m_watchdog, historyVars>>

-----------------------------------------------------------------------------
(* The world: the peer, the user and the clock.                            *)

PeerAnswers ==
    /\ connection = "connecting"
    /\ \E answer \in {"accepted", "refused"} : connection' = answer
    /\ UNCHANGED <<mainVars, serviceVars, connectTimer, data, reading, m_watchdog,
                   historyVars>>

(* While earlier bytes wait to be read, too.                               *)
PeerSends ==
    /\ connection = "up"
    /\ data' = TRUE
    /\ silence' = 0
    /\ UNCHANGED <<mainVars, serviceVars, connection, connectTimer, reading,
                   m_watchdog, silent, overdue, expired, slow, sinceSignal,
                   sinceContact>>

PeerCloses ==
    /\ connection = "up"
    /\ connection' = "lost"
    /\ UNCHANGED <<mainVars, serviceVars, connectTimer, data, reading, m_watchdog,
                   historyVars>>

Ended == pc \in {"exit", "killed"}

(* SIGINT, SIGQUIT or SIGTERM: pending once blocked, deadly before.        *)
Signal ==
    /\ ~Ended /\ ~signal
    /\ IF masked
       THEN /\ signal' = TRUE
            /\ sinceSignal' = IF sinceSignal = Off THEN 0 ELSE sinceSignal
            /\ UNCHANGED pc
       ELSE /\ pc' = "killed"
            /\ UNCHANGED <<signal, sinceSignal>>
    /\ UNCHANGED <<running, masked, mainTimer, serviceVars, socketVars, m_watchdog,
                   silence, silent, overdue, expired, slow, sinceContact>>

MainSteps ==
    Create \/ StartThread \/ SignalTaken \/ PollTimesOut \/ Join \/ WakeUp

ThreadSteps ==
    \/ RunReactor \/ HandleConnect \/ HandleErrorOrClose \/ ReadComplete
    \/ ReadStart \/ WatchdogTimeout \/ WatchdogCancelled \/ RunReturns

(* Nobody has anything to do before time passes.                           *)
MainIdle ==
    CASE pc \in {"create", "start"} -> FALSE
      [] pc = "wait"                -> ~signal /\ mainTimer > 0
      [] pc = "join"                -> thread # "finished"
      [] pc = "sleep"               -> mainTimer > 0
      [] OTHER                      -> TRUE

ThreadIdle ==
    CASE thread = "reactor"  -> /\ ~stopped /\ queue = <<"task">>
                                /\ SocketReady \o TimerReady = <<>>
                                /\ ~OutOfWork
      [] thread = "decoding" -> TRUE
      [] OTHER               -> TRUE

Down(t) == IF t > 0 THEN t - 1 ELSE t
Up(t, limit) == IF t = Off \/ t > limit THEN t ELSE t + 1

(* The longest a connection may be without a sign of life.                 *)
Patience == Max({Watchdog, ConnectTimeout}) + PollTimeout + RetryDelay

Tick ==
    /\ ~Ended /\ MainIdle /\ ThreadIdle
    /\ mainTimer' = Down(mainTimer)
    /\ m_watchdog' = Down(m_watchdog)
    /\ connectTimer' = Down(connectTimer)
    /\ connection' = IF connection = "connecting" /\ connectTimer' = 0
                     THEN "refused" ELSE connection
    /\ silence' = Up(silence, Watchdog)
    /\ silent' = (silent \/ silence' >= Watchdog)
    /\ overdue' = (overdue \/ (thread = "decoding" /\ m_watchdog' = 0))
    /\ slow' = (slow \/ thread = "decoding")
    /\ sinceSignal' = Up(sinceSignal, RetryDelay)
    /\ sinceContact' = Up(sinceContact, Patience)
    /\ UNCHANGED <<pc, running, masked, signal, serviceVars, data, reading, expired>>

Next ==
    \/ MainSteps \/ ThreadSteps
    \/ PeerAnswers \/ PeerSends \/ PeerCloses
    \/ Signal \/ Tick

Spec == Init /\ [][Next]_vars

(* Both threads are scheduled, queries come to an end, and time goes on.   *)
FairSpec == Spec /\ WF_vars(MainSteps) /\ WF_vars(ThreadSteps) /\ WF_vars(Tick)

-----------------------------------------------------------------------------

Handlers == {"connected", "connectFailed", "read", "readFailed", "aborted",
             "expired", "cancelled", "close"}

TypeOK ==
    /\ pc \in {"create", "start", "wait", "join", "sleep", "exit", "killed"}
    /\ {running, masked, signal, stopped, m_active, data, reading, silent,
        overdue, expired, slow} \subseteq BOOLEAN
    /\ mainTimer \in 0..Max({PollTimeout, RetryDelay})
    /\ thread \in {"none", "reactor", "decoding", "finished"}
    /\ queue \in Seq(Handlers \union {"task"})
    /\ \A i, j \in DOMAIN queue : queue[i] = queue[j] => i = j
    /\ connection \in {"connecting", "accepted", "refused", "up", "lost", "closed"}
    /\ connectTimer \in 0..ConnectTimeout
    /\ m_watchdog \in {Off} \union 0..Watchdog
    /\ silence \in 0..Watchdog + 1
    /\ sinceSignal \in {Off} \union 0..RetryDelay + 1
    /\ sinceContact \in 0..Patience + 1

(* As long as main waits for an active handler its thread runs, and there  *)
(* is always something that wakes the thread: the connect, or a read and   *)
(* the watchdog together (IoHandler.cpp:59-98, main.cpp:114-120).          *)
SessionAlive ==
    pc = "wait" /\ m_active =>
        /\ thread \in {"reactor", "decoding"}
        /\ thread = "reactor" /\ queue = <<"task">> =>
              Connecting \/ (reading /\ (m_watchdog # Off))

(* Nothing is decoded, and so nothing written to the database, after the   *)
(* connection was closed or while main may destroy the handler             *)
(* (IoHandler.cpp:158-168, main.cpp:122).                                  *)
DecodesOnlyWhenActive ==
    thread = "decoding" => m_active /\ pc \in {"wait", "join"}

(* The watchdog closes a connection only if its peer has sent nothing for  *)
(* the watchdog's whole time, or the thread was kept from looking for that *)
(* time by a single decoding.  A slow one that takes less than that costs  *)
(* no connection whose peer speaks meanwhile (IoHandler.cpp:70-84,         *)
(* 98-146).                                                                *)
WatchdogWasSilence == expired => silent \/ overdue

(* A signal ends the program within one RetryDelay, if the database and    *)
(* the name service are not slow (main.cpp:112-126).                       *)
ExitsInTime == ~slow => sinceSignal =< RetryDelay

(* A connection that says nothing is replaced by another attempt in time   *)
(* (IoHandler.cpp:73, main.cpp:85, 125).                                   *)
ReconnectsInTime == ~slow /\ ~Ended /\ running => sinceContact =< Patience

(* However slow the database is, a signal ends the program in the end.     *)
SignalEndsIt == signal ~> Ended
=============================================================================
