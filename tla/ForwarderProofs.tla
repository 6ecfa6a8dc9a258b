-------------------------- MODULE ForwarderProofs --------------------------
(***************************************************************************)
(* Proofs about Forwarder: its types, the client table, what the clients   *)
(* have been written, the commands to the device, that the forwarder       *)
(* implements Broadcast, and that no edge of the epoll set is lost.  They  *)
(* hold for every number of connections, descriptors and reports, and for  *)
(* every MAXCLIENTS and MAXEVENTS.                                         *)
(*                                                                         *)
(* All but the last do not depend on which events the kernel reports:      *)
(* epoll_wait may return any batch, in any order, with events of           *)
(* descriptors that were closed since.                                     *)
(***************************************************************************)
EXTENDS Forwarder, SequenceTheorems, FiniteSetTheorems, WellFoundedInduction, TLAPS

Ended == pc \in {"down", "exited", "killed"}

Taken(c) == \E fd \in FDs : fdConn[fd] = c

Stations == {"wait", "dispatch", "accept", "forward", "out", "down",
             "exited", "killed"}

Types ==
    /\ pc \in Stations
    /\ clientfds \in Seq(FDs) /\ Len(clientfds) =< MAXCLIENTS
    /\ cl \in Nat
    /\ backlog \in Seq(Conns)
    /\ peer \in [Conns -> PeerStates]
    /\ fdConn \in [FDs -> Conns \union {NoConn}]
    /\ surplus \subseteq Conns
    /\ since \in [Conns -> Nat]
    /\ received \in [Conns -> Seq(1..MaxReports)]
    /\ forwarded \in Seq(1..MaxReports)

(* Two entries of the table are two descriptors, and these are open; an    *)
(* open descriptor is in the table unless it was accepted in vain.         *)
Entries ==
    /\ \A i, j \in DOMAIN clientfds : clientfds[i] = clientfds[j] => i = j
    /\ \A fd \in InTable : fdConn[fd] # NoConn
    /\ \A fd \in FDs : fdConn[fd] # NoConn =>
          (fd \in InTable <=> fdConn[fd] \notin surplus)
    /\ Ended => clientfds = <<>> /\ backlog = <<>>

(* A connection is behind one descriptor, or waits at one place of the     *)
(* accept queue, and then its peer has come and has not been let go.       *)
Places ==
    /\ \A fd, gd \in FDs : fdConn[fd] = fdConn[gd] => fd = gd \/ fdConn[fd] = NoConn
    /\ \A c \in surplus : Taken(c)
    /\ \A fd \in FDs : fdConn[fd] # NoConn => peer[fdConn[fd]] \notin {"none", "gone"}
    /\ \A i \in DOMAIN backlog :
          /\ peer[backlog[i]] \notin {"none", "gone"}
          /\ ~Taken(backlog[i])
    /\ \A i, j \in DOMAIN backlog : backlog[i] = backlog[j] => i = j

(* A connection that was not accepted yet has been written nothing; one    *)
(* that was has joined before the report that is being forwarded.          *)
Fresh ==
    /\ \A c \in Conns : since[c] =< Len(forwarded)
    /\ \A c \in Conns : peer[c] = "none" => received[c] = <<>>
    /\ \A i \in DOMAIN backlog : received[backlog[i]] = <<>>
    /\ pc = "forward" => /\ cl =< Len(clientfds)
                         /\ \A fd \in InTable : since[fdConn[fd]] < Len(forwarded)

(* Reports are numbered as the device produces them, and taken up so.      *)
Numbered ==
    /\ produced \in 0..MaxReports
    /\ hidQueue \in Seq(Nat)
    /\ \A j \in DOMAIN hidQueue : hidQueue[j] =< produced
    /\ \A i \in DOMAIN forwarded : forwarded[i] =< produced
    /\ \A i, j \in DOMAIN forwarded : i < j => forwarded[i] < forwarded[j]
    /\ \A i, j \in DOMAIN hidQueue :
          i < j => hidQueue[i] < hidQueue[j] \/ Void \in {hidQueue[i], hidQueue[j]}
    /\ \A i \in DOMAIN forwarded, j \in DOMAIN hidQueue :
          forwarded[i] < hidQueue[j] \/ hidQueue[j] = Void

(* As long as there are clients the last heartbeat is the one remembered,  *)
(* and neither it nor the last report is older than its interval and the   *)
(* time the loop has since spent in its wait and in write_exact.           *)
Timely ==
    /\ now \in Nat /\ waited \in 0..PollTimeout /\ held \in 0..now
    /\ {last_recv, last_heartbeat, sentReset, sentHeartbeat} \subseteq 0..now
    /\ clientfds # <<>> =>
          /\ sentHeartbeat = last_heartbeat
          /\ now - last_heartbeat =< HEARTBEAT_INTERVAL + waited + held
          /\ now - last_recv =< RESET_TIMEOUT + waited + held
          /\ last_recv >= sentReset

Inv == Types /\ Entries /\ Places /\ Fresh /\ Served /\ Numbered /\ Timely

USE ForwarderAssumption DEF FDs, loopVars, timeVars, clockVars, hidVars, peerVars,
                            tableVars, logVars

-----------------------------------------------------------------------------
(* The operators of the model.                                             *)

(* What close() does to descriptors and connections.                       *)
LEMMA Closing ==
    ASSUME NEW C, Close(C)
    PROVE  /\ fdConn' = [fd \in FDs |-> IF fd \in C THEN NoConn ELSE fdConn[fd]]
           /\ peer' = [c \in Conns |-> IF \E fd \in C : fdConn[fd] = c
                                      THEN "gone" ELSE peer[c]]
           /\ surplus' = surplus \ {fdConn[fd] : fd \in C}
BY DEF Close

(* open() and accept() return the lowest free number, and there is one as  *)
(* soon as any is free.                                                    *)
LEMMA LowestFree ==
    ASSUME FreeFds # {}
    PROVE  Min(FreeFds) \in FreeFds
<1>1. FreeFds \subseteq Nat
  BY DEF FreeFds
<1>2. PICK x \in FreeFds : \A y \in FreeFds : <<y, x>> \notin OpToRel(<, Nat)
  BY <1>1, NatLessThanWellFounded, WFMin, Zenon
<1>3. \A y \in FreeFds : ~(y < x)
  BY <1>1, <1>2, Zenon DEF OpToRel
<1>4. \A y \in FreeFds : x =< y
  BY <1>1, <1>3
<1>. QED
  BY <1>4 DEF Min

(* Taking a descriptor out of the table: the others stay, each of them     *)
(* where it was or, the last one, where the gap is.                        *)
LEMMA Removal ==
    ASSUME NEW fd \in FDs, clientfds \in Seq(FDs),
           \A i, j \in DOMAIN clientfds : clientfds[i] = clientfds[j] => i = j
    PROVE  LET t == Without(clientfds, fd) IN
           /\ t \in Seq(FDs)
           /\ \A i, j \in DOMAIN t : t[i] = t[j] => i = j
           /\ {t[i] : i \in DOMAIN t} = InTable \ {fd}
           /\ Len(t) = IF fd \in InTable THEN Len(clientfds) - 1 ELSE Len(clientfds)
           /\ \A i \in DOMAIN t : \E j \in DOMAIN clientfds :
                 /\ t[i] = clientfds[j] /\ i =< j
                 /\ i = j \/ clientfds[i] = fd
<1>. DEFINE t == Without(clientfds, fd)
            n == Len(clientfds)
<1>1. DOMAIN clientfds = 1..n /\ n \in Nat
  OBVIOUS
<1>2. CASE fd \notin InTable
  <2>1. ~Contains(clientfds, fd)
    BY <1>1, <1>2 DEF Contains, InTable
  <2>2. t = clientfds
    BY <2>1 DEF Without
  <2>3. \A i \in DOMAIN clientfds : \E j \in DOMAIN clientfds :
           clientfds[i] = clientfds[j] /\ i =< j /\ (i = j \/ clientfds[i] = fd)
    BY <1>1
  <2>. QED
    BY <1>1, <1>2, <2>2, <2>3 DEF InTable
<1>3. CASE fd \in InTable
  <2>1. PICK k \in 1..n : clientfds[k] = fd
    BY <1>1, <1>3 DEF InTable
  <2>2. {m \in DOMAIN clientfds : clientfds[m] = fd} = {k}
    BY <1>1, <2>1
  <2>3. Min({k}) = k
    BY <2>1 DEF Min
  <2>4. t = [m \in 1..n - 1 |-> IF m = k THEN clientfds[n] ELSE clientfds[m]]
    BY <1>1, <2>1, <2>2, <2>3 DEF Without, Contains, Last
  <2>. HIDE DEF t
  <2>5. n - 1 \in Nat /\ n \in 1..n
    BY <1>1, <2>1
  <2>6. DOMAIN t = 1..n - 1 /\ Len(t) = n - 1 /\ t \in Seq(FDs)
    BY <1>1, <2>1, <2>4, <2>5
  <2>7. \A i \in 1..n - 1 : \E j \in 1..n :
           t[i] = clientfds[j] /\ i =< j /\ (i = j \/ clientfds[i] = fd)
    BY <1>1, <2>1, <2>4, <2>5
  <2>8. ASSUME NEW i \in 1..n - 1, NEW j \in 1..n - 1, t[i] = t[j]
        PROVE  i = j
    <3>. DEFINE At(m) == IF m = k THEN n ELSE m
    <3>1. \A m \in 1..n - 1 : At(m) \in 1..n /\ t[m] = clientfds[At(m)]
      BY <1>1, <2>4, <2>5
    <3>2. At(i) = At(j)
      <4>1. At(i) \in 1..n /\ At(j) \in 1..n /\ clientfds[At(i)] = clientfds[At(j)]
        BY <2>8, <3>1
      <4>. HIDE DEF At
      <4>. QED
        BY <1>1, <4>1
    <3>. QED
      BY <1>1, <3>2
  <2>9. ASSUME NEW gd \in InTable \ {fd}
        PROVE  \E i \in 1..n - 1 : t[i] = gd
    <3>1. PICK m \in 1..n : clientfds[m] = gd /\ m # k
      BY <1>1, <2>1, <2>9 DEF InTable
    <3>. HIDE DEF n
    <3>2. CASE m = n
      <4>1. k \in 1..n - 1
        BY <1>1, <2>1, <3>1, <3>2
      <4>2. t[k] = clientfds[n]
        BY <2>4, <4>1
      <4>. QED
        BY <3>1, <3>2, <4>1, <4>2
    <3>3. CASE m # n
      <4>1. m \in 1..n - 1
        BY <1>1, <3>1, <3>3
      <4>2. t[m] = clientfds[m]
        BY <2>4, <3>1, <4>1
      <4>. QED
        BY <3>1, <4>1, <4>2
    <3>. QED
      BY <3>2, <3>3
  <2>10. ASSUME NEW i \in 1..n - 1
         PROVE  t[i] \in InTable \ {fd}
    <3>1. PICK j \in 1..n : t[i] = clientfds[j] /\ j # k
      BY <1>1, <2>1, <2>4, <2>5
    <3>. QED
      BY <1>1, <2>1, <3>1 DEF InTable
  <2>11. {t[i] : i \in 1..n - 1} = InTable \ {fd}
    <3>. DEFINE others == InTable \ {fd}
    <3>. HIDE DEF others
    <3>1. \A i \in 1..n - 1 : t[i] \in others
      BY <2>10 DEF others
    <3>2. \A gd \in others : \E i \in 1..n - 1 : t[i] = gd
      BY <2>9 DEF others
    <3>. DEFINE at == 1..n - 1
                rest == {t[i] : i \in at}
    <3>. HIDE DEF at
    <3>3. rest \subseteq others
      BY <3>1 DEF at
    <3>4. others \subseteq rest
      BY <3>2 DEF at
    <3>. QED
      BY <3>3, <3>4 DEF others, at
  <2>. QED
    BY <1>1, <1>3, <2>6, <2>7, <2>8, <2>11 DEF t
<1>. QED
  BY <1>2, <1>3

(* What somebody who joined when the log was n reports long is owed, with  *)
(* a report more and without the last one.                                 *)
LEMMA OwedSoFar ==
    ASSUME NEW S, NEW log \in Seq(S), NEW n \in 0..Len(log)
    PROVE  /\ SubSeq(log, n + 1, Len(log)) \in Seq(S)
           /\ Len(SubSeq(log, n + 1, Len(log))) = Len(log) - n
           /\ \A i \in 1..Len(log) - n : SubSeq(log, n + 1, Len(log))[i] = log[n + i]
<1>1. Len(log) \in Nat /\ \A i \in n + 1..Len(log) : log[i] \in S
  OBVIOUS
<1>2. /\ SubSeq(log, n + 1, Len(log)) \in Seq(S)
      /\ Len(SubSeq(log, n + 1, Len(log))) =
           IF n + 1 =< Len(log) THEN Len(log) - (n + 1) + 1 ELSE 0
      /\ \A i \in 1..Len(log) - (n + 1) + 1 :
           SubSeq(log, n + 1, Len(log))[i] = log[n + 1 + i - 1]
  BY <1>1, SubSeqProperties
<1>. QED
  BY <1>1, <1>2

LEMMA OwedLater ==
    ASSUME NEW S, NEW log \in Seq(S), NEW n \in 0..Len(log), NEW report \in S
    PROVE  LET more == Append(log, report) IN
           Front(SubSeq(more, n + 1, Len(more))) = SubSeq(log, n + 1, Len(log))
<1>. DEFINE more == Append(log, report)
            owed == SubSeq(log, n + 1, Len(log))
            last == SubSeq(more, n + 1, Len(more))
<1>1. /\ more \in Seq(S) /\ Len(more) = Len(log) + 1 /\ Len(log) \in Nat
      /\ n \in 0..Len(more)
      /\ \A i \in 1..Len(log) : more[i] = log[i]
  OBVIOUS
<1>. HIDE DEF more
<1>2. /\ owed \in Seq(S) /\ Len(owed) = Len(log) - n
      /\ \A i \in 1..Len(log) - n : owed[i] = log[n + i]
  BY OwedSoFar
<1>3. /\ last \in Seq(S) /\ Len(last) = Len(more) - n
      /\ \A i \in 1..Len(more) - n : last[i] = more[n + i]
  BY <1>1, OwedSoFar
<1>. HIDE DEF owed, last
<1>4. \A i \in 1..Len(log) - n : last[i] = owed[i]
  BY <1>1, <1>2, <1>3
<1>5. Front(last) = SubSeq(last, 1, Len(log) - n)
  BY <1>1, <1>3 DEF Front
<1>6. /\ SubSeq(last, 1, Len(log) - n) \in Seq(S)
      /\ Len(SubSeq(last, 1, Len(log) - n)) = Len(log) - n
      /\ \A i \in 1..Len(log) - n : SubSeq(last, 1, Len(log) - n)[i] = last[i]
  BY <1>1, <1>3
<1>7. Front(last) = owed
  BY <1>1, <1>2, <1>4, <1>5, <1>6, SeqEqual
<1>. QED
  BY <1>7 DEF owed, last, more

LEMMA OwedNow ==
    ASSUME NEW S, NEW log \in Seq(S), NEW n \in Nat, n < Len(log)
    PROVE  LET owed == SubSeq(log, n + 1, Len(log)) IN
           /\ Append(Front(owed), log[Len(log)]) = owed
           /\ Front(owed) # owed
<1>. DEFINE owed == SubSeq(log, n + 1, Len(log))
            k == Len(log) - n
            most == SubSeq(owed, 1, k - 1)
<1>1. /\ owed \in Seq(S) /\ Len(owed) = k
      /\ \A i \in 1..k : owed[i] = log[n + i]
  BY OwedSoFar
<1>2. k \in Nat /\ k >= 1 /\ n + k = Len(log)
  OBVIOUS
<1>. HIDE DEF owed, k
<1>3. Front(owed) = most
  BY <1>1 DEF Front
<1>4. /\ most \in Seq(S) /\ Len(most) = k - 1
      /\ \A i \in 1..k - 1 : most[i] = owed[i]
  BY <1>1, <1>2
<1>. HIDE DEF most
<1>5. owed[k] = log[Len(log)] /\ owed[k] \in S
  BY <1>1, <1>2
<1>6. /\ Append(most, owed[k]) \in Seq(S) /\ Len(Append(most, owed[k])) = k
      /\ \A i \in 1..k : Append(most, owed[k])[i] = owed[i]
  BY <1>2, <1>4, <1>5
<1>7. Append(most, owed[k]) = owed
  BY <1>1, <1>6, SeqEqual
<1>8. most # owed
  BY <1>1, <1>2, <1>4
<1>. QED
  BY <1>3, <1>5, <1>7, <1>8 DEF owed

(* Induction over a set of numbers.                                        *)
LEMMA AllNumbers ==
    ASSUME NEW G, 0 \in G, \A i \in Nat : i \in G => i + 1 \in G
    PROVE  \A i \in Nat : i \in G
<1>. SUFFICES ASSUME NEW k \in Nat, k \notin G PROVE FALSE
  OBVIOUS
<1>. DEFINE others == Nat \ G
<1>1. k \in others /\ others \subseteq Nat
  OBVIOUS
<1>2. PICK x \in others : \A y \in others : <<y, x>> \notin OpToRel(<, Nat)
  BY <1>1, NatLessThanWellFounded, WFMin, Zenon
<1>3. \A y \in others : ~(y < x)
  BY <1>1, <1>2, Zenon DEF OpToRel
<1>4. x \in Nat /\ x # 0 /\ x \notin G
  OBVIOUS
<1>5. x - 1 \in Nat /\ x - 1 < x /\ (x - 1) + 1 = x
  BY <1>4
<1>6. x - 1 \notin others
  BY <1>3, <1>5
<1>. QED
  BY <1>4, <1>5, <1>6

(* g is the function by which Only is defined, up to n.                    *)
Selects(g, list, S, n) ==
    g = [i \in 0..n |->
            IF i = 0 THEN <<>>
            ELSE IF list[i] \in S THEN Append(g[i - 1], list[i]) ELSE g[i - 1]]

(* The function that Only is defined by exists: it can be built up.        *)
LEMMA BuiltUp ==
    ASSUME NEW list, NEW S, NEW n \in Nat
    PROVE  \E g : Selects(g, list, S, n)
<1>. DEFINE More(t, i) == IF list[i] \in S THEN Append(t, list[i]) ELSE t
<1>. HIDE DEF More
<1>. DEFINE Built(g, m) == g = [i \in 0..m |-> IF i = 0 THEN <<>> ELSE More(g[i - 1], i)]
            G == {m \in Nat : \E g : Built(g, m)}
<1>1. 0 \in G
  <2>. DEFINE g == [i \in 0..0 |-> <<>>]
  <2>1. Built(g, 0)
    OBVIOUS
  <2>. QED
    BY <2>1
<1>2. ASSUME NEW m \in Nat, m \in G
      PROVE  m + 1 \in G
  <2>1. PICK g : Built(g, m)
    BY <1>2
  <2>. DEFINE h == [i \in 0..m + 1 |-> IF i = m + 1 THEN More(g[m], m + 1) ELSE g[i]]
              k == [i \in 0..m + 1 |-> IF i = 0 THEN <<>> ELSE More(h[i - 1], i)]
  <2>2. ASSUME NEW i \in 0..m + 1
        PROVE  h[i] = IF i = 0 THEN <<>> ELSE More(h[i - 1], i)
    <3>1. CASE i = m + 1
      <4>1. i # 0 /\ i - 1 = m /\ m \in 0..m + 1 /\ m # m + 1
        BY <3>1
      <4>2. h[m] = g[m] /\ h[m + 1] = More(g[m], m + 1)
        BY <4>1
      <4>. HIDE DEF h
      <4>. QED
        BY <3>1, <4>1, <4>2
    <3>2. CASE i # m + 1
      <4>1. i \in 0..m /\ (i # 0 => i - 1 \in 0..m /\ i - 1 \in 0..m + 1 /\ i - 1 # m + 1)
        BY <3>2
      <4>2. h[i] = g[i] /\ (i # 0 => h[i - 1] = g[i - 1])
        BY <3>2, <4>1
      <4>3. g[i] = IF i = 0 THEN <<>> ELSE More(g[i - 1], i)
        BY <2>1, <4>1, Zenon
      <4>. HIDE DEF h
      <4>. QED
        BY <4>2, <4>3, Zenon
    <3>. QED
      BY <3>1, <3>2
  <2>3. h = k
    <3>1. h = [i \in 0..m + 1 |-> h[i]]
      OBVIOUS
    <3>. HIDE DEF h
    <3>. QED
      BY <2>2, <3>1, Zenon
  <2>4. Built(h, m + 1)
    BY <2>3
  <2>. HIDE DEF h, Built
  <2>. QED
    BY <2>4
<1>. HIDE DEF G
<1>3. n \in G
  BY <1>1, <1>2, AllNumbers
<1>. QED
  BY <1>3 DEF G, More, Selects

(* What a list has in a set: these elements, and of the same kind.         *)
LEMMA Chosen ==
    ASSUME NEW T, NEW list \in Seq(T), NEW S
    PROVE  /\ Only(list, S) \in Seq(T)
           /\ ToSet(Only(list, S)) = ToSet(list) \intersect S
<1>. DEFINE only == CHOOSE g : Selects(g, list, S, Len(list))
<1>1. Only(list, S) = only[Len(list)]
  BY Zenon DEF Only, Selects
<1>2. Len(list) \in Nat /\ DOMAIN list = 1..Len(list) /\ \A i \in 1..Len(list) : list[i] \in T
  OBVIOUS
<1>3. Selects(only, list, S, Len(list))
  <2>1. Len(list) \in Nat
    BY <1>2
  <2>. QED
    BY <2>1, BuiltUp, Zenon
<1>. HIDE DEF only
<1>. DEFINE More(t, i) == IF list[i] \in S THEN Append(t, list[i]) ELSE t
            Right(i) == /\ only[i] \in Seq(T)
                        /\ \A x : (\E j \in DOMAIN only[i] : only[i][j] = x)
                                    <=> (x \in S /\ \E j \in 1..i : list[j] = x)
            G == {i \in Nat : i =< Len(list) => Right(i)}
<1>4. only[0] = <<>> /\ \A i \in 1..Len(list) : only[i] = More(only[i - 1], i)
  <2>. HIDE DEF More
  <2>1. only = [i \in 0..Len(list) |-> IF i = 0 THEN <<>> ELSE More(only[i - 1], i)]
    BY <1>3, Zenon DEF Selects, More
  <2>. QED
    BY <1>2, <2>1
<1>5. 0 \in G
  <2>1. <<>> \in Seq(T) /\ DOMAIN (<<>>) = {} /\ 1..0 = {}
    OBVIOUS
  <2>. QED
    BY <1>4, <2>1
<1>6. ASSUME NEW i \in Nat, i \in G
      PROVE  i + 1 \in G
  <2>. SUFFICES ASSUME i + 1 =< Len(list) PROVE Right(i + 1)
    OBVIOUS
  <2>1. i + 1 \in 1..Len(list) /\ i =< Len(list)
    BY <1>2
  <2>2. Right(i) /\ only[i + 1] = More(only[i], i + 1) /\ list[i + 1] \in T
    BY <1>2, <1>4, <1>6, <2>1
  <2>3. \A x : (\E j \in 1..i + 1 : list[j] = x) <=> (\E j \in 1..i : list[j] = x) \/ list[i + 1] = x
    OBVIOUS
  <2>4. CASE list[i + 1] \notin S
    <3>1. only[i + 1] = only[i]
      BY <2>2, <2>4
    <3>. QED
      BY <2>2, <2>3, <2>4, <3>1
  <2>5. CASE list[i + 1] \in S
    <3>. DEFINE s == only[i]
    <3>1. only[i + 1] = Append(s, list[i + 1]) /\ s \in Seq(T)
      BY <2>2, <2>5
    <3>. HIDE DEF s
    <3>2. /\ Append(s, list[i + 1]) \in Seq(T)
          /\ \A x : (\E j \in DOMAIN Append(s, list[i + 1]) : Append(s, list[i + 1])[j] = x)
                       <=> (\E j \in DOMAIN s : s[j] = x) \/ x = list[i + 1]
      <4>. DEFINE e == list[i + 1]
                  t == Append(s, e)
      <4>1. e \in T
        BY <2>2
      <4>. HIDE DEF e
      <4>2. /\ t \in Seq(T) /\ DOMAIN t = 1..Len(s) + 1 /\ Len(s) \in Nat
            /\ DOMAIN s = 1..Len(s) /\ t[Len(s) + 1] = e
            /\ \A j \in 1..Len(s) : t[j] = s[j]
        BY <3>1, <4>1
      <4>. HIDE DEF t
      <4>3. \A j \in DOMAIN t : j \in DOMAIN s \/ j = Len(s) + 1
        BY <4>2
      <4>4. DOMAIN s \subseteq DOMAIN t /\ Len(s) + 1 \in DOMAIN t
        BY <4>2
      <4>5. \A x : (\E j \in DOMAIN t : t[j] = x) <=> (\E j \in DOMAIN s : s[j] = x) \/ x = e
        BY <4>2, <4>3, <4>4
      <4>. QED
        BY <4>2, <4>5 DEF e, t
    <3>. QED
      BY <2>2, <2>3, <2>5, <3>1, <3>2 DEF s
  <2>. QED
    BY <2>4, <2>5
<1>7. Right(Len(list))
  <2>. HIDE DEF Right
  <2>1. \A i \in Nat : i \in G
    <3>. HIDE DEF G
    <3>. QED
      BY <1>5, <1>6, AllNumbers
  <2>. QED
    BY <1>2, <2>1
<1>. QED
  <2>1. \A x : x \in ToSet(only[Len(list)]) <=> \E j \in DOMAIN only[Len(list)] : only[Len(list)][j] = x
    BY DEF ToSet
  <2>2. \A x : x \in ToSet(list) <=> \E j \in 1..Len(list) : list[j] = x
    BY <1>2 DEF ToSet
  <2>3. \A x : x \in ToSet(only[Len(list)]) <=> x \in ToSet(list) \intersect S
    BY <1>7, <2>1, <2>2
  <2>. QED
    BY <1>1, <1>7, <2>3

(* The elements of a finite set in some order.                             *)
LEMMA Listed ==
    ASSUME NEW S, IsFiniteSet(S)
    PROVE  SetToSeq(S) \in Seq(S) /\ ToSet(SetToSeq(S)) = S
<1>. DEFINE n == Cardinality(S)
            f == SetToSeq(S)
<1>1. n \in Nat /\ ExistsBijection(1..n, S)
  BY FS_CardinalityType
<1>2. \E g \in [1..n -> S] : IsInjective(g)
  BY <1>1 DEF ExistsBijection, Bijection, Injection
<1>3. f \in [1..n -> S] /\ IsInjective(f)
  BY <1>2, Zenon DEF SetToSeq
<1>4. Cardinality(1..n) = n
  BY <1>1, FS_Interval
<1>. HIDE DEF f
<1>5. f \in Surjection(1..n, S)
  <2>1. f \in Injection(1..n, S)
    BY <1>3 DEF Injection
  <2>. QED
    BY <1>4, <2>1, FS_Injection, Zenon
<1>6. \A x \in S : \E i \in 1..n : f[i] = x
  BY <1>5 DEF Surjection
<1>7. f \in Seq(S) /\ DOMAIN f = 1..n
  <2>. HIDE DEF n
  <2>. QED
    BY <1>1, <1>3
<1>. HIDE DEF n
<1>8. ToSet(f) = S
  BY <1>3, <1>6, <1>7 DEF ToSet
<1>. QED
  BY <1>7, <1>8 DEF f

-----------------------------------------------------------------------------
(* What a step does to connections, table and reports.                     *)

(* A peer connects.                                                        *)
Comes(c) ==
    /\ peer[c] = "none" /\ ~Ended
    /\ peer' = [peer EXCEPT ![c] = "est"]
    /\ backlog' = Append(backlog, c)
    /\ UNCHANGED <<pc, cl, clientfds, fdConn, surplus, logVars>>

(* A connection is accepted; it becomes a client if there is room.         *)
Arrives(fd) ==
    /\ pc = "accept" /\ backlog # <<>> /\ fdConn[fd] = NoConn
    /\ backlog' = Tail(backlog)
    /\ fdConn' = [fdConn EXCEPT ![fd] = Head(backlog)]
    /\ \/ /\ Len(clientfds) < MAXCLIENTS
          /\ clientfds' = Append(clientfds, fd)
          /\ since' = [since EXCEPT ![Head(backlog)] = Len(forwarded)]
          /\ UNCHANGED surplus
       \/ /\ surplus' = surplus \union {Head(backlog)}
          /\ UNCHANGED <<clientfds, since>>
    /\ UNCHANGED <<pc, cl, peer, forwarded, received>>

(* A connection is accepted and closed again.                              *)
Fails ==
    /\ pc = "accept" /\ backlog # <<>>
    /\ backlog' = Tail(backlog)
    /\ peer' = [peer EXCEPT ![Head(backlog)] = "gone"]
    /\ UNCHANGED <<pc, cl, clientfds, fdConn, surplus, logVars>>

(* A descriptor is closed and taken out of the table; while a report is    *)
(* forwarded it is the one whose turn it is.                               *)
Drops(fd) ==
    /\ pc = "forward" => cl < Len(clientfds) /\ clientfds[cl + 1] = fd
    /\ ~Ended
    /\ clientfds' = Without(clientfds, fd)
    /\ fdConn' = [fdConn EXCEPT ![fd] = NoConn]
    /\ surplus' = surplus \ {fdConn[fd]}
    /\ peer' = [c \in Conns |-> IF fdConn[fd] = c THEN "gone" ELSE peer[c]]
    /\ UNCHANGED <<pc, cl, backlog, logVars>>

(* The descriptors D are closed, all clients among them.                   *)
Clears(D) ==
    /\ InTable \subseteq D
    /\ Ended'
    /\ clientfds' = <<>> /\ backlog' = <<>>
    /\ fdConn' = [fd \in FDs |-> IF fd \in D THEN NoConn ELSE fdConn[fd]]
    /\ surplus' = surplus \ {fdConn[fd] : fd \in D}
    /\ peer' \in [Conns -> PeerStates]
    /\ \A c \in Conns : \/ peer'[c] = peer[c]
                        \/ \E fd \in D : fdConn[fd] = c
                        \/ \E i \in DOMAIN backlog : backlog[i] = c
    /\ \A c \in Conns : peer'[c] \in {peer[c], "gone"}
    /\ UNCHANGED <<cl, logVars>>

(* A report is taken up.                                                   *)
TakesUp ==
    /\ pc = "dispatch" /\ pc' = "forward" /\ cl' = 0
    /\ hidQueue # <<>> /\ Head(hidQueue) # Void
    /\ forwarded' = Append(forwarded, Head(hidQueue))
    /\ UNCHANGED <<clientfds, fdConn, surplus, peer, backlog, received, since>>

(* It is written to the client whose turn it is.                           *)
Writes ==
    /\ Forwarding
    /\ received' = [received EXCEPT ![target] = Append(@, Last(forwarded))]
    /\ cl' = cl + 1
    /\ UNCHANGED <<pc, clientfds, fdConn, surplus, peer, backlog, forwarded, since>>

(* None of these.                                                          *)
Passes ==
    /\ UNCHANGED <<cl, clientfds, fdConn, surplus, backlog, logVars>>
    /\ peer' \in [Conns -> PeerStates]
    /\ \A c \in Conns : \/ peer'[c] = peer[c]
                        \/ {peer[c], peer'[c]} \intersect {"none", "gone"} = {}
    /\ pc' \in Stations
    /\ pc' = "forward" => pc = "forward"
    /\ pc = "forward" /\ pc' # "forward" => cl = Len(clientfds)
    /\ Ended' => Ended

Effect ==
    \/ \E c \in Conns : Comes(c)
    \/ \E fd \in FDs : Arrives(fd) \/ Drops(fd)
    \/ Fails \/ TakesUp \/ Writes \/ Passes
    \/ \E D \in SUBSET FDs : Clears(D)

(* A step of the process that leaves connections and reports alone.        *)
LEMMA Passing ==
    ASSUME Types,
           UNCHANGED <<clientfds, fdConn, surplus, peer, backlog, logVars>>,
           cl' = cl, pc' \in Stations,
           pc' = pc \/ pc' \notin {"forward", "down", "exited", "killed"},
           pc = "forward" /\ pc' # "forward" => cl = Len(clientfds)
    PROVE  Passes
BY DEF Passes, Types, Ended, Stations

LEMMA RemovalEffect ==
    ASSUME Types, NEW fd \in FDs, RemoveClient(fd), ~Ended,
           pc = "forward" => cl < Len(clientfds) /\ clientfds[cl + 1] = fd,
           UNCHANGED <<pc, cl, backlog, logVars>>
    PROVE  Drops(fd)
<1>1. Close({fd}) /\ clientfds' = Without(clientfds, fd)
  BY DEF RemoveClient
<1>2. /\ fdConn' = [gd \in FDs |-> IF gd \in {fd} THEN NoConn ELSE fdConn[gd]]
      /\ peer' = [c \in Conns |-> IF \E gd \in {fd} : fdConn[gd] = c
                                 THEN "gone" ELSE peer[c]]
      /\ surplus' = surplus \ {fdConn[gd] : gd \in {fd}}
  BY <1>1, Closing
<1>3. fdConn' = [fdConn EXCEPT ![fd] = NoConn]
  BY <1>2 DEF Types
<1>4. peer' = [c \in Conns |-> IF fdConn[fd] = c THEN "gone" ELSE peer[c]]
  BY <1>2
<1>5. surplus' = surplus \ {fdConn[fd]}
  BY <1>2
<1>. QED
  BY <1>1, <1>3, <1>4, <1>5 DEF Drops

(* Each step of the process and of its surroundings has one of these       *)
(* effects.                                                                *)
LEMMA Effects ==
    ASSUME Inv, [Next]_vars
    PROVE  Effect
<1>. Types
  BY DEF Inv
<1>1. CASE \E c \in Conns : Connect(c)
  <2>1. PICK c \in Conns : Connect(c)
    BY <1>1
  <2>2. Comes(c)
    BY <2>1 DEF Connect, Comes, Listening, Running, Ended
  <2>. QED
    BY <2>2 DEF Effect
<1>2. CASE \E c \in Conns : PeerActs(c)
  <2>1. PICK c \in Conns : PeerActs(c)
    BY <1>2
  <2>2. UNCHANGED <<pc, cl, clientfds, fdConn, surplus, backlog, logVars>>
    BY <2>1 DEF PeerActs
  <2>3. peer' \in [Conns -> PeerStates] /\ \A d \in Conns :
           peer'[d] = peer[d] \/ {"none", "gone"} \intersect {peer[d], peer'[d]} = {}
    <3>1. CASE peer' = peer
      BY <3>1 DEF Types
    <3>2. CASE peer[c] = "est" /\ peer' = [peer EXCEPT ![c] = "fin"]
      BY <3>2 DEF Types, PeerStates
    <3>3. CASE /\ peer[c] \in {"est", "fin"}
               /\ peer' = [peer EXCEPT ![c] = IF @ = "est" THEN "rst" ELSE "pipe"]
      BY <3>3 DEF Types, PeerStates
    <3>. QED
      BY <2>1, <3>1, <3>2, <3>3 DEF PeerActs
  <2>4. Passes
    BY <2>2, <2>3 DEF Passes, Types, Ended
  <2>. QED
    BY <2>4 DEF Effect
<1>3. CASE \/ \E c \in Conns : PeerStalls(c) \/ PeerDrains(c)
           \/ HidReport \/ HidUnplug \/ Terminate \/ Tick \/ UNCHANGED vars
           \/ EpollWait \/ NextWait \/ HandleHangup \/ HandleListen \/ AcceptEnds
           \/ ForwardEnds \/ Reopen
  <2>1. UNCHANGED <<clientfds, fdConn, surplus, peer, backlog, logVars, cl>>
    BY <1>3 DEF PeerStalls, PeerDrains, HidReport, HidUnplug, Terminate, Tick, vars,
                EpollWait, NextWait, HandleHangup, HandleListen, AcceptEnds,
                ForwardEnds, Reopen
  <2>2. pc' = pc \/ pc' \in {"wait", "dispatch", "accept", "out"}
    BY <1>3 DEF PeerStalls, PeerDrains, HidReport, HidUnplug, Terminate, Tick, vars,
                EpollWait, NextWait, HandleHangup, HandleListen, AcceptEnds,
                ForwardEnds, Reopen
  <2>3. pc = "forward" /\ pc' # "forward" => cl = Len(clientfds)
    BY <1>3 DEF PeerStalls, PeerDrains, HidReport, HidUnplug, Terminate, Tick, vars,
                EpollWait, NextWait, HandleHangup, HandleListen, AcceptEnds,
                ForwardEnds, Reopen, Handling
  <2>4. Passes
    BY <2>1, <2>2, <2>3, Passing DEF Types, Stations
  <2>. QED
    BY <2>4 DEF Effect
<1>4. CASE HandleClientError \/ HandleClient
  <2>1. PICK fd \in FDs : fd = ev.fd
    BY <1>4 DEF HandleClientError, HandleClient, Handling
  <2>2. pc = "dispatch" /\ UNCHANGED <<pc, cl, backlog, logVars>>
    BY <1>4 DEF HandleClientError, HandleClient, Handling
  <2>3. RemoveClient(fd) \/ UNCHANGED <<peer, clientfds, fdConn, surplus>>
    BY <1>4, <2>1 DEF HandleClientError, HandleClient
  <2>4. CASE RemoveClient(fd)
    <3>1. Drops(fd)
      BY <2>2, <2>4, RemovalEffect DEF Ended
    <3>. QED
      BY <3>1 DEF Effect
  <2>5. CASE UNCHANGED <<peer, clientfds, fdConn, surplus>>
    BY <2>2, <2>5, Passing DEF Effect, Stations
  <2>. QED
    BY <2>3, <2>4, <2>5
<1>5. CASE WriteFails
  <2>. DEFINE fd == clientfds[cl + 1]
  <2>1. pc = "forward" /\ cl < Len(clientfds) /\ RemoveClient(fd)
        /\ UNCHANGED <<pc, cl, backlog, logVars>>
    BY <1>5 DEF WriteFails, Forwarding
  <2>2. fd \in FDs
    BY <2>1 DEF Types
  <2>3. Drops(fd)
    BY <2>1, <2>2, RemovalEffect DEF Ended
  <2>. QED
    BY <2>2, <2>3 DEF Effect
<1>6. CASE Accept
  <2>. DEFINE fd == Min(FreeFds)
  <2>1. fd \in FDs /\ fdConn[fd] = NoConn
    BY <1>6, LowestFree DEF Accept, FreeFds
  <2>2. Head(backlog) \in Conns
    BY <1>6 DEF Accept, Types
  <2>3. /\ pc = "accept" /\ backlog # <<>> /\ backlog' = Tail(backlog)
        /\ fdConn' = [fdConn EXCEPT ![fd] = Head(backlog)]
        /\ clientfds' = IF HasRoom THEN Append(clientfds, fd) ELSE clientfds
        /\ surplus' = IF HasRoom THEN surplus ELSE surplus \union {Head(backlog)}
        /\ since' = [since EXCEPT ![Head(backlog)] = IF HasRoom THEN Len(forwarded) ELSE @]
        /\ UNCHANGED <<pc, cl, peer, forwarded, received>>
    BY <1>6 DEF Accept
  <2>. HIDE DEF fd
  <2>4. ~HasRoom => since' = since
    BY <2>2, <2>3 DEF Types
  <2>5. Arrives(fd)
    BY <2>1, <2>3, <2>4 DEF Arrives, HasRoom
  <2>. QED
    BY <2>1, <2>5 DEF Effect
<1>7. CASE AcceptAndClose
  BY <1>7 DEF AcceptAndClose, Fails, Effect
<1>8. CASE HandleHid
  <2>1. CASE hidQueue # <<>> /\ Head(hidQueue) # Void
    BY <1>8, <2>1 DEF HandleHid, Handling, TakesUp, Effect
  <2>2. CASE ~(hidQueue # <<>> /\ Head(hidQueue) # Void)
    <3>1. UNCHANGED <<clientfds, fdConn, surplus, peer, backlog, logVars, cl, pc>>
      BY <1>8, <2>2 DEF HandleHid
    <3>. QED
      BY <3>1, Passing DEF Effect, Types
  <2>. QED
    BY <2>1, <2>2
<1>9. CASE Write
  BY <1>9 DEF Write, Writes, Effect
<1>10. CASE WriteKills \/ Exit
  <2>1. /\ Close(FDs) /\ Ended' /\ UNCHANGED <<cl, logVars>>
        /\ clientfds' = <<>> /\ backlog' = <<>>
    BY <1>10 DEF WriteKills, Exit, Ended, Inv, Entries
  <2>2. /\ fdConn' = [fd \in FDs |-> IF fd \in FDs THEN NoConn ELSE fdConn[fd]]
        /\ peer' = [c \in Conns |-> IF \E fd \in FDs : fdConn[fd] = c
                                   THEN "gone" ELSE peer[c]]
        /\ surplus' = surplus \ {fdConn[fd] : fd \in FDs}
    BY <2>1, Closing
  <2>3. InTable \subseteq FDs
    BY DEF InTable, Types
  <2>4. peer' \in [Conns -> PeerStates]
    BY <2>2 DEF Types, PeerStates
  <2>5. \A c \in Conns : peer'[c] = peer[c] \/ (peer'[c] = "gone" /\ \E fd \in FDs : fdConn[fd] = c)
    BY <2>2
  <2>6. Clears(FDs)
    BY <2>1, <2>2, <2>3, <2>4, <2>5, Zenon DEF Clears
  <2>. QED
    BY <2>6 DEF Effect
<1>11. CASE Out
  <2>. DEFINE gone == {fdConn[fd] : fd \in InTable} \union ToSet(backlog)
  <2>1. /\ fdConn' = [fd \in FDs |-> IF fd \in InTable THEN NoConn ELSE fdConn[fd]]
        /\ peer' = [c \in Conns |-> IF c \in gone THEN "gone" ELSE peer[c]]
        /\ clientfds' = <<>> /\ backlog' = <<>> /\ pc' = "down"
        /\ UNCHANGED <<cl, logVars, surplus>>
    BY <1>11 DEF Out, InTable
  <2>2. InTable \subseteq FDs
    BY DEF InTable, Types
  <2>3. peer' \in [Conns -> PeerStates]
    BY <2>1 DEF Types, PeerStates
  <2>4. \A c \in gone : \/ \E fd \in InTable : fdConn[fd] = c
                       \/ \E i \in DOMAIN backlog : backlog[i] = c
    BY DEF ToSet
  <2>5. \A c \in Conns : peer'[c] = peer[c] \/ (peer'[c] = "gone" /\ c \in gone)
    BY <2>1
  <2>6. surplus' = surplus \ {fdConn[fd] : fd \in InTable}
    BY <2>1, <2>2 DEF Inv, Entries
  <2>. HIDE DEF gone
  <2>7. \A c \in Conns : \/ peer'[c] = peer[c]
                         \/ \E fd \in InTable : fdConn[fd] = c
                         \/ \E i \in DOMAIN backlog : backlog[i] = c
    BY <2>4, <2>5
  <2>8. \A c \in Conns : peer'[c] \in {peer[c], "gone"}
    BY <2>5
  <2>9. Ended'
    BY <2>1 DEF Ended
  <2>10. /\ UNCHANGED <<cl, logVars>> /\ clientfds' = <<>> /\ backlog' = <<>>
         /\ fdConn' = [fd \in FDs |-> IF fd \in InTable THEN NoConn ELSE fdConn[fd]]
         /\ InTable \subseteq InTable
    BY <2>1
  <2>11. Clears(InTable)
    BY <2>3, <2>6, <2>7, <2>8, <2>9, <2>10, Zenon DEF Clears
  <2>. QED
    BY <2>2, <2>11 DEF Effect
<1>. QED
  BY <1>1, <1>2, <1>3, <1>4, <1>5, <1>6, <1>7, <1>8, <1>9, <1>10, <1>11
     DEF Next, Process, Environment

-----------------------------------------------------------------------------
(* The invariant holds initially and after each step.                      *)

LEMMA Initially == Init => Inv
<1>. SUFFICES ASSUME Init PROVE Inv
  OBVIOUS
<1>1. Types
  BY DEF Init, Types, Stations, PeerStates
<1>2. Entries /\ Places
  BY DEF Init, Entries, Places, InTable, Taken, Ended
<1>3. Fresh /\ Served
  BY DEF Init, Fresh, Served
<1>4. Numbered
  BY DEF Init, Numbered
<1>5. Timely
  BY DEF Init, Timely
<1>. QED
  BY <1>1, <1>2, <1>3, <1>4, <1>5 DEF Inv

(* The client whose turn it is joined before the report was taken up.      *)
LEMMA Turn ==
    ASSUME Inv, Forwarding
    PROVE  /\ cl + 1 \in DOMAIN clientfds /\ clientfds[cl + 1] \in InTable
           /\ target \in Conns /\ since[target] \in Nat
           /\ since[target] < Len(forwarded)
           /\ forwarded # <<>> /\ Last(forwarded) = forwarded[Len(forwarded)]
           /\ Last(forwarded) \in 1..MaxReports
<1>. Types
  BY DEF Inv
<1>1. cl + 1 \in DOMAIN clientfds
  BY DEF Types, Forwarding
<1>2. clientfds[cl + 1] \in InTable /\ clientfds[cl + 1] \in FDs
  BY <1>1 DEF InTable, Types
<1>3. target \in Conns
  BY <1>2 DEF Types, target, Inv, Entries
<1>4. since[target] \in Nat /\ since[target] < Len(forwarded)
  BY <1>2, <1>3 DEF Types, Inv, Fresh, Forwarding, target
<1>5. forwarded # <<>> /\ Len(forwarded) \in DOMAIN forwarded
  BY <1>4 DEF Types
<1>. QED
  BY <1>1, <1>2, <1>3, <1>4, <1>5 DEF Last, Types

LEMMA TypesStep ==
    ASSUME Inv, Effect
    PROVE  Types'
<1>. Types
  BY DEF Inv
<1>1. CASE \E c \in Conns : Comes(c)
  <2>1. PICK c \in Conns : Comes(c)
    BY <1>1
  <2>2. backlog' \in Seq(Conns) /\ peer' \in [Conns -> PeerStates]
    BY <2>1 DEF Comes, Types, PeerStates
  <2>. QED
    BY <2>1, <2>2 DEF Comes, Types
<1>2. CASE \E fd \in FDs : Arrives(fd)
  <2>1. PICK fd \in FDs : Arrives(fd)
    BY <1>2
  <2>2. Head(backlog) \in Conns /\ backlog' \in Seq(Conns)
    BY <2>1 DEF Arrives, Types
  <2>3. fdConn' \in [FDs -> Conns \union {NoConn}] /\ surplus' \subseteq Conns
        /\ since' \in [Conns -> Nat]
    BY <2>1, <2>2 DEF Arrives, Types
  <2>4. clientfds' \in Seq(FDs) /\ Len(clientfds') =< MAXCLIENTS
    <3>1. CASE clientfds' = clientfds
      BY <3>1 DEF Types
    <3>2. CASE Len(clientfds) < MAXCLIENTS /\ clientfds' = Append(clientfds, fd)
      BY <3>2 DEF Types
    <3>. QED
      BY <2>1, <3>1, <3>2 DEF Arrives
  <2>. QED
    BY <2>1, <2>2, <2>3, <2>4 DEF Arrives, Types
<1>3. CASE \E fd \in FDs : Drops(fd)
  <2>1. PICK fd \in FDs : Drops(fd)
    BY <1>3
  <2>2. clientfds' \in Seq(FDs) /\ Len(clientfds') =< Len(clientfds)
    BY <2>1, Removal DEF Drops, Types, Inv, Entries
  <2>3. fdConn' \in [FDs -> Conns \union {NoConn}] /\ surplus' \subseteq Conns
    BY <2>1 DEF Drops, Types
  <2>4. peer' \in [Conns -> PeerStates]
    BY <2>1 DEF Drops, Types, PeerStates
  <2>. QED
    BY <2>1, <2>2, <2>3, <2>4 DEF Drops, Types
<1>4. CASE Fails
  <2>1. Head(backlog) \in Conns /\ backlog' \in Seq(Conns)
    BY <1>4 DEF Fails, Types
  <2>2. peer' \in [Conns -> PeerStates]
    BY <1>4 DEF Fails, Types, PeerStates
  <2>. QED
    BY <1>4, <2>1, <2>2 DEF Fails, Types
<1>5. CASE TakesUp
  <2>1. Head(hidQueue) \in 1..MaxReports
    BY <1>5 DEF TakesUp, Inv, Numbered, Void
  <2>2. forwarded' \in Seq(1..MaxReports)
    BY <1>5, <2>1 DEF TakesUp, Types
  <2>. QED
    BY <1>5, <2>2 DEF TakesUp, Types, Stations
<1>6. CASE Writes
  <2>1. target \in Conns /\ Last(forwarded) \in 1..MaxReports
    BY <1>6, Turn DEF Writes
  <2>2. Append(received[target], Last(forwarded)) \in Seq(1..MaxReports)
    BY <2>1 DEF Types
  <2>3. received' \in [Conns -> Seq(1..MaxReports)]
    BY <1>6, <2>1, <2>2 DEF Writes, Types
  <2>. QED
    BY <1>6, <2>3 DEF Writes, Types
<1>7. CASE Passes
  BY <1>7 DEF Passes, Types
<1>8. CASE \E D \in SUBSET FDs : Clears(D)
  <2>1. PICK D \in SUBSET FDs : Clears(D)
    BY <1>8
  <2>2. fdConn' \in [FDs -> Conns \union {NoConn}] /\ surplus' \subseteq Conns
    BY <2>1 DEF Clears, Types
  <2>. QED
    BY <2>1, <2>2 DEF Clears, Types, Ended, Stations
<1>. QED
  BY <1>1, <1>2, <1>3, <1>4, <1>5, <1>6, <1>7, <1>8 DEF Effect

(* A connection that is accepted gets a descriptor that is not in the      *)
(* table, and is not behind another one.                                   *)
LEMMA Arrival ==
    ASSUME Inv, NEW fd \in FDs, Arrives(fd)
    PROVE  LET c == Head(backlog) IN
           /\ c \in Conns /\ c # NoConn /\ 1 \in DOMAIN backlog /\ c = backlog[1]
           /\ ~Taken(c) /\ c \notin surplus /\ fd \notin InTable
           /\ \A gd \in FDs : fdConn'[gd] = IF gd = fd THEN c ELSE fdConn[gd]
           /\ \/ /\ InTable' = InTable \union {fd} /\ surplus' = surplus
                 /\ since' = [since EXCEPT ![c] = Len(forwarded)]
                 /\ clientfds' = Append(clientfds, fd)
              \/ /\ InTable' = InTable /\ surplus' = surplus \union {c}
                 /\ since' = since /\ clientfds' = clientfds
<1>. DEFINE c == Head(backlog)
<1>. Types
  BY DEF Inv
<1>1. c \in Conns /\ c # NoConn /\ 1 \in DOMAIN backlog /\ c = backlog[1]
  BY DEF Arrives, Types, ForwarderAssumption
<1>. HIDE DEF c
<1>2. ~Taken(c)
  BY <1>1 DEF Inv, Places
<1>3. c \notin surplus
  BY <1>2 DEF Inv, Places
<1>4. fd \notin InTable
  BY DEF Arrives, Inv, Entries
<1>5. \A gd \in FDs : fdConn'[gd] = IF gd = fd THEN c ELSE fdConn[gd]
  BY DEF Arrives, Types, c
<1>6. CASE clientfds' = clientfds /\ surplus' = surplus \union {c} /\ since' = since
  BY <1>1, <1>2, <1>3, <1>4, <1>5, <1>6 DEF InTable, c
<1>7. CASE /\ clientfds' = Append(clientfds, fd) /\ surplus' = surplus
           /\ since' = [since EXCEPT ![c] = Len(forwarded)]
  <2>1. /\ DOMAIN clientfds' = 1..Len(clientfds) + 1 /\ Len(clientfds) \in Nat
        /\ DOMAIN clientfds = 1..Len(clientfds)
        /\ \A i \in 1..Len(clientfds) : clientfds'[i] = clientfds[i]
        /\ clientfds'[Len(clientfds) + 1] = fd
    BY <1>7 DEF Types
  <2>2. \A gd : gd \in InTable' <=> gd \in InTable \union {fd}
    BY <2>1 DEF InTable
  <2>. QED
    BY <1>1, <1>2, <1>3, <1>4, <1>5, <1>7, <2>2 DEF c
<1>. QED
  BY <1>6, <1>7 DEF Arrives, c

LEMMA Departure ==
    ASSUME Inv, NEW fd \in FDs, Drops(fd)
    PROVE  /\ clientfds' \in Seq(FDs)
           /\ \A i, j \in DOMAIN clientfds' : clientfds'[i] = clientfds'[j] => i = j
           /\ InTable' = InTable \ {fd}
           /\ Len(clientfds') = IF fd \in InTable THEN Len(clientfds) - 1
                                ELSE Len(clientfds)
           /\ \A i \in DOMAIN clientfds' : \E j \in DOMAIN clientfds :
                 /\ clientfds'[i] = clientfds[j] /\ i =< j
                 /\ i = j \/ clientfds[i] = fd
           /\ \A gd \in FDs : fdConn'[gd] = IF gd = fd THEN NoConn ELSE fdConn[gd]
           /\ surplus' = surplus \ {fdConn[fd]}
<1>. DEFINE t == Without(clientfds, fd)
<1>1. clientfds' = t
  BY DEF Drops
<1>2. /\ t \in Seq(FDs)
      /\ \A i, j \in DOMAIN t : t[i] = t[j] => i = j
      /\ {t[i] : i \in DOMAIN t} = InTable \ {fd}
      /\ Len(t) = IF fd \in InTable THEN Len(clientfds) - 1 ELSE Len(clientfds)
      /\ \A i \in DOMAIN t : \E j \in DOMAIN clientfds :
            /\ t[i] = clientfds[j] /\ i =< j
            /\ i = j \/ clientfds[i] = fd
  BY Removal DEF Inv, Types, Entries
<1>. HIDE DEF t
<1>3. InTable' = {t[i] : i \in DOMAIN t}
  BY <1>1 DEF InTable
<1>4. /\ \A gd \in FDs : fdConn'[gd] = IF gd = fd THEN NoConn ELSE fdConn[gd]
      /\ surplus' = surplus \ {fdConn[fd]}
  BY DEF Drops, Inv, Types
<1>. QED
  BY <1>1, <1>2, <1>3, <1>4

LEMMA EntriesStep ==
    ASSUME Inv, Effect
    PROVE  Entries'
<1>. Types /\ Entries /\ Places
  BY DEF Inv
<1>1. CASE (\E c \in Conns : Comes(c)) \/ Fails \/ TakesUp \/ Writes \/ Passes
  <2>1. UNCHANGED <<clientfds, fdConn, surplus>>
    BY <1>1 DEF Comes, Fails, TakesUp, Writes, Passes
  <2>2. Ended' => clientfds = <<>> /\ backlog' = <<>>
    BY <1>1 DEF Comes, Fails, TakesUp, Writes, Forwarding, Passes, Entries, Ended
  <2>. QED
    BY <2>1, <2>2 DEF Entries, InTable
<1>2. CASE \E fd \in FDs : Arrives(fd)
  <2>1. PICK fd \in FDs : Arrives(fd)
    BY <1>2
  <2>. DEFINE c == Head(backlog)
  <2>2. /\ c \in Conns /\ c # NoConn
        /\ ~Taken(c) /\ c \notin surplus /\ fd \notin InTable
        /\ \A gd \in FDs : fdConn'[gd] = IF gd = fd THEN c ELSE fdConn[gd]
        /\ \/ /\ InTable' = InTable \union {fd} /\ surplus' = surplus
              /\ clientfds' = Append(clientfds, fd)
           \/ /\ InTable' = InTable /\ surplus' = surplus \union {c}
              /\ clientfds' = clientfds
    BY <2>1, Arrival
  <2>. HIDE DEF c
  <2>3. ~Ended'
    BY <2>1 DEF Arrives, Ended
  <2>4. \A gd \in InTable : gd \in FDs
    BY DEF InTable, Types
  <2>5. \A i, j \in DOMAIN clientfds' : clientfds'[i] = clientfds'[j] => i = j
    <3>1. CASE clientfds' = clientfds
      BY <3>1 DEF Entries
    <3>2. CASE clientfds' = Append(clientfds, fd)
      <4>1. \A i \in DOMAIN clientfds : clientfds[i] # fd
        BY <2>2 DEF InTable
      <4>. QED
        BY <3>2, <4>1 DEF Types, Entries
    <3>. QED
      BY <2>2, <3>1, <3>2
  <2>6. \A gd \in InTable' : fdConn'[gd] # NoConn
    BY <2>2, <2>4 DEF Entries
  <2>7. \A gd \in FDs : fdConn'[gd] # NoConn =>
           (gd \in InTable' <=> fdConn'[gd] \notin surplus')
    BY <2>2 DEF Entries, Taken
  <2>. QED
    BY <2>3, <2>5, <2>6, <2>7 DEF Entries
<1>3. CASE \E fd \in FDs : Drops(fd)
  <2>1. PICK fd \in FDs : Drops(fd)
    BY <1>3
  <2>2. /\ \A i, j \in DOMAIN clientfds' : clientfds'[i] = clientfds'[j] => i = j
        /\ InTable' = InTable \ {fd}
        /\ \A gd \in FDs : fdConn'[gd] = IF gd = fd THEN NoConn ELSE fdConn[gd]
        /\ surplus' = surplus \ {fdConn[fd]}
    BY <2>1, Departure
  <2>3. \A gd \in InTable : gd \in FDs
    BY DEF InTable, Types
  <2>4. ~Ended'
    BY <2>1 DEF Drops, Ended
  <2>5. \A gd \in InTable' : fdConn'[gd] # NoConn
    BY <2>2, <2>3 DEF Entries
  <2>6. \A gd \in FDs : fdConn'[gd] # NoConn =>
           (gd \in InTable' <=> fdConn'[gd] \notin surplus')
    BY <2>2, <2>3 DEF Entries, Places
  <2>. QED
    BY <2>2, <2>4, <2>5, <2>6 DEF Entries
<1>4. CASE \E D \in SUBSET FDs : Clears(D)
  <2>1. PICK D \in SUBSET FDs : Clears(D)
    BY <1>4
  <2>2. /\ \A gd \in FDs : fdConn'[gd] = IF gd \in D THEN NoConn ELSE fdConn[gd]
        /\ surplus' = surplus \ {fdConn[gd] : gd \in D} /\ InTable \subseteq D
        /\ clientfds' = <<>> /\ backlog' = <<>>
    BY <2>1 DEF Clears
  <2>3. InTable' = {}
    BY <2>2 DEF InTable
  <2>4. ASSUME NEW gd \in FDs, fdConn'[gd] # NoConn
        PROVE  fdConn'[gd] \in surplus'
    <3>1. gd \notin D /\ fdConn'[gd] = fdConn[gd] /\ fdConn[gd] \in surplus
      BY <2>2, <2>4 DEF Entries
    <3>2. \A hd \in D : fdConn[hd] # fdConn[gd]
      BY <2>1, <2>4, <3>1 DEF Places
    <3>. QED
      BY <2>2, <3>1, <3>2
  <2>. QED
    BY <2>2, <2>3, <2>4 DEF Entries
<1>. QED
  BY <1>1, <1>2, <1>3, <1>4 DEF Effect

(* What is behind the first connection of the accept queue.                *)
LEMMA Rest ==
    ASSUME Types, Places, backlog # <<>>, backlog' = Tail(backlog)
    PROVE  /\ Head(backlog) \in Conns /\ 1 \in DOMAIN backlog
           /\ Head(backlog) = backlog[1]
           /\ \A i \in DOMAIN backlog' : /\ i + 1 \in DOMAIN backlog
                                         /\ backlog'[i] = backlog[i + 1]
                                         /\ backlog'[i] # Head(backlog)
           /\ \A i, j \in DOMAIN backlog' : backlog'[i] = backlog'[j] => i = j
<1>. DEFINE rest == Tail(backlog)
<1>1. /\ Head(backlog) \in Conns /\ 1 \in DOMAIN backlog
      /\ Head(backlog) = backlog[1]
      /\ DOMAIN backlog = 1..Len(backlog) /\ Len(backlog) \in Nat \ {0}
      /\ DOMAIN rest = 1..Len(backlog) - 1
      /\ \A i \in 1..Len(backlog) - 1 : rest[i] = backlog[i + 1]
  BY DEF Types
<1>2. backlog' = rest
  OBVIOUS
<1>. HIDE DEF rest
<1>3. \A i \in DOMAIN rest : i + 1 \in DOMAIN backlog /\ rest[i] = backlog[i + 1]
  BY <1>1
<1>4. \A i, j \in DOMAIN backlog : backlog[i] = backlog[j] => i = j
  BY DEF Places
<1>5. \A i \in DOMAIN rest : rest[i] # Head(backlog)
  <2>1. \A i \in DOMAIN rest : i + 1 # 1
    BY <1>1
  <2>. QED
    BY <1>1, <1>3, <1>4, <2>1
<1>6. \A i, j \in DOMAIN rest : rest[i] = rest[j] => i = j
  BY <1>1, <1>3, <1>4
<1>. QED
  BY <1>1, <1>2, <1>3, <1>5, <1>6

LEMMA PlacesStep ==
    ASSUME Inv, Effect
    PROVE  Places'
<1>. Types /\ Entries /\ Places
  BY DEF Inv
<1>1. CASE \E c \in Conns : Comes(c)
  <2>1. PICK c \in Conns : Comes(c)
    BY <1>1
  <2>2. ~Taken(c) /\ \A i \in DOMAIN backlog : backlog[i] # c
    BY <2>1 DEF Comes, Places, Taken, ForwarderAssumption
  <2>3. /\ DOMAIN backlog' = 1..Len(backlog) + 1 /\ Len(backlog) \in Nat
        /\ DOMAIN backlog = 1..Len(backlog)
        /\ \A i \in 1..Len(backlog) : backlog'[i] = backlog[i]
        /\ backlog'[Len(backlog) + 1] = c
    BY <2>1 DEF Comes, Types
  <2>4. peer'[c] = "est" /\ \A d \in Conns : d # c => peer'[d] = peer[d]
    BY <2>1 DEF Comes, Types
  <2>5. UNCHANGED <<fdConn, surplus>>
    BY <2>1 DEF Comes
  <2>6. \A fd \in FDs : fdConn[fd] # NoConn => fdConn[fd] \in Conns /\ fdConn[fd] # c
    BY <2>2 DEF Types, Taken
  <2>7. \A fd \in FDs : fdConn[fd] # NoConn => peer'[fdConn[fd]] \notin {"none", "gone"}
    BY <2>4, <2>6 DEF Places
  <2>8. \A i \in DOMAIN backlog' : /\ peer'[backlog'[i]] \notin {"none", "gone"}
                                   /\ ~Taken(backlog'[i])
    <3>1. \A i \in DOMAIN backlog : /\ backlog[i] \in Conns
                                    /\ peer'[backlog[i]] \notin {"none", "gone"}
                                    /\ ~Taken(backlog[i])
      BY <2>2, <2>4 DEF Places, Types
    <3>. QED
      BY <2>2, <2>3, <2>4, <3>1
  <2>9. \A i, j \in DOMAIN backlog' : backlog'[i] = backlog'[j] => i = j
    BY <2>2, <2>3 DEF Places
  <2>. QED
    BY <2>5, <2>7, <2>8, <2>9 DEF Places, Taken
<1>2. CASE \E fd \in FDs : Arrives(fd)
  <2>1. PICK fd \in FDs : Arrives(fd)
    BY <1>2
  <2>. DEFINE c == Head(backlog)
  <2>2. /\ c \in Conns /\ c # NoConn /\ ~Taken(c)
        /\ \A gd \in FDs : fdConn'[gd] = IF gd = fd THEN c ELSE fdConn[gd]
        /\ surplus' \subseteq surplus \union {c}
    BY <2>1, Arrival
  <2>3. /\ c = backlog[1] /\ 1 \in DOMAIN backlog /\ peer' = peer
        /\ \A i \in DOMAIN backlog' : /\ i + 1 \in DOMAIN backlog
                                      /\ backlog'[i] = backlog[i + 1]
                                      /\ backlog'[i] # c
        /\ \A i, j \in DOMAIN backlog' : backlog'[i] = backlog'[j] => i = j
    BY <2>1, Rest DEF Arrives
  <2>. HIDE DEF c
  <2>4. fdConn[fd] = NoConn
    BY <2>1 DEF Arrives
  <2>5. \A gd, hd \in FDs : fdConn'[gd] = fdConn'[hd] => gd = hd \/ fdConn'[gd] = NoConn
    BY <2>2 DEF Places, Taken
  <2>6. ASSUME NEW d \in surplus'
        PROVE  \E gd \in FDs : fdConn'[gd] = d
    <3>1. CASE d = c
      BY <2>2, <3>1
    <3>2. CASE d \in surplus
      <4>1. PICK gd \in FDs : fdConn[gd] = d
        BY <3>2 DEF Places, Taken
      <4>2. gd # fd
        BY <2>4, <3>2, <4>1 DEF Types, ForwarderAssumption
      <4>. QED
        BY <2>2, <4>1, <4>2
    <3>. QED
      BY <2>2, <3>1, <3>2
  <2>7. \A gd \in FDs : fdConn'[gd] # NoConn => peer'[fdConn'[gd]] \notin {"none", "gone"}
    BY <2>2, <2>3 DEF Places
  <2>8. \A i \in DOMAIN backlog' : /\ peer'[backlog'[i]] \notin {"none", "gone"}
                                   /\ \A gd \in FDs : fdConn'[gd] # backlog'[i]
    BY <2>2, <2>3 DEF Places, Taken
  <2>. QED
    BY <2>3, <2>5, <2>6, <2>7, <2>8 DEF Places, Taken
<1>3. CASE \E fd \in FDs : Drops(fd)
  <2>1. PICK fd \in FDs : Drops(fd)
    BY <1>3
  <2>2. /\ \A gd \in FDs : fdConn'[gd] = IF gd = fd THEN NoConn ELSE fdConn[gd]
        /\ surplus' = surplus \ {fdConn[fd]}
        /\ backlog' = backlog
    BY <2>1, Departure DEF Drops
  <2>3. \A d \in Conns : d # fdConn[fd] => peer'[d] = peer[d]
    BY <2>1 DEF Drops
  <2>4. \A gd, hd \in FDs : fdConn'[gd] = fdConn'[hd] => gd = hd \/ fdConn'[gd] = NoConn
    BY <2>2 DEF Places
  <2>5. \A d \in surplus' : Taken(d)'
    BY <2>2 DEF Places, Taken
  <2>6. \A gd \in FDs : fdConn'[gd] # NoConn => peer'[fdConn'[gd]] \notin {"none", "gone"}
    BY <2>2, <2>3 DEF Places, Types
  <2>7. \A i \in DOMAIN backlog : /\ peer'[backlog[i]] \notin {"none", "gone"}
                                  /\ \A gd \in FDs : fdConn'[gd] # backlog[i]
    <3>1. \A i \in DOMAIN backlog : backlog[i] \in Conns /\ backlog[i] # fdConn[fd]
      BY DEF Places, Types, Taken
    <3>2. \A d \in Conns, gd \in FDs : fdConn'[gd] = d => Taken(d)
      BY <2>2 DEF Taken, ForwarderAssumption
    <3>. QED
      BY <2>3, <3>1, <3>2 DEF Places
  <2>. QED
    BY <2>2, <2>4, <2>5, <2>6, <2>7 DEF Places, Taken
<1>4. CASE Fails
  <2>. DEFINE c == Head(backlog)
  <2>1. /\ c \in Conns /\ c = backlog[1] /\ 1 \in DOMAIN backlog
        /\ \A i \in DOMAIN backlog' : /\ i + 1 \in DOMAIN backlog
                                      /\ backlog'[i] = backlog[i + 1]
                                      /\ backlog'[i] # c
        /\ \A i, j \in DOMAIN backlog' : backlog'[i] = backlog'[j] => i = j
    BY <1>4, Rest DEF Fails
  <2>2. UNCHANGED <<fdConn, surplus>> /\ \A d \in Conns : d # c => peer'[d] = peer[d]
    BY <1>4, <2>1 DEF Fails, Types
  <2>. HIDE DEF c
  <2>3. ~Taken(c)
    BY <2>1 DEF Places
  <2>4. \A fd \in FDs : fdConn[fd] # NoConn => peer'[fdConn[fd]] \notin {"none", "gone"}
    BY <2>2, <2>3 DEF Places, Types, Taken
  <2>5. \A i \in DOMAIN backlog' : /\ peer'[backlog'[i]] \notin {"none", "gone"}
                                   /\ ~Taken(backlog'[i])
    BY <2>1, <2>2 DEF Places, Types
  <2>. QED
    BY <2>1, <2>2, <2>4, <2>5 DEF Places, Taken
<1>5. CASE TakesUp \/ Writes
  <2>1. UNCHANGED <<fdConn, surplus, peer, backlog>>
    BY <1>5 DEF TakesUp, Writes
  <2>. QED
    BY <2>1 DEF Places, Taken
<1>6. CASE Passes
  <2>1. /\ UNCHANGED <<fdConn, surplus, backlog>>
        /\ \A c \in Conns : peer[c] \notin {"none", "gone"} =>
              peer'[c] \notin {"none", "gone"}
    BY <1>6 DEF Passes
  <2>2. \A fd \in FDs : fdConn[fd] # NoConn => peer'[fdConn[fd]] \notin {"none", "gone"}
    BY <2>1 DEF Places, Types
  <2>3. \A i \in DOMAIN backlog : peer'[backlog[i]] \notin {"none", "gone"}
    BY <2>1 DEF Places, Types
  <2>. QED
    BY <2>1, <2>2, <2>3 DEF Places, Taken
<1>7. CASE \E D \in SUBSET FDs : Clears(D)
  <2>1. PICK D \in SUBSET FDs : Clears(D)
    BY <1>7
  <2>2. /\ \A gd \in FDs : fdConn'[gd] = IF gd \in D THEN NoConn ELSE fdConn[gd]
        /\ surplus' = surplus \ {fdConn[gd] : gd \in D}
        /\ backlog' = <<>>
    BY <2>1 DEF Clears
  <2>3. \A gd, hd \in FDs : fdConn'[gd] = fdConn'[hd] => gd = hd \/ fdConn'[gd] = NoConn
    BY <2>2 DEF Places
  <2>4. \A d \in surplus' : Taken(d)'
    BY <2>2 DEF Places, Taken
  <2>5. ASSUME NEW gd \in FDs, fdConn'[gd] # NoConn
        PROVE  peer'[fdConn'[gd]] \notin {"none", "gone"}
    <3>1. gd \notin D /\ fdConn'[gd] = fdConn[gd] /\ fdConn[gd] \in Conns
      BY <2>2, <2>5 DEF Types
    <3>2. \A hd \in D : fdConn[hd] # fdConn[gd]
      BY <2>1, <2>5, <3>1 DEF Places
    <3>3. \A i \in DOMAIN backlog : backlog[i] # fdConn[gd]
      BY DEF Places, Taken
    <3>4. peer'[fdConn[gd]] = peer[fdConn[gd]]
      BY <2>1, <3>1, <3>2, <3>3 DEF Clears
    <3>. QED
      BY <2>5, <3>1, <3>4 DEF Places
  <2>. QED
    BY <2>2, <2>3, <2>4, <2>5 DEF Places
<1>. QED
  BY <1>1, <1>2, <1>3, <1>4, <1>5, <1>6, <1>7 DEF Effect

LEMMA FreshStep ==
    ASSUME Inv, Effect
    PROVE  Fresh'
<1>. Types /\ Entries /\ Places /\ Fresh
  BY DEF Inv
<1>1. CASE \E c \in Conns : Comes(c)
  <2>1. PICK c \in Conns : Comes(c)
    BY <1>1
  <2>2. UNCHANGED <<pc, cl, clientfds, fdConn, forwarded, received, since>>
    BY <2>1 DEF Comes
  <2>3. received[c] = <<>>
    BY <2>1 DEF Comes, Fresh
  <2>4. \A d \in Conns : peer'[d] = "none" => peer[d] = "none"
    BY <2>1 DEF Comes, Types
  <2>5. /\ DOMAIN backlog' = 1..Len(backlog) + 1 /\ Len(backlog) \in Nat
        /\ DOMAIN backlog = 1..Len(backlog)
        /\ \A i \in 1..Len(backlog) : backlog'[i] = backlog[i]
        /\ backlog'[Len(backlog) + 1] = c
    BY <2>1 DEF Comes, Types
  <2>6. \A i \in DOMAIN backlog' : received[backlog'[i]] = <<>>
    BY <2>3, <2>5 DEF Fresh
  <2>. QED
    BY <2>2, <2>4, <2>6 DEF Fresh, InTable
<1>2. CASE \E fd \in FDs : Arrives(fd)
  <2>1. PICK fd \in FDs : Arrives(fd)
    BY <1>2
  <2>2. Head(backlog) \in Conns
    BY <2>1, Arrival
  <2>3. \A i \in DOMAIN backlog' : /\ i + 1 \in DOMAIN backlog
                                   /\ backlog'[i] = backlog[i + 1]
    BY <2>1, Rest DEF Arrives
  <2>4. UNCHANGED <<pc, peer, forwarded, received>> /\ pc = "accept"
    BY <2>1 DEF Arrives
  <2>5. \A c \in Conns : since'[c] = since[c] \/ since'[c] = Len(forwarded)
    BY <2>1, <2>2 DEF Arrives, Types
  <2>6. \A c \in Conns : since'[c] =< Len(forwarded)
    <3>1. Len(forwarded) \in Nat /\ \A c \in Conns : since[c] =< Len(forwarded)
      BY DEF Fresh, Types
    <3>. QED
      BY <2>5, <3>1
  <2>. QED
    BY <2>3, <2>4, <2>6 DEF Fresh
<1>3. CASE \E fd \in FDs : Drops(fd)
  <2>1. PICK fd \in FDs : Drops(fd)
    BY <1>3
  <2>2. UNCHANGED <<pc, cl, backlog, forwarded, received, since>>
    BY <2>1 DEF Drops
  <2>3. \A c \in Conns : peer'[c] = "none" => peer[c] = "none"
    BY <2>1 DEF Drops
  <2>4. /\ InTable' = InTable \ {fd}
        /\ Len(clientfds') = IF fd \in InTable THEN Len(clientfds) - 1
                             ELSE Len(clientfds)
        /\ \A gd \in FDs : gd # fd => fdConn'[gd] = fdConn[gd]
    BY <2>1, Departure
  <2>5. InTable \subseteq FDs
    BY DEF InTable, Types
  <2>6. pc = "forward" => cl =< Len(clientfds')
    BY <2>1, <2>4 DEF Drops, Types
  <2>7. pc = "forward" => \A gd \in InTable' : since[fdConn'[gd]] < Len(forwarded)
    BY <2>4, <2>5 DEF Fresh
  <2>. QED
    BY <2>2, <2>3, <2>6, <2>7 DEF Fresh
<1>4. CASE Fails
  <2>1. \A i \in DOMAIN backlog' : /\ i + 1 \in DOMAIN backlog
                                   /\ backlog'[i] = backlog[i + 1]
    BY <1>4, Rest DEF Fails
  <2>2. UNCHANGED <<pc, forwarded, received, since>> /\ pc = "accept"
    BY <1>4 DEF Fails
  <2>3. \A c \in Conns : peer'[c] = "none" => peer[c] = "none"
    BY <1>4 DEF Fails, Types
  <2>. QED
    BY <2>1, <2>2, <2>3 DEF Fresh
<1>5. CASE TakesUp
  <2>1. UNCHANGED <<clientfds, fdConn, peer, backlog, received, since>> /\ cl' = 0
    BY <1>5 DEF TakesUp
  <2>2. Len(forwarded') = Len(forwarded) + 1 /\ Len(forwarded) \in Nat
    BY <1>5 DEF TakesUp, Types
  <2>3. \A fd \in InTable : fdConn[fd] \in Conns
    BY DEF InTable, Types, Entries
  <2>4. \A c \in Conns : since[c] < Len(forwarded')
    BY <2>2 DEF Fresh, Types
  <2>5. \A c \in Conns : since[c] =< Len(forwarded')
    BY <2>2, <2>4 DEF Types
  <2>6. 0 =< Len(clientfds)
    BY DEF Types
  <2>. QED
    BY <2>1, <2>3, <2>4, <2>5, <2>6 DEF Fresh, InTable
<1>6. CASE Writes
  <2>1. /\ UNCHANGED <<clientfds, fdConn, peer, backlog, forwarded, since>>
        /\ cl' = cl + 1 /\ cl < Len(clientfds) /\ pc = "forward"
    BY <1>6 DEF Writes, Forwarding
  <2>2. target \in Conns /\ clientfds[cl + 1] \in FDs
    BY <1>6, Turn DEF Writes, InTable, Types
  <2>3. \A c \in Conns : c # target => received'[c] = received[c]
    BY <1>6, <2>2 DEF Writes, Types
  <2>4. peer[target] # "none" /\ \A i \in DOMAIN backlog : backlog[i] # target
    BY <2>2 DEF Places, Taken, target, ForwarderAssumption
  <2>5. \A c \in Conns : peer[c] = "none" => received'[c] = <<>>
    BY <2>3, <2>4 DEF Fresh
  <2>6. \A i \in DOMAIN backlog : received'[backlog[i]] = <<>>
    BY <2>3, <2>4 DEF Fresh, Types
  <2>7. cl + 1 =< Len(clientfds)
    BY <2>1 DEF Types
  <2>. QED
    BY <2>1, <2>5, <2>6, <2>7 DEF Fresh, InTable
<1>7. CASE Passes
  <2>1. /\ UNCHANGED <<cl, clientfds, fdConn, backlog, forwarded, received, since>>
        /\ pc' = "forward" => pc = "forward"
        /\ \A c \in Conns : peer'[c] = "none" => peer[c] = "none"
    BY <1>7 DEF Passes
  <2>. QED
    BY <2>1 DEF Fresh, InTable
<1>8. CASE \E D \in SUBSET FDs : Clears(D)
  <2>1. PICK D \in SUBSET FDs : Clears(D)
    BY <1>8
  <2>2. /\ UNCHANGED <<forwarded, received, since>> /\ backlog' = <<>>
        /\ pc' # "forward"
        /\ \A c \in Conns : peer'[c] = "none" => peer[c] = "none"
    BY <2>1 DEF Clears, Ended
  <2>. QED
    BY <2>2 DEF Fresh
<1>. QED
  BY <1>1, <1>2, <1>3, <1>4, <1>5, <1>6, <1>7, <1>8 DEF Effect

LEMMA ServedStep ==
    ASSUME Inv, Effect
    PROVE  Served'
<1>. Types /\ Entries /\ Places /\ Fresh /\ Served
  BY DEF Inv
<1>1. \A i \in DOMAIN clientfds : /\ clientfds[i] \in InTable /\ clientfds[i] \in FDs
                                  /\ fdConn[clientfds[i]] \in Conns
  <2>1. \A i \in DOMAIN clientfds : clientfds[i] \in InTable /\ clientfds[i] \in FDs
    BY DEF InTable, Types
  <2>2. \A fd \in FDs : fd \in InTable => fdConn[fd] \in Conns
    BY DEF Types, Entries
  <2>. QED
    BY <2>1, <2>2
<1>2. CASE (\E c \in Conns : Comes(c)) \/ Fails \/ Passes
  <2>1. /\ UNCHANGED <<cl, clientfds, fdConn, forwarded, received, since>>
        /\ pc' = "forward" => pc = "forward"
        /\ pc = "forward" /\ pc' # "forward" => cl = Len(clientfds)
    BY <1>2 DEF Comes, Fails, Passes
  <2>2. \A i \in DOMAIN clientfds :
           (pc' = "forward" /\ i > cl) <=> (pc = "forward" /\ i > cl)
    BY <2>1 DEF Types
  <2>. QED
    BY <2>1, <2>2 DEF Served
<1>3. CASE \E fd \in FDs : Arrives(fd)
  <2>1. PICK fd \in FDs : Arrives(fd)
    BY <1>3
  <2>. DEFINE c == Head(backlog)
              Right(d) == received[d] = SubSeq(forwarded, since'[d] + 1, Len(forwarded))
  <2>2. /\ c \in Conns /\ c # NoConn /\ 1 \in DOMAIN backlog /\ c = backlog[1]
        /\ ~Taken(c) /\ fd \notin InTable
        /\ \A gd \in FDs : fdConn'[gd] = IF gd = fd THEN c ELSE fdConn[gd]
        /\ \/ /\ since' = [since EXCEPT ![c] = Len(forwarded)]
              /\ clientfds' = Append(clientfds, fd)
           \/ since' = since /\ clientfds' = clientfds
    BY <2>1, Arrival
  <2>. HIDE DEF c
  <2>3. UNCHANGED <<pc, forwarded, received>> /\ pc = "accept"
    BY <2>1 DEF Arrives
  <2>4. ASSUME NEW i \in DOMAIN clientfds
        PROVE  fdConn'[clientfds[i]] = fdConn[clientfds[i]] /\ Right(fdConn[clientfds[i]])
    <3>1. fdConn'[clientfds[i]] = fdConn[clientfds[i]] /\ fdConn[clientfds[i]] # c
      BY <1>1, <2>2, <2>4 DEF Taken
    <3>2. since'[fdConn[clientfds[i]]] = since[fdConn[clientfds[i]]]
      BY <1>1, <2>2, <3>1 DEF Types
    <3>3. received[fdConn[clientfds[i]]] =
             SubSeq(forwarded, since[fdConn[clientfds[i]]] + 1, Len(forwarded))
      BY <2>3, <2>4 DEF Served
    <3>. QED
      BY <3>1, <3>2, <3>3
  <2>5. CASE since' = since /\ clientfds' = clientfds
    BY <2>3, <2>4, <2>5 DEF Served
  <2>6. CASE since' = [since EXCEPT ![c] = Len(forwarded)] /\ clientfds' = Append(clientfds, fd)
    <3>1. received[c] = <<>>
      BY <2>2 DEF Fresh
    <3>2. SubSeq(forwarded, Len(forwarded) + 1, Len(forwarded)) = <<>>
      BY SubSeqEmpty DEF Types
    <3>3. since'[c] = Len(forwarded)
      BY <2>2, <2>6 DEF Types
    <3>4. Right(c)
      BY <3>1, <3>2, <3>3
    <3>5. /\ DOMAIN clientfds' = 1..Len(clientfds) + 1 /\ Len(clientfds) \in Nat
          /\ DOMAIN clientfds = 1..Len(clientfds)
          /\ \A i \in 1..Len(clientfds) : clientfds'[i] = clientfds[i]
          /\ clientfds'[Len(clientfds) + 1] = fd
      BY <2>6 DEF Types
    <3>6. fdConn'[fd] = c
      BY <2>2
    <3>. HIDE DEF Right
    <3>7. \A i \in DOMAIN clientfds' : Right(fdConn'[clientfds'[i]])
      BY <2>4, <3>4, <3>5, <3>6
    <3>. QED
      BY <2>3, <3>7 DEF Served, Right
  <2>. QED
    BY <2>2, <2>5, <2>6
<1>4. CASE \E fd \in FDs : Drops(fd)
  <2>1. PICK fd \in FDs : Drops(fd)
    BY <1>4
  <2>2. /\ UNCHANGED <<pc, cl, forwarded, received, since>>
        /\ pc = "forward" => cl < Len(clientfds) /\ clientfds[cl + 1] = fd
    BY <2>1 DEF Drops
  <2>3. /\ clientfds' \in Seq(FDs) /\ InTable' = InTable \ {fd}
        /\ \A i \in DOMAIN clientfds' : \E j \in DOMAIN clientfds :
              /\ clientfds'[i] = clientfds[j] /\ i =< j
              /\ i = j \/ clientfds[i] = fd
        /\ \A gd \in FDs : gd # fd => fdConn'[gd] = fdConn[gd]
    BY <2>1, Departure
  <2>4. ASSUME NEW i \in DOMAIN clientfds'
        PROVE  LET c    == fdConn'[clientfds'[i]]
                   owed == SubSeq(forwarded, since[c] + 1, Len(forwarded))
               IN received[c] = IF pc = "forward" /\ i > cl THEN Front(owed) ELSE owed
    <3>1. PICK j \in DOMAIN clientfds : /\ clientfds'[i] = clientfds[j] /\ i =< j
                                        /\ i = j \/ clientfds[i] = fd
      BY <2>3
    <3>2. clientfds'[i] # fd
      BY <2>3 DEF InTable
    <3>3. fdConn'[clientfds'[i]] = fdConn[clientfds[j]]
      BY <1>1, <2>3, <3>1, <3>2
    <3>4. pc = "forward" => (i > cl <=> j > cl)
      <4>1. i \in Nat /\ j \in Nat /\ cl \in Nat /\ i \in DOMAIN clientfds
        <5>1. /\ DOMAIN clientfds = 1..Len(clientfds) /\ Len(clientfds) \in Nat
              /\ cl \in Nat
          BY DEF Types
        <5>2. DOMAIN clientfds' = 1..Len(clientfds') /\ Len(clientfds') \in Nat
          BY <2>3
        <5>3. i \in Nat /\ i >= 1 /\ j \in 1..Len(clientfds)
          BY <5>1, <5>2
        <5>. QED
          BY <3>1, <5>1, <5>3
      <4>2. pc = "forward" => cl + 1 \in DOMAIN clientfds
        BY <2>2 DEF Types
      <4>3. pc = "forward" => i = j \/ i = cl + 1
        BY <2>2, <3>1, <4>1, <4>2 DEF Entries
      <4>. QED
        BY <3>1, <4>1, <4>3
    <3>. QED
      BY <3>1, <3>3, <3>4 DEF Served
  <2>. QED
    BY <2>2, <2>4 DEF Served
<1>5. CASE TakesUp
  <2>1. /\ UNCHANGED <<clientfds, fdConn, received, since>>
        /\ pc = "dispatch" /\ pc' = "forward" /\ cl' = 0
        /\ forwarded' = Append(forwarded, Head(hidQueue))
    BY <1>5 DEF TakesUp
  <2>2. Head(hidQueue) \in 1..MaxReports
    BY <1>5 DEF TakesUp, Inv, Numbered, Void
  <2>3. ASSUME NEW i \in DOMAIN clientfds
        PROVE  LET c == fdConn[clientfds[i]] IN
               /\ i > 0
               /\ received[c] = Front(SubSeq(forwarded', since[c] + 1, Len(forwarded')))
    <3>. DEFINE c == fdConn[clientfds[i]]
    <3>1. since[c] \in 0..Len(forwarded) /\ forwarded \in Seq(1..MaxReports)
      BY <1>1 DEF Types, Fresh
    <3>2. received[c] = SubSeq(forwarded, since[c] + 1, Len(forwarded))
      BY <2>1 DEF Served
    <3>3. Front(SubSeq(forwarded', since[c] + 1, Len(forwarded'))) =
             SubSeq(forwarded, since[c] + 1, Len(forwarded))
      BY <2>1, <2>2, <3>1, OwedLater
    <3>4. i > 0
      BY DEF Types
    <3>. QED
      BY <3>2, <3>3, <3>4
  <2>. QED
    BY <2>1, <2>3 DEF Served
<1>6. CASE Writes
  <2>1. /\ UNCHANGED <<pc, clientfds, fdConn, forwarded, since>>
        /\ cl' = cl + 1 /\ pc = "forward"
        /\ received' = [received EXCEPT ![target] = Append(@, Last(forwarded))]
    BY <1>6 DEF Writes, Forwarding
  <2>2. /\ cl + 1 \in DOMAIN clientfds /\ target \in Conns /\ since[target] \in Nat
        /\ since[target] < Len(forwarded)
        /\ Last(forwarded) = forwarded[Len(forwarded)]
    BY <1>6, Turn DEF Writes
  <2>3. target = fdConn[clientfds[cl + 1]] /\ cl \in Nat
    BY DEF target, Types
  <2>4. received'[target] = SubSeq(forwarded, since[target] + 1, Len(forwarded))
    <3>. DEFINE owed == SubSeq(forwarded, since[target] + 1, Len(forwarded))
    <3>1. received[target] = Front(owed)
      BY <2>1, <2>2, <2>3 DEF Served
    <3>2. Append(Front(owed), forwarded[Len(forwarded)]) = owed
      BY <2>2, OwedNow DEF Types
    <3>3. received'[target] = Append(received[target], Last(forwarded))
      BY <2>1, <2>2 DEF Types
    <3>. QED
      BY <2>2, <3>1, <3>2, <3>3
  <2>5. ASSUME NEW i \in DOMAIN clientfds, i # cl + 1
        PROVE  LET c == fdConn[clientfds[i]] IN
               received'[c] = received[c] /\ (i > cl + 1 <=> i > cl)
    <3>1. fdConn[clientfds[i]] # target
      BY <1>1, <2>2, <2>3, <2>5 DEF Places, Entries, ForwarderAssumption
    <3>2. i > cl + 1 <=> i > cl
      BY <2>3, <2>5 DEF Types
    <3>. QED
      BY <1>1, <2>1, <2>2, <3>1, <3>2 DEF Types
  <2>6. ASSUME NEW i \in DOMAIN clientfds
        PROVE  LET c    == fdConn[clientfds[i]]
                   owed == SubSeq(forwarded, since[c] + 1, Len(forwarded))
               IN received'[c] = IF i > cl + 1 THEN Front(owed) ELSE owed
    <3>1. CASE i = cl + 1
      <4>1. fdConn[clientfds[i]] = target /\ ~(i > cl + 1)
        BY <2>3, <3>1
      <4>. QED
        BY <2>4, <4>1
    <3>2. CASE i # cl + 1
      <4>. DEFINE c    == fdConn[clientfds[i]]
                  owed == SubSeq(forwarded, since[c] + 1, Len(forwarded))
      <4>1. received[c] = IF i > cl THEN Front(owed) ELSE owed
        BY <2>1 DEF Served
      <4>2. received'[c] = received[c] /\ (i > cl + 1 <=> i > cl)
        BY <2>5, <3>2
      <4>. HIDE DEF c, owed
      <4>3. received'[c] = IF i > cl + 1 THEN Front(owed) ELSE owed
        BY <4>1, <4>2
      <4>. QED
        BY <4>3 DEF c, owed
    <3>. QED
      BY <3>1, <3>2
  <2>. QED
    BY <2>1, <2>6 DEF Served
<1>7. CASE \E D \in SUBSET FDs : Clears(D)
  BY <1>7 DEF Clears, Served
<1>. QED
  BY <1>2, <1>3, <1>4, <1>5, <1>6, <1>7 DEF Effect

LEMMA NumberedStep ==
    ASSUME Inv, [Next]_vars
    PROVE  Numbered'
<1>. Types /\ Numbered
  BY DEF Inv
<1>1. CASE HidReport
  <2>1. PICK report \in {produced + 1, Void} : hidQueue' = Append(hidQueue, report)
    BY <1>1 DEF HidReport
  <2>2. /\ produced' = produced + 1 /\ produced < MaxReports /\ produced \in Nat
        /\ forwarded' = forwarded
    BY <1>1 DEF HidReport, Numbered
  <2>3. report \in Nat /\ report =< produced' /\ (report = Void \/ report > produced)
    BY <2>2 DEF Void
  <2>. DEFINE n == Len(hidQueue)
  <2>4. /\ n \in Nat /\ DOMAIN hidQueue = 1..n /\ DOMAIN hidQueue' = 1..n + 1
        /\ \A i \in 1..n : hidQueue'[i] = hidQueue[i] /\ hidQueue[i] \in Nat
        /\ hidQueue'[n + 1] = report
    BY <2>1, <2>3 DEF Numbered
  <2>5. hidQueue' \in Seq(Nat)
    BY <2>1, <2>3 DEF Numbered
  <2>. HIDE DEF n
  <2>6. \A i \in DOMAIN forwarded : forwarded[i] \in Nat /\ forwarded[i] =< produced
    BY DEF Numbered, Types
  <2>7. \A j \in DOMAIN hidQueue' : hidQueue'[j] =< produced'
    BY <2>2, <2>3, <2>4 DEF Numbered
  <2>8. ASSUME NEW i \in DOMAIN hidQueue', NEW j \in DOMAIN hidQueue', i < j
        PROVE  hidQueue'[i] < hidQueue'[j] \/ Void \in {hidQueue'[i], hidQueue'[j]}
    <3>1. CASE j = n + 1
      BY <2>2, <2>3, <2>4, <2>8, <3>1 DEF Numbered
    <3>2. CASE j # n + 1
      <4>1. i \in 1..n /\ j \in 1..n
        BY <2>4, <2>8, <3>2
      <4>. QED
        BY <2>4, <2>8, <4>1 DEF Numbered
    <3>. QED
      BY <3>1, <3>2
  <2>9. \A i \in DOMAIN forwarded, j \in DOMAIN hidQueue' :
           forwarded[i] < hidQueue'[j] \/ hidQueue'[j] = Void
    BY <2>2, <2>3, <2>4, <2>6 DEF Numbered
  <2>10. \A i \in DOMAIN forwarded : forwarded[i] =< produced'
    BY <2>2, <2>6
  <2>11. produced' \in 0..MaxReports
    BY <2>2
  <2>. QED
    BY <2>2, <2>5, <2>7, <2>8, <2>9, <2>10, <2>11 DEF Numbered
<1>2. CASE HandleHid
  <2>1. CASE hidQueue = <<>>
    <3>1. hidQueue' = hidQueue /\ UNCHANGED <<produced, forwarded>>
      BY <1>2, <2>1 DEF HandleHid
    <3>. QED
      BY <3>1 DEF Numbered
  <2>2. CASE hidQueue # <<>>
    <3>. DEFINE rest == Tail(hidQueue)
                report == Head(hidQueue)
    <3>1. /\ hidQueue' = rest /\ produced' = produced
          /\ \/ forwarded' = forwarded
             \/ report # Void /\ forwarded' = Append(forwarded, report)
      BY <1>2, <2>2 DEF HandleHid
    <3>2. /\ rest \in Seq(Nat) /\ report = hidQueue[1] /\ 1 \in DOMAIN hidQueue
          /\ \A i \in DOMAIN rest : /\ i + 1 \in DOMAIN hidQueue /\ i \in Nat
                                    /\ i >= 1 /\ rest[i] = hidQueue[i + 1]
      BY <2>2 DEF Numbered
    <3>. HIDE DEF rest, report
    <3>3. \A j \in DOMAIN hidQueue : hidQueue[j] \in Nat /\ hidQueue[j] =< produced
      BY DEF Numbered
    <3>4. /\ \A j \in DOMAIN rest : rest[j] =< produced
          /\ \A i, j \in DOMAIN rest :
                i < j => rest[i] < rest[j] \/ Void \in {rest[i], rest[j]}
      <4>1. \A j \in DOMAIN rest : rest[j] =< produced
        BY <3>2, <3>3
      <4>2. ASSUME NEW i \in DOMAIN rest, NEW j \in DOMAIN rest, i < j
            PROVE  rest[i] < rest[j] \/ Void \in {rest[i], rest[j]}
        <5>1. /\ i + 1 \in DOMAIN hidQueue /\ j + 1 \in DOMAIN hidQueue
              /\ i + 1 < j + 1 /\ rest[i] = hidQueue[i + 1] /\ rest[j] = hidQueue[j + 1]
          BY <3>2, <4>2
        <5>. QED
          BY <5>1 DEF Numbered
      <4>. QED
        BY <4>1, <4>2
    <3>5. \A i \in DOMAIN forwarded, j \in DOMAIN rest :
             forwarded[i] < rest[j] \/ rest[j] = Void
      BY <3>2 DEF Numbered
    <3>6. CASE forwarded' = forwarded
      BY <3>1, <3>2, <3>4, <3>5, <3>6 DEF Numbered
    <3>7. CASE report # Void /\ forwarded' = Append(forwarded, report)
      <4>. DEFINE n == Len(forwarded)
      <4>1. report \in Nat /\ report =< produced /\ produced =< MaxReports /\ report >= 1
        BY <3>2, <3>3, <3>7 DEF Numbered, Void
      <4>2. /\ n \in Nat /\ DOMAIN forwarded = 1..n /\ DOMAIN forwarded' = 1..n + 1
            /\ \A i \in 1..n : forwarded'[i] = forwarded[i] /\ forwarded[i] \in Nat
            /\ forwarded'[n + 1] = report
        BY <3>7, <4>1 DEF Types
      <4>. HIDE DEF n
      <4>3. \A i \in 1..n : forwarded[i] < report
        BY <3>2, <3>7, <4>2 DEF Numbered
      <4>4. \A j \in DOMAIN rest : report < rest[j] \/ rest[j] = Void
        BY <3>2, <3>7 DEF Numbered
      <4>5. \A i \in DOMAIN forwarded' : forwarded'[i] =< produced
        <5>1. \A i \in 1..n : forwarded[i] =< produced
          BY <4>2 DEF Numbered
        <5>. QED
          BY <4>1, <4>2, <5>1
      <4>6. ASSUME NEW i \in DOMAIN forwarded', NEW j \in DOMAIN forwarded', i < j
            PROVE  forwarded'[i] < forwarded'[j]
        <5>1. CASE j = n + 1
          BY <4>2, <4>3, <4>6, <5>1
        <5>2. CASE j # n + 1
          <6>1. i \in 1..n /\ j \in 1..n
            BY <4>2, <4>6, <5>2
          <6>. QED
            BY <4>2, <4>6, <6>1 DEF Numbered
        <5>. QED
          BY <5>1, <5>2
      <4>7. \A i \in DOMAIN forwarded', j \in DOMAIN rest :
               forwarded'[i] < rest[j] \/ rest[j] = Void
        BY <3>5, <4>2, <4>4
      <4>. QED
        BY <3>1, <3>2, <3>4, <4>5, <4>6, <4>7 DEF Numbered
    <3>. QED
      BY <3>1, <3>6, <3>7
  <2>. QED
    BY <2>1, <2>2
<1>3. CASE Reopen
  <2>1. hidQueue' = <<>> /\ UNCHANGED <<produced, forwarded>>
    BY <1>3 DEF Reopen
  <2>. QED
    BY <2>1 DEF Numbered
<1>4. CASE UNCHANGED <<hidQueue, produced, forwarded>>
  BY <1>4 DEF Numbered
<1>5. HidReport \/ HandleHid \/ Reopen \/ UNCHANGED <<hidQueue, produced, forwarded>>
  BY DEF Next, Process, Environment, vars, Connect, PeerActs, PeerStalls,
         PeerDrains, HidUnplug, Terminate, Tick, EpollWait, NextWait, HandleHangup,
         HandleClientError, HandleClient, HandleListen, Accept, AcceptAndClose,
         AcceptEnds, Write, WriteFails, WriteKills, ForwardEnds, Out, Exit
<1>. QED
  BY <1>1, <1>2, <1>3, <1>4, <1>5

LEMMA TimelyStep ==
    ASSUME Inv, [Next]_vars
    PROVE  Timely'
<1>. Types /\ Timely
  BY DEF Inv
<1>. DEFINE times == {last_recv, last_heartbeat, sentReset, sentHeartbeat}
<1>1. /\ last_recv \in Nat /\ last_heartbeat \in Nat
      /\ sentReset \in Nat /\ sentHeartbeat \in Nat
      /\ last_recv =< now /\ last_heartbeat =< now
      /\ sentReset =< now /\ sentHeartbeat =< now
      /\ now \in Nat /\ waited \in Nat /\ waited =< PollTimeout
      /\ held \in Nat /\ held =< now
  BY DEF Timely
<1>2. /\ RESET_TIMEOUT \in Nat /\ HEARTBEAT_INTERVAL \in Nat /\ PollTimeout \in Nat
  BY DEF ForwarderAssumption
<1>3. CASE Tick
  <2>1. /\ now' = now + 1
        /\ \/ waited' = waited + 1 /\ waited < PollTimeout /\ held' = held
           \/ waited' = waited /\ held' = held + 1
        /\ UNCHANGED <<last_recv, last_heartbeat, sentReset, sentHeartbeat, clientfds>>
    BY <1>3 DEF Tick
  <2>2. /\ waited' \in 0..PollTimeout /\ held' \in 0..now' /\ now' \in Nat
        /\ waited' + held' = waited + held + 1
    BY <1>1, <1>2, <2>1
  <2>3. {last_recv, last_heartbeat, sentReset, sentHeartbeat} \subseteq 0..now'
    BY <1>1, <2>1
  <2>4. clientfds # <<>> =>
           /\ now' - last_heartbeat =< HEARTBEAT_INTERVAL + waited' + held'
           /\ now' - last_recv =< RESET_TIMEOUT + waited' + held'
    <3>1. clientfds # <<>> =>
             /\ now - last_heartbeat =< HEARTBEAT_INTERVAL + waited + held
             /\ now - last_recv =< RESET_TIMEOUT + waited + held
      BY DEF Timely
    <3>. QED
      BY <1>1, <1>2, <2>1, <3>1
  <2>. QED
    BY <2>1, <2>2, <2>3, <2>4 DEF Timely
<1>4. CASE EpollWait
  <2>1. /\ now' = now /\ waited' = 0 /\ held' = 0 /\ clientfds' = clientfds
    BY <1>4 DEF EpollWait
  <2>2. /\ Due(last_recv, RESET_TIMEOUT) => last_recv' = now /\ sentReset' = now
        /\ ~Due(last_recv, RESET_TIMEOUT) => UNCHANGED <<last_recv, sentReset>>
        /\ Due(last_heartbeat, HEARTBEAT_INTERVAL) =>
              last_heartbeat' = now /\ sentHeartbeat' = now
        /\ ~Due(last_heartbeat, HEARTBEAT_INTERVAL) =>
              UNCHANGED <<last_heartbeat, sentHeartbeat>>
    BY <1>4 DEF EpollWait, Timers
  <2>3. {last_recv', last_heartbeat', sentReset', sentHeartbeat'} \subseteq 0..now
    BY <1>1, <2>2
  <2>4. clientfds # <<>> => /\ now - last_recv' =< RESET_TIMEOUT
                            /\ last_recv' >= sentReset'
    BY <1>1, <1>2, <2>2 DEF Timely, Due
  <2>5. clientfds # <<>> => /\ now - last_heartbeat' =< HEARTBEAT_INTERVAL
                            /\ sentHeartbeat' = last_heartbeat'
    BY <1>1, <1>2, <2>2 DEF Timely, Due
  <2>. QED
    BY <1>1, <1>2, <2>1, <2>3, <2>4, <2>5 DEF Timely
<1>5. CASE Accept
  <2>1. UNCHANGED <<now, waited, held>>
    BY <1>5 DEF Accept
  <2>2. CASE clientfds = <<>>
    <3>1. HasRoom
      BY <2>2 DEF HasRoom, ForwarderAssumption
    <3>2. /\ last_recv' = now /\ last_heartbeat' = now
          /\ sentReset' = now /\ sentHeartbeat' = now
      BY <1>5, <2>2, <3>1 DEF Accept
    <3>. QED
      BY <1>1, <1>2, <2>1, <3>2 DEF Timely
  <2>3. CASE clientfds # <<>>
    <3>1. UNCHANGED <<last_recv, last_heartbeat, sentReset, sentHeartbeat>>
      BY <1>5, <2>3 DEF Accept
    <3>. QED
      BY <2>1, <2>3, <3>1 DEF Timely
  <2>. QED
    BY <2>2, <2>3
<1>6. CASE HandleHid
  <2>1. /\ last_recv' = now
        /\ UNCHANGED <<now, waited, held, last_heartbeat, sentReset, sentHeartbeat,
                       clientfds>>
    BY <1>6 DEF HandleHid
  <2>. QED
    BY <1>1, <1>2, <2>1 DEF Timely
<1>7. CASE Reopen
  <2>1. /\ clientfds' = <<>> /\ last_recv' = 0 /\ last_heartbeat' = 0 /\ waited' = 0
        /\ UNCHANGED <<now, held, sentReset, sentHeartbeat>>
    BY <1>7 DEF Reopen, Inv, Entries, Ended
  <2>. QED
    BY <1>1, <1>2, <2>1 DEF Timely
<1>8. CASE HandleClientError \/ HandleClient \/ WriteFails
  <2>1. UNCHANGED <<now, waited, held, last_recv, last_heartbeat, sentReset,
                       sentHeartbeat>>
    BY <1>8 DEF HandleClientError, HandleClient, WriteFails
  <2>2. clientfds = <<>> => clientfds' = <<>>
    <3>1. SUFFICES ASSUME clientfds = <<>> PROVE clientfds' = <<>>
      OBVIOUS
    <3>2. clientfds' = clientfds \/ \E fd : clientfds' = Without(clientfds, fd)
      BY <1>8 DEF HandleClientError, HandleClient, WriteFails, RemoveClient
    <3>3. \A fd : Without(clientfds, fd) = clientfds
      BY <3>1 DEF Without, Contains
    <3>. QED
      BY <3>1, <3>2, <3>3
  <2>. QED
    BY <2>1, <2>2 DEF Timely
<1>9. CASE Out \/ WriteKills
  <2>1. /\ UNCHANGED <<now, waited, held, last_recv, last_heartbeat, sentReset,
                       sentHeartbeat>>
        /\ clientfds' = <<>>
    BY <1>9 DEF Out, WriteKills
  <2>. QED
    BY <2>1 DEF Timely
<1>10. CASE \/ \E c \in Conns : Connect(c) \/ PeerActs(c) \/ PeerStalls(c) \/ PeerDrains(c)
            \/ HidReport \/ HidUnplug \/ Terminate \/ UNCHANGED vars
            \/ NextWait \/ HandleHangup \/ HandleListen \/ AcceptAndClose
            \/ AcceptEnds \/ Write \/ ForwardEnds \/ Exit
  <2>1. UNCHANGED <<now, waited, held, last_recv, last_heartbeat, sentReset,
                    sentHeartbeat, clientfds>>
    BY <1>10 DEF Connect, PeerActs, PeerStalls, PeerDrains, HidReport, HidUnplug,
                 Terminate, vars, NextWait, HandleHangup, HandleListen,
                 AcceptAndClose, AcceptEnds, Write, ForwardEnds, Exit
  <2>. QED
    BY <2>1 DEF Timely
<1>. QED
  BY <1>3, <1>4, <1>5, <1>6, <1>7, <1>8, <1>9, <1>10 DEF Next, Process, Environment

LEMMA Step == Inv /\ [Next]_vars => Inv'
<1>. SUFFICES ASSUME Inv, [Next]_vars PROVE Inv'
  OBVIOUS
<1>. QED
  BY Effects, TypesStep, EntriesStep, PlacesStep, FreshStep, ServedStep,
     NumberedStep, TimelyStep DEF Inv

LEMMA Invariance == Spec => []Inv
BY Initially, Step, PTL DEF Spec

-----------------------------------------------------------------------------
(* The rest of the state: the flags, the bounds, and the lists of epoll.   *)

Numbers == {sockfd, hidfd} \union FDs

Event == [fd : Numbers, error : BOOLEAN, of : Conns \union {NoConn}]

Flags ==
    /\ g_running \in BOOLEAN /\ unplugged \in BOOLEAN
    /\ unread \in [Conns -> BOOLEAN] /\ full \in [Conns -> BOOLEAN]

Bounds ==
    /\ cl =< MAXCLIENTS /\ now =< MaxTime /\ opens \in 1..MaxOpens
    /\ Len(forwarded) + Len(hidQueue) =< produced

Lists ==
    /\ events \in Seq(Event) /\ ready \in Seq(Numbers) /\ watched \subseteq FDs

(* Descriptors are few, and none has the number of the socket or device.   *)
LEMMA FewNumbers ==
    /\ IsFiniteSet(Numbers) /\ IsFiniteSet(FDs) /\ Cardinality(FDs) = MaxFd
    /\ sockfd \notin FDs /\ hidfd \notin FDs /\ sockfd # hidfd
<1>1. IsFiniteSet(FDs) /\ Cardinality(FDs) = MaxFd
  <2>1. MaxFd \in Nat
    BY DEF ForwarderAssumption
  <2>2. IsFiniteSet(1..MaxFd) /\ Cardinality(1..MaxFd) =
           IF 1 =< MaxFd THEN MaxFd - 1 + 1 ELSE 0
    BY <2>1, FS_Interval
  <2>. QED
    BY <2>1, <2>2
<1>2. IsFiniteSet(FDs \union {hidfd})
  BY <1>1, FS_AddElement
<1>3. IsFiniteSet((FDs \union {hidfd}) \union {sockfd})
  BY <1>2, FS_AddElement
<1>4. Numbers = (FDs \union {hidfd}) \union {sockfd}
  BY DEF Numbers
<1>. QED
  BY <1>1, <1>3, <1>4 DEF sockfd, hidfd

(* After an edge the descriptors are in the ready list with the others.    *)
LEMMA EdgeReady ==
    ASSUME Lists, NEW fds \in SUBSET Numbers
    PROVE  /\ Edge(fds) \in Seq(Numbers)
           /\ ToSet(Edge(fds)) = ToSet(ready) \union fds
<1>. DEFINE new == SetToSeq(fds \ ToSet(ready))
<1>1. IsFiniteSet(fds \ ToSet(ready))
  BY FewNumbers, FS_Subset
<1>2. new \in Seq(fds \ ToSet(ready)) /\ ToSet(new) = fds \ ToSet(ready)
  BY <1>1, Listed
<1>3. Edge(fds) = ready \o new
  BY DEF Edge
<1>. HIDE DEF new
<1>4. new \in Seq(Numbers)
  BY <1>2
<1>5. ready \in Seq(Numbers)
  BY DEF Lists
<1>6. ToSet(ready \o new) = ToSet(ready) \union ToSet(new)
  <2>1. /\ Len(ready) \in Nat /\ Len(new) \in Nat
        /\ DOMAIN ready = 1..Len(ready) /\ DOMAIN new = 1..Len(new)
        /\ DOMAIN (ready \o new) = 1..Len(ready) + Len(new)
        /\ \A i \in 1..Len(ready) + Len(new) :
              (ready \o new)[i] = IF i =< Len(ready) THEN ready[i]
                                  ELSE new[i - Len(ready)]
    BY <1>4, <1>5, ConcatProperties
  <2>2. ASSUME NEW i \in DOMAIN (ready \o new)
        PROVE  (ready \o new)[i] \in ToSet(ready) \union ToSet(new)
    <3>1. CASE i =< Len(ready)
      BY <2>1, <3>1 DEF ToSet
    <3>2. CASE i > Len(ready)
      <4>1. i - Len(ready) \in DOMAIN new
        BY <2>1, <3>2
      <4>2. (ready \o new)[i] = new[i - Len(ready)]
        BY <2>1, <3>2
      <4>. QED
        BY <4>1, <4>2 DEF ToSet
    <3>. QED
      BY <2>1, <3>1, <3>2
  <2>3. ASSUME NEW i \in DOMAIN ready
        PROVE  ready[i] \in ToSet(ready \o new)
    <3>1. i \in DOMAIN (ready \o new) /\ (ready \o new)[i] = ready[i]
      BY <2>1
    <3>. QED
      BY <3>1 DEF ToSet
  <2>4. ASSUME NEW i \in DOMAIN new
        PROVE  new[i] \in ToSet(ready \o new)
    <3>. DEFINE j == Len(ready) + i
    <3>1. j \in DOMAIN (ready \o new) /\ j - Len(ready) = i /\ ~(j =< Len(ready))
      BY <2>1
    <3>2. (ready \o new)[j] = new[i]
      <4>. HIDE DEF j
      <4>. QED
        BY <2>1, <3>1
    <3>. HIDE DEF j
    <3>. QED
      BY <3>1, <3>2 DEF ToSet
  <2>5. ToSet(ready \o new) \subseteq ToSet(ready) \union ToSet(new)
    BY <2>2 DEF ToSet
  <2>6. ToSet(ready) \subseteq ToSet(ready \o new) /\ ToSet(new) \subseteq ToSet(ready \o new)
    BY <2>3, <2>4 DEF ToSet
  <2>. QED
    BY <2>5, <2>6
<1>. QED
  BY <1>2, <1>3, <1>4, <1>5, <1>6

(* close() takes the descriptors C out of the epoll set and its list.      *)
LEMMA Closed ==
    ASSUME Lists, Flags, NEW C, Close(C)
    PROVE  /\ ready' \in Seq(Numbers) /\ ToSet(ready') = ToSet(ready) \ C
           /\ watched' = watched \ C
           /\ unread' \in [Conns -> BOOLEAN] /\ full' \in [Conns -> BOOLEAN]
           /\ \A c \in Conns : unread'[c] => unread[c]
<1>1. /\ ready' = Only(ready, ToSet(ready) \ C) /\ watched' = watched \ C
      /\ unread' = [c \in Conns |-> c \notin {fdConn[fd] : fd \in C} /\ unread[c]]
      /\ full' = [c \in Conns |-> c \notin {fdConn[fd] : fd \in C} /\ full[c]]
  BY DEF Close
<1>2. /\ Only(ready, ToSet(ready) \ C) \in Seq(Numbers)
      /\ ToSet(Only(ready, ToSet(ready) \ C)) = ToSet(ready) \intersect (ToSet(ready) \ C)
  BY Chosen DEF Lists
<1>3. ToSet(ready') = ToSet(ready) \ C
  BY <1>1, <1>2
<1>4. \A c \in Conns : unread'[c] => unread[c]
  BY <1>1
<1>. QED
  BY <1>1, <1>2, <1>3, <1>4 DEF Flags

(* epoll_wait hands over some of what can be read, and keeps the others.   *)
LEMMA Fetched ==
    ASSUME Lists, Flags, Types, EpollWait
    PROVE  /\ events' \in Seq(Event) /\ ready' \in Seq(Numbers)
           /\ \A fd \in ToSet(ready) : Readable(fd) =>
                 fd \in ToSet(ready') \/ \E i \in DOMAIN events' : events'[i].fd = fd
<1>. DEFINE all == Live
            n == Min({Len(all), MAXEVENTS})
<1>1. all \in Seq(Numbers) /\ ToSet(all) = {fd \in ToSet(ready) : Readable(fd)}
  <2>1. /\ all \in Seq(Numbers)
        /\ ToSet(all) = ToSet(ready) \intersect {fd \in ToSet(ready) : Readable(fd)}
    BY Chosen DEF Lists, Live
  <2>. QED
    BY <2>1
<1>2. /\ events' = [i \in 1..n |-> EventOf(all[i])]
      /\ ready' = SubSeq(all, n + 1, Len(all))
  BY DEF EpollWait
<1>. HIDE DEF all
<1>3. Len(all) \in Nat /\ n \in 0..Len(all)
  <2>1. Len(all) \in Nat /\ MAXEVENTS \in Nat
    BY <1>1 DEF ForwarderAssumption
  <2>2. n \in {Len(all), MAXEVENTS} /\ n =< Len(all)
    <3>1. \E x \in {Len(all), MAXEVENTS} : \A y \in {Len(all), MAXEVENTS} : x =< y
      BY <2>1
    <3>. QED
      BY <3>1 DEF Min
  <2>. QED
    BY <2>1, <2>2
<1>. HIDE DEF n
<1>4. \A i \in 1..n : i \in DOMAIN all /\ all[i] \in Numbers
  BY <1>1, <1>3
<1>5. ASSUME NEW fd \in Numbers
      PROVE  EventOf(fd) \in Event /\ EventOf(fd).fd = fd
  <2>1. ErrorOrHangup(fd) \in BOOLEAN
    <3>1. fd \in {sockfd, hidfd} \/ (fd \in FDs /\ fd # sockfd /\ fd # hidfd)
      BY FewNumbers, Zenon DEF Numbers
    <3>2. Broken(fdConn[fd]) \in BOOLEAN
      BY DEF Broken
    <3>3. CASE fd = sockfd
      BY <3>3, FewNumbers DEF ErrorOrHangup
    <3>4. CASE fd = hidfd
      BY <3>4, FewNumbers DEF ErrorOrHangup, Flags
    <3>5. CASE fd # sockfd /\ fd # hidfd
      BY <3>2, <3>5, Zenon DEF ErrorOrHangup
    <3>. QED
      BY <3>1, <3>3, <3>4, <3>5
  <2>2. (IF fd \in FDs THEN fdConn[fd] ELSE NoConn) \in Conns \union {NoConn}
    BY DEF Types
  <2>. QED
    BY <2>1, <2>2 DEF EventOf, Event
<1>6. events' \in Seq(Event) /\ DOMAIN events' = 1..n
  <2>. DEFINE event(i) == EventOf(all[i])
  <2>1. \A i \in 1..n : event(i) \in Event
    BY <1>4, <1>5
  <2>. HIDE DEF event
  <2>2. [i \in 1..n |-> event(i)] \in Seq(Event)
    BY <1>3, <2>1, IsASeq
  <2>3. events' = [i \in 1..n |-> event(i)]
    BY <1>2 DEF event
  <2>. QED
    BY <2>2, <2>3
<1>7. \A i \in 1..n : events'[i].fd = all[i]
  BY <1>2, <1>4, <1>5
<1>8. /\ ready' \in Seq(Numbers) /\ Len(ready') = Len(all) - n
      /\ \A i \in 1..Len(all) - n : ready'[i] = all[n + i]
  BY <1>1, <1>2, <1>3, OwedSoFar
<1>9. ASSUME NEW fd \in ToSet(ready), Readable(fd)
      PROVE  fd \in ToSet(ready') \/ \E i \in DOMAIN events' : events'[i].fd = fd
  <2>1. PICK j \in DOMAIN all : all[j] = fd
    BY <1>1, <1>9 DEF ToSet
  <2>2. j \in 1..Len(all)
    BY <1>1
  <2>3. CASE j =< n
    <3>1. j \in 1..n
      BY <1>3, <2>2, <2>3
    <3>. QED
      BY <1>6, <1>7, <2>1, <3>1
  <2>4. CASE j > n
    <3>1. j - n \in 1..Len(all) - n /\ n + (j - n) = j
      BY <1>3, <2>2, <2>4
    <3>2. ready'[j - n] = fd /\ j - n \in DOMAIN ready'
      BY <1>8, <2>1, <3>1
    <3>. QED
      BY <3>2 DEF ToSet
  <2>. QED
    BY <1>3, <2>2, <2>3, <2>4
<1>. QED
  BY <1>6, <1>8, <1>9

LEMMA FlagsStep ==
    ASSUME Types, Lists, Flags, [Next]_vars
    PROVE  Flags'
<1>1. CASE \E c \in Conns : PeerActs(c) \/ PeerStalls(c) \/ PeerDrains(c)
  <2>1. UNCHANGED <<g_running, unplugged>>
    BY <1>1 DEF PeerActs, PeerStalls, PeerDrains
  <2>2. \/ UNCHANGED unread
        \/ \E c \in Conns : unread' = [unread EXCEPT ![c] = TRUE]
    BY <1>1 DEF PeerActs, PeerStalls, PeerDrains
  <2>3. \/ UNCHANGED full
        \/ \E c \in Conns : \/ full' = [full EXCEPT ![c] = TRUE]
                            \/ full' = [full EXCEPT ![c] = FALSE]
    BY <1>1 DEF PeerActs, PeerStalls, PeerDrains
  <2>. QED
    BY <2>1, <2>2, <2>3 DEF Flags
<1>2. CASE HandleClientError \/ HandleClient \/ WriteFails \/ WriteKills \/ Exit
  <2>1. UNCHANGED <<g_running, unplugged>>
    BY <1>2 DEF HandleClientError, HandleClient, WriteFails, WriteKills, Exit
  <2>2. CASE \E C : Close(C)
    BY <2>1, <2>2, Closed DEF Flags
  <2>3. CASE HandleClient /\ ~RemoveClient(ev.fd)
    <3>1. full' = full /\ unread' = [unread EXCEPT ![fdConn[ev.fd]] = FALSE]
      BY <2>3 DEF HandleClient
    <3>2. \A c \in Conns : unread'[c] \in BOOLEAN
      BY <3>1 DEF Flags
    <3>. QED
      BY <2>1, <3>1 DEF Flags
  <2>4. (\E C : Close(C)) \/ (HandleClient /\ ~RemoveClient(ev.fd))
    BY <1>2 DEF HandleClientError, HandleClient, WriteFails, WriteKills, Exit,
                RemoveClient
  <2>. QED
    BY <2>2, <2>3, <2>4
<1>3. CASE AcceptAndClose
  <2>1. UNCHANGED <<g_running, unplugged>>
    BY <1>3 DEF AcceptAndClose
  <2>2. /\ unread' = [unread EXCEPT ![Head(backlog)] = FALSE]
        /\ full' = [full EXCEPT ![Head(backlog)] = FALSE]
    BY <1>3 DEF AcceptAndClose
  <2>. QED
    BY <2>1, <2>2 DEF Flags
<1>4. CASE Out
  <2>. DEFINE gone == {fdConn[fd] : fd \in InTable} \union ToSet(backlog)
  <2>1. /\ UNCHANGED <<g_running, unplugged>>
        /\ unread' = [c \in Conns |-> c \notin gone /\ unread[c]]
        /\ full' = [c \in Conns |-> c \notin gone /\ full[c]]
    BY <1>4 DEF Out, InTable
  <2>. HIDE DEF gone
  <2>. QED
    BY <2>1 DEF Flags
<1>5. CASE HidUnplug \/ Terminate \/ Reopen
  BY <1>5 DEF HidUnplug, Terminate, Reopen, Flags
<1>6. CASE \/ \E c \in Conns : Connect(c)
           \/ HidReport \/ Tick \/ UNCHANGED vars \/ EpollWait \/ NextWait
           \/ HandleHangup \/ HandleListen \/ Accept \/ AcceptEnds \/ HandleHid
           \/ Write \/ ForwardEnds
  <2>1. UNCHANGED <<g_running, unplugged, unread, full>>
    BY <1>6 DEF Connect, HidReport, Tick, vars, EpollWait, NextWait, HandleHangup,
                HandleListen, Accept, AcceptEnds, HandleHid, Write, ForwardEnds
  <2>. QED
    BY <2>1 DEF Flags
<1>. QED
  BY <1>1, <1>2, <1>3, <1>4, <1>5, <1>6 DEF Next, Process, Environment

LEMMA BoundsStep ==
    ASSUME Inv, Bounds, [Next]_vars
    PROVE  Bounds'
<1>. Types /\ Numbered
  BY DEF Inv
<1>1. /\ Len(forwarded) \in Nat /\ Len(hidQueue) \in Nat /\ produced \in Nat
      /\ cl \in Nat /\ now \in Nat
      /\ MAXCLIENTS \in Nat /\ MaxTime \in Nat /\ MaxOpens \in Nat /\ opens \in Nat
  BY DEF Types, Numbered, Bounds, Inv, Timely, ForwarderAssumption
<1>2. CASE Tick
  <2>1. /\ now' = now + 1 /\ now < MaxTime
        /\ UNCHANGED <<cl, opens, forwarded, hidQueue, produced>>
    BY <1>2 DEF Tick
  <2>. QED
    BY <1>1, <2>1 DEF Bounds
<1>3. CASE Write
  <2>1. /\ cl' = cl + 1 /\ cl < Len(clientfds) /\ Len(clientfds) =< MAXCLIENTS
        /\ Len(clientfds) \in Nat
        /\ UNCHANGED <<now, opens, forwarded, hidQueue, produced>>
    BY <1>3 DEF Write, Forwarding, Types
  <2>. QED
    BY <1>1, <2>1 DEF Bounds
<1>4. CASE HidReport
  <2>1. /\ produced' = produced + 1
        /\ \E report : hidQueue' = Append(hidQueue, report)
        /\ UNCHANGED <<cl, now, opens, forwarded>>
    BY <1>4 DEF HidReport
  <2>2. Len(hidQueue') = Len(hidQueue) + 1
    BY <2>1 DEF Numbered
  <2>. QED
    BY <1>1, <2>1, <2>2 DEF Bounds
<1>5. CASE HandleHid
  <2>1. /\ cl' \in {0, cl}
        /\ hidQueue' = IF hidQueue = <<>> THEN <<>> ELSE Tail(hidQueue)
        /\ forwarded' = forwarded \/ \E report : /\ hidQueue # <<>>
                                                 /\ forwarded' = Append(forwarded, report)
        /\ UNCHANGED <<now, opens, produced>>
    BY <1>5 DEF HandleHid
  <2>2. CASE hidQueue = <<>>
    BY <1>1, <2>1, <2>2 DEF Bounds
  <2>3. CASE hidQueue # <<>>
    <3>1. Len(hidQueue') = Len(hidQueue) - 1
      BY <2>1, <2>3 DEF Numbered
    <3>2. Len(forwarded') \in {Len(forwarded), Len(forwarded) + 1}
      BY <2>1 DEF Types
    <3>. QED
      BY <1>1, <2>1, <3>1, <3>2 DEF Bounds
  <2>. QED
    BY <2>2, <2>3
<1>6. CASE Reopen
  <2>1. /\ opens' = opens + 1 /\ opens < MaxOpens /\ hidQueue' = <<>>
        /\ UNCHANGED <<cl, now, forwarded, produced>>
    BY <1>6 DEF Reopen
  <2>2. Len(hidQueue') = 0
    BY <2>1
  <2>. QED
    BY <1>1, <2>1, <2>2 DEF Bounds
<1>7. CASE \/ \E c \in Conns : Connect(c) \/ PeerActs(c) \/ PeerStalls(c) \/ PeerDrains(c)
           \/ HidUnplug \/ Terminate \/ UNCHANGED vars \/ EpollWait \/ NextWait
           \/ HandleHangup \/ HandleClientError \/ HandleClient \/ HandleListen
           \/ Accept \/ AcceptAndClose \/ AcceptEnds \/ WriteFails \/ WriteKills
           \/ ForwardEnds \/ Out \/ Exit
  <2>1. UNCHANGED <<cl, now, opens, forwarded, hidQueue, produced>>
    BY <1>7 DEF Connect, PeerActs, PeerStalls, PeerDrains, HidUnplug, Terminate, vars,
                EpollWait, NextWait, HandleHangup, HandleClientError, HandleClient,
                HandleListen, Accept, AcceptAndClose, AcceptEnds, WriteFails,
                WriteKills, ForwardEnds, Out, Exit
  <2>. QED
    BY <2>1 DEF Bounds
<1>. QED
  BY <1>2, <1>3, <1>4, <1>5, <1>6, <1>7 DEF Next, Process, Environment

(* Taking the next event from the batch leaves the others.                 *)
LEMMA NextEvent ==
    ASSUME Lists, events # <<>>, events' = Tail(events)
    PROVE  /\ events' \in Seq(Event) /\ ev \in Event
           /\ \A i \in DOMAIN events :
                 events[i] = ev \/ \E j \in DOMAIN events' : events'[j] = events[i]
<1>. DEFINE rest == Tail(events)
<1>1. /\ DOMAIN events = 1..Len(events) /\ Len(events) \in Nat \ {0}
      /\ Head(events) = events[1] /\ events[1] \in Event
      /\ rest \in Seq(Event) /\ DOMAIN rest = 1..Len(events) - 1
      /\ \A i \in 1..Len(events) - 1 : rest[i] = events[i + 1]
  BY DEF Lists
<1>. HIDE DEF rest
<1>2. ASSUME NEW i \in DOMAIN events, i # 1
      PROVE  \E j \in DOMAIN rest : rest[j] = events[i]
  <2>1. i - 1 \in DOMAIN rest /\ i - 1 \in 1..Len(events) - 1 /\ (i - 1) + 1 = i
    BY <1>1, <1>2
  <2>. QED
    BY <1>1, <2>1
<1>. QED
  BY <1>1, <1>2 DEF ev, rest

LEMMA ListsStep ==
    ASSUME Types, Flags, Lists, [Next]_vars
    PROVE  Lists'
<1>1. CASE \/ \E c \in Conns : Connect(c) \/ PeerActs(c)
           \/ HidReport \/ HidUnplug
  <2>1. UNCHANGED <<events, watched>>
    BY <1>1 DEF Connect, PeerActs, HidReport, HidUnplug
  <2>2. \E fds \in SUBSET Numbers : ready' = Edge(fds)
    <3>1. \A c : FdsOf(c) \in SUBSET Numbers
      BY DEF FdsOf, Lists, Numbers
    <3>2. {sockfd} \in SUBSET Numbers /\ {hidfd} \in SUBSET Numbers
      BY DEF Numbers
    <3>. QED
      BY <1>1, <3>1, <3>2, Zenon DEF Connect, PeerActs, HidReport, HidUnplug
  <2>. QED
    BY <2>1, <2>2, EdgeReady DEF Lists
<1>2. CASE EpollWait
  BY <1>2, Fetched DEF EpollWait, Lists
<1>3. CASE HandleHangup \/ HandleListen \/ HandleHid
  <2>1. /\ events # <<>> /\ events' = Tail(events) /\ UNCHANGED <<ready, watched>>
    BY <1>3 DEF HandleHangup, HandleListen, HandleHid, Handling
  <2>. QED
    BY <2>1, NextEvent DEF Lists
<1>4. CASE HandleClientError \/ HandleClient
  <2>1. /\ events # <<>> /\ events' = Tail(events)
    BY <1>4 DEF HandleClientError, HandleClient, Handling
  <2>2. (\E C : Close(C)) \/ UNCHANGED <<ready, watched>>
    BY <1>4 DEF HandleClientError, HandleClient, RemoveClient
  <2>3. ready' \in Seq(Numbers) /\ watched' \subseteq watched
    BY <2>2, Closed DEF Lists
  <2>. QED
    BY <2>1, <2>3, NextEvent DEF Lists
<1>5. CASE Accept
  <2>. DEFINE fd == Min(FreeFds)
  <2>1. fd \in FDs
    BY <1>5, LowestFree DEF Accept, FreeFds
  <2>2. /\ watched' = watched \union {fd} /\ ready' \in {ready, Edge({fd})}
        /\ events' = events
    BY <1>5 DEF Accept
  <2>. HIDE DEF fd
  <2>3. {fd} \in SUBSET Numbers
    BY <2>1 DEF Numbers
  <2>. QED
    BY <2>1, <2>2, <2>3, EdgeReady DEF Lists
<1>6. CASE WriteFails \/ WriteKills \/ Exit
  <2>1. events' \in {events, <<>>} /\ \E C : Close(C)
    BY <1>6 DEF WriteFails, WriteKills, Exit, RemoveClient
  <2>2. <<>> \in Seq(Event)
    OBVIOUS
  <2>3. ready' \in Seq(Numbers) /\ watched' \subseteq watched
    BY <2>1, Closed
  <2>. QED
    BY <2>1, <2>2, <2>3 DEF Lists
<1>7. CASE Out
  <2>1. events' = <<>> /\ ready' = <<>> /\ watched' = {}
    BY <1>7 DEF Out
  <2>. QED
    BY <2>1 DEF Lists
<1>8. CASE \/ \E c \in Conns : PeerStalls(c) \/ PeerDrains(c)
           \/ Terminate \/ Tick \/ UNCHANGED vars \/ NextWait \/ AcceptAndClose
           \/ AcceptEnds \/ Write \/ ForwardEnds \/ Reopen
  <2>1. UNCHANGED <<events, ready, watched>>
    BY <1>8 DEF PeerStalls, PeerDrains, Terminate, Tick, vars, NextWait,
                AcceptAndClose, AcceptEnds, Write, ForwardEnds, Reopen
  <2>. QED
    BY <2>1 DEF Lists
<1>. QED
  BY <1>1, <1>2, <1>3, <1>4, <1>5, <1>6, <1>7, <1>8 DEF Next, Process, Environment

-----------------------------------------------------------------------------
(* The edges of the epoll set.                                             *)

(* Nothing of a connection waits to be read or noticed.                    *)
Quiet(c) == peer[c] = "est" /\ ~unread[c]

(* The loop has an event of the descriptor before it.                      *)
Noticed(fd) == fd \in ToSet(ready) \/ \E i \in DOMAIN events : events[i].fd = fd

Serving == pc \in {"wait", "dispatch", "accept", "forward"}

(* There is a descriptor for every connection.                             *)
EnoughFds == IsFiniteSet(Conns) /\ Cardinality(Conns) =< MaxFd

(* No batch is left over when the loop waits or has ended.                 *)
BatchDone ==
    /\ pc = "wait" \/ Ended => events = <<>>
    /\ Ended => watched = {}

WatchedOpen == \A fd \in watched : fdConn[fd] # NoConn

ClientEdges ==
    Serving => \A fd \in watched : Quiet(fdConn[fd]) \/ Noticed(fd)

SocketEdge ==
    Serving /\ backlog # <<>> => pc = "accept" \/ Noticed(sockfd)

(* What the loop knows of it goes on knowing, unless it handles it.        *)
LEMMA StillNoticed ==
    ASSUME Types, Lists, Flags, [Next]_vars, Serving', NEW fd \in Numbers, Noticed(fd)
    PROVE  \/ Noticed(fd)'
           \/ EpollWait
           \/ HandleListen /\ fd = sockfd
           \/ HandleHid /\ fd = hidfd
           \/ (HandleClientError \/ HandleClient) /\ fd = ev.fd
           \/ WriteFails /\ fd = clientfds[cl + 1]
<1>1. CASE \/ \E c \in Conns : Connect(c) \/ PeerActs(c)
           \/ HidReport \/ HidUnplug
  <2>1. UNCHANGED events
    BY <1>1 DEF Connect, PeerActs, HidReport, HidUnplug
  <2>2. \E fds \in SUBSET Numbers : ready' = Edge(fds)
    <3>1. \A c : FdsOf(c) \in SUBSET Numbers
      BY DEF FdsOf, Lists, Numbers
    <3>2. {sockfd} \in SUBSET Numbers /\ {hidfd} \in SUBSET Numbers
      BY DEF Numbers
    <3>. QED
      BY <1>1, <3>1, <3>2, Zenon DEF Connect, PeerActs, HidReport, HidUnplug
  <2>3. ToSet(ready) \subseteq ToSet(ready')
    BY <2>2, EdgeReady
  <2>. QED
    BY <2>1, <2>3 DEF Noticed
<1>2. CASE Accept
  <2>1. Min(FreeFds) \in FDs
    BY <1>2, LowestFree DEF Accept, FreeFds
  <2>2. {Min(FreeFds)} \in SUBSET Numbers
    BY <2>1 DEF Numbers
  <2>3. events' = events /\ ready' \in {ready, Edge({Min(FreeFds)})}
    BY <1>2 DEF Accept
  <2>4. ToSet(ready) \subseteq ToSet(ready')
    BY <2>2, <2>3, EdgeReady
  <2>. QED
    BY <2>3, <2>4 DEF Noticed
<1>3. CASE HandleListen \/ HandleHid \/ HandleClientError \/ HandleClient
  <2>1. events # <<>> /\ events' = Tail(events)
    BY <1>3 DEF HandleListen, HandleHid, HandleClientError, HandleClient, Handling
  <2>2. ev.fd \in FDs \/ (ev.fd = sockfd /\ HandleListen) \/ (ev.fd = hidfd /\ HandleHid)
    BY <1>3 DEF HandleListen, HandleHid, HandleClientError, HandleClient, Handling
  <2>3. ASSUME fd # ev.fd
        PROVE  Noticed(fd)'
    <3>1. CASE fd \in ToSet(ready)
      <4>1. ready' = ready \/ Close({ev.fd})
        BY <1>3 DEF HandleListen, HandleHid, HandleClientError, HandleClient,
                    RemoveClient
      <4>2. fd \in ToSet(ready')
        BY <2>3, <3>1, <4>1, Closed
      <4>. QED
        BY <4>2 DEF Noticed
    <3>2. CASE fd \notin ToSet(ready)
      <4>1. PICK i \in DOMAIN events : events[i].fd = fd
        BY <3>2 DEF Noticed
      <4>2. \E j \in DOMAIN events' : events'[j].fd = fd
        BY <2>1, <2>3, <4>1, NextEvent
      <4>. QED
        BY <4>2 DEF Noticed
    <3>. QED
      BY <3>1, <3>2
  <2>4. HandleListen => ev.fd = sockfd
    BY DEF HandleListen, Handling
  <2>5. HandleHid => ev.fd = hidfd
    BY DEF HandleHid, Handling
  <2>. QED
    BY <1>3, <2>3, <2>4, <2>5
<1>4. CASE WriteFails
  <2>1. events' = events /\ Close({clientfds[cl + 1]})
    BY <1>4 DEF WriteFails, RemoveClient
  <2>2. ToSet(ready') = ToSet(ready) \ {clientfds[cl + 1]}
    BY <2>1, Closed
  <2>. QED
    BY <1>4, <2>1, <2>2 DEF Noticed
<1>5. CASE HandleHangup \/ WriteKills \/ Out \/ Exit
  BY <1>5 DEF HandleHangup, WriteKills, Out, Exit, Serving
<1>6. CASE \/ \E c \in Conns : PeerStalls(c) \/ PeerDrains(c)
           \/ Terminate \/ Tick \/ UNCHANGED vars \/ NextWait \/ AcceptAndClose
           \/ AcceptEnds \/ Write \/ ForwardEnds \/ Reopen
  <2>1. UNCHANGED <<events, ready>>
    BY <1>6 DEF PeerStalls, PeerDrains, Terminate, Tick, vars, NextWait,
                AcceptAndClose, AcceptEnds, Write, ForwardEnds, Reopen
  <2>. QED
    BY <2>1 DEF Noticed
<1>. QED
  BY <1>1, <1>2, <1>3, <1>4, <1>5, <1>6 DEF Next, Process, Environment

LEMMA BatchDoneStep ==
    ASSUME Lists, Flags, BatchDone, [Next]_vars
    PROVE  BatchDone'
<1>1. CASE WriteKills \/ Exit
  <2>1. watched' = watched \ FDs
    BY <1>1 DEF WriteKills, Exit, Close
  <2>2. watched' = {}
    BY <2>1 DEF Lists
  <2>3. events' = <<>>
    BY <1>1 DEF BatchDone, WriteKills, Exit, Ended
  <2>. QED
    BY <2>2, <2>3 DEF BatchDone
<1>2. CASE Out
  BY <1>2 DEF Out, BatchDone
<1>3. CASE NextWait \/ Reopen
  <2>1. events' = <<>> /\ pc' = "wait"
    BY <1>3 DEF NextWait, Reopen, BatchDone, Ended
  <2>. QED
    BY <2>1 DEF BatchDone, Ended
<1>4. CASE \/ \E c \in Conns : Connect(c) \/ PeerActs(c) \/ PeerStalls(c) \/ PeerDrains(c)
           \/ HidReport \/ HidUnplug \/ Terminate \/ Tick \/ UNCHANGED vars
  <2>1. UNCHANGED <<events, watched>> /\ (pc' = pc \/ pc' = "out")
    BY <1>4 DEF Connect, PeerActs, PeerStalls, PeerDrains, HidReport, HidUnplug,
                Terminate, Tick, vars
  <2>. QED
    BY <2>1 DEF BatchDone, Ended
<1>5. CASE \/ EpollWait \/ HandleHangup \/ HandleClientError \/ HandleClient
           \/ HandleListen \/ Accept \/ AcceptAndClose \/ AcceptEnds \/ HandleHid
           \/ Write \/ WriteFails \/ ForwardEnds
  <2>1. pc' \in {"dispatch", "out", "accept", "forward"}
    BY <1>5 DEF EpollWait, HandleHangup, HandleClientError, HandleClient, HandleListen,
                Accept, AcceptAndClose, AcceptEnds, HandleHid, Write, WriteFails,
                ForwardEnds, Handling, Forwarding
  <2>. QED
    BY <2>1 DEF BatchDone, Ended
<1>. QED
  BY <1>1, <1>2, <1>3, <1>4, <1>5 DEF Next, Process, Environment

(* A connection stays behind its descriptor as long as that is watched,    *)
(* and only accept adds one to those that are watched.                     *)
LEMMA StillOpen ==
    ASSUME Types, Lists, Flags, [Next]_vars, NEW fd \in watched'
    PROVE  \/ fd \in watched /\ fdConn'[fd] = fdConn[fd]
           \/ Accept /\ fd = Min(FreeFds) /\ fdConn'[fd] = Head(backlog)
<1>1. CASE HandleClientError \/ HandleClient \/ WriteFails \/ WriteKills \/ Exit
  <2>1. (\E C : Close(C)) \/ UNCHANGED <<fdConn, watched>>
    BY <1>1 DEF HandleClientError, HandleClient, WriteFails, WriteKills, Exit,
                RemoveClient
  <2>2. CASE \E C : Close(C)
    <3>1. PICK C : Close(C)
      BY <2>2
    <3>2. fd \in watched /\ fd \notin C
      BY <3>1, Closed
    <3>3. fd \in FDs
      BY <3>2 DEF Lists
    <3>4. fdConn' = [gd \in FDs |-> IF gd \in C THEN NoConn ELSE fdConn[gd]]
      BY <3>1, Closing
    <3>. QED
      BY <3>2, <3>3, <3>4
  <2>. QED
    BY <2>1, <2>2
<1>2. CASE Accept
  <2>. DEFINE infd == Min(FreeFds)
  <2>1. infd \in FDs
    BY <1>2, LowestFree DEF Accept, FreeFds
  <2>2. /\ watched' = watched \union {infd}
        /\ fdConn' = [fdConn EXCEPT ![infd] = Head(backlog)]
    BY <1>2 DEF Accept
  <2>. HIDE DEF infd
  <2>3. fd \in FDs
    BY <2>1, <2>2 DEF Lists
  <2>4. fdConn'[fd] = IF fd = infd THEN Head(backlog) ELSE fdConn[fd]
    BY <2>2, <2>3 DEF Types
  <2>. QED
    BY <1>2, <2>2, <2>4 DEF infd
<1>3. CASE Out
  BY <1>3 DEF Out
<1>4. CASE \/ \E c \in Conns : Connect(c) \/ PeerActs(c) \/ PeerStalls(c) \/ PeerDrains(c)
           \/ HidReport \/ HidUnplug \/ Terminate \/ Tick \/ UNCHANGED vars
           \/ EpollWait \/ NextWait \/ HandleHangup \/ HandleListen \/ AcceptAndClose
           \/ AcceptEnds \/ HandleHid \/ Write \/ ForwardEnds \/ Reopen
  <2>1. UNCHANGED <<fdConn, watched>>
    BY <1>4 DEF Connect, PeerActs, PeerStalls, PeerDrains, HidReport, HidUnplug,
                Terminate, Tick, vars, EpollWait, NextWait, HandleHangup, HandleListen,
                AcceptAndClose, AcceptEnds, HandleHid, Write, ForwardEnds, Reopen
  <2>. QED
    BY <2>1
<1>. QED
  BY <1>1, <1>2, <1>3, <1>4 DEF Next, Process, Environment

LEMMA WatchedOpenStep ==
    ASSUME Types, Lists, Flags, WatchedOpen, [Next]_vars
    PROVE  WatchedOpen'
<1>. SUFFICES ASSUME NEW fd \in watched' PROVE fdConn'[fd] # NoConn
  BY DEF WatchedOpen
<1>1. CASE fd \in watched /\ fdConn'[fd] = fdConn[fd]
  BY <1>1 DEF WatchedOpen
<1>2. CASE Accept /\ fdConn'[fd] = Head(backlog)
  <2>1. backlog # <<>>
    BY <1>2 DEF Accept
  <2>2. Head(backlog) \in Conns
    BY <2>1 DEF Types
  <2>. QED
    BY <1>2, <2>2 DEF ForwarderAssumption
<1>. QED
  BY <1>1, <1>2, StillOpen

(* A connection that is quiet stays so until its peer acts; what is        *)
(* watched is not the connection of anybody else.                          *)
LEMMA ClientEdgesStep ==
    ASSUME Inv, Lists, Flags, WatchedOpen, BatchDone, ClientEdges, [Next]_vars
    PROVE  ClientEdges'
<1>. SUFFICES ASSUME Serving', NEW fd \in watched', ~Noticed(fd)'
              PROVE  Quiet(fdConn[fd])'
  BY DEF ClientEdges
<1>. Types /\ Places
  BY DEF Inv
<1>. DEFINE c == fdConn'[fd]
<1>0. fd \in FDs /\ c \in Conns /\ c # NoConn
  <2>1. fd \in FDs
    BY ListsStep DEF Lists
  <2>2. c # NoConn
    BY WatchedOpenStep DEF WatchedOpen
  <2>3. fdConn' \in [FDs -> Conns \union {NoConn}]
    BY Effects, TypesStep DEF Types
  <2>. QED
    BY <2>1, <2>2, <2>3
<1>. SUFFICES peer'[c] = "est" /\ ~unread'[c]
  BY DEF Quiet
<1>1. CASE Accept /\ fd = Min(FreeFds) /\ c = Head(backlog)
  <2>1. /\ ready' = IF unread[c] \/ peer[c] # "est" THEN Edge({fd}) ELSE ready
        /\ UNCHANGED <<peer, unread>>
    BY <1>1 DEF Accept
  <2>2. {fd} \in SUBSET Numbers
    BY <1>0 DEF Numbers
  <2>3. fd \in ToSet(Edge({fd}))
    BY <2>2, EdgeReady
  <2>4. ready' # Edge({fd})
    BY <2>3 DEF Noticed
  <2>. QED
    BY <2>1, <2>4
<1>2. CASE fd \in watched /\ c = fdConn[fd]
  <2>1. Serving \/ Reopen
    BY DEF Serving, Next, Process, Environment, vars, Connect, PeerActs, PeerStalls,
           PeerDrains, HidReport, HidUnplug, Terminate, Tick, EpollWait, NextWait,
           HandleHangup, HandleClientError, HandleClient, HandleListen, Accept,
           AcceptAndClose, AcceptEnds, HandleHid, Write, WriteFails, WriteKills,
           ForwardEnds, Out, Reopen, Exit, Handling, Forwarding
  <2>2. Serving
    BY <1>2, <2>1 DEF Reopen, BatchDone, Ended
  <2>3. Quiet(c) \/ Noticed(fd)
    BY <1>2, <2>2 DEF ClientEdges
  <2>4. fd \in Numbers /\ fd # sockfd /\ fd # hidfd
    BY <1>0, FewNumbers DEF Numbers
  <2>5. CASE HandleClient /\ ~RemoveClient(ev.fd) /\ fdConn[ev.fd] = c
    BY <1>0, <2>5 DEF HandleClient, Flags
  <2>6. CASE ~(HandleClient /\ ~RemoveClient(ev.fd) /\ fdConn[ev.fd] = c)
    <3>1. peer'[c] = peer[c] /\ unread'[c] = unread[c]
      <4>1. CASE \E d \in Conns : Connect(d) \/ PeerActs(d)
        <5>1. PICK d \in Conns : Connect(d) \/ PeerActs(d)
          BY <4>1
        <5>2. Connect(d) => d # c
          BY <1>0, <1>2 DEF Connect, Places
        <5>3. ~(PeerActs(d) /\ d = c)
          <6>. SUFFICES ASSUME PeerActs(c) PROVE FALSE
            OBVIOUS
          <6>1. FdsOf(c) \in SUBSET Numbers /\ fd \in FdsOf(c)
            BY <1>2 DEF FdsOf, Lists, Numbers
          <6>2. ready' = Edge(FdsOf(c))
            BY DEF PeerActs
          <6>3. fd \in ToSet(ready')
            BY <6>1, <6>2, EdgeReady
          <6>. QED
            BY <6>3 DEF Noticed
        <5>4. d # c
          BY <5>1, <5>2, <5>3
        <5>5. \/ UNCHANGED peer
              \/ \E v : peer' = [peer EXCEPT ![d] = v]
          BY <5>1 DEF Connect, PeerActs
        <5>6. \/ UNCHANGED unread
              \/ \E v : unread' = [unread EXCEPT ![d] = v]
          BY <5>1 DEF Connect, PeerActs
        <5>. QED
          BY <1>0, <5>4, <5>5, <5>6 DEF Types, Flags
      <4>2. CASE \E C \in SUBSET FDs : Close(C)
        <5>1. PICK C \in SUBSET FDs : Close(C)
          BY <4>2
        <5>2. fd \notin C
          BY <5>1, Closed
        <5>3. c \notin {fdConn[gd] : gd \in C}
          BY <1>0, <1>2, <5>2 DEF Places
        <5>. QED
          BY <1>0, <5>1, <5>3 DEF Close, Flags
      <4>3. CASE HandleClient /\ ~RemoveClient(ev.fd)
        <5>1. /\ unread' = [unread EXCEPT ![fdConn[ev.fd]] = FALSE]
              /\ peer' = peer /\ fdConn[ev.fd] # c
          BY <2>6, <4>3 DEF HandleClient
        <5>. QED
          BY <1>0, <5>1 DEF Flags
      <4>4. CASE AcceptAndClose
        <5>1. /\ peer' = [peer EXCEPT ![Head(backlog)] = "gone"]
              /\ unread' = [unread EXCEPT ![Head(backlog)] = FALSE]
              /\ backlog # <<>>
          BY <4>4 DEF AcceptAndClose
        <5>2. Head(backlog) = backlog[1] /\ 1 \in DOMAIN backlog
          BY <5>1 DEF Types
        <5>3. Head(backlog) # c
          BY <1>0, <1>2, <5>2 DEF Places, Taken
        <5>. QED
          BY <1>0, <5>1, <5>3 DEF Types, Flags
      <4>5. CASE HandleClientError \/ (HandleClient /\ RemoveClient(ev.fd)) \/ WriteFails
        <5>1. clientfds[cl + 1] \in FDs \/ ~Forwarding
          BY DEF Types, Forwarding
        <5>2. ev.fd \in FDs \/ WriteFails
          BY <4>5 DEF HandleClientError, HandleClient, Handling
        <5>3. \E C \in SUBSET FDs : Close(C)
          BY <4>5, <5>1, <5>2 DEF HandleClientError, RemoveClient, WriteFails
        <5>. QED
          BY <4>2, <5>3
      <4>6. CASE Out \/ WriteKills \/ Exit
        BY <4>6 DEF Out, WriteKills, Exit, Serving
      <4>7. CASE \/ \E d \in Conns : PeerStalls(d) \/ PeerDrains(d)
                 \/ HidReport \/ HidUnplug \/ Terminate \/ Tick \/ UNCHANGED vars
                 \/ EpollWait \/ NextWait \/ HandleHangup \/ HandleListen \/ Accept
                 \/ AcceptEnds \/ HandleHid \/ Write \/ ForwardEnds \/ Reopen
        <5>1. UNCHANGED <<peer, unread>>
          BY <4>7 DEF PeerStalls, PeerDrains, HidReport, HidUnplug, Terminate, Tick,
                      vars, EpollWait, NextWait, HandleHangup, HandleListen, Accept,
                      AcceptEnds, HandleHid, Write, ForwardEnds, Reopen
        <5>. QED
          BY <5>1
      <4>. QED
        BY <4>1, <4>3, <4>4, <4>5, <4>6, <4>7 DEF Next, Process, Environment
    <3>2. Quiet(c)
      <4>. SUFFICES ASSUME ~Quiet(c), Noticed(fd) PROVE FALSE
        BY <2>3
      <4>1. CASE EpollWait
        <5>1. events = <<>>
          BY <4>1 DEF EpollWait, BatchDone
        <5>2. fd \in ToSet(ready)
          BY <5>1 DEF Noticed
        <5>3. Readable(fd)
          BY <1>2, <2>4 DEF Readable, Quiet
        <5>. QED
          BY <4>1, <5>2, <5>3, Fetched DEF Noticed
      <4>2. CASE (HandleClientError \/ HandleClient) /\ fd = ev.fd
        <5>1. ~Close({fd})
          BY <1>2, Closed
        <5>2. HandleClient /\ fdConn[ev.fd] = c /\ ~RemoveClient(ev.fd)
          BY <1>2, <4>2, <5>1 DEF HandleClientError, RemoveClient
        <5>. QED
          BY <2>6, <5>2
      <4>3. CASE WriteFails /\ fd = clientfds[cl + 1]
        BY <4>3, Closed DEF WriteFails, RemoveClient
      <4>. QED
        BY <2>4, <4>1, <4>2, <4>3, StillNoticed
    <3>. QED
      BY <3>1, <3>2 DEF Quiet
  <2>. QED
    BY <2>5, <2>6
<1>. QED
  BY <1>1, <1>2, StillOpen

(* A connection in the queue finds a descriptor if there are enough.       *)
LEMMA EnoughLeft ==
    ASSUME Inv, EnoughFds, backlog # <<>>
    PROVE  FreeFds # {}
<1>. SUFFICES ASSUME FreeFds = {} PROVE FALSE
  OBVIOUS
<1>. Types /\ Places
  BY DEF Inv
<1>1. \A fd \in FDs : fdConn[fd] \in Conns
  BY DEF FreeFds, Types
<1>2. fdConn \in [FDs -> Conns]
  BY <1>1 DEF Types
<1>3. fdConn \in Injection(FDs, Conns)
  BY <1>1, <1>2 DEF Injection, IsInjective, Places, ForwarderAssumption
<1>4. /\ Cardinality(FDs) =< Cardinality(Conns)
      /\ Cardinality(FDs) = Cardinality(Conns) <=> fdConn \in Surjection(FDs, Conns)
  BY <1>3, FS_Injection DEF EnoughFds
<1>5. Cardinality(FDs) = Cardinality(Conns)
  <2>1. Cardinality(Conns) \in Nat /\ Cardinality(Conns) =< MaxFd
    BY FS_CardinalityType DEF EnoughFds
  <2>2. Cardinality(FDs) = MaxFd /\ MaxFd \in Nat
    BY FewNumbers DEF ForwarderAssumption
  <2>. QED
    BY <1>4, <2>1, <2>2
<1>6. \A c \in Conns : Taken(c)
  BY <1>4, <1>5 DEF Surjection, Taken
<1>7. 1 \in DOMAIN backlog /\ backlog[1] \in Conns
  BY DEF Types
<1>. QED
  BY <1>6, <1>7 DEF Places

LEMMA SocketEdgeStep ==
    ASSUME Inv, Lists, Flags, BatchDone, EnoughFds, SocketEdge, [Next]_vars
    PROVE  SocketEdge'
<1>. SUFFICES ASSUME Serving', backlog' # <<>>, pc' # "accept"
              PROVE  Noticed(sockfd)'
  BY DEF SocketEdge
<1>. Types /\ Entries
  BY DEF Inv
<1>1. CASE \E c \in Conns : Connect(c)
  <2>1. {sockfd} \in SUBSET Numbers /\ ready' = Edge({sockfd})
    BY <1>1 DEF Connect, Numbers
  <2>2. sockfd \in ToSet(ready')
    BY <2>1, EdgeReady
  <2>. QED
    BY <2>2 DEF Noticed
<1>2. CASE AcceptEnds
  BY <1>2, EnoughLeft DEF AcceptEnds
<1>3. CASE Reopen
  BY <1>3 DEF Reopen, Entries, Ended
<1>4. CASE HandleListen \/ Accept \/ AcceptAndClose
  BY <1>4 DEF HandleListen, Accept, AcceptAndClose
<1>5. CASE Out \/ WriteKills \/ Exit \/ HandleHangup
  BY <1>5 DEF Out, WriteKills, Exit, HandleHangup, Serving
<1>6. CASE \/ \E c \in Conns : PeerActs(c) \/ PeerStalls(c) \/ PeerDrains(c)
           \/ HidReport \/ HidUnplug \/ Terminate \/ Tick \/ UNCHANGED vars
           \/ EpollWait \/ NextWait \/ HandleClientError \/ HandleClient
           \/ HandleHid \/ Write \/ WriteFails \/ ForwardEnds
  <2>1. backlog' = backlog
    BY <1>6 DEF PeerActs, PeerStalls, PeerDrains, HidReport, HidUnplug, Terminate,
                Tick, vars, EpollWait, NextWait, HandleClientError, HandleClient,
                HandleHid, Write, WriteFails, ForwardEnds
  <2>2. Serving /\ pc # "accept"
    BY <1>6 DEF Serving, PeerActs, PeerStalls, PeerDrains, HidReport, HidUnplug,
                Terminate, Tick, vars, EpollWait, NextWait, HandleClientError,
                HandleClient, HandleHid, Write, WriteFails, ForwardEnds, Handling,
                Forwarding
  <2>3. Noticed(sockfd)
    BY <2>1, <2>2 DEF SocketEdge
  <2>4. CASE EpollWait
    <3>1. events = <<>>
      BY <2>4 DEF EpollWait, BatchDone
    <3>2. sockfd \in ToSet(ready)
      BY <2>3, <3>1 DEF Noticed
    <3>3. backlog # <<>>
      BY <2>1
    <3>4. Readable(sockfd)
      BY <3>3, FewNumbers DEF Readable
    <3>. QED
      BY <2>4, <3>2, <3>4, Fetched DEF Noticed
  <2>5. ~HandleListen
    BY DEF HandleListen
  <2>6. HandleClientError \/ HandleClient => ev.fd \in FDs
    BY DEF HandleClientError, HandleClient, Handling
  <2>7. WriteFails => clientfds[cl + 1] \in FDs
    <3>1. Forwarding => cl + 1 \in 1..Len(clientfds)
      BY DEF Forwarding, Types
    <3>2. clientfds \in Seq(FDs)
      BY DEF Types
    <3>3. \A i \in 1..Len(clientfds) : clientfds[i] \in FDs
      BY <3>2
    <3>. QED
      BY <3>1, <3>3 DEF WriteFails
  <2>8. sockfd \in Numbers
    BY DEF Numbers
  <2>. QED
    BY <2>3, <2>4, <2>5, <2>6, <2>7, <2>8, FewNumbers, StillNoticed
<1>. QED
  BY <1>1, <1>2, <1>3, <1>4, <1>5, <1>6 DEF Next, Process, Environment

Whole ==
    Inv /\ Flags /\ Bounds /\ Lists /\ BatchDone /\ WatchedOpen /\ ClientEdges

LEMMA WholeInit == Init => Whole /\ SocketEdge
<1>. SUFFICES ASSUME Init PROVE Whole /\ SocketEdge
  OBVIOUS
<1>1. Flags /\ Lists
  <2>1. g_running = TRUE /\ unplugged = FALSE
    BY DEF Init
  <2>2. /\ unread = [c \in Conns |-> FALSE]
        /\ full = [c \in Conns |-> FALSE]
    BY DEF Init
  <2>3. Flags
    BY <2>1, <2>2 DEF Flags
  <2>. QED
    BY <2>3 DEF Init, Lists
<1>2. Bounds
  <2>1. MAXCLIENTS \in Nat /\ MaxTime \in Nat /\ MaxOpens \in Nat \ {0}
    BY DEF ForwarderAssumption
  <2>2. cl = 0 /\ now = 0 /\ opens = 1 /\ produced = 0
    BY DEF Init
  <2>3. Len(forwarded) = 0 /\ Len(hidQueue) = 0
    BY DEF Init
  <2>. QED
    BY <2>1, <2>2, <2>3 DEF Bounds
<1>3. BatchDone /\ WatchedOpen /\ ClientEdges /\ SocketEdge
  BY DEF Init, BatchDone, WatchedOpen, ClientEdges, SocketEdge, Ended
<1>. QED
  BY <1>1, <1>2, <1>3, Initially DEF Whole

LEMMA WholeStep == Whole /\ [Next]_vars => Whole'
<1>. SUFFICES ASSUME Whole, [Next]_vars PROVE Whole'
  OBVIOUS
<1>1. Types
  BY DEF Whole, Inv
<1>2. Inv'
  BY Step DEF Whole
<1>3. Flags' /\ Lists'
  BY <1>1, FlagsStep, ListsStep DEF Whole
<1>4. Bounds' /\ BatchDone'
  BY BoundsStep, BatchDoneStep DEF Whole
<1>5. WatchedOpen' /\ ClientEdges'
  BY <1>1, WatchedOpenStep, ClientEdgesStep DEF Whole
<1>. QED
  BY <1>2, <1>3, <1>4, <1>5 DEF Whole

LEMMA WholeInvariance == Spec => []Whole
BY WholeInit, WholeStep, PTL DEF Spec

-----------------------------------------------------------------------------
(* The theorems.                                                           *)

(* The client table and the open descriptors always agree: no entry is     *)
(* double or stale, and what is open and not in the table was accepted     *)
(* with the table full, whoever leaves in the middle of a loop over it     *)
(* (forwarder.c:164-179, 263-290, 349-351).                                *)
THEOREM TableCorrect == Spec => []ClientTable
<1>1. Inv => ClientTable
  <2>. SUFFICES ASSUME Inv PROVE ClientTable
    OBVIOUS
  <2>. Types /\ Entries /\ Places
    BY DEF Inv
  <2>1. InTable \subseteq FDs
    BY DEF InTable, Types
  <2>2. NoConn \notin Clients
    BY DEF Entries, Clients
  <2>3. \A c \in Clients : \E fd \in InTable : fdConn[fd] = c
    BY DEF Clients
  <2>4. \A c \in Clients : peer[c] \notin {"none", "gone"} /\ c \notin surplus
    BY <2>1, <2>3 DEF Places, Entries
  <2>5. ASSUME NEW c \in {fdConn[fd] : fd \in FDs} \ {NoConn}
        PROVE  c \in Clients \union surplus
    BY <2>5 DEF Entries, Clients
  <2>6. ASSUME NEW c \in Clients \union surplus
        PROVE  c \in {fdConn[fd] : fd \in FDs} \ {NoConn}
    BY <2>1, <2>2, <2>3, <2>6 DEF Places, Taken, Types, ForwarderAssumption
  <2>7. {fdConn[fd] : fd \in FDs} \ {NoConn} = Clients \union surplus
    BY <2>5, <2>6
  <2>8. /\ \A i, j \in DOMAIN clientfds : clientfds[i] = clientfds[j] => i = j
        /\ \A fd, gd \in FDs : fdConn[fd] = fdConn[gd] => fd = gd \/ fdConn[fd] = NoConn
    BY DEF Entries, Places
  <2>. QED
    BY <2>2, <2>4, <2>7, <2>8 DEF ClientTable
<1>. QED
  BY <1>1, Invariance, PTL

(* Every client has been written exactly the reports since it joined, all  *)
(* but the one being forwarded when its turn has not come, although the    *)
(* loop writes to a table that shrinks under it (forwarder.c:300-307).     *)
THEOREM ServiceCorrect == Spec => []Served
<1>1. Inv => Served
  BY DEF Inv
<1>. QED
  BY <1>1, Invariance, PTL

(* As long as anybody is connected, the device gets a heartbeat at least   *)
(* every HEARTBEAT_INTERVAL and a reset after a silence of RESET_TIMEOUT,  *)
(* give or take one wait and the time the loop was held up by clients that *)
(* do not read: what one look at the timers missed the next one makes      *)
(* good, also when the last client left and another one came, and after    *)
(* the device was opened anew (forwarder.c:111-131, 216-228, 283-288).     *)
THEOREM WakingCorrect == Spec => []KeptAwake
<1>1. Inv => KeptAwake
  <2>. SUFFICES ASSUME Inv, clientfds # <<>>
                PROVE  /\ now - sentHeartbeat =< HEARTBEAT_INTERVAL + PollTimeout + held
                       /\ now - last_recv =< RESET_TIMEOUT + PollTimeout + held
                       /\ last_recv >= sentReset
    BY DEF KeptAwake
  <2>1. /\ last_recv \in Nat /\ last_heartbeat \in Nat /\ now \in Nat
        /\ waited \in Nat /\ waited =< PollTimeout /\ held \in Nat
        /\ sentHeartbeat = last_heartbeat
        /\ now - last_heartbeat =< HEARTBEAT_INTERVAL + waited + held
        /\ now - last_recv =< RESET_TIMEOUT + waited + held
        /\ last_recv >= sentReset
    BY DEF Inv, Timely
  <2>2. /\ RESET_TIMEOUT \in Nat /\ HEARTBEAT_INTERVAL \in Nat /\ PollTimeout \in Nat
    BY DEF ForwarderAssumption
  <2>. QED
    BY <2>1, <2>2
<1>. QED
  BY <1>1, Invariance, PTL

(* Every variable keeps to its bounds, in whatever order clients come, go  *)
(* and stall: no batch holds a name that is none, the index of the walk    *)
(* stays within the table, and no more is taken up than was produced       *)
(* (forwarder.c:181-307).                                                  *)
THEOREM TypesCorrect == Spec => []TypeOK
<1>1. Whole => TypeOK
  <2>. SUFFICES ASSUME Whole PROVE TypeOK
    OBVIOUS
  <2>. Types /\ Fresh /\ Numbered /\ Timely /\ Flags /\ Bounds /\ Lists
    BY DEF Whole, Inv
  <2>1. /\ MAXCLIENTS \in Nat /\ MaxTime \in Nat /\ MaxOpens \in Nat
        /\ MaxReports \in Nat
    BY DEF ForwarderAssumption
  <2>2. cl \in 0..MAXCLIENTS /\ now \in 0..MaxTime /\ opens \in 1..MaxOpens
    BY <2>1 DEF Types, Timely, Bounds
  <2>3. hidQueue \in Seq(0..MaxReports)
    <3>1. \A i \in 1..Len(hidQueue) : hidQueue[i] \in 0..MaxReports
      <4>. SUFFICES ASSUME NEW i \in 1..Len(hidQueue)
                    PROVE  hidQueue[i] \in 0..MaxReports
        OBVIOUS
      <4>1. hidQueue[i] \in Nat /\ hidQueue[i] =< produced /\ produced =< MaxReports
            /\ produced \in Nat
        BY <2>1 DEF Numbered
      <4>. QED
        BY <2>1, <4>1
    <3>2. hidQueue = [i \in 1..Len(hidQueue) |-> hidQueue[i]] /\ Len(hidQueue) \in Nat
      BY DEF Numbered
    <3>. QED
      BY <3>1, <3>2, IsASeq
  <2>4. since \in [Conns -> 0..MaxReports]
    <3>1. Len(forwarded) \in Nat /\ Len(forwarded) =< MaxReports
      BY <2>1 DEF Types, Numbered, Bounds
    <3>2. \A c \in Conns : since[c] \in 0..MaxReports
      <4>. SUFFICES ASSUME NEW c \in Conns PROVE since[c] \in 0..MaxReports
        OBVIOUS
      <4>1. since[c] \in Nat /\ since[c] =< Len(forwarded)
        BY DEF Types, Fresh
      <4>. QED
        BY <2>1, <3>1, <4>1
    <3>. QED
      BY <3>2 DEF Types
  <2>5. events \in Seq([fd : {sockfd, hidfd} \union FDs, error : BOOLEAN,
                        of : Conns \union {NoConn}])
    BY DEF Lists, Event, Numbers
  <2>6. ready \in Seq({sockfd, hidfd} \union FDs) /\ watched \subseteq FDs
    BY DEF Lists, Numbers
  <2>. QED
    BY <2>2, <2>3, <2>4, <2>5, <2>6, Zenon
       DEF TypeOK, Types, Stations, Flags, Numbered, Timely
<1>. QED
  BY <1>1, WholeInvariance, PTL

(* With a descriptor for every connection no edge is lost: when the loop   *)
(* waits with an empty ready list nobody is in the accept queue, and no    *)
(* client has sent, closed or failed without being noticed, however many   *)
(* did so while a report was forwarded or the queue was emptied            *)
(* (forwarder.c:244-260, 311-336).                                         *)
THEOREM NoEdgeLost == ASSUME EnoughFds PROVE Spec => []EdgesServed
<1>1. Whole /\ SocketEdge /\ [Next]_vars => SocketEdge'
  BY SocketEdgeStep DEF Whole
<1>2. Whole /\ SocketEdge => EdgesServed
  <2>. SUFFICES ASSUME Whole, SocketEdge, pc = "wait", ready = <<>>
                PROVE  backlog = <<>> /\ \A fd \in watched : Quiet(fdConn[fd])
    BY DEF EdgesServed, Quiet
  <2>1. events = <<>> /\ ToSet(ready) = {}
    BY DEF Whole, BatchDone, ToSet
  <2>2. \A fd : ~Noticed(fd)
    BY <2>1 DEF Noticed
  <2>. QED
    BY <2>2 DEF Whole, ClientEdges, SocketEdge, Serving
<1>. QED
  BY <1>1, <1>2, WholeInit, WholeInvariance, PTL DEF Spec

LEMMA BroadcastInit == Init => B!Init
<1>. SUFFICES ASSUME Init PROVE B!Init
  OBVIOUS
<1>1. Clients = {}
  BY DEF Init, Clients, InTable
<1>. QED
  BY <1>1 DEF Init, B!Init

LEMMA BroadcastStep ==
    ASSUME Inv, Effect
    PROVE  [B!Next]_(B!vars)
<1>. Types /\ Entries /\ Places /\ Fresh /\ Served
  BY DEF Inv
<1>1. InTable \subseteq FDs /\ \A fd \in InTable : fdConn[fd] \in Conns
  <2>1. InTable \subseteq FDs
    BY DEF InTable, Types
  <2>. QED
    BY <2>1 DEF Types, Entries
<1>2. CASE (\E c \in Conns : Comes(c)) \/ Fails \/ Passes
  <2>1. UNCHANGED <<clientfds, fdConn, forwarded, received, since>>
    BY <1>2 DEF Comes, Fails, Passes
  <2>2. Clients' = Clients
    BY <2>1 DEF Clients, InTable
  <2>. QED
    BY <2>1, <2>2 DEF B!vars
<1>3. CASE \E fd \in FDs : Arrives(fd)
  <2>1. PICK fd \in FDs : Arrives(fd)
    BY <1>3
  <2>. DEFINE c == Head(backlog)
  <2>2. /\ c \in Conns /\ 1 \in DOMAIN backlog /\ c = backlog[1]
        /\ ~Taken(c) /\ fd \notin InTable
        /\ \A gd \in FDs : fdConn'[gd] = IF gd = fd THEN c ELSE fdConn[gd]
        /\ \/ /\ InTable' = InTable \union {fd}
              /\ since' = [since EXCEPT ![c] = Len(forwarded)]
           \/ InTable' = InTable /\ since' = since
    BY <2>1, Arrival
  <2>. HIDE DEF c
  <2>3. UNCHANGED <<forwarded, received>> /\ received[c] = <<>>
    BY <2>1, <2>2 DEF Arrives, Fresh
  <2>4. \A gd \in InTable : fdConn'[gd] = fdConn[gd]
    BY <1>1, <2>2
  <2>5. CASE InTable' = InTable /\ since' = since
    <3>1. Clients' = Clients
      BY <2>4, <2>5 DEF Clients
    <3>. QED
      BY <2>3, <2>5, <3>1 DEF B!vars
  <2>6. CASE /\ InTable' = InTable \union {fd}
             /\ since' = [since EXCEPT ![c] = Len(forwarded)]
    <3>1. fdConn'[fd] = c
      BY <2>2
    <3>2. Clients' = Clients \union {c}
      BY <2>4, <2>6, <3>1 DEF Clients
    <3>3. c \notin Clients
      BY <1>1, <2>2 DEF Clients, Taken
    <3>4. B!Join(c)
      BY <2>3, <2>6, <3>2, <3>3 DEF B!Join
    <3>. QED
      BY <2>2, <3>4 DEF B!Next
  <2>. QED
    BY <2>2, <2>5, <2>6
<1>4. CASE (\E fd \in FDs : Drops(fd)) \/ (\E D \in SUBSET FDs : Clears(D))
  <2>1. UNCHANGED <<forwarded, received, since>>
    BY <1>4 DEF Drops, Clears
  <2>2. Clients' \subseteq Clients
    <3>1. CASE \E fd \in FDs : Drops(fd)
      <4>1. PICK fd \in FDs : Drops(fd)
        BY <3>1
      <4>2. /\ InTable' = InTable \ {fd}
            /\ \A gd \in FDs : gd # fd => fdConn'[gd] = fdConn[gd]
        BY <4>1, Departure
      <4>3. \A gd \in InTable' : gd \in InTable /\ fdConn'[gd] = fdConn[gd]
        BY <1>1, <4>2
      <4>. QED
        BY <4>3 DEF Clients
    <3>2. CASE \E D \in SUBSET FDs : Clears(D)
      BY <3>2 DEF Clears, Clients, InTable
    <3>. QED
      BY <1>4, <3>1, <3>2
  <2>. DEFINE C == Clients \ Clients'
  <2>3. C \in SUBSET Clients /\ Clients' = Clients \ C
    BY <2>2
  <2>. HIDE DEF C
  <2>4. B!Leave(C)
    BY <2>1, <2>3 DEF B!Leave
  <2>. QED
    BY <2>3, <2>4 DEF B!Next
<1>5. CASE TakesUp
  <2>. DEFINE report == Head(hidQueue)
  <2>1. /\ UNCHANGED <<clientfds, fdConn, received, since>> /\ pc = "dispatch"
        /\ forwarded' = Append(forwarded, report)
    BY <1>5 DEF TakesUp
  <2>2. report \in 1..MaxReports /\ \A i \in DOMAIN forwarded : forwarded[i] < report
    BY <1>5 DEF TakesUp, Inv, Numbered, Void
  <2>3. Clients' = Clients
    BY <2>1 DEF Clients, InTable
  <2>. HIDE DEF report
  <2>4. ASSUME NEW c \in Clients
        PROVE  B!CaughtUp(c)
    <3>1. PICK i \in DOMAIN clientfds : c = fdConn[clientfds[i]]
      BY <2>4 DEF Clients, InTable
    <3>. QED
      BY <2>1, <3>1 DEF Served, B!CaughtUp, B!Owed
  <2>5. B!TakeUp(report)
    BY <2>1, <2>2, <2>3, <2>4 DEF B!TakeUp
  <2>. QED
    BY <2>2, <2>5 DEF B!Next
<1>6. CASE Writes
  <2>1. /\ UNCHANGED <<clientfds, fdConn, forwarded, since>> /\ pc = "forward"
        /\ received' = [received EXCEPT ![target] = Append(@, Last(forwarded))]
    BY <1>6 DEF Writes, Forwarding
  <2>2. /\ cl + 1 \in DOMAIN clientfds /\ clientfds[cl + 1] \in InTable
        /\ target \in Conns /\ since[target] \in Nat
        /\ since[target] < Len(forwarded)
        /\ Last(forwarded) = forwarded[Len(forwarded)]
    BY <1>6, Turn DEF Writes
  <2>3. Clients' = Clients
    BY <2>1 DEF Clients, InTable
  <2>4. target \in Clients
    BY <2>2 DEF Clients, target
  <2>5. received[target] = Front(SubSeq(forwarded, since[target] + 1, Len(forwarded)))
    <3>1. cl + 1 > cl
      BY DEF Types
    <3>. QED
      BY <2>1, <2>2, <3>1 DEF Served, target
  <2>6. ~B!CaughtUp(target)
    BY <2>2, <2>5, OwedNow DEF Types, B!CaughtUp, B!Owed
  <2>7. B!Deliver(target)
    BY <2>1, <2>2, <2>3, <2>4, <2>6 DEF B!Deliver
  <2>. QED
    BY <2>2, <2>7 DEF B!Next
<1>. QED
  BY <1>2, <1>3, <1>4, <1>5, <1>6 DEF Effect

(* The forwarder implements Broadcast: accepting into the table is a join, *)
(* every way of losing a client is a leave, reading a report takes it up   *)
(* and a write delivers it, and nothing is taken up before everybody has   *)
(* the report before it (forwarder.c:292-309).                             *)
THEOREM Implementation == Spec => ImplementsBroadcast
<1>1. Inv /\ [Next]_vars => [B!Next]_(B!vars)
  BY Effects, BroadcastStep
<1>. QED
  BY <1>1, BroadcastInit, Invariance, PTL DEF Spec, ImplementsBroadcast, B!Spec
=============================================================================
