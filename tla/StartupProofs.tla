--------------------------- MODULE StartupProofs ---------------------------
(***************************************************************************)
(* What Startup says of the pidfiles of both programs, for every number of *)
(* instances and of files made, every command and every moment at which    *)
(* the script is run.                                                      *)
(*                                                                         *)
(* The collector comes first, by itself, on the steps of PidFile; in       *)
(* Startup it has one more, a command that is not accepted.                *)
(***************************************************************************)
EXTENDS Startup, SequenceTheorems, FiniteSetTheorems, WellFoundedInduction, TLAPS

-----------------------------------------------------------------------------
(* The collector by itself.                                                *)

(* Every step keeps the types.                                             *)
LEMMA TypesKept == TypeOK /\ [Next]_vars => TypeOK'
<1> SUFFICES ASSUME TypeOK, [Next]_vars PROVE TypeOK'
  OBVIOUS
<1> USE PidFileAssumption DEF TypeOK, KernelOK, Files
<1>1. CASE UNCHANGED vars
  BY <1>1 DEF vars
<1>2. ASSUME NEW p \in Procs, NEW daemonize \in BOOLEAN, Start(p, daemonize)
      PROVE  TypeOK'
  BY <1>2 DEF Goto, Start
<1>3. ASSUME NEW p \in Procs, Open(p)
      PROVE  TypeOK'
  <2>1. files' \in 0..MaxFiles /\ path' \in 0..files' /\ files =< files'
    BY <1>3 DEF Open, OpenOrCreate
  <2>2. m_fd' \in [Procs -> 0..files'] /\ pidf' \in [Procs -> 0..files']
    BY <1>3, <2>1 DEF Open
  <2>3. pc'[p] \in {"lock", "gone"} /\ pc' = [pc EXCEPT ![p] = pc'[p]]
    BY <1>3 DEF Open, Goto
  <2>4. /\ \A q \in Procs \ {p} : m_fd'[q] = m_fd[q]
        /\ pc[p] = "aquire" /\ UNCHANGED <<pidf, content, lock>>
    BY <1>3 DEF Open, Goto
  <2> QED BY <2>1, <2>2, <2>3, <2>4
<1>4. ASSUME NEW p \in Procs, Lock(p)
      PROVE  TypeOK'
  <2>1. lock' \in [Files -> Procs \union {None}]
    BY <1>4 DEF Lock
  <2>2. pc'[p] \in {"connect", "unlock"} /\ pc' = [pc EXCEPT ![p] = pc'[p]]
    BY <1>4 DEF Lock, Goto
  <2>3. pc[p] = "lock" /\ UNCHANGED <<m_fd, pidf, path, files, content>>
    BY <1>4 DEF Lock, Goto
  <2> QED BY <2>1, <2>2, <2>3
<1>5. ASSUME NEW p \in Procs, Connect(p)
      PROVE  TypeOK'
  BY <1>5 DEF Goto, Connect
<1>6. ASSUME NEW p \in Procs, NEW child \in Procs, Daemon(p, child)
      PROVE  TypeOK'
  BY <1>6 DEF Daemon
<1>7. ASSUME NEW p \in Procs, DaemonFails(p)
      PROVE  TypeOK'
  BY <1>7 DEF Goto, DaemonFails
<1>8. ASSUME NEW p \in Procs, ParentExits(p)
      PROVE  TypeOK'
  BY <1>8 DEF Goto, ParentExits, LocksWithout
<1>9. ASSUME NEW p \in Procs, Truncate(p)
      PROVE  TypeOK'
  BY <1>9 DEF Goto, Truncate
<1>10. ASSUME NEW p \in Procs, Reopen(p)
      PROVE  TypeOK'
  <2>1. files' \in 0..MaxFiles /\ path' \in 0..files' /\ files =< files'
    BY <1>10 DEF Reopen, OpenOrCreate
  <2>2. m_fd' \in [Procs -> 0..files']
    BY <1>10, <2>1 DEF Reopen
  <2>6. pidf' = pidf \/ pidf' = [pidf EXCEPT ![p] = path']
    BY <1>10 DEF Reopen
  <2>7. pidf' \in [Procs -> 0..files']
    BY <2>1, <2>6
  <2>5. content' \in [Files -> Procs \union {None}]
    BY <1>10 DEF Reopen
  <2>3. CASE pc' = [pc EXCEPT ![p] = "put"] /\ pidf' = [pidf EXCEPT ![p] = path']
    <3>1. path' # 0
      BY <1>10, <2>3 DEF Reopen, OpenOrCreate, Goto
    <3>2. pc[p] = "reopen" /\ UNCHANGED <<m_fd, lock>>
      BY <1>10 DEF Reopen, Goto
    <3> QED BY <2>1, <2>2, <2>3, <2>5, <2>7, <3>1, <3>2
  <2>4. CASE pc' = [pc EXCEPT ![p] = "run"] /\ UNCHANGED pidf
    <3>1. pc[p] = "reopen" /\ UNCHANGED <<m_fd, lock>>
      BY <1>10 DEF Reopen, Goto
    <3> QED BY <2>1, <2>2, <2>4, <2>5, <2>7, <3>1
  <2> QED BY <1>10, <2>3, <2>4 DEF Reopen, Goto
<1>11. ASSUME NEW p \in Procs, PutPid(p)
      PROVE  TypeOK'
  BY <1>11 DEF Goto, PutPid, Pids
<1>12. ASSUME NEW p \in Procs, Return(p)
      PROVE  TypeOK'
  BY <1>12 DEF Goto, Return
<1>13. ASSUME NEW p \in Procs, Unlock(p)
      PROVE  TypeOK'
  BY <1>13 DEF Goto, Unlock
<1>14. ASSUME NEW p \in Procs, Unlink(p)
      PROVE  TypeOK'
  BY <1>14 DEF Goto, Unlink
<1>15. ASSUME NEW p \in Procs, Killed(p)
      PROVE  TypeOK'
  BY <1>15 DEF Killed, LocksWithout
<1> QED
  BY <1>1, <1>2, <1>3, <1>4, <1>5, <1>6, <1>7, <1>8, <1>9, <1>10, <1>11, <1>12, <1>13,
     <1>14, <1>15
  DEF Next, Collector

(* Types: descriptors, files and locks are what they should be.            *)
THEOREM Types == Spec => []TypeOK
<1>1. Init => TypeOK
  BY PidFileAssumption DEF Init, TypeOK, KernelOK
<1>2. TypeOK /\ [Next]_vars => TypeOK'
  BY TypesKept
<1> QED BY <1>1, <1>2, PTL DEF Spec

(* The instances that have a descriptor of their own of the pidfile.       *)
HasFile ==
    \A p \in Procs :
        pc[p] \in {"lock", "daemon", "forked", "truncate", "reopen", "put", "run",
                  "unlock"} => m_fd[p] # 0

(* Whoever needs a descriptor keeps it.                                    *)
LEMMA FileKept == TypeOK /\ HasFile /\ [Next]_vars => HasFile'
<1> SUFFICES ASSUME TypeOK, HasFile, [Next]_vars PROVE HasFile'
  OBVIOUS
<1> USE PidFileAssumption DEF TypeOK, KernelOK, HasFile, Files
<1>1. CASE UNCHANGED vars
  BY <1>1 DEF vars
<1>2. ASSUME NEW p \in Procs, NEW daemonize \in BOOLEAN, Start(p, daemonize)
      PROVE  HasFile'
  BY <1>2 DEF Goto, Start
<1>3. ASSUME NEW p \in Procs, Open(p)
      PROVE  HasFile'
  BY <1>3 DEF Goto, Open, OpenOrCreate
<1>4. ASSUME NEW p \in Procs, Lock(p)
      PROVE  HasFile'
  BY <1>4 DEF Goto, Lock
<1>5. ASSUME NEW p \in Procs, Connect(p)
      PROVE  HasFile'
  BY <1>5 DEF Goto, Connect
<1>6. ASSUME NEW p \in Procs, NEW child \in Procs, Daemon(p, child)
      PROVE  HasFile'
  BY <1>6 DEF Daemon
<1>7. ASSUME NEW p \in Procs, DaemonFails(p)
      PROVE  HasFile'
  BY <1>7 DEF Goto, DaemonFails
<1>8. ASSUME NEW p \in Procs, ParentExits(p)
      PROVE  HasFile'
  BY <1>8 DEF Goto, ParentExits, LocksWithout
<1>9. ASSUME NEW p \in Procs, Truncate(p)
      PROVE  HasFile'
  BY <1>9 DEF Goto, Truncate
<1>10. ASSUME NEW p \in Procs, Reopen(p)
      PROVE  HasFile'
  BY <1>10 DEF Goto, Reopen, OpenOrCreate
<1>11. ASSUME NEW p \in Procs, PutPid(p)
      PROVE  HasFile'
  BY <1>11 DEF Goto, PutPid, Pids
<1>12. ASSUME NEW p \in Procs, Return(p)
      PROVE  HasFile'
  BY <1>12 DEF Goto, Return
<1>13. ASSUME NEW p \in Procs, Unlock(p)
      PROVE  HasFile'
  BY <1>13 DEF Goto, Unlock
<1>14. ASSUME NEW p \in Procs, Unlink(p)
      PROVE  HasFile'
  BY <1>14 DEF Goto, Unlink
<1>15. ASSUME NEW p \in Procs, Killed(p)
      PROVE  HasFile'
  BY <1>15 DEF Killed, LocksWithout
<1> QED
  BY <1>1, <1>2, <1>3, <1>4, <1>5, <1>6, <1>7, <1>8, <1>9, <1>10, <1>11, <1>12, <1>13,
     <1>14, <1>15
  DEF Next, Collector

(* So all have a descriptor that need one.                                 *)
LEMMA HaveFile == Spec => []HasFile
<1>1. Init => HasFile
  BY DEF Init, HasFile
<1>2. TypeOK /\ HasFile /\ [Next]_vars => HasFile'
  BY FileKept
<1> QED BY <1>1, <1>2, Types, PTL DEF Spec

(* The instances that will remove the path, or were killed before.         *)
WillRemove == {p \in Procs :
                  \/ pc[p] \in {"lock", "daemon", "truncate", "reopen", "put", "run",
                               "unlock", "unlink", "killed"}
                  \/ pc[p] = "connect" /\ m_fd[p] # 0}

SomebodyRemoves == path # 0 => \E p \in Procs : p \in WillRemove

(* The removal is always up to somebody.                                   *)
LEMMA RemovalHandedOn == TypeOK /\ HasFile /\ SomebodyRemoves /\ [Next]_vars => SomebodyRemoves'
<1> SUFFICES ASSUME TypeOK, HasFile, SomebodyRemoves, [Next]_vars PROVE SomebodyRemoves'
  OBVIOUS
<1> USE PidFileAssumption DEF TypeOK, KernelOK, HasFile, SomebodyRemoves, WillRemove, Files
<1>1. CASE UNCHANGED vars
  BY <1>1 DEF vars
<1>2. ASSUME NEW p \in Procs, NEW daemonize \in BOOLEAN, Start(p, daemonize)
      PROVE  SomebodyRemoves'
  BY <1>2 DEF Goto, Start
<1>3. ASSUME NEW p \in Procs, Open(p)
      PROVE  SomebodyRemoves'
  BY <1>3 DEF Goto, Open, OpenOrCreate
<1>4. ASSUME NEW p \in Procs, Lock(p)
      PROVE  SomebodyRemoves'
  BY <1>4 DEF Goto, Lock
<1>5. ASSUME NEW p \in Procs, Connect(p)
      PROVE  SomebodyRemoves'
  BY <1>5 DEF Goto, Connect
<1>6. ASSUME NEW p \in Procs, NEW child \in Procs, Daemon(p, child)
      PROVE  SomebodyRemoves'
  BY <1>6 DEF Daemon
<1>7. ASSUME NEW p \in Procs, DaemonFails(p)
      PROVE  SomebodyRemoves'
  BY <1>7 DEF Goto, DaemonFails
<1>8. ASSUME NEW p \in Procs, ParentExits(p)
      PROVE  SomebodyRemoves'
  BY <1>8 DEF Goto, ParentExits, LocksWithout
<1>9. ASSUME NEW p \in Procs, Truncate(p)
      PROVE  SomebodyRemoves'
  BY <1>9 DEF Goto, Truncate
<1>10. ASSUME NEW p \in Procs, Reopen(p)
      PROVE  SomebodyRemoves'
  BY <1>10 DEF Goto, Reopen, OpenOrCreate
<1>11. ASSUME NEW p \in Procs, PutPid(p)
      PROVE  SomebodyRemoves'
  BY <1>11 DEF Goto, PutPid, Pids
<1>12. ASSUME NEW p \in Procs, Return(p)
      PROVE  SomebodyRemoves'
  BY <1>12 DEF Goto, Return
<1>13. ASSUME NEW p \in Procs, Unlock(p)
      PROVE  SomebodyRemoves'
  BY <1>13 DEF Goto, Unlock
<1>14. ASSUME NEW p \in Procs, Unlink(p)
      PROVE  SomebodyRemoves'
  BY <1>14 DEF Goto, Unlink
<1>15. ASSUME NEW p \in Procs, Killed(p)
      PROVE  SomebodyRemoves'
  BY <1>15 DEF Killed, LocksWithout
<1> QED
  BY <1>1, <1>2, <1>3, <1>4, <1>5, <1>6, <1>7, <1>8, <1>9, <1>10, <1>11, <1>12, <1>13,
     <1>14, <1>15
  DEF Next, Collector

(* When all instances have come to their end in an orderly way no pidfile  *)
(* is left: whenever the path names a file there is one that will remove   *)
(* it, and a fork hands that on to the child (PidFile.cpp:42-50).          *)
THEOREM NothingIsLeft == Spec => []NothingLeft
<1>1. Init => SomebodyRemoves
  BY DEF Init, SomebodyRemoves
<1>2. TypeOK /\ HasFile /\ SomebodyRemoves /\ [Next]_vars => SomebodyRemoves'
  BY RemovalHandedOn
<1>3. SomebodyRemoves => NothingLeft
  BY DEF SomebodyRemoves, WillRemove, NothingLeft, Unfinished
<1> QED BY <1>1, <1>2, <1>3, Types, HaveFile, PTL DEF Spec

(* A pid is written to a file by an instance about to run, a file that is  *)
(* not made yet holds none, and who ends leaves the path to nobody.        *)
PidsAreOfRunners ==
    /\ \A f \in Files :
          /\ content[f] # None =>
                pc[content[f]] \in {"run", "unlock", "unlink", "gone", "killed"}
          /\ f > files => content[f] = None
    /\ NamesNobodyGone

(* Pids remain those of instances that got as far as running.              *)
LEMMA RunnersKept == TypeOK /\ HasFile /\ PidsAreOfRunners /\ [Next]_vars => PidsAreOfRunners'
<1> SUFFICES ASSUME TypeOK, HasFile, PidsAreOfRunners, [Next]_vars PROVE PidsAreOfRunners'
  OBVIOUS
<1> USE PidFileAssumption DEF TypeOK, KernelOK, HasFile, PidsAreOfRunners, NamesNobodyGone, Unfinished, Files
<1>1. CASE UNCHANGED vars
  BY <1>1 DEF vars
<1>2. ASSUME NEW p \in Procs, NEW daemonize \in BOOLEAN, Start(p, daemonize)
      PROVE  PidsAreOfRunners'
  BY <1>2 DEF Goto, Start
<1>3. ASSUME NEW p \in Procs, Open(p)
      PROVE  PidsAreOfRunners'
  <2>1. pc[p] = "aquire" /\ (\A q \in Procs \ {p} : pc'[q] = pc[q]) /\ content' = content
    BY <1>3 DEF Open, Goto
  <2>2. files' \in {files, files + 1} /\ (path' = path \/ (path' = files + 1 /\ path' \in Files))
    BY <1>3 DEF Open, OpenOrCreate
  <2>3. \A f \in Files : content[f] # None => content[f] \in Procs \ {p}
    BY <2>1
  <2>4. NamesNobodyGone'
    BY <2>1, <2>2, <2>3
  <2>5. ASSUME NEW f \in Files, content'[f] # None
        PROVE  pc'[content'[f]] \in {"run", "unlock", "unlink", "gone", "killed"}
    BY <2>1, <2>3, <2>5
  <2>6. ASSUME NEW f \in Files, f > files' PROVE content'[f] = None
    <3>1. f > files
      BY <2>2, <2>6
    <3> QED BY <2>1, <3>1
  <2> QED BY <2>4, <2>5, <2>6
<1>4. ASSUME NEW p \in Procs, Lock(p)
      PROVE  PidsAreOfRunners'
  BY <1>4 DEF Goto, Lock
<1>5. ASSUME NEW p \in Procs, Connect(p)
      PROVE  PidsAreOfRunners'
  <2>1. pc[p] = "connect" /\ (\A q \in Procs \ {p} : pc'[q] = pc[q])
    BY <1>5 DEF Connect, Goto
  <2>2. content' = content /\ files' = files /\ path' = path
    BY <1>5 DEF Connect
  <2>3. \A f \in Files : content[f] # None => content[f] \in Procs \ {p}
    BY <2>1
  <2>4. NamesNobodyGone'
    BY <2>1, <2>2, <2>3
  <2>5. ASSUME NEW f \in Files, content'[f] # None
        PROVE  pc'[content'[f]] \in {"run", "unlock", "unlink", "gone", "killed"}
    BY <2>1, <2>2, <2>3, <2>5
  <2>6. \A f \in Files : f > files' => content'[f] = None
    BY <2>2
  <2> QED BY <2>4, <2>5, <2>6
<1>6. ASSUME NEW p \in Procs, NEW child \in Procs, Daemon(p, child)
      PROVE  PidsAreOfRunners'
  BY <1>6 DEF Daemon
<1>7. ASSUME NEW p \in Procs, DaemonFails(p)
      PROVE  PidsAreOfRunners'
  BY <1>7 DEF Goto, DaemonFails
<1>8. ASSUME NEW p \in Procs, ParentExits(p)
      PROVE  PidsAreOfRunners'
  <2>1. pc[p] = "forked" /\ (\A q \in Procs \ {p} : pc'[q] = pc[q])
    BY <1>8 DEF ParentExits, Goto
  <2>2. content' = content /\ files' = files /\ path' = path
    BY <1>8 DEF ParentExits
  <2>3. \A f \in Files : content[f] # None => content[f] \in Procs \ {p}
    BY <2>1
  <2>4. NamesNobodyGone'
    BY <2>1, <2>2, <2>3
  <2>5. ASSUME NEW f \in Files, content'[f] # None
        PROVE  pc'[content'[f]] \in {"run", "unlock", "unlink", "gone", "killed"}
    BY <2>1, <2>2, <2>3, <2>5
  <2>6. \A f \in Files : f > files' => content'[f] = None
    BY <2>2
  <2> QED BY <2>4, <2>5, <2>6
<1>9. ASSUME NEW p \in Procs, Truncate(p)
      PROVE  PidsAreOfRunners'
  BY <1>9 DEF Goto, Truncate
<1>10. ASSUME NEW p \in Procs, Reopen(p)
      PROVE  PidsAreOfRunners'
  <2>1. /\ pc[p] = "reopen" /\ pc'[p] # "gone"
        /\ \A q \in Procs \ {p} : pc'[q] = pc[q]
    BY <1>10 DEF Reopen, Goto
  <2>2. /\ files' \in {files, files + 1}
        /\ path' = path \/ path' = files + 1
        /\ content' = content \/ content' = [content EXCEPT ![path'] = None]
    BY <1>10 DEF Reopen, OpenOrCreate
  <2>3. \A f \in Files : content[f] # None => content[f] \in Procs \ {p}
    BY <2>1
  <2>4. \A f \in Files : content'[f] \in {content[f], None}
    BY <2>2
  <2>5. path' # 0 => path' \in Files
    BY <1>10 DEF Reopen, OpenOrCreate
  <2>6. NamesNobodyGone'
    BY <2>1, <2>2, <2>3, <2>4, <2>5
  <2>7. ASSUME NEW f \in Files, content'[f] # None
        PROVE  pc'[content'[f]] \in {"run", "unlock", "unlink", "gone", "killed"}
    BY <2>1, <2>3, <2>4, <2>7
  <2>8. ASSUME NEW f \in Files, f > files' PROVE content'[f] = None
    <3>1. f > files
      BY <2>2, <2>8
    <3> QED BY <2>4, <3>1
  <2> QED BY <2>6, <2>7, <2>8
<1>11. ASSUME NEW p \in Procs, PutPid(p)
      PROVE  PidsAreOfRunners'
  BY <1>11 DEF Goto, PutPid, Pids
<1>12. ASSUME NEW p \in Procs, Return(p)
      PROVE  PidsAreOfRunners'
  BY <1>12 DEF Goto, Return
<1>13. ASSUME NEW p \in Procs, Unlock(p)
      PROVE  PidsAreOfRunners'
  BY <1>13 DEF Goto, Unlock
<1>14. ASSUME NEW p \in Procs, Unlink(p)
      PROVE  PidsAreOfRunners'
  BY <1>14 DEF Goto, Unlink
<1>15. ASSUME NEW p \in Procs, Killed(p)
      PROVE  PidsAreOfRunners'
  BY <1>15 DEF Killed, LocksWithout
<1> QED
  BY <1>1, <1>2, <1>3, <1>4, <1>5, <1>6, <1>7, <1>8, <1>9, <1>10, <1>11, <1>12, <1>13,
     <1>14, <1>15
  DEF Next, Collector

(* Whoever is named in the pidfile has not ended in an orderly way         *)
(* (PidFile.cpp:42-50, 72-83).                                             *)
THEOREM NobodyGoneIsNamed == Spec => []NamesNobodyGone
<1>1. Init => PidsAreOfRunners
  BY DEF Init, PidsAreOfRunners, NamesNobodyGone
<1>2. TypeOK /\ HasFile /\ PidsAreOfRunners /\ [Next]_vars => PidsAreOfRunners'
  BY RunnersKept
<1>3. PidsAreOfRunners => NamesNobodyGone
  BY DEF PidsAreOfRunners
<1> QED BY <1>1, <1>2, <1>3, Types, HaveFile, PTL DEF Spec

(* From the locking to the end of the parent the lock is the parent's.     *)
HoldsLock ==
    \A p \in Procs :
        pc[p] \in {"connect", "daemon", "forked"} /\ m_fd[p] # 0 =>
            lock[m_fd[p]] = p

(* The lock stays where it is from the locking to the end of the parent.   *)
LEMMA LockKept == TypeOK /\ HasFile /\ HoldsLock /\ [Next]_vars => HoldsLock'
<1> SUFFICES ASSUME TypeOK, HasFile, HoldsLock, [Next]_vars PROVE HoldsLock'
  OBVIOUS
<1> USE PidFileAssumption DEF TypeOK, KernelOK, HasFile, HoldsLock, Files
<1>1. CASE UNCHANGED vars
  BY <1>1 DEF vars
<1>2. ASSUME NEW p \in Procs, NEW daemonize \in BOOLEAN, Start(p, daemonize)
      PROVE  HoldsLock'
  BY <1>2 DEF Goto, Start
<1>3. ASSUME NEW p \in Procs, Open(p)
      PROVE  HoldsLock'
  BY <1>3 DEF Goto, Open, OpenOrCreate
<1>4. ASSUME NEW p \in Procs, Lock(p)
      PROVE  HoldsLock'
  <2>1. pc[p] = "lock" /\ m_fd[p] \in Files /\ m_fd' = m_fd
    BY <1>4 DEF Lock, Goto
  <2>2. CASE lock[m_fd[p]] = None /\ lock' = [lock EXCEPT ![m_fd[p]] = p]
    <3>1. \A q \in Procs \ {p} : pc'[q] = pc[q]
      BY <1>4 DEF Lock, Goto
    <3>2. \A f \in Files : lock[f] # None => lock'[f] = lock[f]
      BY <2>2
    <3>3. lock'[m_fd[p]] = p
      BY <2>1, <2>2
    <3> QED BY <2>1, <3>1, <3>2, <3>3
  <2>3. CASE pc' = [pc EXCEPT ![p] = "unlock"] /\ lock' = lock
    BY <2>1, <2>3
  <2> QED BY <1>4, <2>2, <2>3 DEF Lock, Goto
<1>5. ASSUME NEW p \in Procs, Connect(p)
      PROVE  HoldsLock'
  BY <1>5 DEF Goto, Connect
<1>6. ASSUME NEW p \in Procs, NEW child \in Procs, Daemon(p, child)
      PROVE  HoldsLock'
  BY <1>6 DEF Daemon
<1>7. ASSUME NEW p \in Procs, DaemonFails(p)
      PROVE  HoldsLock'
  BY <1>7 DEF Goto, DaemonFails
<1>8. ASSUME NEW p \in Procs, ParentExits(p)
      PROVE  HoldsLock'
  BY <1>8 DEF Goto, ParentExits, LocksWithout
<1>9. ASSUME NEW p \in Procs, Truncate(p)
      PROVE  HoldsLock'
  BY <1>9 DEF Goto, Truncate
<1>10. ASSUME NEW p \in Procs, Reopen(p)
      PROVE  HoldsLock'
  BY <1>10 DEF Goto, Reopen, OpenOrCreate
<1>11. ASSUME NEW p \in Procs, PutPid(p)
      PROVE  HoldsLock'
  BY <1>11 DEF Goto, PutPid, Pids
<1>12. ASSUME NEW p \in Procs, Return(p)
      PROVE  HoldsLock'
  BY <1>12 DEF Goto, Return
<1>13. ASSUME NEW p \in Procs, Unlock(p)
      PROVE  HoldsLock'
  BY <1>13 DEF Goto, Unlock
<1>14. ASSUME NEW p \in Procs, Unlink(p)
      PROVE  HoldsLock'
  BY <1>14 DEF Goto, Unlink
<1>15. ASSUME NEW p \in Procs, Killed(p)
      PROVE  HoldsLock'
  BY <1>15 DEF Killed, LocksWithout
<1> QED
  BY <1>1, <1>2, <1>3, <1>4, <1>5, <1>6, <1>7, <1>8, <1>9, <1>10, <1>11, <1>12, <1>13,
     <1>14, <1>15
  DEF Next, Collector

(* No two instances are between locking and the end of the parent with the *)
(* same file (PidFile.cpp:63-69, main.cpp:61-63, 76).                      *)
THEOREM Alone == Spec => []AloneUntilForked
<1>1. Init => HoldsLock
  BY DEF Init, HoldsLock
<1>2. TypeOK /\ HasFile /\ HoldsLock /\ [Next]_vars => HoldsLock'
  BY LockKept
<1>3. HoldsLock => AloneUntilForked
  BY DEF HoldsLock, AloneUntilForked
<1> QED BY <1>1, <1>2, <1>3, Types, HaveFile, PTL DEF Spec

-----------------------------------------------------------------------------
(* The invariant of the forwarder.                                         *)

(* From the locking to the unlocking.                                      *)
Locking == {"fork", "ftruncate", "dprintf", "funlock"}

(* A lock is held by an instance that will give it back.                   *)
Holders ==
    \A f \in Files : lock[f] # None => pc[lock[f]] \in Locking

(* An instance that got past flock with the lock still has it.             *)
KeepsLock == ~unlocked => \A p \in Procs : pc[p] \in Locking => lock[m_fd[p]] = p

(* While the path names a file there is an instance that has the file      *)
(* still to lock, or one that will unlink the path, or was killed before;  *)
(* and who waits for a lock that another has may rely on that one.         *)
Removers ==
    path # 0 => \E p \in Procs :
        pc[p] \in Locking \union {"flock", "run", "unlink", "killed"}

(* A pid in a file is of one that has written it, and a file that is not   *)
(* made yet holds none.                                                    *)
Writers ==
    \A f \in Files :
        /\ content[f] # None =>
              pc[content[f]] \in {"funlock", "run", "unlink", "gone", "killed"}
        /\ f > files => content[f] = None

ForwarderInv ==
    /\ ForwarderTypeOK
    /\ Holders /\ KeepsLock /\ Removers /\ Writers
    /\ NamesNobodyGone /\ WritesUndisturbed

(* The invariant of the collector is the one it has by itself.             *)
CollectorInv ==
    TypeOK /\ HasFile /\ SomebodyRemoves /\ PidsAreOfRunners /\ HoldsLock

Inv ==
    /\ program \in {"collector", "forwarder"}
    /\ IF program = "collector" THEN CollectorInv ELSE ForwarderInv

-----------------------------------------------------------------------------
(* What a step of the forwarder or of the script does to the pidfiles.     *)
ForwarderStep ==
    \/ Forwarder
    \/ \E p \in Procs : Killed(p) /\ UNCHANGED unlocked
    \/ path' = 0 /\ UNCHANGED <<pc, m_fd, pidf, files, content, lock, unlocked>>
    \/ UNCHANGED <<vars, unlocked>>

(* The part of the types that is about the pidfiles.                       *)
ForwarderFiles ==
    /\ pc \in [Procs -> {"unborn", "flock", "fork", "ftruncate", "dprintf",
                         "funlock", "run", "bare", "unlink", "gone", "killed"}]
    /\ KernelOK /\ unlocked \in BOOLEAN
    /\ \A p \in Procs : m_fd[p] # 0 <=>
           pc[p] \in {"flock", "fork", "ftruncate", "dprintf", "funlock"}

(* Every step keeps the types.                                             *)
LEMMA FilesKept ==
  ASSUME ForwarderFiles, ForwarderStep
  PROVE  ForwarderFiles'
<1> USE PidFileAssumption DEF ForwarderFiles, KernelOK, Files
<1>1. CASE UNCHANGED <<vars, unlocked>>
  BY <1>1 DEF vars
<1>2. ASSUME NEW p \in Procs, OpenPidFile(p)
      PROVE  ForwarderFiles'
  <2>1. CASE pc' = [pc EXCEPT ![p] = "flock"] /\ OpenOrCreate /\ m_fd' = [m_fd EXCEPT ![p] = path']
    <3>1. files' \in 0..MaxFiles /\ path' \in 1..files' /\ files =< files'
      BY <2>1 DEF OpenOrCreate
    <3>2. m_fd' \in [Procs -> 0..files'] /\ pidf' \in [Procs -> 0..files']
      BY <1>2, <2>1, <3>1 DEF OpenPidFile
    <3>3. KernelOK' /\ unlocked' \in BOOLEAN
      BY <1>2, <3>1, <3>2 DEF OpenPidFile
    <3>4. m_fd'[p] # 0 /\ pc'[p] = "flock"
      BY <2>1, <3>1
    <3>5. \A q \in Procs \ {p} : m_fd'[q] = m_fd[q] /\ pc'[q] = pc[q]
      BY <2>1
    <3> QED BY <2>1, <3>3, <3>4, <3>5
  <2>2. CASE pc' = [pc EXCEPT ![p] = "bare"] /\ UNCHANGED <<m_fd, path, files>>
    BY <1>2, <2>2 DEF OpenPidFile, Goto
  <2> QED BY <1>2, <2>1, <2>2 DEF OpenPidFile, Goto
<1>3. ASSUME NEW p \in Procs, Flock(p)
      PROVE  ForwarderFiles'
  <2>1. pc[p] = "flock" /\ m_fd[p] \in Files /\ UNCHANGED <<pidf, path, files, content>>
    BY <1>3 DEF Flock, Goto
  <2>2. lock' \in [Files -> Procs \union {None}] /\ unlocked' \in BOOLEAN
    BY <1>3, <2>1 DEF Flock
  <2>3. \/ pc' = [pc EXCEPT ![p] = "fork"] /\ m_fd' = m_fd
        \/ pc' = [pc EXCEPT ![p] = "gone"] /\ m_fd' = [m_fd EXCEPT ![p] = 0]
    BY <1>3 DEF Flock, Goto
  <2>4. m_fd' \in [Procs -> 0..files] /\ UNCHANGED <<pidf, path, files, content>>
    <3>1. m_fd' = m_fd \/ m_fd' = [m_fd EXCEPT ![p] = 0]
      BY <2>3
    <3>2. 0 \in 0..files /\ m_fd \in [Procs -> 0..files]
      OBVIOUS
    <3> QED BY <2>1, <3>1, <3>2
  <2>5. /\ m_fd'[p] # 0 <=> pc'[p] = "fork"
        /\ pc'[p] \in {"fork", "gone"}
        /\ \A q \in Procs \ {p} : m_fd'[q] = m_fd[q] /\ pc'[q] = pc[q]
    BY <2>1, <2>3
  <2>6. KernelOK'
    BY <2>2, <2>4
  <2>7. pc' \in [Procs -> {"unborn", "flock", "fork", "ftruncate", "dprintf",
                           "funlock", "run", "bare", "unlink", "gone", "killed"}]
    BY <2>3
  <2> QED BY <2>2, <2>5, <2>6, <2>7
<1>4. ASSUME NEW p \in Procs, NEW child \in Procs, Daemonize(p, child)
      PROVE  ForwarderFiles'
  BY <1>4 DEF Daemonize
<1>5. ASSUME NEW p \in Procs, StayInForeground(p)
      PROVE  ForwarderFiles'
  BY <1>5 DEF Goto, StayInForeground
<1>6. ASSUME NEW p \in Procs, Ftruncate(p)
      PROVE  ForwarderFiles'
  BY <1>6 DEF Goto, Ftruncate
<1>7. ASSUME NEW p \in Procs, Dprintf(p)
      PROVE  ForwarderFiles'
  BY <1>7 DEF Goto, Dprintf, Pids
<1>8. ASSUME NEW p \in Procs, Funlock(p)
      PROVE  ForwarderFiles'
  BY <1>8 DEF Goto, Funlock, LocksWithout
<1>9. ASSUME NEW p \in Procs, LeaveLoop(p)
      PROVE  ForwarderFiles'
  BY <1>9 DEF Goto, LeaveLoop
<1>10. ASSUME NEW p \in Procs, Unlink(p) /\ UNCHANGED unlocked
      PROVE  ForwarderFiles'
  BY <1>10 DEF Goto, Unlink
<1>11. ASSUME NEW p \in Procs, Killed(p) /\ UNCHANGED unlocked
      PROVE  ForwarderFiles'
  BY <1>11 DEF Killed, LocksWithout
<1>12. ASSUME path' = 0 /\ UNCHANGED <<pc, m_fd, pidf, files, content, lock, unlocked>>
      PROVE  ForwarderFiles'
  BY <1>12
<1> QED
  BY <1>1, <1>2, <1>3, <1>4, <1>5, <1>6, <1>7, <1>8, <1>9, <1>10, <1>11, <1>12
  DEF ForwarderStep, Forwarder

(* A lock is given back before its holder goes on to run.                  *)
LEMMA HoldersKept ==
  ASSUME ForwarderFiles, Holders, ForwarderStep
  PROVE  Holders'
<1> USE PidFileAssumption DEF ForwarderFiles, KernelOK, Files, Holders, Locking
<1>1. CASE UNCHANGED <<vars, unlocked>>
  BY <1>1 DEF vars
<1>2. ASSUME NEW p \in Procs, OpenPidFile(p)
      PROVE  Holders'
  BY <1>2 DEF Goto, OpenPidFile, OpenOrCreate
<1>3. ASSUME NEW p \in Procs, Flock(p)
      PROVE  Holders'
  <2>1. pc[p] = "flock" /\ m_fd[p] \in Files /\ \A q \in Procs \ {p} : pc'[q] = pc[q]
    BY <1>3 DEF Flock, Goto
  <2>2. \A f \in Files : lock[f] # p
    BY <2>1
  <2>3. CASE pc' = [pc EXCEPT ![p] = "fork"] /\ lock' = [lock EXCEPT ![m_fd[p]] = p]
    <3>1. \A f \in Files : lock'[f] = lock[f] \/ lock'[f] = p
      BY <2>3
    <3>2. pc'[p] = "fork"
      BY <2>3
    <3> QED BY <2>1, <2>2, <3>1, <3>2
  <2>4. CASE lock' = lock
    BY <2>1, <2>2, <2>4
  <2> QED BY <1>3, <2>3, <2>4 DEF Flock, Goto
<1>4. ASSUME NEW p \in Procs, NEW child \in Procs, Daemonize(p, child)
      PROVE  Holders'
  BY <1>4 DEF Daemonize
<1>5. ASSUME NEW p \in Procs, StayInForeground(p)
      PROVE  Holders'
  BY <1>5 DEF Goto, StayInForeground
<1>6. ASSUME NEW p \in Procs, Ftruncate(p)
      PROVE  Holders'
  BY <1>6 DEF Goto, Ftruncate
<1>7. ASSUME NEW p \in Procs, Dprintf(p)
      PROVE  Holders'
  BY <1>7 DEF Goto, Dprintf, Pids
<1>8. ASSUME NEW p \in Procs, Funlock(p)
      PROVE  Holders'
  BY <1>8 DEF Goto, Funlock, LocksWithout
<1>9. ASSUME NEW p \in Procs, LeaveLoop(p)
      PROVE  Holders'
  BY <1>9 DEF Goto, LeaveLoop
<1>10. ASSUME NEW p \in Procs, Unlink(p) /\ UNCHANGED unlocked
      PROVE  Holders'
  BY <1>10 DEF Goto, Unlink
<1>11. ASSUME NEW p \in Procs, Killed(p) /\ UNCHANGED unlocked
      PROVE  Holders'
  BY <1>11 DEF Killed, LocksWithout
<1>12. ASSUME path' = 0 /\ UNCHANGED <<pc, m_fd, pidf, files, content, lock, unlocked>>
      PROVE  Holders'
  BY <1>12
<1> QED
  BY <1>1, <1>2, <1>3, <1>4, <1>5, <1>6, <1>7, <1>8, <1>9, <1>10, <1>11, <1>12
  DEF ForwarderStep, Forwarder

(* Who has got the lock keeps it as long as it writes.                     *)
LEMMA LockIsKept ==
  ASSUME ForwarderFiles, KeepsLock, ForwarderStep
  PROVE  KeepsLock'
<1> USE PidFileAssumption DEF ForwarderFiles, KernelOK, Files, KeepsLock, Locking
<1>1. CASE UNCHANGED <<vars, unlocked>>
  BY <1>1 DEF vars
<1>2. ASSUME NEW p \in Procs, OpenPidFile(p)
      PROVE  KeepsLock'
  BY <1>2 DEF Goto, OpenPidFile, OpenOrCreate
<1>3. ASSUME NEW p \in Procs, Flock(p)
      PROVE  KeepsLock'
  BY <1>3 DEF Goto, Flock
<1>4. ASSUME NEW p \in Procs, NEW child \in Procs, Daemonize(p, child)
      PROVE  KeepsLock'
  BY <1>4 DEF Daemonize
<1>5. ASSUME NEW p \in Procs, StayInForeground(p)
      PROVE  KeepsLock'
  BY <1>5 DEF Goto, StayInForeground
<1>6. ASSUME NEW p \in Procs, Ftruncate(p)
      PROVE  KeepsLock'
  BY <1>6 DEF Goto, Ftruncate
<1>7. ASSUME NEW p \in Procs, Dprintf(p)
      PROVE  KeepsLock'
  BY <1>7 DEF Goto, Dprintf, Pids
<1>8. ASSUME NEW p \in Procs, Funlock(p)
      PROVE  KeepsLock'
  BY <1>8 DEF Goto, Funlock, LocksWithout
<1>9. ASSUME NEW p \in Procs, LeaveLoop(p)
      PROVE  KeepsLock'
  BY <1>9 DEF Goto, LeaveLoop
<1>10. ASSUME NEW p \in Procs, Unlink(p) /\ UNCHANGED unlocked
      PROVE  KeepsLock'
  BY <1>10 DEF Goto, Unlink
<1>11. ASSUME NEW p \in Procs, Killed(p) /\ UNCHANGED unlocked
      PROVE  KeepsLock'
  BY <1>11 DEF Killed, LocksWithout
<1>12. ASSUME path' = 0 /\ UNCHANGED <<pc, m_fd, pidf, files, content, lock, unlocked>>
      PROVE  KeepsLock'
  BY <1>12
<1> QED
  BY <1>1, <1>2, <1>3, <1>4, <1>5, <1>6, <1>7, <1>8, <1>9, <1>10, <1>11, <1>12
  DEF ForwarderStep, Forwarder

(* Somebody is always left to remove the path.                             *)
LEMMA RemoversKept ==
  ASSUME ForwarderFiles, Holders, Removers, ForwarderStep
  PROVE  Removers'
<1> USE PidFileAssumption DEF ForwarderFiles, KernelOK, Files, Holders, Removers, Locking
<1>1. CASE UNCHANGED <<vars, unlocked>>
  BY <1>1 DEF vars
<1>2. ASSUME NEW p \in Procs, OpenPidFile(p)
      PROVE  Removers'
  BY <1>2 DEF Goto, OpenPidFile, OpenOrCreate
<1>3. ASSUME NEW p \in Procs, Flock(p)
      PROVE  Removers'
  BY <1>3 DEF Goto, Flock
<1>4. ASSUME NEW p \in Procs, NEW child \in Procs, Daemonize(p, child)
      PROVE  Removers'
  BY <1>4 DEF Daemonize
<1>5. ASSUME NEW p \in Procs, StayInForeground(p)
      PROVE  Removers'
  BY <1>5 DEF Goto, StayInForeground
<1>6. ASSUME NEW p \in Procs, Ftruncate(p)
      PROVE  Removers'
  BY <1>6 DEF Goto, Ftruncate
<1>7. ASSUME NEW p \in Procs, Dprintf(p)
      PROVE  Removers'
  BY <1>7 DEF Goto, Dprintf, Pids
<1>8. ASSUME NEW p \in Procs, Funlock(p)
      PROVE  Removers'
  BY <1>8 DEF Goto, Funlock, LocksWithout
<1>9. ASSUME NEW p \in Procs, LeaveLoop(p)
      PROVE  Removers'
  BY <1>9 DEF Goto, LeaveLoop
<1>10. ASSUME NEW p \in Procs, Unlink(p) /\ UNCHANGED unlocked
      PROVE  Removers'
  BY <1>10 DEF Goto, Unlink
<1>11. ASSUME NEW p \in Procs, Killed(p) /\ UNCHANGED unlocked
      PROVE  Removers'
  BY <1>11 DEF Killed, LocksWithout
<1>12. ASSUME path' = 0 /\ UNCHANGED <<pc, m_fd, pidf, files, content, lock, unlocked>>
      PROVE  Removers'
  BY <1>12
<1> QED
  BY <1>1, <1>2, <1>3, <1>4, <1>5, <1>6, <1>7, <1>8, <1>9, <1>10, <1>11, <1>12
  DEF ForwarderStep, Forwarder

(* Pids are only of those that have written theirs.                        *)
LEMMA WritersKept ==
  ASSUME ForwarderFiles, Writers, ForwarderStep
  PROVE  Writers'
<1> USE PidFileAssumption DEF ForwarderFiles, KernelOK, Files, Writers
<1>1. CASE UNCHANGED <<vars, unlocked>>
  BY <1>1 DEF vars
<1>2. ASSUME NEW p \in Procs, OpenPidFile(p)
      PROVE  Writers'
  <2>1. pc[p] = "unborn" /\ (\A q \in Procs \ {p} : pc'[q] = pc[q]) /\ content' = content
    BY <1>2 DEF OpenPidFile, Goto
  <2>2. files' = files \/ files' = files + 1
    BY <1>2 DEF OpenPidFile, OpenOrCreate
  <2>3. ASSUME NEW f \in Files, content[f] # None PROVE content[f] \in Procs \ {p}
    <3>1. content[f] \in Procs
      BY <2>3
    <3>2. pc[content[f]] \in {"funlock", "run", "unlink", "gone", "killed"}
      BY <2>3
    <3> QED BY <2>1, <3>1, <3>2
  <2>4. ASSUME NEW f \in Files, f > files' PROVE content'[f] = None
    <3>1. f > files
      BY <2>2, <2>4
    <3> QED BY <2>1, <3>1
  <2>5. \A f \in Files : content'[f] # None =>
            pc'[content'[f]] \in {"funlock", "run", "unlink", "gone", "killed"}
    BY <2>1, <2>3
  <2> QED BY <2>4, <2>5
<1>3. ASSUME NEW p \in Procs, Flock(p)
      PROVE  Writers'
  BY <1>3 DEF Goto, Flock
<1>4. ASSUME NEW p \in Procs, NEW child \in Procs, Daemonize(p, child)
      PROVE  Writers'
  BY <1>4 DEF Daemonize
<1>5. ASSUME NEW p \in Procs, StayInForeground(p)
      PROVE  Writers'
  BY <1>5 DEF Goto, StayInForeground
<1>6. ASSUME NEW p \in Procs, Ftruncate(p)
      PROVE  Writers'
  BY <1>6 DEF Goto, Ftruncate
<1>7. ASSUME NEW p \in Procs, Dprintf(p)
      PROVE  Writers'
  BY <1>7 DEF Goto, Dprintf, Pids
<1>8. ASSUME NEW p \in Procs, Funlock(p)
      PROVE  Writers'
  BY <1>8 DEF Goto, Funlock, LocksWithout
<1>9. ASSUME NEW p \in Procs, LeaveLoop(p)
      PROVE  Writers'
  BY <1>9 DEF Goto, LeaveLoop
<1>10. ASSUME NEW p \in Procs, Unlink(p) /\ UNCHANGED unlocked
      PROVE  Writers'
  BY <1>10 DEF Goto, Unlink
<1>11. ASSUME NEW p \in Procs, Killed(p) /\ UNCHANGED unlocked
      PROVE  Writers'
  BY <1>11 DEF Killed, LocksWithout
<1>12. ASSUME path' = 0 /\ UNCHANGED <<pc, m_fd, pidf, files, content, lock, unlocked>>
      PROVE  Writers'
  BY <1>12
<1> QED
  BY <1>1, <1>2, <1>3, <1>4, <1>5, <1>6, <1>7, <1>8, <1>9, <1>10, <1>11, <1>12
  DEF ForwarderStep, Forwarder

(* Who has written a pid and ends has unlinked the path.                   *)
LEMMA NamesKept ==
  ASSUME ForwarderFiles, Writers, NamesNobodyGone, ForwarderStep
  PROVE  NamesNobodyGone'
<1> USE PidFileAssumption DEF ForwarderFiles, KernelOK, Files, Writers, NamesNobodyGone, Unfinished
<1>1. CASE UNCHANGED <<vars, unlocked>>
  BY <1>1 DEF vars
<1>2. ASSUME NEW p \in Procs, OpenPidFile(p)
      PROVE  NamesNobodyGone'
  BY <1>2 DEF Goto, OpenPidFile, OpenOrCreate
<1>3. ASSUME NEW p \in Procs, Flock(p)
      PROVE  NamesNobodyGone'
  <2>1. pc[p] = "flock" /\ (\A q \in Procs \ {p} : pc'[q] = pc[q])
    BY <1>3 DEF Flock, Goto
  <2>2. UNCHANGED <<path, content>>
    BY <1>3 DEF Flock
  <2>3. ASSUME NEW f \in Files, content[f] # None PROVE content[f] \in Procs \ {p}
    <3>1. content[f] \in Procs
      BY <2>3
    <3>2. pc[content[f]] \in {"funlock", "run", "unlink", "gone", "killed"}
      BY <2>3
    <3> QED BY <2>1, <3>1, <3>2
  <2>4. path # 0 => path \in Files
    OBVIOUS
  <2> QED BY <2>1, <2>2, <2>3, <2>4
<1>4. ASSUME NEW p \in Procs, NEW child \in Procs, Daemonize(p, child)
      PROVE  NamesNobodyGone'
  <2>1. /\ pc[p] = "fork" /\ pc[child] = "unborn" /\ pc'[child] = "ftruncate"
        /\ \A q \in Procs \ {p, child} : pc'[q] = pc[q]
    BY <1>4 DEF Daemonize
  <2>2. UNCHANGED <<path, content>>
    BY <1>4 DEF Daemonize
  <2>3. ASSUME NEW f \in Files, content[f] # None PROVE content[f] \in Procs \ {p, child}
    <3>1. pc[content[f]] \notin {pc[p], pc[child]} /\ content[f] \in Procs
      BY <2>1, <2>3
    <3> QED BY <3>1
  <2>4. path # 0 => path \in Files
    OBVIOUS
  <2> QED BY <2>1, <2>2, <2>3, <2>4
<1>5. ASSUME NEW p \in Procs, StayInForeground(p)
      PROVE  NamesNobodyGone'
  BY <1>5 DEF Goto, StayInForeground
<1>6. ASSUME NEW p \in Procs, Ftruncate(p)
      PROVE  NamesNobodyGone'
  BY <1>6 DEF Goto, Ftruncate
<1>7. ASSUME NEW p \in Procs, Dprintf(p)
      PROVE  NamesNobodyGone'
  BY <1>7 DEF Goto, Dprintf, Pids
<1>8. ASSUME NEW p \in Procs, Funlock(p)
      PROVE  NamesNobodyGone'
  BY <1>8 DEF Goto, Funlock, LocksWithout
<1>9. ASSUME NEW p \in Procs, LeaveLoop(p)
      PROVE  NamesNobodyGone'
  BY <1>9 DEF Goto, LeaveLoop
<1>10. ASSUME NEW p \in Procs, Unlink(p) /\ UNCHANGED unlocked
      PROVE  NamesNobodyGone'
  BY <1>10 DEF Goto, Unlink
<1>11. ASSUME NEW p \in Procs, Killed(p) /\ UNCHANGED unlocked
      PROVE  NamesNobodyGone'
  BY <1>11 DEF Killed, LocksWithout
<1>12. ASSUME path' = 0 /\ UNCHANGED <<pc, m_fd, pidf, files, content, lock, unlocked>>
      PROVE  NamesNobodyGone'
  BY <1>12
<1> QED
  BY <1>1, <1>2, <1>3, <1>4, <1>5, <1>6, <1>7, <1>8, <1>9, <1>10, <1>11, <1>12
  DEF ForwarderStep, Forwarder

(* Nobody but the holder of the lock writes.                               *)
LEMMA WritingKept ==
  ASSUME ForwarderFiles, KeepsLock, WritesUndisturbed, ForwarderStep
  PROVE  WritesUndisturbed'
<1> USE PidFileAssumption DEF ForwarderFiles, KernelOK, Files, KeepsLock, Locking, WritesUndisturbed
<1>1. CASE UNCHANGED <<vars, unlocked>>
  BY <1>1 DEF vars
<1>2. ASSUME NEW p \in Procs, OpenPidFile(p)
      PROVE  WritesUndisturbed'
  BY <1>2 DEF Goto, OpenPidFile, OpenOrCreate
<1>3. ASSUME NEW p \in Procs, Flock(p)
      PROVE  WritesUndisturbed'
  <2>1. content' = content /\ (~unlocked' => ~unlocked)
    BY <1>3 DEF Flock
  <2>2. ASSUME NEW q \in Procs, pc'[q] \in {"dprintf", "funlock"}
        PROVE  pc'[q] = pc[q] /\ m_fd'[q] = m_fd[q]
    <3>1. CASE pc' = [pc EXCEPT ![p] = "fork"] /\ UNCHANGED m_fd
      BY <2>2, <3>1
    <3>2. CASE pc' = [pc EXCEPT ![p] = "gone"] /\ m_fd' = [m_fd EXCEPT ![p] = 0]
      BY <2>2, <3>2
    <3> QED
      BY <1>3, <3>1, <3>2 DEF Goto, Flock
  <2> QED
    BY <2>1, <2>2
<1>4. ASSUME NEW p \in Procs, NEW child \in Procs, Daemonize(p, child)
      PROVE  WritesUndisturbed'
  BY <1>4 DEF Daemonize
<1>5. ASSUME NEW p \in Procs, StayInForeground(p)
      PROVE  WritesUndisturbed'
  BY <1>5 DEF Goto, StayInForeground
<1>6. ASSUME NEW p \in Procs, Ftruncate(p)
      PROVE  WritesUndisturbed'
  BY <1>6 DEF Goto, Ftruncate
<1>7. ASSUME NEW p \in Procs, Dprintf(p)
      PROVE  WritesUndisturbed'
  BY <1>7 DEF Goto, Dprintf, Pids
<1>8. ASSUME NEW p \in Procs, Funlock(p)
      PROVE  WritesUndisturbed'
  BY <1>8 DEF Goto, Funlock, LocksWithout
<1>9. ASSUME NEW p \in Procs, LeaveLoop(p)
      PROVE  WritesUndisturbed'
  BY <1>9 DEF Goto, LeaveLoop
<1>10. ASSUME NEW p \in Procs, Unlink(p) /\ UNCHANGED unlocked
      PROVE  WritesUndisturbed'
  BY <1>10 DEF Goto, Unlink
<1>11. ASSUME NEW p \in Procs, Killed(p) /\ UNCHANGED unlocked
      PROVE  WritesUndisturbed'
  BY <1>11 DEF Killed, LocksWithout
<1>12. ASSUME path' = 0 /\ UNCHANGED <<pc, m_fd, pidf, files, content, lock, unlocked>>
      PROVE  WritesUndisturbed'
  BY <1>12
<1> QED
  BY <1>1, <1>2, <1>3, <1>4, <1>5, <1>6, <1>7, <1>8, <1>9, <1>10, <1>11, <1>12
  DEF ForwarderStep, Forwarder
-----------------------------------------------------------------------------
(* An instance of the collector whose command is not accepted.             *)
Refused(p) ==
    /\ Goto(p, "unborn", "gone")
    /\ UNCHANGED <<m_fd, pidf, path, files, content, lock>>

(* What a command starts is a start in the sense of PidFile, with or       *)
(* without a daemon, or a refusal.                                         *)
LEMMA Command ==
  ASSUME NEW p \in Procs, NEW command, StartCollector(p, command)
  PROVE  Next \/ Refused(p)
<1>1. CASE parsed'.result = "ParseSuccess"
  <2>1. Start(p, parsed'.m_daemonize)
    BY <1>1 DEF StartCollector
  <2>2. CASE parsed'.m_daemonize
    <3>1. Start(p, TRUE)
      BY <2>1, <2>2 DEF Start
    <3> QED BY <3>1 DEF Next
  <2>3. CASE ~parsed'.m_daemonize
    <3>1. Start(p, FALSE)
      BY <2>1, <2>3 DEF Start
    <3> QED BY <3>1 DEF Next
  <2> QED BY <2>2, <2>3
<1>2. CASE parsed'.result # "ParseSuccess"
  BY <1>2 DEF StartCollector, Refused
<1> QED BY <1>1, <1>2

(* A refusal leaves the pidfile to the others.                             *)
LEMMA RefusalHarmless ==
  ASSUME CollectorInv, NEW p \in Procs, Refused(p)
  PROVE  CollectorInv'
<1>1. /\ pc[p] = "unborn" /\ pc' = [pc EXCEPT ![p] = "gone"]
      /\ UNCHANGED <<m_fd, pidf, path, files, content, lock>>
  BY DEF Refused, Goto
<1>2. TypeOK'
  BY <1>1 DEF CollectorInv, TypeOK, KernelOK, Files
<1>3. HasFile'
  BY <1>1 DEF CollectorInv, HasFile, TypeOK
<1>4. SomebodyRemoves'
  BY <1>1 DEF CollectorInv, SomebodyRemoves, WillRemove, TypeOK
<1>5. PidsAreOfRunners'
  <2>1. ASSUME NEW f \in Files, content[f] # None
        PROVE  content[f] \in Procs /\ pc'[content[f]] = pc[content[f]]
    <3>1. content[f] \in Procs
      BY <2>1 DEF CollectorInv, TypeOK, KernelOK
    <3>2. pc[content[f]] # "unborn"
      BY <2>1 DEF CollectorInv, PidsAreOfRunners
    <3> QED BY <1>1, <3>1, <3>2
  <2>2. path # 0 => path \in Files
    BY PidFileAssumption DEF CollectorInv, TypeOK, KernelOK, Files
  <2>3. NamesNobodyGone'
    BY <1>1, <2>1, <2>2 DEF CollectorInv, PidsAreOfRunners, NamesNobodyGone, Unfinished
  <2> QED BY <1>1, <2>1, <2>3 DEF CollectorInv, PidsAreOfRunners
<1>6. HoldsLock'
  BY <1>1 DEF CollectorInv, HoldsLock, TypeOK
<1> QED BY <1>2, <1>3, <1>4, <1>5, <1>6 DEF CollectorInv

(* The collector keeps its invariant.                                      *)
LEMMA CollectorKept ==
  ASSUME CollectorInv, program = "collector", StartupNext
  PROVE  CollectorInv'
<1>1. ASSUME [Next]_vars PROVE CollectorInv'
  BY <1>1, TypesKept, FileKept, RemovalHandedOn, RunnersKept, LockKept DEF CollectorInv
<1>2. ASSUME NEW p \in Procs, NEW command, StartCollector(p, command)
      PROVE  CollectorInv'
  BY <1>1, <1>2, Command, RefusalHarmless
<1>3. CASE Collector
  BY <1>1, <1>3 DEF Next
<1> QED BY <1>2, <1>3 DEF StartupNext

-----------------------------------------------------------------------------
(* The part of the types that is about the script.                         *)
ScriptOK == script \in {"idle", "kill", "rm"} /\ victim \in Procs \union {None}

(* Both parts together.                                                    *)
LEMMA ForwarderTypes == ForwarderTypeOK <=> ForwarderFiles /\ ScriptOK
BY DEF ForwarderTypeOK, ForwarderFiles, ScriptOK

(* A step of the script kills whoever it read of, removes the path, or     *)
(* only looks.                                                             *)
LEMMA StepOfForwarder ==
  ASSUME ForwarderTypeOK, program = "forwarder", StartupNext
  PROVE  ForwarderStep /\ ScriptOK'
<1> USE ForwarderTypes
<1>1. CASE Forwarder /\ UNCHANGED scriptVars
  BY <1>1 DEF ForwarderStep, ScriptOK, scriptVars
<1>2. CASE StopReads /\ UNCHANGED unlocked
  <2>1. content[path] \in Procs \union {None}
    BY <1>2, PidFileAssumption DEF StopReads, ForwarderFiles, KernelOK, Files
  <2> QED BY <1>2, <2>1 DEF StopReads, ForwarderStep, ScriptOK
<1>3. CASE StopKills /\ UNCHANGED unlocked
  BY <1>3 DEF StopKills, ForwarderStep, ScriptOK
<1>4. CASE StopRemoves /\ UNCHANGED unlocked
  BY <1>4 DEF StopRemoves, ForwarderStep, ScriptOK
<1> QED BY <1>1, <1>2, <1>3, <1>4 DEF StartupNext, Stop

(* The forwarder keeps its invariant.                                      *)
LEMMA ForwarderKept ==
  ASSUME ForwarderInv, ForwarderStep, ScriptOK'
  PROVE  ForwarderInv'
<1>1. ForwarderFiles
  BY ForwarderTypes DEF ForwarderInv
<1>2. ForwarderTypeOK'
  BY <1>1, FilesKept DEF ForwarderTypeOK, ForwarderFiles, ScriptOK
<1>3. Holders' /\ KeepsLock'
  BY <1>1, HoldersKept, LockIsKept DEF ForwarderInv
<1>4. Removers' /\ Writers'
  BY <1>1, RemoversKept, WritersKept DEF ForwarderInv
<1>5. NamesNobodyGone' /\ WritesUndisturbed'
  BY <1>1, NamesKept, WritingKept DEF ForwarderInv
<1> QED BY <1>2, <1>3, <1>4, <1>5 DEF ForwarderInv

startupVars == <<vars, program, scriptVars, unlocked, startVars>>

(* Whichever program the path belongs to, its invariant holds.             *)
LEMMA Invariance == StartupSpec => []Inv
<1>1. StartupInit => Inv
  <2> SUFFICES ASSUME StartupInit PROVE Inv
    OBVIOUS
  <2>1. Init /\ program \in {"collector", "forwarder"}
    BY DEF StartupInit, ForwarderInit
  <2>2. CollectorInv
    <3>1. TypeOK
      BY <2>1, PidFileAssumption DEF Init, TypeOK, KernelOK
    <3>2. HasFile /\ SomebodyRemoves /\ HoldsLock
      BY <2>1 DEF Init, HasFile, SomebodyRemoves, HoldsLock
    <3>3. PidsAreOfRunners
      BY <2>1 DEF Init, PidsAreOfRunners, NamesNobodyGone
    <3> QED BY <3>1, <3>2, <3>3 DEF CollectorInv
  <2>3. ForwarderInv
    <3>1. ScriptOK /\ unlocked = FALSE
      BY DEF StartupInit, ForwarderInit, ScriptOK
    <3>2. ForwarderFiles
      <4>1. KernelOK
        BY <2>1, PidFileAssumption DEF Init, KernelOK
      <4>2. unlocked \in BOOLEAN
        BY <3>1
      <4> QED BY <2>1, <4>1, <4>2 DEF Init, ForwarderFiles
    <3>3. Holders /\ KeepsLock /\ Removers /\ Writers
      BY <2>1 DEF Init, Holders, KeepsLock, Removers, Writers, Locking
    <3>4. NamesNobodyGone /\ WritesUndisturbed
      BY <2>1 DEF Init, NamesNobodyGone, WritesUndisturbed
    <3> QED BY <3>1, <3>2, <3>3, <3>4, ForwarderTypes DEF ForwarderInv
  <2> QED BY <2>1, <2>2, <2>3 DEF Inv
<1>2. Inv /\ [StartupNext]_startupVars => Inv'
  <2> SUFFICES ASSUME Inv, [StartupNext]_startupVars PROVE Inv'
    OBVIOUS
  <2>1. CASE StartupNext
    <3>1. program' = program
      BY <2>1 DEF StartupNext
    <3>2. CASE program = "collector"
      BY <2>1, <3>1, <3>2, CollectorKept DEF Inv
    <3>3. CASE program = "forwarder"
      <4>1. ForwarderInv
        BY <3>3 DEF Inv
      <4>2. ForwarderStep /\ ScriptOK'
        BY <2>1, <3>3, <4>1, StepOfForwarder DEF ForwarderInv
      <4> QED BY <3>1, <3>3, <4>1, <4>2, ForwarderKept DEF Inv
    <3> QED BY <3>2, <3>3 DEF Inv
  <2>2. CASE UNCHANGED startupVars
    <3>1. UNCHANGED <<vars, program, script, victim, unlocked>>
      BY <2>2 DEF startupVars, scriptVars
    <3>2. program' = program
      BY <3>1
    <3>3. ASSUME CollectorInv PROVE CollectorInv'
      BY <3>1, <3>3, TypesKept, FileKept, RemovalHandedOn, RunnersKept, LockKept
      DEF CollectorInv
    <3>4. ASSUME ForwarderInv PROVE ForwarderInv'
      <4>1. ForwarderStep /\ ScriptOK'
        BY <3>1, <3>4, ForwarderTypes DEF ForwarderInv, ForwarderStep, ScriptOK
      <4> QED BY <3>4, <4>1, ForwarderKept
    <3> QED BY <3>2, <3>3, <3>4 DEF Inv
  <2> QED BY <2>1, <2>2
<1> QED BY <1>1, <1>2, PTL DEF StartupSpec, startupVars

-----------------------------------------------------------------------------
(* The types: descriptors, files, locks and the script are what they       *)
(* should be, and a forwarder has its pidfile open exactly from opening    *)
(* it to the unlocking (forwarder.c:402-432).                              *)
THEOREM StartupTypes == StartupSpec => []StartupTypeOK
<1>1. Inv => StartupTypeOK
  BY DEF Inv, StartupTypeOK, CollectorInv, ForwarderInv
<1> QED BY <1>1, Invariance, PTL

(* A forwarder that has the lock of its file writes its pid to it          *)
(* undisturbed, whatever others and the script do in between; the one way  *)
(* out is a file that could not be locked (forwarder.c:408-418, 427-434).  *)
THEOREM Undisturbed == StartupSpec => []WritesUndisturbed
<1>1. Inv => WritesUndisturbed
  <2>1. CollectorInv => WritesUndisturbed
    BY DEF CollectorInv, TypeOK, WritesUndisturbed
  <2> QED BY <2>1 DEF Inv, ForwarderInv
<1> QED BY <1>1, Invariance, PTL

(* With either program, the script and refused commands among them, no     *)
(* pidfile is left when all have ended in an orderly way                   *)
(* (PidFile.cpp:42-50, forwarder.c:408-418, 472-474).                      *)
THEOREM NothingStays == StartupSpec => []NothingLeft
<1>1. SomebodyRemoves => NothingLeft
  BY DEF SomebodyRemoves, WillRemove, NothingLeft, Unfinished
<1>2. Removers => NothingLeft
  BY DEF Removers, Locking, NothingLeft, Unfinished
<1>3. Inv => NothingLeft
  BY <1>1, <1>2 DEF Inv, CollectorInv, ForwarderInv
<1> QED BY <1>3, Invariance, PTL

(* With either program, whoever is named in the pidfile has not ended in   *)
(* an orderly way (PidFile.cpp:42-50, 72-83, forwarder.c:427-434, 472-474).*)
THEOREM NamedAreThere == StartupSpec => []NamesNobodyGone
<1>1. Inv => NamesNobodyGone
  BY DEF Inv, CollectorInv, ForwarderInv, PidsAreOfRunners
<1> QED BY <1>1, Invariance, PTL

(* Two instances of the collector that were started with whatever commands *)
(* are not between locking and the end of the parent with the same file    *)
(* (PidFile.cpp:63-69, main.cpp:61-63, 76).                                *)
THEOREM AloneAtStartup == StartupSpec => []AloneUntilForked
<1>1. HoldsLock => AloneUntilForked
  BY DEF HoldsLock, AloneUntilForked
<1>2. ForwarderTypeOK => AloneUntilForked
  BY DEF ForwarderTypeOK, AloneUntilForked
<1>3. Inv => AloneUntilForked
  BY <1>1, <1>2 DEF Inv, CollectorInv, ForwarderInv
<1> QED BY <1>3, Invariance, PTL

-----------------------------------------------------------------------------
(* The options.                                                            *)

Places(args, name) == {i \in DOMAIN args : args[i].name = name}

(* An option stands at one place if it is given once, and its value is the *)
(* one that is found there.                                                *)
LEMMA OnePlace ==
  ASSUME NEW args, args \in Seq(ToSet(args)), NEW name, ~(Times(args, name) > 1),
         NEW i \in Places(args, name)
  PROVE  /\ \A j \in Places(args, name) : j = i
         /\ ValueIn(args, name) = args[i].value
<1>1. IsFiniteSet(Places(args, name)) /\ Cardinality(Places(args, name)) \in Nat
  <2>1. IsFiniteSet(1..Len(args))
    BY FS_Interval
  <2>2. Places(args, name) \in SUBSET (1..Len(args))
    BY DEF Places
  <2>3. IsFiniteSet(Places(args, name))
    BY <2>1, <2>2, FS_Subset
  <2> QED BY <2>3, FS_CardinalityType
<1>2. Cardinality(Places(args, name)) =< 1
  BY <1>1 DEF Times, Places
<1>3. ASSUME NEW j \in Places(args, name) PROVE j = i
  <2>1. {i} \in SUBSET Places(args, name)
    OBVIOUS
  <2>2. Cardinality({i}) = 1
    BY FS_Singleton
  <2>3. Cardinality({i}) =< Cardinality(Places(args, name))
    BY <1>1, <2>1, FS_Subset
  <2>4. Cardinality({i}) = Cardinality(Places(args, name))
    BY <1>1, <1>2, <2>2, <2>3
  <2>5. Places(args, name) = {i}
    BY <1>1, <2>1, <2>4, FS_Subset
  <2> QED BY <2>5
<1>4. ValueIn(args, name) = args[i].value
  <2> DEFINE arg == CHOOSE arg \in ToSet(args) : arg.name = name
  <2>1. args[i] \in ToSet(args) /\ args[i].name = name
    BY DEF ToSet, Places
  <2>2. arg \in ToSet(args) /\ arg.name = name
    BY <2>1
  <2>3. PICK j \in DOMAIN args : arg = args[j]
    BY <2>2 DEF ToSet
  <2>4. j = i
    BY <1>3, <2>2, <2>3 DEF Places
  <2> QED BY <2>3, <2>4 DEF ValueIn
<1> QED BY <1>3, <1>4

(* Whoever stands somewhere is named, and conversely.                      *)
LEMMA Named ==
  ASSUME NEW args, NEW name
  PROVE  name \in Names(args) <=> Places(args, name) # {}
BY DEF Names, ToSet, Places

(* What parse has looked at when it succeeds.                              *)
Given(command) == Store(Nothing, command.args)
All(command) == Store(Given(command), Config(command))

LEMMA Stored ==
  ASSUME NEW command
  PROVE  /\ DOMAIN Given(command) = Names(command.args)
         /\ DOMAIN All(command) = Names(command.args) \union Names(Config(command))
         /\ \A name \in DOMAIN All(command) :
               All(command)[name] = IF name \in Names(command.args)
                                    THEN ValueIn(command.args, name)
                                    ELSE ValueIn(Config(command), name)
<1>1. DOMAIN Nothing = {}
  BY DEF Nothing
<1>2. /\ DOMAIN Given(command) = Names(command.args)
      /\ \A name \in Names(command.args) :
            Given(command)[name] = ValueIn(command.args, name)
  BY <1>1 DEF Given, Store
<1> QED BY <1>2 DEF All, Store

(* parse succeeds only with options that it could parse, of which those of *)
(* the database are given once, in one source, and without help.           *)
LEMMA Success ==
  ASSUME NEW command, parse(command).result = "ParseSuccess"
  PROVE  /\ ~MultipleOccurrences(command.args, Nothing)
         /\ ~MultipleOccurrences(Config(command), Given(command))
         /\ "help" \notin DOMAIN All(command) /\ "target" \in DOMAIN All(command)
         /\ parse(command).m_daemonize = ("foreground" \notin DOMAIN All(command))
         /\ parse(command).m_db = [name \in db |-> IF name \in DOMAIN All(command)
                                                   THEN All(command)[name] ELSE ""]
         /\ parse(command).m_debugStreams =
               SetStreams(IF "debug" \in DOMAIN All(command)
                          THEN All(command)["debug"] ELSE Default)
<1>1. \A errors : Failure(errors).result # "ParseSuccess"
  BY DEF Failure, Caught, Uncaught
<1>2. Caught.result # "ParseSuccess"
  BY DEF Caught
<1> QED BY <1>1, <1>2 DEF parse, Given, All


(* Given is what stands in either source, the command line first.          *)
LEMMA BothSources ==
  ASSUME NEW command, command.args \in Seq(ToSet(command.args)),
         command.file \in Seq(ToSet(command.file)), NEW name
  PROVE  LET args == command.args
             config == Config(command)
             given == args \o config
         IN /\ config \in Seq(ToSet(config)) /\ given \in Seq(ToSet(given))
            /\ \A i \in Places(given, name) :
                  \/ i \in Places(args, name) /\ given[i] = args[i]
                  \/ /\ i - Len(args) \in Places(config, name)
                     /\ given[i] = config[i - Len(args)]
            /\ \A i \in Places(args, name) : i \in Places(given, name) /\ given[i] = args[i]
            /\ \A i \in Places(config, name) :
                  /\ i + Len(args) \in Places(given, name)
                  /\ given[i + Len(args)] = config[i]
<1> DEFINE args == command.args
           config == Config(command)
           given == args \o config
<1>1. config \in Seq(ToSet(config))
  BY DEF Config, ToSet
<1>2. args \in Seq(ToSet(args) \union ToSet(config)) /\ config \in Seq(ToSet(args) \union ToSet(config))
  BY <1>1
<1>3. /\ given \in Seq(ToSet(args) \union ToSet(config))
      /\ Len(given) = Len(args) + Len(config)
      /\ Len(args) \in Nat /\ Len(config) \in Nat
      /\ \A i \in 1..Len(given) : given[i] = IF i =< Len(args) THEN args[i] ELSE config[i - Len(args)]
  BY <1>2
<1> HIDE DEF given, config, args
<1>4. DOMAIN args = 1..Len(args) /\ DOMAIN config = 1..Len(config) /\ DOMAIN given = 1..Len(given)
  BY <1>2, <1>3
<1>5. given \in Seq(ToSet(given))
  <2>1. \A i \in 1..Len(given) : given[i] \in ToSet(given)
    BY <1>4 DEF ToSet
  <2> QED BY <1>3, <2>1
<1>6. ASSUME NEW i \in Places(given, name)
      PROVE  \/ i \in Places(args, name) /\ given[i] = args[i]
             \/ i - Len(args) \in Places(config, name) /\ given[i] = config[i - Len(args)]
  <2>1. i \in 1..Len(given) /\ given[i].name = name
    BY <1>4 DEF Places
  <2>2. CASE i =< Len(args)
    <3>1. i \in DOMAIN args /\ given[i] = args[i]
      BY <1>3, <1>4, <2>1, <2>2
    <3> QED BY <2>1, <3>1 DEF Places
  <2>3. CASE i > Len(args)
    <3>1. i - Len(args) \in DOMAIN config /\ given[i] = config[i - Len(args)]
      BY <1>3, <1>4, <2>1, <2>3
    <3> QED BY <2>1, <3>1 DEF Places
  <2> QED BY <1>3, <2>1, <2>2, <2>3
<1>7. ASSUME NEW i \in Places(args, name) PROVE i \in Places(given, name) /\ given[i] = args[i]
  <2>1. i \in DOMAIN args /\ args[i].name = name
    BY DEF Places
  <2>2. i \in DOMAIN given /\ given[i] = args[i]
    BY <1>3, <1>4, <2>1
  <2> QED BY <2>1, <2>2 DEF Places
<1>8. ASSUME NEW i \in Places(config, name)
      PROVE  i + Len(args) \in Places(given, name) /\ given[i + Len(args)] = config[i]
  <2>1. i \in DOMAIN config /\ config[i].name = name
    BY DEF Places
  <2>2. i + Len(args) \in DOMAIN given /\ given[i + Len(args)] = config[i]
    BY <1>3, <1>4, <2>1
  <2> QED BY <2>1, <2>2 DEF Places
<1> QED BY <1>1, <1>5, <1>6, <1>7, <1>8 DEF given, config, args

(* An option is said if and only if it is stored.                          *)
LEMMA SaidAtAll ==
  ASSUME NEW name, typed \in Commands
  PROVE  Said(name) # {} <=> name \in DOMAIN All(typed)
<1> DEFINE args == typed.args
           config == Config(typed)
           given == args \o config
<1>1. typed.args \in Seq(ToSet(typed.args)) /\ typed.file \in Seq(ToSet(typed.file))
  BY StartupAssumption
<1>2. Places(given, name) # {} <=> Places(args, name) # {} \/ Places(config, name) # {}
  BY <1>1, BothSources
<1>3. Said(name) = {given[i].value : i \in Places(given, name)}
  BY DEF Said, Places
<1>4. DOMAIN All(typed) = Names(args) \union Names(config)
  BY Stored
<1>5. /\ name \in Names(args) <=> Places(args, name) # {}
      /\ name \in Names(config) <=> Places(config, name) # {}
  BY Named
<1> QED BY <1>2, <1>3, <1>4, <1>5

(* What is said of an option that is given at most once in all, and only   *)
(* in one of the sources: its value, or nothing.                           *)
LEMMA SaidOnce ==
  ASSUME NEW name \in db, typed \in Commands,
         ~MultipleOccurrences(typed.args, Nothing),
         ~MultipleOccurrences(Config(typed), Given(typed))
  PROVE  /\ Times(typed.args \o Config(typed), name) =< 1
         /\ Said(name) \subseteq {All(typed)[name]}
<1> DEFINE args == typed.args
           config == Config(typed)
           given == args \o config
<1>1. typed.args \in Seq(ToSet(typed.args)) /\ typed.file \in Seq(ToSet(typed.file))
  BY StartupAssumption
<1>2. /\ config \in Seq(ToSet(config)) /\ given \in Seq(ToSet(given))
      /\ \A i \in Places(given, name) :
            \/ i \in Places(args, name) /\ given[i] = args[i]
            \/ /\ i - Len(args) \in Places(config, name)
               /\ given[i] = config[i - Len(args)]
      /\ \A i \in Places(args, name) : i \in Places(given, name) /\ given[i] = args[i]
      /\ \A i \in Places(config, name) :
            /\ i + Len(args) \in Places(given, name)
            /\ given[i + Len(args)] = config[i]
  BY <1>1, BothSources
<1>3. Said(name) = {given[i].value : i \in Places(given, name)}
  BY DEF Said, Places
<1>4. /\ DOMAIN Given(typed) = Names(args)
      /\ DOMAIN All(typed) = Names(args) \union Names(config)
      /\ \A n \in DOMAIN All(typed) : All(typed)[n] = IF n \in Names(args)
                                                      THEN ValueIn(args, n)
                                                      ELSE ValueIn(config, n)
  BY Stored
<1>5. name \in Names(args) => ~(Times(args, name) > 1) /\ name \notin Names(config)
  <2>1. DOMAIN Nothing = {}
    BY DEF Nothing
  <2>2. name \in Names(args) => ~(Times(args, name) > 1)
    BY <2>1 DEF MultipleOccurrences, Final
  <2>3. name \in Names(args) => name \notin Names(config)
    BY <1>4 DEF MultipleOccurrences, Final
  <2> QED BY <2>2, <2>3
<1>6. name \in Names(config) => ~(Times(config, name) > 1) /\ name \notin Names(args)
  BY <1>4 DEF MultipleOccurrences, Final
<1>7. /\ name \in Names(args) <=> Places(args, name) # {}
      /\ name \in Names(config) <=> Places(config, name) # {}
  BY Named
<1>8. ASSUME NEW i \in Places(given, name)
      PROVE  /\ \A j \in Places(given, name) : j = i
             /\ given[i].value = All(typed)[name]
  <2>1. CASE i \in Places(args, name) /\ given[i] = args[i]
    <3>1. name \in Names(args) /\ Places(config, name) = {}
      BY <1>5, <1>7, <2>1
    <3>2. \A j \in Places(given, name) : j \in Places(args, name)
      BY <1>2, <3>1
    <3>3. (\A j \in Places(args, name) : j = i) /\ ValueIn(args, name) = args[i].value
      BY <1>1, <1>5, <2>1, <3>1, OnePlace
    <3> QED BY <1>4, <2>1, <3>1, <3>2, <3>3
  <2>2. CASE /\ i - Len(args) \in Places(config, name)
             /\ given[i] = config[i - Len(args)]
    <3>1. name \in Names(config) /\ name \notin Names(args) /\ Places(args, name) = {}
      BY <1>6, <1>7, <2>2
    <3>2. \A j \in Places(given, name) : j - Len(args) \in Places(config, name)
      BY <1>2, <3>1
    <3>3. /\ \A j \in Places(config, name) : j = i - Len(args)
          /\ ValueIn(config, name) = config[i - Len(args)].value
      BY <1>2, <1>6, <2>2, <3>1, OnePlace
    <3>4. ASSUME NEW j \in Places(given, name) PROVE j = i
      <4>1. j - Len(args) = i - Len(args)
        BY <3>2, <3>3
      <4>2. i \in Int /\ j \in Int /\ Len(args) \in Int
        BY <1>1, <1>2 DEF Places
      <4> QED BY <4>1, <4>2
    <3> QED BY <1>4, <2>2, <3>1, <3>3, <3>4
  <2> QED BY <1>2, <2>1, <2>2
<1>9. Times(given, name) =< 1
  <2>1. Times(given, name) = Cardinality(Places(given, name))
    BY DEF Times, Places
  <2>2. CASE Places(given, name) = {}
    BY <2>1, <2>2, FS_EmptySet
  <2>3. ASSUME NEW i \in Places(given, name) PROVE Cardinality(Places(given, name)) = 1
    <3>1. Places(given, name) = {i}
      BY <1>8, <2>3
    <3> QED BY <3>1, FS_Singleton
  <2> QED BY <2>1, <2>2, <2>3
<1>10. Said(name) \subseteq {All(typed)[name]}
  BY <1>3, <1>8
<1> QED BY <1>9, <1>10

(* Induction over a set of numbers.                                        *)
LEMMA AllNumbers ==
    ASSUME NEW G, 0 \in G, \A i \in Nat : i \in G => i + 1 \in G
    PROVE  \A i \in Nat : i \in G
<1>. SUFFICES ASSUME NEW k \in Nat, k \notin G PROVE FALSE
  OBVIOUS
<1>. DEFINE others == Nat \ G
<1>1. k \in others /\ others \subseteq Nat
  OBVIOUS
<1>2. PICK x \in others : \A y \in others : <<y, x>> \notin OpToRel(<, Nat)
  BY <1>1, NatLessThanWellFounded, WFMin, Zenon
<1>3. \A y \in others : ~(y < x)
  BY <1>1, <1>2, Zenon DEF OpToRel
<1>4. x \in Nat /\ x # 0 /\ x \notin G
  OBVIOUS
<1>5. x - 1 \in Nat /\ x - 1 < x /\ (x - 1) + 1 = x
  BY <1>4
<1>6. x - 1 \notin others
  BY <1>3, <1>5
<1>. QED
  BY <1>4, <1>5, <1>6

(* g is the function by which After is defined, up to n.                   *)
Streams(g, module, flags, n) ==
    g = [i \in 0..n |->
            IF i = 0 THEN reset
            ELSE IF module \in ModuleOf(flags[i]) THEN setFile(g[i - 1], File(flags[i]))
            ELSE g[i - 1]]

(* The function that After is defined by exists: it can be built up.       *)
LEMMA BuiltUp ==
    ASSUME NEW module, NEW flags, NEW n \in Nat
    PROVE  \E g : Streams(g, module, flags, n)
<1>. DEFINE More(t, i) == IF module \in ModuleOf(flags[i])
                       THEN setFile(t, File(flags[i])) ELSE t
<1>. HIDE DEF More
<1>. DEFINE Built(g, m) == g = [i \in 0..m |-> IF i = 0 THEN reset ELSE More(g[i - 1], i)]
            G == {m \in Nat : \E g : Built(g, m)}
<1>1. 0 \in G
  <2>. DEFINE g == [i \in 0..0 |-> reset]
  <2>1. Built(g, 0)
    OBVIOUS
  <2>. QED
    BY <2>1
<1>2. ASSUME NEW m \in Nat, m \in G
      PROVE  m + 1 \in G
  <2>1. PICK g : Built(g, m)
    BY <1>2
  <2>. DEFINE h == [i \in 0..m + 1 |-> IF i = m + 1 THEN More(g[m], m + 1) ELSE g[i]]
              k == [i \in 0..m + 1 |-> IF i = 0 THEN reset ELSE More(h[i - 1], i)]
  <2>2. ASSUME NEW i \in 0..m + 1
        PROVE  h[i] = IF i = 0 THEN reset ELSE More(h[i - 1], i)
    <3>1. CASE i = m + 1
      <4>1. i # 0 /\ i - 1 = m /\ m \in 0..m + 1 /\ m # m + 1
        BY <3>1
      <4>2. h[m] = g[m] /\ h[m + 1] = More(g[m], m + 1)
        BY <4>1
      <4>. HIDE DEF h
      <4>. QED
        BY <3>1, <4>1, <4>2
    <3>2. CASE i # m + 1
      <4>1. i \in 0..m /\ (i # 0 => i - 1 \in 0..m /\ i - 1 \in 0..m + 1 /\ i - 1 # m + 1)
        BY <3>2
      <4>2. h[i] = g[i] /\ (i # 0 => h[i - 1] = g[i - 1])
        BY <3>2, <4>1
      <4>3. g[i] = IF i = 0 THEN reset ELSE More(g[i - 1], i)
        BY <2>1, <4>1, Zenon
      <4>. HIDE DEF h
      <4>. QED
        BY <4>2, <4>3, Zenon
    <3>. QED
      BY <3>1, <3>2
  <2>3. h = k
    <3>1. h = [i \in 0..m + 1 |-> h[i]]
      OBVIOUS
    <3>. HIDE DEF h
    <3>. QED
      BY <2>2, <3>1, Zenon
  <2>4. Built(h, m + 1)
    BY <2>3
  <2>. HIDE DEF h, Built
  <2>. QED
    BY <2>4
<1>. HIDE DEF G
<1>3. n \in G
  BY <1>1, <1>2, AllNumbers
<1>. QED
  BY <1>3 DEF G, More, Streams

(* What a stream is after items of which those in I name it, with the file *)
(* of the last one or of one before.                                       *)
Told(stream, I, flags) ==
    LET named == {File(flags[i]) : i \in I} \ {<<>>}
    IN /\ stream.m_active <=> I # {}
       /\ stream.rdbuf \in IF named = {} THEN {Stdout} ELSE named
       /\ stream.m_fileBuf \in named \union {<<>>}

IsStream(s) ==
    s = [m_active |-> s.m_active, rdbuf |-> s.rdbuf, m_fileBuf |-> s.m_fileBuf]

(* With one more item the stream is what it and the earlier ones say.      *)
LEMMA FileSet ==
    ASSUME NEW flags, NEW stream, NEW I, NEW i, Told(stream, I, flags), IsStream(stream)
    PROVE  /\ Told(setFile(stream, File(flags[i])), I \union {i}, flags)
           /\ IsStream(setFile(stream, File(flags[i])))
<1>. DEFINE file == File(flags[i])
            after == setFile(stream, file)
            named == {File(flags[j]) : j \in I} \ {<<>>}
            others == {File(flags[j]) : j \in I \union {i}} \ {<<>>}
<1>1. others = named \union ({file} \ {<<>>})
  OBVIOUS
<1>2. /\ stream.rdbuf \in IF named = {} THEN {Stdout} ELSE named
      /\ stream.m_fileBuf \in named \union {<<>>}
      /\ stream = [m_active |-> stream.m_active, rdbuf |-> stream.rdbuf,
                   m_fileBuf |-> stream.m_fileBuf]
  BY DEF Told, IsStream
<1>3. /\ after.m_active
      /\ after.rdbuf \in IF others = {} THEN {Stdout} ELSE others
      /\ after.m_fileBuf \in others \union {<<>>}
      /\ IsStream(after)
  <2>. HIDE DEF named, others, file
  <2>. Stdout # <<>> /\ Stderr # <<>>
    BY DEF Stdout, Stderr
  <2>1. CASE file = <<>>
    <3>1. after = [m_active |-> TRUE, rdbuf |-> stream.rdbuf, m_fileBuf |-> stream.m_fileBuf]
      BY <1>2, <2>1 DEF setFile
    <3>. HIDE DEF after
    <3>. QED
      BY <1>1, <1>2, <2>1, <3>1 DEF IsStream
  <2>2. CASE file \in {Stdout, Stderr}
    <3>1. after = [m_active |-> TRUE, rdbuf |-> file, m_fileBuf |-> stream.m_fileBuf]
      BY <1>2, <2>2 DEF setFile
    <3>. HIDE DEF after
    <3>. QED
      BY <1>1, <1>2, <2>2, <3>1 DEF IsStream
  <2>3. CASE file \notin {<<>>, Stdout, Stderr}
    <3>. DEFINE opened == IF stream.m_fileBuf = <<>> THEN file ELSE stream.m_fileBuf
    <3>1. after = [m_active |-> TRUE, rdbuf |-> opened, m_fileBuf |-> opened]
      BY <2>3 DEF setFile
    <3>. HIDE DEF after
    <3>. QED
      BY <1>1, <1>2, <2>3, <3>1 DEF IsStream
  <2>. QED
    BY <2>1, <2>2, <2>3
<1>. QED
  BY <1>3 DEF Told

(* The items before i + 1 that name a module.                              *)
Naming(module, flags, i) == {j \in 1..i : module \in ModuleOf(flags[j])}

(* What the items of a value make of a stream.                             *)
LEMMA AfterAll ==
    ASSUME NEW module, NEW flags, flags \in Seq(ToSet(flags))
    PROVE  Told(After(module, flags), Naming(module, flags, Len(flags)), flags)
<1>. DEFINE stream == CHOOSE g : Streams(g, module, flags, Len(flags))
<1>1. After(module, flags) = stream[Len(flags)]
  BY Zenon DEF After, Streams
<1>2. Len(flags) \in Nat
  OBVIOUS
<1>3. Streams(stream, module, flags, Len(flags))
  BY <1>2, BuiltUp, Zenon
<1>. HIDE DEF stream
<1>. DEFINE More(t, i) == IF module \in ModuleOf(flags[i])
                          THEN setFile(t, File(flags[i])) ELSE t
            Right(i) == /\ Told(stream[i], Naming(module, flags, i), flags)
                        /\ IsStream(stream[i])
            G == {i \in Nat : i =< Len(flags) => Right(i)}
<1>4. stream[0] = reset /\ \A i \in 1..Len(flags) : stream[i] = More(stream[i - 1], i)
  <2>. HIDE DEF More
  <2>1. stream = [i \in 0..Len(flags) |-> IF i = 0 THEN reset ELSE More(stream[i - 1], i)]
    BY <1>3, Zenon DEF Streams, More
  <2>. QED
    BY <1>2, <2>1
<1>5. 0 \in G
  <2>1. Naming(module, flags, 0) = {}
    BY DEF Naming
  <2>2. Told(reset, {}, flags) /\ IsStream(reset)
    BY DEF Told, reset, IsStream
  <2>. QED
    BY <1>4, <2>1, <2>2
<1>6. ASSUME NEW i \in Nat, i \in G
      PROVE  i + 1 \in G
  <2>. SUFFICES ASSUME i + 1 =< Len(flags) PROVE Right(i + 1)
    OBVIOUS
  <2>1. i + 1 \in 1..Len(flags) /\ i =< Len(flags) /\ (i + 1) - 1 = i
    BY <1>2
  <2>2. Right(i) /\ stream[i + 1] = More(stream[i], i + 1)
    BY <1>4, <1>6, <2>1
  <2>3. CASE module \notin ModuleOf(flags[i + 1])
    <3>1. stream[i + 1] = stream[i]
      BY <2>2, <2>3
    <3>2. Naming(module, flags, i + 1) = Naming(module, flags, i)
      BY <2>3 DEF Naming
    <3>. QED
      BY <2>2, <3>1, <3>2
  <2>4. CASE module \in ModuleOf(flags[i + 1])
    <3>1. stream[i + 1] = setFile(stream[i], File(flags[i + 1]))
      BY <2>2, <2>4
    <3>2. Naming(module, flags, i + 1) = Naming(module, flags, i) \union {i + 1}
      BY <2>4 DEF Naming
    <3>3. /\ Told(setFile(stream[i], File(flags[i + 1])),
                   Naming(module, flags, i) \union {i + 1}, flags)
          /\ IsStream(setFile(stream[i], File(flags[i + 1])))
      BY <2>2, FileSet
    <3>. QED
      BY <3>1, <3>2, <3>3
  <2>. QED
    BY <2>3, <2>4
<1>7. Right(Len(flags))
  <2>. HIDE DEF Right
  <2>1. \A i \in Nat : i \in G
    <3>. HIDE DEF G
    <3>. QED
      BY <1>5, <1>6, AllNumbers
  <2>. QED
    BY <1>2, <2>1
<1>. QED
  BY <1>1, <1>7

(* Whatever the file, a stream that is given one is on.                    *)
LEMMA FileOn ==
    ASSUME NEW file
    PROVE  setFile(reset, file).m_active
<1>1. CASE file = <<>>
  BY <1>1 DEF setFile, reset
<1>2. CASE file # <<>> /\ file \in {Stdout, Stderr}
  BY <1>2 DEF setFile, reset
<1>3. CASE file # <<>> /\ file \notin {Stdout, Stderr}
  BY <1>3 DEF setFile
<1>. QED
  BY <1>1, <1>2, <1>3

(* A flag names no stream but its own, and without a file it names it.     *)
LEMMA OwnFlag ==
    ASSUME NEW module \in DebugStreams
    PROVE  /\ \A item : module \in ModuleOf(item) => item.flag = module
           /\ module \in ModuleOf([flag |-> module, to |-> ""])
<1>1. ASSUME NEW item, module \in ModuleOf(item)
      PROVE  item.flag = module
  <2>1. CASE item.flag = "io" /\ item.to = ""
    BY <1>1, <2>1 DEF ModuleOf
  <2>2. CASE item.flag = "message"
    BY <1>1, <2>2 DEF ModuleOf
  <2>3. CASE item.flag = "data"
    BY <1>1, <2>3 DEF ModuleOf
  <2>4. CASE ~(item.flag = "io" /\ item.to = "") /\ item.flag # "message" /\ item.flag # "data"
    BY <1>1, <2>4 DEF ModuleOf
  <2>. QED
    BY <2>1, <2>2, <2>3, <2>4
<1>2. module \in ModuleOf([flag |-> module, to |-> ""])
  BY DEF ModuleOf, DebugStreams
<1>. QED
  BY <1>1, <1>2

(* What StreamsOnlyAsAsked says of one stream and one value.               *)
OnlyAsAsked(stream, module, flags) ==
    /\ stream.m_active => Asking(module, flags) # {}
    /\ [flag |-> module, to |-> ""] \in ToSet(flags) => stream.m_active
    /\ ~BeginsWithAll(flags) => stream.rdbuf \in FilesFor(module, flags) \union {Stdout}

(* A stream is only as the items of its value ask for it, in each of the   *)
(* three kinds of values.                                                  *)
LEMMA AsAsked ==
    ASSUME NEW flags, flags \in Seq(ToSet(flags)), NEW module \in DebugStreams
    PROVE  OnlyAsAsked(SetStreams(flags)[module], module, flags)
<1>1. DOMAIN flags = 1..Len(flags) /\ Len(flags) \in Nat
  OBVIOUS
<1>2. SetStreams(flags)[module] = CASE flags = Default      -> reset
          [] BeginsWithAll(flags) -> setFile(reset, RestOf(flags))
          [] OTHER                -> After(module, flags)
  BY DEF SetStreams
<1>3. \A x : x \in ToSet(flags) <=> \E i \in DOMAIN flags : x = flags[i]
  BY DEF ToSet
<1>4. CASE flags = Default
  <2>1. DOMAIN flags = {1} /\ flags[1].flag = "none"
    <3>1. \A item : DOMAIN <<item>> = {1} /\ <<item>>[1] = item
      OBVIOUS
    <3>. QED
      BY <1>4, <3>1 DEF Default
  <2>2. [flag |-> module, to |-> ""] \notin ToSet(flags)
    <3>1. [flag |-> module, to |-> ""].flag = module /\ module # "none"
      BY DEF DebugStreams
    <3>. QED
      BY <1>3, <2>1, <3>1
  <2>3. SetStreams(flags)[module] = reset /\ ~reset.m_active /\ reset.rdbuf = Stdout
    <3>1. ~BeginsWithAll(flags)
      BY <2>1 DEF BeginsWithAll
    <3>. QED
      BY <1>2, <1>4, <3>1 DEF reset
  <2>. QED
    BY <2>2, <2>3 DEF OnlyAsAsked
<1>5. CASE flags # Default /\ BeginsWithAll(flags)
  <2>1. 1 \in Asking(module, flags)
    BY <1>1, <1>5 DEF BeginsWithAll, Asking
  <2>2. SetStreams(flags)[module].m_active
    BY <1>2, <1>5, FileOn
  <2>. QED
    BY <1>5, <2>1, <2>2 DEF OnlyAsAsked
<1>6. CASE flags # Default /\ ~BeginsWithAll(flags)
  <2>. DEFINE I == Naming(module, flags, Len(flags))
              stream == After(module, flags)
              named == {File(flags[i]) : i \in I} \ {<<>>}
  <2>1. SetStreams(flags)[module] = stream
    BY <1>2, <1>6
  <2>2. /\ stream.m_active <=> I # {}
        /\ stream.rdbuf \in named \union {Stdout}
    BY AfterAll DEF Told
  <2>3. \A i \in DOMAIN flags : module \in ModuleOf(flags[i]) => flags[i].flag = module
    BY OwnFlag
  <2>4. I \subseteq Asking(module, flags)
    BY <1>1, <2>3 DEF Naming, Asking
  <2>5. named \subseteq FilesFor(module, flags)
    BY <2>4 DEF FilesFor
  <2>6. ASSUME [flag |-> module, to |-> ""] \in ToSet(flags)
        PROVE  I # {}
    <3>1. PICK i \in DOMAIN flags : flags[i] = [flag |-> module, to |-> ""]
      BY <1>3, <2>6
    <3>2. module \in ModuleOf(flags[i])
      BY <3>1, OwnFlag
    <3>. QED
      BY <1>1, <3>2 DEF Naming
  <2>. HIDE DEF I, stream, named
  <2>. QED
    BY <2>1, <2>2, <2>4, <2>5, <2>6 DEF OnlyAsAsked
<1>. QED
  BY <1>4, <1>5, <1>6

(* What was accepted is in the options of the program, or nothing was      *)
(* accepted lately.                                                        *)
Parsed == parsed = NoOptions \/ (typed \in Commands /\ parsed = parse(typed))

LEMMA ParsedAlways == StartupSpec => []Parsed
<1>1. StartupInit => Parsed
  BY DEF StartupInit, Parsed
<1>2. Parsed /\ [StartupNext]_startupVars => Parsed'
  <2> SUFFICES ASSUME Parsed, [StartupNext]_startupVars PROVE Parsed'
    OBVIOUS
  <2>1. CASE UNCHANGED startVars
    BY <2>1 DEF startVars, Parsed
  <2>2. ASSUME NEW p \in Procs,
               NEW command \in IF Idle THEN Commands ELSE PlainCommands,
               StartCollector(p, command)
        PROVE  Parsed'
    <3>1. command \in Commands
      BY StartupAssumption
    <3> QED BY <2>2, <3>1 DEF StartCollector, Parsed
  <2>3. CASE parsed' = NoOptions
    BY <2>3 DEF Parsed
  <2> QED BY <2>1, <2>2, <2>3 DEF StartupNext, startupVars
<1> QED BY <1>1, <1>2, PTL DEF StartupSpec, startupVars

(* For every command that a user may type, with options given as often and *)
(* in as many places as he likes: what is accepted is used as it was said, *)
(* or not said (Options.cpp:102-118, 135-179).                             *)
THEOREM AsGiven == StartupSpec => []OptionsAsGiven
<1>1. Parsed => OptionsAsGiven
  <2> SUFFICES ASSUME Parsed, parsed.result = "ParseSuccess"
               PROVE  /\ \A name \in db :
                            /\ Said(name) \subseteq {parsed.m_db[name]}
                            /\ Said(name) = {} => parsed.m_db[name] = ""
                            /\ Times(typed.args \o Config(typed), name) =< 1
                      /\ parsed.m_daemonize <=> Said("foreground") = {}
                      /\ Said("help") = {} /\ Said("target") # {}
    BY DEF OptionsAsGiven
  <2>1. typed \in Commands /\ parsed = parse(typed)
    BY DEF Parsed, NoOptions
  <2>2. /\ ~MultipleOccurrences(typed.args, Nothing)
        /\ ~MultipleOccurrences(Config(typed), Given(typed))
        /\ "help" \notin DOMAIN All(typed) /\ "target" \in DOMAIN All(typed)
        /\ parsed.m_daemonize = ("foreground" \notin DOMAIN All(typed))
        /\ parsed.m_db = [name \in db |-> IF name \in DOMAIN All(typed)
                                          THEN All(typed)[name] ELSE ""]
    BY <2>1, Success
  <2>3. \A name : Said(name) # {} <=> name \in DOMAIN All(typed)
    BY <2>1, SaidAtAll
  <2>4. ASSUME NEW name \in db
        PROVE  /\ Said(name) \subseteq {parsed.m_db[name]}
               /\ Said(name) = {} => parsed.m_db[name] = ""
               /\ Times(typed.args \o Config(typed), name) =< 1
    <3>1. /\ Times(typed.args \o Config(typed), name) =< 1
          /\ Said(name) \subseteq {All(typed)[name]}
      BY <2>1, <2>2, SaidOnce
    <3>2. parsed.m_db[name] = IF name \in DOMAIN All(typed) THEN All(typed)[name] ELSE ""
      BY <2>2
    <3> QED BY <2>3, <3>1, <3>2
  <2> QED BY <2>2, <2>3, <2>4
<1> QED BY <1>1, ParsedAlways, PTL

(* For every command and every value of --debug, however many flags it has *)
(* and in whichever source it stands: no stream is on unasked, one that is *)
(* named without a file is on, and but for a value that begins with "all"  *)
(* no file goes over from one item to another or to another stream         *)
(* (Options.cpp:135-176, Options.h:34-47).                                 *)
THEOREM StreamsCorrect == StartupSpec => []StreamsOnlyAsAsked
<1>1. Parsed => StreamsOnlyAsAsked
  <2> SUFFICES ASSUME Parsed, parsed.result = "ParseSuccess", NEW module \in DebugStreams
               PROVE  OnlyAsAsked(parsed.m_debugStreams[module], module, DebugFlags)
    BY DEF StreamsOnlyAsAsked, OnlyAsAsked
  <2> DEFINE args == typed.args
             config == Config(typed)
  <2>1. typed \in Commands /\ parsed = parse(typed)
    BY DEF Parsed, NoOptions
  <2>2. parsed.m_debugStreams = SetStreams(IF "debug" \in DOMAIN All(typed)
                                           THEN All(typed)["debug"] ELSE Default)
    BY <2>1, Success
  <2>3. \A arg \in ToSet(args) \union ToSet(config) :
           arg.name = "debug" => arg.value \in Seq(ToSet(arg.value))
    <3>1. config = typed.file \/ config = <<>>
      BY DEF Config
    <3>2. ToSet(<<>>) = {}
      BY DEF ToSet
    <3> QED BY <2>1, <3>1, <3>2, StartupAssumption
  <2>4. \A source \in {args, config} :
           "debug" \in Names(source) =>
               ValueIn(source, "debug") \in Seq(ToSet(ValueIn(source, "debug")))
    BY <2>3 DEF Names, ValueIn
  <2>5. CASE "debug" \in DOMAIN All(typed)
    <3>1. All(typed)["debug"] = DebugFlags /\ DebugFlags \in Seq(ToSet(DebugFlags))
      BY <2>4, <2>5, Stored DEF DebugFlags
    <3> QED BY <2>2, <2>5, <3>1, AsAsked
  <2>6. CASE "debug" \notin DOMAIN All(typed)
    <3>1. DebugFlags = <<>>
      BY <2>6, Stored DEF DebugFlags
    <3>2. parsed.m_debugStreams[module] = reset
      <4>1. Default[1].flag # "all"
        BY DEF Default
      <4> QED BY <2>2, <2>6, <4>1 DEF SetStreams, BeginsWithAll
    <3>3. ToSet(<<>>) = {}
      BY DEF ToSet
    <3>4. ~reset.m_active /\ reset.rdbuf = Stdout
      BY DEF reset
    <3> QED BY <3>1, <3>2, <3>3, <3>4 DEF OnlyAsAsked
  <2> QED BY <2>5, <2>6
<1> QED BY <1>1, ParsedAlways, PTL
=============================================================================
