------------------------------ MODULE PidFile ------------------------------
(***************************************************************************)
(* The pidfile of the collector: the class PidFile as main uses it, for    *)
(* several instances that are started on the same path.                    *)
(*                                                                         *)
(* The kernel is modelled as far as it matters.  A path names a file or    *)
(* nothing; a file that is unlinked lives on for those who have it open,   *)
(* and the next one created is another file.  A lock belongs to one        *)
(* process and one file: a child does not inherit it, and it is lost when  *)
(* the process ends or closes any descriptor it has of that file.          *)
(***************************************************************************)
EXTENDS Naturals, FiniteSets

CONSTANTS Procs, None,
          MaxFiles  \* bound: files created during a run

ASSUME PidFileAssumption == None \notin Procs /\ MaxFiles \in Nat

VARIABLES
    pc,       \* where each process is
    m_fd,     \* the file its m_fd refers to, or 0 for -1
    pidf,     \* the file its ofstream has open, or 0
    path,     \* the file behind the path, or 0
    files,    \* the number of files created so far
    content,  \* the pid in each file, or None if it holds no pid
    lock      \* the process that holds the lock of each file, or None

vars == <<pc, m_fd, pidf, path, files, content, lock>>

Files == 1..MaxFiles

Init ==
    /\ pc = [p \in Procs |-> "unborn"]
    /\ m_fd = [p \in Procs |-> 0] /\ pidf = [p \in Procs |-> 0]
    /\ path = 0 /\ files = 0
    /\ content = [f \in Files |-> None]
    /\ lock = [f \in Files |-> None]

Goto(p, from, to) == pc[p] = from /\ pc' = [pc EXCEPT ![p] = to]

(* What open with O_CREAT finds or makes behind the path.                  *)
OpenOrCreate ==
    /\ path = 0 => files < MaxFiles
    /\ files' = IF path = 0 THEN files + 1 ELSE files
    /\ path' = IF path = 0 THEN files + 1 ELSE path

LocksWithout(p) == [f \in Files |-> IF lock[f] = p THEN None ELSE lock[f]]

(* main, when the options are parsed: only a daemon has a pidfile.         *)
Start(p, daemonize) ==
    /\ Goto(p, "unborn", IF daemonize THEN "aquire" ELSE "connect")
    /\ UNCHANGED <<m_fd, pidf, path, files, content, lock>>

(* aquire() opens the file, or throws, with nothing for the destructor.    *)
Open(p) ==
    /\ \/ /\ Goto(p, "aquire", "lock")
          /\ OpenOrCreate
          /\ m_fd' = [m_fd EXCEPT ![p] = path']
       \/ /\ Goto(p, "aquire", "gone")
          /\ UNCHANGED <<m_fd, path, files>>
    /\ UNCHANGED <<pidf, content, lock>>

(* Mutant: the result of lockf is not looked at.                           *)
LockUnchecked(p) ==
    /\ Goto(p, "lock", "connect")
    /\ lock' = [lock EXCEPT ![m_fd[p]] = IF @ = None THEN p ELSE @]
    /\ UNCHANGED <<m_fd, pidf, path, files, content>>

(* It locks it, or throws, which destroys the PidFile.                     *)
Lock(p) ==
    /\ \/ /\ Goto(p, "lock", "connect")
          /\ lock[m_fd[p]] = None
          /\ lock' = [lock EXCEPT ![m_fd[p]] = p]
       \/ /\ Goto(p, "lock", "unlock")
          /\ lock[m_fd[p]] # None
          /\ UNCHANGED lock
    /\ UNCHANGED <<m_fd, pidf, path, files, content>>

(* The database is connected to; without it main returns.  In the          *)
(* foreground that is all, and nothing is left to the destructor.          *)
Connect(p) ==
    /\ IF m_fd[p] # 0
       THEN Goto(p, "connect", "daemon") \/ Goto(p, "connect", "unlock")
       ELSE Goto(p, "connect", "gone")
    /\ UNCHANGED <<m_fd, pidf, path, files, content, lock>>

(* daemon() forks: the child has the descriptor and goes on, the parent    *)
(* ends without running a destructor.                                      *)
Daemon(p, child) ==
    /\ pc[p] = "daemon" /\ pc[child] = "unborn"
    /\ pc' = [pc EXCEPT ![p] = "forked", ![child] = "truncate"]
    /\ m_fd' = [m_fd EXCEPT ![child] = m_fd[p]]
    /\ UNCHANGED <<pidf, path, files, content, lock>>

DaemonFails(p) ==
    /\ Goto(p, "daemon", "unlock")
    /\ UNCHANGED <<m_fd, pidf, path, files, content, lock>>

ParentExits(p) ==
    /\ Goto(p, "forked", "gone")
    /\ lock' = LocksWithout(p)
    /\ UNCHANGED <<m_fd, pidf, path, files, content>>

(* write() truncates what m_fd refers to, and then opens the path anew.    *)
Truncate(p) ==
    /\ Goto(p, "truncate", "reopen")
    /\ content' = [content EXCEPT ![m_fd[p]] = None]
    /\ UNCHANGED <<m_fd, pidf, path, files, lock>>

Reopen(p) ==
    /\ \/ /\ Goto(p, "reopen", "put")
          /\ OpenOrCreate
          /\ pidf' = [pidf EXCEPT ![p] = path']
          /\ content' = [content EXCEPT ![path'] = None]
       \/ /\ Goto(p, "reopen", "run")  \* not opened, which nobody notices
          /\ UNCHANGED <<pidf, path, files, content>>
    /\ UNCHANGED <<m_fd, lock>>

(* What a file holds when p has written its pid at the beginning: over     *)
(* another one it may be that one's last digits that follow.               *)
Pids(p, f) == IF content[f] = None THEN {p} ELSE {p, None}

(* Mutant: the stream is not closed before main goes on.                   *)
PutPidLater(p) ==
    /\ Goto(p, "put", "run")
    /\ \E pid \in Pids(p, pidf[p]) : content' = [content EXCEPT ![pidf[p]] = pid]
    /\ UNCHANGED <<m_fd, pidf, path, files, lock>>

(* The pid arrives in the file when the stream is closed.                  *)
PutPid(p) ==
    /\ Goto(p, "put", "run")
    /\ \E pid \in Pids(p, pidf[p]) : content' = [content EXCEPT ![pidf[p]] = pid]
    /\ pidf' = [pidf EXCEPT ![p] = 0]
    /\ lock' = [lock EXCEPT ![pidf[p]] = IF @ = p THEN None ELSE @]
    /\ UNCHANGED <<m_fd, path, files>>

(* main returns, after a signal or an exception.                           *)
Return(p) ==
    /\ Goto(p, "run", "unlock")
    /\ UNCHANGED <<m_fd, pidf, path, files, content, lock>>

(* The destructor: the lock goes, then the path, whatever file it names.   *)
Unlock(p) ==
    /\ Goto(p, "unlock", "unlink")
    /\ lock' = [lock EXCEPT ![m_fd[p]] = IF @ = p THEN None ELSE @]
    /\ m_fd' = [m_fd EXCEPT ![p] = 0]
    /\ UNCHANGED <<pidf, path, files, content>>

(* Mutants: the file is removed by the one that wrote its pid, or left     *)
(* alone when another process has it locked.                               *)
UnlinkIfOwn(p) ==
    /\ Goto(p, "unlink", "gone")
    /\ path' = IF path # 0 /\ content[path] # p THEN path ELSE 0
    /\ UNCHANGED <<m_fd, pidf, files, content, lock>>

UnlinkUnlessLocked(p) ==
    /\ Goto(p, "unlink", "gone")
    /\ path' = IF path # 0 /\ lock[path] # None THEN path ELSE 0
    /\ UNCHANGED <<m_fd, pidf, files, content, lock>>

Unlink(p) ==
    /\ Goto(p, "unlink", "gone")
    /\ path' = 0
    /\ UNCHANGED <<m_fd, pidf, files, content, lock>>

(* A signal before they are blocked, or SIGKILL.                           *)
Killed(p) ==
    /\ pc[p] \notin {"unborn", "gone", "killed"}
    /\ pc' = [pc EXCEPT ![p] = "killed"]
    /\ lock' = LocksWithout(p)
    /\ m_fd' = [m_fd EXCEPT ![p] = 0] /\ pidf' = [pidf EXCEPT ![p] = 0]
    /\ UNCHANGED <<path, files, content>>

(* What an instance does once it has started.                              *)
Collector ==
    \E p \in Procs :
        \/ Open(p) \/ Lock(p) \/ Connect(p)
        \/ \E child \in Procs : Daemon(p, child)
        \/ DaemonFails(p) \/ ParentExits(p)
        \/ Truncate(p) \/ Reopen(p) \/ PutPid(p)
        \/ Return(p) \/ Unlock(p) \/ Unlink(p)
        \/ Killed(p)

Next == Collector \/ \E p \in Procs, daemonize \in BOOLEAN : Start(p, daemonize)

Spec == Init /\ [][Next]_vars

-----------------------------------------------------------------------------

KernelOK ==
    /\ m_fd \in [Procs -> 0..files] /\ pidf \in [Procs -> 0..files]
    /\ path \in 0..files /\ files \in 0..MaxFiles
    /\ content \in [Files -> Procs \union {None}]
    /\ lock \in [Files -> Procs \union {None}]

TypeOK ==
    /\ pc \in [Procs -> {"unborn", "aquire", "lock", "connect", "daemon",
                         "forked", "truncate", "reopen", "put", "run", "unlock",
                         "unlink", "gone", "killed"}]
    /\ KernelOK
    /\ \A p \in Procs : /\ pidf[p] # 0 <=> pc[p] = "put"
                        /\ m_fd[p] # 0 => pc[p] \notin {"unborn", "aquire", "unlink", "killed"}

(* The processes that a file may be left behind for: those that have it    *)
(* still to remove, and those that were killed before they could.          *)
Unfinished == {p \in Procs : pc[p] \notin {"unborn", "gone"}}

(* When every process has come to its end and none was killed there is no  *)
(* pidfile, whoever removed or made whose (PidFile.cpp:42-50, 82).         *)
NothingLeft == Unfinished = {} => path = 0

(* A pid that can be read in the pidfile is not that of a process that has *)
(* ended in an orderly way (PidFile.cpp:42-50, 72-83).                     *)
NamesNobodyGone ==
    path # 0 /\ content[path] # None => content[path] \in Unfinished

(* Up to its fork an instance is alone with its file: another one can get  *)
(* as far only with a file made after this one's was removed               *)
(* (PidFile.cpp:63-69, main.cpp:61-63, 76).                                *)
AloneUntilForked ==
    \A p, q \in Procs :
        p # q /\ {pc[p], pc[q]} \subseteq {"connect", "daemon", "forked"} =>
            m_fd[p] # m_fd[q] \/ m_fd[p] = 0

(* "pidfile has been opened and locked": a destructor that goes to work    *)
(* runs in the process that holds the lock.                                *)
DestroyedLocked ==
    \A p \in Procs : pc[p] = "unlock" => lock[m_fd[p]] = p
=============================================================================
