-------------------------- MODULE ForwarderPidFile --------------------------
(***************************************************************************)
(* The pidfile of the forwarder: its main before and after the loop around *)
(* event_loop, and the script that stops it.  Files, paths and processes   *)
(* are those of PidFile, and so is what is expected of a pidfile; which of *)
(* the programs a path belongs to is chosen at the start.                  *)
(*                                                                         *)
(* This lock, flock's, belongs to an open file.  A child shares it with    *)
(* its parent, and as the parent of a daemon ends at once lock names the   *)
(* child from the fork on.                                                 *)
(***************************************************************************)
EXTENDS PidFile

VARIABLES
    program,  \* the program that uses the path
    script,   \* where stop() of the init script is
    victim,   \* the pid it has read, or None
    unlocked  \* history: a forwarder went on without the lock

scriptVars == <<script, victim>>

ForwarderInit ==
    /\ Init
    /\ program \in {"collector", "forwarder"}
    /\ script = "idle" /\ victim = None /\ unlocked = FALSE

(* The pidfile is opened, if there is one to be opened and it can be.      *)
OpenPidFile(p) ==
    /\ \/ /\ Goto(p, "unborn", "flock")
          /\ OpenOrCreate
          /\ m_fd' = [m_fd EXCEPT ![p] = path']
       \/ /\ Goto(p, "unborn", "bare")
          /\ UNCHANGED <<m_fd, path, files>>
    /\ UNCHANGED <<pidf, content, lock, unlocked>>

(* Mutant: an instance that finds the file locked goes on.                 *)
FlockUnchecked(p) ==
    /\ Goto(p, "flock", "fork")
    /\ lock' = [lock EXCEPT ![m_fd[p]] = IF @ = None THEN p ELSE @]
    /\ UNCHANGED <<m_fd, pidf, path, files, content, unlocked>>

(* It is locked; or another instance has it locked and this one ends; or   *)
(* it cannot be locked at all, and this one goes on.                       *)
Flock(p) ==
    /\ \/ /\ Goto(p, "flock", "fork")
          /\ lock[m_fd[p]] = None
          /\ lock' = [lock EXCEPT ![m_fd[p]] = p]
          /\ UNCHANGED <<m_fd, unlocked>>
       \/ /\ Goto(p, "flock", "gone")
          /\ lock[m_fd[p]] # None
          /\ m_fd' = [m_fd EXCEPT ![p] = 0]
          /\ UNCHANGED <<lock, unlocked>>
       \/ /\ Goto(p, "flock", "fork")
          /\ unlocked' = TRUE
          /\ UNCHANGED <<m_fd, lock>>
    /\ UNCHANGED <<pidf, path, files, content>>

(* daemon() leaves the parent behind; in the foreground, and when daemon() *)
(* fails, which is only reported, the process itself goes on.              *)
Daemonize(p, child) ==
    /\ pc[p] = "fork" /\ pc[child] = "unborn"
    /\ pc' = [pc EXCEPT ![p] = "gone", ![child] = "ftruncate"]
    /\ m_fd' = [m_fd EXCEPT ![p] = 0, ![child] = m_fd[p]]
    /\ lock' = [f \in Files |-> IF lock[f] = p THEN child ELSE lock[f]]
    /\ UNCHANGED <<pidf, path, files, content, unlocked>>

StayInForeground(p) ==
    /\ Goto(p, "fork", "ftruncate")
    /\ UNCHANGED <<m_fd, pidf, path, files, content, lock, unlocked>>

Ftruncate(p) ==
    /\ Goto(p, "ftruncate", "dprintf")
    /\ content' = [content EXCEPT ![m_fd[p]] = None]
    /\ UNCHANGED <<m_fd, pidf, path, files, lock, unlocked>>

(* The pid, at the beginning of the file.                                  *)
Dprintf(p) ==
    /\ Goto(p, "dprintf", "funlock")
    /\ \E pid \in Pids(p, m_fd[p]) : content' = [content EXCEPT ![m_fd[p]] = pid]
    /\ UNCHANGED <<m_fd, pidf, path, files, lock, unlocked>>

(* The lock goes as soon as the pid is written.                            *)
Funlock(p) ==
    /\ Goto(p, "funlock", "run")
    /\ lock' = LocksWithout(p)
    /\ m_fd' = [m_fd EXCEPT ![p] = 0]
    /\ UNCHANGED <<pidf, path, files, content, unlocked>>

(* The loop of main is left; the path goes if there was a pidfile.         *)
LeaveLoop(p) ==
    /\ Goto(p, "run", "unlink") \/ Goto(p, "bare", "gone")
    /\ UNCHANGED <<m_fd, pidf, path, files, content, lock, unlocked>>

Forwarder ==
    \E p \in Procs :
        \/ OpenPidFile(p) \/ Flock(p)
        \/ \E child \in Procs : Daemonize(p, child)
        \/ StayInForeground(p)
        \/ Ftruncate(p) \/ Dprintf(p) \/ Funlock(p)
        \/ LeaveLoop(p)
        \/ (Unlink(p) \/ Killed(p)) /\ UNCHANGED unlocked

(* stop(): it looks for the pidfile and reads it, kills whoever it names,  *)
(* and removes what is there by then.                                      *)
StopReads ==
    /\ script = "idle" /\ path # 0
    /\ script' = "kill" /\ victim' = content[path]
    /\ UNCHANGED vars

StopKills ==
    /\ script = "kill"
    /\ script' = "rm" /\ victim' = None
    /\ \/ victim # None /\ Killed(victim)
       \/ /\ victim # None => pc[victim] \in {"gone", "killed"}
          /\ UNCHANGED vars

StopRemoves ==
    /\ script = "rm"
    /\ script' = "idle"
    /\ path' = 0
    /\ UNCHANGED <<victim, pc, m_fd, pidf, files, content, lock>>

Stop == StopReads \/ StopKills \/ StopRemoves

-----------------------------------------------------------------------------

ForwarderTypeOK ==
    /\ pc \in [Procs -> {"unborn", "flock", "fork", "ftruncate", "dprintf",
                         "funlock", "run", "bare", "unlink", "gone", "killed"}]
    /\ KernelOK
    /\ script \in {"idle", "kill", "rm"} /\ unlocked \in BOOLEAN
    /\ victim \in Procs \union {None}
    /\ \A p \in Procs : m_fd[p] # 0 <=>
           pc[p] \in {"flock", "fork", "ftruncate", "dprintf", "funlock"}

(* A forwarder writes its pidfile undisturbed: from the fork to the        *)
(* unlocking nobody else writes to that file or takes it for its own,      *)
(* unless somebody could not lock it and went on all the same              *)
(* (forwarder.c:408-418, 427-434).                                         *)
WritesUndisturbed ==
    ~unlocked =>
        \A p \in Procs :
            /\ pc[p] = "dprintf" => content[m_fd[p]] = None
            /\ pc[p] = "funlock" => content[m_fd[p]] = p
=============================================================================
