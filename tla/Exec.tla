-------------------------------- MODULE Exec --------------------------------
(***************************************************************************)
(* A command in a running container: the daemon forks a relay, which joins *)
(* the container's cgroup by its path, opens the root of process 1 by its  *)
(* pid, enters its namespaces by its pidfd, and forks the command there.   *)
(* Meanwhile the container may end and start again under the same id, and  *)
(* the kernel may give its pid to another process.                         *)
(***************************************************************************)
EXTENDS Naturals

CONSTANTS MaxLives, None   \* bound on the starts of the container

VARIABLES
    life,    \* the start of the container that is current
    alive,   \* its process 1 runs
    reaped,  \* the daemon has waited for it
    cgroup,  \* the cgroup's directory is there
    reused,  \* starts whose pid has gone to another process
    relay,   \* where the relay is, for which start, and the root it opened
    worker   \* the command that runs: the start it was meant for, its root and cgroup

vars == <<life, alive, reaped, cgroup, reused, relay, worker>>
container == <<life, alive, reaped, cgroup, reused>>

NoRelay == [at |-> "none"]
NoWorker == [of |-> None]
Of == relay.of
Lives == 1..MaxLives

\* setns and fork need the process 1 for which the daemon holds the pidfd.
Reachable == Of = life /\ alive

Goto(at) == relay' = [relay EXCEPT !.at = at] /\ UNCHANGED <<container, worker>>
\* fail: an exit status of 126, which the daemon passes on.
fail == relay' = [relay EXCEPT !.at = "exit"] /\ UNCHANGED <<container, worker>>

-----------------------------------------------------------------------------
(* op_exec, relay and worker                                               *)

spawn_exec ==
    /\ relay = NoRelay /\ worker = NoWorker /\ ~reaped   \* one command at a time
    /\ relay' = [at |-> "join", of |-> life, joined |-> None, root |-> None]
    /\ UNCHANGED <<container, worker>>

Join ==
    /\ relay.at = "join"
    /\ IF cgroup
         THEN /\ relay' = [relay EXCEPT !.at = "root", !.joined = life]
              /\ UNCHANGED <<container, worker>>
         ELSE fail

\* /proc/<pid>/root of whichever process has the pid now.
OpenRoot ==
    /\ relay.at = "root"
    /\ IF Of \in reused
         THEN relay' = [relay EXCEPT !.at = "setns", !.root = None] /\ UNCHANGED <<container, worker>>
         ELSE IF Reachable
         THEN relay' = [relay EXCEPT !.at = "setns", !.root = Of] /\ UNCHANGED <<container, worker>>
         ELSE fail

setns == relay.at = "setns" /\ IF Reachable THEN Goto("fork") ELSE fail

Command == [of |-> Of, root |-> relay.root, joined |-> relay.joined]

\* Mutant: the command is forked although process 1 is gone.
MutFork ==
    /\ relay.at = "fork"
    /\ relay' = [relay EXCEPT !.at = "wait"] /\ worker' = Command
    /\ UNCHANGED container

\* fchdir, chroot and the second clone: a pid namespace without process 1 has no more
\* processes.  The command may not be there to execute: 127.
Fork ==
    /\ relay.at = "fork"
    /\ IF Reachable
         THEN /\ relay' = [relay EXCEPT !.at = "wait"] /\ worker' = Command
              /\ UNCHANGED container
         ELSE fail

WorkerExits ==
    /\ worker # NoWorker /\ worker' = NoWorker
    /\ UNCHANGED <<container, relay>>

\* waitpid, and the status of the command is the relay's.
Wait == relay.at = "wait" /\ worker = NoWorker /\ Goto("exit")

\* on_timer, for a command (or a probe) past its deadline: SIGKILL to the process the
\* daemon holds a pidfd of, which is the relay.  The command is another process.
ExecTimeout == relay.at \notin {"none", "exit"} /\ Goto("exit")

\* on_pidfd: the client gets the status.
ExecExit ==
    /\ relay.at = "exit" /\ relay' = NoRelay
    /\ UNCHANGED <<container, worker>>

-----------------------------------------------------------------------------
(* The container                                                           *)

\* Process 1 ends, and with it every process in its pid namespace.
InitExits ==
    /\ alive /\ alive' = FALSE
    /\ worker' = IF worker.of = life THEN NoWorker ELSE worker
    /\ UNCHANGED <<life, reaped, cgroup, reused, relay>>

\* on_exit waits for process 1, kills what is in the cgroup and removes it; a
\* relay that joined is killed.
OnExit ==
    /\ ~alive /\ ~reaped /\ reaped' = TRUE /\ cgroup' = FALSE
    /\ relay' = IF relay # NoRelay /\ relay.joined = life THEN [relay EXCEPT !.at = "exit"] ELSE relay
    /\ worker' = IF worker # NoWorker /\ worker.joined = life THEN NoWorker ELSE worker
    /\ UNCHANGED <<life, alive, reused>>

\* Relaunch, or a start by a user.
Launch ==
    /\ reaped /\ life < MaxLives
    /\ life' = life + 1 /\ alive' = TRUE /\ reaped' = FALSE /\ cgroup' = TRUE
    /\ UNCHANGED <<reused, relay, worker>>

PidReused(k) ==
    /\ k \notin reused /\ (k < life \/ (k = life /\ reaped))
    /\ reused' = reused \cup {k}
    /\ UNCHANGED <<life, alive, reaped, cgroup, relay, worker>>

-----------------------------------------------------------------------------

Init ==
    /\ life = 1 /\ alive = TRUE /\ reaped = FALSE /\ cgroup = TRUE /\ reused = {}
    /\ relay = NoRelay /\ worker = NoWorker

Next ==
    \/ spawn_exec \/ Join \/ OpenRoot \/ setns \/ Fork \/ Wait \/ ExecTimeout \/ ExecExit
    \/ WorkerExits \/ InitExits \/ OnExit \/ Launch
    \/ \E k \in Lives : PidReused(k)

Spec == Init /\ [][Next]_vars

-----------------------------------------------------------------------------
(* Correctness.                                                            *)

\* A command runs only in the container that the daemon meant, with that start's
\* root and in its namespaces, although the relay opened the root by a pid that may
\* by then belong to another process, and joined a cgroup by its path.
ExecInside ==
    worker # NoWorker =>
        /\ worker.root = worker.of /\ worker.joined = worker.of
        /\ worker.of = life /\ alive
=============================================================================
