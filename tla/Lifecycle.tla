------------------------------ MODULE Lifecycle ------------------------------
(***************************************************************************)
(* The container lifecycle of collocated: the event loop of daemon.rs over *)
(* the node store, the container cgroups and the init processes.           *)
(*                                                                         *)
(* The daemon is one thread, so a handler runs to its end before the next  *)
(* one; what interleaves is the handlers, the kernel (a process dies, a    *)
(* kill takes its time), the timers and a crash of the daemon, which may   *)
(* strike between any two writes of a handler.  A handler is therefore an  *)
(* operator on a world w = [h |-> host, m |-> mem]: `host' is what outlives *)
(* the daemon (spec.json, run directories, cgroups, processes) and `mem'   *)
(* what a crash loses (the fields of struct Daemon and the connections).   *)
(*                                                                         *)
(* Time is abstracted: any pending timer may be the next one to be due,    *)
(* except that the kill of a stop never precedes its signal.               *)
(***************************************************************************)
EXTENDS Naturals, FiniteSets

CONSTANTS
    Ids,          \* container ids
    Conns,        \* client connections
    Persistent,   \* ids whose spec is persistent
    IdleLimited,  \* ids whose spec has an idle_timeout_secs
    Policy,       \* restart policy of each id: "no", "always", "on-failure"
    MaxRetries,   \* the max of OnFailure { max }; 0 is unlimited
    MaxAttempts,  \* bound: the restart counter saturates here
    MaxTasks      \* bound: equal timers pending for one id

ASSUME SpecAssumption ==
    /\ Persistent \subseteq Ids
    /\ IdleLimited \subseteq Ids
    /\ Policy \in [Ids -> {"no", "always", "on-failure"}]

ASSUME BoundAssumption ==
    /\ MaxRetries \in Nat
    /\ MaxAttempts \in Nat
    /\ MaxAttempts > MaxRetries
    /\ MaxTasks \in Nat \ {0}

VARIABLES
    up,         \* the daemon is running
    host,       \* files, cgroups and processes: survive the daemon
    mem,        \* the daemon's memory and its connections
    acked,      \* ghost: ids whose last client order was a stop answered Ok
    abandoned   \* ghost: ids whose relaunch or adoption failed (only logged)

vars == <<up, host, mem, acked, abandoned>>

-----------------------------------------------------------------------------
(* Types and initial values.                                               *)

TaskKinds == {"Relaunch", "RemoveExited", "ReapIdle", "StaleReapIdle"}

\* Exit statuses: zero, non-zero, and the -1 of an unknown one.
Codes == {"zero", "nonzero"}
Statuses == Codes \cup {"unknown", "none"}

\* What a connection waits for.
NoReq == [kind |-> "none"]
Parked == [kind : {"Wait", "Stop", "Exec"}, id : Ids, closed : BOOLEAN]

\* struct Live; the entry of an id that is not live is Blank.
Entry == [child : BOOLEAN, stop_requested : BOOLEAN, signal_at : BOOLEAN,
          kill_at : BOOLEAN, waiters : SUBSET Conns]
Blank == [child |-> FALSE, stop_requested |-> FALSE, signal_at |-> FALSE,
          kill_at |-> FALSE, waiters |-> {}]

\* exit: exit_status of spec.json; dirs: the run directories of a launch;
\* cgroup: the container's cgroup exists; procs: init processes in it;
\* status: what wait() will return for a dead init; killed: SIGKILL is on its way.
HostType == [stored : SUBSET Ids, exit : [Ids -> Statuses], dirs : SUBSET Ids,
             cgroup : SUBSET Ids, procs : [Ids -> 0..2],
             status : [Ids -> Statuses], killed : SUBSET Ids]

MemType == [live : SUBSET Ids, entry : [Ids -> Entry],
            schedule : [TaskKinds \X Ids -> 0..MaxTasks],
            restarts : [Ids -> 0..MaxAttempts], user_stopped : SUBSET Ids,
            req : [Conns -> Parked \cup {NoReq}]]

HostInit == [stored |-> {}, exit |-> [i \in Ids |-> "none"], dirs |-> {},
             cgroup |-> {}, procs |-> [i \in Ids |-> 0],
             status |-> [i \in Ids |-> "none"], killed |-> {}]

MemInit == [live |-> {}, entry |-> [i \in Ids |-> Blank],
            schedule |-> [t \in TaskKinds \X Ids |-> 0],
            restarts |-> [i \in Ids |-> 0], user_stopped |-> {},
            req |-> [c \in Conns |-> NoReq]]

World == [h |-> host, m |-> mem]

-----------------------------------------------------------------------------
(* Timers.                                                                 *)

Add(m, kind, id) ==
    [m EXCEPT !.schedule[<<kind, id>>] = IF @ < MaxTasks THEN @ + 1 ELSE @]

Remove(m, kind, id) == [m EXCEPT !.schedule[<<kind, id>>] = @ - 1]

Due(kind, id) == mem.schedule[<<kind, id>>] > 0

\* A reap timer set before the last activity is stale: it is due too early to
\* find the container idle, unless a late tick finds both timers due.
schedule_idle_reap(m, id) ==
    IF id \in IdleLimited
    THEN [m EXCEPT !.schedule =
            [t \in TaskKinds \X Ids |->
                CASE t = <<"ReapIdle", id>> -> 1
                  [] t = <<"StaleReapIdle", id>> ->
                        LET n == @[t] + @[<<"ReapIdle", id>>]
                        IN  IF n < MaxTasks THEN n ELSE MaxTasks
                  [] OTHER -> @[t]]]
    ELSE m

-----------------------------------------------------------------------------
(* Host effects, in the order in which the handlers make them.             *)

SetExit(h, id, code) == [h EXCEPT !.exit[id] = code]
remove_runtime_dirs(h, id) == [h EXCEPT !.dirs = @ \ {id}]
StoreRemove(h, id) == [h EXCEPT !.stored = @ \ {id}, !.exit[id] = "none"]

KillCgroup(h, id) ==
    IF id \in h.cgroup /\ h.procs[id] > 0 THEN [h EXCEPT !.killed = @ \cup {id}] ELSE h

\* CgroupTree::kill then ::remove, which retries for a second while the cgroup
\* is busy: the killed processes are gone by then, or the directory stays.
KillAndRemove(h, id) ==
    {[h EXCEPT !.procs[id] = IF id \in h.cgroup THEN 0 ELSE @,
               !.killed = @ \ {id}, !.cgroup = @ \ {id}]}
    \cup (IF id \in h.cgroup /\ h.procs[id] > 0 THEN {KillCgroup(h, id)} ELSE {})

cleanup_runtime(h, id) == {remove_runtime_dirs(g, id) : g \in KillAndRemove(h, id)}

-----------------------------------------------------------------------------
(* launch: run directories, cgroup, process, cleared exit status.          *)

WithDirs(h, id)   == [h EXCEPT !.dirs = @ \cup {id}]
WithCgroup(h, id) == [WithDirs(h, id) EXCEPT !.cgroup = @ \cup {id}]
WithInit(h, id)   == [WithCgroup(h, id) EXCEPT !.procs[id] = IF @ < 2 THEN @ + 1 ELSE @,
                                               !.status[id] = "none",
                                               !.killed = @ \ {id}]
Launched(h, id)   == SetExit(WithInit(h, id), id, "none")

\* Mutant: create_dir_all, which accepts a cgroup that is already there.
MutCanCreate(h, id) == id \in Ids

\* CgroupTree::create makes the directory with create_dir, so it fails when a
\* cgroup of that name is left over from an earlier run.
CanCreate(h, id) == id \notin h.cgroup

\* Where the host stands when a launch is cut short: by an error return before
\* spawn() (a missing layer or secret, no address, a limit the kernel refuses),
\* by the failure to watch the started process, or by a crash.
LaunchCut(h, id) ==
    {h, WithDirs(h, id)}
        \cup (IF CanCreate(h, id) THEN {WithCgroup(h, id), WithInit(h, id)} ELSE {})

\* A failed spawn() or confirm() is followed by cleanup_runtime.
LaunchUndone(h, id) ==
    IF CanCreate(h, id) THEN cleanup_runtime(WithCgroup(h, id), id) ELSE {}

LaunchFails(w, id) ==
    {[w EXCEPT !.h = g] : g \in LaunchCut(w.h, id) \cup LaunchUndone(w.h, id)}

LaunchSucceeds(w, id) ==
    IF CanCreate(w.h, id)
    THEN {[h |-> Launched(w.h, id),
           m |-> schedule_idle_reap(
                    [w.m EXCEPT !.live = @ \cup {id},
                                !.entry[id] = [Blank EXCEPT !.child = TRUE]], id)]}
    ELSE {}

-----------------------------------------------------------------------------
(* The end of a container.                                                 *)

should_restart(id, code, attempts, stopped) ==
    /\ ~stopped
    /\ \/ Policy[id] = "always"
       \/ /\ Policy[id] = "on-failure"
          /\ code # "zero"
          /\ MaxRetries = 0 \/ attempts < MaxRetries

\* Every waiter of the container is answered, whether its client still listens.
Answer(m, conns) == [m EXCEPT !.req = [c \in Conns |-> IF c \in conns THEN NoReq ELSE @[c]]]

\* on_exit's memory effects; `long' is a run of more than ten seconds, which
\* forgets the earlier restarts.
ExitMem(m, id, code, long) ==
    LET attempts == IF long THEN 0 ELSE m.restarts[id]
        restart  == should_restart(id, code, attempts, id \in m.user_stopped)
        gone     == [Answer(m, m.entry[id].waiters)
                        EXCEPT !.live = @ \ {id}, !.entry[id] = Blank,
                               !.user_stopped = @ \ {id}, !.restarts[id] = attempts]
    IN  IF restart
        THEN Add([gone EXCEPT !.restarts[id] = IF attempts < MaxAttempts THEN attempts + 1
                                                                         ELSE attempts],
                 "Relaunch", id)
        ELSE IF id \notin Persistent THEN Add(gone, "RemoveExited", id) ELSE gone

on_exit(w, id, code) ==
    {[h |-> g, m |-> ExitMem(w.m, id, code, long)] :
        g \in cleanup_runtime(SetExit(w.h, id, code), id), long \in BOOLEAN}

\* Collecting a killed container: a child is waited for, up to five seconds; a
\* process that is not a child cannot be waited for and is given up at once.
reap_blocking(w, id) ==
    LET dead == [w.h EXCEPT !.procs[id] = 0, !.killed = @ \ {id}]
    IN  IF ~w.m.entry[id].child THEN on_exit(w, id, "unknown")
        ELSE IF w.h.procs[id] = 0 THEN on_exit(w, id, w.h.status[id])
        ELSE on_exit([w EXCEPT !.h = dead], id, "nonzero") \cup on_exit(w, id, "unknown")

purge(w, id) == [w EXCEPT !.h = remove_runtime_dirs(StoreRemove(@, id), id)]

\* Killed, collected and purged: Rm with force, and the idle reaper.
KillAndPurge(w, id) ==
    IF id \in w.m.live
    THEN {purge(v, id) : v \in reap_blocking([w EXCEPT !.h = KillCgroup(@, id)], id)}
    ELSE {purge(w, id)}

-----------------------------------------------------------------------------
(* Requests.                                                               *)

Become(w) == host' = w.h /\ mem' = w.m

\* Ids are random: a new container has one with no trace in the daemon or on
\* the host.
Fresh(id) ==
    /\ id \notin host.stored \cup host.dirs \cup host.cgroup \cup mem.live
    /\ host.procs[id] = 0
    /\ \A kind \in TaskKinds : mem.schedule[<<kind, id>>] = 0

Created(id) == [h |-> [host EXCEPT !.stored = @ \cup {id}],
                m |-> [mem EXCEPT !.restarts[id] = 0]]

\* op_run: a container whose launch fails is purged.
Run(id) ==
    /\ up /\ Fresh(id)
    /\ \E w \in LaunchSucceeds(Created(id), id)
              \cup {purge(v, id) : v \in LaunchFails(Created(id), id)} : Become(w)
    /\ acked' = acked \ {id}
    /\ abandoned' = abandoned \ {id}
    /\ UNCHANGED up

Stopped(id) == up /\ id \in host.stored /\ id \notin mem.live

Start(id) ==
    /\ Stopped(id)
    /\ LET w == [World EXCEPT !.m.user_stopped = @ \ {id}]
       IN  \E v \in LaunchSucceeds(w, id) \cup LaunchFails(w, id) : Become(v)
    /\ acked' = acked \ {id}
    /\ UNCHANGED <<up, abandoned>>

\* Request::Restart of a container that is not live.
Restart(id) ==
    /\ Stopped(id)
    /\ \E v \in LaunchSucceeds(World, id) \cup LaunchFails(World, id) : Become(v)
    /\ acked' = acked \ {id}
    /\ UNCHANGED <<up, abandoned>>

Park(m, c, kind, id) == [m EXCEPT !.req[c] = [kind |-> kind, id |-> id, closed |-> FALSE]]

\* Mutant: a later stop takes the place of the clients that wait already.
MutStopLiveWaiters(c, id) ==
    /\ up /\ id \in host.stored \cap mem.live /\ mem.req[c] = NoReq
    /\ mem' = Park([mem EXCEPT !.entry[id] = [@ EXCEPT !.waiters = {c},
                                  !.stop_requested = TRUE, !.signal_at = TRUE, !.kill_at = TRUE],
                               !.user_stopped = @ \cup {id}], c, "Stop", id)
    /\ acked' = acked \ {id}
    /\ UNCHANGED <<up, host, abandoned>>

\* Mutant: the stop sets no kill after the grace period.
MutStopLiveGrace(c, id) ==
    /\ up /\ id \in host.stored \cap mem.live /\ mem.req[c] = NoReq
    /\ mem' = Park([mem EXCEPT !.entry[id] = [@ EXCEPT !.waiters = @ \cup {c},
                                  !.stop_requested = TRUE, !.signal_at = TRUE],
                               !.user_stopped = @ \cup {id}], c, "Stop", id)
    /\ acked' = acked \ {id}
    /\ UNCHANGED <<up, host, abandoned>>

\* op_stop of a live container: the answer waits for the exit; the first stop
\* sets the two timers.
StopLive(c, id) ==
    /\ up /\ id \in host.stored \cap mem.live /\ mem.req[c] = NoReq
    /\ LET e == mem.entry[id]
           m == Park([mem EXCEPT !.entry[id].waiters = @ \cup {c}], c, "Stop", id)
       IN  mem' = IF e.stop_requested THEN m
                  ELSE [m EXCEPT !.entry[id] = [@ EXCEPT !.stop_requested = TRUE,
                                                         !.signal_at = TRUE,
                                                         !.kill_at = TRUE],
                                 !.user_stopped = @ \cup {id}]
    /\ acked' = acked \ {id}
    /\ UNCHANGED <<up, host, abandoned>>

\* op_stop of a container that is not live: answered Ok, and nothing else.
StopNotLive(id) ==
    /\ Stopped(id)
    /\ acked' = acked \cup {id}
    /\ UNCHANGED <<up, host, mem, abandoned>>

Wait(c, id) ==
    /\ up /\ id \in host.stored \cap mem.live /\ mem.req[c] = NoReq
    /\ mem' = Park([mem EXCEPT !.entry[id].waiters = @ \cup {c}], c, "Wait", id)
    /\ UNCHANGED <<up, host, acked, abandoned>>

\* Request::Kill with SIGKILL; any other signal leaves the daemon as it is.
Kill(id) ==
    /\ up /\ id \in host.stored \cap mem.live
    /\ host' = KillCgroup(host, id)
    /\ UNCHANGED <<up, mem, acked, abandoned>>

Rm(id, force) ==
    /\ up /\ id \in host.stored
    /\ id \in mem.live => force
    /\ \E w \in KillAndPurge(World, id) : Become(w)
    /\ UNCHANGED <<up, acked, abandoned>>

\* op_exec: the exec counts as activity and sets a new reap timer.
Exec(c, id) ==
    /\ up /\ id \in host.stored \cap mem.live /\ mem.req[c] = NoReq
    /\ mem' = schedule_idle_reap(Park(mem, c, "Exec", id), id)
    /\ UNCHANGED <<up, host, acked, abandoned>>

\* on_conn of a connection its client closed: kept while an answer is due.
CloseConn(c) ==
    /\ up /\ mem.req[c] # NoReq /\ ~mem.req[c].closed
    /\ mem' = [mem EXCEPT !.req[c].closed = TRUE]
    /\ UNCHANGED <<up, host, acked, abandoned>>

-----------------------------------------------------------------------------
(* Events: processes, timers.                                              *)

\* A client's stop is answered by the exit of the container.
StopAnswered(id) == \E c \in mem.entry[id].waiters : mem.req[c].kind = "Stop"

\* on_pidfd of a live container's init: its status, or the unknown one when the
\* daemon is not its parent.
OnPidfd(id) ==
    /\ up /\ id \in mem.live /\ host.procs[id] = 0
    /\ LET code == IF mem.entry[id].child THEN host.status[id] ELSE "unknown"
       IN  \E w \in on_exit(World, id, code) : Become(w)
    /\ acked' = IF StopAnswered(id) THEN acked \cup {id} ELSE acked
    /\ UNCHANGED <<up, abandoned>>

\* on_pidfd of an exec: it ended, was killed at its deadline or with its container.
ExecExit(c) ==
    /\ up /\ mem.req[c].kind = "Exec"
    /\ mem' = Answer(mem, {c})
    /\ UNCHANGED <<up, host, acked, abandoned>>

\* Task::Relaunch: a failed launch is only logged.
TimerRelaunch(id) ==
    /\ up /\ Due("Relaunch", id)
    /\ LET w == [World EXCEPT !.m = Remove(@, "Relaunch", id)]
       IN  \/ /\ id \in host.stored \ mem.live
              /\ \E v \in LaunchSucceeds(w, id) : Become(v)
              /\ UNCHANGED abandoned
           \/ /\ id \in host.stored \ mem.live
              /\ \E v \in LaunchFails(w, id) : Become(v)
              /\ abandoned' = abandoned \cup {id}
           \/ /\ id \notin host.stored \ mem.live
              /\ Become(w)
              /\ UNCHANGED abandoned
    /\ UNCHANGED <<up, acked>>

\* Mutant: whether the container runs again by now is not looked at.
MutRemoveExitedLive(id) ==
    /\ up /\ Due("RemoveExited", id)
    /\ LET w == [World EXCEPT !.m = Remove(@, "RemoveExited", id)]
       IN  Become(IF id \in host.stored \ Persistent THEN purge(w, id) ELSE w)
    /\ UNCHANGED <<up, acked, abandoned>>

\* Mutant: the persistent containers are removed instead of the others.
MutRemoveExitedKind(id) ==
    /\ up /\ Due("RemoveExited", id)
    /\ LET w == [World EXCEPT !.m = Remove(@, "RemoveExited", id)]
       IN  Become(IF id \in (host.stored \ mem.live) \cap Persistent THEN purge(w, id) ELSE w)
    /\ UNCHANGED <<up, acked, abandoned>>

\* Task::RemoveExited, set EXITED_GRACE earlier.
TimerRemoveExited(id) ==
    /\ up /\ Due("RemoveExited", id)
    /\ LET w == [World EXCEPT !.m = Remove(@, "RemoveExited", id)]
       IN  Become(IF id \in (host.stored \ mem.live) \ Persistent THEN purge(w, id) ELSE w)
    /\ UNCHANGED <<up, acked, abandoned>>

\* Task::ReapIdle: the newest timer finds the container idle; an older one
\* does so only when a late tick finds both due.
TimerReapIdle(id) ==
    /\ up
    /\ \E kind \in {"ReapIdle", "StaleReapIdle"} :
         /\ Due(kind, id)
         /\ LET w == [World EXCEPT !.m = Remove(@, kind, id)]
            IN  \/ /\ id \in mem.live
                   /\ \E v \in KillAndPurge(w, id) : Become(v)
                \/ /\ id \notin mem.live \/ kind = "StaleReapIdle"
                   /\ Become(w)
    /\ UNCHANGED <<up, acked, abandoned>>

\* The stop signal of a live container: its process may die of it (ProcDies).
TimerSignal(id) ==
    /\ up /\ id \in mem.live /\ mem.entry[id].signal_at
    /\ mem' = [mem EXCEPT !.entry[id].signal_at = FALSE]
    /\ UNCHANGED <<up, host, acked, abandoned>>

TimerKill(id) ==
    /\ up /\ id \in mem.live /\ mem.entry[id].kill_at /\ ~mem.entry[id].signal_at
    /\ mem' = [mem EXCEPT !.entry[id].kill_at = FALSE]
    /\ host' = KillCgroup(host, id)
    /\ UNCHANGED <<up, acked, abandoned>>

\* The kernel: an init ends by itself or of a signal, all its descendants with it.
ProcDies(id) ==
    /\ host.procs[id] > 0
    /\ \E code \in Codes :
         host' = [host EXCEPT !.procs[id] = @ - 1, !.status[id] = code, !.killed = @ \ {id}]
    /\ UNCHANGED <<up, mem, acked, abandoned>>

-----------------------------------------------------------------------------
(* Crashes and the start of the daemon.                                    *)

Down(h) == up' = FALSE /\ host' = h /\ mem' = MemInit

\* Between two handlers: a crash, or a shutdown.
Crash == up /\ Down(host) /\ UNCHANGED <<acked, abandoned>>

CrashInLaunch(id) ==
    /\ up
    /\ Fresh(id) \/ Stopped(id)
    /\ LET h == [host EXCEPT !.stored = @ \cup {id}]
       IN  \E g \in LaunchCut(h, id) : Down(g)
    /\ acked' = acked \ {id}
    /\ UNCHANGED abandoned

CrashInExit(id) ==
    /\ up /\ id \in mem.live /\ host.procs[id] = 0
    /\ LET h == SetExit(host, id, IF mem.entry[id].child THEN host.status[id] ELSE "unknown")
       IN  \E g \in {h} \cup KillAndRemove(h, id) \cup cleanup_runtime(h, id) : Down(g)
    /\ UNCHANGED <<acked, abandoned>>

CrashInPurge(id) ==
    /\ Stopped(id)
    /\ Down(StoreRemove(host, id))
    /\ UNCHANGED <<acked, abandoned>>

\* The host restarts: the run directory is a tmpfs and holds the ephemeral specs.
Reboot ==
    /\ Down([HostInit EXCEPT !.stored = host.stored \cap Persistent,
                             !.exit = [i \in Ids |-> IF i \in host.stored \cap Persistent
                                                     THEN host.exit[i] ELSE "none"]])
    /\ UNCHANGED <<acked, abandoned>>

\* reconcile::plan and Daemon::reconcile.  A stored container with a populated
\* cgroup is adopted, unless its process dies first (`vanished'); the spec of
\* any other ephemeral one is removed, the cgroups and run directories of all
\* others too.  A killed cgroup of an unknown id may stay busy (`busy').
Adoptable(h) == {i \in h.stored \cap h.cgroup : h.procs[i] > 0}
Unknown(h)   == {i \in h.cgroup \ h.stored : h.procs[i] > 0}

\* Mutant: the cgroups of unknown containers are left alone.
MutReconciled(h, vanished, busy) ==
    LET known == Adoptable(h)
        left  == h.stored \cap (Persistent \cup known)
    IN  [h EXCEPT !.stored = left,
                  !.exit = [i \in Ids |-> IF i \in left THEN @[i] ELSE "none"],
                  !.dirs = @ \cap known]

\* Mutant: whatever does not run is removed, the persistent containers too.
MutReconciledKind(h, vanished, busy) ==
    LET known == Adoptable(h)
    IN  [h EXCEPT !.stored = @ \cap known,
                  !.exit = [i \in Ids |-> IF i \in known THEN @[i] ELSE "none"],
                  !.dirs = @ \cap known,
                  !.cgroup = @ \cap (known \cup busy),
                  !.procs = [i \in Ids |-> IF i \in known \ vanished THEN @[i] ELSE 0],
                  !.killed = (@ \cap known) \cup busy]

Reconciled(h, vanished, busy) ==
    LET known == Adoptable(h)
        dead  == vanished \cup ((Ids \ known) \ busy)
        left  == h.stored \cap (Persistent \cup known)
    IN  [h EXCEPT !.stored = left,
                  !.exit = [i \in Ids |-> IF i \in left THEN @[i] ELSE "none"],
                  !.dirs = @ \cap known,
                  !.cgroup = @ \cap (known \cup busy),
                  !.procs = [i \in Ids |-> IF i \in dead /\ i \in h.cgroup THEN 0 ELSE @[i]],
                  !.killed = (@ \cap known) \cup busy]

\* Mutant: adopted containers get no reap timer.
MutAdopt(m, ids) == [m EXCEPT !.live = ids]

adopt(m, ids) ==
    [m EXCEPT !.live = ids,
              !.schedule = [t \in TaskKinds \X Ids |->
                  IF t[1] = "ReapIdle" /\ t[2] \in ids \cap IdleLimited THEN 1 ELSE 0]]

StartDaemon ==
    /\ ~up
    /\ up' = TRUE
    /\ \E vanished \in SUBSET Adoptable(host), busy \in SUBSET Unknown(host) :
         /\ host' = Reconciled(host, vanished, busy)
         /\ mem' = adopt(MemInit, Adoptable(host) \ vanished)
         /\ abandoned' = vanished
    /\ UNCHANGED acked

-----------------------------------------------------------------------------

Init ==
    /\ up = TRUE /\ host = HostInit /\ mem = MemInit
    /\ acked = {} /\ abandoned = {}

Requests ==
    \/ \E id \in Ids :
         \/ Run(id) \/ Start(id) \/ Restart(id) \/ StopNotLive(id) \/ Kill(id)
         \/ \E force \in BOOLEAN : Rm(id, force)
         \/ \E c \in Conns : StopLive(c, id) \/ Wait(c, id) \/ Exec(c, id)
    \/ \E c \in Conns : CloseConn(c)

Events ==
    \/ \E id \in Ids :
         \/ OnPidfd(id) \/ ProcDies(id)
         \/ TimerRelaunch(id) \/ TimerRemoveExited(id) \/ TimerReapIdle(id)
         \/ TimerSignal(id) \/ TimerKill(id)
    \/ \E c \in Conns : ExecExit(c)

Faults ==
    \/ Crash \/ Reboot \/ StartDaemon
    \/ \E id \in Ids : CrashInLaunch(id) \/ CrashInExit(id) \/ CrashInPurge(id)

Next == Requests \/ Events \/ Faults

\* The event loop serves every ready descriptor and every due timer; the kernel
\* ends what it was told to kill.
Fairness ==
    /\ \A id \in Ids :
         /\ WF_vars(OnPidfd(id))
         /\ WF_vars(TimerRelaunch(id)) /\ WF_vars(TimerRemoveExited(id))
         /\ WF_vars(TimerReapIdle(id))
         /\ WF_vars(TimerSignal(id)) /\ WF_vars(TimerKill(id))
         /\ WF_vars(id \in host.killed /\ ProcDies(id))

Spec == Init /\ [][Next]_vars
FairSpec == Spec /\ Fairness

-----------------------------------------------------------------------------
(* Correctness.                                                            *)

\* Every variable has its type.
TypeOK ==
    /\ up \in BOOLEAN
    /\ host \in HostType
    /\ mem \in MemType
    /\ acked \subseteq Ids
    /\ abandoned \subseteq Ids

\* A parked Wait or Stop is always among the waiters of a live container, so
\* on_exit will answer it: no handler drops a Live entry, or replaces it, with
\* clients still waiting on it, and a closed connection is not kept for nothing.
WaitersParked ==
    \A c \in Conns : mem.req[c].kind \in {"Wait", "Stop"} =>
        /\ mem.req[c].id \in mem.live
        /\ c \in mem.entry[mem.req[c].id].waiters

\* A container never has two init processes, whatever was left behind by a
\* failed launch, a kill that takes its time or a crash: launch refuses an id
\* whose cgroup still exists.
OneInit == \A id \in Ids : host.procs[id] <= 1

\* The daemon only tracks containers it has a spec for: no purge (Rm, the exit
\* timer, the idle reaper) removes the spec of a container that is live.
LiveIsStored == mem.live \subseteq host.stored

\* A live container with an idle timeout always has the reap timer set by its
\* last activity pending, also after the daemon restarted and lost its timers.
ReapArmed ==
    \A id \in mem.live \cap IdleLimited : mem.schedule[<<"ReapIdle", id>>] > 0

\* The start of the daemon leaves nothing half-made behind: a container it has
\* not adopted has no run directories, and no cgroup that would make its next
\* launch fail, its spec is a persistent one, and what still runs unadopted has
\* been killed.  (Containers whose process died while being adopted excepted.)
CleanStart ==
    [][~up /\ up' =>
          \A id \in (Ids \ mem'.live) \ abandoned' :
              /\ id \notin host'.dirs
              /\ id \in host'.stored => id \in Persistent /\ id \notin host'.cgroup
              /\ host'.procs[id] > 0 /\ id \in host'.cgroup => id \in host'.killed]_vars

\* A container stopped by a client, who was told so, is not started again by
\* the daemon itself.
StopHonoured ==
    [][\A id \in acked \cap acked' : id \in mem'.live => id \in mem.live]_vars

\* A persistent container without an idle timeout is lost to nothing but an rm
\* of it, whole or cut short: not to an exit, a timer, a crash, a restart of the
\* daemon or one of the host.
PersistentKept ==
    [][\A id \in Persistent \ IdleLimited :
          id \in host.stored \ host'.stored =>
              CrashInPurge(id) \/ \E force \in BOOLEAN : Rm(id, force)]_vars

\* A stop is answered: the signal, or the kill after the grace period, ends the
\* container, and its exit answers every waiter.
StopAnswers ==
    \A c \in Conns : mem.req[c].kind = "Stop" ~> mem.req[c].kind # "Stop"

\* An exited ephemeral container goes away, or runs again.
EphemeralLeaves ==
    \A id \in Ids \ Persistent :
        up /\ id \in host.stored \ mem.live
            ~> ~up \/ id \notin host.stored \ mem.live \/ id \in abandoned
=============================================================================
