--------------------------- MODULE LifecycleProofs ---------------------------
(***************************************************************************)
(* Proofs about the container lifecycle, for every set of containers and   *)
(* connections, every restart policy and every bound.                      *)
(***************************************************************************)
EXTENDS Lifecycle, TLAPS

\* What holds of the host, also while the daemon is down: its type, at most one
\* init per container, and none outside a cgroup.  The last conjunct is what
\* makes the check of CgroupTree::create protect against a second init.
HostOK(h) ==
    /\ h \in HostType
    /\ \A id \in Ids : h.procs[id] > 0 => h.procs[id] = 1 /\ id \in h.cgroup

\* What holds of the daemon's memory.
MemOK(m) ==
    /\ m \in MemType
    /\ \A c \in Conns : m.req[c].kind \in {"Wait", "Stop"} =>
          m.req[c].id \in m.live /\ c \in m.entry[m.req[c].id].waiters

WorldOK(w) ==
    /\ w = [h |-> w.h, m |-> w.m]
    /\ HostOK(w.h)
    /\ MemOK(w.m)
    /\ w.m.live \subseteq w.h.stored

-----------------------------------------------------------------------------
(* Host effects.                                                           *)

\* Replacing the fields that a process's start or end changes.
LEMMA HostUpdate ==
    ASSUME NEW h \in HostType, NEW P \in [Ids -> 0..2], NEW S \in [Ids -> Statuses],
           NEW K \in SUBSET Ids, NEW G \in SUBSET Ids
    PROVE  [h EXCEPT !.procs = P, !.status = S, !.killed = K, !.cgroup = G] \in HostType
  BY DEF HostType

\* The effects that leave the cgroups and the processes alone.
LEMMA FileEffects ==
    ASSUME NEW h, HostOK(h), NEW id \in Ids, NEW code \in Statuses
    PROVE  /\ HostOK(WithDirs(h, id)) /\ WithDirs(h, id).stored = h.stored
           /\ HostOK(SetExit(h, id, code)) /\ SetExit(h, id, code).stored = h.stored
           /\ HostOK(remove_runtime_dirs(h, id)) /\ remove_runtime_dirs(h, id).stored = h.stored
           /\ HostOK(StoreRemove(h, id)) /\ StoreRemove(h, id).stored = h.stored \ {id}
           /\ HostOK(KillCgroup(h, id)) /\ KillCgroup(h, id).stored = h.stored
  BY DEF HostOK, HostType, WithDirs, SetExit, remove_runtime_dirs, StoreRemove, KillCgroup,
         Statuses, Codes

\* Creating the cgroup, and the init when the cgroup was created for it.
LEMMA LaunchEffects ==
    ASSUME NEW h, HostOK(h), NEW id \in Ids
    PROVE  /\ HostOK(WithCgroup(h, id)) /\ WithCgroup(h, id).stored = h.stored
           /\ CanCreate(h, id) => HostOK(WithInit(h, id)) /\ WithInit(h, id).stored = h.stored
<1> DEFINE d == WithDirs(h, id)
           g == WithCgroup(h, id)
<1>1. HostOK(d) /\ d.stored = h.stored /\ d.cgroup = h.cgroup /\ d.procs = h.procs
  BY FileEffects DEF WithDirs, HostOK, HostType, Statuses
<1>2. /\ HostOK(g) /\ g.stored = h.stored /\ g.cgroup = h.cgroup \cup {id}
      /\ g.procs = h.procs
  <2> HIDE DEF d
  <2>1. g = [d EXCEPT !.cgroup = @ \cup {id}]
    BY DEF WithCgroup, d
  <2> HIDE DEF g
  <2> QED BY <1>1, <2>1 DEF HostOK, HostType
<1>3. ASSUME CanCreate(h, id)
      PROVE  HostOK(WithInit(h, id)) /\ WithInit(h, id).stored = h.stored
  <2>1. g.procs[id] = 0
    BY <1>2, <1>3 DEF CanCreate, HostOK, HostType
  <2>2. WithInit(h, id) = [g EXCEPT !.procs[id] = IF @ < 2 THEN @ + 1 ELSE @,
                                    !.status[id] = "none",
                                    !.killed = @ \ {id}]
    BY DEF WithInit
  <2> DEFINE i == WithInit(h, id)
  <2> HIDE DEF g
  <2>3. i = [g EXCEPT !.procs[id] = 1, !.status[id] = "none", !.killed = @ \ {id}]
    BY <1>2, <2>1, <2>2 DEF HostOK, HostType
  <2> HIDE DEF i
  <2>4. g \in HostType
    BY <1>2 DEF HostOK
  <2>5. i \in HostType
    <3> DEFINE P == [g.procs EXCEPT ![id] = 1]
               S == [g.status EXCEPT ![id] = "none"]
    <3>1. P \in [Ids -> 0..2] /\ S \in [Ids -> Statuses]
          /\ g.killed \ {id} \in SUBSET Ids /\ g.cgroup \in SUBSET Ids
      BY <2>4 DEF HostType, Statuses
    <3>2. i = [g EXCEPT !.procs = P, !.status = S, !.killed = g.killed \ {id}, !.cgroup = g.cgroup]
      BY <2>3, <2>4 DEF HostType
    <3> QED BY <2>4, <3>1, <3>2, HostUpdate
  <2>6. /\ i.procs = [g.procs EXCEPT ![id] = 1]
        /\ i.cgroup = g.cgroup /\ i.stored = g.stored
    BY <2>3, <2>4 DEF HostType
  <2>7. \A j \in Ids : i.procs[j] > 0 => i.procs[j] = 1 /\ j \in i.cgroup
    BY <1>2, <2>4, <2>6 DEF HostOK, HostType
  <2>8. HostOK(i) /\ i.stored = h.stored
    BY <1>2, <2>5, <2>6, <2>7 DEF HostOK
  <2> QED BY <2>8 DEF i
<1> QED BY <1>2, <1>3

\* Removing a cgroup takes its processes away; a busy one stays.
LEMMA CleanupEffects ==
    ASSUME NEW h, HostOK(h), NEW id \in Ids
    PROVE  /\ \A g \in KillAndRemove(h, id) : HostOK(g) /\ g.stored = h.stored
           /\ \A g \in cleanup_runtime(h, id) : HostOK(g) /\ g.stored = h.stored
<1>1. ASSUME NEW g \in KillAndRemove(h, id)
      PROVE  HostOK(g) /\ g.stored = h.stored
  <2>1. HostOK(KillCgroup(h, id)) /\ KillCgroup(h, id).stored = h.stored
    BY FileEffects DEF Statuses
  <2>2. CASE g = KillCgroup(h, id)
    BY <2>1, <2>2
  <2>3. CASE g = [h EXCEPT !.procs[id] = IF id \in h.cgroup THEN 0 ELSE @,
                           !.killed = @ \ {id}, !.cgroup = @ \ {id}]
    <3>1. h \in HostType
      BY DEF HostOK
    <3>2. g \in HostType
      <4> DEFINE P == [h.procs EXCEPT ![id] = IF id \in h.cgroup THEN 0 ELSE h.procs[id]]
      <4>1. P \in [Ids -> 0..2] /\ h.status \in [Ids -> Statuses]
            /\ h.killed \ {id} \in SUBSET Ids /\ h.cgroup \ {id} \in SUBSET Ids
        BY <3>1 DEF HostType
      <4>2. g = [h EXCEPT !.procs = P, !.status = h.status, !.killed = h.killed \ {id},
                          !.cgroup = h.cgroup \ {id}]
        BY <2>3, <3>1 DEF HostType
      <4> QED BY <3>1, <4>1, <4>2, HostUpdate
    <3>3. /\ g.procs = [h.procs EXCEPT ![id] = IF id \in h.cgroup THEN 0 ELSE h.procs[id]]
          /\ g.cgroup = h.cgroup \ {id} /\ g.stored = h.stored
      BY <2>3, <3>1 DEF HostType
    <3>4. \A i \in Ids : g.procs[i] > 0 => g.procs[i] = 1 /\ i \in g.cgroup
      BY <3>1, <3>3 DEF HostOK, HostType
    <3> QED BY <3>2, <3>3, <3>4 DEF HostOK
  <2> QED BY <1>1, <2>2, <2>3 DEF KillAndRemove
<1>2. ASSUME NEW g \in KillAndRemove(h, id)
      PROVE  HostOK(remove_runtime_dirs(g, id)) /\ remove_runtime_dirs(g, id).stored = h.stored
  BY <1>1, FileEffects DEF Statuses
<1> QED BY <1>1, <1>2 DEF cleanup_runtime

\* Every state a launch can leave the host in.
LEMMA LaunchHost ==
    ASSUME NEW h, HostOK(h), NEW id \in Ids
    PROVE  /\ \A g \in LaunchCut(h, id) \cup LaunchUndone(h, id) :
                  HostOK(g) /\ g.stored = h.stored
           /\ CanCreate(h, id) => HostOK(Launched(h, id)) /\ Launched(h, id).stored = h.stored
<1>1. /\ HostOK(WithDirs(h, id)) /\ WithDirs(h, id).stored = h.stored
  BY FileEffects DEF Statuses
<1>2. /\ HostOK(WithCgroup(h, id)) /\ WithCgroup(h, id).stored = h.stored
      /\ CanCreate(h, id) => HostOK(WithInit(h, id)) /\ WithInit(h, id).stored = h.stored
  BY LaunchEffects
<1>3. \A g \in LaunchCut(h, id) : HostOK(g) /\ g.stored = h.stored
  BY <1>1, <1>2 DEF LaunchCut
<1>4. \A g \in LaunchUndone(h, id) : HostOK(g) /\ g.stored = h.stored
  BY <1>2, CleanupEffects DEF LaunchUndone
<1>5. CanCreate(h, id) => HostOK(Launched(h, id)) /\ Launched(h, id).stored = h.stored
  BY <1>2, FileEffects DEF Launched, Statuses
<1> QED BY <1>3, <1>4, <1>5
-----------------------------------------------------------------------------
(* Memory effects.                                                         *)

\* A change of the timers alone keeps what holds of the memory.
LEMMA NewSchedule ==
    ASSUME NEW m, MemOK(m), NEW S \in [TaskKinds \X Ids -> 0..MaxTasks]
    PROVE  /\ MemOK([m EXCEPT !.schedule = S])
           /\ [m EXCEPT !.schedule = S].live = m.live
           /\ [m EXCEPT !.schedule = S].entry = m.entry
           /\ [m EXCEPT !.schedule = S].req = m.req
  BY DEF MemOK, MemType

\* Setting and consuming a timer, and the reap timer of schedule_idle_reap.
LEMMA TimerEffects ==
    ASSUME NEW m, MemOK(m), NEW kind \in TaskKinds, NEW id \in Ids
    PROVE  /\ MemOK(Add(m, kind, id)) /\ Add(m, kind, id).live = m.live
           /\ m.schedule[<<kind, id>>] > 0 =>
                 MemOK(Remove(m, kind, id)) /\ Remove(m, kind, id).live = m.live
           /\ MemOK(schedule_idle_reap(m, id)) /\ schedule_idle_reap(m, id).live = m.live
<1>1. m \in MemType /\ <<kind, id>> \in TaskKinds \X Ids /\ MaxTasks \in Nat /\ MaxTasks > 0
  BY BoundAssumption DEF MemOK
<1> DEFINE n == m.schedule[<<kind, id>>]
<1>2. m.schedule \in [TaskKinds \X Ids -> 0..MaxTasks] /\ n \in 0..MaxTasks
  BY <1>1 DEF MemType
<1>3. MemOK(Add(m, kind, id)) /\ Add(m, kind, id).live = m.live
  <2> DEFINE S == [m.schedule EXCEPT ![<<kind, id>>] = IF @ < MaxTasks THEN @ + 1 ELSE @]
  <2>1. S \in [TaskKinds \X Ids -> 0..MaxTasks]
    BY <1>1, <1>2
  <2>2. Add(m, kind, id) = [m EXCEPT !.schedule = S]
    BY DEF Add
  <2> HIDE DEF S
  <2>9. MemOK([m EXCEPT !.schedule = S]) /\ [m EXCEPT !.schedule = S].live = m.live
    BY <2>1, NewSchedule
  <2> QED BY <2>2, <2>9
<1>4. ASSUME n > 0
      PROVE  MemOK(Remove(m, kind, id)) /\ Remove(m, kind, id).live = m.live
  <2> DEFINE S == [m.schedule EXCEPT ![<<kind, id>>] = @ - 1]
  <2>1. S \in [TaskKinds \X Ids -> 0..MaxTasks]
    BY <1>1, <1>2, <1>4
  <2>2. Remove(m, kind, id) = [m EXCEPT !.schedule = S]
    BY DEF Remove
  <2> HIDE DEF S
  <2>9. MemOK([m EXCEPT !.schedule = S]) /\ [m EXCEPT !.schedule = S].live = m.live
    BY <2>1, NewSchedule
  <2> QED BY <2>2, <2>9
<1>5. MemOK(schedule_idle_reap(m, id)) /\ schedule_idle_reap(m, id).live = m.live
  <2> DEFINE fresh == <<"ReapIdle", id>>
             stale == <<"StaleReapIdle", id>>
             old == m.schedule
             f(t) == CASE t = fresh -> 1
                       [] t = stale -> LET k == old[t] + old[fresh]
                                       IN  IF k < MaxTasks THEN k ELSE MaxTasks
                       [] OTHER -> old[t]
             S == [t \in TaskKinds \X Ids |-> f(t)]
  <2>1. CASE id \in IdleLimited
    <3>1. fresh \in TaskKinds \X Ids /\ stale \in TaskKinds \X Ids
      BY DEF TaskKinds
    <3>2. ASSUME NEW t \in TaskKinds \X Ids
          PROVE  f(t) \in 0..MaxTasks
      <4>1. old[t] \in 0..MaxTasks /\ old[fresh] \in 0..MaxTasks
        BY <1>2, <3>1
      <4> HIDE DEF fresh, stale, old
      <4> QED BY <1>1, <4>1
    <3>3. S \in [TaskKinds \X Ids -> 0..MaxTasks]
      BY <3>2
    <3>4. schedule_idle_reap(m, id) = [m EXCEPT !.schedule = S]
      BY <2>1 DEF schedule_idle_reap
    <3> HIDE DEF S
    <3>9. MemOK([m EXCEPT !.schedule = S]) /\ [m EXCEPT !.schedule = S].live = m.live
      BY <3>3, NewSchedule
    <3> QED BY <3>4, <3>9
  <2>2. CASE id \notin IdleLimited
    BY <2>2 DEF schedule_idle_reap
  <2> QED BY <2>1, <2>2
<1> QED BY <1>3, <1>4, <1>5

\* A new Live entry: nobody waits on a container that was not live.
LEMMA LiveEffects ==
    ASSUME NEW m, MemOK(m), NEW id \in Ids, id \notin m.live
    PROVE  LET n == [m EXCEPT !.live = @ \cup {id}, !.entry[id] = [Blank EXCEPT !.child = TRUE]]
           IN  MemOK(n) /\ n.live = m.live \cup {id}
<1> DEFINE e == [Blank EXCEPT !.child = TRUE]
           n == [m EXCEPT !.live = @ \cup {id}, !.entry[id] = e]
<1>1. e \in Entry /\ m \in MemType
  BY DEF Blank, Entry, MemOK
<1>2. n \in MemType /\ n.live = m.live \cup {id} /\ n.req = m.req
      /\ n.entry = [m.entry EXCEPT ![id] = e]
  <2> HIDE DEF e
  <2> QED BY <1>1 DEF MemType
<1>3. ASSUME NEW c \in Conns, n.req[c].kind \in {"Wait", "Stop"}
      PROVE  n.req[c].id \in n.live /\ c \in n.entry[n.req[c].id].waiters
  <2>1. m.req[c].id \in m.live /\ c \in m.entry[m.req[c].id].waiters
    BY <1>2, <1>3 DEF MemOK
  <2>2. m.req[c].id # id /\ m.req[c].id \in Ids
    BY <2>1, <1>1 DEF MemType
  <2> HIDE DEF e, n
  <2> QED BY <1>1, <1>2, <2>1, <2>2 DEF MemType
<1> QED BY <1>2, <1>3 DEF MemOK

\* on_exit removes the Live entry and answers everybody who waited on it, so
\* that no parked request is left behind.
LEMMA ExitEffects ==
    ASSUME NEW m, MemOK(m), NEW id \in Ids, NEW code, NEW long \in BOOLEAN
    PROVE  MemOK(ExitMem(m, id, code, long)) /\ ExitMem(m, id, code, long).live = m.live \ {id}
<1> DEFINE attempts == IF long THEN 0 ELSE m.restarts[id]
           w == m.entry[id].waiters
           a == Answer(m, w)
           R(k) == [a EXCEPT !.live = @ \ {id}, !.entry[id] = Blank,
                             !.user_stopped = @ \ {id}, !.restarts[id] = k]
           more == IF attempts < MaxAttempts THEN attempts + 1 ELSE attempts
<1>1. m \in MemType /\ MaxAttempts \in Nat
  BY BoundAssumption DEF MemOK
<1>2. attempts \in 0..MaxAttempts /\ more \in 0..MaxAttempts
  BY <1>1 DEF MemType
<1>3. /\ a \in MemType /\ a.live = m.live /\ a.entry = m.entry
      /\ a.req = [c \in Conns |-> IF c \in w THEN NoReq ELSE m.req[c]]
  <2> HIDE DEF w
  <2> QED BY <1>1 DEF Answer, MemType
<1>4. ASSUME NEW k \in 0..MaxAttempts
      PROVE  MemOK(R(k)) /\ R(k).live = m.live \ {id}
  <2>1. Blank \in Entry
    BY DEF Blank, Entry
  <2>2. R(k) \in MemType
    <3> HIDE DEF a
    <3> QED BY <1>3, <2>1 DEF MemType
  <2>3. R(k).live = m.live \ {id} /\ R(k).entry = [m.entry EXCEPT ![id] = Blank] /\ R(k).req = a.req
    <3> HIDE DEF a
    <3> QED BY <1>3 DEF MemType
  <2>4. ASSUME NEW c \in Conns, a.req[c].kind \in {"Wait", "Stop"}
        PROVE  a.req[c].id \in m.live \ {id} /\ c \in [m.entry EXCEPT ![id] = Blank][a.req[c].id].waiters
    <3>1. c \notin w /\ a.req[c] = m.req[c]
      BY <1>3, <2>4 DEF NoReq
    <3>2. m.req[c].id \in m.live /\ c \in m.entry[m.req[c].id].waiters
      BY <2>4, <3>1 DEF MemOK
    <3>3. m.req[c].id # id /\ m.req[c].id \in Ids
      BY <3>1, <3>2, <1>1 DEF MemType
    <3> QED BY <1>1, <3>1, <3>2, <3>3 DEF MemType
  <2> HIDE DEF R, a
  <2> QED BY <2>2, <2>3, <2>4 DEF MemOK
<1>5. ExitMem(m, id, code, long) \in
          {R(attempts), Add(R(attempts), "RemoveExited", id),
           Add([R(attempts) EXCEPT !.restarts[id] = more], "Relaunch", id)}
  BY DEF ExitMem
<1>6. [R(attempts) EXCEPT !.restarts[id] = more] = R(more)
  <2> HIDE DEF a, attempts, more
  <2> QED BY <1>3 DEF MemType
<1>7. "RemoveExited" \in TaskKinds /\ "Relaunch" \in TaskKinds
  BY DEF TaskKinds
<1> HIDE DEF R, attempts, more
<1>8. /\ MemOK(R(attempts)) /\ R(attempts).live = m.live \ {id}
      /\ MemOK(R(more)) /\ R(more).live = m.live \ {id}
  BY <1>2, <1>4
<1>9. /\ MemOK(Add(R(attempts), "RemoveExited", id))
      /\ Add(R(attempts), "RemoveExited", id).live = m.live \ {id}
  BY <1>7, <1>8, TimerEffects
<1>10. /\ MemOK(Add(R(more), "Relaunch", id))
       /\ Add(R(more), "Relaunch", id).live = m.live \ {id}
  BY <1>7, <1>8, TimerEffects
<1> QED BY <1>5, <1>6, <1>8, <1>9, <1>10
-----------------------------------------------------------------------------
(* Handlers.                                                               *)

\* launch of a stored container that is not live.
LEMMA LaunchWorld ==
    ASSUME NEW w, WorldOK(w), NEW id \in Ids, id \in w.h.stored, id \notin w.m.live
    PROVE  /\ \A v \in LaunchFails(w, id) : WorldOK(v) /\ v.m = w.m /\ v.h.stored = w.h.stored
           /\ \A v \in LaunchSucceeds(w, id) : WorldOK(v) /\ v.h.stored = w.h.stored
<1>1. HostOK(w.h) /\ MemOK(w.m) /\ w.m.live \subseteq w.h.stored /\ w = [h |-> w.h, m |-> w.m]
  BY DEF WorldOK
<1>2. ASSUME NEW v \in LaunchFails(w, id)
      PROVE  WorldOK(v) /\ v.m = w.m /\ v.h.stored = w.h.stored
  <2>1. PICK g \in LaunchCut(w.h, id) \cup LaunchUndone(w.h, id) : v = [w EXCEPT !.h = g]
    BY <1>2 DEF LaunchFails
  <2>2. HostOK(g) /\ g.stored = w.h.stored
    BY <1>1, LaunchHost
  <2>3. v = [h |-> g, m |-> w.m]
    BY <1>1, <2>1
  <2> QED BY <1>1, <2>2, <2>3 DEF WorldOK
<1>3. ASSUME NEW v \in LaunchSucceeds(w, id)
      PROVE  WorldOK(v) /\ v.h.stored = w.h.stored
  <2> DEFINE n == [w.m EXCEPT !.live = @ \cup {id}, !.entry[id] = [Blank EXCEPT !.child = TRUE]]
  <2>1. CanCreate(w.h, id) /\ v = [h |-> Launched(w.h, id), m |-> schedule_idle_reap(n, id)]
    BY <1>3 DEF LaunchSucceeds
  <2>2. HostOK(Launched(w.h, id)) /\ Launched(w.h, id).stored = w.h.stored
    BY <1>1, <2>1, LaunchHost
  <2>3. MemOK(n) /\ n.live = w.m.live \cup {id}
    BY <1>1, LiveEffects
  <2> HIDE DEF n
  <2>4. MemOK(schedule_idle_reap(n, id)) /\ schedule_idle_reap(n, id).live = n.live
    BY <2>3, TimerEffects DEF TaskKinds
  <2> QED BY <1>1, <2>1, <2>2, <2>3, <2>4 DEF WorldOK
<1> QED BY <1>2, <1>3

\* on_exit keeps the world in order and leaves the container not live.
LEMMA ExitWorld ==
    ASSUME NEW w, WorldOK(w), NEW id \in Ids, NEW code \in Statuses,
           NEW v \in on_exit(w, id, code)
    PROVE  WorldOK(v) /\ v.h.stored = w.h.stored /\ v.m.live = w.m.live \ {id}
<1>1. HostOK(w.h) /\ MemOK(w.m) /\ w.m.live \subseteq w.h.stored
  BY DEF WorldOK
<1>2. PICK g \in cleanup_runtime(SetExit(w.h, id, code), id), long \in BOOLEAN :
          v = [h |-> g, m |-> ExitMem(w.m, id, code, long)]
  BY DEF on_exit
<1>3. HostOK(SetExit(w.h, id, code)) /\ SetExit(w.h, id, code).stored = w.h.stored
  BY <1>1, FileEffects
<1>4. HostOK(g) /\ g.stored = w.h.stored
  BY <1>3, CleanupEffects
<1>5. MemOK(ExitMem(w.m, id, code, long)) /\ ExitMem(w.m, id, code, long).live = w.m.live \ {id}
  BY <1>1, ExitEffects
<1> QED BY <1>1, <1>2, <1>4, <1>5 DEF WorldOK

\* purge of a container that is not live.
LEMMA PurgeWorld ==
    ASSUME NEW w, WorldOK(w), NEW id \in Ids, id \notin w.m.live
    PROVE  WorldOK(purge(w, id)) /\ purge(w, id).h.stored = w.h.stored \ {id}
<1>1. HostOK(w.h) /\ MemOK(w.m) /\ w.m.live \subseteq w.h.stored /\ w = [h |-> w.h, m |-> w.m]
  BY DEF WorldOK
<1> DEFINE g == StoreRemove(w.h, id)
<1>2. HostOK(g) /\ g.stored = w.h.stored \ {id}
  BY <1>1, FileEffects DEF Statuses
<1> HIDE DEF g
<1>3. HostOK(remove_runtime_dirs(g, id)) /\ remove_runtime_dirs(g, id).stored = g.stored
  BY <1>2, FileEffects DEF Statuses
<1>4. purge(w, id) = [h |-> remove_runtime_dirs(g, id), m |-> w.m]
  BY <1>1 DEF purge, g
<1> QED BY <1>1, <1>2, <1>3, <1>4 DEF WorldOK

\* reap_blocking ends in on_exit, whichever way it ends.
LEMMA ReapWorld ==
    ASSUME NEW w, WorldOK(w), NEW id \in Ids, NEW v \in reap_blocking(w, id)
    PROVE  WorldOK(v) /\ v.m.live = w.m.live \ {id} /\ v.h.stored = w.h.stored
<1> DEFINE dead == [w.h EXCEPT !.procs[id] = 0, !.killed = @ \ {id}]
           u == [w EXCEPT !.h = dead]
<1>1. HostOK(w.h) /\ w = [h |-> w.h, m |-> w.m] /\ w.h \in HostType
  BY DEF WorldOK, HostOK
<1>2. HostOK(dead) /\ dead.stored = w.h.stored
  <2> DEFINE P == [w.h.procs EXCEPT ![id] = 0]
  <2>1. P \in [Ids -> 0..2] /\ w.h.status \in [Ids -> Statuses]
        /\ w.h.killed \ {id} \in SUBSET Ids /\ w.h.cgroup \in SUBSET Ids
    BY <1>1 DEF HostType
  <2>2. dead = [w.h EXCEPT !.procs = P, !.status = w.h.status, !.killed = w.h.killed \ {id},
                           !.cgroup = w.h.cgroup]
    BY <1>1 DEF HostType
  <2>3. dead \in HostType
    <3> HIDE DEF dead, P
    <3> QED BY <1>1, <2>1, <2>2, HostUpdate
  <2>4. dead.procs = P /\ dead.cgroup = w.h.cgroup /\ dead.stored = w.h.stored
    BY <1>1 DEF HostType
  <2>5. \A i \in Ids : P[i] > 0 => P[i] = 1 /\ i \in w.h.cgroup
    BY <1>1 DEF HostOK, HostType
  <2> HIDE DEF dead, P
  <2> QED BY <2>3, <2>4, <2>5 DEF HostOK
<1>3. WorldOK(u) /\ u.m = w.m /\ u.h.stored = w.h.stored
  <2> HIDE DEF dead
  <2>1. u = [h |-> dead, m |-> w.m]
    BY <1>1
  <2> QED BY <1>2, <2>1 DEF WorldOK
<1>4. w.h.status[id] \in Statuses /\ "unknown" \in Statuses /\ "nonzero" \in Statuses
  BY <1>1 DEF HostType, Statuses, Codes
<1>5. \/ v \in on_exit(w, id, "unknown")
      \/ v \in on_exit(w, id, w.h.status[id])
      \/ v \in on_exit(u, id, "nonzero")
  BY DEF reap_blocking
<1> HIDE DEF u
<1> QED BY <1>3, <1>4, <1>5, ExitWorld

\* Rm with force and the idle reaper.
LEMMA KillAndPurgeWorld ==
    ASSUME NEW w, WorldOK(w), NEW id \in Ids, NEW v \in KillAndPurge(w, id)
    PROVE  WorldOK(v) /\ v.h.stored = w.h.stored \ {id}
<1> DEFINE u == [w EXCEPT !.h = KillCgroup(w.h, id)]
<1>1. HostOK(w.h) /\ w = [h |-> w.h, m |-> w.m]
  BY DEF WorldOK
<1>2. HostOK(KillCgroup(w.h, id)) /\ KillCgroup(w.h, id).stored = w.h.stored
  BY <1>1, FileEffects DEF Statuses
<1>3. WorldOK(u) /\ u.m = w.m /\ u.h.stored = w.h.stored
  <2>1. u = [h |-> KillCgroup(w.h, id), m |-> w.m]
    BY <1>1
  <2> QED BY <1>2, <2>1 DEF WorldOK
<1>4. CASE id \in w.m.live
  <2>1. PICK x \in reap_blocking(u, id) : v = purge(x, id)
    BY <1>4 DEF KillAndPurge
  <2> HIDE DEF u
  <2>2. WorldOK(x) /\ x.m.live = u.m.live \ {id} /\ x.h.stored = w.h.stored
    BY <1>3, <2>1, ReapWorld
  <2> QED BY <2>1, <2>2, PurgeWorld
<1>5. CASE id \notin w.m.live
  BY <1>5, PurgeWorld DEF KillAndPurge
<1> QED BY <1>4, <1>5
\* Parking a connection on a live container's waiters, or for an exec.
LEMMA ParkEffects ==
    ASSUME NEW m, MemOK(m), NEW c \in Conns, NEW id \in Ids, id \in m.live,
           NEW kind \in {"Wait", "Stop"}
    PROVE  LET n == Park([m EXCEPT !.entry[id].waiters = @ \cup {c}], c, kind, id)
           IN  /\ MemOK(n) /\ n.live = m.live
               /\ MemOK(Park(m, c, "Exec", id)) /\ Park(m, c, "Exec", id).live = m.live
<1> DEFINE e == [m.entry[id] EXCEPT !.waiters = @ \cup {c}]
           E == [m.entry EXCEPT ![id] = e]
           r(k) == [kind |-> k, id |-> id, closed |-> FALSE]
           Q(k) == [m.req EXCEPT ![c] = r(k)]
           n == Park([m EXCEPT !.entry[id].waiters = @ \cup {c}], c, kind, id)
           x == Park(m, c, "Exec", id)
<1>1. m \in MemType
  BY DEF MemOK
<1>2. e \in Entry /\ e.waiters = m.entry[id].waiters \cup {c}
  BY <1>1 DEF MemType, Entry
<1>3. E \in [Ids -> Entry] /\ E[id] = e /\ \A i \in Ids \ {id} : E[i] = m.entry[i]
  <2> HIDE DEF e
  <2> QED BY <1>1, <1>2 DEF MemType
<1>4. \A k \in {"Wait", "Stop", "Exec"} : r(k) \in Parked
  BY DEF Parked
<1>5. \A k \in {"Wait", "Stop", "Exec"} :
          /\ Q(k) \in [Conns -> Parked \cup {NoReq}]
          /\ Q(k)[c] = r(k) /\ \A d \in Conns \ {c} : Q(k)[d] = m.req[d]
  <2> HIDE DEF r
  <2> QED BY <1>1, <1>4 DEF MemType
<1>6. n = [m EXCEPT !.entry = E, !.req = Q(kind)] /\ x = [m EXCEPT !.req = Q("Exec")]
  BY <1>1 DEF Park, MemType
<1> HIDE DEF E, Q, e, n, x
<1>7. n \in MemType /\ n.live = m.live /\ n.entry = E /\ n.req = Q(kind)
  BY <1>1, <1>3, <1>5, <1>6 DEF MemType
<1>8. x \in MemType /\ x.live = m.live /\ x.entry = m.entry /\ x.req = Q("Exec")
  BY <1>1, <1>5, <1>6 DEF MemType
<1>9. ASSUME NEW d \in Conns, n.req[d].kind \in {"Wait", "Stop"}
      PROVE  n.req[d].id \in n.live /\ d \in n.entry[n.req[d].id].waiters
  <2>1. CASE d = c
    BY <2>1, <1>2, <1>3, <1>5, <1>7
  <2>2. CASE d # c
    <3>1. n.req[d] = m.req[d]
      BY <2>2, <1>5, <1>7
    <3>2. m.req[d].id \in m.live /\ d \in m.entry[m.req[d].id].waiters /\ m.req[d].id \in Ids
      BY <3>1, <1>1, <1>9 DEF MemOK, MemType
    <3> QED BY <3>1, <3>2, <1>2, <1>3, <1>7
  <2> QED BY <2>1, <2>2
<1>10. ASSUME NEW d \in Conns, x.req[d].kind \in {"Wait", "Stop"}
       PROVE  x.req[d].id \in x.live /\ d \in x.entry[x.req[d].id].waiters
  <2>1. d # c
    BY <1>5, <1>8, <1>10
  <2>2. x.req[d] = m.req[d]
    BY <2>1, <1>5, <1>8
  <2> QED BY <2>2, <1>8, <1>10 DEF MemOK
<1>11. MemOK(n) /\ n.live = m.live
  BY <1>7, <1>9 DEF MemOK
<1>12. MemOK(x) /\ x.live = m.live
  BY <1>8, <1>10 DEF MemOK
<1> QED BY <1>11, <1>12 DEF n, x

\* A start finds one init per adopted container and leaves no other one outside
\* the cgroups that are still busy.
LEMMA ReconcileHost ==
    ASSUME NEW h, HostOK(h), NEW vanished \in SUBSET Adoptable(h), NEW busy \in SUBSET Unknown(h)
    PROVE  /\ HostOK(Reconciled(h, vanished, busy))
           /\ Adoptable(h) \subseteq Reconciled(h, vanished, busy).stored
<1> DEFINE known == Adoptable(h)
           dead  == vanished \cup ((Ids \ known) \ busy)
           left  == h.stored \cap (Persistent \cup known)
           X == [i \in Ids |-> IF i \in left THEN h.exit[i] ELSE "none"]
           P == [i \in Ids |-> IF i \in dead /\ i \in h.cgroup THEN 0 ELSE h.procs[i]]
           g == Reconciled(h, vanished, busy)
<1>1. h \in HostType
  BY DEF HostOK
<1>2. known \subseteq h.stored /\ known \subseteq Ids /\ busy \subseteq Ids /\ busy \subseteq h.cgroup
      /\ known \subseteq h.cgroup
  BY <1>1 DEF Adoptable, Unknown, HostType
<1>3. X \in [Ids -> Statuses] /\ P \in [Ids -> 0..2]
  BY <1>1 DEF HostType, Statuses
<1>4. g = [h EXCEPT !.stored = left, !.exit = X, !.dirs = @ \cap known,
                    !.cgroup = @ \cap (known \cup busy), !.procs = P,
                    !.killed = (@ \cap known) \cup busy]
  BY <1>1 DEF Reconciled, HostType
<1> HIDE DEF g, X, P, known, left
<1>5. /\ g \in HostType
      /\ g.stored = left /\ g.procs = P /\ g.cgroup = h.cgroup \cap (known \cup busy)
  <2>1. left \in SUBSET Ids
    BY <1>1 DEF left, HostType
  <2> QED BY <1>1, <1>2, <1>3, <1>4, <2>1 DEF HostType
<1>6. ASSUME NEW i \in Ids, P[i] > 0
      PROVE  P[i] = 1 /\ i \in h.cgroup \cap (known \cup busy)
  <2>1. P[i] = h.procs[i] /\ ~(i \in dead /\ i \in h.cgroup) /\ h.procs[i] > 0
    BY <1>6 DEF P
  <2>2. h.procs[i] = 1 /\ i \in h.cgroup
    BY <2>1 DEF HostOK
  <2> QED BY <2>1, <2>2
<1>7. HostOK(g)
  BY <1>5, <1>6 DEF HostOK
<1>8. known \subseteq g.stored
  BY <1>2, <1>5 DEF left
<1> QED BY <1>7, <1>8 DEF g, known
-----------------------------------------------------------------------------
(* The inductive invariant.                                                *)

LifecycleInv ==
    /\ up \in BOOLEAN
    /\ HostOK(host) /\ MemOK(mem) /\ mem.live \subseteq host.stored
    /\ acked \subseteq Ids
    /\ abandoned \subseteq Ids

\* The memory of a daemon that has just started.
LEMMA FreshMem == MemOK(MemInit) /\ MemInit.live = {}
<1>1. Blank \in Entry /\ NoReq \in Parked \cup {NoReq}
  BY DEF Blank, Entry
<1>2. MemInit \in MemType
  BY <1>1, BoundAssumption DEF MemInit, MemType
<1>3. \A c \in Conns : MemInit.req[c].kind \notin {"Wait", "Stop"}
  BY DEF MemInit, NoReq
<1> QED BY <1>2, <1>3 DEF MemOK, MemInit

\* A handler that ends in a good world.
LEMMA BecomeInv ==
    ASSUME NEW w, WorldOK(w), Become(w), up' \in BOOLEAN, acked' \subseteq Ids, abandoned' \subseteq Ids
    PROVE  LifecycleInv'
  BY DEF WorldOK, Become, LifecycleInv

\* A crash that leaves the host in order.
LEMMA DownInv ==
    ASSUME NEW h, HostOK(h), Down(h), acked' \subseteq Ids, abandoned' \subseteq Ids
    PROVE  LifecycleInv'
  BY FreshMem DEF Down, LifecycleInv

\* What clients ask for.
LEMMA RequestStep ==
    ASSUME LifecycleInv, Requests
    PROVE  LifecycleInv'
<1>0. /\ WorldOK(World) /\ HostOK(host) /\ MemOK(mem) /\ mem \in MemType /\ host \in HostType
      /\ World.h = host /\ World.m = mem
      /\ mem.live \subseteq host.stored /\ up \in BOOLEAN /\ acked \subseteq Ids /\ abandoned \subseteq Ids
  BY DEF LifecycleInv, WorldOK, World, HostOK, MemOK
<1>1. ASSUME NEW id \in Ids, Run(id)
      PROVE  LifecycleInv'
  <2> DEFINE w == Created(id)
             h == [host EXCEPT !.stored = @ \cup {id}]
             m == [mem EXCEPT !.restarts[id] = 0]
  <2>1. id \notin mem.live
    BY <1>1 DEF Run, Fresh
  <2>2. HostOK(h) /\ h.stored = host.stored \cup {id}
    BY <1>0 DEF HostOK, HostType
  <2>3. MemOK(m) /\ m.live = mem.live
    BY <1>0, BoundAssumption DEF MemOK, MemType
  <2>4. w = [h |-> h, m |-> m]
    BY DEF Created
  <2> HIDE DEF w, h, m
  <2>5. WorldOK(w) /\ id \in w.h.stored /\ id \notin w.m.live
    BY <1>0, <2>1, <2>2, <2>3, <2>4 DEF WorldOK
  <2>6. PICK v \in LaunchSucceeds(w, id) \cup {purge(u, id) : u \in LaunchFails(w, id)} : Become(v)
    BY <1>1 DEF Run, w
  <2>7. WorldOK(v)
    <3>1. CASE v \in LaunchSucceeds(w, id)
      BY <3>1, <2>5, LaunchWorld
    <3>2. ASSUME NEW u \in LaunchFails(w, id), v = purge(u, id)
          PROVE  WorldOK(v)
      BY <3>2, <2>5, LaunchWorld, PurgeWorld
    <3> QED BY <2>6, <3>1, <3>2
  <2> QED BY <1>0, <1>1, <2>6, <2>7, BecomeInv DEF Run
<1>2. ASSUME NEW id \in Ids, Start(id)
      PROVE  LifecycleInv'
  <2> DEFINE w == [World EXCEPT !.m.user_stopped = @ \ {id}]
             m == [mem EXCEPT !.user_stopped = @ \ {id}]
  <2>1. MemOK(m) /\ m.live = mem.live
    BY <1>0 DEF MemOK, MemType
  <2>2. w = [h |-> host, m |-> m]
    BY DEF World
  <2> HIDE DEF w, m
  <2>3. WorldOK(w) /\ id \in w.h.stored /\ id \notin w.m.live
    BY <1>0, <1>2, <2>1, <2>2 DEF WorldOK, Start, Stopped
  <2>4. PICK v \in LaunchSucceeds(w, id) \cup LaunchFails(w, id) : Become(v)
    BY <1>2 DEF Start, w
  <2>5. WorldOK(v)
    BY <2>3, <2>4, LaunchWorld
  <2> QED BY <1>0, <1>2, <2>4, <2>5, BecomeInv DEF Start
<1>3. ASSUME NEW id \in Ids, Restart(id)
      PROVE  LifecycleInv'
  <2>1. PICK v \in LaunchSucceeds(World, id) \cup LaunchFails(World, id) : Become(v)
    BY <1>3 DEF Restart
  <2>2. WorldOK(v)
    BY <1>0, <1>3, <2>1, LaunchWorld DEF Restart, Stopped
  <2> QED BY <1>0, <1>3, <2>1, <2>2, BecomeInv DEF Restart
<1>4. ASSUME NEW id \in Ids, StopNotLive(id)
      PROVE  LifecycleInv'
  BY <1>0, <1>4 DEF StopNotLive, LifecycleInv
<1>5. ASSUME NEW id \in Ids, Kill(id)
      PROVE  LifecycleInv'
  <2>1. HostOK(KillCgroup(host, id)) /\ KillCgroup(host, id).stored = host.stored
    BY <1>0, FileEffects DEF Statuses
  <2> QED BY <1>0, <1>5, <2>1 DEF Kill, LifecycleInv
<1>6. ASSUME NEW id \in Ids, NEW force \in BOOLEAN, Rm(id, force)
      PROVE  LifecycleInv'
  <2>1. PICK v \in KillAndPurge(World, id) : Become(v)
    BY <1>6 DEF Rm
  <2>2. WorldOK(v)
    BY <1>0, <2>1, KillAndPurgeWorld
  <2> QED BY <1>0, <1>6, <2>1, <2>2, BecomeInv DEF Rm
<1>7. ASSUME NEW id \in Ids, NEW c \in Conns, StopLive(c, id)
      PROVE  LifecycleInv'
  <2> DEFINE m == Park([mem EXCEPT !.entry[id].waiters = @ \cup {c}], c, "Stop", id)
             e == [m.entry[id] EXCEPT !.stop_requested = TRUE, !.signal_at = TRUE,
                                      !.kill_at = TRUE]
             E == [m.entry EXCEPT ![id] = e]
             n == [m EXCEPT !.entry[id] = [@ EXCEPT !.stop_requested = TRUE,
                                                    !.signal_at = TRUE,
                                                    !.kill_at = TRUE],
                            !.user_stopped = @ \cup {id}]
  <2>1. MemOK(m) /\ m.live = mem.live
    BY <1>0, <1>7, ParkEffects DEF StopLive
  <2>2. mem' \in {m, n}
    BY <1>7 DEF StopLive
  <2> HIDE DEF m
  <2>3. m \in MemType
    BY <2>1 DEF MemOK
  <2>4. E \in [Ids -> Entry] /\ \A i \in Ids : E[i].waiters = m.entry[i].waiters
    <3>1. m.entry \in [Ids -> Entry] /\ m.entry[id] \in Entry
      BY <2>3 DEF MemType
    <3>2. e \in Entry /\ e.waiters = m.entry[id].waiters
      BY <3>1 DEF Entry
    <3> HIDE DEF e
    <3> QED BY <3>1, <3>2
  <2>5. n \in MemType /\ n.live = m.live /\ n.req = m.req /\ n.entry = E
    <3>1. n = [m EXCEPT !.entry = E, !.user_stopped = @ \cup {id}]
      BY <2>3 DEF MemType
    <3> HIDE DEF E, n
    <3> QED BY <2>3, <2>4, <3>1 DEF MemType
  <2> HIDE DEF n, E
  <2>6. MemOK(n) /\ n.live = mem.live
    <3>1. \A d \in Conns : m.req[d].kind \in {"Wait", "Stop"} => m.req[d].id \in Ids
      BY <2>1, <2>3 DEF MemOK, MemType
    <3> QED BY <2>1, <2>4, <2>5, <3>1 DEF MemOK
  <2> QED BY <1>0, <1>7, <2>1, <2>2, <2>6 DEF StopLive, LifecycleInv
<1>8. ASSUME NEW id \in Ids, NEW c \in Conns, Wait(c, id)
      PROVE  LifecycleInv'
  <2>1. MemOK(mem') /\ mem'.live = mem.live
    BY <1>0, <1>8, ParkEffects DEF Wait
  <2> QED BY <1>0, <1>8, <2>1 DEF Wait, LifecycleInv
<1>9. ASSUME NEW id \in Ids, NEW c \in Conns, Exec(c, id)
      PROVE  LifecycleInv'
  <2> DEFINE m == Park(mem, c, "Exec", id)
  <2>1. MemOK(m) /\ m.live = mem.live
    BY <1>0, <1>9, ParkEffects DEF Exec
  <2>2. mem' = schedule_idle_reap(m, id)
    BY <1>9 DEF Exec
  <2> HIDE DEF m
  <2>3. MemOK(mem') /\ mem'.live = mem.live
    BY <2>1, <2>2, TimerEffects DEF TaskKinds
  <2> QED BY <1>0, <1>9, <2>3 DEF Exec, LifecycleInv
<1>10. ASSUME NEW c \in Conns, CloseConn(c)
       PROVE  LifecycleInv'
  <2> DEFINE r == [mem.req[c] EXCEPT !.closed = TRUE]
             Q == [mem.req EXCEPT ![c] = r]
  <2>1. mem.req[c] \in Parked /\ mem.req \in [Conns -> Parked \cup {NoReq}]
    BY <1>0, <1>10 DEF CloseConn, MemType
  <2>2. r \in Parked /\ r.kind = mem.req[c].kind /\ r.id = mem.req[c].id
    BY <2>1 DEF Parked
  <2>3. mem' = [mem EXCEPT !.req = Q]
    BY <1>10 DEF CloseConn
  <2> HIDE DEF r
  <2>4. /\ Q \in [Conns -> Parked \cup {NoReq}]
        /\ \A d \in Conns : Q[d].kind = mem.req[d].kind
        /\ \A d \in Conns : Q[d].kind \in {"Wait", "Stop"} => Q[d].id = mem.req[d].id
    BY <2>1, <2>2
  <2> HIDE DEF Q
  <2>5. MemOK(mem') /\ mem'.live = mem.live
    BY <1>0, <2>3, <2>4 DEF MemOK, MemType
  <2> QED BY <1>0, <1>10, <2>5 DEF CloseConn, LifecycleInv
<1> QED
  BY <1>1, <1>2, <1>3, <1>4, <1>5, <1>6, <1>7, <1>8, <1>9, <1>10 DEF Requests
\* Exits and timers.
LEMMA EventStep ==
    ASSUME LifecycleInv, Events
    PROVE  LifecycleInv'
<1>0. /\ WorldOK(World) /\ HostOK(host) /\ MemOK(mem) /\ mem \in MemType /\ host \in HostType
      /\ World = [h |-> host, m |-> mem]
      /\ mem.live \subseteq host.stored /\ up \in BOOLEAN /\ acked \subseteq Ids /\ abandoned \subseteq Ids
  BY DEF LifecycleInv, WorldOK, World, HostOK, MemOK
<1>1. ASSUME NEW id \in Ids, OnPidfd(id)
      PROVE  LifecycleInv'
  <2> DEFINE code == IF mem.entry[id].child THEN host.status[id] ELSE "unknown"
  <2>1. code \in Statuses
    BY <1>0 DEF HostType, Statuses
  <2>2. PICK v \in on_exit(World, id, code) : Become(v)
    BY <1>1 DEF OnPidfd
  <2> HIDE DEF code
  <2>3. WorldOK(v)
    BY <1>0, <2>1, <2>2, ExitWorld
  <2> QED BY <1>0, <1>1, <2>2, <2>3, BecomeInv DEF OnPidfd
<1>2. ASSUME NEW id \in Ids, ProcDies(id)
      PROVE  LifecycleInv'
  <2>1. PICK code \in Codes :
          host' = [host EXCEPT !.procs[id] = @ - 1, !.status[id] = code, !.killed = @ \ {id}]
    BY <1>2 DEF ProcDies
  <2> DEFINE P == [host.procs EXCEPT ![id] = @ - 1]
             S == [host.status EXCEPT ![id] = code]
  <2>2. host.procs[id] = 1
    BY <1>0, <1>2 DEF ProcDies, HostOK
  <2>3. P \in [Ids -> 0..2] /\ S \in [Ids -> Statuses]
        /\ host.killed \ {id} \in SUBSET Ids /\ host.cgroup \in SUBSET Ids
    BY <1>0, <2>2 DEF HostType, Statuses
  <2>4. host' = [host EXCEPT !.procs = P, !.status = S, !.killed = host.killed \ {id},
                             !.cgroup = host.cgroup]
    BY <1>0, <2>1 DEF HostType
  <2>5. \A i \in Ids : P[i] > 0 => P[i] = 1 /\ i \in host.cgroup
    BY <1>0, <2>2 DEF HostOK, HostType
  <2> HIDE DEF P, S
  <2>6. host' \in HostType /\ host'.procs = P /\ host'.cgroup = host.cgroup /\ host'.stored = host.stored
    BY <1>0, <2>3, <2>4, HostUpdate DEF HostType
  <2>7. HostOK(host')
    BY <2>5, <2>6 DEF HostOK
  <2> QED BY <1>0, <1>2, <2>6, <2>7 DEF ProcDies, LifecycleInv
<1>3. ASSUME NEW kind \in TaskKinds, NEW id \in Ids, Due(kind, id)
      PROVE  LET w == [World EXCEPT !.m = Remove(@, kind, id)]
             IN  WorldOK(w) /\ w.h = host /\ w.m.live = mem.live
  <2>1. MemOK(Remove(mem, kind, id)) /\ Remove(mem, kind, id).live = mem.live
    BY <1>0, <1>3, TimerEffects DEF Due
  <2>2. [World EXCEPT !.m = Remove(@, kind, id)] = [h |-> host, m |-> Remove(mem, kind, id)]
    BY DEF World
  <2> QED BY <1>0, <2>1, <2>2 DEF WorldOK
<1>4. TaskKinds = {"Relaunch", "RemoveExited", "ReapIdle", "StaleReapIdle"}
  BY DEF TaskKinds
<1>5. ASSUME NEW id \in Ids, TimerRelaunch(id)
      PROVE  LifecycleInv'
  <2> DEFINE w == [World EXCEPT !.m = Remove(@, "Relaunch", id)]
  <2>1. WorldOK(w) /\ w.h = host /\ w.m.live = mem.live
    BY <1>3, <1>4, <1>5 DEF TimerRelaunch
  <2>2. \/ id \in host.stored \ mem.live /\ \E v \in LaunchSucceeds(w, id) : Become(v)
        \/ id \in host.stored \ mem.live /\ \E v \in LaunchFails(w, id) : Become(v)
        \/ Become(w)
    BY <1>5 DEF TimerRelaunch
  <2>3. up' = up /\ acked' = acked /\ abandoned' \subseteq Ids
    BY <1>0, <1>5 DEF TimerRelaunch
  <2> HIDE DEF w
  <2>4. \E v : WorldOK(v) /\ Become(v)
    BY <2>1, <2>2, LaunchWorld
  <2> QED BY <1>0, <2>3, <2>4, BecomeInv
<1>6. ASSUME NEW id \in Ids, TimerRemoveExited(id)
      PROVE  LifecycleInv'
  <2> DEFINE w == [World EXCEPT !.m = Remove(@, "RemoveExited", id)]
  <2>1. WorldOK(w) /\ w.h = host /\ w.m.live = mem.live
    BY <1>3, <1>4, <1>6 DEF TimerRemoveExited
  <2>2. \/ id \notin mem.live /\ Become(purge(w, id))
        \/ Become(w)
    BY <1>6 DEF TimerRemoveExited
  <2>3. up' = up /\ acked' = acked /\ abandoned' = abandoned
    BY <1>6 DEF TimerRemoveExited
  <2> HIDE DEF w
  <2>4. \E v : WorldOK(v) /\ Become(v)
    BY <2>1, <2>2, PurgeWorld
  <2> QED BY <1>0, <2>3, <2>4, BecomeInv
<1>7. ASSUME NEW id \in Ids, TimerReapIdle(id)
      PROVE  LifecycleInv'
  <2>1. PICK kind \in {"ReapIdle", "StaleReapIdle"} :
          /\ Due(kind, id)
          /\ LET w == [World EXCEPT !.m = Remove(@, kind, id)]
             IN  (\E v \in KillAndPurge(w, id) : Become(v)) \/ Become(w)
    BY <1>7 DEF TimerReapIdle
  <2> DEFINE w == [World EXCEPT !.m = Remove(@, kind, id)]
  <2>2. WorldOK(w)
    BY <1>3, <1>4, <2>1
  <2>3. (\E v \in KillAndPurge(w, id) : Become(v)) \/ Become(w)
    BY <2>1
  <2>4. up' = up /\ acked' = acked /\ abandoned' = abandoned
    BY <1>7 DEF TimerReapIdle
  <2> HIDE DEF w
  <2>5. \E v : WorldOK(v) /\ Become(v)
    BY <2>2, <2>3, KillAndPurgeWorld
  <2> QED BY <1>0, <2>4, <2>5, BecomeInv
<1>8. ASSUME NEW id \in Ids, TimerSignal(id) \/ TimerKill(id)
      PROVE  LifecycleInv'
  <2>1. PICK e \in {[mem.entry[id] EXCEPT !.signal_at = FALSE], [mem.entry[id] EXCEPT !.kill_at = FALSE]} :
          mem' = [mem EXCEPT !.entry[id] = e]
    BY <1>8 DEF TimerSignal, TimerKill
  <2>2. mem.entry[id] \in Entry
    BY <1>0 DEF MemType
  <2>3. e \in Entry /\ e.waiters = mem.entry[id].waiters
    BY <2>1, <2>2 DEF Entry
  <2> DEFINE E == [mem.entry EXCEPT ![id] = e]
  <2>4. E \in [Ids -> Entry] /\ \A i \in Ids : E[i].waiters = mem.entry[i].waiters
    BY <1>0, <2>3 DEF MemType
  <2>5. mem' = [mem EXCEPT !.entry = E]
    BY <2>1
  <2> HIDE DEF E
  <2>6. mem' \in MemType /\ mem'.live = mem.live /\ mem'.req = mem.req /\ mem'.entry = E
    BY <1>0, <2>4, <2>5 DEF MemType
  <2>7. MemOK(mem')
    <3>1. \A d \in Conns : mem.req[d].kind \in {"Wait", "Stop"} => mem.req[d].id \in Ids
      BY <1>0 DEF MemOK, MemType
    <3> QED BY <1>0, <2>4, <2>6, <3>1 DEF MemOK
  <2>8. HostOK(host') /\ host'.stored = host.stored
    BY <1>0, <1>8, FileEffects DEF TimerSignal, TimerKill, Statuses
  <2> QED BY <1>0, <1>8, <2>6, <2>7, <2>8 DEF TimerSignal, TimerKill, LifecycleInv
<1>9. ASSUME NEW c \in Conns, ExecExit(c)
      PROVE  LifecycleInv'
  <2> DEFINE Q == [d \in Conns |-> IF d \in {c} THEN NoReq ELSE mem.req[d]]
  <2>1. mem' = [mem EXCEPT !.req = Q]
    BY <1>9 DEF ExecExit, Answer
  <2>2. Q \in [Conns -> Parked \cup {NoReq}]
        /\ \A d \in Conns : Q[d].kind \in {"Wait", "Stop"} => Q[d] = mem.req[d]
    BY <1>0 DEF MemType, NoReq
  <2> HIDE DEF Q
  <2>3. MemOK(mem') /\ mem'.live = mem.live
    BY <1>0, <2>1, <2>2 DEF MemOK, MemType
  <2> QED BY <1>0, <1>9, <2>3 DEF ExecExit, LifecycleInv
<1> QED
  BY <1>1, <1>2, <1>5, <1>6, <1>7, <1>8, <1>9 DEF Events
\* Crashes at any point of a handler, the reboot of the host, and the start.
LEMMA FaultStep ==
    ASSUME LifecycleInv, Faults
    PROVE  LifecycleInv'
<1>0. /\ HostOK(host) /\ MemOK(mem) /\ mem \in MemType /\ host \in HostType
      /\ mem.live \subseteq host.stored /\ up \in BOOLEAN /\ acked \subseteq Ids /\ abandoned \subseteq Ids
  BY DEF LifecycleInv, HostOK, MemOK
<1>1. CASE Crash
  BY <1>0, <1>1, DownInv DEF Crash
<1>2. CASE Reboot
  <2> DEFINE X == [i \in Ids |-> IF i \in host.stored \cap Persistent THEN host.exit[i] ELSE "none"]
             h == [HostInit EXCEPT !.stored = host.stored \cap Persistent, !.exit = X]
  <2>1. X \in [Ids -> Statuses] /\ host.stored \cap Persistent \in SUBSET Ids
    BY <1>0 DEF HostType, Statuses
  <2>2. Down(h)
    BY <1>2 DEF Reboot
  <2>3. HostOK(h)
    <3> HIDE DEF X
    <3>1. HostInit \in HostType /\ \A i \in Ids : HostInit.procs[i] = 0
      BY DEF HostInit, HostType, Statuses
    <3>2. h \in HostType /\ h.procs = HostInit.procs
      BY <2>1, <3>1 DEF HostType
    <3> QED BY <3>1, <3>2 DEF HostOK
  <2> HIDE DEF h
  <2> QED BY <1>0, <1>2, <2>2, <2>3, DownInv DEF Reboot
<1>3. CASE StartDaemon
  <2>1. PICK vanished \in SUBSET Adoptable(host), busy \in SUBSET Unknown(host) :
          /\ host' = Reconciled(host, vanished, busy)
          /\ mem' = adopt(MemInit, Adoptable(host) \ vanished)
          /\ abandoned' = vanished
    BY <1>3 DEF StartDaemon
  <2>2. HostOK(host') /\ Adoptable(host) \subseteq host'.stored
    BY <1>0, <2>1, ReconcileHost
  <2>3. Adoptable(host) \subseteq Ids
    BY <1>0 DEF Adoptable, HostType
  <2> DEFINE ids == Adoptable(host) \ vanished
             S == [t \in TaskKinds \X Ids |->
                     IF t[1] = "ReapIdle" /\ t[2] \in ids \cap IdleLimited THEN 1 ELSE 0]
  <2>4. S \in [TaskKinds \X Ids -> 0..MaxTasks]
    BY BoundAssumption
  <2>5. mem' = [MemInit EXCEPT !.live = ids, !.schedule = S]
    BY <2>1 DEF adopt
  <2>6. MemInit \in MemType /\ \A c \in Conns : MemInit.req[c].kind \notin {"Wait", "Stop"}
    BY FreshMem DEF MemOK, MemInit, NoReq
  <2>7. ids \in SUBSET Ids
    BY <2>3
  <2> HIDE DEF ids, S
  <2>8. mem' \in MemType /\ mem'.live = ids /\ mem'.req = MemInit.req
    BY <2>4, <2>5, <2>6, <2>7 DEF MemType
  <2>9. MemOK(mem')
    BY <2>6, <2>8 DEF MemOK
  <2>10. mem'.live \subseteq host'.stored /\ abandoned' \subseteq Ids
    BY <2>1, <2>2, <2>3, <2>8 DEF ids
  <2> QED BY <1>0, <1>3, <2>2, <2>9, <2>10 DEF StartDaemon, LifecycleInv
<1>4. ASSUME NEW id \in Ids, CrashInLaunch(id)
      PROVE  LifecycleInv'
  <2> DEFINE h == [host EXCEPT !.stored = @ \cup {id}]
  <2>1. PICK g \in LaunchCut(h, id) : Down(g)
    BY <1>4 DEF CrashInLaunch
  <2>2. HostOK(h)
    BY <1>0 DEF HostOK, HostType
  <2> HIDE DEF h
  <2>3. HostOK(g)
    BY <2>2, LaunchHost
  <2> QED BY <1>0, <1>4, <2>1, <2>3, DownInv DEF CrashInLaunch
<1>5. ASSUME NEW id \in Ids, CrashInExit(id)
      PROVE  LifecycleInv'
  <2> DEFINE code == IF mem.entry[id].child THEN host.status[id] ELSE "unknown"
             h == SetExit(host, id, code)
  <2>1. code \in Statuses
    BY <1>0 DEF HostType, Statuses
  <2>2. PICK g \in {h} \cup KillAndRemove(h, id) \cup cleanup_runtime(h, id) : Down(g)
    BY <1>5 DEF CrashInExit
  <2> HIDE DEF code
  <2>3. HostOK(h)
    BY <1>0, <2>1, FileEffects
  <2> HIDE DEF h
  <2>4. HostOK(g)
    BY <2>2, <2>3, CleanupEffects
  <2> QED BY <1>0, <1>5, <2>2, <2>4, DownInv DEF CrashInExit
<1>6. ASSUME NEW id \in Ids, CrashInPurge(id)
      PROVE  LifecycleInv'
  <2>1. HostOK(StoreRemove(host, id))
    BY <1>0, FileEffects DEF Statuses
  <2> QED BY <1>0, <1>6, <2>1, DownInv DEF CrashInPurge
<1> QED
  BY <1>1, <1>2, <1>3, <1>4, <1>5, <1>6 DEF Faults

\* The invariant holds initially and every step keeps it.
LEMMA LifecycleInductive ==
    /\ Init => LifecycleInv
    /\ LifecycleInv /\ [Next]_vars => LifecycleInv'
<1>1. ASSUME Init PROVE LifecycleInv
  <2>1. HostOK(HostInit)
    BY DEF HostOK, HostType, HostInit, Statuses
  <2>2. MemInit.live \subseteq HostInit.stored
    BY FreshMem
  <2> QED BY <1>1, <2>1, <2>2, FreshMem DEF Init, LifecycleInv
<1>2. ASSUME LifecycleInv, UNCHANGED vars PROVE LifecycleInv'
  BY <1>2 DEF vars, LifecycleInv
<1>3. ASSUME LifecycleInv, Next PROVE LifecycleInv'
  BY <1>3, RequestStep, EventStep, FaultStep DEF Next
<1> QED BY <1>1, <1>2, <1>3

\* Every parked Stop or Wait is among the waiters of a live container, in every
\* reachable state: no sequence of launches, exits, purges and crashes drops a
\* client's request without an answer.
THEOREM NoRequestLost == Spec => []WaitersParked
<1>1. LifecycleInv => WaitersParked
  BY DEF LifecycleInv, MemOK, WaitersParked
<1> QED
  BY <1>1, LifecycleInductive, PTL DEF Spec

\* A container never has two init processes: neither leftovers of failed
\* launches, nor slow kills, nor crashes lead to a second one.
THEOREM NeverTwoInits == Spec => []OneInit
<1>1. LifecycleInv => OneInit
  BY DEF LifecycleInv, HostOK, HostType, OneInit
<1> QED
  BY <1>1, LifecycleInductive, PTL DEF Spec

\* No purge removes the spec of a container that is live, and all state keeps
\* its type.
THEOREM LiveAlwaysStored == Spec => [](TypeOK /\ LiveIsStored)
<1>1. LifecycleInv => TypeOK /\ LiveIsStored
  BY DEF LifecycleInv, HostOK, MemOK, TypeOK, LiveIsStored
<1> QED
  BY <1>1, LifecycleInductive, PTL DEF Spec

-----------------------------------------------------------------------------
(* The idle reaper.  LifecycleInv says what the handlers do to the live     *)
(* containers; the lemmas below add what they do to the newest reap timers. *)

Reap(i) == <<"ReapIdle", i>>
Stale(i) == <<"StaleReapIdle", i>>

\* The reap timers of i are the same in the memories m and n.
SameReap(m, n, i) ==
    n.schedule[Reap(i)] = m.schedule[Reap(i)] /\ n.schedule[Stale(i)] = m.schedule[Stale(i)]

SameReaps(m, n) == \A i \in Ids : SameReap(m, n, i)

\* Every live container with an idle timeout has its reap timer, and no
\* container without an idle timeout has one, new or stale.
ReapsOK(m) ==
    /\ \A i \in m.live \cap IdleLimited : m.schedule[Reap(i)] > 0
    /\ \A i \in Ids \ IdleLimited : m.schedule[Reap(i)] = 0 /\ m.schedule[Stale(i)] = 0

\* A timer of another kind leaves the reap timers alone.
LEMMA OtherTimers ==
    ASSUME NEW m, MemOK(m), NEW kind \in {"Relaunch", "RemoveExited"}, NEW id \in Ids
    PROVE  SameReaps(m, Add(m, kind, id)) /\ SameReaps(m, Remove(m, kind, id))
<1>1. m \in MemType /\ m.schedule \in [TaskKinds \X Ids -> 0..MaxTasks]
  BY DEF MemOK, MemType
<1>2. \A i \in Ids : /\ Reap(i) \in TaskKinds \X Ids /\ Reap(i) # <<kind, id>>
                     /\ Stale(i) \in TaskKinds \X Ids /\ Stale(i) # <<kind, id>>
  BY DEF Reap, Stale, TaskKinds
<1>3. /\ Add(m, kind, id).schedule =
            [m.schedule EXCEPT ![<<kind, id>>] = IF @ < MaxTasks THEN @ + 1 ELSE @]
      /\ Remove(m, kind, id).schedule = [m.schedule EXCEPT ![<<kind, id>>] = @ - 1]
  BY <1>1 DEF Add, Remove, MemType
<1> QED BY <1>1, <1>2, <1>3 DEF SameReaps, SameReap

\* schedule_idle_reap sets the timer of its container and leaves the others'.
LEMMA NewReap ==
    ASSUME NEW m, MemOK(m), NEW id \in Ids
    PROVE  LET n == schedule_idle_reap(m, id)
           IN  /\ \A i \in Ids \ {id} : SameReap(m, n, i)
               /\ IF id \in IdleLimited THEN n.schedule[Reap(id)] = 1 ELSE SameReap(m, n, id)
<1> DEFINE n == schedule_idle_reap(m, id)
           stale == <<"StaleReapIdle", id>>
           f(t) == CASE t = <<"ReapIdle", id>> -> 1
                     [] t = stale -> LET k == m.schedule[t] + m.schedule[<<"ReapIdle", id>>]
                                     IN  IF k < MaxTasks THEN k ELSE MaxTasks
                     [] OTHER -> m.schedule[t]
<1>1. m \in MemType
  BY DEF MemOK
<1>2. \A i \in Ids : /\ Reap(i) \in TaskKinds \X Ids /\ Reap(i) # stale
                     /\ Stale(i) \in TaskKinds \X Ids /\ Stale(i) # <<"ReapIdle", id>>
  BY DEF Reap, Stale, TaskKinds
<1>3. /\ f(Reap(id)) = 1
      /\ \A i \in Ids \ {id} : f(Reap(i)) = m.schedule[Reap(i)] /\ f(Stale(i)) = m.schedule[Stale(i)]
  BY <1>2 DEF Reap, Stale
<1>4. CASE id \in IdleLimited
  <2>1. n.schedule = [t \in TaskKinds \X Ids |-> f(t)]
    BY <1>1, <1>4 DEF schedule_idle_reap, MemType
  <2> HIDE DEF f, n
  <2>2. \A i \in Ids : n.schedule[Reap(i)] = f(Reap(i)) /\ n.schedule[Stale(i)] = f(Stale(i))
    BY <1>2, <2>1
  <2>3. n.schedule[Reap(id)] = 1 /\ \A i \in Ids \ {id} : SameReap(m, n, i)
    BY <1>3, <2>2 DEF SameReap
  <2> QED BY <1>4, <2>3 DEF n
<1>5. CASE id \notin IdleLimited
  BY <1>5 DEF schedule_idle_reap, SameReap
<1> QED BY <1>4, <1>5

\* on_exit sets no reap timer and takes none away.
LEMMA ExitReaps ==
    ASSUME NEW m, MemOK(m), NEW id \in Ids, NEW code, NEW long \in BOOLEAN
    PROVE  SameReaps(m, ExitMem(m, id, code, long))
<1> DEFINE attempts == IF long THEN 0 ELSE m.restarts[id]
           a == Answer(m, m.entry[id].waiters)
           R(k) == [a EXCEPT !.live = @ \ {id}, !.entry[id] = Blank,
                             !.user_stopped = @ \ {id}, !.restarts[id] = k]
           more == IF attempts < MaxAttempts THEN attempts + 1 ELSE attempts
           r == [R(attempts) EXCEPT !.restarts[id] = more]
<1>1. m \in MemType /\ m.schedule \in [TaskKinds \X Ids -> 0..MaxTasks]
  BY DEF MemOK, MemType
<1>2. ExitMem(m, id, code, long) \in
          {R(attempts), Add(R(attempts), "RemoveExited", id), Add(r, "Relaunch", id)}
  BY DEF ExitMem
<1>3. R(attempts).schedule = m.schedule /\ r.schedule = m.schedule
  BY <1>1 DEF Answer, MemType
<1> DEFINE s(x, kind) == [x.schedule EXCEPT ![<<kind, id>>] = IF @ < MaxTasks THEN @ + 1 ELSE @]
<1>4. /\ Add(R(attempts), "RemoveExited", id).schedule = s(R(attempts), "RemoveExited")
      /\ Add(r, "Relaunch", id).schedule = s(r, "Relaunch")
  BY <1>1 DEF Add, Answer, MemType
<1>5. \A i \in Ids, t \in {<<"RemoveExited", id>>, <<"Relaunch", id>>} :
        /\ Reap(i) \in TaskKinds \X Ids /\ Reap(i) # t
        /\ Stale(i) \in TaskKinds \X Ids /\ Stale(i) # t
  BY DEF Reap, Stale, TaskKinds
<1> HIDE DEF R, r
<1> QED BY <1>1, <1>2, <1>3, <1>4, <1>5 DEF SameReaps, SameReap

\* The same timers and no new live container.
LEMMA ReapsStay ==
    ASSUME NEW m, ReapsOK(m), MemOK(m), NEW n, SameReaps(m, n), n.live \subseteq m.live
    PROVE  ReapsOK(n)
  BY DEF ReapsOK, SameReaps, SameReap, MemOK, MemType

\* A launch arms the container it makes live.
LEMMA LaunchArms ==
    ASSUME NEW w, WorldOK(w), ReapsOK(w.m), NEW id \in Ids, id \notin w.m.live,
           NEW v \in LaunchSucceeds(w, id)
    PROVE  ReapsOK(v.m)
<1> DEFINE n == [w.m EXCEPT !.live = @ \cup {id}, !.entry[id] = [Blank EXCEPT !.child = TRUE]]
<1>1. MemOK(w.m) /\ w.m \in MemType
  BY DEF WorldOK, MemOK
<1>2. v.m = schedule_idle_reap(n, id)
  BY DEF LaunchSucceeds
<1>3. MemOK(n) /\ n.live = w.m.live \cup {id}
  BY <1>1, LiveEffects
<1>4. n.schedule = w.m.schedule
  BY <1>1 DEF MemType
<1> HIDE DEF n
<1>5. v.m.live = w.m.live \cup {id} /\ w.m.live \subseteq Ids
  <2>1. v.m.live = n.live
    BY <1>2, <1>3, TimerEffects DEF TaskKinds
  <2>2. w.m.live \subseteq Ids
    BY <1>1 DEF MemType
  <2> QED BY <1>3, <2>1, <2>2
<1>6. /\ \A i \in Ids \ {id} : SameReap(w.m, v.m, i)
      /\ IF id \in IdleLimited THEN v.m.schedule[Reap(id)] = 1 ELSE SameReap(w.m, v.m, id)
  BY <1>2, <1>3, <1>4, NewReap DEF SameReap
<1> QED BY <1>5, <1>6 DEF ReapsOK, SameReap

\* The ends of a container leave the timers of the others alone.
LEMMA ExitWorldReaps ==
    ASSUME NEW w, WorldOK(w), NEW id \in Ids, NEW code, NEW v \in on_exit(w, id, code)
    PROVE  SameReaps(w.m, v.m) /\ v.m.live = w.m.live \ {id}
  BY ExitReaps, ExitEffects DEF on_exit, WorldOK

\* Whatever Rm with force and the idle reaper kill is no longer live.
LEMMA KillAndPurgeReaps ==
    ASSUME NEW w, WorldOK(w), NEW id \in Ids, NEW v \in KillAndPurge(w, id)
    PROVE  SameReaps(w.m, v.m) /\ v.m.live = w.m.live \ {id}
<1> DEFINE u == [w EXCEPT !.h = KillCgroup(w.h, id)]
           d == [u EXCEPT !.h = [u.h EXCEPT !.procs[id] = 0, !.killed = @ \ {id}]]
<1>1. MemOK(w.m) /\ w = [h |-> w.h, m |-> w.m] /\ u.m = w.m /\ d.m = w.m
  BY DEF WorldOK
<1>2. ASSUME NEW y, y.m = w.m, NEW code, NEW x \in on_exit(y, id, code)
      PROVE  SameReaps(w.m, x.m) /\ x.m.live = w.m.live \ {id}
  BY <1>1, <1>2, ExitReaps, ExitEffects DEF on_exit
<1>3. CASE id \in w.m.live
  <2>1. PICK x \in reap_blocking(u, id) : v = purge(x, id)
    BY <1>3 DEF KillAndPurge
  <2>2. PICK y \in {u, d}, code \in {"unknown", "nonzero", u.h.status[id]} : x \in on_exit(y, id, code)
    <3> HIDE DEF u
    <3> QED BY <2>1 DEF reap_blocking
  <2>3. SameReaps(w.m, x.m) /\ x.m.live = w.m.live \ {id}
    <3> HIDE DEF u, d
    <3> QED BY <1>1, <1>2, <2>2
  <2>4. v.m = x.m
    <3>1. x = [h |-> x.h, m |-> x.m]
      BY <2>2 DEF on_exit
    <3> QED BY <2>1, <3>1 DEF purge
  <2> QED BY <2>3, <2>4
<1>4. CASE id \notin w.m.live
  <2>1. v.m = w.m
    BY <1>1, <1>4 DEF KillAndPurge, purge
  <2> QED BY <1>4, <2>1 DEF SameReaps, SameReap
<1> QED BY <1>3, <1>4

\* Every step keeps the reap timers: what makes a container live, or counts as
\* activity of it, sets its timer, and the timer is consumed only by the reap
\* that ends the container; only an idle timeout sets one.
LEMMA ReapsStep ==
    ASSUME LifecycleInv, ReapsOK(mem), [Next]_vars
    PROVE  ReapsOK(mem')
<1>0. /\ WorldOK(World) /\ MemOK(mem) /\ mem \in MemType /\ mem.live \subseteq Ids
      /\ World = [h |-> host, m |-> mem] /\ World.m = mem
  BY DEF LifecycleInv, WorldOK, World, HostOK, MemOK, MemType
<1>1. ASSUME mem'.live \subseteq mem.live, mem'.schedule = mem.schedule
      PROVE  ReapsOK(mem')
  BY <1>0, <1>1 DEF ReapsOK
<1>2. ASSUME NEW w, WorldOK(w), SameReaps(mem, w.m), w.m.live = mem.live, NEW id \in Ids,
             id \in w.h.stored, id \notin mem.live,
             NEW v \in LaunchSucceeds(w, id) \cup LaunchFails(w, id)
      PROVE  ReapsOK(v.m)
  <2>1. ReapsOK(w.m)
    BY <1>0, <1>2, ReapsStay
  <2> QED BY <1>2, <2>1, LaunchArms, LaunchWorld
<1>3. ASSUME NEW h, Down(h)
      PROVE  ReapsOK(mem')
  <2>1. ReapsOK(MemInit)
    BY DEF ReapsOK, MemInit, Reap, Stale, TaskKinds
  <2> QED BY <1>3, <2>1 DEF Down
<1>4. ASSUME NEW id \in Ids, Run(id)
      PROVE  ReapsOK(mem')
  <2> DEFINE w == Created(id)
  <2>1. WorldOK(w) /\ w.m.live = mem.live /\ SameReaps(mem, w.m) /\ id \in w.h.stored
    <3> DEFINE h == [host EXCEPT !.stored = @ \cup {id}]
               m == [mem EXCEPT !.restarts[id] = 0]
    <3>1. HostOK(h) /\ h.stored = host.stored \cup {id}
      BY DEF LifecycleInv, HostOK, HostType
    <3>2. MemOK(m) /\ m.live = mem.live /\ m.schedule = mem.schedule
      BY <1>0, BoundAssumption DEF MemOK, MemType
    <3>3. w = [h |-> h, m |-> m]
      BY DEF Created
    <3>4. mem.live \subseteq host.stored
      BY DEF LifecycleInv
    <3> HIDE DEF w, h, m
    <3> QED BY <3>1, <3>2, <3>3, <3>4 DEF WorldOK, SameReaps, SameReap
  <2>2. id \notin mem.live
    BY <1>4 DEF Run, Fresh
  <2>3. PICK v \in LaunchSucceeds(w, id) \cup {purge(u, id) : u \in LaunchFails(w, id)} : Become(v)
    BY <1>4 DEF Run
  <2> HIDE DEF w
  <2>4. CASE v \in LaunchSucceeds(w, id)
    BY <1>2, <2>1, <2>2, <2>3, <2>4 DEF Become
  <2>5. ASSUME NEW u \in LaunchFails(w, id), v = purge(u, id)
        PROVE  ReapsOK(mem')
    <3>1. WorldOK(u) /\ ReapsOK(u.m)
      BY <1>2, <2>1, <2>2, LaunchWorld
    <3>2. purge(u, id).m = u.m
      <4>1. u = [h |-> u.h, m |-> u.m]
        BY <3>1 DEF WorldOK
      <4> QED BY <4>1 DEF purge
    <3> QED BY <2>3, <2>5, <3>1, <3>2 DEF Become
  <2> QED BY <2>3, <2>4, <2>5
<1>5. ASSUME NEW id \in Ids, Start(id)
      PROVE  ReapsOK(mem')
  <2> DEFINE w == [World EXCEPT !.m.user_stopped = @ \ {id}]
             m == [mem EXCEPT !.user_stopped = @ \ {id}]
  <2>1. MemOK(m) /\ m.live = mem.live /\ m.schedule = mem.schedule
    BY <1>0 DEF MemOK, MemType
  <2>2. w = [h |-> host, m |-> m]
    BY DEF World
  <2>3. HostOK(host) /\ mem.live \subseteq host.stored /\ id \in host.stored /\ id \notin mem.live
    BY <1>5 DEF LifecycleInv, Start, Stopped
  <2>4. PICK v \in LaunchSucceeds(w, id) \cup LaunchFails(w, id) : Become(v)
    BY <1>5 DEF Start
  <2> HIDE DEF w, m
  <2>5. WorldOK(w) /\ SameReaps(mem, w.m) /\ w.m.live = mem.live /\ id \in w.h.stored
    BY <2>1, <2>2, <2>3 DEF WorldOK, SameReaps, SameReap
  <2> QED BY <1>2, <2>3, <2>4, <2>5 DEF Become
<1>6. ASSUME NEW id \in Ids, Restart(id)
      PROVE  ReapsOK(mem')
  <2>1. PICK v \in LaunchSucceeds(World, id) \cup LaunchFails(World, id) : Become(v)
    BY <1>6 DEF Restart
  <2>2. id \in World.h.stored /\ id \notin mem.live /\ SameReaps(mem, World.m)
    BY <1>0, <1>6 DEF Restart, Stopped, SameReaps, SameReap
  <2> QED BY <1>0, <1>2, <2>1, <2>2 DEF Become
<1>7. ASSUME NEW id \in Ids, NEW force \in BOOLEAN, Rm(id, force)
      PROVE  ReapsOK(mem')
  <2>1. PICK v \in KillAndPurge(World, id) : Become(v)
    BY <1>7 DEF Rm
  <2>2. SameReaps(mem, v.m) /\ v.m.live = mem.live \ {id}
    BY <1>0, <2>1, KillAndPurgeReaps
  <2> QED BY <1>0, <2>1, <2>2, ReapsStay DEF Become
<1>8. ASSUME NEW c \in Conns, NEW id \in Ids, StopLive(c, id) \/ Wait(c, id)
      PROVE  ReapsOK(mem')
  <2>1. mem'.live = mem.live /\ mem'.schedule = mem.schedule
    BY <1>0, <1>8 DEF StopLive, Wait, Park, MemType
  <2> QED BY <1>1, <2>1
<1>9. ASSUME NEW c \in Conns, NEW id \in Ids, Exec(c, id)
      PROVE  ReapsOK(mem')
  <2> DEFINE m == Park(mem, c, "Exec", id)
  <2>1. MemOK(m) /\ m.live = mem.live
    BY <1>0, <1>9, ParkEffects DEF Exec
  <2>2. m.schedule = mem.schedule
    BY <1>0 DEF Park, MemType
  <2>3. mem' = schedule_idle_reap(m, id)
    BY <1>9 DEF Exec
  <2> HIDE DEF m
  <2>4. mem'.live = mem.live
    BY <2>1, <2>3, TimerEffects DEF TaskKinds
  <2>5. /\ \A i \in Ids \ {id} : SameReap(mem, mem', i)
        /\ IF id \in IdleLimited THEN mem'.schedule[Reap(id)] = 1 ELSE SameReap(mem, mem', id)
    BY <2>1, <2>2, <2>3, NewReap DEF SameReap
  <2> QED BY <1>0, <2>4, <2>5 DEF ReapsOK, SameReap
<1>10. ASSUME NEW c \in Conns, CloseConn(c) \/ ExecExit(c)
       PROVE  ReapsOK(mem')
  <2>1. mem'.live = mem.live /\ mem'.schedule = mem.schedule
    BY <1>0, <1>10 DEF CloseConn, ExecExit, Answer, MemType
  <2> QED BY <1>1, <2>1
<1>11. ASSUME NEW id \in Ids, StopNotLive(id) \/ Kill(id) \/ ProcDies(id)
       PROVE  ReapsOK(mem')
  BY <1>11 DEF StopNotLive, Kill, ProcDies
<1>12. ASSUME NEW id \in Ids, OnPidfd(id)
       PROVE  ReapsOK(mem')
  <2> DEFINE code == IF mem.entry[id].child THEN host.status[id] ELSE "unknown"
  <2>1. PICK v \in on_exit(World, id, code) : Become(v)
    BY <1>12 DEF OnPidfd
  <2> HIDE DEF code
  <2>2. SameReaps(mem, v.m) /\ v.m.live = mem.live \ {id}
    BY <1>0, <2>1, ExitWorldReaps
  <2> QED BY <1>0, <2>1, <2>2, ReapsStay DEF Become
<1>13. ASSUME NEW kind \in TaskKinds, NEW id \in Ids, Due(kind, id)
       PROVE  LET w == [World EXCEPT !.m = Remove(@, kind, id)]
              IN  /\ WorldOK(w) /\ w.h = host /\ w.m.live = mem.live
                  /\ kind \in {"Relaunch", "RemoveExited"} => SameReaps(mem, w.m)
                  /\ \A t \in TaskKinds \X Ids :
                        t # <<kind, id>> => w.m.schedule[t] = mem.schedule[t]
  <2> DEFINE r == Remove(mem, kind, id)
  <2>1. MemOK(r) /\ r.live = mem.live
    BY <1>0, <1>13, TimerEffects DEF Due
  <2>2. [World EXCEPT !.m = Remove(@, kind, id)] = [h |-> host, m |-> r]
    BY DEF World
  <2>3. kind \in {"Relaunch", "RemoveExited"} => SameReaps(mem, r)
    BY <1>0, <1>13, OtherTimers
  <2>4. \A t \in TaskKinds \X Ids : t # <<kind, id>> => r.schedule[t] = mem.schedule[t]
    <3>1. r.schedule = [mem.schedule EXCEPT ![<<kind, id>>] = @ - 1]
      BY <1>0 DEF Remove, MemType
    <3>2. mem.schedule \in [TaskKinds \X Ids -> 0..MaxTasks]
      BY <1>0 DEF MemType
    <3> QED BY <3>1, <3>2
  <2>5. HostOK(host) /\ mem.live \subseteq host.stored
    BY DEF LifecycleInv
  <2> HIDE DEF r
  <2> QED BY <2>1, <2>2, <2>3, <2>4, <2>5 DEF WorldOK
<1>14. TaskKinds = {"Relaunch", "RemoveExited", "ReapIdle", "StaleReapIdle"}
  BY DEF TaskKinds
<1>15. ASSUME NEW id \in Ids, TimerRelaunch(id)
       PROVE  ReapsOK(mem')
  <2> DEFINE w == [World EXCEPT !.m = Remove(@, "Relaunch", id)]
  <2>1. WorldOK(w) /\ w.h = host /\ w.m.live = mem.live /\ SameReaps(mem, w.m)
    BY <1>13, <1>14, <1>15 DEF TimerRelaunch
  <2>2. \/ /\ id \in host.stored \ mem.live
           /\ \E v \in LaunchSucceeds(w, id) \cup LaunchFails(w, id) : Become(v)
        \/ Become(w)
    BY <1>15 DEF TimerRelaunch
  <2> HIDE DEF w
  <2>3. ReapsOK(w.m)
    BY <1>0, <2>1, ReapsStay
  <2> QED BY <1>2, <2>1, <2>2, <2>3 DEF Become
<1>16. ASSUME NEW id \in Ids, TimerRemoveExited(id)
       PROVE  ReapsOK(mem')
  <2> DEFINE w == [World EXCEPT !.m = Remove(@, "RemoveExited", id)]
  <2>1. WorldOK(w) /\ w.m.live = mem.live /\ SameReaps(mem, w.m)
    BY <1>13, <1>14, <1>16 DEF TimerRemoveExited
  <2>2. Become(purge(w, id)) \/ Become(w)
    BY <1>16 DEF TimerRemoveExited
  <2> HIDE DEF w
  <2>3. purge(w, id).m = w.m
    <3>1. w = [h |-> w.h, m |-> w.m]
      BY <2>1 DEF WorldOK
    <3> QED BY <3>1 DEF purge
  <2>4. ReapsOK(w.m)
    BY <1>0, <2>1, ReapsStay
  <2> QED BY <2>2, <2>3, <2>4 DEF Become
<1>17. ASSUME NEW id \in Ids, TimerReapIdle(id)
       PROVE  ReapsOK(mem')
  <2>1. PICK kind \in {"ReapIdle", "StaleReapIdle"} :
          /\ Due(kind, id)
          /\ LET w == [World EXCEPT !.m = Remove(@, kind, id)]
             IN  \/ \E v \in KillAndPurge(w, id) : Become(v)
                 \/ (id \notin mem.live \/ kind = "StaleReapIdle") /\ Become(w)
    BY <1>17 DEF TimerReapIdle
  <2> DEFINE w == [World EXCEPT !.m = Remove(@, kind, id)]
  <2>2. /\ WorldOK(w) /\ w.m.live = mem.live
        /\ \A t \in TaskKinds \X Ids : t # <<kind, id>> => w.m.schedule[t] = mem.schedule[t]
    BY <1>13, <1>14, <2>1
  <2>3. \/ \E v \in KillAndPurge(w, id) : Become(v)
        \/ (id \notin mem.live \/ kind = "StaleReapIdle") /\ Become(w)
    BY <2>1
  <2> HIDE DEF w
  <2>4. id \in IdleLimited
    <3>1. mem.schedule[<<kind, id>>] > 0 /\ <<kind, id>> \in {Reap(id), Stale(id)}
      BY <2>1 DEF Due, Reap, Stale
    <3> HIDE DEF w
    <3>2. ASSUME id \notin IdleLimited PROVE mem.schedule[<<kind, id>>] = 0
      BY <3>1, <3>2 DEF ReapsOK
    <3> QED BY <3>1, <3>2
  <2>5. \A i \in Ids \ {id} : SameReap(mem, w.m, i)
    BY <1>14, <2>2 DEF SameReap, Reap, Stale
  <2>6. ASSUME NEW m, SameReaps(w.m, m), m.live = mem.live \ {id}
        PROVE  ReapsOK(m)
    BY <1>0, <2>4, <2>5, <2>6 DEF ReapsOK, SameReaps, SameReap
  <2>7. ASSUME NEW v \in KillAndPurge(w, id), Become(v)
        PROVE  ReapsOK(mem')
    BY <2>2, <2>6, <2>7, KillAndPurgeReaps DEF Become
  <2>8. CASE id \notin mem.live /\ Become(w)
    BY <2>2, <2>6, <2>8 DEF Become, SameReaps, SameReap
  <2>9. CASE kind = "StaleReapIdle" /\ Become(w)
    <3>1. w.m.schedule[Reap(id)] = mem.schedule[Reap(id)]
      BY <1>14, <2>2, <2>9 DEF Reap
    <3> QED BY <1>0, <2>2, <2>4, <2>5, <2>9, <3>1 DEF ReapsOK, SameReap, Become
  <2> QED BY <2>3, <2>7, <2>8, <2>9
<1>18. ASSUME NEW id \in Ids, TimerSignal(id) \/ TimerKill(id)
       PROVE  ReapsOK(mem')
  <2>1. mem'.live = mem.live /\ mem'.schedule = mem.schedule
    BY <1>0, <1>18 DEF TimerSignal, TimerKill, MemType
  <2> QED BY <1>1, <2>1
<1>19. CASE StartDaemon
  <2>1. PICK vanished \in SUBSET Adoptable(host) :
          mem' = adopt(MemInit, Adoptable(host) \ vanished)
    BY <1>19 DEF StartDaemon
  <2> DEFINE ids == Adoptable(host) \ vanished
             S == [t \in TaskKinds \X Ids |->
                     IF t[1] = "ReapIdle" /\ t[2] \in ids \cap IdleLimited THEN 1 ELSE 0]
  <2>2. mem'.live = ids /\ mem'.schedule = S
    BY <2>1 DEF adopt, MemInit
  <2>3. ids \subseteq Ids
    BY DEF Adoptable, LifecycleInv, HostOK, HostType
  <2>4. ASSUME NEW i \in Ids
        PROVE  /\ i \in ids \cap IdleLimited => S[Reap(i)] = 1
               /\ i \notin IdleLimited => S[Reap(i)] = 0 /\ S[Stale(i)] = 0
    <3>1. Reap(i) \in TaskKinds \X Ids /\ Stale(i) \in TaskKinds \X Ids
      BY <1>14 DEF Reap, Stale
    <3>2. Reap(i)[1] = "ReapIdle" /\ Reap(i)[2] = i /\ Stale(i)[1] = "StaleReapIdle"
      BY DEF Reap, Stale
    <3> HIDE DEF ids
    <3> QED BY <3>1, <3>2
  <2> HIDE DEF ids, S
  <2> QED BY <2>2, <2>3, <2>4 DEF ReapsOK
<1>20. CASE Faults /\ ~StartDaemon
  BY <1>3, <1>20 DEF Faults, Crash, Reboot, CrashInLaunch, CrashInExit, CrashInPurge
<1>21. CASE UNCHANGED vars
  BY <1>21 DEF vars
<1>22. CASE Requests
  BY <1>22, <1>4, <1>5, <1>6, <1>7, <1>8, <1>9, <1>10, <1>11 DEF Requests
<1>23. CASE Events
  BY <1>23, <1>10, <1>11, <1>12, <1>15, <1>16, <1>17, <1>18 DEF Events
<1> QED BY <1>19, <1>20, <1>21, <1>22, <1>23 DEF Next

\* The reap timers are in order in every reachable state.
LEMMA ReapsInductive ==
    /\ Init => ReapsOK(mem)
    /\ LifecycleInv /\ ReapsOK(mem) /\ [Next]_vars => ReapsOK(mem)'
<1>1. Init => ReapsOK(mem)
  BY DEF Init, ReapsOK, MemInit, Reap, Stale, TaskKinds
<1> QED BY <1>1, ReapsStep

\* A live container with an idle timeout always has its newest reap timer
\* pending: no exec, no stale timer, no relaunch and no restart of the daemon
\* leaves one that the idle reaper will never look at.
THEOREM IdleReapArmed == Spec => []ReapArmed
<1>1. ReapsOK(mem) => ReapArmed
  BY DEF ReapsOK, ReapArmed, Reap
<1> QED BY <1>1, ReapsInductive, LifecycleInductive, PTL DEF Spec

-----------------------------------------------------------------------------
(* Restarts and removals.                                                  *)

\* The start of the daemon leaves nothing half-made behind: what it does not
\* adopt has no run directories, no cgroup in the way of its next launch and no
\* running process that is not killed; and no other step starts the daemon.
THEOREM StartLeavesNothing == Spec => CleanStart
<1> DEFINE Clean ==
        ~up /\ up' =>
          \A id \in (Ids \ mem'.live) \ abandoned' :
              /\ id \notin host'.dirs
              /\ id \in host'.stored => id \in Persistent /\ id \notin host'.cgroup
              /\ host'.procs[id] > 0 /\ id \in host'.cgroup => id \in host'.killed
<1>1. ASSUME LifecycleInv, StartDaemon
      PROVE  Clean
  <2>1. PICK vanished \in SUBSET Adoptable(host), busy \in SUBSET Unknown(host) :
          /\ host' = Reconciled(host, vanished, busy)
          /\ mem' = adopt(MemInit, Adoptable(host) \ vanished)
          /\ abandoned' = vanished
    BY <1>1 DEF StartDaemon
  <2>2. host \in HostType
    BY <1>1 DEF LifecycleInv, HostOK
  <2>3. /\ host'.stored = host.stored \cap (Persistent \cup Adoptable(host))
        /\ host'.dirs = host.dirs \cap Adoptable(host)
        /\ host'.cgroup = host.cgroup \cap (Adoptable(host) \cup busy)
        /\ host'.killed = (host.killed \cap Adoptable(host)) \cup busy
    BY <2>1, <2>2 DEF Reconciled, HostType
  <2>4. mem'.live = Adoptable(host) \ vanished
    BY <2>1 DEF adopt, MemInit
  <2>5. busy \cap host.stored = {}
    BY DEF Unknown
  <2> QED BY <2>1, <2>3, <2>4, <2>5
<1>2. ASSUME LifecycleInv, [Next]_vars, ~up, up'
      PROVE  StartDaemon
  <2>1. ~Requests
    BY <1>2 DEF Requests, Run, Start, Restart, Stopped, StopNotLive, Kill, Rm, StopLive, Wait, Exec,
                CloseConn
  <2>2. ~Events
    BY <1>2 DEF Events, OnPidfd, ProcDies, TimerRelaunch, TimerRemoveExited, TimerReapIdle,
                TimerSignal, TimerKill, ExecExit
  <2>3. Faults
    BY <1>2, <2>1, <2>2 DEF Next, vars
  <2> QED BY <1>2, <2>3 DEF Faults, Crash, Reboot, CrashInLaunch, CrashInExit, CrashInPurge, Down
<1>3. LifecycleInv /\ [Next]_vars => [Clean]_vars
  BY <1>1, <1>2
<1> QED BY <1>3, LifecycleInductive, PTL DEF Spec, CleanStart

\* What a step leaves in the store, apart from rm: everything that is persistent
\* and has no idle timeout.
LEMMA StoredStep ==
    ASSUME LifecycleInv, ReapsOK(mem), [Next]_vars,
           NEW id \in Persistent \ IdleLimited, id \in host.stored,
           ~CrashInPurge(id), ~\E force \in BOOLEAN : Rm(id, force)
    PROVE  id \in host'.stored
<1>0. /\ WorldOK(World) /\ HostOK(host) /\ MemOK(mem) /\ mem \in MemType /\ host \in HostType
      /\ World = [h |-> host, m |-> mem] /\ World.h = host /\ World.m = mem
      /\ mem.live \subseteq host.stored
  BY DEF LifecycleInv, WorldOK, World, HostOK, MemOK
<1>1. ASSUME NEW w, WorldOK(w), NEW j \in Ids, j \in w.h.stored, j \notin w.m.live,
             NEW v \in LaunchSucceeds(w, j) \cup LaunchFails(w, j)
      PROVE  WorldOK(v) /\ v.h.stored = w.h.stored
  BY <1>1, LaunchWorld
<1>2. ASSUME NEW j \in Ids, Run(j)
      PROVE  id \in host'.stored
  <2> DEFINE w == Created(j)
             h == [host EXCEPT !.stored = @ \cup {j}]
             m == [mem EXCEPT !.restarts[j] = 0]
  <2>1. HostOK(h) /\ h.stored = host.stored \cup {j}
    BY <1>0 DEF HostOK, HostType
  <2>2. MemOK(m) /\ m.live = mem.live
    BY <1>0, BoundAssumption DEF MemOK, MemType
  <2>3. w = [h |-> h, m |-> m]
    BY DEF Created
  <2>4. j \notin mem.live /\ j \notin host.stored
    BY <1>2 DEF Run, Fresh
  <2>5. PICK v \in LaunchSucceeds(w, j) \cup {purge(u, j) : u \in LaunchFails(w, j)} : Become(v)
    BY <1>2 DEF Run
  <2> HIDE DEF w, h, m
  <2>6. WorldOK(w) /\ j \in w.h.stored /\ j \notin w.m.live /\ w.h.stored = host.stored \cup {j}
    BY <1>0, <2>1, <2>2, <2>3, <2>4 DEF WorldOK
  <2>7. CASE v \in LaunchSucceeds(w, j)
    BY <1>1, <2>5, <2>6, <2>7 DEF Become
  <2>8. ASSUME NEW u \in LaunchFails(w, j), v = purge(u, j)
        PROVE  id \in host'.stored
    <3>1. WorldOK(u) /\ u.h.stored = host.stored \cup {j} /\ j \notin u.m.live
      BY <2>6, LaunchWorld
    <3> QED BY <2>4, <2>5, <2>8, <3>1, PurgeWorld DEF Become
  <2> QED BY <2>5, <2>7, <2>8
<1>3. ASSUME NEW j \in Ids, Start(j) \/ Restart(j)
      PROVE  id \in host'.stored
  <2> DEFINE m == [mem EXCEPT !.user_stopped = @ \ {j}]
  <2>1. [World EXCEPT !.m.user_stopped = @ \ {j}] = [h |-> host, m |-> m]
    BY DEF World
  <2>2. PICK w \in {World, [h |-> host, m |-> m]} :
          \E v \in LaunchSucceeds(w, j) \cup LaunchFails(w, j) : Become(v)
    BY <1>3, <2>1 DEF Start, Restart
  <2>3. MemOK(m) /\ m.live = mem.live
    BY <1>0 DEF MemOK, MemType
  <2>4. j \in host.stored /\ j \notin mem.live
    BY <1>3 DEF Start, Restart, Stopped
  <2> HIDE DEF m
  <2>5. WorldOK(w) /\ w.h = host /\ w.m.live = mem.live
    BY <1>0, <2>2, <2>3 DEF WorldOK
  <2> QED BY <1>1, <2>2, <2>4, <2>5 DEF Become
<1>4. ASSUME NEW j \in Ids, NEW force \in BOOLEAN, Rm(j, force)
      PROVE  id \in host'.stored
  <2>1. PICK v \in KillAndPurge(World, j) : Become(v)
    BY <1>4 DEF Rm
  <2>2. j # id /\ v.h.stored = host.stored \ {j}
    BY <1>0, <1>4, <2>1, KillAndPurgeWorld
  <2> QED BY <2>1, <2>2 DEF Become
<1>5. ASSUME NEW j \in Ids, NEW c \in Conns,
             \/ StopNotLive(j) \/ StopLive(c, j) \/ Wait(c, j) \/ Exec(c, j)
             \/ CloseConn(c) \/ ExecExit(c) \/ TimerSignal(j)
      PROVE  id \in host'.stored
  BY <1>5 DEF StopNotLive, StopLive, Wait, Exec, CloseConn, ExecExit, TimerSignal
<1>6. ASSUME NEW j \in Ids, Kill(j) \/ TimerKill(j) \/ ProcDies(j)
      PROVE  id \in host'.stored
  <2>1. KillCgroup(host, j).stored = host.stored
    BY <1>0, FileEffects DEF Statuses
  <2>2. ProcDies(j) => host'.stored = host.stored
    BY <1>0 DEF ProcDies, HostType
  <2> QED BY <1>6, <2>1, <2>2 DEF Kill, TimerKill
<1>7. ASSUME NEW j \in Ids, OnPidfd(j)
      PROVE  id \in host'.stored
  <2> DEFINE code == IF mem.entry[j].child THEN host.status[j] ELSE "unknown"
  <2>1. code \in Statuses
    BY <1>0 DEF HostType, Statuses
  <2>2. PICK v \in on_exit(World, j, code) : Become(v)
    BY <1>7 DEF OnPidfd
  <2> HIDE DEF code
  <2> QED BY <1>0, <2>1, <2>2, ExitWorld DEF Become
<1>8. ASSUME NEW kind \in TaskKinds, NEW j \in Ids, Due(kind, j)
      PROVE  LET w == [World EXCEPT !.m = Remove(@, kind, j)]
             IN  WorldOK(w) /\ w.h = host /\ w.m.live = mem.live
  <2>1. MemOK(Remove(mem, kind, j)) /\ Remove(mem, kind, j).live = mem.live
    BY <1>0, <1>8, TimerEffects DEF Due
  <2>2. [World EXCEPT !.m = Remove(@, kind, j)] = [h |-> host, m |-> Remove(mem, kind, j)]
    BY DEF World
  <2> QED BY <1>0, <2>1, <2>2 DEF WorldOK
<1>9. TaskKinds = {"Relaunch", "RemoveExited", "ReapIdle", "StaleReapIdle"}
  BY DEF TaskKinds
<1>10. ASSUME NEW j \in Ids, TimerRelaunch(j)
       PROVE  id \in host'.stored
  <2> DEFINE w == [World EXCEPT !.m = Remove(@, "Relaunch", j)]
  <2>1. WorldOK(w) /\ w.h = host /\ w.m.live = mem.live
    BY <1>8, <1>9, <1>10 DEF TimerRelaunch
  <2>2. \/ /\ j \in host.stored \ mem.live
           /\ \E v \in LaunchSucceeds(w, j) \cup LaunchFails(w, j) : Become(v)
        \/ Become(w)
    BY <1>10 DEF TimerRelaunch
  <2> HIDE DEF w
  <2> QED BY <1>1, <2>1, <2>2 DEF Become
<1>11. ASSUME NEW j \in Ids, TimerRemoveExited(j)
       PROVE  id \in host'.stored
  <2> DEFINE w == [World EXCEPT !.m = Remove(@, "RemoveExited", j)]
  <2>1. WorldOK(w) /\ w.h = host /\ w.m.live = mem.live
    BY <1>8, <1>9, <1>11 DEF TimerRemoveExited
  <2>2. \/ j \notin mem.live /\ j # id /\ Become(purge(w, j))
        \/ Become(w)
    BY <1>11 DEF TimerRemoveExited
  <2> HIDE DEF w
  <2> QED BY <2>1, <2>2, PurgeWorld DEF Become
<1>12. ASSUME NEW j \in Ids, TimerReapIdle(j)
       PROVE  id \in host'.stored
  <2>1. PICK kind \in {"ReapIdle", "StaleReapIdle"} :
          /\ Due(kind, j)
          /\ LET w == [World EXCEPT !.m = Remove(@, kind, j)]
             IN  (\E v \in KillAndPurge(w, j) : Become(v)) \/ Become(w)
    BY <1>12 DEF TimerReapIdle
  <2> DEFINE w == [World EXCEPT !.m = Remove(@, kind, j)]
  <2>2. WorldOK(w) /\ w.h = host
    BY <1>8, <1>9, <2>1
  <2>3. (\E v \in KillAndPurge(w, j) : Become(v)) \/ Become(w)
    BY <2>1
  <2> HIDE DEF w
  <2>4. j # id
    <3>1. mem.schedule[<<kind, j>>] > 0 /\ <<kind, j>> \in {Reap(j), Stale(j)}
      BY <2>1 DEF Due, Reap, Stale
    <3>2. ASSUME j \notin IdleLimited PROVE mem.schedule[<<kind, j>>] = 0
      BY <3>1, <3>2 DEF ReapsOK
    <3> QED BY <3>1, <3>2
  <2> QED BY <2>2, <2>3, <2>4, KillAndPurgeWorld DEF Become
<1>13. CASE StartDaemon
  <2>1. PICK vanished \in SUBSET Adoptable(host), busy \in SUBSET Unknown(host) :
          host' = Reconciled(host, vanished, busy)
    BY <1>13 DEF StartDaemon
  <2>2. host'.stored = host.stored \cap (Persistent \cup Adoptable(host))
    BY <1>0, <2>1 DEF Reconciled, HostType
  <2> QED BY <2>2
<1>14. CASE Crash \/ Reboot
  BY <1>0, <1>14 DEF Crash, Reboot, Down, HostInit
<1>15. ASSUME NEW j \in Ids, CrashInLaunch(j)
       PROVE  id \in host'.stored
  <2> DEFINE h == [host EXCEPT !.stored = @ \cup {j}]
  <2>1. PICK g \in LaunchCut(h, j) : Down(g)
    BY <1>15 DEF CrashInLaunch
  <2>2. HostOK(h) /\ id \in h.stored
    BY <1>0 DEF HostOK, HostType
  <2> HIDE DEF h
  <2> QED BY <2>1, <2>2, LaunchHost DEF Down
<1>16. ASSUME NEW j \in Ids, CrashInExit(j)
       PROVE  id \in host'.stored
  <2> DEFINE code == IF mem.entry[j].child THEN host.status[j] ELSE "unknown"
             h == SetExit(host, j, code)
  <2>1. code \in Statuses
    BY <1>0 DEF HostType, Statuses
  <2>2. PICK g \in {h} \cup KillAndRemove(h, j) \cup cleanup_runtime(h, j) : Down(g)
    BY <1>16 DEF CrashInExit
  <2> HIDE DEF code
  <2>3. HostOK(h) /\ h.stored = host.stored
    BY <1>0, <2>1, FileEffects
  <2> HIDE DEF h
  <2> QED BY <2>2, <2>3, CleanupEffects DEF Down
<1>17. ASSUME NEW j \in Ids, CrashInPurge(j)
       PROVE  id \in host'.stored
  <2>1. j # id /\ StoreRemove(host, j).stored = host.stored \ {j}
    BY <1>0, <1>17, FileEffects DEF Statuses
  <2> QED BY <1>17, <2>1 DEF CrashInPurge, Down
<1>18. CASE UNCHANGED vars
  BY <1>18 DEF vars
<1>19. id \in Ids
  BY SpecAssumption
<1>20. CASE Requests
  BY <1>20, <1>2, <1>3, <1>4, <1>5, <1>6 DEF Requests, StopNotLive, CloseConn
<1>21. CASE Events
  BY <1>21, <1>5, <1>6, <1>7, <1>10, <1>11, <1>12 DEF Events, TimerSignal, ExecExit
<1>22. CASE Faults
  BY <1>22, <1>13, <1>14, <1>15, <1>16, <1>17 DEF Faults
<1> QED BY <1>18, <1>20, <1>21, <1>22 DEF Next

\* A persistent container without an idle timeout is lost to nothing but an rm
\* of it: not to an exit, a timer, a failed launch, a crash at any point of a
\* handler, a restart of the daemon or a reboot of the host.
THEOREM OnlyRmLoses == Spec => PersistentKept
<1> DEFINE Lost(id) == CrashInPurge(id) \/ \E force \in BOOLEAN : Rm(id, force)
           Kept == \A id \in Persistent \ IdleLimited : id \in host.stored \ host'.stored => Lost(id)
<1>1. LifecycleInv /\ ReapsOK(mem) /\ [Next]_vars => [Kept]_vars
  BY StoredStep
<1> QED BY <1>1, ReapsInductive, LifecycleInductive, PTL DEF Spec, PersistentKept
=============================================================================
