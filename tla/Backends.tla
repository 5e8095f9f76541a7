------------------------------ MODULE Backends ------------------------------
(***************************************************************************)
(* Which containers receive traffic: the health trackers of collocated,    *)
(* the exec probes that report to them, and the nft table that             *)
(* flush_firewall replaces at the end of every batch of events.            *)
(*                                                                         *)
(* A handler that changes who should receive traffic only sets fw_dirty.   *)
(* Any number of handlers may run before the batch ends (Flush), and the   *)
(* table outlives the daemon.  An exec probe is a process beside the       *)
(* container: its end is an event of its own, which may be handled when    *)
(* the container it probed has been replaced by another launch.            *)
(***************************************************************************)
EXTENDS Naturals

CONSTANTS
    Ids,             \* container ids
    Balancers,       \* load balancers that clients may set
    Serves,          \* for each, the ids whose labels match its project and service
    Published,       \* ids whose spec publishes ports
    CheckKind,       \* health check of each id: "none", "net" (tcp, http, pebble), "exec"
    Retries          \* retries of the health checks

ASSUME BackendsAssumption ==
    /\ Serves \in [Balancers -> SUBSET Ids]
    /\ Published \subseteq Ids
    /\ CheckKind \in [Ids -> {"none", "net", "exec"}]
    /\ Retries \in Nat

VARIABLES
    up,        \* the daemon is running
    alive,     \* ids whose init runs
    sick,      \* ids whose health check would fail
    live,      \* Daemon.live
    stopping,  \* live ids with stop_requested
    tracker,   \* HealthTracker of each live id, NoTracker without a health check
    probe,     \* the health probe in flight of each id
    lbs,       \* Daemon.lbs, and its files
    fw_dirty,
    nft,       \* the rules in the kernel
    stale,     \* ghost: the last run of nft by this daemon failed
    leftover   \* ghost: balancers that init removed while the rules were current,
               \* since nft last ran

vars == <<up, alive, sick, live, stopping, tracker, probe, lbs, fw_dirty, nft, stale, leftover>>

-----------------------------------------------------------------------------
(* HealthTracker.                                                          *)

retries == IF Retries > 1 THEN Retries ELSE 1

NoTracker == [state |-> "none", consecutive_failures |-> 0]
Trackers == [state : {"none", "starting", "healthy", "unhealthy"},
             consecutive_failures : 0..retries]

NewTracker(c) ==
    IF CheckKind[c] = "none" THEN NoTracker
    ELSE [state |-> "starting", consecutive_failures |-> 0]

\* Mutant: only a container that was never healthy becomes unhealthy.
MutRecord(t, ok) ==
    IF ok THEN [state |-> "healthy", consecutive_failures |-> 0]
    ELSE LET n == IF t.consecutive_failures < retries THEN t.consecutive_failures + 1 ELSE retries
         IN  [state |-> IF n >= retries /\ t.state # "healthy" THEN "unhealthy" ELSE t.state,
              consecutive_failures |-> n]

\* The count of failures in a row saturates at retries, from where on it only
\* says that the container is unhealthy.
record(t, ok) ==
    IF ok THEN [state |-> "healthy", consecutive_failures |-> 0]
    ELSE LET n == IF t.consecutive_failures < retries THEN t.consecutive_failures + 1 ELSE retries
         IN  [state |-> IF n >= retries THEN "unhealthy" ELSE t.state,
              consecutive_failures |-> n]

\* The health probe of an id: none, running, or ended and not yet handled.
Probes == {"none", "running", "ok", "failed"}

-----------------------------------------------------------------------------
(* The rules.                                                              *)

Serving(c) == c \in live \ stopping /\ tracker[c].state \in {"none", "healthy"}

backends(l) == {c \in Serves[l] : Serving(c)}

NoRules == [ports |-> {}, lbs |-> [l \in Balancers |-> [set |-> FALSE, backends |-> {}]]]

ruleset ==
    [ports |-> Published \cap live,
     lbs |-> [l \in Balancers |->
                [set |-> l \in lbs, backends |-> IF l \in lbs THEN backends(l) ELSE {}]]]

\* Ids that the kernel's rules send connections to.
Rotation == UNION {nft.lbs[l].backends : l \in Balancers}

-----------------------------------------------------------------------------
(* Handlers.                                                               *)

\* launch, from run, start, restart or a timer.
Launch(c) ==
    /\ up /\ c \notin live /\ c \notin alive
    /\ alive' = alive \cup {c} /\ live' = live \cup {c}
    /\ tracker' = [tracker EXCEPT ![c] = NewTracker(c)]
    /\ fw_dirty' = TRUE
    /\ UNCHANGED <<up, sick, stopping, probe, lbs, nft, stale, leftover>>

\* The processes of a container that is killed take a running probe with them.
Orphaned(p) == IF p = "running" THEN "failed" ELSE p

\* on_exit, of an init that ended or that reap_blocking killed.
OnExit(c) ==
    /\ up /\ c \in live
    /\ live' = live \ {c} /\ alive' = alive \ {c}
    /\ stopping' = stopping \ {c} /\ tracker' = [tracker EXCEPT ![c] = NoTracker]
    /\ probe' = [probe EXCEPT ![c] = Orphaned(@)]
    /\ fw_dirty' = TRUE
    /\ UNCHANGED <<up, sick, lbs, nft, stale, leftover>>

\* Mutant: a stop does not mark the rules as out of date.
MutStop(c) ==
    /\ up /\ c \in live /\ c \notin stopping
    /\ stopping' = stopping \cup {c}
    /\ UNCHANGED <<up, alive, sick, live, tracker, probe, lbs, fw_dirty, nft, stale, leftover>>

\* op_stop: out of the rules first, the signal follows after the drain time.
Stop(c) ==
    /\ up /\ c \in live /\ c \notin stopping
    /\ stopping' = stopping \cup {c}
    /\ fw_dirty' = TRUE
    /\ UNCHANGED <<up, alive, sick, live, tracker, probe, lbs, nft, stale, leftover>>

LbSet(l) ==
    /\ up
    /\ lbs' = lbs \cup {l} /\ fw_dirty' = TRUE
    /\ UNCHANGED <<up, alive, sick, live, stopping, tracker, probe, nft, stale, leftover>>

LbRemove(l) ==
    /\ up /\ l \in lbs
    /\ lbs' = lbs \ {l} /\ fw_dirty' = TRUE
    /\ UNCHANGED <<up, alive, sick, live, stopping, tracker, probe, nft, stale, leftover>>

\* op_init, of another subnet or bridge, with force: every live container is
\* killed and leaves through on_exit; a kill or a purge that fails ends the
\* command.  Then every balancer is removed, and fw_dirty is not set for it.
\* When the node and the configuration are written, the daemon ends with its
\* batch (Flush, Crash) and is executed again; when that fails, it goes on.
op_init(killed) ==
    /\ up
    /\ killed \subseteq live
    /\ alive' = alive \ killed /\ live' = live \ killed /\ stopping' = stopping \ killed
    /\ tracker' = [c \in Ids |-> IF c \in killed THEN NoTracker ELSE tracker[c]]
    /\ probe' = [c \in Ids |-> IF c \in killed THEN Orphaned(probe[c]) ELSE probe[c]]
    /\ fw_dirty' = (fw_dirty \/ killed # {})
    /\ \/ UNCHANGED <<lbs, leftover>>
       \/ /\ killed = live
          /\ lbs' = {}
          /\ leftover' = IF fw_dirty' THEN leftover ELSE leftover \cup lbs
    /\ UNCHANGED <<up, sick, nft, stale>>

-----------------------------------------------------------------------------
(* Health checks.                                                          *)

\* The result of a check.
record_health(c, ok) ==
    IF c \in live /\ CheckKind[c] # "none"
    THEN LET t == record(tracker[c], ok)
         IN  /\ tracker' = [tracker EXCEPT ![c] = t]
             /\ fw_dirty' = (fw_dirty \/ t.state # tracker[c].state)
    ELSE UNCHANGED <<tracker, fw_dirty>>

\* check_health, of a check that the daemon makes itself.
CheckNet(c) ==
    /\ up /\ c \in live /\ CheckKind[c] = "net"
    /\ record_health(c, c \in alive \ sick)
    /\ UNCHANGED <<up, alive, sick, live, stopping, probe, lbs, nft, stale, leftover>>

\* check_health, of a check that needs a process; no second one is started
\* while one is in flight.
SpawnProbe(c) ==
    /\ up /\ c \in live /\ CheckKind[c] = "exec" /\ probe[c] = "none"
    /\ \/ /\ probe' = [probe EXCEPT ![c] = "running"]
          /\ UNCHANGED <<tracker, fw_dirty>>
       \/ /\ record_health(c, FALSE)
          /\ UNCHANGED probe
    /\ UNCHANGED <<up, alive, sick, live, stopping, lbs, nft, stale, leftover>>

\* The probe's process ends, by itself or killed at its deadline.
ProbeEnds(c) ==
    /\ probe[c] = "running"
    /\ \E r \in IF c \in alive \ sick THEN {"ok", "failed"} ELSE {"failed"} :
          probe' = [probe EXCEPT ![c] = r]
    /\ UNCHANGED <<up, alive, sick, live, stopping, tracker, lbs, fw_dirty, nft, stale, leftover>>

\* on_pidfd, of a probe: the result goes to whatever container has the id.
ProbeResult(c) ==
    /\ up /\ probe[c] \in {"ok", "failed"}
    /\ probe' = [probe EXCEPT ![c] = "none"]
    /\ record_health(c, probe[c] = "ok")
    /\ UNCHANGED <<up, alive, sick, live, stopping, lbs, nft, stale, leftover>>

-----------------------------------------------------------------------------
(* The firewall, crashes and the world.                                    *)

\* fw_dirty is cleared before nft runs, and its failure is only logged.
RunNft(rules) ==
    \/ nft' = rules /\ stale' = FALSE /\ leftover' = {}
    \/ stale' = TRUE /\ UNCHANGED <<nft, leftover>>

\* flush_firewall, at the end of a batch of events.
Flush ==
    /\ up /\ fw_dirty
    /\ fw_dirty' = FALSE
    /\ RunNft(ruleset)
    /\ UNCHANGED <<up, alive, sick, live, stopping, tracker, probe, lbs>>

\* The daemon's memory is lost, and nobody waits for its probes any more.
Forgotten ==
    /\ up' = FALSE /\ live' = {} /\ stopping' = {} /\ fw_dirty' = FALSE
    /\ stale' = FALSE /\ leftover' = {}
    /\ tracker' = [c \in Ids |-> NoTracker]
    /\ probe' = [c \in Ids |-> "none"]

\* The daemon ends, or crashes; containers, load balancer files and rules stay.
Crash ==
    /\ up /\ Forgotten
    /\ UNCHANGED <<alive, sick, lbs, nft>>

\* The host restarts: no process and no rule is left.
Reboot ==
    /\ Forgotten
    /\ alive' = {} /\ nft' = NoRules
    /\ UNCHANGED <<sick, lbs>>

\* Daemon::new: load_lbs, adopt what runs, each with a new tracker, and flush.
StartDaemon ==
    /\ ~up /\ up' = TRUE
    /\ live' = alive
    /\ tracker' = [c \in Ids |-> IF c \in alive THEN NewTracker(c) ELSE NoTracker]
    /\ UNCHANGED <<alive, sick, stopping, probe, lbs, fw_dirty>>
    /\ RunNft(ruleset')

\* An init ends.
ProcDies(c) ==
    /\ c \in alive /\ alive' = alive \ {c}
    /\ probe' = [probe EXCEPT ![c] = Orphaned(@)]
    /\ UNCHANGED <<up, sick, live, stopping, tracker, lbs, fw_dirty, nft, stale, leftover>>

\* The service of a container breaks or recovers.
ServiceChanges(c) ==
    /\ CheckKind[c] # "none"
    /\ sick' = IF c \in sick THEN sick \ {c} ELSE sick \cup {c}
    /\ UNCHANGED <<up, alive, live, stopping, tracker, probe, lbs, fw_dirty, nft, stale, leftover>>

-----------------------------------------------------------------------------

Init ==
    /\ up = FALSE /\ alive = {} /\ sick = {} /\ live = {} /\ stopping = {}
    /\ tracker = [c \in Ids |-> NoTracker]
    /\ probe = [c \in Ids |-> "none"]
    /\ lbs = {} /\ fw_dirty = FALSE /\ nft = NoRules
    /\ stale = FALSE /\ leftover = {}

Next ==
    \/ \E c \in Ids :
         \/ Launch(c) \/ OnExit(c) \/ Stop(c)
         \/ CheckNet(c) \/ SpawnProbe(c) \/ ProbeEnds(c) \/ ProbeResult(c)
         \/ ProcDies(c) \/ ServiceChanges(c)
    \/ \E l \in Balancers : LbSet(l) \/ LbRemove(l)
    \/ \E killed \in SUBSET Ids : op_init(killed)
    \/ Flush \/ Crash \/ StartDaemon \/ Reboot

\* Batches end, timers run checks, and processes that ended are noticed; a probe
\* ends at its deadline at the latest.
Fairness ==
    /\ WF_vars(Flush)
    /\ \A c \in Ids :
         /\ WF_vars(c \notin alive /\ OnExit(c))
         /\ WF_vars(CheckNet(c) \/ SpawnProbe(c))
         /\ WF_vars(ProbeEnds(c) \/ ProbeResult(c))

Spec == Init /\ [][Next]_vars
FairSpec == Spec /\ Fairness

-----------------------------------------------------------------------------
(* Correctness.                                                            *)

\* Every variable has its type.
TypeOK ==
    /\ up \in BOOLEAN /\ fw_dirty \in BOOLEAN /\ stale \in BOOLEAN
    /\ alive \subseteq Ids /\ sick \subseteq Ids /\ live \subseteq Ids /\ stopping \subseteq Ids
    /\ lbs \subseteq Balancers /\ leftover \subseteq Balancers
    /\ tracker \in [Ids -> Trackers]
    /\ probe \in [Ids -> Probes]

\* Between batches the kernel's rules are the ones that the daemon's state calls
\* for, unless nft failed: no handler, and no start of the daemon, changes who
\* should receive traffic and forgets fw_dirty.  Only a balancer that op_init
\* removed, when it failed afterwards, may keep its rule until nft runs again, and
\* that rule has no backends.
RulesCurrent ==
    up /\ ~fw_dirty /\ ~stale =>
        /\ nft.ports = ruleset.ports
        /\ \A l \in Balancers : nft.lbs[l].backends = ruleset.lbs[l].backends
        /\ \A l \in Balancers \ leftover : nft.lbs[l] = ruleset.lbs[l]

\* A container that stays gone or stopping, and one that fails its checks for as
\* long as it runs, comes to receive no connections from a load balancer while
\* the daemon is up, unless nft failed to install the rules.
UnfitLeaves ==
    \A c \in Ids :
        LET Left == c \notin Rotation \/ ~up \/ stale
        IN  /\ c \notin live \ stopping ~> c \in live \ stopping \/ Left
            /\ c \in live \cap sick ~> c \notin live \cap sick \/ Left
=============================================================================
