----------------------------- MODULE Controller -----------------------------
(***************************************************************************)
(* collocate-controller and one service: the compose file, the replicas    *)
(* that the daemon runs, and the controller's memory, which a restart      *)
(* loses.  A tick first observes the replicas and decides (Observe), then  *)
(* performs what it decided call by call (Drain, Start) while the replicas *)
(* go on changing; an error of the daemon ends a tick (Abort).             *)
(***************************************************************************)
EXTENDS Rollout

CONSTANTS
    Revisions,    \* revisions of the service that the file may hold
    Bad,          \* those whose replicas become unhealthy
    HasDeadline,  \* the progress deadline is within reach
    HasDelay,     \* the policy has a delay between steps
    MaxEdits,     \* bound: edits of the file
    MaxTroubles   \* bound: replicas that exit or disappear, ticks ended by an
                  \* error and restarts of the controller, taken together

ASSUME ControllerAssumption == HasDelay \in BOOLEAN

CRASH_LIMIT == 3

VARIABLES
    file,     \* the revision of the service in the compose file
    rep,      \* the container of each index
    ctl,      \* the controller's memory about the service
    plan,     \* what is left of the tick: containers to drain and to start
    spent,    \* edits, faults, errors and restarts so far
    served    \* ghost: the service was fully up once

vars == <<file, rep, ctl, plan, spent, served>>

NoReplica == [rev |-> "", state |-> "none"]
Health == {"starting", "healthy", "unhealthy"}
Live == {i \in Indexes : rep[i].state \in Health}

\* since: what healthy_since says of the container of that name; `long' is for
\* min_ready_secs or more.
Fresh == [applied |-> "", previous |-> "", rejected |-> "", rollout |-> "none",
          paused |-> FALSE, crashes |-> 0, early |-> FALSE,
          since |-> [i \in Indexes |-> "never"]]

-----------------------------------------------------------------------------
(* The world around the controller.                                        *)

Troubles == spent.faults + spent.errors + spent.restarts

\* main reloads the file between two ticks.
EditFile(r) ==
    /\ spent.edits < MaxEdits /\ r # file /\ plan = Nothing
    /\ file' = r
    /\ spent' = [spent EXCEPT !.edits = @ + 1]
    /\ UNCHANGED <<rep, ctl, plan, served>>

\* A replica gets through its health checks, or does not.
Checked(i) ==
    /\ rep[i].state = "starting"
    /\ rep' = [rep EXCEPT ![i].state = IF rep[i].rev \in Bad THEN "unhealthy" ELSE "healthy"]
    /\ UNCHANGED <<file, ctl, plan, spent, served>>

\* A replica exits, and is removed by the next observation.
Exit(i) ==
    /\ Troubles < MaxTroubles /\ rep[i].state \in Health
    /\ rep' = [rep EXCEPT ![i].state = "exited"]
    /\ spent' = [spent EXCEPT !.faults = @ + 1]
    /\ UNCHANGED <<file, ctl, plan, served>>

\* A replica is gone before the controller saw it exit.
Vanish(i) ==
    /\ Troubles < MaxTroubles /\ rep[i].state \in Health \cup {"exited"}
    /\ rep' = [rep EXCEPT ![i] = NoReplica]
    /\ spent' = [spent EXCEPT !.faults = @ + 1]
    /\ UNCHANGED <<file, ctl, plan, served>>

\* Time passes: min_ready_secs, the delay between steps, the progress deadline.
MinReadyPasses(i) ==
    /\ ctl.since[i] = "now"
    /\ ctl' = [ctl EXCEPT !.since[i] = "long"]
    /\ UNCHANGED <<file, rep, plan, spent, served>>

DelayPasses ==
    /\ ctl.early
    /\ ctl' = [ctl EXCEPT !.early = FALSE]
    /\ UNCHANGED <<file, rep, plan, spent, served>>

DeadlinePasses ==
    /\ HasDeadline /\ ctl.rollout = "started"
    /\ ctl' = [ctl EXCEPT !.rollout = "late"]
    /\ UNCHANGED <<file, rep, plan, spent, served>>

-----------------------------------------------------------------------------
(* A tick.                                                                 *)

\* The file's revision is applied, unless it is the one last rolled back from.
Applied(c) ==
    IF c.applied = "" THEN [c EXCEPT !.applied = file]
    ELSE IF c.applied # file /\ c.rejected # file
    THEN [c EXCEPT !.applied = file, !.previous = c.applied, !.rollout = "started",
                   !.crashes = 0]
    ELSE c

Exited == {i \in Indexes : rep[i].state = "exited"}

\* observe: exited containers are removed, and counted when they are of the
\* target revision; since is kept for what is healthy, by name.
Seen(c) ==
    LET n == c.crashes + Cardinality({i \in Exited : rep[i].rev = c.applied})
    IN  [c EXCEPT !.crashes = LeastOf(n, CRASH_LIMIT),
                  !.since = [i \in Indexes |->
                      CASE rep[i].state = "healthy" -> IF @[i] = "never" THEN "now" ELSE @[i]
                        [] rep[i].state = "none" -> @[i]
                        [] OTHER -> "never"]]

Observation(c) ==
    [live     |-> Live,
     rev      |-> [i \in Live |-> rep[i].rev],
     ready    |-> {i \in Live : rep[i].state = "healthy" /\ c.since[i] = "long"},
     failed   |-> \/ \E i \in Live : rep[i].rev = c.applied /\ rep[i].state = "unhealthy"
                  \/ c.crashes >= CRASH_LIMIT,
     target   |-> c.applied,
     previous |-> c.previous,
     late     |-> c.rollout = "late",
     early    |-> c.early]

\* Mutant: the revision rolled back from is not remembered.
MutDecided(c, kind) ==
    CASE kind = "rollback" ->
           [c EXCEPT !.applied = c.previous, !.previous = "", !.rollout = "started",
                     !.crashes = 0]
      [] kind = "pause" -> [c EXCEPT !.paused = TRUE]
      [] kind = "complete" -> [c EXCEPT !.rollout = "none", !.crashes = 0]
      [] OTHER -> c

\* Rollback, Pause and Complete change the controller's memory only.
Decided(c, kind) ==
    CASE kind = "rollback" ->
           [c EXCEPT !.rejected = c.applied, !.applied = c.previous, !.previous = "",
                     !.rollout = "started", !.crashes = 0]
      [] kind = "pause" -> [c EXCEPT !.paused = TRUE]
      [] kind = "complete" -> [c EXCEPT !.rollout = "none", !.crashes = 0]
      [] OTHER -> c

\* A paused service is left alone, but for the revision that is applied to it.
ObservePaused ==
    /\ plan = Nothing /\ ctl.paused
    /\ ctl' = Applied(ctl)
    /\ UNCHANGED <<file, rep, plan, spent, served>>

Observe ==
    /\ plan = Nothing /\ ~ctl.paused
    /\ \E c \in {Seen(Applied(ctl))} : \E s \in {next_step(Observation(c))} :
        /\ ctl' = Decided(c, s.kind)
        /\ rep' = [i \in Indexes |-> IF i \in Exited THEN NoReplica ELSE rep[i]]
        /\ plan' = IF s.drain \cup s.start = {} THEN Nothing ELSE s
        /\ served' = (served \/ (s.kind = "complete" /\ Desired > 0))
        /\ UNCHANGED <<file, spent>>

Acted == [ctl EXCEPT !.early = HasDelay]

Without(field, i) ==
    LET p == [plan EXCEPT ![field] = @ \ {i}]
    IN  IF p.drain \cup p.start = {} THEN Nothing ELSE p

\* Stop, then Rm with force; the calls fail when the container is gone, which
\* ends the tick.
Drain(i) ==
    /\ i \in plan.drain
    /\ IF rep[i].state = "none" THEN plan' = Nothing /\ UNCHANGED <<rep, ctl>>
       ELSE /\ rep' = [rep EXCEPT ![i] = NoReplica]
            /\ ctl' = [Acted EXCEPT !.since[i] = "never"]
            /\ plan' = Without("drain", i)
    /\ UNCHANGED <<file, spent, served>>

\* Run of the applied revision, after all drains; a run that fails is logged.
Start(i) ==
    /\ plan.drain = {} /\ i \in plan.start
    /\ \/ /\ rep[i].state = "none"
          /\ rep' = [rep EXCEPT ![i] = [rev |-> ctl.applied, state |-> "starting"]]
          /\ ctl' = Acted
       \/ UNCHANGED <<rep, ctl>>
    /\ plan' = Without("start", i)
    /\ UNCHANGED <<file, spent, served>>

\* An error ends the tick; it may come between the Stop and the Rm of a drain.
Abort ==
    /\ plan # Nothing /\ Troubles < MaxTroubles
    /\ plan' = Nothing
    /\ \/ UNCHANGED rep
       \/ \E i \in plan.drain : rep[i].state \in Health /\ rep' = [rep EXCEPT ![i].state = "exited"]
    /\ spent' = [spent EXCEPT !.errors = @ + 1]
    /\ UNCHANGED <<file, ctl, served>>

Restart ==
    /\ Troubles < MaxTroubles
    /\ ctl' = Fresh /\ plan' = Nothing
    /\ spent' = [spent EXCEPT !.restarts = @ + 1]
    /\ UNCHANGED <<file, rep, served>>

-----------------------------------------------------------------------------

Init ==
    /\ file \in Revisions \ Bad
    /\ rep = [i \in Indexes |-> NoReplica]
    /\ ctl = Fresh /\ plan = Nothing
    /\ spent = [edits |-> 0, faults |-> 0, errors |-> 0, restarts |-> 0]
    /\ served = FALSE

World ==
    \/ \E r \in Revisions : EditFile(r)
    \/ \E i \in Indexes : Checked(i) \/ Exit(i) \/ Vanish(i) \/ MinReadyPasses(i)
    \/ DelayPasses \/ DeadlinePasses

Tick ==
    \/ Observe \/ ObservePaused \/ Abort \/ Restart
    \/ \E i \in Indexes : Drain(i) \/ Start(i)

Next == World \/ Tick

\* The loop of main ticks on, time passes, and health checks come to an end; a
\* run that the daemon refuses time and again is not a fair one.
Fairness ==
    /\ WF_vars(Observe)
    /\ WF_vars(DelayPasses) /\ WF_vars(DeadlinePasses)
    /\ WF_vars(\E i \in Indexes : Checked(i))
    /\ WF_vars(\E i \in Indexes : MinReadyPasses(i))
    /\ WF_vars(\E i \in Indexes : Drain(i) \/ Start(i))
    /\ SF_vars(\E i \in Indexes : Start(i) /\ rep' # rep)

Spec == Init /\ [][Next]_vars
FairSpec == Spec /\ Fairness

-----------------------------------------------------------------------------
(* Correctness.                                                            *)

Healthy == {i \in Live : rep[i].state = "healthy"}

\* Once up, a service keeps desired - max_unavailable healthy replicas through
\* rollouts, rollbacks, files edited half way and errors of the daemon, for as
\* long as no replica fails by itself and the controller is not restarted.
AvailabilityKept ==
    served /\ spent.faults = 0 /\ spent.restarts = 0 =>
        Cardinality(Healthy) + MaxUnavailable >= Desired

\* The recreate strategy never runs two revisions at a time.
OneRevision == \A i, j \in Live : rep[i].rev = rep[j].rev

Deployed(r) == Cardinality(Live) = Desired /\ \A i \in Live : rep[i].rev = r

\* A service comes to run its desired replicas of the revision in the file, or of
\* the one before it when it was rolled back for failing or for missing the
\* deadline, unless that revision is bad or the service is paused.
Converges ==
    LET wanted == IF ctl.rejected = file THEN ctl.applied ELSE file
    IN  <>[](wanted \in Bad \/ ctl.paused \/ Deployed(wanted))

\* A bad revision does not stay in a service that was up: the service comes to
\* run without it, or is paused, whatever the file says, while fewer replicas fail
\* by themselves than the service has.  (When no replica of the revision before is
\* left, by faults or for a restarted controller, the bad ones are kept.)
BadLeaves ==
    <>[](\/ ~served \/ spent.restarts > 0 \/ spent.faults >= Desired \/ ctl.paused
         \/ \A i \in Live : rep[i].rev \notin Bad)
=============================================================================
