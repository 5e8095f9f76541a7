------------------------------- MODULE Rollout -------------------------------
(***************************************************************************)
(* rollout.rs: what the controller does next about one service, as a       *)
(* function of what it has observed.  The controller reports every running *)
(* replica as live and removes what it drains at once, so the Draining     *)
(* state of a replica, and the Remove action that ends it, do not occur.   *)
(***************************************************************************)
EXTENDS Naturals, FiniteSets

CONSTANTS
    MaxSurge, MaxUnavailable,  \* of the update policy
    Strategy,                  \* "rolling" or "recreate"
    OnFailure,                 \* "rollback" or "pause"
    Desired                    \* replicas of the service

ASSUME RolloutAssumption == MaxSurge \in Nat /\ MaxUnavailable \in Nat /\ Desired \in Nat

\* saturating_sub
Minus(a, b) == IF a > b THEN a - b ELSE 0

LeastOf(a, b) == IF a < b THEN a ELSE b

\* The n greatest, and the n least, of a set of indexes.
Highest(S, n) == {i \in S : Cardinality({j \in S : j > i}) < n}
Lowest(S, n)  == {i \in S : Cardinality({j \in S : j < i}) < n}

bound == Desired + MaxSurge

\* Replicas have the indexes 0..bound-1: free_indexes offers no others.
Indexes == 0..(bound - 1)

-----------------------------------------------------------------------------
(* An observation o: o.live is the set of indexes in use, o.rev and o.ready *)
(* their revisions and the ready ones, o.failed that a replica of the target *)
(* revision failed, o.target and o.previous the revisions ("" for none),   *)
(* o.late that the progress deadline has passed, o.early that the delay    *)
(* since the last action has not.                                          *)

Old(o) == {i \in o.live : o.rev[i] # o.target}
New(o) == {i \in o.live : o.rev[i] = o.target}

Step(kind, drain, start) == [kind |-> kind, drain |-> drain, start |-> start]
Nothing == Step("none", {}, {})

failure(o) ==
    IF OnFailure = "rollback" /\ o.previous # "" THEN Step("rollback", {}, {})
    ELSE Step("pause", {}, {})

free_indexes(o, n) == Lowest(Indexes \ o.live, n)

\* Mutant: missing replicas are started only for a service that has none.
MutSteady(o) ==
    LET missing == Minus(Desired, Cardinality(New(o)))
        excess  == Minus(Cardinality(New(o)), Desired)
    IN  IF excess > 0 THEN Step("act", Highest(New(o), excess), {})
        ELSE IF missing > 0 /\ New(o) = {} THEN Step("act", {}, free_indexes(o, missing))
        ELSE IF New(o) \subseteq o.ready THEN Step("complete", {}, {})
        ELSE Nothing

\* No old replica: scale down, start what is missing, or done.
Steady(o) ==
    LET missing == Minus(Desired, Cardinality(New(o)))
        excess  == Minus(Cardinality(New(o)), Desired)
    IN  IF excess > 0 THEN Step("act", Highest(New(o), excess), {})
        ELSE IF missing > 0 THEN Step("act", {}, free_indexes(o, missing))
        ELSE IF New(o) \subseteq o.ready THEN Step("complete", {}, {})
        ELSE Nothing

\* Mutant: what is drained is counted against the desired replicas only.
MutRolling(o) ==
    LET available == Cardinality(o.live \cap o.ready)
        allowed   == Minus(available, Minus(Desired, MaxUnavailable + 1))
        room      == Minus(bound, Cardinality(o.live))
        missing   == Minus(Desired, Cardinality(New(o)))
    IN  IF o.early THEN Nothing
        ELSE Step("act",
                  (Old(o) \ o.ready) \cup Highest(Old(o) \cap o.ready, allowed),
                  free_indexes(o, LeastOf(missing, room)))

\* Drain the old replicas that are not ready and as many ready ones as
\* max_unavailable allows; start new ones as far as max_surge leaves room.
Rolling(o) ==
    LET available == Cardinality(o.live \cap o.ready)
        allowed   == Minus(available, Minus(Desired, MaxUnavailable))
        room      == Minus(bound, Cardinality(o.live))
        missing   == Minus(Desired, Cardinality(New(o)))
    IN  IF o.early THEN Nothing
        ELSE Step("act",
                  (Old(o) \ o.ready) \cup Highest(Old(o) \cap o.ready, allowed),
                  free_indexes(o, LeastOf(missing, room)))

\* Mutant: the old replicas are replaced one at a time.
MutRecreate(o) ==
    IF o.early THEN Nothing ELSE Step("act", Highest(Old(o), 1), free_indexes(o, 1))

Recreate(o) == IF o.early THEN Nothing ELSE Step("act", Old(o), {})

next_step(o) ==
    IF Old(o) = {} THEN Steady(o)
    ELSE IF o.failed \/ o.late THEN failure(o)
    ELSE IF Strategy = "rolling" /\ MaxSurge = 0 /\ MaxUnavailable = 0
         THEN Step("pause", {}, {})
    ELSE IF Strategy = "recreate" THEN Recreate(o)
    ELSE Rolling(o)
=============================================================================
