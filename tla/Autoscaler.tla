----------------------------- MODULE Autoscaler -----------------------------
(***************************************************************************)
(* The replicas of one autoscaled service: at each tick the controller     *)
(* reads the metrics, Scaler::decide turns them into a recommendation,     *)
(* remembers it, and moves the desired number by a step that the           *)
(* recommendations of the last seconds agree on.  A service that is being  *)
(* rolled out is not scaled, while time goes on.                           *)
(***************************************************************************)
EXTENDS Integers, Sequences, FiniteSetsExt

CONSTANTS
    MinReplicas, MaxReplicas,
                           \* Autoscale.min and max
    UpWindow, DownWindow,  \* stabilization_secs, in ticks
    UpStep, DownStep,      \* max_step
    Tolerance,             \* per cent
    Readings,              \* what a tick may read: a set of ratios of value to target
    Replicas               \* what the compose file says

VARIABLES
    desired,  \* Controller.desired of the service
    history,  \* Scaler.history: each with its age, oldest first
    made      \* ghost: every recommendation, with its age, for as long as it matters

vars == <<desired, history, made>>

Longest == IF UpWindow > DownWindow THEN UpWindow ELSE DownWindow
Older(h) == [i \in DOMAIN h |-> [h[i] EXCEPT !.age = @ + 1]]
OlderSet(s) == {[e EXCEPT !.age = @ + 1] : e \in {x \in s : x.age <= Longest}}

AtMost(a, b) == IF a < b THEN a ELSE b
AtLeast(a, b) == IF a > b THEN a ELSE b
Clamp(x) == AtMost(AtLeast(x, MinReplicas), MaxReplicas)

\* A ratio is a pair: the value read and the target.
Wanted(current, ratio) ==
    LET off == AtLeast(ratio[1] - ratio[2], ratio[2] - ratio[1])
    IN  IF off * 100 <= Tolerance * ratio[2] THEN current
        ELSE (current * ratio[1] + ratio[2] - 1) \div ratio[2]

recommendation(current, readings) == Clamp(Max({Wanted(current, r) : r \in readings}))

-----------------------------------------------------------------------------

\* Mutant: what the longer window needs is dropped.
MutPrune(h) ==
    LET k == CHOOSE k \in 1..(Len(h) + 1) :
                /\ \A i \in 1..(k - 1) : h[i].age > UpWindow
                /\ k <= Len(h) => h[k].age <= UpWindow
    IN  SubSeq(h, k, Len(h))

\* pop_front, until the front is not too old.
prune(h) ==
    LET k == CHOOSE k \in 1..(Len(h) + 1) :
                /\ \A i \in 1..(k - 1) : h[i].age > Longest
                /\ k <= Len(h) => h[k].age <= Longest
    IN  SubSeq(h, k, Len(h))

window(h, secs) == {h[i].to : i \in {j \in DOMAIN h : h[j].age <= secs}}

\* Where the service goes from `current' when `wanted' is recommended.
Move(current, wanted, h) ==
    IF wanted > current THEN
        LET stable == Min(window(h, UpWindow))
        IN  IF stable > current THEN AtMost(stable, current + UpStep) ELSE current
    ELSE IF wanted < current THEN
        LET stable == Max(window(h, DownWindow))
        IN  IF stable < current THEN AtLeast(stable, current - DownStep) ELSE current
    ELSE current

OutOfBounds == desired < MinReplicas \/ desired > MaxReplicas

\* decide, when it gets as far as the metrics.
Decide(readings) ==
    LET wanted == recommendation(desired, readings)
        h == prune(Append(Older(history), [age |-> 0, to |-> wanted]))
    IN  /\ ~OutOfBounds /\ readings # {}
        /\ history' = h
        /\ made' = OlderSet(made) \cup {[age |-> 0, to |-> wanted]}
        /\ desired' = Move(desired, wanted, h)

\* decide, out of bounds: the file's number or a new policy.
Bound ==
    /\ OutOfBounds /\ desired' = Clamp(desired)
    /\ history' = Older(history) /\ made' = OlderSet(made)

\* A tick that does not decide: no metrics, a rollout, an error of the daemon.
Skip ==
    /\ history' = Older(history) /\ made' = OlderSet(made)
    /\ \E i \in DOMAIN history : history[i].age <= Longest
    /\ UNCHANGED desired

\* set_file with another policy, or a restart: the memory is gone.
Forget == desired' = Replicas /\ history' = <<>> /\ made' = {}

Init == desired = Replicas /\ history = <<>> /\ made = {}

Next == Bound \/ Skip \/ Forget \/ \E r \in Readings : Decide(r)

Spec == Init /\ [][Next]_vars

-----------------------------------------------------------------------------
(* Correctness.                                                            *)

Since(secs) == {e.to : e \in {x \in made' : x.age <= secs}}

\* A service shrinks only below what every recommendation of the whole down window
\* allows, and grows only as far as all those of the up window ask, whatever was
\* pruned from the history and however many ticks were skipped; one step at a time.
ScalesStable ==
    [][~OutOfBounds /\ made' # {} =>
          /\ desired' < desired =>
                desired' >= Max(Since(DownWindow)) /\ desired' >= desired - DownStep
          /\ desired' > desired =>
                desired' <= Min(Since(UpWindow)) /\ desired' <= desired + UpStep]_vars
=============================================================================
