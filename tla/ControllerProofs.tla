-------------------------- MODULE ControllerProofs --------------------------
(***************************************************************************)
(* Proofs about the service controller, for every number of replicas, every *)
(* max_surge and max_unavailable, every set of revisions and any number of  *)
(* edits, errors, faults and restarts.                                      *)
(***************************************************************************)
EXTENDS Controller, FiniteSetTheorems, WellFoundedInduction, TLAPS

-----------------------------------------------------------------------------
(* Counting.                                                               *)

\* A set of naturals has a least element.
LEMMA LeastElement ==
    ASSUME NEW T \in SUBSET Nat, T # {}
    PROVE  \E x \in T : \A y \in T : x <= y
<1>1. \E x \in T : \A y \in T : ~ (<<y, x>> \in OpToRel(<, Nat))
  BY NatLessThanWellFounded, WFMin
<1>2. PICK x \in T : \A y \in T : ~ (<<y, x>> \in OpToRel(<, Nat))
  BY <1>1
<1>3. ASSUME NEW y \in T
      PROVE  x <= y
  <2>1. x \in Nat /\ y \in Nat
    OBVIOUS
  <2>2. ~(y < x)
    BY <1>2, <2>1 DEF OpToRel
  <2> QED BY <2>1, <2>2
<1> QED BY <1>3

\* A set of naturals that is bounded has a greatest element.
LEMMA GreatestElement ==
    ASSUME NEW k \in Nat, NEW T \in SUBSET (0..k), T # {}
    PROVE  \E x \in T : \A y \in T : y <= x
<1> DEFINE U == {n \in Nat : \A y \in T : y <= n}
<1>1. U \in SUBSET Nat /\ k \in U
  OBVIOUS
<1>2. PICK m \in U : \A n \in U : m <= n
  BY <1>1, LeastElement
<1>3. m \in T
  <2>1. SUFFICES ASSUME m \notin T PROVE FALSE
    OBVIOUS
  <2>2. m \in Nat /\ \A y \in T : y \in Nat /\ y <= m /\ y # m
    BY <1>2, <2>1
  <2>3. PICK y \in T : TRUE
    OBVIOUS
  <2>4. m - 1 \in Nat /\ \A z \in T : z <= m - 1
    BY <2>2, <2>3
  <2> QED BY <1>2, <2>2, <2>4
<1> QED BY <1>2, <1>3

\* Indexes are finitely many naturals.
LEMMA IndexSets ==
    ASSUME NEW S \in SUBSET Indexes
    PROVE  /\ IsFiniteSet(S) /\ Cardinality(S) \in Nat
           /\ S \subseteq Nat /\ \E k \in Nat : S \subseteq 0..k
<1>1. bound \in Nat
  BY RolloutAssumption DEF bound
<1>2. IsFiniteSet(Indexes)
  BY <1>1, FS_Interval DEF Indexes
<1>3. IsFiniteSet(S) /\ Cardinality(S) \in Nat
  BY <1>2, FS_Subset, FS_CardinalityType
<1>4. S \subseteq Nat /\ S \subseteq 0..bound
  BY <1>1 DEF Indexes
<1> QED BY <1>1, <1>3, <1>4

\* A set of indexes within another has no more members.
LEMMA Fewer ==
    ASSUME NEW S \in SUBSET Indexes, NEW T \in SUBSET S
    PROVE  Cardinality(T) <= Cardinality(S)
  BY IndexSets, FS_Subset

\* free_indexes offers as many indexes as are asked for, at most.
LEMMA LowestBound ==
    ASSUME NEW S \in SUBSET Indexes, NEW n \in Nat
    PROVE  Lowest(S, n) \subseteq S /\ Cardinality(Lowest(S, n)) <= n
<1> DEFINE L == Lowest(S, n)
<1>1. L \subseteq S /\ L \in SUBSET Indexes
  BY DEF Lowest
<1>2. CASE L = {}
  BY <1>1, <1>2, FS_EmptySet
<1>3. CASE L # {}
  <2>0. PICK k \in Nat : L \subseteq 0..k
    BY <1>1, IndexSets
  <2>1. PICK m \in L : \A y \in L : y <= m
    <3> HIDE DEF L
    <3> QED BY <1>3, <2>0, GreatestElement
  <2> DEFINE B == {j \in S : j < m}
  <2>2. Cardinality(B) < n
    BY <2>1 DEF Lowest
  <2>3. B \in SUBSET Indexes /\ B \cup {m} \in SUBSET Indexes
    BY <1>1, <2>1
  <2>4. L \subseteq B \cup {m}
    <3> SUFFICES ASSUME NEW y \in L, y # m PROVE y \in B
      OBVIOUS
    <3>1. y \in Nat /\ m \in Nat /\ y <= m
      BY <1>1, <2>1, IndexSets
    <3> QED BY <1>1, <3>1
  <2>5. IsFiniteSet(B) /\ Cardinality(B) \in Nat
    BY <2>3, IndexSets
  <2>6. Cardinality(B \cup {m}) <= Cardinality(B) + 1
    BY <2>5, FS_AddElement
  <2>7. Cardinality(L) <= Cardinality(B \cup {m})
    BY <2>3, <2>4, Fewer
  <2>8. Cardinality(L) \in Nat /\ Cardinality(B \cup {m}) \in Nat
    BY <1>1, <2>3, IndexSets
  <2> QED BY <1>1, <2>2, <2>5, <2>6, <2>7, <2>8
<1> QED BY <1>2, <1>3

\* The victims of a rollout are as many as are allowed, at most.
LEMMA HighestBound ==
    ASSUME NEW S \in SUBSET Indexes, NEW n \in Nat
    PROVE  Highest(S, n) \subseteq S /\ Cardinality(Highest(S, n)) <= n
<1> DEFINE L == Highest(S, n)
<1>1. L \subseteq S /\ L \in SUBSET Indexes
  BY DEF Highest
<1>2. CASE L = {}
  BY <1>1, <1>2, FS_EmptySet
<1>3. CASE L # {}
  <2>0. L \in SUBSET Nat
    BY <1>1, IndexSets
  <2>1. PICK m \in L : \A y \in L : m <= y
    BY <1>3, <2>0, LeastElement
  <2> DEFINE B == {j \in S : j > m}
  <2>2. Cardinality(B) < n
    BY <2>1 DEF Highest
  <2>3. B \in SUBSET Indexes /\ B \cup {m} \in SUBSET Indexes
    BY <1>1, <2>1
  <2>4. L \subseteq B \cup {m}
    <3> SUFFICES ASSUME NEW y \in L, y # m PROVE y \in B
      OBVIOUS
    <3>1. y \in Nat /\ m \in Nat /\ m <= y
      BY <2>0, <2>1
    <3> QED BY <1>1, <3>1
  <2>5. IsFiniteSet(B) /\ Cardinality(B) \in Nat
    BY <2>3, IndexSets
  <2>6. Cardinality(B \cup {m}) <= Cardinality(B) + 1
    BY <2>5, FS_AddElement
  <2>7. Cardinality(L) <= Cardinality(B \cup {m})
    BY <2>3, <2>4, Fewer
  <2>8. Cardinality(L) \in Nat /\ Cardinality(B \cup {m}) \in Nat
    BY <1>1, <2>3, IndexSets
  <2> QED BY <1>1, <2>2, <2>5, <2>6, <2>7, <2>8
<1> QED BY <1>2, <1>3

-----------------------------------------------------------------------------
(* The invariant.                                                          *)

Revs == Revisions \cup {""}

Replicas == [rev : Revs, state : {"none", "starting", "healthy", "unhealthy", "exited"}]

Memory == [applied : Revs, previous : Revs, rejected : Revs, rollout : {"none", "started", "late"},
           paused : BOOLEAN, crashes : 0..CRASH_LIMIT, early : BOOLEAN,
           since : [Indexes -> {"never", "now", "long"}]]

Plans == [kind : {"none", "act", "complete", "rollback", "pause"},
          drain : SUBSET Indexes, start : SUBSET Indexes]

\* Every variable has its type.
TypeOK ==
    /\ file \in Revisions
    /\ rep \in [Indexes -> Replicas]
    /\ ctl \in Memory
    /\ plan \in Plans
    /\ spent \in [edits : Nat, faults : Nat, errors : Nat, restarts : Nat]
    /\ served \in BOOLEAN

\* The replicas of a revision, and those that an observation counts as ready.
Of(r) == {i \in Live : rep[i].rev = r}
Ready == {i \in Live : rep[i].state = "healthy" /\ ctl.since[i] = "long"}

\* No revision has more replicas than desired, those still to be started included.
Bounded ==
    /\ \A r \in Revs : Cardinality(Of(r)) <= Desired
    /\ Cardinality(Of(ctl.applied) \cup plan.start) <= Desired

\* The ready replicas that are not about to be drained are enough.  The property
\* speaks of the healthy ones, of which a drain may take those that were not ready.
Covered ==
    served /\ spent.faults = 0 /\ spent.restarts = 0 =>
        Cardinality(Ready \ plan.drain) + MaxUnavailable >= Desired

\* The recreate strategy: what is started is of the revision that runs.
Single ==
    /\ OneRevision
    /\ plan.start # {} => \A i \in Live : rep[i].rev = ctl.applied

-----------------------------------------------------------------------------
(* What next_step decides.                                                 *)

\* The fields of a step, and when it is one that may be planned.
LEMMA StepFields ==
    ASSUME NEW k, NEW D, NEW S
    PROVE  /\ Step(k, D, S).kind = k /\ Step(k, D, S).drain = D /\ Step(k, D, S).start = S
           /\ (/\ k \in {"none", "act", "complete", "rollback", "pause"}
               /\ D \in SUBSET Indexes /\ S \in SUBSET Indexes) => Step(k, D, S) \in Plans
  BY DEF Step, Plans

\* A step on an observation in which the target has no more replicas than desired:
\* it plans no more of them than are missing, it is complete when all are ready, and
\* a rolling one leaves desired - max_unavailable of the ready ones.
StepGood(o, s) ==
    /\ s \in Plans
    /\ s.kind = "rollback" => s.start = {} /\ s.drain = {}
    /\ s.kind = "complete" => Desired <= Cardinality(o.ready) /\ s.drain = {}
    /\ Cardinality(New(o) \cup s.start) <= Desired
    /\ Strategy = "rolling" /\ Cardinality(o.ready) + MaxUnavailable >= Desired =>
           Cardinality(o.ready \ s.drain) + MaxUnavailable >= Desired
    /\ Strategy = "recreate" /\ s.start # {} => Old(o) = {}

\* What makes a step good, by its fields.
LEMMA GoodFields ==
    ASSUME NEW o, NEW k \in {"none", "act", "complete", "rollback", "pause"},
           NEW D \in SUBSET Indexes, NEW S \in SUBSET Indexes,
           k = "rollback" => S = {} /\ D = {},
           k = "complete" => Desired <= Cardinality(o.ready) /\ D = {},
           Cardinality(New(o) \cup S) <= Desired,
           Strategy = "rolling" /\ Cardinality(o.ready) + MaxUnavailable >= Desired =>
               Cardinality(o.ready \ D) + MaxUnavailable >= Desired,
           Strategy = "recreate" /\ S # {} => Old(o) = {}
    PROVE  StepGood(o, Step(k, D, S))
<1> DEFINE s == Step(k, D, S)
<1>1. s \in Plans /\ s.kind = k /\ s.drain = D /\ s.start = S
  BY StepFields
<1> HIDE DEF s
<1>2. StepGood(o, s)
  BY <1>1 DEF StepGood
<1> QED BY <1>2 DEF s

\* Steps that neither drain nor start.
LEMMA IdleStep ==
    ASSUME NEW o, Cardinality(New(o)) <= Desired,
           NEW k \in {"none", "complete", "rollback", "pause"},
           k = "complete" => Desired <= Cardinality(o.ready)
    PROVE  StepGood(o, Step(k, {}, {}))
<1>1. New(o) \cup {} = New(o) /\ o.ready \ {} = o.ready
  OBVIOUS
<1> QED BY <1>1, GoodFields

\* The indexes that are free for n new replicas leave the target within its bound.
LEMMA FreeIndexes ==
    ASSUME NEW o, New(o) \in SUBSET Indexes, NEW n \in Nat, n + Cardinality(New(o)) <= Desired
    PROVE  free_indexes(o, n) \in SUBSET Indexes /\ Cardinality(New(o) \cup free_indexes(o, n)) <= Desired
<1> DEFINE F == free_indexes(o, n)
<1>1. F \in SUBSET Indexes /\ Cardinality(F) <= n
  BY LowestBound DEF free_indexes
<1> HIDE DEF F
<1>2. /\ IsFiniteSet(F) /\ Cardinality(F) \in Nat
      /\ IsFiniteSet(New(o)) /\ Cardinality(New(o)) \in Nat
      /\ Cardinality(New(o) \cap F) \in Nat /\ Cardinality(New(o) \cup F) \in Nat
  BY <1>1, IndexSets
<1>3. Cardinality(New(o) \cup F) = Cardinality(New(o)) + Cardinality(F) - Cardinality(New(o) \cap F)
  BY <1>2, FS_Union
<1>4. Cardinality(New(o) \cup F) <= Desired
  BY <1>1, <1>2, <1>3, RolloutAssumption
<1> QED BY <1>1, <1>4 DEF F

\* Steady never scales down, as the target never has too many replicas.
LEMMA SteadyGood ==
    ASSUME NEW o, o.live \in SUBSET Indexes, o.ready \in SUBSET o.live,
           Cardinality(New(o)) <= Desired, Old(o) = {}
    PROVE  StepGood(o, Steady(o))
<1> DEFINE N == Cardinality(New(o))
           missing == Minus(Desired, N)
<1>1. New(o) \in SUBSET Indexes /\ N \in Nat
  BY IndexSets DEF New
<1>2. Minus(N, Desired) = 0 /\ missing = Desired - N /\ missing \in Nat
  BY <1>1, RolloutAssumption DEF Minus
<1>3. CASE missing > 0
  <2>1. Steady(o) = Step("act", {}, free_indexes(o, missing))
    BY <1>2, <1>3 DEF Steady
  <2>2. /\ free_indexes(o, missing) \in SUBSET Indexes
        /\ Cardinality(New(o) \cup free_indexes(o, missing)) <= Desired
    BY <1>1, <1>2, FreeIndexes, RolloutAssumption
  <2> HIDE DEF missing
  <2>3. StepGood(o, Step("act", {}, free_indexes(o, missing)))
    <3>1. o.ready \ {} = o.ready
      OBVIOUS
    <3> QED BY <2>2, <3>1, GoodFields
  <2> QED BY <2>1, <2>3
<1>4. CASE ~(missing > 0) /\ New(o) \subseteq o.ready
  <2>1. Steady(o) = Step("complete", {}, {})
    BY <1>2, <1>4 DEF Steady
  <2>2. N = Desired
    BY <1>1, <1>2, <1>4, RolloutAssumption
  <2>3. N <= Cardinality(o.ready)
    BY <1>4, Fewer
  <2> QED BY <2>1, <2>2, <2>3, IdleStep
<1>5. CASE ~(missing > 0) /\ ~(New(o) \subseteq o.ready)
  <2>1. Steady(o) = Step("none", {}, {})
    BY <1>2, <1>5 DEF Steady, Nothing
  <2> QED BY <2>1, IdleStep
<1> QED BY <1>3, <1>4, <1>5

\* Rolling drains no more ready replicas than max_unavailable leaves, whatever their
\* revisions are.
LEMMA RollingGood ==
    ASSUME NEW o, o.live \in SUBSET Indexes, o.ready \in SUBSET o.live,
           Cardinality(New(o)) <= Desired, Strategy # "recreate"
    PROVE  StepGood(o, Rolling(o))
<1> DEFINE A == Cardinality(o.live \cap o.ready)
           allowed == Minus(A, Minus(Desired, MaxUnavailable))
           room == Minus(bound, Cardinality(o.live))
           N == Cardinality(New(o))
           missing == Minus(Desired, N)
           V == Highest(Old(o) \cap o.ready, allowed)
           D == (Old(o) \ o.ready) \cup V
           F == free_indexes(o, LeastOf(missing, room))
<1>1. /\ New(o) \in SUBSET Indexes /\ N \in Nat /\ Old(o) \in SUBSET Indexes
      /\ Old(o) \cap o.ready \in SUBSET Indexes /\ Cardinality(o.live) \in Nat
      /\ o.live \cap o.ready = o.ready /\ A \in Nat /\ o.ready \in SUBSET Indexes
  BY IndexSets DEF New, Old
<1>2. CASE o.early
  <2>1. Rolling(o) = Step("none", {}, {})
    BY <1>2 DEF Rolling, Nothing
  <2> QED BY <2>1, IdleStep
<1>3. CASE ~o.early
  <2>1. Rolling(o) = Step("act", D, F)
    BY <1>3 DEF Rolling
  <2>2. /\ allowed \in Nat /\ LeastOf(missing, room) \in Nat /\ LeastOf(missing, room) + N <= Desired
        /\ A + MaxUnavailable >= Desired => A - allowed + MaxUnavailable >= Desired
    BY <1>1, RolloutAssumption DEF Minus, LeastOf, bound
  <2>3. F \in SUBSET Indexes /\ Cardinality(New(o) \cup F) <= Desired
    BY <1>1, <2>2, FreeIndexes
  <2>4. V \subseteq Old(o) \cap o.ready /\ Cardinality(V) <= allowed
    <3> HIDE DEF allowed
    <3> QED BY <1>1, <2>2, HighestBound
  <2>5. D \in SUBSET Indexes /\ o.ready \cap D = V /\ Cardinality(V) \in Nat
    <3>1. D \in SUBSET Indexes /\ o.ready \cap D = V /\ V \in SUBSET Indexes
      <4> HIDE DEF V
      <4> QED BY <1>1, <2>4
    <3> HIDE DEF V
    <3> QED BY <3>1, IndexSets
  <2>6. Cardinality(o.ready \ D) = Cardinality(o.ready) - Cardinality(V)
    <3> HIDE DEF D, V
    <3>1. IsFiniteSet(o.ready)
      BY <1>1, IndexSets
    <3> QED BY <2>5, <3>1, FS_Difference
  <2>7. Cardinality(o.ready) + MaxUnavailable >= Desired =>
           Cardinality(o.ready \ D) + MaxUnavailable >= Desired
    <3>1. Cardinality(o.ready) = A
      BY <1>1
    <3> HIDE DEF D, V, allowed, A
    <3> QED BY <1>1, <2>2, <2>4, <2>5, <2>6, <3>1, RolloutAssumption
  <2> HIDE DEF D, F
  <2> QED BY <2>1, <2>3, <2>5, <2>7, GoodFields
<1> QED BY <1>2, <1>3

\* Whatever the strategy and however the rollout goes.
LEMMA NextStepGood ==
    ASSUME NEW o, o.live \in SUBSET Indexes, o.ready \in SUBSET o.live,
           Cardinality(New(o)) <= Desired
    PROVE  StepGood(o, next_step(o))
<1>1. CASE Old(o) = {}
  BY <1>1, SteadyGood DEF next_step
<1>2. CASE Old(o) # {} /\ (o.failed \/ o.late)
  BY <1>2, IdleStep DEF next_step, failure
<1>3. CASE /\ Old(o) # {} /\ ~(o.failed \/ o.late)
           /\ Strategy = "rolling" /\ MaxSurge = 0 /\ MaxUnavailable = 0
  BY <1>3, IdleStep DEF next_step
<1>4. CASE /\ Old(o) # {} /\ ~(o.failed \/ o.late) /\ Strategy = "recreate"
  <2>1. next_step(o) = Recreate(o)
    BY <1>4 DEF next_step
  <2>2. CASE o.early
    BY <2>1, <2>2, IdleStep DEF Recreate, Nothing
  <2>3. CASE ~o.early
    <3>1. next_step(o) = Step("act", Old(o), {})
      BY <2>1, <2>3 DEF Recreate
    <3>2. Old(o) \in SUBSET Indexes /\ New(o) \cup {} = New(o)
      BY DEF Old
    <3>3. Strategy # "rolling"
      BY <1>4
    <3> QED BY <3>1, <3>2, <3>3, GoodFields
  <2> QED BY <2>2, <2>3
<1>5. CASE /\ Old(o) # {} /\ ~(o.failed \/ o.late) /\ Strategy # "recreate"
           /\ ~(Strategy = "rolling" /\ MaxSurge = 0 /\ MaxUnavailable = 0)
  <2>1. next_step(o) = Rolling(o)
    BY <1>5 DEF next_step
  <2> QED BY <1>5, <2>1, RollingGood
<1> QED BY <1>1, <1>2, <1>3, <1>4, <1>5

-----------------------------------------------------------------------------
(* The controller's memory.                                                *)

\* One field is assigned.
LEMMA MemoryUpdate ==
    ASSUME NEW c \in Memory
    PROVE  /\ \A r \in Revs : /\ [c EXCEPT !.applied = r] \in Memory
                              /\ [c EXCEPT !.previous = r] \in Memory
                              /\ [c EXCEPT !.rejected = r] \in Memory
           /\ \A x \in {"none", "started", "late"} : [c EXCEPT !.rollout = x] \in Memory
           /\ [c EXCEPT !.paused = TRUE] \in Memory
           /\ \A n \in 0..CRASH_LIMIT : [c EXCEPT !.crashes = n] \in Memory
           /\ \A b \in BOOLEAN : [c EXCEPT !.early = b] \in Memory
           /\ \A f \in [Indexes -> {"never", "now", "long"}] : [c EXCEPT !.since = f] \in Memory
<1>1. \A r \in Revs : /\ [c EXCEPT !.applied = r] \in Memory
                      /\ [c EXCEPT !.previous = r] \in Memory
                      /\ [c EXCEPT !.rejected = r] \in Memory
  BY DEF Memory
<1>2. /\ \A x \in {"none", "started", "late"} : [c EXCEPT !.rollout = x] \in Memory
      /\ \A n \in 0..CRASH_LIMIT : [c EXCEPT !.crashes = n] \in Memory
      /\ \A f \in [Indexes -> {"never", "now", "long"}] : [c EXCEPT !.since = f] \in Memory
  BY DEF Memory
<1>3. /\ [c EXCEPT !.paused = TRUE] \in Memory
      /\ \A b \in BOOLEAN : [c EXCEPT !.early = b] \in Memory
  BY DEF Memory
<1> QED BY <1>1, <1>2, <1>3

\* Applying the file's revision says nothing about the health of the replicas.
LEMMA AppliedFacts ==
    ASSUME NEW c \in Memory, file \in Revisions
    PROVE  Applied(c) \in Memory /\ Applied(c).since = c.since
<1>0. file \in Revs
  BY DEF Revs
<1>1. file \in Revs /\ c.applied \in Revs /\ 0 \in 0..CRASH_LIMIT
  BY <1>0 DEF Memory, CRASH_LIMIT
<1> DEFINE d == [c EXCEPT !.applied = file]
           e == [d EXCEPT !.previous = c.applied]
           f == [e EXCEPT !.rollout = "started"]
           g == [f EXCEPT !.crashes = 0]
<1>2. d \in Memory /\ d.since = c.since
  BY <1>1, MemoryUpdate DEF Memory
<1>3. Applied(c) \in {c, d, g}
  BY DEF Applied
<1> HIDE DEF d
<1>4. e \in Memory /\ e.since = d.since
  BY <1>1, <1>2, MemoryUpdate DEF Memory
<1> HIDE DEF e
<1>5. f \in Memory /\ f.since = e.since
  BY <1>4, MemoryUpdate DEF Memory
<1> HIDE DEF f
<1>6. g \in Memory /\ g.since = f.since
  BY <1>1, <1>5, MemoryUpdate DEF Memory
<1> HIDE DEF g
<1> QED BY <1>2, <1>3, <1>4, <1>5, <1>6

\* An observation keeps the time since when a replica is ready.
LEMMA SeenFacts ==
    ASSUME TypeOK, NEW c \in Memory
    PROVE  /\ Seen(c) \in Memory /\ Seen(c).applied = c.applied
           /\ \A i \in Indexes : rep[i].state = "healthy" /\ c.since[i] = "long" =>
                                     Seen(c).since[i] = "long"
<1> DEFINE E == {i \in Exited : rep[i].rev = c.applied}
           n == c.crashes + Cardinality(E)
           S == [i \in Indexes |->
                      CASE rep[i].state = "healthy" -> IF c.since[i] = "never" THEN "now" ELSE c.since[i]
                        [] rep[i].state = "none" -> c.since[i]
                        [] OTHER -> "never"]
           d == [c EXCEPT !.crashes = LeastOf(n, CRASH_LIMIT)]
           e == [d EXCEPT !.since = S]
<1>1. Seen(c) = e
  BY DEF Seen, Memory
<1>2. LeastOf(n, CRASH_LIMIT) \in 0..CRASH_LIMIT
  <2>1. E \in SUBSET Indexes
    BY DEF Exited
  <2>2. Cardinality(E) \in Nat /\ c.crashes \in Nat
    BY <2>1, IndexSets DEF Memory, CRASH_LIMIT
  <2> HIDE DEF E
  <2> QED BY <2>2 DEF LeastOf, CRASH_LIMIT
<1>3. c.since \in [Indexes -> {"never", "now", "long"}]
  BY DEF Memory
<1>4. /\ S \in [Indexes -> {"never", "now", "long"}]
      /\ \A i \in Indexes : rep[i].state = "healthy" /\ c.since[i] = "long" => S[i] = "long"
  <2>1. ASSUME NEW i \in Indexes
        PROVE  S[i] \in {"never", "now", "long"}
               /\ (rep[i].state = "healthy" /\ c.since[i] = "long" => S[i] = "long")
    <3>1. c.since[i] \in {"never", "now", "long"}
      BY <1>3
    <3>2. CASE rep[i].state = "healthy"
      BY <3>1, <3>2
    <3>3. CASE rep[i].state = "none"
      BY <3>1, <3>3
    <3>4. CASE rep[i].state # "healthy" /\ rep[i].state # "none"
      BY <3>1, <3>4
    <3> QED BY <3>2, <3>3, <3>4
  <2>2. S = [i \in Indexes |-> S[i]]
    OBVIOUS
  <2> HIDE DEF S
  <2> QED BY <2>1, <2>2
<1> HIDE DEF n, S
<1>5. d \in Memory /\ d.applied = c.applied
  BY <1>2, MemoryUpdate DEF Memory
<1> HIDE DEF d
<1>6. e \in Memory /\ e.applied = d.applied /\ e.since = S
  BY <1>4, <1>5, MemoryUpdate DEF Memory
<1> HIDE DEF e
<1> QED BY <1>1, <1>4, <1>5, <1>6

\* What is decided leaves the health of the replicas as it was observed.
LEMMA DecidedFacts ==
    ASSUME NEW c \in Memory, NEW k
    PROVE  /\ Decided(c, k) \in Memory /\ Decided(c, k).since = c.since
           /\ k # "rollback" => Decided(c, k).applied = c.applied
<1>0. "" \in Revs /\ 0 \in 0..CRASH_LIMIT
  BY DEF Revs, CRASH_LIMIT
<1>1. c.applied \in Revs /\ c.previous \in Revs /\ "" \in Revs /\ 0 \in 0..CRASH_LIMIT
  BY <1>0 DEF Memory
<1>2. CASE k = "rollback"
  <2> DEFINE d == [c EXCEPT !.rejected = c.applied]
             e == [d EXCEPT !.applied = c.previous]
             f == [e EXCEPT !.previous = ""]
             g == [f EXCEPT !.rollout = "started"]
             h == [g EXCEPT !.crashes = 0]
  <2>1. Decided(c, k) = h
    BY <1>2 DEF Decided
  <2>2. d \in Memory /\ d.since = c.since
    BY <1>1, MemoryUpdate DEF Memory
  <2> HIDE DEF d
  <2>3. e \in Memory /\ e.since = d.since
    BY <1>1, <2>2, MemoryUpdate DEF Memory
  <2> HIDE DEF e
  <2>4. f \in Memory /\ f.since = e.since
    BY <1>1, <2>3, MemoryUpdate DEF Memory
  <2> HIDE DEF f
  <2>5. g \in Memory /\ g.since = f.since
    BY <2>4, MemoryUpdate DEF Memory
  <2> HIDE DEF g
  <2>6. h \in Memory /\ h.since = g.since
    BY <1>1, <2>5, MemoryUpdate DEF Memory
  <2> HIDE DEF h
  <2> QED BY <1>2, <2>1, <2>2, <2>3, <2>4, <2>5, <2>6
<1>3. CASE k = "pause"
  <2> DEFINE d == [c EXCEPT !.paused = TRUE]
  <2>1. Decided(c, k) = d
    BY <1>3 DEF Decided
  <2>2. d \in Memory /\ d.since = c.since /\ d.applied = c.applied
    BY MemoryUpdate DEF Memory
  <2> QED BY <2>1, <2>2
<1>4. CASE k = "complete"
  <2> DEFINE d == [c EXCEPT !.rollout = "none"]
             e == [d EXCEPT !.crashes = 0]
  <2>1. Decided(c, k) = e
    BY <1>4 DEF Decided
  <2>2. d \in Memory /\ d.since = c.since /\ d.applied = c.applied
    BY MemoryUpdate DEF Memory
  <2> HIDE DEF d
  <2>3. e \in Memory /\ e.since = d.since /\ e.applied = d.applied
    BY <1>1, <2>2, MemoryUpdate DEF Memory
  <2> HIDE DEF e
  <2> QED BY <2>1, <2>2, <2>3
<1>5. CASE k \notin {"rollback", "pause", "complete"}
  BY <1>5 DEF Decided
<1> QED BY <1>2, <1>3, <1>4, <1>5

-----------------------------------------------------------------------------
(* Steps.                                                                  *)

\* What every step keeps, and what a step of a strategy keeps.
StepKeeps ==
    /\ TypeOK' /\ Bounded'
    /\ Strategy = "rolling" /\ Covered => Covered'
    /\ Strategy = "recreate" /\ Single => Single'

\* Live indexes, in this state and the next.
LEMMA LiveSets ==
    ASSUME TypeOK
    PROVE  /\ Live \in SUBSET Indexes /\ Ready \in SUBSET Indexes
           /\ \A r : Of(r) \in SUBSET Indexes
           /\ plan.start \in SUBSET Indexes /\ plan.drain \in SUBSET Indexes
           /\ ctl.applied \in Revs
           /\ \A i \in Live : rep[i].rev \in Revs
<1>1. plan.start \in SUBSET Indexes /\ plan.drain \in SUBSET Indexes
  BY DEF TypeOK, Plans
<1>2. ctl.applied \in Revs
  BY DEF TypeOK, Memory
<1>3. Live \in SUBSET Indexes /\ \A i \in Live : rep[i].rev \in Revs
  BY DEF TypeOK, Live, Replicas
<1> QED BY <1>1, <1>2, <1>3 DEF Ready, Of

\* A step that starts nothing, and after which no replica that counts as ready is
\* missing, unless it is a failure of a replica or a restart.
LEMMA Shrinks ==
    ASSUME TypeOK, Bounded, TypeOK',
           Live' \subseteq Live, \A i \in Live' : rep'[i].rev = rep[i].rev,
           plan'.start \subseteq plan.start, plan'.start = {} \/ ctl'.applied = ctl.applied,
           \/ spent'.faults # 0 \/ spent'.restarts # 0
           \/ /\ Ready \ plan.drain \subseteq Ready' \ plan'.drain
              /\ served' = served /\ spent'.faults = spent.faults /\ spent'.restarts = spent.restarts
    PROVE  StepKeeps
<1>1. /\ Live \in SUBSET Indexes /\ Ready \in SUBSET Indexes
      /\ \A r : Of(r) \in SUBSET Indexes
      /\ plan.start \in SUBSET Indexes
  BY LiveSets
<1>2. /\ Ready' \in SUBSET Indexes /\ ctl'.applied \in Revs
      /\ \A r : Of(r)' \in SUBSET Indexes
  <2>1. TypeOK' => (/\ Ready \in SUBSET Indexes /\ ctl.applied \in Revs
                    /\ \A r : Of(r) \in SUBSET Indexes)'
    BY LiveSets, PTL
  <2> QED BY <2>1
<1>3. \A r : Of(r)' \subseteq Of(r)
  BY DEF Of
<1>4. ASSUME NEW r \in Revs
      PROVE  Cardinality(Of(r)') <= Desired
  <2>1. Cardinality(Of(r)) \in Nat /\ Cardinality(Of(r)') \in Nat
    BY <1>1, <1>2, IndexSets
  <2>2. Cardinality(Of(r)') <= Cardinality(Of(r))
    BY <1>1, <1>3, Fewer
  <2>3. Cardinality(Of(r)) <= Desired
    BY DEF Bounded
  <2> QED BY <2>1, <2>2, <2>3, RolloutAssumption
<1>5. Cardinality(Of(ctl.applied)' \cup plan'.start) <= Desired
  <2>1. CASE plan'.start = {}
    <3>1. Of(ctl.applied)' \cup plan'.start = Of(ctl.applied)'
      BY <2>1
    <3>2. PICK r \in Revs : r = ctl'.applied
      BY <1>2
    <3>3. Of(ctl.applied)' = Of(r)'
      BY <3>2 DEF Of
    <3> QED BY <1>4, <3>1, <3>3
  <2>2. CASE ctl'.applied = ctl.applied
    <3> DEFINE U == Of(ctl.applied) \cup plan.start
               V == Of(ctl.applied)' \cup plan'.start
    <3>1. V \subseteq U /\ U \in SUBSET Indexes
      <4>1. Of(ctl.applied)' \subseteq Of(ctl.applied)
        BY <2>2 DEF Of
      <4> QED BY <1>1, <4>1
    <3>2. Cardinality(U) <= Desired
      BY DEF Bounded
    <3> HIDE DEF U, V
    <3>3. Cardinality(V) <= Cardinality(U) /\ Cardinality(U) \in Nat /\ Cardinality(V) \in Nat
      BY <3>1, Fewer, IndexSets
    <3>4. Cardinality(V) <= Desired
      BY <3>2, <3>3, RolloutAssumption
    <3> QED BY <3>4 DEF V
  <2> QED BY <2>1, <2>2
<1>6. Bounded'
  BY <1>4, <1>5 DEF Bounded
<1>7. Covered => Covered'
  <2> SUFFICES ASSUME Covered, served', spent'.faults = 0, spent'.restarts = 0
               PROVE  Cardinality((Ready \ plan.drain)') + MaxUnavailable >= Desired
    BY DEF Covered
  <2> DEFINE U == Ready \ plan.drain
             V == (Ready \ plan.drain)'
  <2>1. U \subseteq V /\ V \in SUBSET Indexes
    BY <1>2
  <2>2. Cardinality(U) + MaxUnavailable >= Desired
    BY DEF Covered
  <2> HIDE DEF U, V
  <2>3. Cardinality(U) <= Cardinality(V) /\ Cardinality(U) \in Nat /\ Cardinality(V) \in Nat
    BY <2>1, Fewer, IndexSets
  <2>4. Cardinality(V) + MaxUnavailable >= Desired
    BY <2>2, <2>3, RolloutAssumption
  <2> QED BY <2>4 DEF V
<1>8. Single => Single'
  BY DEF Single, OneRevision
<1> QED BY <1>6, <1>7, <1>8 DEF StepKeeps

\* A restarted controller knows nothing.
LEMMA FreshMemory == Fresh \in Memory
<1>1. "" \in Revs
  BY DEF Revs
<1>2. [i \in Indexes |-> "never"] \in [Indexes -> {"never", "now", "long"}]
  OBVIOUS
<1>3. 0 \in 0..CRASH_LIMIT
  BY DEF CRASH_LIMIT
<1> QED BY <1>1, <1>2, <1>3 DEF Fresh, Memory

\* Nothing is planned.
LEMMA NothingFields == Nothing \in Plans /\ Nothing.drain = {} /\ Nothing.start = {}
  BY StepFields DEF Nothing

\* The file is edited, health checks end and time passes.
LEMMA WorldKeeps ==
    ASSUME TypeOK, Bounded, World
    PROVE  StepKeeps
<1>1. ASSUME NEW r \in Revisions, EditFile(r)
      PROVE  StepKeeps
  <2>1. /\ rep' = rep /\ ctl' = ctl /\ plan' = plan /\ served' = served
        /\ spent'.faults = spent.faults /\ spent'.restarts = spent.restarts
        /\ TypeOK'
    BY <1>1 DEF EditFile, TypeOK
  <2>2. Live' = Live /\ Ready' = Ready
    BY <2>1 DEF Live, Ready
  <2> QED BY <2>1, <2>2, Shrinks
<1>2. ASSUME NEW i \in Indexes, Checked(i)
      PROVE  StepKeeps
  <2>1. /\ rep \in [Indexes -> Replicas] /\ rep[i] \in Replicas /\ rep[i].state = "starting"
        /\ UNCHANGED <<file, ctl, plan, spent, served>>
    BY <1>2 DEF Checked, TypeOK
  <2>2. PICK x \in {"unhealthy", "healthy"} : rep' = [rep EXCEPT ![i].state = x]
    BY <1>2 DEF Checked
  <2>3. /\ rep' \in [Indexes -> Replicas]
        /\ \A j \in Indexes : /\ rep'[j].rev = rep[j].rev
                              /\ rep'[j].state = IF j = i THEN x ELSE rep[j].state
    BY <2>1, <2>2 DEF Replicas
  <2>4. TypeOK'
    BY <2>1, <2>3 DEF TypeOK
  <2>5. Live' = Live /\ Ready \subseteq Ready'
    BY <2>1, <2>3 DEF Live, Ready, Health
  <2>6. \A j \in Live' : rep'[j].rev = rep[j].rev
    BY <2>3 DEF Live
  <2> QED BY <2>1, <2>4, <2>5, <2>6, Shrinks
<1>3. ASSUME NEW i \in Indexes, Exit(i) \/ Vanish(i)
      PROVE  StepKeeps
  <2>1. /\ rep \in [Indexes -> Replicas] /\ rep[i] \in Replicas
        /\ UNCHANGED <<file, ctl, plan, served>>
        /\ spent' = [spent EXCEPT !.faults = @ + 1]
    BY <1>3 DEF Exit, Vanish, TypeOK
  <2>2. spent' \in [edits : Nat, faults : Nat, errors : Nat, restarts : Nat] /\ spent'.faults # 0
    BY <2>1 DEF TypeOK
  <2>3. NoReplica \in Replicas /\ NoReplica.state = "none"
    BY DEF NoReplica, Replicas, Revs
  <2>4. rep' = [rep EXCEPT ![i].state = "exited"] \/ rep' = [rep EXCEPT ![i] = NoReplica]
    BY <1>3 DEF Exit, Vanish
  <2>5. /\ rep' \in [Indexes -> Replicas]
        /\ \A j \in Indexes : IF j = i THEN rep'[j].state \notin Health ELSE rep'[j] = rep[j]
    <3>1. CASE rep' = [rep EXCEPT ![i].state = "exited"]
      BY <2>1, <3>1 DEF Replicas, Health
    <3>2. CASE rep' = [rep EXCEPT ![i] = NoReplica]
      BY <2>1, <2>3, <3>2 DEF Health
    <3> QED BY <2>4, <3>1, <3>2
  <2>6. TypeOK'
    BY <2>1, <2>2, <2>5 DEF TypeOK
  <2>7. Live' \subseteq Live /\ \A j \in Live' : rep'[j].rev = rep[j].rev
    BY <2>5 DEF Live
  <2> QED BY <2>1, <2>2, <2>6, <2>7, Shrinks
<1>4. ASSUME NEW c \in Memory, ctl' = c, c.applied = ctl.applied,
             \A i \in Indexes : ctl.since[i] = "long" => c.since[i] = "long",
             UNCHANGED <<file, rep, plan, spent, served>>
      PROVE  StepKeeps
  <2>1. TypeOK'
    BY <1>4 DEF TypeOK
  <2>2. Live' = Live /\ Ready \subseteq Ready'
    BY <1>4 DEF Live, Ready
  <2> QED BY <1>4, <2>1, <2>2, Shrinks
<1>5. ctl \in Memory
  BY DEF TypeOK
<1>6. ASSUME NEW i \in Indexes, MinReadyPasses(i)
      PROVE  StepKeeps
  <2> DEFINE f == [ctl.since EXCEPT ![i] = "long"]
             c == [ctl EXCEPT !.since = f]
  <2>1. f \in [Indexes -> {"never", "now", "long"}]
        /\ \A j \in Indexes : ctl.since[j] = "long" => f[j] = "long"
    BY <1>5 DEF Memory
  <2>2. ctl' = c /\ UNCHANGED <<file, rep, plan, spent, served>>
    BY <1>6 DEF MinReadyPasses
  <2> HIDE DEF f
  <2>3. c \in Memory /\ c.since = f /\ c.applied = ctl.applied
    BY <1>5, <2>1, MemoryUpdate DEF Memory
  <2> HIDE DEF c
  <2> QED BY <1>4, <2>1, <2>2, <2>3
<1>7. ASSUME DelayPasses \/ DeadlinePasses
      PROVE  StepKeeps
  <2>1. /\ ctl' = [ctl EXCEPT !.early = FALSE] \/ ctl' = [ctl EXCEPT !.rollout = "late"]
        /\ UNCHANGED <<file, rep, plan, spent, served>>
    BY <1>7 DEF DelayPasses, DeadlinePasses
  <2>2. ctl' \in Memory /\ ctl'.since = ctl.since /\ ctl'.applied = ctl.applied
    <3>1. CASE ctl' = [ctl EXCEPT !.early = FALSE]
      BY <1>5, <3>1, MemoryUpdate DEF Memory
    <3>2. CASE ctl' = [ctl EXCEPT !.rollout = "late"]
      BY <1>5, <3>2, MemoryUpdate DEF Memory
    <3> QED BY <2>1, <3>1, <3>2
  <2> QED BY <1>4, <2>1, <2>2
<1> QED BY <1>1, <1>2, <1>3, <1>6, <1>7 DEF World

\* Errors and restarts.
LEMMA TroubleKeeps ==
    ASSUME TypeOK, Bounded, ObservePaused \/ Abort \/ Restart
    PROVE  StepKeeps
<1>0. ctl \in Memory /\ rep \in [Indexes -> Replicas] /\ plan \in Plans
  BY DEF TypeOK
<1>1. CASE ObservePaused
  <2>1. ctl' \in Memory /\ ctl'.since = ctl.since
    BY <1>0, <1>1, AppliedFacts DEF ObservePaused, TypeOK
  <2>2. UNCHANGED <<file, rep, plan, spent, served>> /\ plan = Nothing
    BY <1>1 DEF ObservePaused
  <2>3. TypeOK'
    BY <2>1, <2>2 DEF TypeOK
  <2>4. Live' = Live /\ Ready' = Ready
    BY <2>1, <2>2 DEF Live, Ready
  <2> QED BY <2>2, <2>3, <2>4, NothingFields, Shrinks
<1>2. CASE Abort
  <2>1. /\ plan' = Nothing /\ UNCHANGED <<file, ctl, served>>
        /\ spent' = [spent EXCEPT !.errors = @ + 1]
        /\ \/ UNCHANGED rep
           \/ \E i \in plan.drain : rep[i].state \in Health /\ rep' = [rep EXCEPT ![i].state = "exited"]
    BY <1>2 DEF Abort
  <2>2. /\ spent' \in [edits : Nat, faults : Nat, errors : Nat, restarts : Nat]
        /\ spent'.faults = spent.faults /\ spent'.restarts = spent.restarts
    BY <2>1 DEF TypeOK
  <2>3. PICK D \in SUBSET plan.drain :
           /\ rep' \in [Indexes -> Replicas]
           /\ \A j \in Indexes : IF j \in D THEN rep'[j].state \notin Health ELSE rep'[j] = rep[j]
    <3>1. CASE UNCHANGED rep
      <4>1. /\ {} \in SUBSET plan.drain /\ rep' \in [Indexes -> Replicas]
            /\ \A j \in Indexes : j \notin {} /\ rep'[j] = rep[j]
        BY <1>0, <3>1
      <4> QED BY <4>1
    <3>2. CASE \E i \in plan.drain : rep' = [rep EXCEPT ![i].state = "exited"]
      <4>1. PICK i \in plan.drain : rep' = [rep EXCEPT ![i].state = "exited"]
        BY <3>2
      <4>2. i \in Indexes
        BY <1>0 DEF Plans
      <4>3. /\ rep' \in [Indexes -> Replicas]
            /\ \A j \in Indexes : IF j \in {i} THEN rep'[j].state \notin Health ELSE rep'[j] = rep[j]
        BY <1>0, <4>1, <4>2 DEF Replicas, Health
      <4> QED BY <4>3
    <3> QED BY <2>1, <3>1, <3>2
  <2>4. TypeOK'
    BY <2>1, <2>2, <2>3, NothingFields DEF TypeOK
  <2>5. Live' \subseteq Live /\ \A j \in Live' : rep'[j].rev = rep[j].rev
    BY <2>3 DEF Live
  <2>6. Ready \ plan.drain \subseteq Ready' \ plan'.drain
    BY <2>1, <2>3, NothingFields DEF Ready, Live
  <2> QED BY <2>1, <2>2, <2>4, <2>5, <2>6, NothingFields, Shrinks
<1>3. CASE Restart
  <2>1. /\ ctl' = Fresh /\ plan' = Nothing /\ UNCHANGED <<file, rep, served>>
        /\ spent' = [spent EXCEPT !.restarts = @ + 1]
    BY <1>3 DEF Restart
  <2>2. spent' \in [edits : Nat, faults : Nat, errors : Nat, restarts : Nat] /\ spent'.restarts # 0
    BY <2>1 DEF TypeOK
  <2>4. TypeOK'
    BY <2>1, <2>2, FreshMemory, NothingFields DEF TypeOK
  <2>5. Live' = Live
    BY <2>1 DEF Live
  <2> QED BY <2>1, <2>2, <2>4, <2>5, NothingFields, Shrinks
<1> QED BY <1>1, <1>2, <1>3

\* What is left of a plan.
LEMMA WithoutFields ==
    ASSUME plan \in Plans, NEW i
    PROVE  /\ Without("drain", i) \in Plans /\ Without("start", i) \in Plans
           /\ Without("drain", i).drain = plan.drain \ {i}
           /\ Without("drain", i).start = plan.start
           /\ Without("start", i).start = plan.start \ {i}
           /\ Without("start", i).drain = plan.drain
<1> DEFINE p == [plan EXCEPT !["drain"] = @ \ {i}]
           q == [plan EXCEPT !["start"] = @ \ {i}]
<1>1. p \in Plans /\ p.drain = plan.drain \ {i} /\ p.start = plan.start
  BY DEF Plans
<1>2. q \in Plans /\ q.start = plan.start \ {i} /\ q.drain = plan.drain
  BY DEF Plans
<1>3. Without("drain", i) = IF p.drain \cup p.start = {} THEN Nothing ELSE p
  BY DEF Without
<1>4. Without("start", i) = IF q.drain \cup q.start = {} THEN Nothing ELSE q
  BY DEF Without
<1> HIDE DEF p, q
<1>5. /\ Without("drain", i) \in Plans /\ Without("drain", i).drain = plan.drain \ {i}
      /\ Without("drain", i).start = plan.start
  BY <1>1, <1>3, NothingFields
<1>6. /\ Without("start", i) \in Plans /\ Without("start", i).start = plan.start \ {i}
      /\ Without("start", i).drain = plan.drain
  BY <1>2, <1>4, NothingFields
<1> QED BY <1>5, <1>6

\* A drain removes a replica that was not counted on.
LEMMA DrainKeeps ==
    ASSUME TypeOK, Bounded, NEW i \in Indexes, Drain(i)
    PROVE  StepKeeps
<1>0. ctl \in Memory /\ rep \in [Indexes -> Replicas] /\ plan \in Plans /\ i \in plan.drain
      /\ UNCHANGED <<file, spent, served>>
  BY DEF TypeOK, Drain
<1>1. CASE rep[i].state = "none"
  <2>1. plan' = Nothing /\ UNCHANGED <<rep, ctl>>
    BY <1>1 DEF Drain
  <2>2. TypeOK'
    BY <1>0, <2>1, NothingFields DEF TypeOK
  <2>3. Live' = Live /\ Ready' = Ready
    BY <2>1 DEF Live, Ready
  <2> QED BY <1>0, <2>1, <2>2, <2>3, NothingFields, Shrinks
<1>2. CASE rep[i].state # "none"
  <2> DEFINE f == [ctl.since EXCEPT ![i] = "never"]
             c == [ctl EXCEPT !.early = HasDelay]
             d == [c EXCEPT !.since = f]
  <2>1. /\ rep' = [rep EXCEPT ![i] = NoReplica]
        /\ ctl' = [Acted EXCEPT !.since[i] = "never"]
        /\ plan' = Without("drain", i)
    BY <1>2 DEF Drain
  <2>2. c \in Memory /\ c.since = ctl.since /\ c.applied = ctl.applied
    BY <1>0, ControllerAssumption, MemoryUpdate DEF Memory
  <2>3. ctl' = d
    <3>1. Acted = c
      BY DEF Acted
    <3> HIDE DEF c
    <3> QED BY <2>1, <2>2, <3>1
  <2>4. f \in [Indexes -> {"never", "now", "long"}] /\ \A j \in Indexes : j # i => f[j] = ctl.since[j]
    BY <1>0 DEF Memory
  <2> HIDE DEF c, f
  <2>5. d \in Memory /\ d.since = f /\ d.applied = ctl.applied
    BY <2>2, <2>4, MemoryUpdate DEF Memory
  <2> HIDE DEF d
  <2>6. NoReplica \in Replicas /\ NoReplica.state = "none"
    BY DEF NoReplica, Replicas, Revs
  <2>7. /\ rep' \in [Indexes -> Replicas] /\ rep'[i].state = "none"
        /\ \A j \in Indexes : j # i => rep'[j] = rep[j]
    BY <1>0, <2>1, <2>6
  <2>8. TypeOK'
    BY <1>0, <2>1, <2>3, <2>5, <2>7, WithoutFields DEF TypeOK
  <2>9. Live' \subseteq Live /\ i \notin Live' /\ \A j \in Live' : rep'[j].rev = rep[j].rev
    BY <2>7 DEF Live, Health
  <2>10. Ready \ plan.drain \subseteq Ready' \ plan'.drain
    <3> SUFFICES ASSUME NEW j \in Ready, j \notin plan.drain
                 PROVE  j \in Ready' /\ j \notin plan'.drain
      OBVIOUS
    <3>1. j \in Indexes /\ j # i /\ rep[j].state = "healthy" /\ ctl.since[j] = "long"
      BY <1>0 DEF Ready, Live
    <3>2. rep'[j] = rep[j] /\ ctl'.since[j] = "long"
      BY <2>3, <2>4, <2>5, <2>7, <3>1
    <3>3. plan'.drain = plan.drain \ {i}
      BY <1>0, <2>1, WithoutFields
    <3> QED BY <3>1, <3>2, <3>3 DEF Ready, Live, Health
  <2>11. plan'.start = plan.start
    BY <1>0, <2>1, WithoutFields
  <2>12. ctl'.applied = ctl.applied
    BY <2>3, <2>5
  <2> QED BY <1>0, <2>8, <2>9, <2>10, <2>11, <2>12, Shrinks
<1> QED BY <1>1, <1>2

\* A start adds a replica that the bound counted already.
LEMMA StartKeeps ==
    ASSUME TypeOK, Bounded, NEW i \in Indexes, Start(i)
    PROVE  StepKeeps
<1>0. /\ ctl \in Memory /\ rep \in [Indexes -> Replicas] /\ plan \in Plans /\ i \in plan.start
      /\ UNCHANGED <<file, spent, served>> /\ plan' = Without("start", i)
  BY DEF TypeOK, Start
<1>1. plan' \in Plans /\ plan'.start = plan.start \ {i} /\ plan'.drain = plan.drain
  BY <1>0, WithoutFields
<1>2. CASE UNCHANGED <<rep, ctl>>
  <2>1. TypeOK'
    BY <1>0, <1>1, <1>2 DEF TypeOK
  <2>2. Live' = Live /\ Ready' = Ready
    BY <1>2 DEF Live, Ready
  <2> QED BY <1>0, <1>1, <1>2, <2>1, <2>2, Shrinks
<1>3. CASE /\ rep[i].state = "none"
           /\ rep' = [rep EXCEPT ![i] = [rev |-> ctl.applied, state |-> "starting"]]
           /\ ctl' = Acted
  <2>1. ctl' \in Memory /\ ctl'.since = ctl.since /\ ctl'.applied = ctl.applied
    BY <1>0, <1>3, ControllerAssumption, MemoryUpdate DEF Memory, Acted
  <2>2. [rev |-> ctl.applied, state |-> "starting"] \in Replicas
    BY LiveSets DEF Replicas
  <2>3. /\ rep' \in [Indexes -> Replicas] /\ rep'[i].rev = ctl.applied /\ rep'[i].state = "starting"
        /\ \A j \in Indexes : j # i => rep'[j] = rep[j]
    BY <1>0, <1>3, <2>2
  <2>4. TypeOK'
    BY <1>0, <1>1, <2>1, <2>3 DEF TypeOK
  <2>5. /\ Live' = Live \cup {i} /\ i \notin Live
        /\ \A j \in Live : rep'[j] = rep[j]
    BY <1>3, <2>3 DEF Live, Health
  <2>6. Ready' = Ready
    BY <1>3, <2>1, <2>3, <2>5 DEF Ready
  <2>7. /\ Of(ctl.applied)' = Of(ctl.applied) \cup {i}
        /\ \A r : r # ctl.applied => Of(r)' = Of(r)
    BY <2>1, <2>3, <2>5 DEF Of
  <2> DEFINE U == Of(ctl.applied) \cup plan.start
  <2>8. U \in SUBSET Indexes /\ Cardinality(U) <= Desired
    BY LiveSets DEF Bounded
  <2>9. Of(ctl.applied)' \cup plan'.start = U /\ Of(ctl.applied)' \subseteq U
    BY <1>0, <1>1, <2>7
  <2>10. ASSUME NEW r \in Revs
         PROVE  Cardinality(Of(r)') <= Desired
    <3>1. CASE r = ctl.applied
      <4>1. Of(r)' = Of(ctl.applied)'
        BY <2>1, <3>1 DEF Of
      <4>2. Of(r)' \subseteq U
        BY <2>9, <4>1
      <4> HIDE DEF U
      <4>3. Cardinality(Of(r)') <= Cardinality(U) /\ Cardinality(U) \in Nat /\ Cardinality(Of(r)') \in Nat
        BY <2>8, <4>2, Fewer, IndexSets
      <4> QED BY <2>8, <4>3, RolloutAssumption
    <3>2. CASE r # ctl.applied
      BY <2>7, <3>2 DEF Bounded
    <3> QED BY <3>1, <3>2
  <2>11. Bounded'
    BY <2>8, <2>9, <2>10 DEF Bounded
  <2>12. Covered => Covered'
    BY <1>0, <1>1, <2>6 DEF Covered
  <2>13. Single => Single'
    <3> SUFFICES ASSUME Single PROVE Single'
      OBVIOUS
    <3>1. \A j \in Live' : rep'[j].rev = ctl.applied
      BY <1>0, <2>3, <2>5 DEF Single
    <3> QED BY <2>1, <3>1 DEF Single, OneRevision
  <2> QED BY <2>4, <2>11, <2>12, <2>13 DEF StepKeeps
<1> QED BY <1>2, <1>3 DEF Start

\* A tick observes the replicas and decides.
LEMMA ObserveKeeps ==
    ASSUME TypeOK, Bounded, Observe
    PROVE  StepKeeps
<1>0. ctl \in Memory /\ rep \in [Indexes -> Replicas] /\ file \in Revisions
      /\ plan = Nothing /\ UNCHANGED <<file, spent>>
  BY DEF TypeOK, Observe
<1>1. PICK c : c = Seen(Applied(ctl))
  OBVIOUS
<1>2. /\ c \in Memory
      /\ \A i \in Indexes : rep[i].state = "healthy" /\ ctl.since[i] = "long" => c.since[i] = "long"
  BY <1>0, <1>1, AppliedFacts, SeenFacts
<1>3. PICK o : o = Observation(c)
  OBVIOUS
<1>4. PICK s : s = next_step(o)
  OBVIOUS
<1>5. /\ ctl' = Decided(c, s.kind)
      /\ rep' = [i \in Indexes |-> IF i \in Exited THEN NoReplica ELSE rep[i]]
      /\ plan' = IF s.drain \cup s.start = {} THEN Nothing ELSE s
      /\ served' = (served \/ (s.kind = "complete" /\ Desired > 0))
  BY <1>1, <1>3, <1>4 DEF Observe
<1>6. /\ o.live = Live /\ o.target = c.applied /\ \A i \in Live : o.rev[i] = rep[i].rev
      /\ o.ready = {i \in Live : rep[i].state = "healthy" /\ c.since[i] = "long"}
  BY <1>3 DEF Observation
<1>7. New(o) = Of(c.applied) /\ Old(o) = {i \in Live : rep[i].rev # c.applied}
  BY <1>6 DEF New, Old, Of
<1>8. c.applied \in Revs /\ Cardinality(New(o)) <= Desired
  BY <1>2, <1>7 DEF Memory, Bounded
<1>9. o.live \in SUBSET Indexes /\ o.ready \in SUBSET o.live /\ o.ready \in SUBSET Indexes
  BY <1>6, LiveSets
<1>10. StepGood(o, s)
  BY <1>4, <1>8, <1>9, NextStepGood
<1>11. plan' \in Plans /\ plan'.drain = s.drain /\ plan'.start = s.start
  <2>1. s \in Plans
    BY <1>10 DEF StepGood
  <2>2. CASE s.drain \cup s.start = {}
    <3>1. s.drain = {} /\ s.start = {}
      BY <2>2
    <3> QED BY <1>5, <2>2, <3>1, NothingFields
  <2>3. CASE s.drain \cup s.start # {}
    BY <1>5, <2>1, <2>3
  <2> QED BY <2>2, <2>3
<1>12. ctl' \in Memory /\ ctl'.since = c.since /\ (s.kind # "rollback" => ctl'.applied = c.applied)
  BY <1>2, <1>5, DecidedFacts
<1>13. NoReplica \in Replicas /\ NoReplica.state = "none"
  BY DEF NoReplica, Replicas, Revs
<1>14. rep' \in [Indexes -> Replicas]
       /\ \A i \in Indexes : IF i \in Exited THEN rep'[i].state = "none" ELSE rep'[i] = rep[i]
  BY <1>0, <1>5, <1>13
<1>15. /\ Live' = Live /\ \A i \in Live : i \in Indexes /\ rep'[i] = rep[i]
       /\ Ready' = o.ready /\ Ready \subseteq o.ready
       /\ \A r : Of(r)' = Of(r)
  <2>1. Live' = Live /\ \A i \in Live : i \in Indexes /\ rep'[i] = rep[i]
    BY <1>14 DEF Live, Exited, Health
  <2>2. Ready' = o.ready
    BY <1>6, <1>12, <2>1 DEF Ready
  <2>3. Ready \subseteq o.ready
    BY <1>2, <1>6, <2>1 DEF Ready
  <2>4. \A r : Of(r)' = Of(r)
    BY <2>1 DEF Of
  <2> QED BY <2>1, <2>2, <2>3, <2>4
<1>16. TypeOK'
  <2>1. served' \in BOOLEAN
    BY <1>5 DEF TypeOK
  <2> QED BY <1>0, <1>11, <1>12, <1>14, <2>1 DEF TypeOK
<1>17. Bounded'
  <2>1. \A r \in Revs : Cardinality(Of(r)') <= Desired
    BY <1>15 DEF Bounded
  <2>2. Of(ctl.applied)' = Of(ctl'.applied) /\ ctl'.applied \in Revs
    BY <1>12, <1>15 DEF Memory, Of
  <2>3. CASE s.kind = "rollback"
    <3>1. plan'.start = {}
      BY <1>10, <1>11, <2>3 DEF StepGood
    <3>2. Of(ctl.applied)' \cup plan'.start = Of(ctl'.applied)
      BY <2>2, <3>1
    <3>3. Cardinality(Of(ctl'.applied)) <= Desired
      BY <2>2 DEF Bounded
    <3> QED BY <2>1, <3>2, <3>3 DEF Bounded
  <2>4. CASE s.kind # "rollback"
    <3>1. Of(ctl.applied)' \cup plan'.start = New(o) \cup s.start
      BY <1>7, <1>11, <1>12, <2>2, <2>4
    <3>2. Cardinality(New(o) \cup s.start) <= Desired
      BY <1>10 DEF StepGood
    <3> QED BY <2>1, <3>1, <3>2 DEF Bounded
  <2> QED BY <2>3, <2>4
<1>18. Strategy = "rolling" /\ Covered => Covered'
  <2> SUFFICES ASSUME Strategy = "rolling", Covered, served', spent'.faults = 0, spent'.restarts = 0
               PROVE  Cardinality(Ready' \ plan'.drain) + MaxUnavailable >= Desired
    BY DEF Covered
  <2>0. Cardinality(o.ready) \in Nat /\ Cardinality(Ready) \in Nat
    BY <1>9, LiveSets, IndexSets
  <2>1. CASE served
    <3>1. Ready \ plan.drain = Ready
      BY <1>0, NothingFields
    <3>2. Cardinality(Ready) + MaxUnavailable >= Desired
      BY <1>0, <2>1, <3>1 DEF Covered
    <3>3. Cardinality(Ready) <= Cardinality(o.ready)
      BY <1>9, <1>15, Fewer
    <3>4. Cardinality(o.ready) + MaxUnavailable >= Desired
      BY <2>0, <3>2, <3>3, RolloutAssumption
    <3>5. Cardinality(o.ready \ s.drain) + MaxUnavailable >= Desired
      BY <1>10, <3>4 DEF StepGood
    <3> QED BY <1>11, <1>15, <3>5
  <2>2. CASE s.kind = "complete"
    <3>1. Desired <= Cardinality(o.ready) /\ s.drain = {}
      BY <1>10, <2>2 DEF StepGood
    <3>2. Ready' \ plan'.drain = o.ready
      BY <1>11, <1>15, <3>1
    <3>3. Cardinality(o.ready) + MaxUnavailable >= Desired
      BY <2>0, <3>1, RolloutAssumption
    <3> QED BY <3>2, <3>3
  <2> QED BY <1>5, <2>1, <2>2
<1>19. Strategy = "recreate" /\ Single => Single'
  <2> SUFFICES ASSUME Strategy = "recreate", Single PROVE Single'
    OBVIOUS
  <2>1. OneRevision'
    BY <1>15 DEF Single, OneRevision
  <2>2. ASSUME plan'.start # {}, NEW i \in Live
        PROVE  rep'[i].rev = ctl'.applied
    <3>1. Old(o) = {} /\ s.kind # "rollback"
      BY <1>10, <1>11, <2>2 DEF StepGood
    <3> QED BY <1>7, <1>12, <1>15, <3>1
  <2> QED BY <1>15, <2>1, <2>2 DEF Single
<1> QED BY <1>16, <1>17, <1>18, <1>19 DEF StepKeeps

-----------------------------------------------------------------------------
(* The theorems.                                                           *)

\* Every step of the controller and of the world around it.
LEMMA NextKeeps ==
    ASSUME TypeOK, Bounded, [Next]_vars
    PROVE  StepKeeps
<1>1. CASE World
  BY <1>1, WorldKeeps
<1>2. CASE Tick
  BY <1>2, ObserveKeeps, TroubleKeeps, DrainKeeps, StartKeeps DEF Tick
<1>3. CASE UNCHANGED vars
  <2>1. UNCHANGED <<file, rep, ctl, plan, spent, served>>
    BY <1>3 DEF vars
  <2>2. Live' = Live /\ Ready' = Ready
    BY <2>1 DEF Live, Ready
  <2>3. TypeOK'
    BY <2>1 DEF TypeOK
  <2> QED BY <2>1, <2>2, <2>3, Shrinks
<1> QED BY <1>1, <1>2, <1>3 DEF Next

\* At first nothing runs and nothing is planned.
LEMMA ControllerInit == Init => TypeOK /\ Bounded /\ Covered /\ Single
<1> SUFFICES ASSUME Init PROVE TypeOK /\ Bounded /\ Covered /\ Single
  OBVIOUS
<1>1. NoReplica \in Replicas /\ NoReplica.state = "none"
  BY DEF NoReplica, Replicas, Revs
<1>2. TypeOK
  BY <1>1, FreshMemory, NothingFields DEF Init, TypeOK
<1>3. Live = {} /\ plan.start = {} /\ served = FALSE
  BY <1>1, NothingFields DEF Init, Live, Health
<1>4. Bounded
  <2>1. \A r : Of(r) = {} /\ Of(ctl.applied) \cup plan.start = {}
    BY <1>3 DEF Of
  <2>2. Cardinality({}) <= Desired
    BY FS_EmptySet, RolloutAssumption
  <2> QED BY <2>1, <2>2 DEF Bounded
<1> QED BY <1>2, <1>3, <1>4 DEF Covered, Single, OneRevision

\* A rollout by the rolling strategy never takes a service that was up below
\* desired - max_unavailable healthy replicas, for any number of replicas, any surge
\* and any number of edits and errors: rollout.rs counts the ready replicas only.
THEOREM RollingKeepsServing ==
    ASSUME Strategy = "rolling"
    PROVE  Spec => []AvailabilityKept
<1>1. Init => TypeOK /\ Bounded /\ Covered
  BY ControllerInit
<1>2. TypeOK /\ Bounded /\ Covered /\ [Next]_vars => (TypeOK /\ Bounded /\ Covered)'
  BY NextKeeps DEF StepKeeps
<1>3. TypeOK /\ Covered => AvailabilityKept
  <2> SUFFICES ASSUME TypeOK, Covered, served, spent.faults = 0, spent.restarts = 0
               PROVE  Cardinality(Healthy) + MaxUnavailable >= Desired
    BY DEF AvailabilityKept
  <2> DEFINE U == Ready \ plan.drain
  <2>1. U \subseteq Healthy /\ Healthy \in SUBSET Indexes
    BY LiveSets DEF Ready, Healthy
  <2>2. Cardinality(U) + MaxUnavailable >= Desired
    BY DEF Covered
  <2> HIDE DEF U
  <2>3. Cardinality(U) <= Cardinality(Healthy) /\ Cardinality(U) \in Nat /\ Cardinality(Healthy) \in Nat
    BY <2>1, Fewer, IndexSets
  <2> QED BY <2>2, <2>3, RolloutAssumption
<1> QED BY <1>1, <1>2, <1>3, PTL DEF Spec

\* The recreate strategy drains every replica of the old revision before it starts
\* one of the new, whatever errors, restarts and edits come in between.
THEOREM RecreateIsExclusive ==
    ASSUME Strategy = "recreate"
    PROVE  Spec => []OneRevision
<1>1. Init => TypeOK /\ Bounded /\ Single
  BY ControllerInit
<1>2. TypeOK /\ Bounded /\ Single /\ [Next]_vars => (TypeOK /\ Bounded /\ Single)'
  BY NextKeeps DEF StepKeeps
<1>3. Single => OneRevision
  BY DEF Single
<1> QED BY <1>1, <1>2, <1>3, PTL DEF Spec

\* No revision ever has more than the desired replicas, also under faults and restarts,
\* so that no replica is ever drained for being one too many.
THEOREM NeverTooMany == Spec => [](\A r \in Revs : Cardinality(Of(r)) <= Desired)
<1>1. Init => TypeOK /\ Bounded
  BY ControllerInit
<1>2. TypeOK /\ Bounded /\ [Next]_vars => (TypeOK /\ Bounded)'
  BY NextKeeps DEF StepKeeps
<1>3. Bounded => \A r \in Revs : Cardinality(Of(r)) <= Desired
  BY DEF Bounded
<1> QED BY <1>1, <1>2, <1>3, PTL DEF Spec
=============================================================================
