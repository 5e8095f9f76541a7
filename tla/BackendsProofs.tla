--------------------------- MODULE BackendsProofs ---------------------------
(***************************************************************************)
(* The kernel's rules follow the daemon's state, for every set of          *)
(* containers, load balancers and health checks, and any number of         *)
(* retries.                                                                *)
(***************************************************************************)
EXTENDS Backends, TLAPS

\* RulesCurrent is inductive together with the types that the updates of the
\* trackers and probes need.
BackendsInv == TypeOK /\ RulesCurrent

\* At least one failure is needed.
LEMMA RetriesType == retries \in Nat /\ retries >= 1
  BY BackendsAssumption DEF retries

\* What a check leaves in the tracker.
LEMMA RecordType ==
    ASSUME NEW t \in Trackers, NEW ok \in BOOLEAN
    PROVE  record(t, ok) \in Trackers
<1>1. CASE ok
  BY <1>1, RetriesType DEF record, Trackers
<1>2. CASE ~ok
  <2> DEFINE n == IF t.consecutive_failures < retries THEN t.consecutive_failures + 1 ELSE retries
  <2>1. n \in 0..retries
    BY RetriesType DEF Trackers
  <2>2. record(t, ok) = [state |-> IF n >= retries THEN "unhealthy" ELSE t.state,
                         consecutive_failures |-> n]
    BY <1>2 DEF record
  <2> HIDE DEF n
  <2> QED BY <2>1, <2>2 DEF Trackers
<1> QED BY <1>1, <1>2

\* The tracker of a launch, and of no container.
LEMMA NewTrackerType == \A c \in Ids : NewTracker(c) \in Trackers /\ NoTracker \in Trackers
  BY RetriesType DEF NewTracker, NoTracker, Trackers

\* The rules depend on the load balancers, on what is live and stopping, and on
\* the states of the trackers, and on nothing else.
LEMMA SameRules ==
    ASSUME live' = live, stopping' = stopping, lbs' = lbs,
           \A c \in Ids : tracker'[c].state = tracker[c].state
    PROVE  ruleset' = ruleset
<1>1. ASSUME NEW l \in Balancers PROVE backends(l)' = backends(l)
  <2>1. Serves[l] \subseteq Ids
    BY BackendsAssumption
  <2> QED BY <2>1 DEF backends, Serving
<1>2. [l \in Balancers |-> [set |-> l \in lbs, backends |-> IF l \in lbs THEN backends(l) ELSE {}]]'
      = [l \in Balancers |-> [set |-> l \in lbs, backends |-> IF l \in lbs THEN backends(l) ELSE {}]]
  BY <1>1
<1> QED BY <1>2 DEF ruleset

\* A check either changes no state, or marks the rules as out of date.
LEMMA CheckStep ==
    ASSUME TypeOK, NEW c \in Ids, NEW ok \in BOOLEAN, record_health(c, ok)
    PROVE  /\ tracker' \in [Ids -> Trackers]
           /\ fw_dirty' \in BOOLEAN
           /\ ~fw_dirty' => /\ ~fw_dirty
                            /\ \A d \in Ids : tracker'[d].state = tracker[d].state
<1>1. CASE c \in live /\ CheckKind[c] # "none"
  <2> DEFINE t == record(tracker[c], ok)
  <2>1. t \in Trackers
    BY RecordType DEF TypeOK
  <2>2. /\ tracker' = [tracker EXCEPT ![c] = t]
        /\ fw_dirty' = (fw_dirty \/ t.state # tracker[c].state)
    BY <1>1 DEF record_health
  <2> HIDE DEF t
  <2>4. fw_dirty' \in BOOLEAN
    BY <2>2 DEF TypeOK
  <2>5. tracker' \in [Ids -> Trackers]
    BY <2>1, <2>2 DEF TypeOK
  <2>6. ASSUME ~fw_dirty'
        PROVE  ~fw_dirty /\ \A d \in Ids : tracker'[d].state = tracker[d].state
    <3>1. ~fw_dirty /\ t.state = tracker[c].state
      BY <2>2, <2>6
    <3> QED BY <2>2, <3>1 DEF TypeOK
  <2> QED BY <2>4, <2>5, <2>6
<1>2. CASE ~(c \in live /\ CheckKind[c] # "none")
  BY <1>2 DEF record_health, TypeOK
<1> QED BY <1>1, <1>2

\* A run of nft installs the rules that it was given, or is known to have failed.
LEMMA NftStep ==
    ASSUME NEW ACTION rules, RunNft(rules)
    PROVE  /\ stale' \in BOOLEAN
           /\ leftover' \subseteq leftover
           /\ ~stale' => nft' = rules
  BY DEF RunNft

-----------------------------------------------------------------------------

\* Nothing runs and no rule is installed.
LEMMA BackendsInit == Init => BackendsInv
<1> SUFFICES ASSUME Init PROVE TypeOK /\ RulesCurrent
  BY DEF BackendsInv
<1>1. tracker \in [Ids -> Trackers] /\ probe \in [Ids -> Probes]
  BY NewTrackerType DEF Init, Probes
<1>3. /\ ~up /\ up \in BOOLEAN /\ fw_dirty \in BOOLEAN /\ stale \in BOOLEAN
      /\ leftover \subseteq Balancers
  BY DEF Init
<1> QED BY <1>1, <1>3 DEF Init, TypeOK, RulesCurrent

\* The parts of the rules that op_init may change.
LEMMA RulesParts ==
    /\ ruleset.ports = Published \cap live
    /\ \A l \in Balancers :
         ruleset.lbs[l] = [set |-> l \in lbs, backends |-> IF l \in lbs THEN backends(l) ELSE {}]
  BY DEF ruleset

\* op_init without a live container removes balancers whose rules have no
\* backends, and otherwise marks the rules as out of date.
LEMMA InitStep ==
    ASSUME BackendsInv, NEW killed \in SUBSET Ids, op_init(killed)
    PROVE  BackendsInv'
<1> USE DEF BackendsInv
<1>1. probe' \in [Ids -> Probes] /\ tracker' \in [Ids -> Trackers]
  BY NewTrackerType DEF op_init, TypeOK, Probes, Orphaned
<1>2. /\ fw_dirty' = (fw_dirty \/ killed # {})
      /\ UNCHANGED <<up, sick, nft, stale>>
      /\ live' = live \ killed /\ alive' = alive \ killed /\ stopping' = stopping \ killed
      /\ \/ UNCHANGED <<lbs, leftover>>
         \/ /\ killed = live /\ lbs' = {}
            /\ leftover' = IF fw_dirty' THEN leftover ELSE leftover \cup lbs
  BY DEF op_init
<1>3. fw_dirty' \in BOOLEAN
  BY <1>2 DEF TypeOK
<1>4. TypeOK'
  BY <1>1, <1>2, <1>3 DEF TypeOK
<1>5. CASE fw_dirty'
  BY <1>4, <1>5 DEF RulesCurrent
<1>6. CASE ~fw_dirty'
  <2>1. ~fw_dirty /\ killed = {} /\ live' = live /\ stopping' = stopping
    BY <1>2, <1>6
  <2>2. \A d \in Ids : tracker'[d].state = tracker[d].state
    BY <2>1 DEF op_init, TypeOK
  <2>3. CASE UNCHANGED <<lbs, leftover>>
    <3>1. ruleset' = ruleset
      BY <2>1, <2>2, <2>3, SameRules
    <3> QED BY <1>2, <1>4, <2>1, <2>3, <3>1 DEF RulesCurrent
  <2>4. CASE killed = live /\ lbs' = {} /\ leftover' = leftover \cup lbs
    <3>1. live = {} /\ live' = {}
      BY <2>1, <2>4
    <3>2. ASSUME NEW l \in Balancers
          PROVE  /\ ruleset.lbs[l] = [set |-> l \in lbs, backends |-> {}]
                 /\ ruleset.lbs[l]' = [set |-> FALSE, backends |-> {}]
                 /\ ruleset.lbs[l].backends = {} /\ ruleset.lbs[l]'.backends = {}
      <4>1. backends(l) = {}
        BY <3>1 DEF backends, Serving
      <4>2. ruleset.lbs[l]' = [set |-> l \in lbs', backends |-> IF l \in lbs' THEN backends(l)' ELSE {}]
        BY DEF ruleset
      <4>3. ruleset.lbs[l] = [set |-> l \in lbs, backends |-> IF l \in lbs THEN backends(l) ELSE {}]
        BY RulesParts
      <4>4. ruleset.lbs[l] = [set |-> l \in lbs, backends |-> {}]
        BY <4>1, <4>3
      <4>5. (l \in lbs') = FALSE
        BY <2>4
      <4>6. ruleset.lbs[l]' = [set |-> FALSE, backends |-> {}]
        BY <4>2, <4>5
      <4>7. \A x : [set |-> x, backends |-> {}].backends = {}
        OBVIOUS
      <4> QED BY <4>4, <4>6, <4>7
    <3>3. ruleset.ports = {} /\ ruleset.ports' = {}
      BY <3>1 DEF ruleset
    <3>4. ASSUME up, ~stale
          PROVE  /\ nft.ports = {} /\ \A l \in Balancers : nft.lbs[l].backends = {}
                 /\ \A l \in Balancers \ leftover' : nft.lbs[l] = ruleset.lbs[l]'
      <4>1. /\ nft.ports = ruleset.ports
            /\ \A l \in Balancers : nft.lbs[l].backends = ruleset.lbs[l].backends
            /\ \A l \in Balancers \ leftover : nft.lbs[l] = ruleset.lbs[l]
        BY <2>1, <3>4 DEF RulesCurrent
      <4>2. \A l \in Balancers : ruleset.lbs[l].backends = {}
        BY <3>2
      <4>3. ASSUME NEW l \in Balancers \ leftover' PROVE nft.lbs[l] = ruleset.lbs[l]'
        <5>1. l \in Balancers \ leftover /\ l \notin lbs
          BY <2>4
        <5>2. (l \in lbs) = FALSE
          BY <5>1
        <5>3. ruleset.lbs[l] = [set |-> FALSE, backends |-> {}]
          BY <3>2, <5>1, <5>2
        <5>4. ruleset.lbs[l]' = [set |-> FALSE, backends |-> {}]
          BY <3>2, <5>1
        <5> QED BY <4>1, <5>1, <5>3, <5>4
      <4> QED BY <3>3, <4>1, <4>2, <4>3
    <3>5. \A l \in Balancers : ruleset.lbs[l]'.backends = {}
      BY <3>2
    <3>6. ASSUME up', ~fw_dirty', ~stale'
          PROVE  /\ nft'.ports = ruleset'.ports
                 /\ \A l \in Balancers : nft'.lbs[l].backends = ruleset'.lbs[l].backends
                 /\ \A l \in Balancers \ leftover' : nft'.lbs[l] = ruleset'.lbs[l]
      <4>1. nft' = nft /\ up /\ ~stale
        BY <1>2, <3>6
      <4> QED BY <3>3, <3>4, <3>5, <4>1
    <3>7. RulesCurrent'
      BY <3>6 DEF RulesCurrent
    <3> QED BY <1>4, <3>7
  <2> QED BY <1>2, <1>6, <2>3, <2>4
<1> QED BY <1>5, <1>6

\* The handlers that change what is live, stopping or balanced.
LEMMA HandlerStep ==
    ASSUME BackendsInv,
           \/ \E c \in Ids : Launch(c) \/ OnExit(c) \/ Stop(c)
           \/ \E l \in Balancers : LbSet(l) \/ LbRemove(l)
           \/ \E killed \in SUBSET Ids : op_init(killed)
    PROVE  BackendsInv'
<1> USE DEF BackendsInv
<1>1. ASSUME NEW c \in Ids, Launch(c) PROVE BackendsInv'
  <2>1. tracker' \in [Ids -> Trackers]
    BY <1>1, NewTrackerType DEF Launch, TypeOK
  <2> QED BY <1>1, <2>1 DEF Launch, TypeOK, RulesCurrent
<1>2. ASSUME NEW c \in Ids, OnExit(c) PROVE BackendsInv'
  <2>1. probe' \in [Ids -> Probes] /\ tracker' \in [Ids -> Trackers]
    BY <1>2, NewTrackerType DEF OnExit, TypeOK, Probes, Orphaned
  <2> QED BY <1>2, <2>1 DEF OnExit, TypeOK, RulesCurrent
<1>3. ASSUME NEW c \in Ids, Stop(c) PROVE BackendsInv'
  BY <1>3 DEF Stop, TypeOK, RulesCurrent
<1>4. ASSUME NEW l \in Balancers, LbSet(l) PROVE BackendsInv'
  BY <1>4 DEF LbSet, TypeOK, RulesCurrent
<1>5. ASSUME NEW l \in Balancers, LbRemove(l) PROVE BackendsInv'
  BY <1>5 DEF LbRemove, TypeOK, RulesCurrent
<1>6. ASSUME NEW killed \in SUBSET Ids, op_init(killed) PROVE BackendsInv'
  BY <1>6, InitStep
<1> QED BY <1>1, <1>2, <1>3, <1>4, <1>5, <1>6

\* Checks and probes.
LEMMA HealthStep ==
    ASSUME BackendsInv, NEW c \in Ids,
           CheckNet(c) \/ SpawnProbe(c) \/ ProbeEnds(c) \/ ProbeResult(c)
    PROVE  BackendsInv'
<1> USE DEF BackendsInv
<1>1. ASSUME NEW ok \in BOOLEAN, record_health(c, ok),
             probe' \in [Ids -> Probes],
             UNCHANGED <<up, alive, sick, live, stopping, lbs, nft, stale, leftover>>
      PROVE  BackendsInv'
  <2>1. /\ tracker' \in [Ids -> Trackers] /\ fw_dirty' \in BOOLEAN
        /\ ~fw_dirty' => ~fw_dirty /\ \A d \in Ids : tracker'[d].state = tracker[d].state
    BY <1>1, CheckStep
  <2>2. TypeOK'
    BY <1>1, <2>1 DEF TypeOK
  <2>3. ~fw_dirty' => ruleset' = ruleset
    BY <1>1, <2>1, SameRules
  <2>4. RulesCurrent'
    BY <1>1, <2>1, <2>3 DEF RulesCurrent
  <2> QED BY <2>2, <2>4
<1>2. CASE CheckNet(c)
  <2>1. /\ record_health(c, c \in alive \ sick)
        /\ UNCHANGED <<up, alive, sick, live, stopping, probe, lbs, nft, stale, leftover>>
    BY <1>2 DEF CheckNet
  <2>2. (c \in alive \ sick) \in BOOLEAN /\ probe' \in [Ids -> Probes]
    BY <2>1 DEF TypeOK
  <2> QED BY <1>1, <2>1, <2>2
<1>3. CASE SpawnProbe(c)
  <2>1. CASE record_health(c, FALSE) /\ UNCHANGED probe
    <3>1. UNCHANGED <<up, alive, sick, live, stopping, lbs, nft, stale, leftover>>
      BY <1>3 DEF SpawnProbe
    <3> QED BY <1>1, <2>1, <3>1 DEF TypeOK
  <2>2. CASE /\ probe' = [probe EXCEPT ![c] = "running"]
             /\ UNCHANGED <<tracker, fw_dirty>>
    <3>1. UNCHANGED <<up, alive, sick, live, stopping, tracker, lbs, fw_dirty, nft, stale, leftover>>
      BY <1>3, <2>2 DEF SpawnProbe
    <3>2. ruleset' = ruleset
      BY <3>1, SameRules
    <3>3. probe' \in [Ids -> Probes]
      BY <2>2 DEF TypeOK, Probes
    <3> QED BY <3>1, <3>2, <3>3 DEF TypeOK, RulesCurrent
  <2> QED BY <1>3, <2>1, <2>2 DEF SpawnProbe
<1>4. CASE ProbeEnds(c)
  <2>1. UNCHANGED <<up, alive, sick, live, stopping, tracker, lbs, fw_dirty, nft, stale, leftover>>
    BY <1>4 DEF ProbeEnds
  <2>2. ruleset' = ruleset
    BY <2>1, SameRules
  <2>3. probe' \in [Ids -> Probes]
    BY <1>4 DEF ProbeEnds, TypeOK, Probes
  <2> QED BY <2>1, <2>2, <2>3 DEF TypeOK, RulesCurrent
<1>5. CASE ProbeResult(c)
  <2>1. /\ record_health(c, probe[c] = "ok")
        /\ UNCHANGED <<up, alive, sick, live, stopping, lbs, nft, stale, leftover>>
        /\ probe' = [probe EXCEPT ![c] = "none"]
    BY <1>5 DEF ProbeResult
  <2>2. probe' \in [Ids -> Probes]
    BY <2>1 DEF TypeOK, Probes
  <2>3. (probe[c] = "ok") \in BOOLEAN
    OBVIOUS
  <2> QED BY <1>1, <2>1, <2>2, <2>3
<1> QED BY <1>2, <1>3, <1>4, <1>5

\* The end of a batch, crashes, restarts and what happens outside the daemon.
LEMMA WorldStep ==
    ASSUME BackendsInv,
           \/ Flush \/ Crash \/ Reboot \/ StartDaemon
           \/ \E c \in Ids : ProcDies(c) \/ ServiceChanges(c)
    PROVE  BackendsInv'
<1> USE DEF BackendsInv
<1>1. CASE Flush
  <2>1. /\ UNCHANGED <<up, alive, sick, live, stopping, tracker, probe, lbs>>
        /\ ~fw_dirty' /\ fw_dirty' \in BOOLEAN
        /\ RunNft(ruleset)
    BY <1>1 DEF Flush
  <2>2. ruleset' = ruleset
    BY <2>1, SameRules
  <2>3. stale' \in BOOLEAN /\ leftover' \subseteq leftover /\ (~stale' => nft' = ruleset)
    BY <2>1, NftStep
  <2> QED BY <2>1, <2>2, <2>3 DEF TypeOK, RulesCurrent
<1>2. CASE Crash \/ Reboot
  <2>1. Forgotten /\ UNCHANGED <<sick, lbs>> /\ alive' \subseteq Ids
    BY <1>2 DEF Crash, Reboot, TypeOK
  <2>2. tracker' \in [Ids -> Trackers] /\ probe' \in [Ids -> Probes]
    BY <2>1, NewTrackerType DEF Forgotten, Probes
  <2> QED BY <2>1, <2>2 DEF Forgotten, TypeOK, RulesCurrent
<1>3. CASE StartDaemon
  <2>1. /\ up' = TRUE /\ live' = alive /\ tracker' = [c \in Ids |-> IF c \in alive THEN NewTracker(c) ELSE NoTracker]
        /\ UNCHANGED <<alive, sick, stopping, probe, lbs, fw_dirty>>
        /\ RunNft(ruleset')
    BY <1>3 DEF StartDaemon
  <2>2. stale' \in BOOLEAN /\ leftover' \subseteq leftover /\ (~stale' => nft' = ruleset')
    BY <2>1, NftStep
  <2>3. tracker' \in [Ids -> Trackers]
    BY <2>1, NewTrackerType
  <2> QED BY <2>1, <2>2, <2>3 DEF TypeOK, RulesCurrent
<1>4. ASSUME NEW c \in Ids, ProcDies(c) \/ ServiceChanges(c) PROVE BackendsInv'
  <2>1. /\ UNCHANGED <<up, live, stopping, tracker, lbs, fw_dirty, nft, stale, leftover>>
        /\ alive' \subseteq Ids /\ sick' \subseteq Ids
    BY <1>4 DEF ProcDies, ServiceChanges, TypeOK
  <2>2. probe' \in [Ids -> Probes]
    BY <1>4 DEF ProcDies, ServiceChanges, TypeOK, Probes, Orphaned
  <2>3. ruleset' = ruleset
    BY <2>1, SameRules
  <2> QED BY <2>1, <2>2, <2>3 DEF TypeOK, RulesCurrent
<1> QED BY <1>1, <1>2, <1>3, <1>4

\* Every step preserves the invariant.
LEMMA BackendsNext == BackendsInv /\ [Next]_vars => BackendsInv'
<1> SUFFICES ASSUME BackendsInv, [Next]_vars PROVE BackendsInv'
  OBVIOUS
<1>1. CASE UNCHANGED vars
  <2>1. ruleset' = ruleset
    BY <1>1, SameRules DEF vars
  <2> QED BY <1>1, <2>1 DEF vars, BackendsInv, TypeOK, RulesCurrent
<1>2. CASE Next
  BY <1>2, HandlerStep, HealthStep, WorldStep DEF Next
<1> QED BY <1>1, <1>2

\* Whatever handlers ran in whatever order, and wherever the daemon crashed, the
\* rules in the kernel are those that its state calls for once a batch ended,
\* unless nft failed; a balancer that op_init removed before it failed may keep a
\* rule without backends.
THEOREM RulesAlwaysCurrent == Spec => [](TypeOK /\ RulesCurrent)
<1>1. BackendsInv => TypeOK /\ RulesCurrent
  BY DEF BackendsInv
<1> QED BY <1>1, BackendsInit, BackendsNext, PTL DEF Spec
=============================================================================
