----------------------------- MODULE NodeProofs -----------------------------
(***************************************************************************)
(* Proofs about what a node keeps in files and processes, for every set of  *)
(* containers and specs, any number of starts of a container and of lines   *)
(* of a log.                                                                *)
(***************************************************************************)
EXTENDS Node, SequenceTheorems, WellFoundedInduction, TLAPS

-----------------------------------------------------------------------------
(* A command in a container.                                               *)

Starts == 1..MaxStarts

RelayAt == {"join", "root", "setns", "fork", "wait", "exit"}
Relays == [at : RelayAt, of : Starts, joined : Starts \cup {None}, root : Starts \cup {None}]
Workings == [of : Starts, root : Starts \cup {None}, joined : Starts \cup {None}]

NoRelay == [at |-> "none"]
NoWorker == [of |-> None]

\* Start k has no process 1 any more.
Over(k) == k < life \/ (k = life /\ ~alive)

ExecType ==
    /\ life \in Starts /\ alive \in BOOLEAN /\ reaped \in BOOLEAN /\ cgroup \in BOOLEAN
    /\ reused \subseteq Starts
    /\ relay \in Relays \cup {NoRelay}
    /\ worker \in Workings \cup {NoWorker}

\* The daemon waits for a process 1 that is dead, and only then is its pid free
\* for another process.
PidsHeld == (reaped => ~alive) /\ \A k \in reused : Over(k)

\* The relay serves the current start or an earlier one, and the cgroup it joined
\* is not of an earlier start than that.
RelayJoined ==
    relay.at \in {"root", "setns", "fork"} =>
        relay.joined \in Starts /\ relay.of <= relay.joined /\ relay.joined <= life

\* A root that is not that of the start can only have been opened after the end
\* of its process 1: setns or the fork will fail.
RelayRooted == relay.at \in {"setns", "fork"} => relay.root = relay.of \/ Over(relay.of)

RelayKnown == relay # NoRelay => relay.of <= life

ExecInv ==
    ExecType /\ PidsHeld /\ RelayKnown /\ RelayJoined /\ RelayRooted /\ ExecInside

\* What the definitions of Exec say in the names used here.
LEMMA ExecNames ==
    /\ Command!NoRelay = NoRelay /\ Command!NoWorker = NoWorker /\ Command!Of = relay.of
    /\ Command!Lives = Starts /\ Command!Reachable = (relay.of = life /\ alive)
    /\ Command!Command = [of |-> relay.of, root |-> relay.root, joined |-> relay.joined]
  BY DEF Command!NoRelay, Command!NoWorker, Command!Of, Command!Lives, Command!Reachable,
         Command!Command, NoRelay, NoWorker, Starts

\* A relay that exists has its fields, and is told apart from none by them.
LEMMA RelayFields ==
    ASSUME ExecType
    PROVE  /\ relay.at \in RelayAt => relay \in Relays /\ relay # NoRelay
           /\ relay \in Relays => relay.at \in RelayAt /\ relay # NoRelay
           /\ relay = NoRelay \/ relay \in Relays
           /\ worker = NoWorker \/ (worker \in Workings /\ worker # NoWorker)
<1>1. NoRelay.at \notin RelayAt
  BY DEF NoRelay, RelayAt
<1>2. \A r \in Relays : r.at \in RelayAt
  BY DEF Relays
<1>3. \A w \in Workings : w.of \in Starts
  BY DEF Workings
<1>4. NoWorker.of \notin Starts
  BY NodeAssumption DEF NoWorker, Starts
<1> QED BY <1>1, <1>2, <1>3, <1>4 DEF ExecType

\* Moving the relay on keeps its other fields.
LEMMA RelayGoes ==
    \A r \in Relays, at \in RelayAt :
        LET n == [r EXCEPT !.at = at]
        IN  n \in Relays /\ n.at = at /\ n.of = r.of /\ n.joined = r.joined /\ n.root = r.root
  BY DEF Relays

\* Every step of the relay, of the command and of the container keeps the invariant.
LEMMA ExecStepInv == ASSUME ExecInv, Command!Next PROVE ExecInv'
<1>0. /\ ExecType /\ PidsHeld /\ RelayKnown /\ RelayJoined /\ RelayRooted /\ ExecInside
      /\ MaxStarts \in Nat /\ None \notin Nat /\ Starts \subseteq Nat
      /\ life \in Starts /\ life \in Nat /\ alive \in BOOLEAN /\ reaped \in BOOLEAN /\ cgroup \in BOOLEAN
  BY NodeAssumption DEF ExecInv, ExecType, Starts
<1>b. worker # NoWorker =>
        worker.root = worker.of /\ worker.joined = worker.of /\ worker.of = life /\ alive
  BY <1>0, ExecNames DEF ExecInside, Command!ExecInside
<1>c. ASSUME ExecType', UNCHANGED <<life, alive, reaped, cgroup, reused>>, RelayKnown', RelayJoined',
             RelayRooted', worker' # NoWorker =>
        worker'.root = worker'.of /\ worker'.joined = worker'.of /\ worker'.of = life /\ alive
      PROVE  ExecInv'
  <2>1. PidsHeld'
    BY <1>0, <1>c DEF PidsHeld, Over
  <2>2. ExecInside'
    BY <1>c DEF ExecInside, Command!ExecInside, Command!NoWorker, NoWorker
  <2> QED BY <1>c, <2>1, <2>2 DEF ExecInv
\* A relay that moves on, without a command.
<1>d. ASSUME relay \in Relays, relay.at # "exit", UNCHANGED <<life, alive, reaped, cgroup, reused, worker>>,
             NEW r \in Relays, relay' = r, r.of = relay.of,
             r.at \in {"root", "setns", "fork"} =>
                 r.joined \in Starts /\ r.of <= r.joined /\ r.joined <= life,
             r.at \in {"setns", "fork"} => r.root = r.of \/ Over(r.of)
      PROVE  ExecInv'
  <2>1. ExecType'
    BY <1>0, <1>d DEF ExecType
  <2>2. RelayKnown' /\ RelayJoined' /\ RelayRooted'
    <3>1. relay.of <= life
      BY <1>0, <1>d, RelayFields DEF RelayKnown
    <3> QED BY <1>0, <1>d, <3>1 DEF RelayKnown, RelayJoined, RelayRooted, Over
  <2> QED BY <1>b, <1>c, <1>d, <2>1, <2>2
<1>e. ASSUME relay \in Relays, relay.at # "exit", relay' = [relay EXCEPT !.at = "exit"],
             UNCHANGED <<life, alive, reaped, cgroup, reused, worker>>
      PROVE  ExecInv'
  <2>1. [relay EXCEPT !.at = "exit"] \in Relays /\ [relay EXCEPT !.at = "exit"].of = relay.of
        /\ [relay EXCEPT !.at = "exit"].at = "exit"
    BY <1>e, RelayGoes DEF RelayAt
  <2> QED BY <1>d, <1>e, <2>1
<1>f. Command!fail => relay' = [relay EXCEPT !.at = "exit"]
                      /\ UNCHANGED <<life, alive, reaped, cgroup, reused, worker>>
  BY DEF Command!fail, Command!container
<1>1. CASE Command!spawn_exec
  <2> DEFINE r == [at |-> "join", of |-> life, joined |-> None, root |-> None]
  <2>1. relay' = r /\ worker = NoWorker /\ UNCHANGED <<life, alive, reaped, cgroup, reused, worker>>
    BY <1>1, ExecNames DEF Command!spawn_exec, Command!container
  <2>2. r \in Relays /\ r.at = "join" /\ r.of = life
    BY <1>0 DEF Relays, RelayAt
  <2> HIDE DEF r
  <2>3. ExecType'
    BY <1>0, <2>1, <2>2 DEF ExecType
  <2>4. RelayKnown' /\ RelayJoined' /\ RelayRooted'
    BY <1>0, <2>1, <2>2 DEF RelayKnown, RelayJoined, RelayRooted
  <2> QED BY <1>c, <2>1, <2>3, <2>4
<1>2. CASE Command!Join
  <2>1. relay.at = "join" /\ relay \in Relays
    BY <1>0, <1>2, RelayFields DEF Command!Join, RelayAt
  <2> DEFINE r == [relay EXCEPT !.at = "root", !.joined = life]
  <2>2. /\ r \in Relays /\ r.at = "root" /\ r.joined = life /\ r.of = relay.of
    BY <1>0, <2>1 DEF Relays, RelayAt
  <2>3. relay.of <= life
    BY <1>0, <2>1, RelayFields DEF RelayKnown
  <2>4. CASE cgroup
    <3>1. relay' = r /\ UNCHANGED <<life, alive, reaped, cgroup, reused, worker>>
      BY <1>2, <2>4 DEF Command!Join, Command!container
    <3> HIDE DEF r
    <3> QED BY <1>0, <1>d, <2>1, <2>2, <2>3, <3>1
  <2>5. CASE ~cgroup
    BY <1>2, <1>e, <1>f, <2>1, <2>5 DEF Command!Join
  <2> QED BY <2>4, <2>5
<1>3. CASE Command!OpenRoot
  <2>1. relay.at = "root" /\ relay \in Relays
    BY <1>0, <1>3, RelayFields DEF Command!OpenRoot, RelayAt
  <2> DEFINE r(o) == [relay EXCEPT !.at = "setns", !.root = o]
  <2>2. \A o \in Starts \cup {None} :
          /\ r(o) \in Relays /\ r(o).at = "setns" /\ r(o).joined = relay.joined
          /\ r(o).of = relay.of /\ r(o).root = o
    BY <2>1 DEF Relays, RelayAt
  <2>3. relay.joined \in Starts /\ relay.of <= relay.joined /\ relay.joined <= life /\ relay.of \in Starts
    BY <1>0, <2>1 DEF RelayJoined, Relays
  <2>4. \/ relay.of \in reused /\ relay' = r(None)
        \/ relay' = r(relay.of)
        \/ relay' = [relay EXCEPT !.at = "exit"]
    BY <1>3, <1>f, ExecNames DEF Command!OpenRoot
  <2>5. UNCHANGED <<life, alive, reaped, cgroup, reused, worker>>
    BY <1>3, <1>f DEF Command!OpenRoot, Command!container
  <2> HIDE DEF r
  <2>6. CASE relay.of \in reused /\ relay' = r(None)
    <3>1. Over(relay.of)
      BY <1>0, <2>6 DEF PidsHeld
    <3> QED BY <1>d, <2>1, <2>2, <2>3, <2>5, <2>6, <3>1
  <2>7. CASE relay' = r(relay.of)
    BY <1>d, <2>1, <2>2, <2>3, <2>5, <2>7
  <2>8. CASE relay' = [relay EXCEPT !.at = "exit"]
    BY <1>e, <2>1, <2>5, <2>8
  <2> QED BY <2>4, <2>6, <2>7, <2>8
<1>4. CASE Command!setns
  <2>1. relay.at = "setns" /\ relay \in Relays
    BY <1>0, <1>4, RelayFields DEF Command!setns, RelayAt
  <2> DEFINE r == [relay EXCEPT !.at = "fork"]
  <2>2. /\ r \in Relays /\ r.at = "fork" /\ r.joined = relay.joined /\ r.of = relay.of /\ r.root = relay.root
    BY <2>1, RelayGoes DEF RelayAt
  <2>3. /\ relay.joined \in Starts /\ relay.of <= relay.joined /\ relay.joined <= life
        /\ relay.root = relay.of \/ Over(relay.of)
    BY <1>0, <2>1 DEF RelayJoined, RelayRooted
  <2>4. relay' = r \/ relay' = [relay EXCEPT !.at = "exit"]
    BY <1>4, <1>f DEF Command!setns, Command!Goto
  <2>5. UNCHANGED <<life, alive, reaped, cgroup, reused, worker>>
    BY <1>4, <1>f DEF Command!setns, Command!Goto, Command!container
  <2> HIDE DEF r
  <2>6. CASE relay' = r
    BY <1>d, <2>1, <2>2, <2>3, <2>5, <2>6
  <2>7. CASE relay' = [relay EXCEPT !.at = "exit"]
    BY <1>e, <2>1, <2>5, <2>7
  <2> QED BY <2>4, <2>6, <2>7
<1>5. CASE Command!Fork
  <2>1. relay.at = "fork" /\ relay \in Relays
    BY <1>0, <1>5, RelayFields DEF Command!Fork, RelayAt
  <2> DEFINE r == [relay EXCEPT !.at = "wait"]
             w == [of |-> relay.of, root |-> relay.root, joined |-> relay.joined]
  <2>2. CASE relay.of = life /\ alive
    <3>1. relay' = r /\ worker' = w /\ UNCHANGED <<life, alive, reaped, cgroup, reused>>
      BY <1>5, <2>2, ExecNames DEF Command!Fork, Command!container
    <3>2. r \in Relays /\ r.at = "wait" /\ r.of = relay.of
      BY <2>1, RelayGoes DEF RelayAt
    <3>3. relay.joined = life /\ relay.root = life
      <4>1. relay.joined \in Nat /\ life <= relay.joined /\ relay.joined <= life
        BY <1>0, <2>1, <2>2 DEF RelayJoined
      <4>2. relay.root = relay.of
        BY <1>0, <2>1, <2>2 DEF RelayRooted, Over
      <4> QED BY <1>0, <2>2, <4>1, <4>2
    <3>4. w \in Workings /\ w.of = life /\ w.root = life /\ w.joined = life
      BY <1>0, <2>2, <3>3 DEF Workings
    <3> HIDE DEF r, w
    <3>5. ExecType'
      BY <1>0, <3>1, <3>2, <3>4 DEF ExecType
    <3>6. RelayKnown' /\ RelayJoined' /\ RelayRooted'
      BY <1>0, <2>2, <3>1, <3>2 DEF RelayKnown, RelayJoined, RelayRooted
    <3> QED BY <1>c, <2>2, <3>1, <3>4, <3>5, <3>6
  <2>3. CASE ~(relay.of = life /\ alive)
    BY <1>5, <1>e, <1>f, <2>1, <2>3, ExecNames DEF Command!Fork
  <2> QED BY <2>2, <2>3
<1>6. CASE Command!Wait \/ Command!ExecTimeout
  <2>1. relay.at \in RelayAt \ {"exit"} /\ relay \in Relays
    <3>1. relay.at \notin {"none", "exit"}
      BY <1>6 DEF Command!Wait, Command!ExecTimeout
    <3>2. relay # NoRelay
      BY <3>1 DEF NoRelay
    <3> QED BY <1>0, <3>1, <3>2, RelayFields
  <2> QED BY <1>6, <1>e, <2>1 DEF Command!Wait, Command!ExecTimeout, Command!Goto, Command!container
<1>7. CASE Command!ExecExit \/ Command!WorkerExits
  <2>1. /\ UNCHANGED <<life, alive, reaped, cgroup, reused>>
        /\ (relay' = NoRelay /\ worker' = worker) \/ (worker' = NoWorker /\ relay' = relay)
    BY <1>7, ExecNames DEF Command!ExecExit, Command!WorkerExits, Command!container
  <2>2. ExecType'
    BY <1>0, <2>1 DEF ExecType
  <2>3. NoRelay.at \notin {"root", "setns", "fork"}
    BY DEF NoRelay
  <2>4. RelayKnown' /\ RelayJoined' /\ RelayRooted'
    BY <1>0, <2>1, <2>3 DEF RelayKnown, RelayJoined, RelayRooted, Over
  <2> QED BY <1>b, <1>c, <2>1, <2>2, <2>4
<1>8. CASE Command!InitExits
  <2>1. alive /\ alive' = FALSE /\ UNCHANGED <<life, reaped, cgroup, reused, relay>>
        /\ worker' = IF worker.of = life THEN NoWorker ELSE worker
    BY <1>8, ExecNames DEF Command!InitExits
  <2>2. worker' = NoWorker
    BY <1>b, <2>1
  <2>3. ExecType' /\ PidsHeld' /\ RelayKnown' /\ RelayJoined' /\ RelayRooted'
    BY <1>0, <2>1, <2>2 DEF ExecType, PidsHeld, RelayKnown, RelayJoined, RelayRooted, Over
  <2>4. ExecInside'
    BY <2>2 DEF ExecInside, Command!ExecInside, Command!NoWorker, NoWorker
  <2> QED BY <2>3, <2>4 DEF ExecInv
<1>9. CASE Command!OnExit
  <2>1. /\ ~alive /\ reaped' = TRUE /\ cgroup' = FALSE /\ UNCHANGED <<life, alive, reused>>
        /\ relay' = IF relay # NoRelay /\ relay.joined = life
                    THEN [relay EXCEPT !.at = "exit"] ELSE relay
        /\ worker' = NoWorker \/ worker' = worker
    BY <1>9, ExecNames DEF Command!OnExit
  <2>2. worker' = NoWorker
    BY <1>b, <2>1
  <2>3. PICK r \in Relays \cup {NoRelay} :
          /\ relay' = r
          /\ r = relay \/ (r \in Relays /\ r.at = "exit" /\ r.of = relay.of /\ relay # NoRelay)
    <3>1. relay # NoRelay => LET n == [relay EXCEPT !.at = "exit"]
                             IN  n \in Relays /\ n.at = "exit" /\ n.of = relay.of
      BY <1>0, RelayFields, RelayGoes DEF RelayAt
    <3> QED BY <1>0, <2>1, <3>1 DEF ExecType
  <2>4. ExecType'
    BY <1>0, <2>1, <2>2, <2>3 DEF ExecType
  <2>5. PidsHeld' /\ RelayKnown' /\ RelayJoined' /\ RelayRooted'
    BY <1>0, <2>1, <2>3 DEF PidsHeld, RelayKnown, RelayJoined, RelayRooted, Over
  <2>6. ExecInside'
    BY <2>2 DEF ExecInside, Command!ExecInside, Command!NoWorker, NoWorker
  <2> QED BY <2>4, <2>5, <2>6 DEF ExecInv
<1>10. CASE Command!Launch
  <2>1. /\ reaped /\ life < MaxStarts /\ life' = life + 1 /\ alive' = TRUE /\ reaped' = FALSE
        /\ cgroup' = TRUE /\ UNCHANGED <<reused, relay, worker>>
    BY <1>10 DEF Command!Launch
  <2>2. worker = NoWorker
    BY <1>0, <1>b, <2>1 DEF PidsHeld
  <2>3. life' \in Starts /\ life' \in Nat
    BY <1>0, <2>1 DEF Starts
  <2>4. ExecType'
    BY <1>0, <2>1, <2>3 DEF ExecType
  <2>5. PidsHeld'
    BY <1>0, <2>1 DEF PidsHeld, Over, ExecType
  <2>6. RelayKnown' /\ RelayJoined' /\ RelayRooted'
    <3>1. relay # NoRelay => relay.of \in Starts /\ relay.of \in Nat
      BY <1>0, RelayFields DEF Relays, Starts
    <3>2. relay.at \in {"root", "setns", "fork"} => relay # NoRelay
      BY DEF NoRelay
    <3>3. RelayKnown'
      BY <1>0, <2>1, <3>1 DEF RelayKnown
    <3>4. RelayJoined'
      <4>1. \A k \in Nat : k <= life => k <= life'
        BY <1>0, <2>1
      <4> QED BY <1>0, <2>1, <4>1 DEF RelayJoined
    <3>5. ASSUME relay.at \in {"setns", "fork"} PROVE relay.of < life'
      BY <1>0, <2>1, <3>1, <3>2, <3>5 DEF RelayKnown
    <3> QED BY <2>1, <3>3, <3>4, <3>5 DEF RelayRooted, Over
  <2>7. ExecInside'
    BY <2>1, <2>2 DEF ExecInside, Command!ExecInside, Command!NoWorker, NoWorker
  <2> QED BY <2>4, <2>5, <2>6, <2>7 DEF ExecInv
<1>11. ASSUME NEW k \in Command!Lives, Command!PidReused(k)
       PROVE  ExecInv'
  <2>1. /\ k \in Starts /\ (k < life \/ (k = life /\ reaped)) /\ reused' = reused \cup {k}
        /\ UNCHANGED <<life, alive, reaped, cgroup, relay, worker>>
    BY <1>11, ExecNames DEF Command!PidReused
  <2>2. ExecType' /\ RelayKnown' /\ RelayJoined' /\ RelayRooted'
    BY <1>0, <2>1 DEF ExecType, RelayKnown, RelayJoined, RelayRooted, Over
  <2>3. PidsHeld'
    BY <1>0, <2>1 DEF PidsHeld, Over
  <2>4. ExecInside'
    BY <1>0, <2>1 DEF ExecInside, Command!ExecInside, Command!NoWorker
  <2> QED BY <2>2, <2>3, <2>4 DEF ExecInv
<1> QED
  BY <1>1, <1>2, <1>3, <1>4, <1>5, <1>6, <1>7, <1>8, <1>9, <1>10, <1>11 DEF Command!Next

\* A command runs only in the start of the container that the daemon meant, with
\* the root and in the cgroup of that start, although the relay finds both by a
\* path and a pid that may mean something else by then.
THEOREM CommandsRunInside == NodeSpec => []ExecInside
<1>1. NodeInit => ExecInv
  <2> SUFFICES ASSUME NodeInit PROVE ExecInv
    OBVIOUS
  <2>1. /\ life = 1 /\ alive = TRUE /\ reaped = FALSE /\ cgroup = TRUE /\ reused = {}
        /\ relay = NoRelay /\ worker = NoWorker
    BY ExecNames DEF NodeInit, Command!Init
  <2>2. NoRelay.at \notin {"root", "setns", "fork"}
    BY DEF NoRelay
  <2>3. 1 \in Starts
    BY NodeAssumption DEF Starts
  <2> QED BY <2>1, <2>2, <2>3 DEF ExecInv, ExecType, PidsHeld, RelayKnown, RelayJoined, RelayRooted,
              ExecInside, Command!ExecInside, Command!NoWorker, NoWorker
<1>2. ExecInv /\ [NodeNext]_nodeVars => ExecInv'
  <2> SUFFICES ASSUME ExecInv, [NodeNext]_nodeVars PROVE ExecInv'
    OBVIOUS
  <2>1. CASE ExecStep
    BY <2>1, ExecStepInv DEF ExecStep
  <2>2. CASE UNCHANGED exec
    <3>1. UNCHANGED <<life, alive, reaped, cgroup, reused, relay, worker>>
      BY <2>2 DEF exec
    <3> QED BY <3>1 DEF ExecInv, ExecType, PidsHeld, RelayKnown, RelayJoined, RelayRooted, Over,
                ExecInside, Command!ExecInside, Command!NoWorker
  <2>3. ExecStep \/ UNCHANGED exec
    BY DEF NodeNext, SecretsStep, StoreStep, ImageStep, LogStep, nodeVars, exec
  <2> QED BY <2>1, <2>2, <2>3
<1>3. ExecInv => ExecInside
  BY DEF ExecInv
<1> QED BY <1>1, <1>2, <1>3, PTL DEF NodeSpec

-----------------------------------------------------------------------------
(* The store of containers.                                                *)

Dirs == [spec : Specs \cup {None}, rt : BOOLEAN]
Trees == [Store!Bases -> [Ids -> Dirs \cup {NoDir}]]

\* The calls and where they can be.
Creating == [kind : {"create"}, id : Ids, spec : Specs,
             step : {"check", "tmp", "write", "place", "rmdir", "rename", "return"}]
Updating == [kind : {"update"}, id : Ids, spec : Specs, step : {"check", "return"}]
Removing == [kind : {"remove"}, id : Ids, spec : {None},
             step : {"check", "trash", "runtime", "purge", "return"}]
Resting == {Store!Idle, Store!Down, Store!Recovering}

\* The spec.json of a container under a base directory.
SpecIn(b, i) == IF dir[b][i] = NoDir THEN None ELSE dir[b][i].spec

StoreType ==
    /\ dir \in Trees /\ tmp \in Trees
    /\ call \in Creating \cup Updating \cup Removing \cup Resting

\* A spec lies under the base directory of its kind, and a container has at most one.
SpecsPlaced ==
    \A i \in Ids :
        /\ \A b \in Store!Bases : SpecIn(b, i) # None => Store!base(SpecIn(b, i)) = b
        /\ SpecIn("state", i) = None \/ SpecIn("run", i) = None

\* Once create has looked, the id and the name stay free until its rename, and the
\* directory that is renamed holds the spec.
CreateReady ==
    call \in Creating /\ call.step \in {"tmp", "write", "place", "rmdir", "rename"} =>
        /\ Store!Stored(call.id) = None
        /\ ~Store!NameUsed(call.spec.name)
        /\ call.step = "rename" =>
             tmp[Store!base(call.spec)][call.id] = [spec |-> call.spec, rt |-> FALSE]

\* What update replaces has the same name and kind.
UpdateReady ==
    call \in Updating /\ call.step = "check" /\ Store!Stored(call.id) # None =>
        Store!Stored(call.id).persistent = call.spec.persistent

\* remove comes to its renames only with a container that is there, and to the
\* directory under /run only when there is none under the state directory.
RemoveReady ==
    call \in Removing =>
        /\ call.step = "trash" => Store!Stored(call.id) # None
        /\ call.step = "runtime" => dir["state"][call.id] = NoDir

StoreInv == StoreType /\ SpecsPlaced /\ CreateReady /\ UpdateReady /\ RemoveReady

\* The abstract map's state, and the call as the map sees it.
Held == [i \in Ids |-> Store!Stored(i)]
Asked == Store!AbstractCall
Want(c, d) ==
    IF c.kind = "remove" THEN [kind |-> "remove", id |-> c.id, done |-> d]
    ELSE [kind |-> c.kind, id |-> c.id, spec |-> c.spec, done |-> d]

Active == Creating \cup Updating \cup Removing

\* The kinds of the calls keep them apart.
LEMMA CallKinds ==
    /\ \A c \in Creating : c.kind = "create" /\ c \notin Resting
    /\ \A c \in Updating : c.kind = "update" /\ c \notin Resting
    /\ \A c \in Removing : c.kind = "remove" /\ c \notin Resting
    /\ Store!Idle # Store!Down /\ Store!Idle # Store!Recovering /\ Store!Down # Store!Recovering
<1>1. Store!Idle.kind = "idle" /\ Store!Down.kind = "down" /\ Store!Recovering.kind = "recover"
  BY DEF Store!Idle, Store!Down, Store!Recovering
<1>2. /\ \A c \in Creating : c.kind = "create"
      /\ \A c \in Updating : c.kind = "update"
      /\ \A c \in Removing : c.kind = "remove"
  BY DEF Creating, Updating, Removing
<1> QED BY <1>1, <1>2 DEF Resting

\* Taking effect changes a call in one field.
LEMMA RemoveDone ==
    ASSUME NEW i, NEW d, NEW t
    PROVE  [[kind |-> "remove", id |-> i, done |-> d] EXCEPT !.done = t]
             = [kind |-> "remove", id |-> i, done |-> t]
<1> DEFINE f == [kind |-> "remove", id |-> i, done |-> d]
           g == [kind |-> "remove", id |-> i, done |-> t]
<1>1. f = [n \in {"kind", "id", "done"} |-> f[n]] /\ f.kind = "remove" /\ f.id = i
  OBVIOUS
<1>2. g = [n \in {"kind", "id", "done"} |-> g[n]] /\ g.kind = "remove" /\ g.id = i /\ g.done = t
  OBVIOUS
<1> HIDE DEF f, g
<1>3. [f EXCEPT !["done"] = t] = [n \in {"kind", "id", "done"} |-> IF n = "done" THEN t ELSE f[n]]
  BY <1>1, Zenon
<1>4. [f EXCEPT !["done"] = t] = g
  BY <1>1, <1>2, <1>3
<1> QED BY <1>4 DEF f, g

\* The same for a call with a spec.
LEMMA WriteDone ==
    ASSUME NEW k, NEW i, NEW s, NEW d, NEW t
    PROVE  [[kind |-> k, id |-> i, spec |-> s, done |-> d] EXCEPT !.done = t]
             = [kind |-> k, id |-> i, spec |-> s, done |-> t]
<1> DEFINE f == [kind |-> k, id |-> i, spec |-> s, done |-> d]
           g == [kind |-> k, id |-> i, spec |-> s, done |-> t]
<1>1. f = [n \in {"kind", "id", "spec", "done"} |-> f[n]] /\ f.kind = k /\ f.id = i /\ f.spec = s
  OBVIOUS
<1>2. /\ g = [n \in {"kind", "id", "spec", "done"} |-> g[n]]
      /\ g.kind = k /\ g.id = i /\ g.spec = s /\ g.done = t
  OBVIOUS
<1> HIDE DEF f, g
<1>3. [f EXCEPT !["done"] = t]
        = [n \in {"kind", "id", "spec", "done"} |-> IF n = "done" THEN t ELSE f[n]]
  BY <1>1, Zenon
<1>4. [f EXCEPT !["done"] = t] = g
  BY <1>1, <1>2, <1>3
<1> QED BY <1>4 DEF f, g

\* A call that the map knows, before and after its effect.
LEMMA WantCalls ==
    ASSUME NEW c \in Active, NEW d \in BOOLEAN
    PROVE  /\ Want(c, d) \in Store!Map!Calls /\ Want(c, d) # NoCall
           /\ Want(c, d).done = d /\ Want(c, d).id = c.id /\ Want(c, d).kind = c.kind
           /\ c \notin Removing => Want(c, d).spec = c.spec
           /\ [Want(c, d) EXCEPT !.done = TRUE] = Want(c, TRUE)
           /\ c.id \in Ids /\ (c \notin Removing => c.spec \in Specs)
<1>1. CASE c \in Removing
  <2>1. c.kind = "remove" /\ c.id \in Ids
    BY <1>1 DEF Removing
  <2>2. Want(c, d) = [kind |-> "remove", id |-> c.id, done |-> d]
        /\ Want(c, TRUE) = [kind |-> "remove", id |-> c.id, done |-> TRUE]
    BY <2>1 DEF Want
  <2>3. Want(c, d) \in [kind : {"remove"}, id : Ids, done : BOOLEAN]
    BY <2>1, <2>2
  <2>4. Want(c, d) \in Store!Map!Calls /\ Want(c, d) # NoCall
    BY <2>3, NodeAssumption DEF Store!Map!Calls
  <2>5. [[kind |-> "remove", id |-> c.id, done |-> d] EXCEPT !.done = TRUE]
          = [kind |-> "remove", id |-> c.id, done |-> TRUE]
    <3>1. PICK t : t = TRUE
      OBVIOUS
    <3>2. [[kind |-> "remove", id |-> c.id, done |-> d] EXCEPT !.done = t]
            = [kind |-> "remove", id |-> c.id, done |-> t]
      BY RemoveDone, Zenon
    <3> QED BY <3>1, <3>2, Zenon
  <2>6. [Want(c, d) EXCEPT !.done = TRUE] = Want(c, TRUE)
    BY <2>2, <2>5, Zenon
  <2>7. Want(c, d).done = d /\ Want(c, d).id = c.id /\ Want(c, d).kind = c.kind
    BY <2>1, <2>2
  <2> QED BY <1>1, <2>1, <2>4, <2>6, <2>7, Zenon
<1>2. CASE c \in Creating \cup Updating
  <2>1. c.kind \in {"create", "update"} /\ c.id \in Ids /\ c.spec \in Specs /\ c.kind # "remove"
    BY <1>2 DEF Creating, Updating
  <2>2. Want(c, d) = [kind |-> c.kind, id |-> c.id, spec |-> c.spec, done |-> d]
        /\ Want(c, TRUE) = [kind |-> c.kind, id |-> c.id, spec |-> c.spec, done |-> TRUE]
    BY <2>1 DEF Want
  <2>3. Want(c, d) \in [kind : {"create", "update"}, id : Ids, spec : Specs, done : BOOLEAN]
    BY <2>1, <2>2
  <2>4. Want(c, d) \in Store!Map!Calls /\ Want(c, d) # NoCall
    BY <2>3, NodeAssumption DEF Store!Map!Calls
  <2>5. [[kind |-> c.kind, id |-> c.id, spec |-> c.spec, done |-> d] EXCEPT !.done = TRUE]
          = [kind |-> c.kind, id |-> c.id, spec |-> c.spec, done |-> TRUE]
    <3>1. PICK t : t = TRUE
      OBVIOUS
    <3>2. [[kind |-> c.kind, id |-> c.id, spec |-> c.spec, done |-> d] EXCEPT !.done = t]
            = [kind |-> c.kind, id |-> c.id, spec |-> c.spec, done |-> t]
      BY WriteDone
    <3> QED BY <3>1, <3>2, Zenon
  <2>6. [Want(c, d) EXCEPT !.done = TRUE] = Want(c, TRUE)
    BY <2>2, <2>5, Zenon
  <2>7. /\ Want(c, d).done = d /\ Want(c, d).id = c.id /\ Want(c, d).kind = c.kind
        /\ Want(c, d).spec = c.spec
    BY <2>1, <2>2
  <2> QED BY <1>2, <2>1, <2>4, <2>6, <2>7, Zenon
<1> QED BY <1>1, <1>2 DEF Active

\* What the map sees of the call.
LEMMA AskedIs ==
    /\ call \in Resting => Asked = NoCall
    /\ call \in Active /\ Store!Effective => Asked = Want(call, TRUE)
    /\ call \in Active /\ ~Store!Effective => Asked = Want(call, FALSE)
<1>1. call \in Active => call \notin Resting
  BY CallKinds DEF Active
<1>2. Store!Running <=> call \notin Resting
  BY DEF Store!Running, Resting
<1>3. Store!Effective \in BOOLEAN
  BY DEF Store!Effective
<1> HIDE DEF Store!Effective
<1> QED BY <1>1, <1>2, <1>3 DEF Asked, Store!AbstractCall, Want

\* The same after a step.
LEMMA AskedNext ==
    /\ call' \in Resting => Asked' = NoCall
    /\ call' \in Active /\ Store!Effective' => Asked' = Want(call', TRUE)
    /\ call' \in Active /\ ~Store!Effective' => Asked' = Want(call', FALSE)
<1>1. call' \in Active => call' \notin Resting
  BY CallKinds DEF Active
<1>2. Store!Running' <=> call' \notin Resting
  BY DEF Store!Running, Resting
<1>3. Store!Effective' \in BOOLEAN
  BY DEF Store!Effective
<1> HIDE DEF Store!Effective
<1> QED BY <1>1, <1>2, <1>3 DEF Asked, Store!AbstractCall, Want

\* The spec that get reads is the one under the first base directory that has one.
LEMMA StoredIs ==
    /\ \A i \in Ids : Store!Stored(i) =
         IF SpecIn("state", i) # None THEN SpecIn("state", i) ELSE SpecIn("run", i)
    /\ \A i \in Ids : Store!Stored(i)' =
         IF SpecIn("state", i)' # None THEN SpecIn("state", i)' ELSE SpecIn("run", i)'
    /\ \A b, i : Store!HasSpec(b, i) <=> SpecIn(b, i) # None
  BY DEF Store!Stored, Store!HasSpec, SpecIn

\* Setting one directory leaves the others alone, and so the specs in them.
LEMMA DirSet ==
    ASSUME dir \in Trees, NEW b \in Store!Bases, NEW i \in Ids, NEW d \in Dirs \cup {NoDir},
           Store!SetDir(b, i, d)
    PROVE  /\ dir' \in Trees
           /\ \A c \in Store!Bases, j \in Ids : dir'[c][j] = IF c = b /\ j = i THEN d ELSE dir[c][j]
           /\ \A c \in Store!Bases, j \in Ids :
                SpecIn(c, j)' = IF c = b /\ j = i THEN (IF d = NoDir THEN None ELSE d.spec)
                                ELSE SpecIn(c, j)
<1>1. /\ dir' \in Trees
      /\ \A c \in Store!Bases, j \in Ids : dir'[c][j] = IF c = b /\ j = i THEN d ELSE dir[c][j]
  BY DEF Trees, Store!SetDir
<1> QED BY <1>1 DEF SpecIn

\* Directories under way, likewise.
LEMMA TmpSet ==
    ASSUME tmp \in Trees, NEW b \in Store!Bases, NEW i \in Ids, NEW d \in Dirs \cup {NoDir},
           Store!SetTmp(b, i, d)
    PROVE  tmp' \in Trees /\ tmp'[b][i] = d
  BY DEF Trees, Store!SetTmp

\* Every spec read is a spec or None.
LEMMA SpecsAre ==
    ASSUME dir \in Trees
    PROVE  /\ \A b \in Store!Bases, i \in Ids : SpecIn(b, i) \in Specs \cup {None}
           /\ \A i \in Ids : Store!Stored(i) \in Specs \cup {None}
<1>1. \A b \in Store!Bases, i \in Ids : SpecIn(b, i) \in Specs \cup {None}
  BY DEF Trees, Dirs, SpecIn
<1> QED BY <1>1, StoredIs DEF Store!Bases

\* When no spec.json changes, the map does not.
LEMMA SpecsKept ==
    ASSUME SpecsPlaced, \A b \in Store!Bases, i \in Ids : SpecIn(b, i)' = SpecIn(b, i)
    PROVE  /\ SpecsPlaced' /\ Held' = Held
           /\ \A i \in Ids : Store!Stored(i)' = Store!Stored(i)
           /\ \A n : Store!NameUsed(n)' <=> Store!NameUsed(n)
<1>1. \A i \in Ids : Store!Stored(i)' = Store!Stored(i)
  BY StoredIs DEF Store!Bases
<1>2. SpecsPlaced'
  BY DEF SpecsPlaced, Store!Bases, Store!base
<1>3. Held' = Held
  BY <1>1 DEF Held
<1>4. \A n : Store!NameUsed(n)' <=> Store!NameUsed(n)
  BY <1>1 DEF Store!NameUsed
<1> QED BY <1>1, <1>2, <1>3, <1>4

\* When one does, and it is the only one of its container, the map changes there.
LEMMA OneSpec ==
    ASSUME SpecsPlaced, NEW b \in Store!Bases, NEW i \in Ids, NEW s \in Specs \cup {None},
           s # None => Store!base(s) = b,
           \A c \in Store!Bases : c # b => SpecIn(c, i) = None,
           \A c \in Store!Bases, j \in Ids :
               SpecIn(c, j)' = IF c = b /\ j = i THEN s ELSE SpecIn(c, j)
    PROVE  SpecsPlaced' /\ Held' = [Held EXCEPT ![i] = s] /\ Store!Stored(i)' = s
<1>1. \A j \in Ids : Store!Stored(j)' = IF j = i THEN s ELSE Store!Stored(j)
  BY StoredIs DEF Store!Bases
<1>2. SpecsPlaced'
  BY DEF SpecsPlaced, Store!Bases, Store!base
<1>3. Held' = [Held EXCEPT ![i] = s]
  BY <1>1 DEF Held
<1> QED BY <1>1, <1>2, <1>3

\* When a call has taken effect.
LEMMA EffectiveIs ==
    /\ call \in Creating \cup Updating => (Store!Effective <=> call.step = "return")
    /\ call \in Removing =>
         (Store!Effective <=> \/ call.step \in {"return", "purge"}
                              \/ call.step = "runtime" /\ Store!Stored(call.id) = None)
    /\ call' \in Creating \cup Updating => (Store!Effective' <=> call'.step = "return")
    /\ call' \in Removing =>
         (Store!Effective' <=> \/ call'.step \in {"return", "purge"}
                               \/ call'.step = "runtime" /\ Store!Stored(call.id)' = None)
  BY DEF Store!Effective, Creating, Updating, Removing

Moves(c) == c \in Active /\ c.kind = call.kind /\ c.id = call.id /\ c.spec = call.spec

\* A call that moves on without taking effect is the same to the map.
LEMMA AskedSame ==
    ASSUME call \in Active, Moves(call'), Store!Effective' <=> Store!Effective
    PROVE  Asked' = Asked
<1>1. Want(call', TRUE) = Want(call, TRUE) /\ Want(call', FALSE) = Want(call, FALSE)
  BY DEF Want, Moves
<1> QED BY <1>1, AskedIs, AskedNext DEF Moves

\* One that takes effect does so in the map as well.
LEMMA AskedTakes ==
    ASSUME call \in Active, Moves(call'), ~Store!Effective, Store!Effective',
           reply' = reply, Store!Map!Effect(Want(call, FALSE))
    PROVE  Store!Map!Take
<1>1. Want(call', TRUE) = Want(call, TRUE)
  BY DEF Want, Moves
<1>2. Asked = Want(call, FALSE) /\ Asked' = Want(call, TRUE)
  BY <1>1, AskedIs, AskedNext DEF Moves
<1>3. /\ Want(call, FALSE) # NoCall /\ Want(call, FALSE).done = FALSE
      /\ [Want(call, FALSE) EXCEPT !.done = TRUE] = Want(call, TRUE)
  BY WantCalls
<1> QED BY <1>2, <1>3 DEF Store!Map!Take, Asked

MapStep == Store!Map!Next \/ (Held' = Held /\ Asked' = Asked /\ reply' = reply)

\* Where a call is.
LEMMA AtIs ==
    ASSUME StoreType, NEW x
    PROVE  /\ Store!At("create", x) => call \in Creating /\ call.step = x
           /\ Store!At("update", x) => call \in Updating /\ call.step = x
           /\ Store!At("remove", x) => call \in Removing /\ call.step = x
           /\ Store!Running => call \in Active
  BY CallKinds DEF StoreType, Store!At, Store!Running, Resting, Active

\* A step after which no call is under way.
LEMMA StoreRests ==
    ASSUME SpecsPlaced, dir' \in Trees, tmp' \in Trees, call' \in Resting,
           \A b \in Store!Bases, i \in Ids : SpecIn(b, i)' = SpecIn(b, i)
    PROVE  /\ StoreInv' /\ Held' = Held /\ Asked' = NoCall
           /\ call \in Resting /\ reply' = reply => MapStep
           /\ call \in Active /\ reply' = "error" => MapStep
           /\ reply' = "none" => MapStep
           /\ call \in Active /\ Store!Effective /\ reply' = "ok" => MapStep
<1>1. SpecsPlaced' /\ Held' = Held
  BY SpecsKept
<1>2. call' \notin Active
  BY CallKinds DEF Active
<1>3. StoreInv'
  BY <1>1, <1>2 DEF StoreInv, StoreType, CreateReady, UpdateReady, RemoveReady, Active, Resting
<1>4. Asked' = NoCall
  BY AskedNext
<1>5. call \in Resting => Asked = NoCall
  BY AskedIs
<1>6. call \in Active => Asked # NoCall
  BY AskedIs, WantCalls
<1>7. call \in Active /\ Store!Effective => Asked.done = TRUE
  BY AskedIs, WantCalls
<1>8. call \in Active /\ reply' = "error" => Store!Map!Error
  BY <1>1, <1>4, <1>6 DEF Store!Map!Error, Held, Asked
<1>9. reply' = "none" => Store!Map!Crash
  BY <1>1, <1>4 DEF Store!Map!Crash, Held, Asked
<1>10. call \in Active /\ Store!Effective /\ reply' = "ok" => Store!Map!Ok
  BY <1>1, <1>4, <1>6, <1>7 DEF Store!Map!Ok, Held, Asked
<1> QED BY <1>1, <1>3, <1>4, <1>5, <1>8, <1>9, <1>10 DEF MapStep, Store!Map!Next

\* The call goes to its step x.
Follows(calls, x) ==
    call' \in calls /\ call'.id = call.id /\ call'.spec = call.spec /\ call'.step = x

\* Going to a step keeps the arguments.
LEMMA CallGoes ==
    /\ \A x \in {"check", "tmp", "write", "place", "rmdir", "rename", "return"} :
         call \in Creating /\ Store!Goto(x) => Follows(Creating, x) /\ reply' = reply
    /\ \A x \in {"check", "return"} :
         call \in Updating /\ Store!Goto(x) => Follows(Updating, x) /\ reply' = reply
    /\ \A x \in {"check", "trash", "runtime", "purge", "return"} :
         call \in Removing /\ Store!Goto(x) => Follows(Removing, x) /\ reply' = reply
<1>1. \A x \in {"check", "tmp", "write", "place", "rmdir", "rename", "return"} :
        call \in Creating /\ Store!Goto(x) => Follows(Creating, x) /\ reply' = reply
  BY DEF Creating, Follows, Store!Goto
<1>2. \A x \in {"check", "return"} :
        call \in Updating /\ Store!Goto(x) => Follows(Updating, x) /\ reply' = reply
  BY DEF Updating, Follows, Store!Goto
<1>3. \A x \in {"check", "trash", "runtime", "purge", "return"} :
        call \in Removing /\ Store!Goto(x) => Follows(Removing, x) /\ reply' = reply
  BY DEF Removing, Follows, Store!Goto
<1> QED BY <1>1, <1>2, <1>3

\* A step of create that writes no spec.json in place.
LEMMA CreateGoes ==
    ASSUME SpecsPlaced, dir' \in Trees, tmp' \in Trees, reply' = reply,
           \A b \in Store!Bases, i \in Ids : SpecIn(b, i)' = SpecIn(b, i),
           call \in Creating, call.step # "return",
           NEW x \in {"tmp", "write", "place", "rmdir", "rename"}, Follows(Creating, x),
           Store!Stored(call.id) = None, ~Store!NameUsed(call.spec.name),
           x = "rename" => tmp'[Store!base(call.spec)][call.id] = [spec |-> call.spec, rt |-> FALSE]
    PROVE  StoreInv' /\ MapStep
<1>1. /\ SpecsPlaced' /\ Held' = Held
      /\ \A i \in Ids : Store!Stored(i)' = Store!Stored(i)
      /\ \A n : Store!NameUsed(n)' <=> Store!NameUsed(n)
  BY SpecsKept
<1>2. call' \in Creating /\ call'.id = call.id /\ call'.spec = call.spec /\ call'.step = x
  BY DEF Follows
<1>3. /\ call'.kind = "create" /\ call.kind = "create" /\ call.id \in Ids
      /\ call' \notin Updating /\ call' \notin Removing
  BY <1>2, CallKinds DEF Creating
<1>4. CreateReady'
  <2>1. Store!Stored(call.id)' = None
    BY <1>1, <1>2, <1>3
  <2>2. ~Store!NameUsed(call.spec.name)'
    BY <1>1, <1>2
  <2> QED BY <1>2, <2>1, <2>2 DEF CreateReady, Store!base
<1>5. StoreInv'
  BY <1>1, <1>2, <1>3, <1>4 DEF StoreInv, StoreType, UpdateReady, RemoveReady
<1>6. Asked' = Asked
  <2>1. ~Store!Effective /\ ~Store!Effective'
    BY <1>2, EffectiveIs
  <2>2. Moves(call') /\ call \in Active
    BY <1>2, <1>3 DEF Moves, Active
  <2> QED BY <2>1, <2>2, AskedSame
<1> QED BY <1>1, <1>5, <1>6 DEF MapStep

\* A step of remove that takes no spec.json away.
LEMMA RemoveGoes ==
    ASSUME SpecsPlaced, dir' \in Trees, tmp' \in Trees, reply' = reply,
           \A b \in Store!Bases, i \in Ids : SpecIn(b, i)' = SpecIn(b, i),
           call \in Removing, NEW x, Follows(Removing, x),
           x = "trash" => Store!Stored(call.id) # None,
           x = "runtime" => dir'["state"][call.id] = NoDir,
           Store!Effective <=> \/ x \in {"return", "purge"}
                               \/ x = "runtime" /\ Store!Stored(call.id) = None
    PROVE  StoreInv' /\ MapStep
<1>1. /\ SpecsPlaced' /\ Held' = Held
      /\ \A i \in Ids : Store!Stored(i)' = Store!Stored(i)
  BY SpecsKept
<1>2. call' \in Removing /\ call'.id = call.id /\ call'.spec = call.spec /\ call'.step = x
  BY DEF Follows
<1>3. /\ call'.kind = "remove" /\ call.kind = "remove" /\ call.id \in Ids
      /\ call' \notin Updating /\ call' \notin Creating
  BY <1>2, CallKinds DEF Removing
<1>4. RemoveReady'
  BY <1>1, <1>2, <1>3 DEF RemoveReady
<1>5. StoreInv'
  BY <1>1, <1>2, <1>3, <1>4 DEF StoreInv, StoreType, UpdateReady, CreateReady
<1>6. Asked' = Asked
  <2>1. Store!Effective <=> Store!Effective'
    BY <1>1, <1>2, <1>3, EffectiveIs
  <2>2. Moves(call') /\ call \in Active
    BY <1>2, <1>3 DEF Moves, Active
  <2> QED BY <2>1, <2>2, AskedSame
<1> QED BY <1>1, <1>5, <1>6 DEF MapStep

\* The step at which a container comes: create's rename.
LEMMA CreateTakes ==
    ASSUME SpecsPlaced, dir \in Trees, dir' \in Trees, tmp' \in Trees, reply' = reply,
           call \in Creating, call.step # "return", Follows(Creating, "return"),
           Store!Stored(call.id) = None, ~Store!NameUsed(call.spec.name),
           \A c \in Store!Bases, j \in Ids :
               SpecIn(c, j)' = IF c = Store!base(call.spec) /\ j = call.id THEN call.spec
                               ELSE SpecIn(c, j)
    PROVE  StoreInv' /\ MapStep
<1>1. call.id \in Ids /\ call.spec \in Specs /\ Store!base(call.spec) \in Store!Bases
  BY DEF Creating, Store!base, Store!Bases
<1>2. \A c \in Store!Bases : SpecIn(c, call.id) = None
  BY <1>1, StoredIs DEF Store!Bases
<1>3. PICK b \in Store!Bases, i \in Ids, s \in Specs :
         b = Store!base(call.spec) /\ i = call.id /\ s = call.spec
  BY <1>1
<1>4. SpecsPlaced' /\ Held' = [Held EXCEPT ![i] = s]
  BY <1>2, <1>3, OneSpec
<1>5. /\ call' \in Creating /\ call'.id = call.id /\ call'.spec = call.spec /\ call'.step = "return"
      /\ call'.kind = "create" /\ call.kind = "create" /\ call' \notin Updating /\ call' \notin Removing
  BY CallKinds DEF Follows
<1>6. StoreInv'
  BY <1>4, <1>5 DEF StoreInv, StoreType, CreateReady, UpdateReady, RemoveReady
<1>7. ~Store!Effective /\ Store!Effective'
  BY <1>5, EffectiveIs
<1>8. Moves(call') /\ call \in Active
  BY <1>5 DEF Moves, Active
<1>9. Store!Map!Effect(Want(call, FALSE))
  <2>1. /\ Want(call, FALSE).kind = "create" /\ Want(call, FALSE).id = i /\ Want(call, FALSE).spec = s
    <3>1. call \notin Removing /\ FALSE \in BOOLEAN
      BY <1>5, CallKinds
    <3> QED BY <1>3, <1>5, <1>8, <3>1, WantCalls
  <2>2. Held[i] = None /\ \A j \in Ids : Held[j] = Store!Stored(j)
    BY <1>3 DEF Held
  <2>3. s.name = "" \/ \A j \in Ids : Held[j] # None => Held[j].name # s.name
    BY <1>3, <2>2 DEF Store!NameUsed
  <2> QED BY <1>4, <2>1, <2>2, <2>3 DEF Store!Map!Effect, Store!Map!NameFree, Held
<1> QED BY <1>6, <1>7, <1>8, <1>9, AskedTakes DEF MapStep, Store!Map!Next

\* The step at which a spec is replaced.
LEMMA UpdateTakes ==
    ASSUME SpecsPlaced, dir \in Trees, dir' \in Trees, tmp' \in Trees, reply' = reply,
           call \in Updating, call.step # "return", Follows(Updating, "return"),
           Store!Stored(call.id) # None,
           \A c \in Store!Bases : c # Store!base(call.spec) => SpecIn(c, call.id) = None,
           \A c \in Store!Bases, j \in Ids :
               SpecIn(c, j)' = IF c = Store!base(call.spec) /\ j = call.id THEN call.spec
                               ELSE SpecIn(c, j)
    PROVE  StoreInv' /\ MapStep
<1>1. call.id \in Ids /\ call.spec \in Specs /\ Store!base(call.spec) \in Store!Bases
  BY DEF Updating, Store!base, Store!Bases
<1>3. PICK b \in Store!Bases, i \in Ids, s \in Specs :
         b = Store!base(call.spec) /\ i = call.id /\ s = call.spec
  BY <1>1
<1>4. SpecsPlaced' /\ Held' = [Held EXCEPT ![i] = s]
  BY <1>3, OneSpec
<1>5. /\ call' \in Updating /\ call'.id = call.id /\ call'.spec = call.spec /\ call'.step = "return"
      /\ call'.kind = "update" /\ call.kind = "update" /\ call' \notin Creating /\ call' \notin Removing
  BY CallKinds DEF Follows
<1>6. StoreInv'
  BY <1>4, <1>5 DEF StoreInv, StoreType, CreateReady, UpdateReady, RemoveReady
<1>7. ~Store!Effective /\ Store!Effective'
  BY <1>5, EffectiveIs
<1>8. Moves(call') /\ call \in Active
  BY <1>5 DEF Moves, Active
<1>9. Store!Map!Effect(Want(call, FALSE))
  <2>1. /\ Want(call, FALSE).kind = "update" /\ Want(call, FALSE).id = i /\ Want(call, FALSE).spec = s
    <3>1. call \notin Removing /\ FALSE \in BOOLEAN
      BY <1>5, CallKinds
    <3> QED BY <1>3, <1>5, <1>8, <3>1, WantCalls
  <2>2. Held[i] # None
    BY <1>3 DEF Held
  <2> QED BY <1>4, <2>1, <2>2 DEF Store!Map!Effect, Held
<1> QED BY <1>6, <1>7, <1>8, <1>9, AskedTakes DEF MapStep, Store!Map!Next

\* The step at which a container goes: a rename to the trash or an unlink.
LEMMA RemoveTakes ==
    ASSUME SpecsPlaced, dir \in Trees, dir' \in Trees, tmp' \in Trees, reply' = reply,
           call \in Removing, call.step \in {"trash", "runtime"}, Follows(Removing, "runtime"),
           Store!Stored(call.id) # None, dir'["state"][call.id] = NoDir, NEW b \in Store!Bases,
           \A c \in Store!Bases : c # b => SpecIn(c, call.id) = None,
           \A c \in Store!Bases, j \in Ids :
               SpecIn(c, j)' = IF c = b /\ j = call.id THEN None ELSE SpecIn(c, j)
    PROVE  StoreInv' /\ MapStep
<1>1. PICK i \in Ids : i = call.id
  BY DEF Removing
<1>4. SpecsPlaced' /\ Held' = [Held EXCEPT ![i] = None] /\ Store!Stored(i)' = None
  BY <1>1, OneSpec
<1>5. /\ call' \in Removing /\ call'.id = call.id /\ call'.spec = call.spec /\ call'.step = "runtime"
      /\ call'.kind = "remove" /\ call.kind = "remove" /\ call' \notin Creating /\ call' \notin Updating
  BY CallKinds DEF Follows
<1>6. StoreInv'
  BY <1>4, <1>5 DEF StoreInv, StoreType, CreateReady, UpdateReady, RemoveReady
<1>7. ~Store!Effective /\ Store!Effective'
  BY <1>1, <1>4, <1>5, EffectiveIs
<1>8. Moves(call') /\ call \in Active
  BY <1>5 DEF Moves, Active
<1>9. Store!Map!Effect(Want(call, FALSE))
  <2>1. Want(call, FALSE).kind = "remove" /\ Want(call, FALSE).id = i
    BY <1>1, <1>5, <1>8, WantCalls
  <2>2. Held[i] # None
    BY <1>1 DEF Held
  <2> QED BY <1>4, <2>1, <2>2 DEF Store!Map!Effect, Held
<1> QED BY <1>6, <1>7, <1>8, <1>9, AskedTakes DEF MapStep, Store!Map!Next

\* A client asks.
LEMMA StoreAsked ==
    ASSUME StoreInv, NEW i \in Ids
    PROVE  /\ Store!remove(i) => StoreInv' /\ MapStep
           /\ \A s \in Specs : Store!create(i, s) \/ Store!update(i, s) => StoreInv' /\ MapStep
<1>0. StoreType /\ SpecsPlaced /\ dir \in Trees /\ tmp \in Trees
  BY DEF StoreInv, StoreType
\* A call that starts with its check, which is all that is asked of it.
<1>1. ASSUME NEW c \in Active, c.step = "check", call = Store!Idle, call' = c,
             UNCHANGED <<dir, tmp, trash>>, reply' = "none", UpdateReady'
      PROVE  StoreInv' /\ MapStep
  <2>1. SpecsPlaced' /\ Held' = Held
    BY <1>0, <1>1, SpecsKept DEF SpecIn
  <2>2. StoreInv'
    BY <1>0, <1>1, <2>1 DEF StoreInv, StoreType, CreateReady, RemoveReady, Active
  <2>3. Asked = NoCall
    BY <1>1, AskedIs DEF Resting
  <2>4. Asked' = Want(c, FALSE)
    <3>1. ~Store!Effective'
      BY <1>1, EffectiveIs DEF Active
    <3> QED BY <1>1, <3>1, AskedNext
  <2>5. Want(c, FALSE) \in Store!Map!Calls /\ Want(c, FALSE).done = FALSE
    BY WantCalls
  <2>6. Store!Map!Ask(Want(c, FALSE))
    BY <1>1, <2>1, <2>3, <2>4, <2>5 DEF Store!Map!Ask, Held, Asked
  <2> QED BY <2>2, <2>5, <2>6 DEF MapStep, Store!Map!Next
<1>2. ASSUME Store!remove(i) PROVE StoreInv' /\ MapStep
  <2> DEFINE c == [kind |-> "remove", id |-> i, spec |-> None, step |-> "check"]
  <2>1. c \in Removing /\ c.step = "check"
    BY DEF Removing
  <2>2. call = Store!Idle /\ call' = c /\ reply' = "none" /\ UNCHANGED <<dir, tmp, trash>>
    BY <1>2 DEF Store!remove, Store!Call
  <2> HIDE DEF c
  <2>3. UpdateReady'
    BY <2>1, <2>2, CallKinds DEF UpdateReady
  <2> QED BY <1>1, <2>1, <2>2, <2>3 DEF Active
<1>3. ASSUME NEW s \in Specs, Store!create(i, s) PROVE StoreInv' /\ MapStep
  <2> DEFINE c == [kind |-> "create", id |-> i, spec |-> s, step |-> "check"]
  <2>1. c \in Creating /\ c.step = "check"
    BY DEF Creating
  <2>2. call = Store!Idle /\ call' = c /\ reply' = "none" /\ UNCHANGED <<dir, tmp, trash>>
    BY <1>3 DEF Store!create, Store!Call
  <2> HIDE DEF c
  <2>3. UpdateReady'
    BY <2>1, <2>2, CallKinds DEF UpdateReady
  <2> QED BY <1>1, <2>1, <2>2, <2>3 DEF Active
<1>4. ASSUME NEW s \in Specs, Store!update(i, s) PROVE StoreInv' /\ MapStep
  <2> DEFINE c == [kind |-> "update", id |-> i, spec |-> s, step |-> "check"]
  <2>1. c \in Updating /\ c.step = "check" /\ c.id = i /\ c.spec = s
    BY DEF Updating
  <2>2. /\ call = Store!Idle /\ call' = c /\ reply' = "none" /\ UNCHANGED <<dir, tmp, trash>>
        /\ Store!Stored(i) # None => Store!Stored(i).persistent = s.persistent
    BY <1>4 DEF Store!update, Store!Call
  <2> HIDE DEF c
  <2>3. Store!Stored(i)' = Store!Stored(i)
    BY <2>2 DEF Store!Stored, Store!HasSpec
  <2>4. UpdateReady'
    BY <2>1, <2>2, <2>3 DEF UpdateReady
  <2> QED BY <1>1, <2>1, <2>2, <2>4 DEF Active
<1> QED BY <1>2, <1>3, <1>4

\* The daemon writes or clears the runtime file.
LEMMA StoreRuntime ==
    ASSUME StoreInv, NEW i \in Ids, Store!write_runtime(i) \/ Store!clear_runtime(i)
    PROVE  StoreInv' /\ MapStep
<1>0. StoreType /\ SpecsPlaced /\ dir \in Trees /\ tmp \in Trees /\ "run" \in Store!Bases
  BY DEF StoreInv, StoreType, Store!Bases
<1>1. dir["run"][i] \in Dirs \cup {NoDir}
  BY <1>0 DEF Trees
<1>2. PICK d \in Dirs : Store!SetDir("run", i, d) /\ d.spec = SpecIn("run", i)
  <2>1. CASE Store!write_runtime(i)
    <3> DEFINE d == [spec |-> SpecIn("run", i), rt |-> TRUE]
    <3>1. Store!SetDir("run", i, d)
      BY <2>1 DEF Store!write_runtime, SpecIn
    <3>2. d \in Dirs /\ d.spec = SpecIn("run", i)
      BY <1>0, SpecsAre DEF Dirs
    <3> QED BY <3>1, <3>2
  <2>2. CASE Store!clear_runtime(i)
    <3> DEFINE d == [dir["run"][i] EXCEPT !.rt = FALSE]
    <3>1. Store!SetDir("run", i, d) /\ dir["run"][i] # NoDir
      BY <2>2 DEF Store!clear_runtime
    <3>2. d \in Dirs /\ d.spec = SpecIn("run", i)
      BY <1>1, <3>1 DEF Dirs, SpecIn
    <3> QED BY <3>1, <3>2
  <2> QED BY <2>1, <2>2
<1>3. d # NoDir
  BY NodeAssumption DEF Dirs
<1>4. /\ dir' \in Trees
      /\ \A c \in Store!Bases, j \in Ids : SpecIn(c, j)' = SpecIn(c, j)
  <2>1. d \in Dirs \cup {NoDir}
    OBVIOUS
  <2>2. /\ dir' \in Trees
        /\ \A c \in Store!Bases, j \in Ids :
             SpecIn(c, j)' = IF c = "run" /\ j = i THEN (IF d = NoDir THEN None ELSE d.spec)
                             ELSE SpecIn(c, j)
    BY <1>0, <1>2, <2>1, DirSet
  <2> QED BY <1>2, <1>3, <2>2
<1>5. call = Store!Idle /\ call' = call /\ reply' = reply /\ tmp' = tmp
  BY DEF Store!write_runtime, Store!clear_runtime
<1>6. call \in Resting
  BY <1>5 DEF Resting
<1> QED BY <1>0, <1>4, <1>5, <1>6, StoreRests

\* create, one file operation after the other.
LEMMA StoreCreate ==
    ASSUME StoreInv,
           \/ Store!CreateCheck \/ Store!CreateTmp \/ Store!CreateWrite
           \/ Store!CreatePlace \/ Store!CreateRmdir \/ Store!CreateRename
    PROVE  StoreInv' /\ MapStep
<1>0. /\ StoreType /\ SpecsPlaced /\ dir \in Trees /\ tmp \in Trees /\ CreateReady
      /\ Store!Idle \in Resting /\ NoDir \in Dirs \cup {NoDir}
  BY DEF StoreInv, StoreType, Resting
<1>1. call \in Creating /\ call \in Active /\ call.step # "return"
  BY <1>0, AtIs DEF Store!CreateCheck, Store!CreateTmp, Store!CreateWrite, Store!CreatePlace,
        Store!CreateRmdir, Store!CreateRename, Active
<1>2. PICK b \in Store!Bases, i \in Ids, s \in Specs :
         b = Store!base(call.spec) /\ i = call.id /\ s = call.spec
  BY <1>1 DEF Creating, Store!base, Store!Bases
<1>3. /\ [spec |-> None, rt |-> FALSE] \in Dirs \cup {NoDir}
      /\ [spec |-> s, rt |-> FALSE] \in Dirs \cup {NoDir}
  BY DEF Dirs
<1>4. dir' = dir => dir' \in Trees /\ \A c \in Store!Bases, j \in Ids : SpecIn(c, j)' = SpecIn(c, j)
  BY <1>0 DEF SpecIn
<1>5. call.step # "check" => Store!Stored(call.id) = None /\ ~Store!NameUsed(call.spec.name)
  BY <1>0, <1>1 DEF CreateReady, Creating
<1>6. CASE Store!CreateCheck
  <2>1. dir' = dir /\ tmp' = tmp /\ call.step = "check"
    BY <1>0, <1>6, AtIs DEF Store!CreateCheck
  <2>2. CASE Store!Stored(call.id) # None \/ Store!NameUsed(call.spec.name)
    <3>1. call' = Store!Idle /\ reply' = "error"
      BY <1>6, <2>2 DEF Store!CreateCheck, Store!Answer
    <3> QED BY <1>0, <1>1, <1>4, <2>1, <3>1, StoreRests
  <2>3. CASE ~(Store!Stored(call.id) # None \/ Store!NameUsed(call.spec.name))
    <3>1. Store!Goto("tmp")
      BY <1>6, <2>3 DEF Store!CreateCheck
    <3>2. Follows(Creating, "tmp") /\ reply' = reply
      BY <1>1, <3>1, CallGoes
    <3> QED BY <1>0, <1>1, <1>4, <2>1, <2>3, <3>2, CreateGoes
  <2> QED BY <2>2, <2>3
<1>7. CASE Store!CreateTmp
  <2>1. dir' = dir /\ call.step = "tmp" /\ Store!Goto("write")
        /\ Store!SetTmp(b, i, [spec |-> None, rt |-> FALSE])
    BY <1>0, <1>2, <1>7, AtIs DEF Store!CreateTmp
  <2>2. tmp' \in Trees
    BY <1>0, <1>3, <2>1, TmpSet
  <2>3. Follows(Creating, "write") /\ reply' = reply
    BY <1>1, <2>1, CallGoes
  <2> QED BY <1>0, <1>1, <1>4, <1>5, <2>1, <2>2, <2>3, CreateGoes
<1>8. CASE Store!CreateWrite
  <2>1. /\ dir' = dir /\ call.step = "write" /\ (Store!Goto("rename") \/ Store!Goto("place"))
        /\ Store!SetTmp(b, i, [spec |-> s, rt |-> FALSE])
    BY <1>0, <1>2, <1>8, AtIs DEF Store!CreateWrite
  <2>2. tmp' \in Trees /\ tmp'[b][i] = [spec |-> s, rt |-> FALSE]
    BY <1>0, <1>3, <2>1, TmpSet
  <2>3. PICK x \in {"rename", "place"} : Follows(Creating, x) /\ reply' = reply
    BY <1>1, <2>1, CallGoes
  <2> QED BY <1>0, <1>1, <1>2, <1>4, <1>5, <2>1, <2>2, <2>3, CreateGoes
<1>9. CASE Store!CreatePlace
  <2>1. dir' = dir /\ call.step = "place" /\ Store!Goto("rmdir") /\ Store!SetTmp(b, i, NoDir)
    BY <1>0, <1>2, <1>9, AtIs DEF Store!CreatePlace
  <2>2. tmp' \in Trees
    BY <1>0, <2>1, TmpSet
  <2>3. Follows(Creating, "rmdir") /\ reply' = reply
    BY <1>1, <2>1, CallGoes
  <2> QED BY <1>0, <1>1, <1>4, <1>5, <2>1, <2>2, <2>3, CreateGoes
<1>10. CASE Store!CreateRmdir
  <2>1. call.step = "rmdir" /\ tmp' = tmp
    BY <1>0, <1>10, AtIs DEF Store!CreateRmdir
  <2>2. CASE dir[Store!base(call.spec)][call.id].rt
    <3>1. call' = Store!Idle /\ reply' = "error" /\ dir' = dir
      BY <1>10, <2>2 DEF Store!CreateRmdir, Store!Answer
    <3> QED BY <1>0, <1>1, <1>4, <2>1, <3>1, StoreRests
  <2>3. CASE ~dir[Store!base(call.spec)][call.id].rt
    <3>1. Store!Goto("tmp") /\ Store!SetDir(b, i, NoDir)
      BY <1>2, <1>10, <2>3 DEF Store!CreateRmdir
    <3>2. Follows(Creating, "tmp") /\ reply' = reply
      BY <1>1, <3>1, CallGoes
    <3>3. /\ dir' \in Trees
          /\ \A c \in Store!Bases, j \in Ids :
               SpecIn(c, j)' = IF c = b /\ j = i THEN None ELSE SpecIn(c, j)
      BY <1>0, <3>1, DirSet
    <3>4. \A c \in Store!Bases : SpecIn(c, i) = None
      BY <1>2, <1>5, <2>1, StoredIs DEF Store!Bases
    <3>5. \A c \in Store!Bases, j \in Ids : SpecIn(c, j)' = SpecIn(c, j)
      BY <3>3, <3>4
    <3> QED BY <1>0, <1>1, <1>5, <2>1, <3>2, <3>3, <3>5, CreateGoes
  <2> QED BY <2>2, <2>3
<1>11. CASE Store!CreateRename
  <2>1. call.step = "rename" /\ Store!Goto("return") /\ Store!SetDir(b, i, tmp[b][i])
        /\ Store!SetTmp(b, i, NoDir)
    BY <1>0, <1>2, <1>11, AtIs DEF Store!CreateRename
  <2>2. tmp[b][i] = [spec |-> s, rt |-> FALSE]
    BY <1>0, <1>1, <1>2, <2>1 DEF CreateReady
  <2>3. tmp' \in Trees
    BY <1>0, <2>1, TmpSet
  <2>4. Follows(Creating, "return") /\ reply' = reply
    BY <1>1, <2>1, CallGoes
  <2>5. PICK d \in Dirs : d = tmp[b][i] /\ d.spec = s /\ d # NoDir
    <3>1. [spec |-> s, rt |-> FALSE] \in Dirs /\ [spec |-> s, rt |-> FALSE].spec = s
      BY DEF Dirs
    <3>2. NoDir \notin Dirs
      BY NodeAssumption DEF Dirs
    <3> QED BY <2>2, <3>1, <3>2
  <2>6. /\ dir' \in Trees
        /\ \A c \in Store!Bases, j \in Ids :
             SpecIn(c, j)' = IF c = b /\ j = i THEN (IF d = NoDir THEN None ELSE d.spec)
                             ELSE SpecIn(c, j)
    BY <1>0, <2>1, <2>5, DirSet
  <2>7. \A c \in Store!Bases, j \in Ids :
             SpecIn(c, j)' = IF c = Store!base(call.spec) /\ j = call.id THEN call.spec
                             ELSE SpecIn(c, j)
    BY <1>2, <2>5, <2>6
  <2> QED BY <1>0, <1>1, <1>5, <2>1, <2>3, <2>4, <2>6, <2>7, CreateTakes
<1> QED BY <1>6, <1>7, <1>8, <1>9, <1>10, <1>11

\* update, whose rename replaces the spec where it lies.
LEMMA StoreUpdate ==
    ASSUME StoreInv, Store!UpdateWrite
    PROVE  StoreInv' /\ MapStep
<1>0. /\ StoreType /\ SpecsPlaced /\ dir \in Trees /\ tmp \in Trees /\ UpdateReady
      /\ Store!Idle \in Resting
  BY DEF StoreInv, StoreType, Resting
<1>1. call \in Updating /\ call.step = "check" /\ call \in Active /\ tmp' = tmp
  BY <1>0, AtIs DEF Store!UpdateWrite, Active
<1>2. PICK i \in Ids, s \in Specs : i = call.id /\ s = call.spec
  BY <1>1 DEF Updating
<1>3. CASE Store!Stored(call.id) = None
  <2>1. call' = Store!Idle /\ reply' = "error" /\ dir' = dir
    BY <1>3 DEF Store!UpdateWrite, Store!Answer
  <2> QED BY <1>0, <1>1, <2>1, StoreRests DEF SpecIn
<1>4. CASE Store!Stored(call.id) # None
  <2>1. Store!atomic_write(Store!spec_path(i), i, s) /\ Store!Goto("return")
    BY <1>2, <1>4 DEF Store!UpdateWrite
  <2>2. \E b \in Store!Bases : Store!HasSpec(b, i)
    BY <1>2, <1>4, StoredIs DEF Store!Bases
  <2>3. PICK b \in Store!Bases : b = Store!spec_path(i) /\ Store!HasSpec(b, i)
    BY <2>2 DEF Store!spec_path
  <2>4. /\ SpecIn(b, i) # None /\ dir[b][i] # NoDir /\ SpecIn(b, i) = Store!Stored(i)
        /\ \A c \in Store!Bases : c # b => SpecIn(c, i) = None
    BY <1>0, <2>3, StoredIs DEF Store!HasSpec, SpecsPlaced, Store!Bases
  <2>5. b = Store!base(call.spec)
    <3>1. Store!base(SpecIn(b, i)) = b
      BY <1>0, <2>4 DEF SpecsPlaced
    <3>2. SpecIn(b, i).persistent = call.spec.persistent
      BY <1>0, <1>1, <1>2, <2>4 DEF UpdateReady
    <3> QED BY <3>1, <3>2 DEF Store!base
  <2>6. dir[b][i] \in Dirs
    BY <1>0, <2>4 DEF Trees
  <2>7. PICK d \in Dirs : d = [dir[b][i] EXCEPT !.spec = s] /\ d.spec = s /\ d # NoDir
    <3>1. LET e == [dir[b][i] EXCEPT !.spec = s] IN e \in Dirs /\ e.spec = s
      BY <2>6 DEF Dirs
    <3>2. NoDir \notin Dirs
      BY NodeAssumption DEF Dirs
    <3> QED BY <3>1, <3>2
  <2>8. Store!SetDir(b, i, d)
    BY <1>0, <2>1, <2>3, <2>7 DEF Store!atomic_write, Store!SetDir, Trees
  <2>9. /\ dir' \in Trees
        /\ \A c \in Store!Bases, j \in Ids :
             SpecIn(c, j)' = IF c = b /\ j = i THEN (IF d = NoDir THEN None ELSE d.spec)
                             ELSE SpecIn(c, j)
    BY <1>0, <2>8, DirSet
  <2>10. \A c \in Store!Bases, j \in Ids :
             SpecIn(c, j)' = IF c = Store!base(call.spec) /\ j = call.id THEN call.spec
                             ELSE SpecIn(c, j)
    BY <1>2, <2>5, <2>7, <2>9
  <2>11. Follows(Updating, "return") /\ reply' = reply
    BY <1>1, <2>1, CallGoes
  <2> QED BY <1>0, <1>1, <1>2, <1>4, <2>4, <2>5, <2>9, <2>10, <2>11, UpdateTakes
<1> QED BY <1>3, <1>4

\* remove, which takes the container away with a rename or, under /run, an unlink.
LEMMA StoreRemove ==
    ASSUME StoreInv, Store!RemoveCheck \/ Store!RemoveTrash \/ Store!RemoveRuntime \/ Store!PurgeTrash
    PROVE  StoreInv' /\ MapStep
<1>0. /\ StoreType /\ SpecsPlaced /\ dir \in Trees /\ tmp \in Trees /\ RemoveReady
      /\ Store!Idle \in Resting /\ NoDir \in Dirs \cup {NoDir}
      /\ "state" \in Store!Bases /\ "run" \in Store!Bases
  BY DEF StoreInv, StoreType, Resting, Store!Bases
<1>1. call \in Removing /\ call \in Active /\ tmp' = tmp
  BY <1>0, AtIs DEF Store!RemoveCheck, Store!RemoveTrash, Store!RemoveRuntime, Store!PurgeTrash, Active
<1>2. PICK i \in Ids : i = call.id
  BY <1>1 DEF Removing
<1>3. dir' = dir => dir' \in Trees /\ \A c \in Store!Bases, j \in Ids : SpecIn(c, j)' = SpecIn(c, j)
  BY <1>0 DEF SpecIn
<1>4. UNCHANGED call => Follows(Removing, call.step)
  BY <1>1 DEF Follows
<1>5. CASE Store!RemoveCheck
  <2>1. call.step = "check" /\ dir' = dir
    BY <1>0, <1>5, AtIs DEF Store!RemoveCheck
  <2>2. CASE Store!Stored(call.id) = None
    <3>1. call' = Store!Idle /\ reply' = "error"
      BY <1>5, <2>2 DEF Store!RemoveCheck, Store!Answer
    <3> QED BY <1>0, <1>1, <1>3, <2>1, <3>1, StoreRests
  <2>3. CASE Store!Stored(call.id) # None
    <3>1. Store!Goto("trash")
      BY <1>5, <2>3 DEF Store!RemoveCheck
    <3>2. Follows(Removing, "trash") /\ reply' = reply
      BY <1>1, <3>1, CallGoes
    <3>3. ~Store!Effective
      BY <1>1, <2>1, EffectiveIs
    <3> QED BY <1>0, <1>1, <1>3, <2>1, <2>3, <3>2, <3>3, RemoveGoes
  <2> QED BY <2>2, <2>3
<1>6. CASE Store!RemoveTrash
  <2>1. call.step = "trash"
    BY <1>0, <1>6, AtIs DEF Store!RemoveTrash
  <2>2. Store!Stored(call.id) # None /\ ~Store!Effective
    BY <1>0, <1>1, <2>1, EffectiveIs DEF RemoveReady
  <2>3. Store!Goto("runtime") => Follows(Removing, "runtime") /\ reply' = reply
    BY <1>1, CallGoes
  <2>4. CASE dir["state"][call.id] = NoDir
    <3>1. Store!Goto("runtime") /\ dir' = dir
      BY <1>6, <2>4 DEF Store!RemoveTrash
    <3> QED BY <1>0, <1>1, <1>3, <2>2, <2>3, <2>4, <3>1, RemoveGoes
  <2>5. CASE dir["state"][call.id] # NoDir /\ call.id \in trash
    <3>1. call' = Store!Idle /\ reply' = "error" /\ dir' = dir
      BY <1>6, <2>5 DEF Store!RemoveTrash, Store!Answer
    <3> QED BY <1>0, <1>1, <1>3, <3>1, StoreRests
  <2>6. CASE dir["state"][call.id] # NoDir /\ call.id \notin trash
    <3>1. Store!Goto("runtime") /\ Store!SetDir("state", i, NoDir)
      BY <1>2, <1>6, <2>6 DEF Store!RemoveTrash
    <3>2. /\ dir' \in Trees /\ dir'["state"][i] = NoDir
          /\ \A c \in Store!Bases, j \in Ids :
               SpecIn(c, j)' = IF c = "state" /\ j = i THEN None ELSE SpecIn(c, j)
      BY <1>0, <3>1, DirSet
    <3>3. CASE SpecIn("state", i) = None
      <4>1. \A c \in Store!Bases, j \in Ids : SpecIn(c, j)' = SpecIn(c, j)
        BY <3>2, <3>3
      <4> QED BY <1>0, <1>1, <1>2, <2>2, <2>3, <3>1, <3>2, <4>1, RemoveGoes
    <3>4. CASE SpecIn("state", i) # None
      <4>1. \A c \in Store!Bases : c # "state" => SpecIn(c, i) = None
        BY <1>0, <3>4 DEF SpecsPlaced, Store!Bases
      <4> QED BY <1>0, <1>1, <1>2, <2>1, <2>2, <2>3, <3>1, <3>2, <4>1, RemoveTakes
    <3> QED BY <3>3, <3>4
  <2> QED BY <2>4, <2>5, <2>6
<1>7. CASE Store!RemoveRuntime
  <2>1. call.step = "runtime"
    BY <1>0, <1>7, AtIs DEF Store!RemoveRuntime
  <2>2. dir["state"][i] = NoDir /\ SpecIn("state", i) = None
    BY <1>0, <1>1, <1>2, <2>1 DEF RemoveReady, SpecIn
  <2>3. Store!Stored(i) = SpecIn("run", i)
    BY <2>2, StoredIs
  <2>4. Store!Effective <=> SpecIn("run", i) = None
    BY <1>1, <1>2, <2>1, <2>3, EffectiveIs
  <2>5. PICK d \in Dirs \cup {NoDir} : d = dir["run"][i]
    BY <1>0 DEF Trees
  <2>6. Store!Goto("purge") => Follows(Removing, "purge") /\ reply' = reply
    BY <1>1, CallGoes
  <2>7. \/ d = NoDir /\ Store!Goto("purge") /\ UNCHANGED dir
        \/ d # NoDir /\ d.spec = None /\ Store!SetDir("run", i, NoDir) /\ Store!Goto("purge")
        \/ d # NoDir /\ d.spec # None /\ Store!SetDir("run", i, [d EXCEPT !.spec = None])
           /\ UNCHANGED <<call, reply>>
        \/ d # NoDir /\ Store!SetDir("run", i, [d EXCEPT !.rt = FALSE]) /\ UNCHANGED <<call, reply>>
    BY <1>2, <1>7, <2>5 DEF Store!RemoveRuntime
  <2>8. CASE d = NoDir /\ Store!Goto("purge") /\ UNCHANGED dir
    <3>1. Store!Effective
      BY <2>4, <2>5, <2>8 DEF SpecIn
    <3> QED BY <1>0, <1>1, <1>3, <2>6, <2>8, <3>1, RemoveGoes
  <2>9. CASE d # NoDir /\ d.spec = None /\ Store!SetDir("run", i, NoDir) /\ Store!Goto("purge")
    <3>1. SpecIn("run", i) = None /\ Store!Effective
      BY <2>4, <2>5, <2>9 DEF SpecIn
    <3>2. /\ dir' \in Trees
          /\ \A c \in Store!Bases, j \in Ids :
               SpecIn(c, j)' = IF c = "run" /\ j = i THEN None ELSE SpecIn(c, j)
      BY <1>0, <2>9, DirSet
    <3>3. \A c \in Store!Bases, j \in Ids : SpecIn(c, j)' = SpecIn(c, j)
      BY <3>1, <3>2
    <3> QED BY <1>0, <1>1, <2>6, <2>9, <3>1, <3>2, <3>3, RemoveGoes
  <2>10. CASE d # NoDir /\ d.spec # None /\ Store!SetDir("run", i, [d EXCEPT !.spec = None])
              /\ UNCHANGED <<call, reply>>
    <3>1. SpecIn("run", i) # None
      BY <2>5, <2>10 DEF SpecIn
    <3>2. PICK e \in Dirs : e = [d EXCEPT !.spec = None] /\ e.spec = None
      BY <2>10 DEF Dirs
    <3>3. e \in Dirs \cup {NoDir} /\ Store!SetDir("run", i, e)
      BY <2>10, <3>2
    <3>4. /\ dir' \in Trees /\ dir'["state"][i] = dir["state"][i]
          /\ \A c \in Store!Bases, j \in Ids :
               SpecIn(c, j)' = IF c = "run" /\ j = i THEN None ELSE SpecIn(c, j)
      <4>1. /\ dir' \in Trees
            /\ \A c \in Store!Bases, j \in Ids : dir'[c][j] = IF c = "run" /\ j = i THEN e ELSE dir[c][j]
            /\ \A c \in Store!Bases, j \in Ids :
                 SpecIn(c, j)' = IF c = "run" /\ j = i THEN (IF e = NoDir THEN None ELSE e.spec)
                                 ELSE SpecIn(c, j)
        BY <1>0, <3>3, DirSet
      <4> QED BY <1>0, <3>2, <4>1
    <3>5. \A c \in Store!Bases : c # "run" => SpecIn(c, i) = None
      BY <2>2 DEF Store!Bases
    <3> QED BY <1>0, <1>1, <1>2, <1>4, <2>1, <2>2, <2>3, <2>10, <3>1, <3>4, <3>5, RemoveTakes
  <2>11. CASE d # NoDir /\ Store!SetDir("run", i, [d EXCEPT !.rt = FALSE]) /\ UNCHANGED <<call, reply>>
    <3>1. PICK e \in Dirs : e = [d EXCEPT !.rt = FALSE] /\ e.spec = d.spec
      <4>1. d \in Dirs
        BY <2>11
      <4>2. LET n == [d EXCEPT !.rt = FALSE] IN n \in Dirs /\ n.spec = d.spec
        BY <4>1 DEF Dirs
      <4> QED BY <4>2
    <3>2. e \in Dirs \cup {NoDir} /\ Store!SetDir("run", i, e)
      BY <2>11, <3>1
    <3>3. e # NoDir /\ e.spec = SpecIn("run", i)
      BY <2>5, <2>11, <3>1, NodeAssumption DEF Dirs, SpecIn
    <3>4. /\ dir' \in Trees /\ dir'["state"][i] = dir["state"][i]
          /\ \A c \in Store!Bases, j \in Ids : SpecIn(c, j)' = SpecIn(c, j)
      <4>1. /\ dir' \in Trees
            /\ \A c \in Store!Bases, j \in Ids : dir'[c][j] = IF c = "run" /\ j = i THEN e ELSE dir[c][j]
            /\ \A c \in Store!Bases, j \in Ids :
                 SpecIn(c, j)' = IF c = "run" /\ j = i THEN (IF e = NoDir THEN None ELSE e.spec)
                                 ELSE SpecIn(c, j)
        BY <1>0, <3>2, DirSet
      <4> QED BY <1>0, <3>3, <4>1
    <3>5. Store!Effective <=> Store!Stored(call.id) = None
      BY <1>2, <2>3, <2>4
    <3> QED BY <1>0, <1>1, <1>2, <1>4, <2>1, <2>2, <2>11, <3>4, <3>5, RemoveGoes
  <2> QED BY <2>7, <2>8, <2>9, <2>10, <2>11
<1>8. CASE Store!PurgeTrash
  <2>1. call.step = "purge" /\ dir' = dir /\ (Store!Goto("return") \/ UNCHANGED <<call, reply>>)
    BY <1>0, <1>8, AtIs DEF Store!PurgeTrash
  <2>2. PICK x \in {"return", "purge"} : Follows(Removing, x) /\ reply' = reply
    BY <1>1, <1>4, <2>1, CallGoes
  <2>3. Store!Effective
    BY <1>1, <2>1, EffectiveIs
  <2> QED BY <1>0, <1>1, <1>3, <2>1, <2>2, <2>3, RemoveGoes
<1> QED BY <1>5, <1>6, <1>7, <1>8

\* The end of a call, a crash, a reboot, and the start with recover.
LEMMA StoreRestarts ==
    ASSUME StoreInv, Store!Return \/ Store!Crash \/ Store!Reboot \/ Store!open \/ Store!recover
    PROVE  StoreInv' /\ MapStep
<1>0. /\ StoreType /\ SpecsPlaced /\ dir \in Trees /\ tmp \in Trees /\ NoDir \in Dirs \cup {NoDir}
      /\ Store!Idle \in Resting /\ Store!Down \in Resting /\ Store!Recovering \in Resting
  BY DEF StoreInv, StoreType, Resting
<1>1. dir' = dir => dir' \in Trees /\ \A c \in Store!Bases, j \in Ids : SpecIn(c, j)' = SpecIn(c, j)
  BY <1>0 DEF SpecIn
<1>2. CASE Store!Return
  <2>1. /\ call \in Active /\ call.step = "return" /\ call' = Store!Idle /\ reply' = "ok"
        /\ dir' = dir /\ tmp' = tmp
    BY <1>0, <1>2, AtIs DEF Store!Return, Store!Answer
  <2>2. Store!Effective
    BY <2>1 DEF Store!Effective
  <2> QED BY <1>0, <1>1, <2>1, <2>2, StoreRests
<1>3. CASE Store!Crash
  <2>1. call' = Store!Down /\ reply' = "none" /\ dir' = dir /\ tmp' = tmp
    BY <1>3 DEF Store!Crash
  <2> QED BY <1>0, <1>1, <2>1, StoreRests
<1>4. CASE Store!open
  <2>1. call = Store!Down /\ call' = Store!Recovering /\ reply' = reply /\ dir' = dir /\ tmp' = tmp
    BY <1>4 DEF Store!open
  <2> QED BY <1>0, <1>1, <2>1, StoreRests
<1>5. CASE Store!recover
  <2>1. /\ call = Store!Recovering /\ (call' = call \/ call' = Store!Idle)
        /\ reply' = reply /\ dir' = dir
    BY <1>5 DEF Store!recover
  <2>2. tmp' = tmp \/ \E b \in Store!Bases, i \in Ids : Store!SetTmp(b, i, NoDir)
    BY <1>5 DEF Store!recover
  <2>3. tmp' \in Trees
    BY <1>0, <2>2, TmpSet
  <2> QED BY <1>0, <1>1, <2>1, <2>3, StoreRests
<1>6. CASE Store!Reboot
  <2> DEFINE Empty == [i \in Ids |-> NoDir]
  <2>0. Empty \in [Ids -> Dirs \cup {NoDir}]
    OBVIOUS
  <2>1. /\ dir' = [dir EXCEPT !["run"] = Empty] /\ tmp' = [tmp EXCEPT !["run"] = Empty]
        /\ call' = Store!Down /\ reply' = "none"
    BY <1>6 DEF Store!Reboot
  <2>2. dir' \in Trees /\ tmp' \in Trees
    BY <1>0, <2>0, <2>1 DEF Trees
  <2>3. \A i \in Ids : dir'["state"][i] = dir["state"][i] /\ dir'["run"][i] = NoDir
    BY <1>0, <2>1 DEF Trees, Store!Bases
  <2>4. \A i \in Ids : SpecIn("state", i)' = SpecIn("state", i) /\ SpecIn("run", i)' = None
    BY <2>3 DEF SpecIn
  <2>5. SpecsPlaced'
    BY <1>0, <2>4 DEF SpecsPlaced, Store!Bases, Store!base
  <2>6. call' \in Resting /\ call' \notin Active
    BY <1>0, <2>1, CallKinds DEF Active
  <2>7. StoreInv'
    BY <2>2, <2>5, <2>6 DEF StoreInv, StoreType, CreateReady, UpdateReady, RemoveReady, Active
  <2>8. \A i \in Ids : Store!Stored(i)' =
          IF Store!Map!Persistent(Store!Stored(i)) THEN Store!Stored(i) ELSE None
    <3> SUFFICES ASSUME NEW i \in Ids
                 PROVE  Store!Stored(i)' =
                          IF Store!Map!Persistent(Store!Stored(i)) THEN Store!Stored(i) ELSE None
      OBVIOUS
    <3>1. Store!Stored(i)' = SpecIn("state", i)
      BY <2>4, StoredIs
    <3>2. CASE SpecIn("state", i) # None
      <4>1. Store!Stored(i) = SpecIn("state", i)
        BY <3>2, StoredIs
      <4>2. Store!base(SpecIn("state", i)) = "state"
        BY <1>0, <3>2 DEF SpecsPlaced, Store!Bases
      <4>3. Store!Map!Persistent(Store!Stored(i))
        BY <3>2, <4>1, <4>2 DEF Store!Map!Persistent, Store!base
      <4> QED BY <3>1, <4>1, <4>3
    <3>3. CASE SpecIn("state", i) = None
      <4>1. Store!Stored(i) = SpecIn("run", i)
        BY <3>3, StoredIs
      <4>2. SpecIn("run", i) # None => Store!base(SpecIn("run", i)) = "run"
        BY <1>0 DEF SpecsPlaced, Store!Bases
      <4>3. ~Store!Map!Persistent(Store!Stored(i))
        BY <4>1, <4>2 DEF Store!Map!Persistent, Store!base
      <4> QED BY <3>1, <3>3, <4>3
    <3> QED BY <3>2, <3>3
  <2>9. Asked' = NoCall
    BY <2>6, AskedNext
  <2>10. Store!Map!Reboot
    BY <2>1, <2>8, <2>9 DEF Store!Map!Reboot, Asked
  <2> QED BY <2>7, <2>10 DEF MapStep, Store!Map!Next
<1> QED BY <1>2, <1>3, <1>4, <1>5, <1>6

\* Every step of the store keeps its invariant and is a step of the map or none.
LEMMA StoreNext == ASSUME StoreInv, Store!Next PROVE StoreInv' /\ MapStep
<1>1. CASE \E i \in Ids : Store!write_runtime(i) \/ Store!clear_runtime(i)
  BY <1>1, StoreRuntime
<1>2. CASE \E i \in Ids : Store!remove(i) \/ \E s \in Specs : Store!create(i, s) \/ Store!update(i, s)
  BY <1>2, StoreAsked
<1> QED BY <1>1, <1>2, StoreCreate, StoreUpdate, StoreRemove, StoreRestarts DEF Store!Next

\* create, update and remove of the node store are atomic: whatever the moment of a
\* crash or a reboot, the containers that can be read are those of a map on which
\* each call takes effect at once or not at all, and one that answered Ok has.
THEOREM NodeStoreIsAMap == NodeSpec => ImplementsContainerMap
<1>1. NodeInit => StoreInv /\ Store!Map!Init
  <2> SUFFICES ASSUME NodeInit PROVE StoreInv /\ Store!Map!Init
    OBVIOUS
  <2>1. /\ dir = [b \in Store!Bases |-> [i \in Ids |-> NoDir]]
        /\ tmp = [b \in Store!Bases |-> [i \in Ids |-> NoDir]]
        /\ call = Store!Down /\ reply = "none"
    BY DEF NodeInit, Store!Init
  <2>2. dir \in Trees /\ tmp \in Trees /\ \A b \in Store!Bases, i \in Ids : SpecIn(b, i) = None
    BY <2>1 DEF Trees, SpecIn
  <2>3. call \in Resting /\ call \notin Active
    BY <2>1, CallKinds DEF Resting, Active
  <2>4. StoreInv
    BY <2>2, <2>3 DEF StoreInv, StoreType, SpecsPlaced, CreateReady, UpdateReady, RemoveReady, Active,
          Store!Bases
  <2>5. Asked = NoCall /\ \A i \in Ids : Store!Stored(i) = None
    BY <2>2, <2>3, AskedIs, StoredIs DEF Store!Bases
  <2> QED BY <2>1, <2>4, <2>5 DEF Store!Map!Init, Asked
<1>2. StoreInv /\ [NodeNext]_nodeVars =>
        StoreInv' /\ [Store!Map!Next]_<<[i \in Ids |-> Store!Stored(i)], Store!AbstractCall, reply>>
  <2> SUFFICES ASSUME StoreInv, [NodeNext]_nodeVars
               PROVE  StoreInv' /\ (\/ Store!Map!Next
                                    \/ UNCHANGED <<[i \in Ids |-> Store!Stored(i)], Store!AbstractCall, reply>>)
    OBVIOUS
  <2>1. CASE StoreStep
    BY <2>1, StoreNext DEF StoreStep, MapStep, Held, Asked
  <2>2. CASE UNCHANGED store
    <3>1. UNCHANGED <<dir, tmp, trash, call, reply>>
      BY <2>2 DEF store
    <3>2. UNCHANGED <<Store!Effective, Store!Running>> /\ \A i : Store!Stored(i)' = Store!Stored(i)
      BY <3>1 DEF Store!Effective, Store!Running, Store!Stored, Store!HasSpec, Store!Idle, Store!Down,
            Store!Recovering
    <3>3. UNCHANGED Store!AbstractCall
      BY <3>1, <3>2 DEF Store!AbstractCall
    <3>4. StoreInv'
      BY <3>1, <3>2 DEF StoreInv, StoreType, SpecsPlaced, SpecIn, CreateReady, UpdateReady, RemoveReady,
            Store!NameUsed, Store!base
    <3> QED BY <3>1, <3>2, <3>3, <3>4
  <2>3. StoreStep \/ UNCHANGED store
    BY DEF NodeNext, SecretsStep, ExecStep, ImageStep, LogStep, nodeVars, store
  <2> QED BY <2>1, <2>2, <2>3
<1> QED BY <1>1, <1>2, PTL DEF NodeSpec, ImplementsContainerMap, Store!ImplementsContainerMap, Store!Map!Spec

-----------------------------------------------------------------------------
(* The image store.                                                        *)

Unpacking == {"open", "first", "second", "rename"}
PullAt == Unpacking \cup {"layer", "failed", "put"}
Pulls == [at : PullAt, name : Images, digest : Digests, rest : Seq(Image!Layers), alone : BOOLEAN]
Parts == (SUBSET Image!Whole) \cup {None}
IsPrune(d) == d = [at |-> "prune", keep |-> d.keep, there |-> d.there]

ImageType ==
    /\ layer \in [Image!Layers -> Parts] /\ img_tmp \in [Image!Layers -> Parts]
    /\ puller \in [Workers -> Pulls \cup {Image!Idle}]
    /\ \/ img_daemon = Image!Idle
       \/ IsPrune(img_daemon)
       \/ img_daemon \in [at : {"commit", "put"}, name : Images]

Unpacks(w) == puller[w].at \in Unpacking
Top(w) == Head(puller[w].rest)

\* A worker that unpacks a layer has it ahead, one that writes the image's file has
\* none.
RestLeft ==
    \A w \in Workers :
        /\ Unpacks(w) \/ puller[w].at = "failed" => puller[w].rest # <<>>
        /\ puller[w].at = "put" => puller[w].rest = <<>>

\* Two workers unpack the same layer only when that was noted.
OneUnpacks ==
    \A v, w \in Workers : v # w /\ Unpacks(v) /\ Unpacks(w) /\ Top(v) = Top(w) => Top(w) \in excused

Unpacked(at) ==
    IF at = "first" THEN {} ELSE IF at = "second" THEN {1} ELSE Image!Whole

\* What is in the directory of a layer under way, unless it was removed by a worker
\* that failed before on the same layer.
TmpSound ==
    \A w \in Workers : Unpacks(w) /\ Top(w) \notin excused =>
        \/ img_tmp[Top(w)] = None
        \/ puller[w].at # "open" /\ img_tmp[Top(w)] = Unpacked(puller[w].at)

\* A worker that counts as alone is.
AloneIsAlone ==
    \A w \in Workers : puller[w] # Image!Idle /\ puller[w].alone =>
        /\ img_daemon = Image!Idle
        /\ \A v \in Workers : v # w => puller[v] = Image!Idle

\* The layers of its image are there or ahead of it.
AloneComplete ==
    \A w \in Workers : puller[w] # Image!Idle /\ puller[w].alone =>
        \A l \in Image!Range(LayersOf[puller[w].digest]) :
            layer[l] # None \/ l \in Image!Range(puller[w].rest)

ImageInv ==
    /\ ImageType /\ RestLeft /\ OneUnpacks /\ TmpSound /\ AloneIsAlone /\ AloneComplete
    /\ ImagesWhole

\* A layer is the first one ahead or among the others.
LEMMA LayersAhead ==
    ASSUME NEW S, NEW s \in Seq(S), s # <<>>
    PROVE  /\ Head(s) \in S /\ Tail(s) \in Seq(S)
           /\ \A l \in Image!Range(s) : l = Head(s) \/ l \in Image!Range(Tail(s))
<1>1. Head(s) \in S /\ Tail(s) \in Seq(S) /\ Len(s) \in Nat \ {0}
  OBVIOUS
<1>2. ASSUME NEW k \in 1..Len(s), k # 1 PROVE s[k] \in Image!Range(Tail(s))
  <2>1. k - 1 \in 1..Len(Tail(s)) /\ Tail(s)[k - 1] = s[k]
    BY <1>1, <1>2
  <2>2. DOMAIN Tail(s) = 1..Len(Tail(s))
    BY <1>1
  <2> QED BY <2>1, <2>2 DEF Image!Range
<1>3. \A l \in Image!Range(s) : \E k \in 1..Len(s) : l = s[k]
  BY DEF Image!Range
<1> QED BY <1>1, <1>2, <1>3

\* A worker that moves on keeps what it pulls.
LEMMA PullGoes ==
    ASSUME NEW p \in Pulls
    PROVE  /\ \A at \in PullAt : LET n == [p EXCEPT !.at = at] IN
                /\ n \in Pulls /\ n.at = at /\ n.rest = p.rest /\ n.digest = p.digest /\ n.alone = p.alone
           /\ \A at \in PullAt, rest \in Seq(Image!Layers) : LET n == [p EXCEPT !.at = at, !.rest = rest] IN
                /\ n \in Pulls /\ n.at = at /\ n.rest = rest /\ n.digest = p.digest /\ n.alone = p.alone
           /\ \A rest \in Seq(Image!Layers) : LET n == [p EXCEPT !.rest = rest] IN
                /\ n \in Pulls /\ n.at = p.at /\ n.rest = rest /\ n.digest = p.digest /\ n.alone = p.alone
           /\ LET n == [p EXCEPT !.alone = FALSE] IN
                /\ n \in Pulls /\ n.at = p.at /\ n.rest = p.rest /\ n.digest = p.digest /\ ~n.alone
<1>1. \A at \in PullAt : LET n == [p EXCEPT !.at = at] IN
        /\ n \in Pulls /\ n.at = at /\ n.rest = p.rest /\ n.digest = p.digest /\ n.alone = p.alone
  BY DEF Pulls
<1>2. \A at \in PullAt, rest \in Seq(Image!Layers) : LET n == [p EXCEPT !.at = at, !.rest = rest] IN
        /\ n \in Pulls /\ n.at = at /\ n.rest = rest /\ n.digest = p.digest /\ n.alone = p.alone
  BY DEF Pulls
<1>3. \A rest \in Seq(Image!Layers) : LET n == [p EXCEPT !.rest = rest] IN
        /\ n \in Pulls /\ n.at = p.at /\ n.rest = rest /\ n.digest = p.digest /\ n.alone = p.alone
  BY DEF Pulls
<1>4. LET n == [p EXCEPT !.alone = FALSE] IN
        /\ n \in Pulls /\ n.at = p.at /\ n.rest = p.rest /\ n.digest = p.digest /\ ~n.alone
  BY DEF Pulls
<1> QED BY <1>1, <1>2, <1>3, <1>4

\* What there is to know of the worker and the daemon from their places.
LEMMA ImageFields ==
    ASSUME ImageType
    PROVE  /\ \A w \in Workers : puller[w] = Image!Idle \/ puller[w] \in Pulls
           /\ \A w \in Workers : puller[w].at \in PullAt => puller[w] \in Pulls /\ puller[w] # Image!Idle
           /\ \A w \in Workers : puller[w].at \notin PullAt => puller[w] = Image!Idle
           /\ Image!Idle.at = "idle" /\ Image!Idle.at \notin PullAt
           /\ \A p \in Pulls : p # Image!Idle /\ p.at \in PullAt /\ p.rest \in Seq(Image!Layers)
<1>1. Image!Idle.at = "idle" /\ Image!Idle.at \notin PullAt
  BY DEF Image!Idle, PullAt, Unpacking
<1>2. \A p \in Pulls : p.at \in PullAt /\ p.rest \in Seq(Image!Layers)
  BY DEF Pulls
<1> QED BY <1>1, <1>2 DEF ImageType

\* A step of a worker that is at work keeps the invariant when it does so for the
\* worker itself, and takes nothing from the others but a directory under way.
LEMMA WorkerMoves ==
    ASSUME ImageInv, NEW w \in Workers, NEW r \in Pulls \cup {Image!Idle},
           puller[w] # Image!Idle, Image!SetWorker(w, r), UNCHANGED img_daemon,
           layer' \in [Image!Layers -> Parts], img_tmp' \in [Image!Layers -> Parts],
           excused \subseteq excused',
           r.at \in Unpacking \cup {"failed"} => r.rest # <<>>,
           r.at = "put" => r.rest = <<>>,
           \A v \in Workers : v # w /\ r.at \in Unpacking /\ Unpacks(v) /\ Top(v) = Head(r.rest) =>
               Head(r.rest) \in excused',
           r.at \in Unpacking /\ Head(r.rest) \notin excused' =>
               \/ img_tmp'[Head(r.rest)] = None
               \/ r.at # "open" /\ img_tmp'[Head(r.rest)] = Unpacked(r.at),
           \A v \in Workers : v # w /\ Unpacks(v) /\ Top(v) \notin excused' =>
               img_tmp'[Top(v)] \in {img_tmp[Top(v)], None},
           r # Image!Idle /\ r.alone =>
               /\ puller[w].alone /\ r.digest = puller[w].digest
               /\ \A l \in Image!Layers : layer[l] # None \/ l \in Image!Range(puller[w].rest) =>
                     layer'[l] # None \/ l \in Image!Range(r.rest),
           \A l \in Image!Layers \ excused' : layer'[l] \in {layer[l], Image!Whole}
    PROVE  ImageInv'
<1>0. /\ ImageType /\ RestLeft /\ OneUnpacks /\ TmpSound /\ AloneIsAlone /\ AloneComplete /\ ImagesWhole
      /\ puller \in [Workers -> Pulls \cup {Image!Idle}]
  BY DEF ImageInv, ImageType
<1>1. /\ puller' \in [Workers -> Pulls \cup {Image!Idle}]
      /\ \A v \in Workers : puller'[v] = IF v = w THEN r ELSE puller[v]
  BY <1>0 DEF Image!SetWorker
<1>2. ImageType'
  BY <1>0, <1>1 DEF ImageType, Image!Idle
<1>3. RestLeft'
  BY <1>0, <1>1 DEF RestLeft, Unpacks
<1>4. OneUnpacks'
  BY <1>0, <1>1 DEF OneUnpacks, Unpacks, Top
<1>5. TmpSound'
  <2> SUFFICES ASSUME NEW v \in Workers, Unpacks(v)', Top(v)' \notin excused'
               PROVE  (\/ img_tmp[Top(v)] = None
                       \/ puller[v].at # "open" /\ img_tmp[Top(v)] = Unpacked(puller[v].at))'
    BY DEF TmpSound
  <2>1. CASE v = w
    BY <1>1, <2>1 DEF Unpacks, Top, Unpacked, Image!Whole
  <2>2. CASE v # w
    <3>1. Unpacks(v) /\ Top(v)' = Top(v) /\ Top(v) \notin excused' /\ puller'[v] = puller[v]
      BY <1>1, <2>2 DEF Unpacks, Top
    <3>2. \/ img_tmp[Top(v)] = None
          \/ puller[v].at # "open" /\ img_tmp[Top(v)] = Unpacked(puller[v].at)
      BY <1>0, <3>1 DEF TmpSound
    <3>3. img_tmp'[Top(v)] \in {img_tmp[Top(v)], None}
      BY <2>2, <3>1
    <3> QED BY <3>1, <3>2, <3>3 DEF Unpacked, Image!Whole
  <2> QED BY <2>1, <2>2
<1>6. AloneIsAlone'
  BY <1>0, <1>1 DEF AloneIsAlone, Image!Idle
<1>7. AloneComplete'
  <2> SUFFICES ASSUME NEW v \in Workers, puller'[v] # Image!Idle, puller'[v].alone,
                      NEW l \in Image!Range(LayersOf[puller'[v].digest])
               PROVE  layer'[l] # None \/ l \in Image!Range(puller'[v].rest)
    BY DEF AloneComplete, Image!Idle, Image!Range
  <2>1. v = w
    BY <1>0, <1>1 DEF AloneIsAlone
  <2>2. puller[w].alone /\ l \in Image!Range(LayersOf[puller[w].digest])
    BY <1>1, <2>1
  <2>3. layer[l] # None \/ l \in Image!Range(puller[w].rest)
    BY <1>0, <2>2 DEF AloneComplete
  <2>4. puller[w].digest \in Digests
    BY <1>0, ImageFields DEF Pulls
  <2>5. l \in Image!Layers
    BY <2>2, <2>4 DEF Image!Layers
  <2> QED BY <1>1, <2>1, <2>3, <2>5
<1>8. ImagesWhole'
  <2>1. \A l \in Image!Layers \ excused' :
          layer'[l] \in {None, Image!Whole} \/ (img_daemon'.at = "commit" /\ l = Image!Last(LayersOf[Committed]))
    BY <1>0 DEF ImagesWhole, Image!ImagesWhole
  <2>2. ASSUME NEW v \in Workers, puller'[v] # Image!Idle, puller'[v].at = "put", puller'[v].alone,
               NEW l \in Image!Range(LayersOf[puller'[v].digest])
        PROVE  layer'[l] # None
    <3>1. puller'[v].rest = <<>>
      BY <1>3, <2>2 DEF RestLeft
    <3>2. l \notin Image!Range(<<>>)
      BY DEF Image!Range
    <3> QED BY <1>7, <2>2, <3>1, <3>2 DEF AloneComplete, Image!Idle, Image!Range
  <2> QED BY <2>1, <2>2 DEF ImagesWhole, Image!ImagesWhole, Image!Idle, Image!Range, Image!Last, Image!Whole
<1> QED BY <1>2, <1>3, <1>4, <1>5, <1>6, <1>7, <1>8 DEF ImageInv

\* A worker's own steps.
LEMMA WorkerSteps ==
    ASSUME ImageInv, NEW w \in Workers,
           \/ Image!NextLayer(w) \/ Image!Open(w)
           \/ Image!Extract(w, "first", 1, "second") \/ Image!Extract(w, "second", 2, "rename")
           \/ Image!Rename(w) \/ Image!Errs(w) \/ Image!Fail(w) \/ Image!Put(w) \/ Image!Done(w)
           \/ Image!WorkerDies(w)
    PROVE  ImageInv'
<1>0. /\ ImageType /\ RestLeft /\ OneUnpacks /\ TmpSound /\ AloneIsAlone /\ AloneComplete /\ ImagesWhole
      /\ layer \in [Image!Layers -> Parts] /\ img_tmp \in [Image!Layers -> Parts]
      /\ None \in Parts /\ {} \in Parts /\ Image!Whole \in Parts /\ {1} \in Parts
  BY DEF ImageInv, ImageType, Parts, Image!Whole
<1>1. puller[w] # Image!Idle /\ puller[w] \in Pulls /\ img_daemon' = img_daemon
  <2>1. puller[w] # Image!Idle
    BY <1>0, ImageFields DEF Image!NextLayer, Image!Open, Image!Extract, Image!Rename, Image!Errs,
          Image!Fail, Image!Put, Image!Done, Image!WorkerDies, PullAt, Unpacking
  <2>2. img_daemon' = img_daemon
    BY DEF Image!NextLayer, Image!Open, Image!Extract, Image!Rename, Image!Errs,
          Image!Fail, Image!Put, Image!Done, Image!WorkerDies
  <2> QED BY <1>0, <2>1, <2>2, ImageFields
<1>2. /\ puller[w].rest \in Seq(Image!Layers) /\ puller[w].at \in PullAt
      /\ Image!Rest(w) = puller[w].rest
  BY <1>0, <1>1, ImageFields DEF Image!Rest
<1>3. Unpacks(w) \/ puller[w].at = "failed" => puller[w].rest # <<>>
  BY <1>0 DEF RestLeft
<1>4. puller[w].rest # <<>> => Top(w) \in Image!Layers /\ Tail(puller[w].rest) \in Seq(Image!Layers)
  BY <1>2, LayersAhead DEF Top
\* The rest of a worker that leaves: it is no longer in anybody's way.
<1>5. ASSUME Image!SetWorker(w, Image!Idle), layer' = layer, excused' = excused,
             img_tmp' = img_tmp \/ (Top(w) \in Image!Layers /\ img_tmp' = [img_tmp EXCEPT ![Top(w)] = None])
      PROVE  ImageInv'
  <2>1. /\ img_tmp' \in [Image!Layers -> Parts]
        /\ \A l \in Image!Layers : img_tmp'[l] \in {img_tmp[l], None}
    BY <1>0, <1>5
  <2>2. Image!Idle.at \notin Unpacking \cup {"failed", "put"}
    BY DEF Image!Idle, Unpacking
  <2>3. \A v \in Workers : Unpacks(v) => Top(v) \in Image!Layers
    BY <1>0, ImageFields, LayersAhead DEF RestLeft, Unpacks, Top, PullAt
  <2> QED BY <1>0, <1>1, <1>5, <2>1, <2>2, <2>3, WorkerMoves
\* One that goes on to unpack the same layer, or fails at it.
<1>6. ASSUME NEW at \in Unpacking \cup {"failed"}, Image!Go(w, at), Unpacks(w),
             layer' = layer, excused' = excused, img_tmp' \in [Image!Layers -> Parts],
             \A l \in Image!Layers : l # Top(w) => img_tmp'[l] = img_tmp[l],
             Top(w) \notin excused /\ at # "failed" =>
                 img_tmp'[Top(w)] = None \/ (at # "open" /\ img_tmp'[Top(w)] = Unpacked(at))
      PROVE  ImageInv'
  <2> DEFINE r == [puller[w] EXCEPT !.at = at]
  <2>1. /\ r \in Pulls /\ r.at = at /\ r.rest = puller[w].rest /\ r.digest = puller[w].digest
        /\ r.alone = puller[w].alone
    BY <1>1, <1>6, PullGoes DEF PullAt
  <2>2. Image!SetWorker(w, r)
    BY <1>6 DEF Image!Go
  <2>3. at # "put"
    BY <1>6 DEF Unpacking
  <2> HIDE DEF r
  <2>4. \A v \in Workers : Unpacks(v) => Top(v) \in Image!Layers
    BY <1>0, ImageFields, LayersAhead DEF RestLeft, Unpacks, Top, PullAt
  <2>5. \A v \in Workers : v # w /\ Unpacks(v) /\ Top(v) = Top(w) => Top(w) \in excused
    BY <1>0, <1>6 DEF OneUnpacks
  <2>6. Head(r.rest) = Top(w) /\ r.rest # <<>>
    BY <1>3, <1>6, <2>1 DEF Top
  <2>7. \A v \in Workers : v # w /\ Unpacks(v) /\ Top(v) \notin excused' =>
               img_tmp'[Top(v)] \in {img_tmp[Top(v)], None}
    BY <1>6, <2>4, <2>5
  <2>8. r.at \in Unpacking /\ Head(r.rest) \notin excused' =>
               \/ img_tmp'[Head(r.rest)] = None
               \/ r.at # "open" /\ img_tmp'[Head(r.rest)] = Unpacked(r.at)
    BY <1>6, <2>1, <2>6 DEF Unpacking
  <2> QED BY <1>0, <1>1, <1>6, <2>1, <2>2, <2>3, <2>5, <2>6, <2>7, <2>8, WorkerMoves
\* One that goes on to another layer, or to the image's file.
<1>7. ASSUME NEW r \in Pulls, Image!SetWorker(w, r), r.at \in {"layer", "put"}, r.at = "put" => r.rest = <<>>,
             layer' \in [Image!Layers -> Parts], img_tmp' \in [Image!Layers -> Parts], excused' = excused,
             r.alone = puller[w].alone, r.digest = puller[w].digest,
             \A l \in Image!Layers : layer[l] # None \/ l \in Image!Range(puller[w].rest) =>
                 layer'[l] # None \/ l \in Image!Range(r.rest),
             \A l \in Image!Layers \ excused : layer'[l] \in {layer[l], Image!Whole},
             \A l \in Image!Layers : img_tmp'[l] \in {img_tmp[l], None}
      PROVE  ImageInv'
  <2>1. r.at \notin Unpacking \cup {"failed"}
    BY <1>7 DEF Unpacking
  <2>2. \A v \in Workers : Unpacks(v) => Top(v) \in Image!Layers
    BY <1>0, ImageFields, LayersAhead DEF RestLeft, Unpacks, Top, PullAt
  <2> QED BY <1>1, <1>7, <2>1, <2>2, WorkerMoves
<1>8. CASE Image!NextLayer(w)
  <2>1. puller[w].at = "layer" /\ puller[w].rest # <<>> /\ layer' = layer /\ Head(puller[w].rest) = Top(w)
    BY <1>2, <1>8 DEF Image!NextLayer, Top
  <2>2. CASE layer[Top(w)] # None
    <3> DEFINE r == [puller[w] EXCEPT !.rest = Tail(puller[w].rest)]
    <3>1. Image!SetWorker(w, r) /\ UNCHANGED <<img_tmp, excused>>
      BY <1>2, <1>8, <2>1, <2>2 DEF Image!NextLayer
    <3>2. /\ r \in Pulls /\ r.at = "layer" /\ r.rest = Tail(puller[w].rest) /\ r.digest = puller[w].digest
          /\ r.alone = puller[w].alone
      BY <1>1, <1>4, <2>1, PullGoes
    <3> HIDE DEF r
    <3>3. \A l \in Image!Range(puller[w].rest) : l = Top(w) \/ l \in Image!Range(r.rest)
      BY <1>2, <2>1, <3>2, LayersAhead
    <3> QED BY <1>0, <1>7, <2>1, <2>2, <3>1, <3>2, <3>3
  <2>3. CASE layer[Top(w)] = None
    <3> DEFINE r == [puller[w] EXCEPT !.at = "open"]
    <3>1. /\ Image!SetWorker(w, r) /\ img_tmp' = [img_tmp EXCEPT ![Top(w)] = None]
          /\ excused' = IF \E v \in Workers \ {w} :
                               /\ puller[v] # Image!Idle /\ puller[v].at \in Unpacking
                               /\ Head(Image!Rest(v)) = Top(w)
                        THEN excused \cup {Top(w)} ELSE excused
      BY <1>2, <1>8, <2>1, <2>3 DEF Image!NextLayer, Image!Go, Unpacking
    <3>2. /\ r \in Pulls /\ r.at = "open" /\ r.rest = puller[w].rest /\ r.digest = puller[w].digest
          /\ r.alone = puller[w].alone
      BY <1>1, PullGoes DEF PullAt, Unpacking
    <3> HIDE DEF r
    <3>3. Head(r.rest) = Top(w) /\ r.rest # <<>> /\ Top(w) \in Image!Layers
      BY <1>4, <2>1, <3>2
    <3>4. /\ img_tmp' \in [Image!Layers -> Parts] /\ img_tmp'[Top(w)] = None
          /\ \A l \in Image!Layers : img_tmp'[l] \in {img_tmp[l], None}
      BY <1>0, <3>1, <3>3
    <3>5. \A v \in Workers : v # w /\ Unpacks(v) /\ Top(v) = Top(w) => Top(w) \in excused'
      <4>1. \A v \in Workers : Unpacks(v) => puller[v] # Image!Idle /\ Head(Image!Rest(v)) = Top(v)
        BY <1>0, ImageFields DEF Unpacks, Top, Image!Rest, PullAt
      <4> QED BY <3>1, <4>1 DEF Unpacks
    <3>6. excused \subseteq excused'
      BY <3>1
    <3>7. \A v \in Workers : Unpacks(v) => Top(v) \in Image!Layers
      BY <1>0, ImageFields, LayersAhead DEF RestLeft, Unpacks, Top, PullAt
    <3> QED BY <1>0, <1>1, <2>1, <3>1, <3>2, <3>3, <3>4, <3>5, <3>6, <3>7, WorkerMoves
  <2> QED BY <2>2, <2>3
<1>9. CASE Image!Open(w)
  <2>1. /\ puller[w].at = "open" /\ Unpacks(w) /\ layer' = layer /\ excused' = excused /\ Image!Go(w, "first")
        /\ img_tmp' = [img_tmp EXCEPT ![Top(w)] = IF img_tmp[Top(w)] = None THEN {} ELSE img_tmp[Top(w)]]
    BY <1>2, <1>9 DEF Image!Open, Unpacks, Unpacking, Top
  <2>2. Top(w) \in Image!Layers
    BY <1>3, <1>4, <2>1
  <2>3. Top(w) \notin excused => img_tmp[Top(w)] = None
    BY <1>0, <2>1 DEF TmpSound
  <2>4. /\ img_tmp' \in [Image!Layers -> Parts]
        /\ \A l \in Image!Layers : l # Top(w) => img_tmp'[l] = img_tmp[l]
        /\ Top(w) \notin excused => img_tmp'[Top(w)] = {}
    BY <1>0, <2>1, <2>2, <2>3
  <2>5. Unpacked("first") = {} /\ "first" \in Unpacking
    BY DEF Unpacked, Unpacking
  <2> QED BY <1>6, <2>1, <2>4, <2>5
<1>10. ASSUME NEW at \in {"first", "second"}, NEW next, NEW file,
              (at = "first" /\ next = "second" /\ file = 1) \/ (at = "second" /\ next = "rename" /\ file = 2),
              Image!Extract(w, at, file, next)
       PROVE  ImageInv'
  <2>1. puller[w].at = at /\ Unpacks(w) /\ layer' = layer /\ excused' = excused
    BY <1>10 DEF Image!Extract, Unpacks, Unpacking
  <2>2. Top(w) \in Image!Layers
    BY <1>3, <1>4, <2>1
  <2>3. CASE img_tmp[Top(w)] = None
    <3>1. Image!Go(w, "failed") /\ img_tmp' = img_tmp
      BY <1>2, <1>10, <2>3 DEF Image!Extract, Top
    <3> QED BY <1>0, <1>6, <2>1, <3>1
  <2>4. CASE img_tmp[Top(w)] # None
    <3>1. Image!Go(w, next) /\ img_tmp' = [img_tmp EXCEPT ![Top(w)] = img_tmp[Top(w)] \cup {file}]
      BY <1>2, <1>10, <2>4 DEF Image!Extract, Top
    <3>2. img_tmp[Top(w)] \in SUBSET Image!Whole /\ file \in Image!Whole
      BY <1>0, <1>10, <2>2, <2>4 DEF Parts, Image!Whole
    <3>3. img_tmp[Top(w)] \cup {file} \in Parts
      BY <3>2 DEF Parts
    <3>4. /\ img_tmp' \in [Image!Layers -> Parts]
          /\ \A l \in Image!Layers : l # Top(w) => img_tmp'[l] = img_tmp[l]
          /\ img_tmp'[Top(w)] = img_tmp[Top(w)] \cup {file}
      BY <1>0, <2>2, <3>1, <3>3
    <3>5. Top(w) \notin excused => img_tmp[Top(w)] = Unpacked(at)
      BY <1>0, <2>1, <2>4 DEF TmpSound
    <3>6. Unpacked(next) = Unpacked(at) \cup {file} /\ next \in Unpacking /\ next # "open"
      BY <1>10 DEF Unpacked, Unpacking, Image!Whole
    <3> QED BY <1>6, <2>1, <3>1, <3>4, <3>5, <3>6
  <2> QED BY <2>3, <2>4
<1>11. CASE Image!Rename(w)
  <2>1. puller[w].at = "rename" /\ Unpacks(w) /\ excused' = excused
    BY <1>11 DEF Image!Rename, Unpacks, Unpacking
  <2>2. Top(w) \in Image!Layers /\ puller[w].rest # <<>>
    BY <1>3, <1>4, <2>1
  <2>3. CASE img_tmp[Top(w)] = None \/ layer[Top(w)] \notin {None, {}}
    <3>1. Image!SetWorker(w, Image!Idle) /\ img_tmp' = img_tmp /\ layer' = layer
      BY <1>2, <1>11, <2>3 DEF Image!Rename, Top
    <3> QED BY <1>5, <2>1, <3>1
  <2>4. CASE ~(img_tmp[Top(w)] = None \/ layer[Top(w)] \notin {None, {}})
    <3> DEFINE r == [puller[w] EXCEPT !.at = "layer", !.rest = Tail(puller[w].rest)]
    <3>1. /\ layer' = [layer EXCEPT ![Top(w)] = img_tmp[Top(w)]]
          /\ img_tmp' = [img_tmp EXCEPT ![Top(w)] = None] /\ Image!SetWorker(w, r)
      BY <1>2, <1>11, <2>4 DEF Image!Rename, Top
    <3>2. /\ r \in Pulls /\ r.at = "layer" /\ r.rest = Tail(puller[w].rest) /\ r.digest = puller[w].digest
          /\ r.alone = puller[w].alone
      BY <1>1, <1>4, <2>2, PullGoes DEF Pulls, PullAt
    <3> HIDE DEF r
    <3>3. \A l \in Image!Range(puller[w].rest) : l = Top(w) \/ l \in Image!Range(r.rest)
      BY <1>2, <2>2, <3>2, LayersAhead DEF Top
    <3>4. /\ layer' \in [Image!Layers -> Parts] /\ img_tmp' \in [Image!Layers -> Parts]
          /\ \A l \in Image!Layers : img_tmp'[l] \in {img_tmp[l], None}
          /\ \A l \in Image!Layers : layer'[l] = IF l = Top(w) THEN img_tmp[Top(w)] ELSE layer[l]
      BY <1>0, <2>2, <3>1
    <3>5. Top(w) \notin excused => img_tmp[Top(w)] = Image!Whole
      BY <1>0, <2>1, <2>4 DEF TmpSound, Unpacked
    <3> QED BY <1>7, <2>1, <2>4, <3>1, <3>2, <3>3, <3>4, <3>5
  <2> QED BY <2>3, <2>4
<1>12. CASE Image!Errs(w)
  <2>1. /\ Unpacks(w) /\ Image!Go(w, "failed") /\ img_tmp' = img_tmp /\ layer' = layer
        /\ excused' = excused
    BY <1>12 DEF Image!Errs, Unpacks, Unpacking
  <2> QED BY <1>0, <1>6, <2>1
<1>13. CASE Image!Put(w)
  <2> DEFINE r == [puller[w] EXCEPT !.at = "put"]
  <2>1. /\ Image!SetWorker(w, r) /\ puller[w].rest = <<>> /\ img_tmp' = img_tmp /\ layer' = layer
        /\ excused' = excused
    BY <1>2, <1>13 DEF Image!Put, Image!Go
  <2>2. /\ r \in Pulls /\ r.at = "put" /\ r.rest = puller[w].rest /\ r.digest = puller[w].digest
        /\ r.alone = puller[w].alone
    BY <1>1, PullGoes DEF PullAt
  <2> HIDE DEF r
  <2> QED BY <1>0, <1>7, <2>1, <2>2
<1>14. CASE Image!Fail(w)
  <2>1. /\ puller[w].at = "failed" /\ Image!SetWorker(w, Image!Idle) /\ layer' = layer /\ excused' = excused
        /\ img_tmp' = [img_tmp EXCEPT ![Top(w)] = None]
    BY <1>2, <1>14 DEF Image!Fail, Top
  <2> QED BY <1>3, <1>4, <1>5, <2>1
<1>15. CASE Image!Done(w) \/ Image!WorkerDies(w)
  <2>1. /\ Image!SetWorker(w, Image!Idle) /\ layer' = layer /\ excused' = excused /\ img_tmp' = img_tmp
    BY <1>15 DEF Image!Done, Image!WorkerDies
  <2> QED BY <1>5, <2>1
<1>16. /\ Image!Extract(w, "first", 1, "second") => ImageInv'
       /\ Image!Extract(w, "second", 2, "rename") => ImageInv'
  BY <1>10
<1> QED BY <1>8, <1>9, <1>11, <1>12, <1>13, <1>14, <1>15, <1>16

\* A request that is noted leaves nobody alone, and the rest of the workers as it was.
LEMMA AllNoted ==
    ASSUME ImageInv, NEW others \in SUBSET Workers, puller' \in [Workers -> Pulls \cup {Image!Idle}],
           \A v \in others : puller'[v] = Image!Noted(Workers)[v],
           \A v \in Workers \ others :
               /\ puller'[v] \in Pulls /\ puller'[v].at = "layer"
               /\ puller'[v].alone => \A u \in Workers : puller[u] = Image!Idle,
           \A v \in Workers \ others : puller'[v].alone =>
               /\ img_daemon' = Image!Idle /\ Workers \ others = {v}
               /\ puller'[v].rest = LayersOf[puller'[v].digest],
           img_tmp' = img_tmp, excused' = excused, layer' \in [Image!Layers -> Parts],
           \/ img_daemon' = Image!Idle \/ IsPrune(img_daemon')
           \/ img_daemon' \in [at : {"commit", "put"}, name : Images],
           \A l \in Image!Layers \ excused :
               layer'[l] \in {None, Image!Whole}
               \/ (img_daemon'.at = "commit" /\ l = Image!Last(LayersOf[Committed]))
    PROVE  ImageInv'
<1>0. /\ ImageType /\ RestLeft /\ OneUnpacks /\ TmpSound
      /\ img_tmp \in [Image!Layers -> Parts] /\ puller \in [Workers -> Pulls \cup {Image!Idle}]
  BY DEF ImageInv, ImageType
<1>1. \A v \in others :
        /\ puller[v] = Image!Idle => puller'[v] = Image!Idle
        /\ puller[v] # Image!Idle => /\ puller'[v] \in Pulls /\ puller'[v].at = puller[v].at
                                     /\ puller'[v].rest = puller[v].rest /\ ~puller'[v].alone
  <2> SUFFICES ASSUME NEW v \in others
               PROVE  /\ puller[v] = Image!Idle => puller'[v] = Image!Idle
                      /\ puller[v] # Image!Idle =>
                           /\ puller'[v] \in Pulls /\ puller'[v].at = puller[v].at
                           /\ puller'[v].rest = puller[v].rest /\ ~puller'[v].alone
    OBVIOUS
  <2>1. puller'[v] = IF puller[v] # Image!Idle THEN [puller[v] EXCEPT !.alone = FALSE] ELSE puller[v]
    BY DEF Image!Noted
  <2>2. CASE puller[v] # Image!Idle
    <3>1. puller[v] \in Pulls
      BY <1>0, <2>2
    <3>2. LET p == [puller[v] EXCEPT !.alone = FALSE] IN
            p \in Pulls /\ p.at = puller[v].at /\ p.rest = puller[v].rest /\ ~p.alone
      BY <3>1, PullGoes
    <3> QED BY <2>1, <2>2, <3>2
  <2>3. CASE puller[v] = Image!Idle
    BY <2>1, <2>3
  <2> QED BY <2>2, <2>3
<1>2. \A v \in others : puller'[v].at = puller[v].at /\ (Unpacks(v)' <=> Unpacks(v))
  BY <1>1 DEF Unpacks
<1>3. \A v \in Workers : Unpacks(v)' => /\ v \in others /\ Unpacks(v) /\ puller[v] # Image!Idle
                                        /\ Top(v)' = Top(v)
  <2> SUFFICES ASSUME NEW v \in Workers, Unpacks(v)'
               PROVE  v \in others /\ Unpacks(v) /\ puller[v] # Image!Idle /\ Top(v)' = Top(v)
    OBVIOUS
  <2>1. v \in others
    BY DEF Unpacks, Unpacking
  <2>2. Unpacks(v) /\ puller[v] # Image!Idle
    BY <1>0, <1>2, <2>1, ImageFields DEF Unpacks, PullAt
  <2> QED BY <1>1, <2>1, <2>2 DEF Top
<1>4. ImageType'
  BY <1>0 DEF ImageType, Image!Idle
<1>5. RestLeft'
  <2> SUFFICES ASSUME NEW v \in Workers
               PROVE  /\ Unpacks(v)' \/ puller'[v].at = "failed" => puller'[v].rest # <<>>
                      /\ puller'[v].at = "put" => puller'[v].rest = <<>>
    BY DEF RestLeft
  <2>1. CASE v \in others /\ puller[v] # Image!Idle
    BY <1>0, <1>1, <1>2, <2>1 DEF RestLeft
  <2>2. CASE v \in others /\ puller[v] = Image!Idle
    BY <1>1, <2>2 DEF Unpacks, Unpacking, Image!Idle
  <2>3. CASE v \notin others
    BY <2>3 DEF Unpacks, Unpacking
  <2> QED BY <2>1, <2>2, <2>3
<1>6. OneUnpacks'
  BY <1>0, <1>3 DEF OneUnpacks
<1>7. TmpSound'
  <2> SUFFICES ASSUME NEW v \in Workers, Unpacks(v)', Top(v)' \notin excused'
               PROVE  (\/ img_tmp[Top(v)] = None
                       \/ puller[v].at # "open" /\ img_tmp[Top(v)] = Unpacked(puller[v].at))'
    BY DEF TmpSound
  <2>1. /\ Unpacks(v) /\ Top(v)' = Top(v) /\ Top(v) \notin excused /\ puller'[v].at = puller[v].at
    BY <1>2, <1>3
  <2>2. \/ img_tmp[Top(v)] = None
        \/ puller[v].at # "open" /\ img_tmp[Top(v)] = Unpacked(puller[v].at)
    BY <1>0, <2>1 DEF TmpSound
  <2> QED BY <2>1, <2>2 DEF Unpacked, Image!Whole
<1>8. \A v \in Workers : puller'[v] # Image!Idle /\ puller'[v].alone => v \notin others
  BY <1>1
<1>9. AloneIsAlone'
  BY <1>1, <1>8 DEF AloneIsAlone, Image!Idle
<1>10. AloneComplete'
  BY <1>8 DEF AloneComplete, Image!Idle, Image!Range
<1>11. ImagesWhole'
  BY <1>8 DEF ImagesWhole, Image!ImagesWhole, Image!Idle, Image!Range, Image!Last, Image!Whole
<1> QED BY <1>4, <1>5, <1>6, <1>7, <1>9, <1>10, <1>11 DEF ImageInv

\* A pull begins, and the daemon's requests.
LEMMA RequestSteps ==
    ASSUME ImageInv,
           \/ \E n \in Images, w \in Workers, d \in Digests, policy \in {"missing", "always", "import"} :
                Image!Begin(w, n, policy, d)
           \/ \E n \in Images : Image!Delete(n) \/ Image!Commit(n)
           \/ Image!Prune
    PROVE  ImageInv'
<1>0. /\ ImageType /\ ImagesWhole
      /\ layer \in [Image!Layers -> Parts] /\ puller \in [Workers -> Pulls \cup {Image!Idle}]
      /\ \/ img_daemon = Image!Idle \/ IsPrune(img_daemon)
         \/ img_daemon \in [at : {"commit", "put"}, name : Images]
      /\ Image!Idle.at = "idle"
  BY DEF ImageInv, ImageType, Image!Idle
<1>1. /\ Image!Noted(Workers) \in [Workers -> Pulls \cup {Image!Idle}]
      /\ \A v \in Workers : puller[v] = Image!Idle => Image!Noted(Workers)[v] = Image!Idle
  BY <1>0, PullGoes DEF Image!Noted
<1>2. img_daemon = Image!Idle =>
        \A l \in Image!Layers \ excused : layer[l] \in {None, Image!Whole}
  BY <1>0 DEF ImagesWhole, Image!ImagesWhole
<1>3. ASSUME NEW n \in Images, NEW w \in Workers, NEW d \in Digests, NEW policy, Image!Begin(w, n, policy, d)
      PROVE  ImageInv'
  <2> DEFINE r == [at |-> "layer", name |-> n, digest |-> d, rest |-> LayersOf[d],
                   alone |-> img_daemon = Image!Idle /\ \A v \in Workers : puller[v] = Image!Idle]
  <2>1. /\ puller[w] = Image!Idle /\ puller' = [Image!Noted(Workers) EXCEPT ![w] = r]
        /\ layer' = layer /\ img_tmp' = img_tmp /\ excused' = excused /\ img_daemon' = img_daemon
    BY <1>3 DEF Image!Begin
  <2>2. /\ r \in Pulls /\ r.at = "layer" /\ r.rest = LayersOf[r.digest]
        /\ r.alone => img_daemon = Image!Idle /\ \A v \in Workers : puller[v] = Image!Idle
    BY NodeAssumption DEF Pulls, PullAt
  <2> HIDE DEF r
  <2>3. /\ puller' \in [Workers -> Pulls \cup {Image!Idle}] /\ puller'[w] = r
        /\ \A v \in Workers \ {w} : puller'[v] = Image!Noted(Workers)[v]
    BY <1>1, <2>1, <2>2
  <2>4. \A l \in Image!Layers \ excused :
          layer'[l] \in {None, Image!Whole}
          \/ (img_daemon'.at = "commit" /\ l = Image!Last(LayersOf[Committed]))
    BY <1>0, <2>1 DEF ImagesWhole, Image!ImagesWhole
  <2>5. Workers \ (Workers \ {w}) = {w} /\ Workers \ {w} \in SUBSET Workers
    OBVIOUS
  <2> QED BY <1>0, <2>1, <2>2, <2>3, <2>4, <2>5, AllNoted
\* The daemon's requests are noted for everybody.
<1>4. ASSUME puller' = Image!Noted(Workers), img_tmp' = img_tmp, excused' = excused,
             layer' \in [Image!Layers -> Parts],
             \/ img_daemon' = Image!Idle \/ IsPrune(img_daemon')
             \/ img_daemon' \in [at : {"commit", "put"}, name : Images],
             \A l \in Image!Layers \ excused :
                 layer'[l] \in {None, Image!Whole}
                 \/ (img_daemon'.at = "commit" /\ l = Image!Last(LayersOf[Committed]))
      PROVE  ImageInv'
  <2>1. Workers \ Workers = {} /\ Workers \in SUBSET Workers
    OBVIOUS
  <2> QED BY <1>1, <1>4, <2>1, AllNoted
<1>5. CASE \E n \in Images : Image!Delete(n)
  BY <1>0, <1>2, <1>4, <1>5 DEF Image!Delete
<1>6. CASE Image!Prune
  <2>1. /\ img_daemon = Image!Idle /\ IsPrune(img_daemon') /\ puller' = Image!Noted(Workers)
        /\ layer' = layer /\ img_tmp' = img_tmp /\ excused' = excused
    BY <1>6 DEF Image!Prune, IsPrune
  <2> QED BY <1>0, <1>2, <1>4, <2>1
<1>7. ASSUME NEW n \in Images, Image!Commit(n) PROVE ImageInv'
  <2> DEFINE top == Image!Last(LayersOf[Committed])
  <2>1. top \in Image!Layers
    BY NodeAssumption DEF Image!Last
  <2>2. /\ img_daemon = Image!Idle /\ puller' = Image!Noted(Workers) /\ img_tmp' = img_tmp
        /\ excused' = excused
        /\ \/ layer' = layer /\ img_daemon' = [at |-> "put", name |-> n]
           \/ layer' = [layer EXCEPT ![top] = {1}] /\ img_daemon' = [at |-> "commit", name |-> n]
    BY <1>7 DEF Image!Commit
  <2> HIDE DEF top
  <2>3. {1} \in Parts
    BY DEF Parts, Image!Whole
  <2>4. CASE layer' = layer /\ img_daemon' = [at |-> "put", name |-> n]
    <3>1. img_daemon' \in [at : {"commit", "put"}, name : Images]
      BY <2>4
    <3> QED BY <1>0, <1>2, <1>4, <2>2, <2>4, <3>1
  <2>5. CASE layer' = [layer EXCEPT ![top] = {1}] /\ img_daemon' = [at |-> "commit", name |-> n]
    <3>1. img_daemon' \in [at : {"commit", "put"}, name : Images] /\ img_daemon'.at = "commit"
      BY <2>5
    <3>2. layer' \in [Image!Layers -> Parts] /\ \A l \in Image!Layers : l # top => layer'[l] = layer[l]
      BY <1>0, <2>1, <2>3, <2>5
    <3> QED BY <1>2, <1>4, <2>2, <3>1, <3>2 DEF top
  <2> QED BY <2>2, <2>4, <2>5
<1> QED BY <1>3, <1>5, <1>6, <1>7

\* The daemon goes on with a request, or dies in it.
LEMMA DaemonSteps ==
    ASSUME ImageInv, Image!PruneOne \/ Image!CommitRest \/ Image!CommitPut \/ Image!HalfWay
    PROVE  ImageInv'
<1>0. /\ ImageType /\ RestLeft /\ OneUnpacks /\ TmpSound /\ AloneIsAlone /\ ImagesWhole
      /\ layer \in [Image!Layers -> Parts] /\ puller \in [Workers -> Pulls \cup {Image!Idle}]
      /\ \/ img_daemon = Image!Idle \/ IsPrune(img_daemon)
         \/ img_daemon \in [at : {"commit", "put"}, name : Images]
  BY DEF ImageInv, ImageType
<1>1. puller' = puller /\ img_tmp' = img_tmp /\ img_daemon # Image!Idle
  BY DEF Image!PruneOne, Image!CommitRest, Image!CommitPut, Image!HalfWay, Image!Idle
<1>2. \A w \in Workers : puller[w] # Image!Idle => ~puller[w].alone
  BY <1>0, <1>1 DEF AloneIsAlone
<1>3. ASSUME layer' \in [Image!Layers -> Parts], excused \subseteq excused',
             \/ img_daemon' = Image!Idle \/ IsPrune(img_daemon')
             \/ img_daemon' \in [at : {"commit", "put"}, name : Images],
             \A l \in Image!Layers \ excused' :
                 layer'[l] \in {None, Image!Whole}
                 \/ (img_daemon'.at = "commit" /\ l = Image!Last(LayersOf[Committed]))
      PROVE  ImageInv'
  <2>1. ImageType'
    BY <1>0, <1>1, <1>3 DEF ImageType, Image!Idle
  <2>2. RestLeft' /\ OneUnpacks'
    BY <1>0, <1>1, <1>3 DEF RestLeft, OneUnpacks, Unpacks, Top
  <2>3. TmpSound'
    BY <1>0, <1>1, <1>3 DEF TmpSound, Unpacks, Top, Unpacked, Image!Whole
  <2>4. AloneIsAlone' /\ AloneComplete'
    BY <1>1, <1>2 DEF AloneIsAlone, AloneComplete, Image!Idle
  <2>5. ImagesWhole'
    BY <1>1, <1>2, <1>3 DEF ImagesWhole, Image!ImagesWhole, Image!Idle, Image!Last, Image!Whole
  <2> QED BY <2>1, <2>2, <2>3, <2>4, <2>5 DEF ImageInv
<1>4. \A l \in Image!Layers \ excused :
        layer[l] \in {None, Image!Whole}
        \/ (img_daemon.at = "commit" /\ l = Image!Last(LayersOf[Committed]))
  BY <1>0 DEF ImagesWhole, Image!ImagesWhole
<1>5. None \in Parts /\ Image!Whole \in Parts /\ {2} \in Parts /\ Image!Idle.at = "idle"
  BY DEF Parts, Image!Whole, Image!Idle
<1>6. Image!Last(LayersOf[Committed]) \in Image!Layers
  BY NodeAssumption DEF Image!Last
<1>7. CASE Image!PruneOne
  <2>1. /\ img_daemon.at = "prune" /\ (IsPrune(img_daemon') \/ img_daemon' = Image!Idle)
        /\ excused' = excused
        /\ layer' = layer \/ \E l \in Image!Layers : layer' = [layer EXCEPT ![l] = None]
    BY <1>0, <1>1, <1>7 DEF Image!PruneOne, IsPrune, Image!Idle
  <2>2. layer' \in [Image!Layers -> Parts] /\ \A l \in Image!Layers : layer'[l] \in {layer[l], None}
    BY <1>0, <1>5, <2>1
  <2> QED BY <1>3, <1>4, <2>1, <2>2
<1>8. CASE Image!CommitRest
  <2>1. /\ img_daemon.at = "commit" /\ img_daemon' = [img_daemon EXCEPT !.at = "put"] /\ excused' = excused
        /\ layer' = [layer EXCEPT ![Image!Last(LayersOf[Committed])] = Image!Whole]
    BY <1>8 DEF Image!CommitRest
  <2>2. img_daemon' \in [at : {"commit", "put"}, name : Images]
    BY <1>0, <1>1, <2>1 DEF IsPrune, Image!Idle
  <2>3. /\ layer' \in [Image!Layers -> Parts] /\ layer'[Image!Last(LayersOf[Committed])] = Image!Whole
        /\ \A l \in Image!Layers : l # Image!Last(LayersOf[Committed]) => layer'[l] = layer[l]
    BY <1>0, <1>5, <1>6, <2>1
  <2> QED BY <1>3, <1>4, <2>1, <2>2, <2>3
<1>9. CASE Image!CommitPut
  <2>1. img_daemon.at = "put" /\ img_daemon' = Image!Idle /\ excused' = excused /\ layer' = layer
    BY <1>9 DEF Image!CommitPut
  <2> QED BY <1>0, <1>3, <1>4, <2>1
<1>10. CASE Image!HalfWay
  <2>1. img_daemon' = Image!Idle
    BY <1>10 DEF Image!HalfWay
  <2>2. CASE /\ img_daemon.at = "prune"
             /\ \E l \in Image!Layers : layer' = [layer EXCEPT ![l] = {2}] /\ excused' = excused \cup {l}
    <3>1. PICK l \in Image!Layers : layer' = [layer EXCEPT ![l] = {2}] /\ excused' = excused \cup {l}
      BY <2>2
    <3>2. layer' \in [Image!Layers -> Parts] /\ \A k \in Image!Layers : k # l => layer'[k] = layer[k]
      BY <1>0, <1>5, <3>1
    <3> QED BY <1>3, <1>4, <2>1, <2>2, <3>1, <3>2
  <2>3. CASE /\ img_daemon.at = "commit" /\ layer' = layer
             /\ excused' = excused \cup {Image!Last(LayersOf[Committed])}
    BY <1>0, <1>3, <1>4, <2>1, <2>3
  <2>4. CASE img_daemon.at = "put" /\ layer' = layer /\ excused' = excused
    BY <1>0, <1>3, <1>4, <2>1, <2>4
  <2> QED BY <1>10, <2>2, <2>3, <2>4 DEF Image!HalfWay
<1> QED BY <1>7, <1>8, <1>9, <1>10

\* A directory with the name of a layer holds all of it unless two workers extracted it
\* at once, or a commit or a prune of it failed or died half way; and a pull that nobody
\* disturbs leaves an image with all of its layers, whatever failed or died before.
THEOREM ImagesStayWhole == NodeSpec => []ImagesWhole
<1>1. NodeInit => ImageInv
  <2> SUFFICES ASSUME NodeInit PROVE ImageInv
    OBVIOUS
  <2>1. /\ layer = [l \in Image!Layers |-> None] /\ img_tmp = [l \in Image!Layers |-> None]
        /\ puller = [w \in Workers |-> Image!Idle] /\ img_daemon = Image!Idle
    BY DEF NodeInit, Image!Init
  <2>2. Image!Idle.at \notin Unpacking \cup {"failed", "put"}
    BY DEF Image!Idle, Unpacking
  <2>3. ImageType
    BY <2>1 DEF ImageType, Parts
  <2>4. RestLeft /\ OneUnpacks /\ TmpSound /\ AloneIsAlone /\ AloneComplete
    BY <2>1, <2>2 DEF RestLeft, OneUnpacks, TmpSound, AloneIsAlone, AloneComplete, Unpacks
  <2>5. ImagesWhole
    BY <2>1 DEF ImagesWhole, Image!ImagesWhole
  <2> QED BY <2>3, <2>4, <2>5 DEF ImageInv
<1>2. ImageInv /\ [NodeNext]_nodeVars => ImageInv'
  <2> SUFFICES ASSUME ImageInv, [NodeNext]_nodeVars PROVE ImageInv'
    OBVIOUS
  <2>1. CASE ImageStep
    BY <2>1, WorkerSteps, RequestSteps, DaemonSteps
       DEF ImageStep, Image!Next, Image!RequestFails, Image!DaemonDies
  <2>2. CASE UNCHANGED images
    <3>1. UNCHANGED <<layer, img_tmp, puller, img_daemon, excused>>
      BY <2>2 DEF images
    <3> QED BY <3>1 DEF ImageInv, ImageType, RestLeft, OneUnpacks, TmpSound, AloneIsAlone, AloneComplete,
                Unpacks, Top, Unpacked, ImagesWhole, Image!ImagesWhole, Image!Idle, Image!Whole
  <2>3. ImageStep \/ UNCHANGED images
    BY DEF NodeNext, SecretsStep, StoreStep, ExecStep, LogStep, nodeVars, images
  <2> QED BY <2>1, <2>2, <2>3
<1>3. ImageInv => ImagesWhole
  BY DEF ImageInv
<1> QED BY <1>1, <1>2, <1>3, PTL DEF NodeSpec

-----------------------------------------------------------------------------
(* Following the log of a container.                                       *)

\* The lines of a log, in the order in which they were written.
Ordered(s) == Log!Increasing(s) /\ \A i \in DOMAIN s : s[i] \in 1..written

\* The stamp of a line, and whether it has one.
StampOf(line) == stamps[line]
Stamped(line) == line \in 1..written /\ StampOf(line) \in Nat

Followers ==
    [at : {"first", "check", "read", "done", "failed"}, by : {"cli", "gateway"},
     follow : BOOLEAN, tail : {None, 1}, source : {"Auto", "Captured", "Pebble"},
     offset : Nat \cup {None}, running : BOOLEAN, out : Seq(Nat), life : Nat, since : Int,
     due : Nat]

LogType ==
    /\ written \in Nat /\ named \in Nat /\ running \in BOOLEAN
    /\ captured \in Seq(Nat) /\ pebble \in Seq(Nat) /\ follower \in Followers
    /\ Ordered(captured) /\ Ordered(pebble)
    /\ \A i \in DOMAIN pebble : Stamped(pebble[i])
    /\ \A i \in DOMAIN follower.out : follower.out[i] \in 1..written
    /\ stamps \in Seq(Nat \cup {None}) /\ Len(stamps) = written

\* The follower's place.  It looks at a container that had the name at most as late as
\* the one that has it.
Placed ==
    /\ follower.life <= named
    /\ follower.at = "first" => follower.offset = None
    /\ follower.offset = None => follower.out = <<>> /\ follower.at \in {"first", "failed"}
    /\ follower.offset # None => follower.source \in {"Captured", "Pebble"}

Same == follower.life = named /\ stored

\* A follower of the captured log has printed a stretch of it, up to its offset.
CapturedTo ==
    follower.offset # None /\ follower.source = "Captured" =>
        /\ Log!Increasing(follower.out)
        /\ \A i \in DOMAIN captured : i > follower.offset =>
              \A j \in DOMAIN follower.out : follower.out[j] < captured[i]
        /\ Same =>
              /\ follower.since \in 0..follower.offset /\ follower.offset <= Len(captured)
              /\ follower.out = SubSeq(captured, follower.since + 1, follower.offset)
              /\ follower.at = "done" /\ follower.follow => follower.offset >= follower.due

\* When the container was seen down there was no more than there is now.
DueIsThere == Same => follower.due <= Len(captured)

Out == {follower.out[j] : j \in DOMAIN follower.out}
InOrder == follower.tail = None \/ Log!NeverBack

\* A follower of Pebble has printed nothing later than its offset, which is the stamp of a
\* line that it has printed.
Reached ==
    /\ follower.offset \in Nat
    /\ \A x \in Out : Stamped(x) /\ StampOf(x) > 0 /\ StampOf(x) <= follower.offset
    /\ follower.offset = 0 \/ \E x \in Out : StampOf(x) = follower.offset

\* What comes before a line that it has printed, it has printed or never will.
Behind ==
    InOrder => /\ Log!Increasing(follower.out)
               /\ \A i \in DOMAIN pebble, x \in Out :
                     pebble[i] < x => StampOf(pebble[i]) <= follower.offset

\* An entry was skipped for a line printed before it, with a stamp not below its own.
SkippedFor ==
    \A i \in DOMAIN pebble :
        pebble[i] \notin Out /\ StampOf(pebble[i]) <= follower.offset
            /\ (\E x \in Out : x < pebble[i])
        => \E x \in Out : x < pebble[i] /\ StampOf(x) >= StampOf(pebble[i])

PebbleTo ==
    follower.offset # None /\ follower.source = "Pebble" =>
        /\ Reached /\ Behind /\ SkippedFor
        /\ \A i, j \in DOMAIN follower.out : i # j => follower.out[i] # follower.out[j]

LogInv == LogType /\ Placed /\ CapturedTo /\ DueIsThere /\ PebbleTo

\* A sequence that increases has no element twice.
LEMMA IncreasingDistinct ==
    ASSUME NEW s \in Seq(Nat), Log!Increasing(s)
    PROVE  \A i, j \in DOMAIN s : i # j => s[i] # s[j]
<1> SUFFICES ASSUME NEW i \in DOMAIN s, NEW j \in DOMAIN s, i # j PROVE s[i] # s[j]
  OBVIOUS
<1>1. i \in Nat /\ j \in Nat /\ s[i] \in Nat /\ s[j] \in Nat
  OBVIOUS
<1>2. i < j \/ j < i
  BY <1>1
<1> QED BY <1>1, <1>2 DEF Log!Increasing

\* The elements of a sequence are those it contains.
LEMMA OutContains ==
    ASSUME LogType, NEW e
    PROVE  Log!Contains(follower.out, e) <=> e \in Out
<1>1. follower.out \in Seq(Nat) /\ DOMAIN follower.out = 1..Len(follower.out)
  BY DEF LogType, Followers
<1> QED BY <1>1 DEF Log!Contains, Out

\* The invariant of the logs is enough.
LEMMA LogImplies == LogInv => FollowsWhole
<1> SUFFICES ASSUME LogInv PROVE FollowsWhole
  OBVIOUS
<1>1. /\ follower.out \in Seq(Nat) /\ pebble \in Seq(Nat) /\ LogType /\ Ordered(pebble)
      /\ follower.offset = None => follower.out = <<>>
      /\ follower.offset # None => follower.source \in {"Captured", "Pebble"}
      /\ follower.source \in {"Auto", "Captured", "Pebble"}
  BY DEF LogInv, LogType, Followers, Placed
<1>2. CASE follower.offset = None
  BY <1>1, <1>2 DEF FollowsWhole, Log!FollowsWhole, Log!Increasing
<1>3. CASE follower.offset # None /\ follower.source = "Captured"
  <2>1. \A i, j \in DOMAIN follower.out : i # j => follower.out[i] # follower.out[j]
    BY <1>1, <1>3, IncreasingDistinct DEF LogInv, CapturedTo
  <2> QED BY <1>3, <2>1 DEF FollowsWhole, Log!FollowsWhole, LogInv, CapturedTo, Same
<1>4. CASE follower.offset # None /\ follower.source = "Pebble"
  <2>1. /\ Behind /\ SkippedFor /\ Reached
        /\ \A i, j \in DOMAIN follower.out : i # j => follower.out[i] # follower.out[j]
    BY <1>4 DEF LogInv, PebbleTo
  <2>2. ASSUME NEW i \in DOMAIN pebble, NEW j \in DOMAIN pebble, i < j,
               Log!Contains(follower.out, pebble[i]), stamps[pebble[j]] <= follower.offset,
               \A k \in DOMAIN follower.out :
                  follower.out[k] < pebble[j] => stamps[follower.out[k]] < stamps[pebble[j]]
        PROVE  Log!Contains(follower.out, pebble[j])
    <3>1. pebble[i] \in Out /\ pebble[i] < pebble[j]
      BY <1>1, <2>2, OutContains DEF Ordered, Log!Increasing
    <3> SUFFICES ASSUME pebble[j] \notin Out PROVE FALSE
      BY <1>1, OutContains
    <3>2. PICK x \in Out : x < pebble[j] /\ StampOf(x) >= StampOf(pebble[j])
      BY <2>1, <2>2, <3>1 DEF SkippedFor, StampOf
    <3>3. StampOf(x) < StampOf(pebble[j])
      BY <2>2, <3>2 DEF Out, StampOf
    <3>4. StampOf(x) \in Nat /\ StampOf(pebble[j]) \in Nat
      BY <1>1, <2>1 DEF Reached, Stamped, LogType
    <3> QED BY <3>2, <3>3, <3>4
  <2> QED BY <1>4, <2>1, <2>2 DEF FollowsWhole, Log!FollowsWhole, Behind, InOrder
<1> QED BY <1>1, <1>2, <1>3, <1>4

\* The end of a sequence, after its k-th element.
EndOf(s, k, d) ==
    /\ d \in Seq(Nat) /\ Len(d) = Len(s) - k /\ DOMAIN d = 1..(Len(s) - k)
    /\ \A i \in 1..(Len(s) - k) : d[i] = s[k + i]
    /\ (d = <<>> => k = Len(s)) /\ (k = Len(s) => d = <<>>)
    /\ k < Len(s) => Log!Last(d) = s[Len(s)]

\* It is a subsequence.
LEMMA Suffix ==
    ASSUME NEW s \in Seq(Nat), NEW k \in 0..Len(s)
    PROVE  EndOf(s, k, SubSeq(s, k + 1, Len(s)))
<1>0. PICK d : d = SubSeq(s, k + 1, Len(s))
  OBVIOUS
<1>1. Len(s) \in Nat /\ k \in Nat /\ k <= Len(s) /\ \A i \in 1..Len(s) : s[i] \in Nat
  OBVIOUS
<1>2. \A i \in (k + 1)..Len(s) : s[i] \in Nat
  BY <1>1
<1>3. /\ d \in Seq(Nat) /\ Len(d) = IF k + 1 <= Len(s) THEN Len(s) - (k + 1) + 1 ELSE 0
      /\ \A i \in 1..(Len(s) - (k + 1) + 1) : d[i] = s[(k + 1) + i - 1]
  BY <1>0, <1>1, <1>2, SubSeqProperties
<1>4. Len(d) = Len(s) - k
  BY <1>1, <1>3
<1>5. DOMAIN d = 1..(Len(s) - k)
  BY <1>3, <1>4
<1>6. \A i \in 1..(Len(s) - k) : d[i] = s[k + i]
  <2> SUFFICES ASSUME NEW i \in 1..(Len(s) - k) PROVE d[i] = s[k + i]
    OBVIOUS
  <2>1. i \in 1..(Len(s) - (k + 1) + 1) /\ (k + 1) + i - 1 = k + i
    BY <1>1
  <2> QED BY <1>3, <2>1
<1>7. d = <<>> <=> k = Len(s)
  <2>1. d = <<>> <=> Len(d) = 0
    BY <1>3, EmptySeq
  <2> QED BY <1>1, <1>4, <2>1
<1>8. k < Len(s) => Log!Last(d) = s[Len(s)]
  <2> SUFFICES ASSUME k < Len(s) PROVE d[Len(d)] = s[Len(s)]
    BY DEF Log!Last
  <2>1. Len(d) \in 1..(Len(s) - k) /\ k + Len(d) = Len(s)
    BY <1>1, <1>4
  <2> QED BY <1>6, <2>1
<1> QED BY <1>0, <1>3, <1>4, <1>5, <1>6, <1>7, <1>8 DEF EndOf

\* Printing more.
LEMMA Concat ==
    ASSUME NEW s \in Seq(Nat), NEW t \in Seq(Nat)
    PROVE  /\ s \o t \in Seq(Nat) /\ Len(s \o t) = Len(s) + Len(t)
           /\ DOMAIN (s \o t) = 1..(Len(s) + Len(t))
           /\ \A i \in 1..(Len(s) + Len(t)) :
                 (s \o t)[i] = IF i <= Len(s) THEN s[i] ELSE t[i - Len(s)]
           /\ \A e : Log!Contains(s \o t, e) <=> Log!Contains(s, e) \/ Log!Contains(t, e)
<1>1. /\ s \o t \in Seq(Nat) /\ Len(s \o t) = Len(s) + Len(t)
      /\ \A i \in 1..(Len(s) + Len(t)) :
            (s \o t)[i] = IF i <= Len(s) THEN s[i] ELSE t[i - Len(s)]
  BY ConcatProperties
<1>2. Len(s) \in Nat /\ Len(t) \in Nat
  OBVIOUS
<1>3. DOMAIN (s \o t) = 1..(Len(s) + Len(t))
  BY <1>1
<1>4. ASSUME NEW e
      PROVE  Log!Contains(s \o t, e) <=> Log!Contains(s, e) \/ Log!Contains(t, e)
  <2> DEFINE u == s \o t
  <2>0. Len(u) = Len(s) + Len(t) /\ \A i \in 1..(Len(s) + Len(t)) :
            u[i] = IF i <= Len(s) THEN s[i] ELSE t[i - Len(s)]
    BY <1>1
  <2> HIDE DEF u
  <2>1. ASSUME NEW i \in 1..Len(u), u[i] = e
        PROVE  Log!Contains(s, e) \/ Log!Contains(t, e)
    <3>1. CASE i <= Len(s)
      BY <1>2, <2>0, <2>1, <3>1 DEF Log!Contains
    <3>2. CASE ~(i <= Len(s))
      <4>1. i - Len(s) \in 1..Len(t) /\ t[i - Len(s)] = e
        BY <1>2, <2>0, <2>1, <3>2
      <4> QED BY <4>1 DEF Log!Contains
    <3> QED BY <3>1, <3>2
  <2>2. ASSUME NEW i \in 1..Len(s), s[i] = e
        PROVE  \E j \in 1..Len(u) : u[j] = e
    BY <1>2, <2>0, <2>2
  <2>3. ASSUME NEW i \in 1..Len(t), t[i] = e
        PROVE  \E j \in 1..Len(u) : u[j] = e
    <3>1. Len(s) + i \in 1..(Len(s) + Len(t)) /\ ~(Len(s) + i <= Len(s))
          /\ (Len(s) + i) - Len(s) = i
      BY <1>2
    <3> QED BY <2>0, <2>3, <3>1
  <2> QED BY <2>1, <2>2, <2>3 DEF Log!Contains, u
<1> QED BY <1>1, <1>3, <1>4

\* Lines after those that were printed keep the order.
LEMMA OrderedConcat ==
    ASSUME NEW s \in Seq(Nat), NEW t \in Seq(Nat), Ordered(s), Ordered(t),
           \A i \in DOMAIN s, j \in DOMAIN t : s[i] < t[j]
    PROVE  Ordered(s \o t)
<1> DEFINE u == s \o t
<1>1. /\ DOMAIN u = 1..(Len(s) + Len(t)) /\ DOMAIN s = 1..Len(s) /\ DOMAIN t = 1..Len(t)
      /\ Len(s) \in Nat /\ Len(t) \in Nat
      /\ \A i \in 1..(Len(s) + Len(t)) : u[i] = IF i <= Len(s) THEN s[i] ELSE t[i - Len(s)]
  BY Concat
<1> HIDE DEF u
<1>2. \A i \in DOMAIN u : (i <= Len(s) /\ i \in DOMAIN s /\ u[i] = s[i])
                       \/ (i > Len(s) /\ i - Len(s) \in DOMAIN t /\ u[i] = t[i - Len(s)])
  BY <1>1
<1>3. \A i \in DOMAIN u : u[i] \in 1..written
  BY <1>2 DEF Ordered
<1>4. ASSUME NEW i \in DOMAIN u, NEW j \in DOMAIN u, i < j
      PROVE  u[i] < u[j]
  <2>1. CASE j <= Len(s)
    BY <1>1, <1>2, <1>4, <2>1 DEF Ordered, Log!Increasing
  <2>2. CASE i <= Len(s) /\ j > Len(s)
    BY <1>1, <1>2, <2>2
  <2>3. CASE i > Len(s)
    <3>1. i - Len(s) \in DOMAIN t /\ j - Len(s) \in DOMAIN t /\ i - Len(s) < j - Len(s)
          /\ u[i] = t[i - Len(s)] /\ u[j] = t[j - Len(s)]
      BY <1>1, <1>2, <1>4, <2>3
    <3> QED BY <3>1 DEF Ordered, Log!Increasing
  <2> QED BY <1>1, <1>4, <2>1, <2>2, <2>3
<1> QED BY <1>3, <1>4 DEF Ordered, Log!Increasing, u
\* Every set of naturals has a least element.
LEMMA LeastNat ==
    ASSUME NEW T \in SUBSET Nat, T # {}
    PROVE  \E x \in T : \A y \in T : x <= y
<1>1. PICK x \in T : \A y \in T : ~(<<y, x>> \in OpToRel(<, Nat))
  BY NatLessThanWellFounded, WFMin
<1>2. ASSUME NEW y \in T
      PROVE  x <= y
  <2>1. x \in Nat /\ y \in Nat
    OBVIOUS
  <2>2. ~(y < x)
    BY <1>1, <2>1 DEF OpToRel
  <2> QED BY <2>1, <2>2
<1> QED BY <1>2

\* The places of a set, in order.
Enumerates(f, n, K) ==
    /\ n \in Nat /\ f \in [1..n -> K] /\ Log!Increasing(f)
    /\ \A x \in K : \E j \in 1..n : f[j] = x

\* Every set of places can be listed in order, by induction on the last place.
LEMMA Listed ==
    ASSUME NEW m \in Nat, NEW K \in SUBSET (1..m)
    PROVE  \E n \in 0..m : \E f : Enumerates(f, n, K)
<1> DEFINE Has(l, J) == \E n \in 0..l : \E f : Enumerates(f, n, J)
           T == {l \in Nat : \E J \in SUBSET (1..l) : ~Has(l, J)}
<1> SUFFICES ASSUME ~Has(m, K) PROVE FALSE
  OBVIOUS
<1>1. m \in T
  OBVIOUS
<1>2. PICK l \in T : \A y \in T : l <= y
  BY <1>1, LeastNat
<1>3. PICK J \in SUBSET (1..l) : ~Has(l, J)
  OBVIOUS
<1>4. l \in Nat
  OBVIOUS
<1>5. CASE J = {}
  <2>1. <<>> \in [1..0 -> J] /\ DOMAIN <<>> = {}
    BY <1>5
  <2>2. Enumerates(<<>>, 0, J)
    BY <1>5, <2>1 DEF Enumerates, Log!Increasing
  <2> QED BY <1>3, <1>4, <2>2
<1>6. CASE J # {}
  <2>1. l > 0 /\ l - 1 \in Nat /\ ~(l <= l - 1)
    <3>1. PICK j \in J : j \in 1..l
      BY <1>3, <1>6
    <3> QED BY <1>4, <3>1
  <2>2. l - 1 \notin T
    BY <1>2, <2>1
  <2> DEFINE I == J \ {l}
  <2>3. I \in SUBSET (1..(l - 1))
    BY <1>4
  <2>4. Has(l - 1, I)
    BY <2>1, <2>2, <2>3
  <2>5. PICK n \in 0..(l - 1) : \E f : Enumerates(f, n, I)
    BY <2>4
  <2>6. PICK f : Enumerates(f, n, I)
    BY <2>5
  <2>7. n \in Nat /\ n + 1 \in 0..l /\ n \in 0..l /\ f \in [1..n -> I] /\ DOMAIN f = 1..n
    BY <1>4, <2>1, <2>5, <2>6 DEF Enumerates
  <2>8. CASE l \notin J
    <3>1. I = J
      BY <2>8
    <3> QED BY <1>3, <2>6, <2>7, <3>1
  <2>9. CASE l \in J
    <3> DEFINE g == [j \in 1..(n + 1) |-> IF j = n + 1 THEN l ELSE f[j]]
    <3>1. \A j \in 1..(n + 1) : j = n + 1 \/ j \in 1..n
      BY <2>7
    <3>2. \A j \in 1..n : f[j] \in I /\ f[j] \in J /\ f[j] < l /\ g[j] = f[j] /\ j \in 1..(n + 1)
      <4> SUFFICES ASSUME NEW j \in 1..n
                   PROVE  f[j] \in I /\ f[j] \in J /\ f[j] < l /\ g[j] = f[j] /\ j \in 1..(n + 1)
        OBVIOUS
      <4>1. j \in 1..(n + 1) /\ j # n + 1
        BY <2>7
      <4>2. f[j] \in I /\ f[j] \in J
        BY <2>7
      <4>3. f[j] < l
        <5>1. f[j] \in 1..(l - 1)
          BY <2>3, <4>2
        <5> QED BY <1>4, <5>1
      <4> QED BY <4>1, <4>2, <4>3
    <3>3. n + 1 \in 1..(n + 1) /\ g[n + 1] = l
      BY <2>7
    <3>4. g \in [1..(n + 1) -> J] /\ DOMAIN g = 1..(n + 1)
      BY <2>9, <3>1, <3>2, <3>3
    <3> HIDE DEF g
    <3>5. ASSUME NEW i \in 1..(n + 1), NEW j \in 1..(n + 1), i < j
          PROVE  g[i] < g[j]
      <4>1. i \in 1..n
        BY <2>7, <3>5
      <4>2. CASE j \in 1..n
        BY <2>6, <2>7, <3>2, <3>5, <4>1, <4>2 DEF Enumerates, Log!Increasing
      <4>3. CASE j = n + 1
        BY <3>2, <3>3, <4>1, <4>3
      <4> QED BY <3>1, <4>2, <4>3
    <3>6. ASSUME NEW x \in J
          PROVE  \E j \in 1..(n + 1) : g[j] = x
      <4>1. CASE x = l
        BY <3>3, <4>1
      <4>2. CASE x # l
        <5>1. PICK j \in 1..n : f[j] = x
          BY <2>6, <4>2 DEF Enumerates
        <5> QED BY <3>2, <5>1
      <4> QED BY <4>1, <4>2
    <3>7. Enumerates(g, n + 1, J)
      BY <2>7, <3>4, <3>5, <3>6 DEF Enumerates, Log!Increasing
    <3> QED BY <1>3, <2>7, <3>7
  <2> QED BY <2>8, <2>9
<1> QED BY <1>5, <1>6

\* The entries of a log with a later stamp, in the order of the log.
LaterOf(s, after, d) ==
    /\ d \in Seq(Nat) /\ Log!Increasing(d)
    /\ \A j \in DOMAIN d : \E i \in DOMAIN s : d[j] = s[i] /\ StampOf(s[i]) > after
    /\ \A i \in DOMAIN s : StampOf(s[i]) > after => \E j \in DOMAIN d : d[j] = s[i]

\* What Later picks is increasing and consists of the entries after the stamp.
LEMMA LaterIs ==
    ASSUME NEW s \in Seq(Nat), Log!Increasing(s), NEW after \in Nat
    PROVE  LaterOf(s, after, Log!Later(s, after))
<1> DEFINE kept == {i \in DOMAIN s : stamps[s[i]] > after}
           fs == UNION {[1..n -> kept] : n \in 0..Len(s)}
           Good(f) == Log!Increasing(f) /\ \A i \in kept : \E j \in DOMAIN f : f[j] = i
           place == CHOOSE f \in fs : Good(f)
<1>0. DOMAIN s = 1..Len(s) /\ Len(s) \in Nat
  OBVIOUS
<1>1. kept \in SUBSET (1..Len(s))
  BY <1>0
<1>2. \E f \in fs : Good(f)
  <2> HIDE DEF kept
  <2>1. PICK n \in 0..Len(s) : \E f : Enumerates(f, n, kept)
    BY <1>0, <1>1, Listed
  <2>2. PICK f : Enumerates(f, n, kept)
    BY <2>1
  <2>3. f \in [1..n -> kept] /\ DOMAIN f = 1..n /\ Good(f)
    BY <2>2 DEF Enumerates
  <2> QED BY <2>1, <2>3
<1>3. place \in fs /\ Good(place)
  BY <1>2
<1>4. Log!Later(s, after) = [j \in DOMAIN place |-> s[place[j]]]
  BY DEF Log!Later
<1> HIDE DEF place
<1>5. PICK n \in 0..Len(s) : place \in [1..n -> kept]
  BY <1>3
<1>6. n \in Nat /\ DOMAIN place = 1..n /\ \A j \in 1..n : place[j] \in kept
  BY <1>0, <1>5
<1>7. PICK d : d = [j \in 1..n |-> s[place[j]]]
  OBVIOUS
<1>8. /\ Log!Later(s, after) = d /\ DOMAIN d = 1..n /\ d \in Seq(Nat)
      /\ \A j \in 1..n : d[j] = s[place[j]] /\ place[j] \in DOMAIN s /\ stamps[s[place[j]]] > after
  <2>1. /\ Log!Later(s, after) = d /\ DOMAIN d = 1..n
        /\ \A j \in 1..n : d[j] = s[place[j]] /\ place[j] \in DOMAIN s /\ stamps[s[place[j]]] > after
    BY <1>4, <1>6, <1>7
  <2>2. d \in [1..n -> Nat]
    BY <1>7, <2>1
  <2> QED BY <1>6, <2>1, <2>2, SeqDef
<1>9. Log!Increasing(d)
  BY <1>1, <1>3, <1>6, <1>8 DEF Log!Increasing
<1>10. \A i \in DOMAIN s : stamps[s[i]] > after => \E j \in DOMAIN d : d[j] = s[i]
  BY <1>3, <1>6, <1>8
<1>11. \A j \in DOMAIN d : \E i \in DOMAIN s : d[j] = s[i] /\ stamps[s[i]] > after
  BY <1>8
<1>12. LaterOf(s, after, d)
  BY <1>8, <1>9, <1>10, <1>11 DEF LaterOf, StampOf
<1> QED BY <1>8, <1>12

\* The tail of a log is its end.
LEMMA LastOfIs ==
    ASSUME NEW s \in Seq(Nat), NEW n \in {None, 1}
    PROVE  \E k \in 0..Len(s) : Log!LastOf(s, n) = SubSeq(s, k + 1, Len(s))
<1>1. Len(s) \in Nat
  OBVIOUS
<1>2. CASE n = None \/ n >= Len(s)
  <2>1. Log!LastOf(s, n) = SubSeq(s, 0 + 1, Len(s))
    BY <1>2, SubSeqFull DEF Log!LastOf
  <2> QED BY <1>1, <2>1
<1>3. CASE ~(n = None \/ n >= Len(s))
  <2>1. n = 1 /\ ~(1 >= Len(s))
    BY <1>3
  <2>2. Log!LastOf(s, n) = SubSeq(s, (Len(s) - 1) + 1, Len(s)) /\ Len(s) - 1 \in 0..Len(s)
    BY <1>1, <1>3, <2>1 DEF Log!LastOf
  <2> QED BY <2>2
<1> QED BY <1>2, <1>3

\* An answer from the captured log is its end: from the offset on, or the tail.
LEMMA CapturedIs ==
    ASSUME LogType, NEW tail \in {None, 1}, NEW offset \in Nat \cup {None}
    PROVE  \E k \in 0..Len(captured) :
              /\ Log!captured_logs(tail, offset) =
                    [data |-> SubSeq(captured, k + 1, Len(captured)),
                     next_offset |-> Len(captured), source |-> "Captured"]
              /\ offset # None => k = IF offset <= Len(captured) THEN offset ELSE Len(captured)
<1>1. captured \in Seq(Nat) /\ Len(captured) \in Nat
  BY DEF LogType
<1>2. CASE offset = None
  BY <1>1, <1>2, LastOfIs DEF Log!captured_logs
<1>3. CASE offset # None
  <2> DEFINE k == IF offset <= Len(captured) THEN offset ELSE Len(captured)
  <2>1. k \in 0..Len(captured)
    BY <1>1, <1>3
  <2>2. Log!captured_logs(tail, offset) =
            [data |-> SubSeq(captured, k + 1, Len(captured)),
             next_offset |-> Len(captured), source |-> "Captured"]
    BY <1>3 DEF Log!captured_logs
  <2> QED BY <2>1, <2>2
<1> QED BY <1>2, <1>3

\* Of a number and the stamps of some lines, one is the greatest.
LEMMA LatestOf ==
    ASSUME NEW d \in Seq(Nat), NEW after \in Nat, \A j \in DOMAIN d : StampOf(d[j]) \in Nat,
           NEW reached, reached = {after} \cup {StampOf(d[j]) : j \in DOMAIN d}
    PROVE  \E t \in reached : \A u \in reached : t >= u
<1> DEFINE R(l) == {after} \cup {StampOf(d[j]) : j \in 1..l}
           Has(l) == \E t \in R(l) : \A u \in R(l) : t >= u
           T == {l \in 0..Len(d) : ~Has(l)}
<1>0. DOMAIN d = 1..Len(d) /\ Len(d) \in Nat
  OBVIOUS
<1> SUFFICES ASSUME ~Has(Len(d)) PROVE FALSE
  BY <1>0
<1>1. Len(d) \in T /\ T \in SUBSET Nat
  BY <1>0
<1>2. PICK l \in T : \A y \in T : l <= y
  BY <1>1, LeastNat
<1>3. l # 0
  <2> SUFFICES ASSUME l = 0 PROVE FALSE
    OBVIOUS
  <2>1. R(0) = {after}
    OBVIOUS
  <2> QED BY <1>2, <2>1
<1>4. l \in 1..Len(d) /\ l - 1 \in 0..Len(d) /\ ~(l <= l - 1)
  BY <1>0, <1>2, <1>3
<1>5. Has(l - 1)
  BY <1>2, <1>4
<1>6. PICK t \in R(l - 1) : \A u \in R(l - 1) : t >= u
  BY <1>5
<1>7. StampOf(d[l]) \in Nat /\ R(l - 1) \subseteq Nat
  <2>1. l \in DOMAIN d /\ \A j \in 1..(l - 1) : j \in DOMAIN d
    BY <1>0, <1>4
  <2> QED BY <2>1
<1>8. R(l) = R(l - 1) \cup {StampOf(d[l])}
  <2>1. 1..l = 1..(l - 1) \cup {l}
    BY <1>4
  <2> QED BY <2>1
<1>9. Has(l)
  <2> HIDE DEF R
  <2>1. CASE t >= StampOf(d[l])
    BY <1>6, <1>7, <1>8, <2>1
  <2>2. CASE ~(t >= StampOf(d[l]))
    <3>1. \A u \in R(l) : StampOf(d[l]) >= u
      BY <1>6, <1>7, <1>8, <2>2
    <3> QED BY <1>8, <3>1
  <2> QED BY <2>1, <2>2
<1> QED BY <1>2, <1>9

\* An answer from Pebble: entries with a later stamp, all of them but those before the tail
\* that was asked for, and the latest stamp.
PebbleAnswer(tail, offset, after, d, n) ==
    /\ d \in Seq(Nat) /\ n \in Nat /\ Log!Increasing(d)
    /\ \A j \in DOMAIN d : (\E i \in DOMAIN pebble : d[j] = pebble[i]) /\ StampOf(d[j]) > after
    /\ n >= after /\ \A j \in DOMAIN d : StampOf(d[j]) <= n
    /\ n = after \/ \E j \in DOMAIN d : StampOf(d[j]) = n
    /\ offset # None \/ tail = None =>
          \A i \in DOMAIN pebble : StampOf(pebble[i]) > after => \E j \in DOMAIN d : d[j] = pebble[i]
    /\ \A i, k \in DOMAIN pebble :
          i < k /\ StampOf(pebble[k]) > after /\ (\E j \in DOMAIN d : d[j] = pebble[i])
          => \E j \in DOMAIN d : d[j] = pebble[k]

\* What pebble_logs answers.
LEMMA PebbleIs ==
    ASSUME LogType, NEW tail \in {None, 1}, NEW offset \in Nat \cup {None},
           NEW after, after = IF offset = None THEN 0 ELSE offset
    PROVE  \E d, n : /\ Log!pebble_logs(tail, offset) =
                            [data |-> d, next_offset |-> n, source |-> "Pebble"]
                     /\ PebbleAnswer(tail, offset, after, d, n)
<1>1. /\ pebble \in Seq(Nat) /\ Len(pebble) \in Nat /\ after \in Nat /\ Log!Increasing(pebble)
      /\ DOMAIN pebble = 1..Len(pebble) /\ \A i \in DOMAIN pebble : StampOf(pebble[i]) \in Nat
  BY NodeAssumption DEF LogType, Ordered, Stamped
<1>2. PICK n0 : n0 = IF offset = None THEN tail ELSE None
  OBVIOUS
<1>3. n0 \in {None, 1} /\ (offset # None \/ tail = None => n0 = None)
  BY <1>2
<1>4. PICK all : all = Log!LastOf(pebble, n0)
  OBVIOUS
<1>5. PICK c \in 0..Len(pebble) :
          all = SubSeq(pebble, c + 1, Len(pebble)) /\ (n0 = None => c = 0)
  <2>1. CASE n0 = None
    <3>1. all = SubSeq(pebble, 0 + 1, Len(pebble))
      BY <1>1, <1>4, <2>1, SubSeqFull DEF Log!LastOf
    <3> QED BY <1>1, <3>1
  <2>2. CASE n0 # None
    BY <1>1, <1>3, <1>4, <2>2, LastOfIs
  <2> QED BY <2>1, <2>2
<1>6. /\ all \in Seq(Nat) /\ DOMAIN all = 1..(Len(pebble) - c) /\ c \in Nat
      /\ \A i \in 1..(Len(pebble) - c) : all[i] = pebble[c + i]
  <2>1. EndOf(pebble, c, all)
    BY <1>1, <1>5, Suffix
  <2>2. c \in Nat
    BY <1>1, <1>5
  <2> QED BY <2>1, <2>2 DEF EndOf
<1>7. \A i \in DOMAIN all : i \in Nat /\ c + i \in DOMAIN pebble /\ all[i] = pebble[c + i]
  <2> SUFFICES ASSUME NEW i \in DOMAIN all
               PROVE  i \in Nat /\ c + i \in DOMAIN pebble /\ all[i] = pebble[c + i]
    OBVIOUS
  <2>1. i \in 1..(Len(pebble) - c)
    BY <1>6
  <2>2. i \in Nat /\ c + i \in 1..Len(pebble)
    BY <1>1, <1>6, <2>1
  <2> QED BY <1>1, <1>6, <2>1, <2>2
<1>8. \A k \in DOMAIN pebble : k > c => k - c \in DOMAIN all /\ all[k - c] = pebble[k]
  <2> SUFFICES ASSUME NEW k \in DOMAIN pebble, k > c
               PROVE  k - c \in DOMAIN all /\ all[k - c] = pebble[k]
    OBVIOUS
  <2>1. k - c \in 1..(Len(pebble) - c) /\ c + (k - c) = k
    BY <1>1, <1>6
  <2> QED BY <1>6, <2>1
<1>9. Log!Increasing(all)
  <2> SUFFICES ASSUME NEW i \in DOMAIN all, NEW j \in DOMAIN all, i < j PROVE all[i] < all[j]
    BY DEF Log!Increasing
  <2>1. /\ c + i \in DOMAIN pebble /\ c + j \in DOMAIN pebble /\ i \in Nat /\ j \in Nat
        /\ all[i] = pebble[c + i] /\ all[j] = pebble[c + j]
    BY <1>7
  <2>2. c + i < c + j
    BY <1>6, <2>1
  <2>3. \A x, y \in DOMAIN pebble : x < y => pebble[x] < pebble[y]
    BY <1>1 DEF Log!Increasing
  <2> QED BY <2>1, <2>2, <2>3
<1>10. PICK d : d = Log!Later(all, after)
  OBVIOUS
<1>11. LaterOf(all, after, d)
  BY <1>1, <1>6, <1>9, <1>10, LaterIs
<1>12. /\ d \in Seq(Nat) /\ Log!Increasing(d)
       /\ \A j \in DOMAIN d : \E i \in DOMAIN all : d[j] = all[i] /\ StampOf(all[i]) > after
       /\ \A i \in DOMAIN all : StampOf(all[i]) > after => \E j \in DOMAIN d : d[j] = all[i]
  BY <1>11 DEF LaterOf
<1>13. \A j \in DOMAIN d : /\ \E i \in DOMAIN pebble : i > c /\ d[j] = pebble[i]
                           /\ StampOf(d[j]) > after /\ StampOf(d[j]) \in Nat
  <2> SUFFICES ASSUME NEW j \in DOMAIN d
               PROVE  /\ \E i \in DOMAIN pebble : i > c /\ d[j] = pebble[i]
                      /\ StampOf(d[j]) > after /\ StampOf(d[j]) \in Nat
    OBVIOUS
  <2>1. PICK i \in DOMAIN all : d[j] = all[i] /\ StampOf(all[i]) > after
    BY <1>12
  <2>2. c + i \in DOMAIN pebble /\ all[i] = pebble[c + i] /\ i \in 1..(Len(pebble) - c)
    BY <1>6, <1>7, <2>1
  <2>3. c + i > c
    BY <1>1, <1>6, <2>2
  <2> QED BY <1>1, <2>1, <2>2, <2>3
<1>14. \A k \in DOMAIN pebble :
          k > c /\ StampOf(pebble[k]) > after => \E j \in DOMAIN d : d[j] = pebble[k]
  <2> SUFFICES ASSUME NEW k \in DOMAIN pebble, k > c, StampOf(pebble[k]) > after
               PROVE  \E j \in DOMAIN d : d[j] = pebble[k]
    OBVIOUS
  <2>1. k - c \in DOMAIN all /\ all[k - c] = pebble[k]
    BY <1>8
  <2>2. PICK i : i = k - c
    OBVIOUS
  <2> QED BY <1>12, <2>1, <2>2
<1> DEFINE reached == {after} \cup {stamps[d[j]] : j \in DOMAIN d}
           n == CHOOSE t \in reached : \A u \in reached : t >= u
<1>15. \E t \in reached : \A u \in reached : t >= u
  <2>1. reached = {after} \cup {StampOf(d[j]) : j \in DOMAIN d}
    BY DEF StampOf
  <2> HIDE DEF reached
  <2> QED BY <1>1, <1>12, <1>13, <2>1, LatestOf
<1>16. n \in reached /\ \A u \in reached : n >= u
  BY <1>15
<1>17. Log!pebble_logs(tail, offset) = [data |-> d, next_offset |-> n, source |-> "Pebble"]
  BY <1>2, <1>4, <1>10 DEF Log!pebble_logs
<1> HIDE DEF n
<1>18. /\ n \in Nat /\ n >= after /\ \A j \in DOMAIN d : StampOf(d[j]) <= n
       /\ n = after \/ \E j \in DOMAIN d : StampOf(d[j]) = n
  <2>1. \A u \in reached : u \in Nat
    BY <1>1, <1>13 DEF StampOf
  <2>2. n \in Nat /\ \A u \in reached : u <= n
    BY <1>16, <2>1
  <2> QED BY <1>1, <1>16, <2>2 DEF StampOf
<1> HIDE DEF reached
<1>19. offset # None \/ tail = None =>
          \A i \in DOMAIN pebble : StampOf(pebble[i]) > after => \E j \in DOMAIN d : d[j] = pebble[i]
  <2>1. c = 0 => \A i \in DOMAIN pebble : i > c
    BY <1>1
  <2> QED BY <1>3, <1>5, <1>14, <2>1
<1>20. ASSUME NEW i \in DOMAIN pebble, NEW k \in DOMAIN pebble, i < k, StampOf(pebble[k]) > after,
              NEW j \in DOMAIN d, d[j] = pebble[i]
       PROVE  \E m \in DOMAIN d : d[m] = pebble[k]
  <2>1. PICK h \in DOMAIN pebble : h > c /\ pebble[h] = pebble[i]
    BY <1>13, <1>20
  <2>2. h = i
    BY <1>1, <2>1, IncreasingDistinct
  <2>3. k > c
    BY <1>1, <1>6, <1>20, <2>1, <2>2
  <2> QED BY <1>14, <1>20, <2>3
<1>21. PebbleAnswer(tail, offset, after, d, n)
  BY <1>12, <1>13, <1>18, <1>19, <1>20 DEF PebbleAnswer
<1> QED BY <1>17, <1>21

\* The end of an ordered log is ordered.
LEMMA SuffixOrdered ==
    ASSUME NEW s \in Seq(Nat), NEW k \in 0..Len(s), NEW d, d = SubSeq(s, k + 1, Len(s)), Ordered(s)
    PROVE  d \in Seq(Nat) /\ Ordered(d)
<1>1. /\ d \in Seq(Nat) /\ Len(d) = Len(s) - k /\ DOMAIN d = 1..(Len(s) - k)
      /\ \A i \in 1..(Len(s) - k) : d[i] = s[k + i]
  <2>1. EndOf(s, k, d)
    BY Suffix
  <2> QED BY <2>1 DEF EndOf
<1>2. Len(s) \in Nat /\ k \in Nat /\ DOMAIN s = 1..Len(s) /\ \A i \in DOMAIN s : s[i] \in 1..written
  BY DEF Ordered
<1>3. ASSUME NEW i \in DOMAIN d
      PROVE  i \in Nat /\ k + i \in DOMAIN s /\ d[i] = s[k + i]
  <2>1. i \in 1..(Len(s) - k)
    BY <1>1
  <2>2. i \in Nat /\ k + i \in 1..Len(s)
    BY <1>2, <2>1
  <2> QED BY <1>1, <1>2, <2>1, <2>2
<1>4. \A i \in DOMAIN d : d[i] \in 1..written
  BY <1>2, <1>3, Zenon
<1>5. ASSUME NEW i \in DOMAIN d, NEW j \in DOMAIN d, i < j
      PROVE  d[i] < d[j]
  <2>1. \A x, y \in DOMAIN s : x < y => s[x] < s[y]
    BY DEF Ordered, Log!Increasing
  <2>2. k + i < k + j
    BY <1>2, <1>3, <1>5
  <2> QED BY <1>3, <2>1, <2>2
<1> QED BY <1>1, <1>4, <1>5 DEF Ordered, Log!Increasing

\* What the daemon answers from.
LEMMA Answers ==
    ASSUME NEW tail, NEW offset, NEW source, NEW fetched, NEW r,
           r = Log!op_logs(tail, offset, source, fetched), r # None
    PROVE  \/ r = Log!captured_logs(tail, offset) /\ source # "Pebble"
           \/ r = Log!pebble_logs(tail, offset) /\ source # "Captured"
  BY DEF Log!op_logs

\* What the follower is after an answer.
ShownAs(f, d, n, src, at) ==
    /\ f.at = at /\ f.source = src /\ f.offset = n /\ f.out = follower.out \o d
    /\ f.life = follower.life /\ f.due = follower.due
    /\ f.since = IF follower.offset = None THEN n - Len(d) ELSE follower.since
    /\ f.follow = follower.follow /\ f.tail = follower.tail
    /\ d \in Seq(Nat) /\ n \in Nat /\ src \in {"Captured", "Pebble"}
       /\ at \in {"check", "read", "done"} => f \in Followers

\* The fields of the follower that an answer changes.
LEMMA ShownFields ==
    ASSUME LogType, NEW d, NEW n, NEW src, NEW at
    PROVE  ShownAs(Log!Shown([data |-> d, next_offset |-> n, source |-> src], at), d, n, src, at)
<1>0. PICK f : f = Log!Shown([data |-> d, next_offset |-> n, source |-> src], at)
  OBVIOUS
<1>1. follower \in Followers
  BY DEF LogType
<1>2. /\ f.at = at /\ f.source = src /\ f.offset = n /\ f.out = follower.out \o d
      /\ f.life = follower.life /\ f.due = follower.due
      /\ f.since = IF follower.offset = None THEN n - Len(d) ELSE follower.since
      /\ f.follow = follower.follow /\ f.tail = follower.tail
  BY <1>0, <1>1 DEF Followers, Log!Shown
<1>3. ASSUME d \in Seq(Nat), n \in Nat, src \in {"Captured", "Pebble"}, at \in {"check", "read", "done"}
      PROVE  f \in Followers
  <2>1. follower.out \o d \in Seq(Nat)
    BY <1>1, <1>3 DEF Followers
  <2>2. n - Len(d) \in Int
    BY <1>3
  <2> DEFINE since == IF follower.offset = None THEN n - Len(d) ELSE follower.since
             out == follower.out \o d
  <2>3. since \in Int /\ out \in Seq(Nat)
    BY <1>1, <2>1, <2>2 DEF Followers
  <2>4. f = [follower EXCEPT !.at = at, !.out = out, !.offset = n, !.source = src, !.since = since]
    BY <1>0 DEF Log!Shown
  <2> HIDE DEF since, out
  <2> QED BY <1>1, <1>3, <2>3, <2>4 DEF Followers
<1> QED BY <1>0, <1>2, <1>3 DEF ShownAs

\* An answer from the captured log: what follows the k-th line of it.
ShowsCaptured(k, at) ==
    /\ k \in 0..Len(captured) /\ at \in {"check", "read", "done"}
    /\ follower.offset # None =>
          /\ follower.source = "Captured"
          /\ k = IF follower.offset <= Len(captured) THEN follower.offset ELSE Len(captured)
    /\ at = "done" /\ follower.follow => follower.offset # None
    /\ follower' = Log!Shown([data |-> SubSeq(captured, k + 1, Len(captured)),
                              next_offset |-> Len(captured), source |-> "Captured"], at)
    /\ UNCHANGED Log!container

\* It keeps the follower whole.
LEMMA CapturedShown == ASSUME LogInv, NEW k, NEW at, ShowsCaptured(k, at) PROVE LogInv'
<1>d. PICK d : d = SubSeq(captured, k + 1, Len(captured))
  OBVIOUS
<1>1. /\ captured \in Seq(Nat) /\ Len(captured) \in Nat /\ Ordered(captured)
      /\ follower.out \in Seq(Nat) /\ named \in Nat /\ written \in Nat
      /\ follower.offset \in Nat \cup {None} /\ None \notin Nat /\ k \in Nat /\ k <= Len(captured)
      /\ DOMAIN captured = 1..Len(captured) /\ follower.since \in Int /\ follower.due \in Nat
  BY NodeAssumption DEF LogInv, LogType, Followers, ShowsCaptured
<1>b. Ordered(follower.out)
  <2>1. follower.offset = None => follower.out = <<>>
    BY DEF LogInv, Placed
  <2> QED BY <2>1 DEF LogInv, LogType, CapturedTo, ShowsCaptured, Ordered, Log!Increasing
<1>a. k \in 0..Len(captured)
  BY DEF ShowsCaptured
<1>2. d \in Seq(Nat) /\ Ordered(d)
  BY <1>1, <1>a, <1>d, SuffixOrdered
<1>3. /\ Len(d) = Len(captured) - k /\ DOMAIN d = 1..(Len(captured) - k)
      /\ \A i \in 1..(Len(captured) - k) : d[i] = captured[k + i]
  <2>1. EndOf(captured, k, d)
    BY <1>1, <1>a, <1>d, Suffix
  <2> QED BY <2>1 DEF EndOf
<1>e. PICK f : f = follower'
  OBVIOUS
<1>f. ShownAs(f, d, Len(captured), "Captured", at)
  BY <1>d, <1>e, ShownFields DEF LogInv, ShowsCaptured
<1>4. /\ follower'.at = at /\ follower'.source = "Captured" /\ follower'.offset = Len(captured)
      /\ follower'.out = follower.out \o d /\ follower'.life = follower.life
      /\ follower'.due = follower.due /\ follower'.follow = follower.follow
      /\ follower'.since = IF follower.offset = None THEN Len(captured) - Len(d) ELSE follower.since
  BY <1>e, <1>f DEF ShownAs
<1>5. follower' \in Followers
  BY <1>1, <1>2, <1>e, <1>f DEF ShownAs, ShowsCaptured
<1>6. /\ named' = named /\ running' = running /\ captured' = captured /\ pebble' = pebble
      /\ written' = written /\ stored' = stored /\ stamps' = stamps
  BY DEF Log!container, ShowsCaptured
<1>7. follower.offset = None => follower.out = <<>>
  BY DEF LogInv, Placed
<1>8. ASSUME NEW i \in DOMAIN follower.out, NEW j \in DOMAIN d
      PROVE  follower.out[i] < d[j]
  <2>1. follower.offset # None
    BY <1>7
  <2>2. j \in 1..(Len(captured) - k) /\ j \in Nat /\ k + j \in DOMAIN captured /\ k < Len(captured)
    <3>1. j \in 1..(Len(captured) - k)
      BY <1>3
    <3>2. j \in Nat /\ k + j \in 1..Len(captured) /\ k < Len(captured)
      BY <1>1, <3>1
    <3> QED BY <1>1, <3>1, <3>2
  <2>3. k = follower.offset /\ k + j > follower.offset
    <3>1. k = IF follower.offset <= Len(captured) THEN follower.offset ELSE Len(captured)
      BY <2>1 DEF ShowsCaptured
    <3>2. follower.offset \in Nat /\ Len(captured) \in Nat /\ k < Len(captured) /\ k \in Nat
          /\ j \in 1..(Len(captured) - k)
      BY <1>1, <2>1, <2>2
    <3> QED BY <3>1, <3>2
  <2>4. follower.source = "Captured"
    BY <2>1 DEF ShowsCaptured
  <2> QED BY <1>3, <2>1, <2>2, <2>3, <2>4 DEF LogInv, CapturedTo
<1>9. follower.out \o d \in Seq(Nat) /\ Ordered(follower.out \o d)
  BY <1>1, <1>2, <1>8, <1>b, OrderedConcat, ConcatProperties
<1>10. LogType'
  <2>1. Ordered(captured)' /\ Ordered(pebble)' /\ (\A i \in DOMAIN pebble : Stamped(pebble[i]))'
    BY <1>6 DEF LogInv, LogType, Ordered, Stamped, StampOf
  <2>2. (\A i \in DOMAIN follower.out : follower.out[i] \in 1..written)'
    BY <1>4, <1>6, <1>9 DEF Ordered
  <2> QED BY <1>5, <1>6, <2>1, <2>2 DEF LogInv, LogType
<1>11. Placed'
  BY <1>1, <1>4, <1>6 DEF LogInv, Placed, ShowsCaptured
<1>12. ASSUME Same
       PROVE  /\ follower'.since \in 0..Len(captured)
              /\ follower'.out = SubSeq(captured, follower'.since + 1, Len(captured))
              /\ at = "done" /\ follower.follow => Len(captured) >= follower.due
  <2>1. CASE follower.offset = None
    <3>1. follower'.since = k
      BY <1>1, <1>3, <1>4, <2>1
    <3>2. follower'.out = d
      BY <1>2, <1>4, <1>7, <2>1, ConcatEmptySeq
    <3> QED BY <1>1, <1>a, <1>d, <2>1, <3>1, <3>2 DEF ShowsCaptured
  <2>2. CASE follower.offset # None
    <3>1. /\ follower.since \in 0..follower.offset /\ follower.offset <= Len(captured)
          /\ follower.out = SubSeq(captured, follower.since + 1, follower.offset)
      BY <1>12, <2>2 DEF LogInv, CapturedTo, ShowsCaptured
    <3>2. k = follower.offset /\ follower'.since = follower.since
      BY <1>4, <2>2, <3>1 DEF ShowsCaptured
    <3>3. /\ follower.since + 1 \in 1..(Len(captured) + 1) /\ k \in ((follower.since + 1) - 1)..Len(captured)
          /\ Len(captured) \in k..Len(captured) /\ follower.since \in 0..Len(captured)
      BY <1>1, <2>2, <3>1, <3>2
    <3>4. follower'.out = SubSeq(captured, follower.since + 1, Len(captured))
      BY <1>1, <1>4, <1>d, <3>1, <3>2, <3>3, ConcatAdjacentSubSeq
    <3>5. Len(captured) >= follower.due
      BY <1>1, <1>12 DEF LogInv, DueIsThere
    <3> QED BY <3>2, <3>3, <3>4, <3>5
  <2> QED BY <2>1, <2>2
<1>13. CapturedTo'
  <2>1. \A i \in DOMAIN captured : ~(i > Len(captured))
    BY <1>1
  <2>2. Same' => Same
    BY <1>4, <1>6 DEF Same
  <2>3. Len(captured) <= Len(captured)
    BY <1>1
  <2>4. Log!Increasing(follower.out)'
    BY <1>4, <1>9 DEF Ordered, Log!Increasing
  <2> QED BY <1>4, <1>6, <1>12, <2>1, <2>2, <2>3, <2>4 DEF CapturedTo
<1>14. DueIsThere'
  BY <1>4, <1>6 DEF LogInv, DueIsThere, Same
<1>15. PebbleTo'
  BY <1>4 DEF PebbleTo
<1> QED BY <1>10, <1>11, <1>13, <1>14, <1>15 DEF LogInv

\* An answer from Pebble is shown.
ShowsPebble(d, n, tail, after, at) ==
    /\ at \in {"check", "read", "done"}
    /\ after = IF follower.offset = None THEN 0 ELSE follower.offset
    /\ follower.offset # None => follower.source = "Pebble"
    /\ follower.offset = None => tail = follower.tail
    /\ PebbleAnswer(tail, follower.offset, after, d, n)
    /\ follower' = Log!Shown([data |-> d, next_offset |-> n, source |-> "Pebble"], at)
    /\ UNCHANGED Log!container

\* It keeps the follower whole.
LEMMA PebbleShown ==
    ASSUME LogInv, NEW d, NEW n, NEW tail, NEW after, NEW at, ShowsPebble(d, n, tail, after, at)
    PROVE  LogInv'
<1>e. PICK f : f = follower'
  OBVIOUS
<1>1. /\ pebble \in Seq(Nat) /\ Ordered(pebble) /\ DOMAIN pebble = 1..Len(pebble) /\ Len(pebble) \in Nat
      /\ follower.out \in Seq(Nat) /\ named \in Nat /\ written \in Nat
      /\ follower.offset \in Nat \cup {None} /\ None \notin Nat /\ follower.tail \in {None, 1}
      /\ DOMAIN follower.out = 1..Len(follower.out) /\ Len(follower.out) \in Nat
      /\ \A i \in DOMAIN pebble : pebble[i] \in 1..written /\ pebble[i] \in Nat /\ StampOf(pebble[i]) \in Nat
      /\ \A i \in DOMAIN follower.out : follower.out[i] \in 1..written
  BY NodeAssumption DEF LogInv, LogType, Followers, Ordered, Stamped
<1>2. /\ d \in Seq(Nat) /\ n \in Nat /\ Log!Increasing(d) /\ after \in Nat
      /\ DOMAIN d = 1..Len(d) /\ Len(d) \in Nat
      /\ n >= after /\ \A j \in DOMAIN d : StampOf(d[j]) <= n
      /\ n = after \/ \E j \in DOMAIN d : StampOf(d[j]) = n
  BY <1>1 DEF ShowsPebble, PebbleAnswer
<1> DEFINE D == {d[j] : j \in DOMAIN d}
<1>3. /\ \A y \in D : /\ \E i \in DOMAIN pebble : y = pebble[i]
                       /\ y \in Nat /\ StampOf(y) \in Nat /\ StampOf(y) > after /\ StampOf(y) <= n
                       /\ y \in 1..written
      /\ n = after \/ \E y \in D : StampOf(y) = n
      /\ follower.offset # None \/ tail = None =>
            \A i \in DOMAIN pebble : StampOf(pebble[i]) > after => pebble[i] \in D
      /\ \A i, k \in DOMAIN pebble :
            i < k /\ StampOf(pebble[k]) > after /\ pebble[i] \in D => pebble[k] \in D
  <2>1. \A j \in DOMAIN d : (\E i \in DOMAIN pebble : d[j] = pebble[i]) /\ StampOf(d[j]) > after
    BY DEF ShowsPebble, PebbleAnswer
  <2>2. ASSUME NEW j \in DOMAIN d
        PROVE  /\ \E i \in DOMAIN pebble : d[j] = pebble[i]
               /\ d[j] \in Nat /\ StampOf(d[j]) \in Nat /\ StampOf(d[j]) > after /\ StampOf(d[j]) <= n
               /\ d[j] \in 1..written
    BY <1>1, <1>2, <2>1
  <2>3. /\ follower.offset # None \/ tail = None =>
              \A i \in DOMAIN pebble : StampOf(pebble[i]) > after => pebble[i] \in D
        /\ \A i, k \in DOMAIN pebble :
              i < k /\ StampOf(pebble[k]) > after /\ pebble[i] \in D => pebble[k] \in D
    BY DEF ShowsPebble, PebbleAnswer
  <2> QED BY <1>2, <2>2, <2>3
<1>4. /\ follower.offset = None => follower.out = <<>> /\ Out = {} /\ after = 0 /\ tail = follower.tail
      /\ follower.offset # None => after = follower.offset /\ Reached /\ Behind /\ SkippedFor
            /\ \A i, j \in DOMAIN follower.out : i # j => follower.out[i] # follower.out[j]
  BY DEF ShowsPebble, LogInv, Placed, PebbleTo, Out
<1>5. ShownAs(f, d, n, "Pebble", at)
  BY <1>e, ShownFields DEF LogInv, ShowsPebble
<1>6. /\ follower'.at = at /\ follower'.source = "Pebble" /\ follower'.offset = n
      /\ follower'.out = follower.out \o d /\ follower'.life = follower.life
      /\ follower'.due = follower.due /\ follower'.tail = follower.tail
  BY <1>e, <1>5 DEF ShownAs
<1>7. follower' \in Followers
  BY <1>2, <1>e, <1>5 DEF ShownAs, ShowsPebble
<1>8. /\ named' = named /\ running' = running /\ captured' = captured /\ pebble' = pebble
      /\ written' = written /\ stored' = stored /\ stamps' = stamps
  BY DEF Log!container, ShowsPebble
<1>9. PICK o : o = follower.out \o d
  OBVIOUS
<1>10. /\ DOMAIN o = 1..(Len(follower.out) + Len(d))
       /\ \A i \in DOMAIN o : \/ i <= Len(follower.out) /\ i \in DOMAIN follower.out /\ o[i] = follower.out[i]
                              \/ /\ i > Len(follower.out) /\ i - Len(follower.out) \in DOMAIN d
                                 /\ o[i] = d[i - Len(follower.out)]
  <2>1. /\ DOMAIN o = 1..(Len(follower.out) + Len(d))
        /\ \A i \in 1..(Len(follower.out) + Len(d)) :
              o[i] = IF i <= Len(follower.out) THEN follower.out[i] ELSE d[i - Len(follower.out)]
    BY <1>1, <1>2, <1>9, Concat
  <2>2. ASSUME NEW i \in DOMAIN o
        PROVE  \/ i <= Len(follower.out) /\ i \in DOMAIN follower.out /\ o[i] = follower.out[i]
               \/ /\ i > Len(follower.out) /\ i - Len(follower.out) \in DOMAIN d
                  /\ o[i] = d[i - Len(follower.out)]
    <3>1. i \in 1..(Len(follower.out) + Len(d)) /\ i \in Nat
      BY <1>1, <1>2, <2>1
    <3>2. i <= Len(follower.out) => i \in 1..Len(follower.out)
      BY <1>1, <3>1
    <3>3. ~(i <= Len(follower.out)) => i > Len(follower.out) /\ i - Len(follower.out) \in 1..Len(d)
      BY <1>1, <1>2, <3>1
    <3> QED BY <1>1, <1>2, <2>1, <3>1, <3>2, <3>3
  <2> QED BY <2>1, <2>2
<1>11. Out' = Out \cup D
  <2>1. \A e : Log!Contains(follower.out \o d, e) <=> Log!Contains(follower.out, e) \/ Log!Contains(d, e)
    BY <1>1, <1>2, Concat
  <2>2. \A e : Log!Contains(d, e) <=> e \in D
    BY <1>2 DEF Log!Contains
  <2>3. \A e : Log!Contains(follower.out, e) <=> e \in Out
    BY OutContains DEF LogInv
  <2>4. \A e : Log!Contains(o, e) <=> e \in {o[j] : j \in DOMAIN o}
    <3>1. o \in Seq(Nat) /\ DOMAIN o = 1..Len(o)
      BY <1>1, <1>2, <1>9, Concat
    <3> QED BY <3>1 DEF Log!Contains
  <2>5. Out' = {o[j] : j \in DOMAIN o}
    BY <1>6, <1>9 DEF Out
  <2> QED BY <1>9, <2>1, <2>2, <2>3, <2>4, <2>5
<1>12. \A x : StampOf(x)' = StampOf(x) /\ (Stamped(x)' <=> Stamped(x))
  BY <1>8 DEF StampOf, Stamped
<1>13. \A x \in Out : /\ Stamped(x) /\ StampOf(x) > 0 /\ StampOf(x) <= after /\ StampOf(x) \in Nat
                      /\ x \in 1..written /\ x \in Nat /\ follower.offset # None
  BY <1>1, <1>4 DEF Reached, Stamped
<1>14. \A x \in Out, y \in D : x # y
  BY <1>2, <1>3, <1>13
<1>15. LogType'
  <2>1. Ordered(captured)' /\ Ordered(pebble)' /\ (\A i \in DOMAIN pebble : Stamped(pebble[i]))'
    BY <1>8, <1>12 DEF LogInv, LogType, Ordered
  <2>2. (\A i \in DOMAIN follower.out : follower.out[i] \in 1..written)'
    BY <1>1, <1>3, <1>6, <1>8, <1>9, <1>10
  <2> QED BY <1>7, <1>8, <2>1, <2>2 DEF LogInv, LogType
<1>16. Placed'
  BY <1>1, <1>2, <1>6, <1>8 DEF LogInv, Placed, ShowsPebble
<1>17. CapturedTo'
  BY <1>6 DEF CapturedTo
<1>18. DueIsThere'
  BY <1>6, <1>8 DEF LogInv, DueIsThere, Same
<1> HIDE DEF D
<1>19. Reached'
  <2>1. \A x \in Out \cup D : Stamped(x) /\ StampOf(x) > 0 /\ StampOf(x) <= n
    <3>1. \A x \in Out : Stamped(x) /\ StampOf(x) > 0 /\ StampOf(x) <= n
      BY <1>2, <1>13
    <3>2. \A x \in D : Stamped(x) /\ StampOf(x) > 0 /\ StampOf(x) <= n
      BY <1>2, <1>3 DEF Stamped
    <3> QED BY <3>1, <3>2
  <2>2. n = 0 \/ \E x \in Out \cup D : StampOf(x) = n
    BY <1>3, <1>4 DEF Reached
  <2> QED BY <1>2, <1>6, <1>11, <1>12, <2>1, <2>2 DEF Reached
<1>20. ASSUME NEW i \in DOMAIN o, NEW j \in DOMAIN o, i # j
       PROVE  o[i] # o[j]
  <2>1. \A x, y \in DOMAIN follower.out : x # y => follower.out[x] # follower.out[y]
    BY <1>1, <1>4
  <2>2. \A x, y \in DOMAIN d : x # y => d[x] # d[y]
    BY <1>2, IncreasingDistinct
  <2>3. \A x \in DOMAIN follower.out, y \in DOMAIN d : follower.out[x] # d[y]
    BY <1>14 DEF Out, D
  <2>4. i \in Nat /\ j \in Nat /\ Len(follower.out) \in Nat
    BY <1>1, <1>2, <1>10
  <2>5. i - Len(follower.out) # j - Len(follower.out)
    BY <1>20, <2>4
  <2>6. CASE i <= Len(follower.out) /\ j <= Len(follower.out)
    <3>1. /\ i \in DOMAIN follower.out /\ o[i] = follower.out[i]
          /\ j \in DOMAIN follower.out /\ o[j] = follower.out[j]
      BY <1>10, <2>4, <2>6
    <3> QED BY <1>20, <2>1, <3>1
  <2>7. CASE i <= Len(follower.out) /\ ~(j <= Len(follower.out))
    <3>1. /\ i \in DOMAIN follower.out /\ o[i] = follower.out[i]
          /\ j - Len(follower.out) \in DOMAIN d /\ o[j] = d[j - Len(follower.out)]
      BY <1>10, <2>4, <2>7
    <3> QED BY <2>3, <3>1
  <2>8. CASE ~(i <= Len(follower.out)) /\ j <= Len(follower.out)
    <3>1. /\ j \in DOMAIN follower.out /\ o[j] = follower.out[j]
          /\ i - Len(follower.out) \in DOMAIN d /\ o[i] = d[i - Len(follower.out)]
      BY <1>10, <2>4, <2>8
    <3> QED BY <2>3, <3>1
  <2>9. CASE ~(i <= Len(follower.out)) /\ ~(j <= Len(follower.out))
    <3>1. /\ j - Len(follower.out) \in DOMAIN d /\ o[j] = d[j - Len(follower.out)]
          /\ i - Len(follower.out) \in DOMAIN d /\ o[i] = d[i - Len(follower.out)]
      BY <1>10, <2>4, <2>9
    <3> QED BY <2>2, <2>5, <3>1
  <2> QED BY <2>6, <2>7, <2>8, <2>9
<1>21. ASSUME InOrder
       PROVE  /\ Log!Increasing(o)
              /\ \A i \in DOMAIN pebble, x \in Out \cup D : pebble[i] < x => StampOf(pebble[i]) <= n
  <2>1. ASSUME NEW i \in DOMAIN pebble, NEW x \in Out \cup D, pebble[i] < x
        PROVE  StampOf(pebble[i]) <= n
    <3> SUFFICES ASSUME StampOf(pebble[i]) > n PROVE FALSE
      BY <1>1, <1>2
    <3>1. StampOf(pebble[i]) > after
      BY <1>1, <1>2
    <3>2. pebble[i] \notin D
      BY <1>1, <1>2, <1>3
    <3>3. follower.offset = None /\ tail # None /\ follower.tail # None /\ x \in D
      BY <1>3, <1>4, <2>1, <3>1, <3>2
    <3>4. Log!NeverBack
      BY <1>21, <3>3 DEF InOrder
    <3>5. /\ pebble[i] \in DOMAIN stamps /\ x \in DOMAIN stamps /\ StampOf(x) \in Nat /\ StampOf(x) > after
          /\ StampOf(x) <= n
      <4>1. DOMAIN stamps = 1..written
        BY <1>1 DEF LogInv, LogType
      <4> QED BY <1>1, <1>3, <3>3, <4>1
    <3>6. StampOf(x) \notin {None, 0} /\ StampOf(pebble[i]) # None
      BY <1>1, <1>2, <3>5
    <3>7. StampOf(pebble[i]) <= StampOf(x)
      BY <2>1, <3>4, <3>5, <3>6 DEF Log!NeverBack, StampOf
    <3> QED BY <1>1, <1>2, <3>5, <3>7
  <2>2. ASSUME NEW x \in Out, NEW y \in D
        PROVE  x < y
    <3>1. PICK i \in DOMAIN pebble : y = pebble[i]
      BY <1>3
    <3>2. ~(pebble[i] < x)
      <4> SUFFICES ASSUME pebble[i] < x PROVE FALSE
        OBVIOUS
      <4>1. StampOf(pebble[i]) <= after
        BY <1>4, <1>13, <1>21 DEF Behind
      <4> QED BY <1>2, <1>3, <3>1, <4>1
    <3> QED BY <1>1, <1>13, <1>14, <3>1, <3>2
  <2>3. Log!Increasing(follower.out)
    BY <1>4, <1>21 DEF Behind, Log!Increasing
  <2>4. \A x \in DOMAIN follower.out, y \in DOMAIN d : follower.out[x] < d[y]
    BY <2>2 DEF Out, D
  <2>5. ASSUME NEW i \in DOMAIN o, NEW j \in DOMAIN o, i < j
        PROVE  o[i] < o[j]
    <3>0. i \in Nat /\ j \in Nat
      BY <1>1, <1>2, <1>10
    <3>1. CASE j <= Len(follower.out)
      <4>1. i <= Len(follower.out) /\ ~(i > Len(follower.out)) /\ ~(j > Len(follower.out))
        BY <1>1, <2>5, <3>0, <3>1
      <4>2. /\ i \in DOMAIN follower.out /\ o[i] = follower.out[i]
            /\ j \in DOMAIN follower.out /\ o[j] = follower.out[j]
        BY <1>10, <4>1
      <4> QED BY <2>3, <2>5, <4>2 DEF Log!Increasing
    <3>2. CASE i <= Len(follower.out) /\ j > Len(follower.out)
      <4>1. ~(i > Len(follower.out)) /\ ~(j <= Len(follower.out))
        BY <1>1, <3>0, <3>2
      <4>2. /\ i \in DOMAIN follower.out /\ o[i] = follower.out[i]
            /\ j - Len(follower.out) \in DOMAIN d /\ o[j] = d[j - Len(follower.out)]
        BY <1>10, <4>1
      <4> QED BY <2>4, <4>2
    <3>3. CASE i > Len(follower.out)
      <4>1. /\ i - Len(follower.out) \in DOMAIN d /\ j - Len(follower.out) \in DOMAIN d
            /\ i - Len(follower.out) < j - Len(follower.out)
            /\ o[i] = d[i - Len(follower.out)] /\ o[j] = d[j - Len(follower.out)]
        BY <1>1, <1>10, <2>5, <3>0, <3>3
      <4> QED BY <1>2, <4>1 DEF Log!Increasing
    <3> QED BY <1>1, <2>5, <3>0, <3>1, <3>2, <3>3
  <2> QED BY <2>1, <2>5 DEF Log!Increasing
<1>22. Behind'
  <2>1. InOrder' => InOrder
    BY <1>6, <1>8 DEF InOrder, Log!NeverBack
  <2>2. Log!Increasing(o) => Log!Increasing(follower.out)'
    BY <1>6, <1>9 DEF Log!Increasing
  <2> QED BY <1>6, <1>8, <1>11, <1>12, <1>21, <2>1, <2>2 DEF Behind
<1>23. ASSUME NEW i \in DOMAIN pebble, pebble[i] \notin Out \cup D, NEW x \in Out \cup D, x < pebble[i]
       PROVE  \E y \in Out \cup D : y < pebble[i] /\ StampOf(y) >= StampOf(pebble[i])
  <2>1. CASE x \in Out
    <3>1. follower.offset # None /\ after = follower.offset /\ SkippedFor
      BY <1>4, <1>13, <2>1
    <3>2. StampOf(pebble[i]) <= after
      BY <1>1, <1>2, <1>3, <1>23, <3>1
    <3> QED BY <1>23, <2>1, <3>1, <3>2 DEF SkippedFor
  <2>2. CASE x \in D
    <3>1. PICK k \in DOMAIN pebble : x = pebble[k]
      BY <1>3, <2>2
    <3>2. k < i
      <4>1. k \in Nat /\ i \in Nat
        BY <1>1
      <4>2. k # i
        BY <1>23, <2>2, <3>1
      <4>3. ~(i < k)
        <5> SUFFICES ASSUME i < k PROVE FALSE
          OBVIOUS
        <5>1. pebble[i] < pebble[k]
          BY <1>1 DEF Ordered, Log!Increasing
        <5> QED BY <1>1, <1>23, <3>1, <5>1
      <4> QED BY <4>1, <4>2, <4>3
    <3>3. ~(StampOf(pebble[i]) > after)
      BY <1>3, <1>23, <2>2, <3>1, <3>2
    <3>4. StampOf(x) >= StampOf(pebble[i])
      BY <1>1, <1>2, <1>3, <2>2, <3>3
    <3> QED BY <1>23, <3>4
  <2> QED BY <1>23, <2>1, <2>2
<1>24. SkippedFor'
  BY <1>8, <1>11, <1>12, <1>23 DEF SkippedFor
<1>25. PebbleTo'
  BY <1>6, <1>9, <1>19, <1>20, <1>22, <1>24 DEF PebbleTo
<1> QED BY <1>15, <1>16, <1>17, <1>18, <1>25 DEF LogInv

\* What was printed from Pebble depends on the entries, the stamps and these fields.
LEMMA PebbleKept ==
    ASSUME PebbleTo, stamps' = stamps, written' = written,
           pebble' = pebble \/ pebble' = <<>>,
           follower'.source = follower.source, follower'.offset = follower.offset,
           follower'.out = follower.out, follower'.tail = follower.tail
    PROVE  PebbleTo'
<1>1. DOMAIN <<>> = {}
  BY EmptySeq
<1>2. Out' = Out /\ (InOrder' <=> InOrder) /\ \A x : StampOf(x)' = StampOf(x) /\ (Stamped(x)' <=> Stamped(x))
  BY DEF Out, InOrder, Log!NeverBack, StampOf, Stamped
<1>3. Reached => Reached'
  BY <1>2 DEF Reached
<1>4. Behind => Behind'
  <2>1. Log!Increasing(follower.out)' <=> Log!Increasing(follower.out)
    BY DEF Log!Increasing
  <2>2. CASE pebble' = pebble
    BY <1>2, <2>1, <2>2 DEF Behind
  <2>3. CASE pebble' = <<>>
    BY <1>1, <1>2, <2>1, <2>3 DEF Behind
  <2> QED BY <2>2, <2>3
<1>5. SkippedFor => SkippedFor'
  <2>2. CASE pebble' = pebble
    BY <1>2, <2>2 DEF SkippedFor
  <2>3. CASE pebble' = <<>>
    BY <1>1, <1>2, <2>3 DEF SkippedFor
  <2> QED BY <2>2, <2>3
<1> QED BY <1>3, <1>4, <1>5 DEF PebbleTo

\* A follower that moves on without an answer.
LEMMA FollowerStops ==
    ASSUME LogInv, UNCHANGED Log!container, follower' = [follower EXCEPT !.at = "failed"]
    PROVE  LogInv'
<1>1. follower \in Followers
  BY DEF LogInv, LogType
<1>2. /\ follower'.at = "failed" /\ follower'.source = follower.source
      /\ follower'.offset = follower.offset /\ follower'.out = follower.out
      /\ follower'.life = follower.life /\ follower'.due = follower.due
      /\ follower'.since = follower.since /\ follower'.follow = follower.follow
      /\ follower'.tail = follower.tail
  BY <1>1 DEF Followers
<1>3. follower' \in Followers
  BY <1>1 DEF Followers
<1>4. /\ named' = named /\ running' = running /\ captured' = captured /\ pebble' = pebble
      /\ written' = written /\ stored' = stored /\ stamps' = stamps
  BY DEF Log!container
<1>5. LogType'
  BY <1>2, <1>3, <1>4 DEF LogInv, LogType, Ordered, Stamped, StampOf
<1>6. Placed'
  BY <1>2, <1>4 DEF LogInv, Placed
<1>7. CapturedTo' /\ DueIsThere'
  BY <1>2, <1>4 DEF LogInv, CapturedTo, DueIsThere, Same, Log!Increasing
<1>8. PebbleTo'
  BY <1>2, <1>4, PebbleKept DEF LogInv
<1> QED BY <1>5, <1>6, <1>7, <1>8 DEF LogInv

\* The follower looks at the container, or fails to.
LEMMA FollowerChecks ==
    ASSUME LogInv, Log!Check \/ Log!CheckFails
    PROVE  LogInv'
<1>1. follower \in Followers /\ captured \in Seq(Nat) /\ running \in BOOLEAN /\ Len(captured) \in Nat
  BY DEF LogInv, LogType
<1>2. /\ named' = named /\ running' = running /\ captured' = captured /\ pebble' = pebble
      /\ written' = written /\ stored' = stored /\ stamps' = stamps /\ UNCHANGED Log!container
  BY DEF Log!container, Log!Check, Log!CheckFails
<1>3. follower.at = "check" /\ follower.offset # None /\ follower.source \in {"Captured", "Pebble"}
  BY DEF Log!Check, Log!CheckFails, LogInv, Placed
<1>4. CASE follower' = [follower EXCEPT !.at = "failed"]
  BY <1>2, <1>4, FollowerStops
<1>5. ASSUME ~(follower' = [follower EXCEPT !.at = "failed"])
      PROVE  /\ follower'.source = follower.source
             /\ follower'.offset = follower.offset /\ follower'.out = follower.out
             /\ follower'.life = follower.life /\ follower'.due \in {follower.due, Len(captured)}
             /\ follower'.since = follower.since /\ follower'.follow = follower.follow
             /\ follower'.tail = follower.tail
             /\ follower'.at \in {"read", "done"}
             /\ follower'.at = "done" => follower.source = "Pebble"
             /\ follower' \in Followers
  <2>1. CASE Log!Check
    <3> DEFINE due == IF ~running THEN Len(captured) ELSE follower.due
               at == IF follower.by = "cli" /\ follower.source = "Pebble" /\ ~running
                     THEN "done" ELSE "read"
    <3>1. follower' = [follower EXCEPT !.running = running, !.due = due, !.at = at]
      BY <2>1 DEF Log!Check
    <3>2. due \in {follower.due, Len(captured)} /\ at \in {"read", "done"}
          /\ (at = "done" => follower.source = "Pebble") /\ due \in Nat
      BY <1>1 DEF Followers
    <3> HIDE DEF due, at
    <3> QED BY <1>1, <3>1, <3>2 DEF Followers
  <2>2. CASE Log!CheckFails
    <3>1. follower' = [follower EXCEPT !.at = "read", !.running = FALSE]
      BY <1>5, <2>2 DEF Log!CheckFails
    <3> QED BY <1>1, <3>1 DEF Followers
  <2> QED BY <2>1, <2>2
<1>6. ASSUME ~(follower' = [follower EXCEPT !.at = "failed"])
      PROVE  LogInv'
  <2>1. LogType'
    BY <1>2, <1>5, <1>6 DEF LogInv, LogType, Ordered, Stamped, StampOf
  <2>2. Placed'
    BY <1>2, <1>3, <1>5, <1>6 DEF LogInv, Placed
  <2>3. CapturedTo'
    BY <1>2, <1>5, <1>6 DEF LogInv, CapturedTo, Same, Log!Increasing
  <2>4. DueIsThere'
    BY <1>1, <1>2, <1>5, <1>6 DEF LogInv, DueIsThere, Same
  <2>5. PebbleTo'
    BY <1>2, <1>5, <1>6, PebbleKept DEF LogInv
  <2> QED BY <2>1, <2>2, <2>3, <2>4, <2>5 DEF LogInv
<1> QED BY <1>4, <1>6

\* The first request and the later ones.
LEMMA FollowerAsks ==
    ASSUME LogInv, NEW fetched, Log!First(fetched) \/ Log!Read(fetched)
    PROVE  LogInv'
<1>1. /\ follower \in Followers /\ follower.tail \in {None, 1} /\ LogType
      /\ follower.offset \in Nat \cup {None} /\ None \notin Nat /\ follower.follow \in BOOLEAN
  BY NodeAssumption DEF LogInv, LogType, Followers
<1>2. UNCHANGED Log!container
  BY DEF Log!First, Log!Read
<1> DEFINE tail == IF follower.at = "first" THEN follower.tail ELSE None
<1>3. PICK r : r = Log!op_logs(tail, follower.offset, follower.source, fetched)
  OBVIOUS
<1>4. PICK at : /\ at \in {"check", "read", "done"}
                /\ at = "done" /\ follower.follow => follower.offset # None
                /\ follower' = IF r = None THEN [follower EXCEPT !.at = "failed"]
                               ELSE Log!Shown(r, at)
  <2>1. CASE Log!First(fetched)
    <3> DEFINE to == IF follower.by = "cli" THEN "check"
                     ELSE IF ~follower.follow THEN "done"
                     ELSE IF r.data = <<>> THEN "check" ELSE "read"
    <3>1. follower.at = "first" /\ follower.offset = None
      BY <2>1 DEF Log!First, LogInv, Placed
    <3>2. r = Log!op_logs(follower.tail, None, follower.source, fetched)
      BY <1>3, <3>1
    <3>3. follower' = IF r = None THEN [follower EXCEPT !.at = "failed"] ELSE Log!Shown(r, to)
      BY <2>1, <3>2 DEF Log!First
    <3>4. to \in {"check", "read", "done"} /\ ~(to = "done" /\ follower.follow)
      OBVIOUS
    <3> HIDE DEF to
    <3> QED BY <3>3, <3>4
  <2>2. CASE Log!Read(fetched)
    <3> DEFINE to == IF ~follower.running \/ ~follower.follow THEN "done"
                     ELSE IF follower.by = "cli" \/ r.data = <<>> THEN "check" ELSE "read"
    <3>1. follower.at = "read" /\ follower.offset # None
      BY <2>2 DEF Log!Read, LogInv, Placed
    <3>2. r = Log!op_logs(None, follower.offset, follower.source, fetched)
      BY <1>3, <3>1
    <3>3. follower' = IF r = None THEN [follower EXCEPT !.at = "failed"] ELSE Log!Shown(r, to)
      BY <2>2, <3>2 DEF Log!Read
    <3>4. to \in {"check", "read", "done"}
      OBVIOUS
    <3> HIDE DEF to
    <3> QED BY <3>1, <3>3, <3>4
  <2> QED BY <2>1, <2>2
<1>5. tail \in {None, 1}
  BY <1>1
<1>9. follower.offset = None => tail = follower.tail
  <2>1. follower.offset = None => follower.at = "first"
    BY DEF LogInv, Placed, Log!First, Log!Read
  <2> QED BY <2>1
<1> HIDE DEF tail
<1>6. follower.offset # None => follower.source \in {"Captured", "Pebble"}
  BY DEF LogInv, Placed
<1>7. CASE r = None
  <2>1. follower' = [follower EXCEPT !.at = "failed"]
    BY <1>4, <1>7
  <2> QED BY <1>2, <2>1, FollowerStops
<1>8. CASE r # None
  <2>1. follower' = Log!Shown(r, at)
    BY <1>4, <1>8
  <2>2. \/ r = Log!captured_logs(tail, follower.offset) /\ follower.source # "Pebble"
        \/ r = Log!pebble_logs(tail, follower.offset) /\ follower.source # "Captured"
    BY <1>3, <1>8, Answers
  <2>3. CASE r = Log!captured_logs(tail, follower.offset) /\ follower.source # "Pebble"
    <3>1. PICK k \in 0..Len(captured) :
              /\ r = [data |-> SubSeq(captured, k + 1, Len(captured)),
                      next_offset |-> Len(captured), source |-> "Captured"]
              /\ follower.offset # None =>
                    k = IF follower.offset <= Len(captured) THEN follower.offset ELSE Len(captured)
      BY <1>1, <1>5, <2>3, CapturedIs
    <3>2. ShowsCaptured(k, at)
      BY <1>2, <1>4, <1>6, <2>1, <2>3, <3>1 DEF ShowsCaptured
    <3> QED BY <3>2, CapturedShown
  <2>4. CASE r = Log!pebble_logs(tail, follower.offset) /\ follower.source # "Captured"
    <3>0. PICK after : after = IF follower.offset = None THEN 0 ELSE follower.offset
      OBVIOUS
    <3>1. PICK d, n : /\ r = [data |-> d, next_offset |-> n, source |-> "Pebble"]
                      /\ PebbleAnswer(tail, follower.offset, after, d, n)
      BY <1>1, <1>5, <2>4, <3>0, PebbleIs
    <3>2. ShowsPebble(d, n, tail, after, at)
      BY <1>2, <1>4, <1>6, <1>9, <2>1, <2>4, <3>0, <3>1 DEF ShowsPebble
    <3> QED BY <3>2, PebbleShown
  <2> QED BY <2>2, <2>3, <2>4
<1> QED BY <1>7, <1>8

\* A log that was written to.
Lengthened(s, w, t) ==
    /\ t \in Seq(Nat) /\ Len(t) = Len(s) + 1 /\ Len(s) \in Nat
    /\ DOMAIN t = 1..(Len(s) + 1) /\ DOMAIN s = 1..Len(s)
    /\ \A i \in 1..Len(s) : t[i] = s[i]
    /\ t[Len(s) + 1] = w
    /\ Log!Increasing(t)
    /\ \A i \in DOMAIN t : t[i] \in 1..w
    /\ \A m \in 0..Len(s), n \in 0..Len(s) : SubSeq(t, m + 1, n) = SubSeq(s, m + 1, n)

\* The new line is the last, and the greatest.
LEMMA Appended ==
    ASSUME LogType, NEW s \in Seq(Nat), Ordered(s), NEW w \in Nat, w = written + 1
    PROVE  Lengthened(s, w, Append(s, w))
<1>0. PICK t : t = Append(s, w)
  OBVIOUS
<1>1. /\ t \in Seq(Nat) /\ Len(t) = Len(s) + 1 /\ Len(s) \in Nat
      /\ DOMAIN t = 1..(Len(s) + 1) /\ DOMAIN s = 1..Len(s)
      /\ \A i \in 1..Len(s) : t[i] = s[i]
      /\ t[Len(s) + 1] = w
  BY <1>0, AppendProperties
<1>2. written \in Nat /\ \A i \in 1..Len(s) : s[i] \in 1..written
  BY <1>1 DEF Ordered, LogType
<1>3. \A i \in DOMAIN t : (i \in 1..Len(s) /\ t[i] = s[i]) \/ (i = Len(s) + 1 /\ t[i] = w)
  BY <1>1
<1>4. \A i \in DOMAIN t : t[i] \in 1..w
  BY <1>2, <1>3
<1>5. ASSUME NEW i \in DOMAIN t, NEW j \in DOMAIN t, i < j
      PROVE  t[i] < t[j]
  <2>1. i \in 1..Len(s) /\ t[i] = s[i]
    BY <1>1, <1>3, <1>5
  <2>2. CASE j \in 1..Len(s)
    BY <1>1, <1>5, <2>1, <2>2 DEF Ordered, Log!Increasing
  <2>3. CASE j = Len(s) + 1
    BY <1>1, <1>2, <2>1, <2>3
  <2> QED BY <1>3, <2>2, <2>3
<1>6. ASSUME NEW m \in 0..Len(s), NEW n \in 0..Len(s)
      PROVE  SubSeq(t, m + 1, n) = SubSeq(s, m + 1, n)
  <2>1. m \in Nat /\ n \in Nat /\ m + 1 \in Int
    BY <1>1
  <2>2. CASE n < m + 1
    BY <2>1, <2>2, SubSeqEmpty
  <2>3. CASE ~(n < m + 1)
    <3>1. m + 1 \in 1..Len(s) /\ n \in 1..Len(s)
      BY <1>1, <2>1, <2>3
    <3>2. t = s \o <<w>> /\ <<w>> \in Seq(Nat)
      BY <1>0, AppendIsConcat
    <3> QED BY <3>1, <3>2, SubSeqOfConcat1
  <2> QED BY <2>2, <2>3
<1> QED BY <1>0, <1>1, <1>4, <1>5, <1>6 DEF Lengthened, Log!Increasing

\* The container writes.
LEMMA ContainerWrites == ASSUME LogInv, Log!Write PROVE LogInv'
<1>1. /\ captured \in Seq(Nat) /\ pebble \in Seq(Nat) /\ Ordered(captured) /\ Ordered(pebble)
      /\ \A i \in DOMAIN follower.out : follower.out[i] \in 1..written
      /\ \A i \in DOMAIN pebble : Stamped(pebble[i]) /\ pebble[i] \in 1..written
      /\ written \in Nat /\ LogType
      /\ follower.offset \in Nat \cup {None} /\ None \notin Nat /\ follower.due \in Nat
      /\ follower.out \in Seq(Nat)
      /\ stamps \in Seq(Nat \cup {None}) /\ Len(stamps) = written
  BY NodeAssumption DEF LogInv, LogType, Followers, Stamped
<1>2. /\ written' = written + 1 /\ follower' = follower /\ named' = named /\ stored' = stored
      /\ running' = running
  BY DEF Log!Write
<1>3. PICK w \in Nat : w = written + 1 /\ written' = w
  BY <1>1, <1>2
<1>4. \A x : x \in 1..written => x \in 1..w /\ x < w /\ x \in Nat
  BY <1>1, <1>3
<1>5. Placed'
  BY <1>2 DEF LogInv, Placed
<1>6. Same' => Same
  BY <1>2 DEF Same
<1>t. PICK st \in Nat \cup {None} :
        /\ stamps' = Append(stamps, st)
        /\ \/ pebble' = pebble /\ captured' = Append(captured, w)
           \/ pebble' = Append(pebble, w) /\ captured' = captured /\ st \in Nat
  <2>1. CASE captured' = Append(captured, written') /\ pebble' = pebble /\ stamps' = Append(stamps, None)
    <3>1. None \in Nat \cup {None} /\ captured' = Append(captured, w)
      BY <1>3, <2>1
    <3> QED BY <2>1, <3>1
  <2>2. CASE pebble' = Append(pebble, written') /\ captured' = captured
             /\ \E t \in Stamps : stamps' = Append(stamps, t)
    <3>1. PICK t \in Stamps : stamps' = Append(stamps, t)
      BY <2>2
    <3>2. t \in Nat
      BY NodeAssumption
    <3> QED BY <1>3, <2>2, <3>1, <3>2
  <2> QED BY <2>1, <2>2 DEF Log!Write
<1>s. /\ stamps' \in Seq(Nat \cup {None}) /\ Len(stamps') = w /\ stamps'[w] = st
      /\ \A x \in 1..written : stamps'[x] = stamps[x]
      /\ DOMAIN stamps = 1..written /\ DOMAIN stamps' = 1..w
  <2>1. /\ stamps' = Append(stamps, st) /\ Len(stamps) = written /\ w = written + 1
        /\ stamps \in Seq(Nat \cup {None}) /\ st \in Nat \cup {None} /\ written \in Nat
    BY <1>1, <1>3, <1>t
  <2> QED BY <2>1
<1>u. \A x \in 1..written : StampOf(x)' = StampOf(x) /\ (Stamped(x) => Stamped(x)')
  BY <1>3, <1>4, <1>s DEF StampOf, Stamped
<1>o. /\ Out' = Out /\ \A x \in Out : x \in 1..written
      /\ \A i \in DOMAIN follower.out : follower.out[i] \in 1..w
  BY <1>1, <1>2, <1>4 DEF Out
<1>v. InOrder' => InOrder
  <2> SUFFICES ASSUME Log!NeverBack' PROVE Log!NeverBack
    BY <1>2 DEF InOrder
  <2>1. \A x \in DOMAIN stamps : x \in DOMAIN stamps' /\ stamps'[x] = stamps[x]
    BY <1>4, <1>s
  <2> QED BY <2>1 DEF Log!NeverBack
<1>r. Reached => Reached'
  BY <1>2, <1>o, <1>u DEF Reached
<1>7. CASE pebble' = pebble /\ captured' = Append(captured, w)
  <2>1. PICK t : t = captured'
    OBVIOUS
  <2>2. t = Append(captured, w)
    BY <1>7, <2>1
  <2>3. /\ t \in Seq(Nat) /\ Len(t) = Len(captured) + 1 /\ Len(captured) \in Nat
        /\ DOMAIN t = 1..(Len(captured) + 1) /\ DOMAIN captured = 1..Len(captured)
        /\ \A i \in 1..Len(captured) : t[i] = captured[i]
        /\ t[Len(captured) + 1] = w
        /\ Log!Increasing(t)
        /\ \A i \in DOMAIN t : t[i] \in 1..w
        /\ \A m \in 0..Len(captured), n \in 0..Len(captured) :
              SubSeq(t, m + 1, n) = SubSeq(captured, m + 1, n)
    <3>1. Lengthened(captured, w, t)
      BY <1>1, <1>3, <2>2, Appended
    <3> QED BY <3>1 DEF Lengthened
  <2>4. Ordered(captured)' /\ Ordered(pebble)' /\ (\A i \in DOMAIN pebble : Stamped(pebble[i]))'
    <3>1. Ordered(captured)'
      BY <1>3, <2>1, <2>3 DEF Ordered
    <3>2. Ordered(pebble)'
      BY <1>1, <1>3, <1>4, <1>7 DEF Ordered, Log!Increasing
    <3>3. (\A i \in DOMAIN pebble : Stamped(pebble[i]))'
      BY <1>1, <1>7, <1>u
    <3> QED BY <3>1, <3>2, <3>3
  <2>5. LogType'
    BY <1>2, <1>3, <1>7, <1>s, <1>o, <2>1, <2>3, <2>4 DEF LogInv, LogType
  <2>6. CapturedTo'
    <3> SUFFICES ASSUME follower.offset # None, follower.source = "Captured"
                 PROVE  /\ \A i \in DOMAIN t : i > follower.offset =>
                              \A j \in DOMAIN follower.out : follower.out[j] < t[i]
                        /\ Same => /\ follower.since \in 0..follower.offset /\ follower.offset <= Len(t)
                                   /\ follower.out = SubSeq(t, follower.since + 1, follower.offset)
                                   /\ follower.at = "done" /\ follower.follow
                                         => follower.offset >= follower.due
      BY <1>2, <1>6, <2>1 DEF LogInv, CapturedTo, Log!Increasing
    <3>1. ASSUME NEW i \in DOMAIN t, i > follower.offset, NEW j \in DOMAIN follower.out
          PROVE  follower.out[j] < t[i]
      <4>1. CASE i \in 1..Len(captured)
        BY <2>3, <3>1, <4>1 DEF LogInv, CapturedTo
      <4>2. CASE i = Len(captured) + 1
        <5>1. follower.out[j] \in 1..written /\ t[i] = w
          BY <1>1, <2>3, <4>2
        <5> QED BY <1>1, <1>3, <5>1
      <4> QED BY <2>3, <4>1, <4>2
    <3>2. ASSUME Same
          PROVE  /\ follower.since \in 0..follower.offset /\ follower.offset <= Len(t)
                 /\ follower.out = SubSeq(t, follower.since + 1, follower.offset)
                 /\ follower.at = "done" /\ follower.follow => follower.offset >= follower.due
      <4>1. /\ follower.since \in 0..follower.offset /\ follower.offset <= Len(captured)
            /\ follower.out = SubSeq(captured, follower.since + 1, follower.offset)
            /\ follower.at = "done" /\ follower.follow => follower.offset >= follower.due
        BY <3>2 DEF LogInv, CapturedTo
      <4>2. follower.offset \in 0..Len(captured) /\ follower.since \in 0..Len(captured)
            /\ follower.offset <= Len(t)
        BY <1>1, <2>3, <4>1
      <4> QED BY <2>3, <4>1, <4>2
    <3> QED BY <3>1, <3>2
  <2>7. DueIsThere'
    <3>1. Same => follower.due <= Len(captured)
      BY DEF LogInv, DueIsThere
    <3>2. Same => follower.due <= Len(t)
      BY <1>1, <2>3, <3>1
    <3> QED BY <1>2, <1>6, <2>1, <3>2 DEF DueIsThere
  <2>8. PebbleTo'
    <3>1. Behind => Behind'
      BY <1>1, <1>2, <1>7, <1>o, <1>u, <1>v DEF Behind, Log!Increasing
    <3>2. SkippedFor => SkippedFor'
      BY <1>1, <1>2, <1>7, <1>o, <1>u DEF SkippedFor
    <3> QED BY <1>2, <1>r, <3>1, <3>2 DEF LogInv, PebbleTo
  <2> QED BY <1>5, <2>5, <2>6, <2>7, <2>8 DEF LogInv
<1>8. CASE pebble' = Append(pebble, w) /\ captured' = captured /\ st \in Nat
  <2>1. PICK t : t = pebble'
    OBVIOUS
  <2>2. t = Append(pebble, w)
    BY <1>8, <2>1
  <2>3. /\ t \in Seq(Nat) /\ Len(t) = Len(pebble) + 1 /\ Len(pebble) \in Nat
        /\ DOMAIN t = 1..(Len(pebble) + 1) /\ DOMAIN pebble = 1..Len(pebble)
        /\ \A i \in 1..Len(pebble) : t[i] = pebble[i]
        /\ t[Len(pebble) + 1] = w
        /\ Log!Increasing(t)
        /\ \A i \in DOMAIN t : t[i] \in 1..w
    <3>1. Lengthened(pebble, w, t)
      BY <1>1, <1>3, <2>2, Appended
    <3> QED BY <3>1 DEF Lengthened
  <2>a. \A i \in DOMAIN t : (i \in DOMAIN pebble /\ t[i] = pebble[i]) \/ t[i] = w
    BY <2>3
  <2>4. Ordered(captured)' /\ Ordered(pebble)' /\ (\A i \in DOMAIN pebble : Stamped(pebble[i]))'
    <3>1. Ordered(pebble)'
      BY <1>3, <2>1, <2>3 DEF Ordered
    <3>2. Ordered(captured)'
      BY <1>1, <1>3, <1>4, <1>8 DEF Ordered, Log!Increasing
    <3>3. Stamped(w)'
      <4>1. w \in 1..w
        BY <1>1, <1>3
      <4>2. w \in 1..written' /\ stamps'[w] \in Nat
        BY <1>3, <1>8, <1>s, <4>1
      <4> QED BY <4>2 DEF Stamped, StampOf
    <3>4. (\A i \in DOMAIN pebble : Stamped(pebble[i]))'
      BY <1>1, <1>u, <2>1, <2>a, <3>3
    <3> QED BY <3>1, <3>2, <3>4
  <2>5. LogType'
    BY <1>2, <1>3, <1>8, <1>s, <1>o, <2>1, <2>3, <2>4 DEF LogInv, LogType
  <2>6. CapturedTo' /\ DueIsThere'
    BY <1>2, <1>6, <1>8 DEF LogInv, CapturedTo, DueIsThere, Log!Increasing
  <2>7. PebbleTo'
    <3> SUFFICES ASSUME follower.offset # None, follower.source = "Pebble"
                 PROVE  Reached' /\ Behind' /\ SkippedFor'
      BY <1>2 DEF LogInv, PebbleTo
    <3>0. Reached /\ Behind /\ SkippedFor
      BY DEF LogInv, PebbleTo
    <3>1. ~\E x \in Out : w < x
      BY <1>3, <1>4, <1>o
    <3>2. Behind'
      <4> SUFFICES ASSUME InOrder
                   PROVE  /\ Log!Increasing(follower.out)'
                          /\ \A i \in DOMAIN t, x \in Out : t[i] < x => StampOf(t[i])' <= follower.offset
        BY <1>2, <1>o, <1>v, <2>1 DEF Behind
      <4>1. Log!Increasing(follower.out)'
        BY <1>2, <3>0 DEF Behind, Log!Increasing
      <4>2. ASSUME NEW i \in DOMAIN t, NEW x \in Out, t[i] < x
            PROVE  StampOf(t[i])' <= follower.offset
        <5>1. i \in DOMAIN pebble /\ t[i] = pebble[i]
          BY <2>a, <3>1, <4>2
        <5> QED BY <1>1, <1>u, <3>0, <4>2, <5>1 DEF Behind
      <4> QED BY <4>1, <4>2
    <3>3. ASSUME NEW i \in DOMAIN t, t[i] \notin Out, StampOf(t[i])' <= follower.offset,
                 NEW x \in Out, x < t[i]
          PROVE  \E y \in Out : y < t[i] /\ StampOf(y)' >= StampOf(t[i])'
      <4>1. CASE i \in DOMAIN pebble /\ t[i] = pebble[i]
        <5>1. StampOf(t[i])' = StampOf(pebble[i])
          BY <1>1, <1>u, <4>1
        <5>2. PICK y \in Out : y < pebble[i] /\ StampOf(y) >= StampOf(pebble[i])
          BY <3>0, <3>3, <4>1, <5>1 DEF SkippedFor
        <5>3. StampOf(y)' = StampOf(y)
          BY <1>o, <1>u
        <5> QED BY <4>1, <5>1, <5>2, <5>3
      <4>2. CASE t[i] = w
        <5>1. StampOf(w)' = st /\ st <= follower.offset /\ follower.offset \in Nat
          BY <1>s, <3>0, <3>3, <4>2 DEF StampOf, Reached
        <5>2. \A y \in Out : y < w /\ StampOf(y)' = StampOf(y) /\ StampOf(y) \in Nat
          BY <1>4, <1>o, <1>u, <3>0 DEF Reached, Stamped
        <5>3. \E y \in Out : StampOf(y) >= st
          <6>1. CASE follower.offset = 0
            BY <1>8, <5>1, <5>2, <6>1
          <6>2. CASE follower.offset # 0
            <7>1. PICK y \in Out : StampOf(y) = follower.offset
              BY <3>0, <6>2 DEF Reached
            <7> QED BY <1>8, <5>1, <7>1
          <6> QED BY <6>1, <6>2
        <5>4. PICK y \in Out : StampOf(y) >= st
          BY <5>3
        <5> QED BY <4>2, <5>1, <5>2, <5>4
      <4> QED BY <2>a, <4>1, <4>2
    <3>4. SkippedFor'
      BY <1>2, <1>o, <2>1, <3>3 DEF SkippedFor
    <3> QED BY <1>r, <3>0, <3>2, <3>4
  <2> QED BY <1>5, <2>5, <2>6, <2>7 DEF LogInv
<1> QED BY <1>t, <1>7, <1>8

\* The container ends, starts, is removed and is run again.
LEMMA ContainerGoes ==
    ASSUME LogInv, Log!Exit \/ Log!Start \/ Log!Rm \/ Log!RunAgain
    PROVE  LogInv'
<1>1. written' = written /\ follower' = follower /\ stamps' = stamps
  BY DEF Log!Exit, Log!Start, Log!Rm, Log!RunAgain
<1>p. pebble' = pebble \/ pebble' = <<>>
  BY DEF Log!Exit, Log!Start, Log!Rm, Log!RunAgain
<1>q. PebbleTo'
  BY <1>1, <1>p, PebbleKept DEF LogInv
<1>2. <<>> \in Seq(Nat) /\ DOMAIN <<>> = {} /\ Ordered(<<>>)
  <2>1. <<>> \in Seq(Nat) /\ DOMAIN <<>> = {}
    BY EmptySeq
  <2> QED BY <2>1 DEF Ordered, Log!Increasing
<1>3. named \in Nat /\ follower.life \in Nat /\ follower.life <= named
  BY DEF LogInv, LogType, Placed, Followers
<1>4. CASE Log!Exit
  <2>1. /\ named' = named /\ stored' = stored /\ captured' = captured
        /\ pebble' = <<>> /\ running' = FALSE
    BY <1>4 DEF Log!Exit
  <2> QED BY <1>1, <1>q, <1>2, <2>1 DEF LogInv, LogType, Placed, CapturedTo, DueIsThere, Same, Ordered,
             Stamped, StampOf, Log!Increasing
<1>5. CASE Log!Start
  <2>1. /\ named' = named /\ stored' = stored /\ captured' = captured
        /\ pebble' = pebble /\ running' = TRUE
    BY <1>5 DEF Log!Start
  <2> QED BY <1>1, <1>q, <2>1 DEF LogInv, LogType, Placed, CapturedTo, DueIsThere, Same, Ordered,
             Stamped, StampOf, Log!Increasing
<1>6. CASE Log!Rm
  <2>1. /\ named' = named /\ stored' = FALSE /\ captured' = <<>>
        /\ pebble' = pebble /\ running' = running
    BY <1>6 DEF Log!Rm
  <2> QED BY <1>1, <1>q, <1>2, <2>1 DEF LogInv, LogType, Placed, CapturedTo, DueIsThere, Same, Ordered,
             Stamped, StampOf, Log!Increasing
<1>7. CASE Log!RunAgain
  <2>1. /\ named' = named + 1 /\ captured' = captured /\ pebble' = pebble /\ running' = TRUE
    BY <1>7 DEF Log!RunAgain
  <2>2. follower.life # named' /\ follower.life <= named' /\ named' \in Nat
    BY <1>3, <2>1
  <2> QED BY <1>1, <1>q, <2>1, <2>2 DEF LogInv, LogType, Placed, CapturedTo, DueIsThere, Same, Ordered,
             Stamped, StampOf, Log!Increasing
<1> QED BY <1>4, <1>5, <1>6, <1>7

\* A follower of a log, by the command line or the gateway, prints no line twice and keeps
\* their order, skips none of a captured log while the name stays with one container and
\* ends with everything that was written until it saw the container down, and skips of
\* Pebble's entries only those it cannot tell by their stamp from what it has printed, for
\* any number of lines and of lives.
THEOREM LogsFollowedWhole == NodeSpec => []FollowsWhole
<1>1. NodeInit => LogInv
  <2> SUFFICES ASSUME NodeInit PROVE LogInv
    OBVIOUS
  <2>1. /\ stored = TRUE /\ running = TRUE /\ named = 1 /\ captured = <<>> /\ pebble = <<>>
        /\ written = 0 /\ stamps = <<>>
        /\ \E by \in {"cli", "gateway"}, follow \in BOOLEAN, tail \in {None, 1},
             source \in {"Auto", "Captured", "Pebble"} :
               follower = Log!Fresh(by, follow, tail, source)
    BY DEF NodeInit, Log!Init
  <2>2. /\ follower \in Followers /\ follower.out = <<>> /\ follower.offset = None
        /\ follower.at = "first" /\ follower.life = 1 /\ follower.due = 0
    BY <2>1 DEF Log!Fresh, Followers
  <2>3. <<>> \in Seq(Nat) /\ DOMAIN <<>> = {} /\ Len(<<>>) = 0
    BY EmptySeq
  <2>4. Ordered(<<>>)
    BY <2>3 DEF Ordered, Log!Increasing
  <2>5. LogType
    BY <2>1, <2>2, <2>3, <2>4, EmptySeq DEF LogType
  <2> QED BY <2>1, <2>2, <2>3, <2>5 DEF LogInv, Placed, CapturedTo, DueIsThere, PebbleTo
<1>2. LogInv /\ [NodeNext]_nodeVars => LogInv'
  <2> SUFFICES ASSUME LogInv, [NodeNext]_nodeVars PROVE LogInv'
    OBVIOUS
  <2>1. CASE LogStep
    BY <2>1, FollowerAsks, FollowerChecks, ContainerWrites, ContainerGoes
       DEF LogStep, Log!Next, Log!FollowerStep
  <2>2. CASE UNCHANGED logs
    <3>1. /\ stored' = stored /\ running' = running /\ named' = named /\ captured' = captured
          /\ pebble' = pebble /\ written' = written /\ stamps' = stamps /\ follower' = follower
      BY <2>2 DEF logs
    <3>2. PebbleTo'
      BY <3>1, PebbleKept DEF LogInv
    <3>3. LogType' /\ Placed' /\ CapturedTo' /\ DueIsThere'
      BY <3>1 DEF LogInv, LogType, Placed, CapturedTo, DueIsThere, Same, Ordered, Stamped, StampOf, Log!Increasing
    <3> QED BY <3>2, <3>3 DEF LogInv
  <2>3. LogStep \/ UNCHANGED logs
    BY DEF NodeNext, SecretsStep, StoreStep, ImageStep, ExecStep, nodeVars, logs
  <2> QED BY <2>1, <2>2, <2>3
<1> QED BY <1>1, <1>2, LogImplies, PTL DEF NodeSpec
=============================================================================
