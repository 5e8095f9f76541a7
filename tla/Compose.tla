------------------------------- MODULE Compose -------------------------------
(***************************************************************************)
(* collocate up, down and cluster up.  A command splits the file over its  *)
(* nodes and then makes one call after the other to the daemons: it sees   *)
(* to the secrets, plans once per node from what it observes there, and    *)
(* carries the plan out, until a call fails.  Several users may do so at   *)
(* the same time; a secret may be rotated; containers exit and recover.    *)
(* A file has one secret, generated or kept in a file beside it, which      *)
(* services mount or have in a variable.  The daemons are external here: a  *)
(* call does what up.rs relies on.                                          *)
(***************************************************************************)
EXTENDS Naturals, Sequences, SequencesExt

CONSTANTS
    ServiceSeq,  \* the names of services in their order
    NodeSeq,     \* the names of nodes in theirs
    MaxReplicas,
    Files,       \* compose files
    Users,
    None,
    MaxCommands, \* bound on the commands of all users
    MaxRotations, \* bound on the values that the secret takes
    MaxFaults    \* bound on calls that fail and containers that exit

VARIABLES
    ctr,         \* per node and name: None or the container
    secret,      \* per node: the value of the secret, 0: none
    lbs,         \* per node: services with a load balancer
    client,      \* per user the command under way
    newest,      \* the last value that was generated or written
    disk,        \* what the file of the secret holds
    stale,       \* ghost: nodes where the secret changed and not all services were recreated
    commands, faults

vars == <<ctr, secret, lbs, client, newest, disk, stale, commands, faults>>

Services == Range(ServiceSeq)
Nodes == Range(NodeSeq)
CtrNames == Services \X (1..MaxReplicas)
LocalNode == Head(NodeSeq)   \* the node of up and down
Idle == [op |-> "idle"]

Sorted(S) == SelectSeq(ServiceSeq, LAMBDA s : s \in S)
SortedNames(S) ==
    FlattenSeq([i \in 1..Len(ServiceSeq) |->
        SelectSeq([r \in 1..MaxReplicas |-> <<ServiceSeq[i], r>>], LAMBDA n : n \in S)])
ForEach(seq, F(_)) == FlattenSeq([i \in 1..Len(seq) |-> F(seq[i])])

-----------------------------------------------------------------------------
(* Files and their split over nodes                                        *)

names_of(f, s) == {<<s, r>> : r \in 1..f.replicas[s]}
all_names(f) == UNION {names_of(f, s) : s \in f.services}
uses_secret(f, s) == s \in f.mounts \cup f.env

\* topo_order works in rounds: the services whose dependencies are in earlier
\* rounds, in the order of their names.
Placed(f) ==
    LET placed[k \in 0..Len(ServiceSeq)] ==
            IF k = 0 THEN {}
            ELSE placed[k - 1] \cup {s \in f.services : f.deps[s] \subseteq placed[k - 1]}
    IN  placed

\* Mutant: the services in the order of their names.
MutTopoOrder(f) == Sorted(f.services)

topo_order(f) ==
    LET placed == Placed(f) IN
    ForEach([k \in 1..Len(ServiceSeq) |-> placed[k] \ placed[k - 1]], Sorted)

\* validate: dependencies are services of the file and there is no cycle.
validate(f) == Placed(f)[Len(ServiceSeq)] = f.services

\* cluster up: a node gets its services, with the dependencies among them.
node_of(f, s) == IF f.node[s] \in f.nodes THEN f.node[s]
                 ELSE SelectSeq(NodeSeq, LAMBDA n : n \in f.nodes)[1]
sub(f, n) ==
    LET mine == {s \in f.services : node_of(f, s) = n} IN
    [f EXCEPT !.services = mine,
              !.deps = [s \in Services |-> f.deps[s] \cap mine],
              !.lb = f.lb \cap mine]
subs(f) ==
    SelectSeq([i \in 1..Len(NodeSeq) |-> [node |-> NodeSeq[i], file |-> sub(f, NodeSeq[i])]],
              LAMBDA x : x.node \in f.nodes /\ x.file.services # {})

cross_node_references(f) ==
    \E s, t \in f.services : t \in f.refs[s] /\ node_of(f, s) # node_of(f, t)

-----------------------------------------------------------------------------
(* The calls of a command                                                  *)

Call(c, n, f) == [call |-> c, node |-> n, file |-> f]
OnSecret(c, n) == [call |-> c, node |-> n]
On(c, n, x) == [call |-> c, node |-> n, name |-> x]
Balance(c, n, s) == [call |-> c, node |-> n, service |-> s]

\* ensure_secrets: the secret of the file, also on a node where no service uses it; a
\* service that uses a rotated secret is forced.  Rotating all secrets means those
\* that are generated: one from a file is rotated when the command names it.
ensure_secrets(n, f, rotate) ==
    IF f.mounts \cup f.env = {} THEN <<>>
    ELSE (IF rotate THEN <<OnSecret("secret_remove", n)>> ELSE <<>>)
         \o <<OnSecret(IF f.generate THEN "secret_ensure" ELSE "secret_set", n),
              OnSecret("secret_reveal", n)>>

up_on(n, f, rotate) ==
    ensure_secrets(n, f, rotate) \o <<Call(IF rotate THEN "plan_forced" ELSE "plan", n, f)>>

\* replicate_secrets: the first node that needs the secret owns it, where it is made unless
\* it comes from a file.
cross_node_secrets(f) ==
    {n \in f.nodes : ~f.per_node /\ \E s \in f.services : uses_secret(f, s) /\ node_of(f, s) = n}

replicate_secrets(f) ==
    LET nodes == SelectSeq(NodeSeq, LAMBDA n : n \in cross_node_secrets(f))
        Copy(n) == <<OnSecret("secret_copy", n)>>
    IN  IF Len(nodes) < 2 THEN <<>>
        ELSE (IF f.generate THEN <<OnSecret("secret_ensure", nodes[1])>> ELSE <<>>)
             \o <<OnSecret("secret_reveal", nodes[1])>> \o ForEach(Tail(nodes), Copy)

\* build_spec: the revision is the hash of the spec, in which a variable has its
\* value and a mounted secret only its name.
revision(f, s, value) == <<f.rev[s], IF s \in f.env THEN value ELSE 0>>

\* Mutant: a rotation does not force the services that use the secret.
MutActionFor(n, f, x, value, forced) ==
    LET c == ctr[n][x] IN
    IF c = None THEN "create"
    ELSE IF c.rev # revision(f, x[1], value) THEN "recreate"
    ELSE IF c.state = "exited" THEN "start" ELSE "keep"

\* diff, for one name.
action_for(n, f, x, value, forced) ==
    LET c == ctr[n][x] IN
    IF c = None THEN "create"
    ELSE IF c.rev # revision(f, x[1], value) \/ (forced /\ uses_secret(f, x[1])) THEN "recreate"
    ELSE IF c.state = "exited" THEN "start" ELSE "keep"

\* Stop and remove, and the calls that bring one container to the file's spec.
take_away(n, x) == <<On("stop", n, x), On("rm", n, x)>>
bring_up(n, f, x, value, forced) ==
    LET act == action_for(n, f, x, value, forced) IN
    CASE act = "create" -> <<On("run", n, x)>>
      [] act = "recreate" -> take_away(n, x) \o <<On("run", n, x)>>
      [] act = "start" -> <<On("start", n, x)>>
      [] act = "keep" -> <<>>

\* A service: its containers, the wait for those touched, its load balancer.
service_calls(n, f, s, value, forced) ==
    LET mine == SortedNames(names_of(f, s))
        touched == SelectSeq(mine, LAMBDA x : action_for(n, f, x, value, forced) # "keep")
        Bring(x) == bring_up(n, f, x, value, forced)
        Wait(x) == <<On("wait", n, x)>>
    IN  ForEach(mine, Bring) \o ForEach(touched, Wait)
        \o IF s \in f.lb THEN <<Balance("lb_set", n, s)>> ELSE <<>>

extra(n, f) == {x \in CtrNames : ctr[n][x] # None} \ all_names(f)

\* up, once the plan is made: service by service, then what is not in the file.
plan_calls(n, f, value, forced) ==
    LET ForService(s) == service_calls(n, f, s, value, forced)
        TakeAway(x) == take_away(n, x)
    IN  ForEach(topo_order(f), ForService) \o ForEach(Reverse(SortedNames(extra(n, f))), TakeAway)

\* down: the services of the file, dependents first, then the load balancers.
down_calls(n, f) ==
    LET TakeAway(x) == take_away(n, x)
        ForService(s) == ForEach(SortedNames({x \in CtrNames : x[1] = s /\ ctr[n][x] # None}), TakeAway)
        Unbalance(s) == <<Balance("lb_remove", n, s)>>
    IN  ForEach(Reverse(topo_order(f)), ForService) \o ForEach(Sorted(f.lb), Unbalance)

-----------------------------------------------------------------------------
(* Commands                                                                *)

\* Commands that run at the same time are not alone.
Begin(u, op, f, calls) ==
    /\ client[u] = Idle /\ commands < MaxCommands /\ commands' = commands + 1
    /\ LET alone == \A v \in Users : client[v] = Idle IN
       client' = [v \in Users |->
                    IF v = u THEN [op |-> op, file |-> f, calls |-> calls, value |-> 0, alone |-> alone]
                    ELSE IF client[v] = Idle THEN Idle ELSE [client[v] EXCEPT !.alone = FALSE]]
    /\ UNCHANGED <<ctr, secret, lbs, newest, disk, stale, faults>>

up(u, n, f, rotate) ==
    /\ validate(f)
    /\ Begin(u, IF rotate THEN "rotate" ELSE "up", [f EXCEPT !.nodes = {n}], up_on(n, f, rotate))

down(u, n, f) == validate(f) /\ Begin(u, "down", [f EXCEPT !.nodes = {n}], <<Call("list", n, f)>>)

cluster_up(u, f) ==
    /\ validate(f) /\ ~cross_node_references(f)
    /\ LET UpSub(x) == up_on(x.node, x.file, FALSE)
       IN  Begin(u, "cluster", f, replicate_secrets(f) \o ForEach(subs(f), UpSub))

-----------------------------------------------------------------------------
(* Calls and their effects                                                 *)

Next1(u) == Head(client[u].calls)
Calling(u, c) == client[u] # Idle /\ client[u].calls # <<>> /\ Next1(u).call = c
Goes(u, more) == client' = [client EXCEPT ![u].calls = more \o Tail(@)]
\* A command that ends early may leave a rotation unfinished.
Ends(u) ==
    /\ client' = [client EXCEPT ![u] = Idle]
    /\ stale' = IF client[u].op = "rotate" THEN stale \cup client[u].file.nodes ELSE stale
OrError(u, can, effect) == IF can THEN effect ELSE Ends(u) /\ UNCHANGED <<ctr, secret, lbs, newest>>

\* Another value in the place of one that containers may have been launched with.
Replace(n, v) ==
    /\ secret' = [secret EXCEPT ![n] = v]
    /\ stale' = IF secret[n] \in {0, v} THEN stale ELSE stale \cup {n}

SecretCall(u) ==
    LET n == Next1(u).node IN
    /\ \/ /\ Calling(u, "secret_remove") /\ newest < MaxRotations
          /\ secret' = [secret EXCEPT ![n] = 0] /\ Goes(u, <<>>) /\ UNCHANGED <<newest, stale>>
       \/ /\ Calling(u, "secret_ensure") /\ Goes(u, <<>>) /\ UNCHANGED stale
          /\ IF secret[n] = 0
               THEN newest' = newest + 1 /\ secret' = [secret EXCEPT ![n] = newest + 1]
               ELSE UNCHANGED <<newest, secret>>
       \/ /\ Calling(u, "secret_reveal") /\ secret[n] # 0
          /\ client' = [client EXCEPT ![u].calls = Tail(@), ![u].value = secret[n]]
          /\ UNCHANGED <<secret, newest, stale>>
       \/ /\ Calling(u, "secret_copy")
          /\ Replace(n, client[u].value) /\ Goes(u, <<>>) /\ UNCHANGED newest
       \/ /\ Calling(u, "secret_set")
          /\ Replace(n, disk) /\ Goes(u, <<>>) /\ UNCHANGED newest
    /\ UNCHANGED <<ctr, lbs, disk, commands, faults>>

\* The secret was removed by another command.
RevealFails(u) ==
    /\ Calling(u, "secret_reveal") /\ secret[Next1(u).node] = 0
    /\ Ends(u) /\ UNCHANGED <<ctr, secret, lbs, newest, disk, commands, faults>>

PlanCall(u) ==
    /\ LET n == Next1(u).node  f == Next1(u).file IN
       \/ Calling(u, "plan") /\ Goes(u, plan_calls(n, f, client[u].value, FALSE))
       \/ Calling(u, "plan_forced") /\ Goes(u, plan_calls(n, f, client[u].value, TRUE))
       \/ Calling(u, "list") /\ Goes(u, down_calls(n, f))
    /\ UNCHANGED <<ctr, secret, lbs, newest, disk, stale, commands, faults>>

SetCtr(n, x, c) == ctr' = [ctr EXCEPT ![n][x] = c]

ContainerCall(u) ==
    LET n == Next1(u).node
        x == Next1(u).name
        c == ctr[n][x]
        f == client[u].file
    IN
    /\ \/ /\ Calling(u, "run")
          /\ OrError(u, c = None /\ (x[1] \in f.mounts => secret[n] # 0),
               /\ SetCtr(n, x, [rev |-> revision(f, x[1], client[u].value),
                                secret |-> secret[n], state |-> "starting"])
               /\ Goes(u, <<>>) /\ UNCHANGED <<secret, lbs, newest, stale>>)
       \/ /\ Calling(u, "start")
          /\ OrError(u, c # None /\ (c # None => c.state = "exited"),
               /\ SetCtr(n, x, [c EXCEPT !.state = "starting", !.secret = secret[n]])
               /\ Goes(u, <<>>) /\ UNCHANGED <<secret, lbs, newest, stale>>)
       \/ /\ Calling(u, "stop")
          /\ OrError(u, c # None,
               /\ SetCtr(n, x, [c EXCEPT !.state = "exited"])
               /\ Goes(u, <<>>) /\ UNCHANGED <<secret, lbs, newest, stale>>)
       \/ /\ Calling(u, "rm")
          /\ OrError(u, c # None,
               SetCtr(n, x, None) /\ Goes(u, <<>>) /\ UNCHANGED <<secret, lbs, newest, stale>>)
    /\ UNCHANGED <<disk, commands, faults>>

\* wait_ready, for each of the names it was given.
WaitReady(u) ==
    LET c == ctr[Next1(u).node][Next1(u).name] IN
    /\ Calling(u, "wait") /\ c # None /\ c.state = "ready"
    /\ Goes(u, <<>>)
    /\ UNCHANGED <<ctr, secret, lbs, newest, disk, stale, commands, faults>>

TimedOut(u) ==
    LET c == ctr[Next1(u).node][Next1(u).name] IN
    /\ Calling(u, "wait") /\ (c # None => c.state # "ready")
    /\ Ends(u) /\ UNCHANGED <<ctr, secret, lbs, newest, disk, commands, faults>>

LbCall(u) ==
    LET n == Next1(u).node IN
    /\ \/ Calling(u, "lb_set") /\ lbs' = [lbs EXCEPT ![n] = @ \cup {Next1(u).service}]
       \/ Calling(u, "lb_remove") /\ lbs' = [lbs EXCEPT ![n] = @ \ {Next1(u).service}]
    /\ Goes(u, <<>>)
    /\ UNCHANGED <<ctr, secret, newest, disk, stale, commands, faults>>

\* The end of a command that made all its calls.
Finish(u) ==
    /\ client[u] # Idle /\ client[u].calls = <<>>
    /\ client' = [client EXCEPT ![u] = Idle]
    /\ stale' = IF client[u].op # "rotate" THEN stale
                ELSE IF client[u].alone THEN stale \ client[u].file.nodes
                ELSE stale \cup client[u].file.nodes
    /\ UNCHANGED <<ctr, secret, lbs, newest, disk, commands, faults>>

-----------------------------------------------------------------------------
(* Containers, and calls that fail                                         *)

Ready(n, x) ==
    /\ ctr[n][x] # None /\ ctr[n][x].state = "starting"
    /\ SetCtr(n, x, [ctr[n][x] EXCEPT !.state = "ready"])
    /\ UNCHANGED <<secret, lbs, client, newest, disk, stale, commands, faults>>

Exits(n, x) ==
    /\ ctr[n][x] # None /\ ctr[n][x].state # "exited"
    /\ faults < MaxFaults /\ faults' = faults + 1
    /\ SetCtr(n, x, [ctr[n][x] EXCEPT !.state = "exited"])
    /\ UNCHANGED <<secret, lbs, client, newest, disk, stale, commands>>

Interrupt(u) ==
    /\ client[u] # Idle /\ faults < MaxFaults /\ faults' = faults + 1
    /\ Ends(u) /\ UNCHANGED <<ctr, secret, lbs, newest, disk, commands>>

\* The user changes the file that a secret comes from.
EditSecret ==
    /\ newest < MaxRotations /\ newest' = newest + 1 /\ disk' = newest + 1
    /\ UNCHANGED <<ctr, secret, lbs, client, stale, commands, faults>>

-----------------------------------------------------------------------------

Init ==
    /\ ctr = [n \in Nodes |-> [x \in CtrNames |-> None]]
    /\ secret = [n \in Nodes |-> 0] /\ lbs = [n \in Nodes |-> {}]
    /\ client = [u \in Users |-> Idle]
    /\ newest = 1 /\ disk = 1 /\ stale = {} /\ commands = 0 /\ faults = 0

Next ==
    \/ \E u \in Users :
         \/ \E f \in Files :
              \/ cluster_up(u, f)
              \/ down(u, LocalNode, f)
              \/ \E rotate \in BOOLEAN : up(u, LocalNode, f, rotate)
         \/ SecretCall(u) \/ RevealFails(u) \/ PlanCall(u) \/ ContainerCall(u)
         \/ WaitReady(u) \/ TimedOut(u) \/ LbCall(u) \/ Finish(u) \/ Interrupt(u)
    \/ \E n \in Nodes, x \in CtrNames : Ready(n, x) \/ Exits(n, x)
    \/ EditSecret

Spec == Init /\ [][Next]_vars

-----------------------------------------------------------------------------
(* Correctness.                                                            *)

Done(u) == client[u] # Idle /\ client[u].calls = <<>> /\ client[u].alone
PartOf(u, n) == IF client[u].op = "cluster" THEN sub(client[u].file, n) ELSE client[u].file

\* Whatever earlier commands left behind, an up that meets no error and no other
\* command leaves on each of its nodes exactly the containers of the file, all of
\* the file's revision, and its load balancers.  Every container has the secret's
\* current value, also where it is mounted and the revision does not show it, unless
\* the value that the node had was replaced and no rotation of the secret has finished
\* since: by a rotation that was cut short, by cluster up, or by an up that found another
\* value in the secret's file.  The last two recreate no container that only mounts it.
UpEstablishes ==
    \A u \in Users : Done(u) /\ client[u].op # "down" =>
        \A n \in client[u].file.nodes :
            LET f == PartOf(u, n) IN
            f.services # {} =>
              /\ {x \in CtrNames : ctr[n][x] # None} = all_names(f)
              /\ \A x \in all_names(f) : ctr[n][x].rev = revision(f, x[1], secret[n])
              /\ f.lb \subseteq lbs[n]
              /\ n \notin stale =>
                    \A x \in all_names(f) : uses_secret(f, x[1]) => ctr[n][x].secret = secret[n]

\* A container is started only once all containers of the services that it depends
\* on are those of the file, and stopped by down only once no container of a service
\* that depends on it is left.
OrderKept ==
    [][\A u \in Users : client[u] # Idle /\ client[u].alone =>
         \A n \in client[u].file.nodes, x \in CtrNames :
           LET f == PartOf(u, n) IN
           /\ Calling(u, "run") /\ ctr[n][x] = None /\ ctr'[n][x] # None =>
                \A d \in f.deps[x[1]] : \A y \in names_of(f, d) :
                   ctr[n][y] # None /\ ctr[n][y].rev = revision(f, d, client[u].value)
           /\ client[u].op = "down" /\ Calling(u, "rm") /\ ctr[n][x] # None /\ ctr'[n][x] = None =>
                \A s \in f.services : x[1] \in f.deps[s] =>
                   \A r \in 1..MaxReplicas : ctr[n][<<s, r>>] = None]_vars
=============================================================================
