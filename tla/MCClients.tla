------------------------------ MODULE MCClients -----------------------------
(***************************************************************************)
(* Small instances of Clients and of compose.  `part' says which of them    *)
(* moves in a behaviour; the states that TLC explores are the union of the  *)
(* states of the parts.  Compose has two: three commands one after the      *)
(* other, and two commands that may run at the same time.  So have the      *)
(* rights of certificates: everything but mounts, and containers that mount *)
(* volumes and a path of the server.  A behaviour of the remotes ends where *)
(* RemotesSound promises nothing more: once a text that was cut short has   *)
(* been remotes.yaml.  Of two commands that run at the same time the one    *)
(* that comes first in Rank is the first user's: users differ in name only. *)
(***************************************************************************)
EXTENDS Clients, TLC

CONSTANTS
    k1, k2, k3,  \* connections
    pa, pb,      \* parts of the names of projects and load balancers
    p1, p2, r1, r2, s1,  \* commands, remotes and a server
    u1, u2       \* users of compose

VARIABLES
    part,
    ctr, secret, upped, client, newest, disk, stale, commands, faults  \* Compose

\* Certificates of each role in one project, and a viewer of all.  The names of the
\* projects and load balancers can be read in two ways once they are joined.
MCCallers ==
    [role : {"viewer", "operator", "admin"}, projects : {{<<pa>>}}]
        \cup {[role |-> "viewer", projects |-> {}]}
MCProjects == {<<pa>>, <<pa, pb>>}
MCLbNames == {<<"c">>, <<pb, "c">>}
OneLbName == {<<"c">>}

\* Ratios of what is read to the target.
MCReadings == {{<<1, 2>>}, {<<21, 20>>, <<1, 3>>}, {<<1, 4>>, <<2, 1>>}, {<<5, 4>>}}

\* Service a depends on b.  The secret of the first file comes from a file.  In the second
\* and third the services are on two nodes, with a secret that they share and with one
\* that each node has for itself; the third is for a first command.  In the last the
\* services depend on each other.
Services == {"a", "b"}
OneEach == [s \in Services |-> 1]
AonB == [s \in Services |-> IF s = "a" THEN {"b"} ELSE {}]
OneNode == [s \in Services |-> "n1"]
TwoNodes == [s \in Services |-> IF s = "a" THEN "n2" ELSE "n1"]
FirstFile ==
    [services |-> Services, deps |-> AonB, rev |-> [s \in Services |-> 0],
     replicas |-> [s \in Services |-> IF s = "b" THEN 2 ELSE 1], mounts |-> {"a"}, env |-> {"b"},
     node |-> OneNode, nodes |-> {"n1", "n2"}, lb |-> {"a"}, refs |-> [s \in Services |-> {}],
     generate |-> FALSE, per_node |-> FALSE]
SecondFile ==
    [FirstFile EXCEPT !.rev = [s \in Services |-> 1], !.replicas = OneEach, !.node = TwoNodes,
                      !.generate = TRUE]
ThirdFile == [SecondFile EXCEPT !.per_node = TRUE]
LastFile == [FirstFile EXCEPT !.deps = [s \in Services |-> Services \ {s}]]
ComposeFiles == {FirstFile, SecondFile, ThirdFile, LastFile}

Up == INSTANCE Compose
    WITH ServiceSeq <- <<"a", "b">>, NodeSeq <- <<"n1", "n2">>, MaxReplicas <- 2,
         Files <- ComposeFiles, Users <- {u1, u2}, MaxCommands <- 3, MaxRotations <- 3,
         MaxFaults <- 1, lbs <- upped

compose == <<ctr, secret, upped, client, newest, disk, stale, commands, faults>>

Rank(op) ==
    CASE op = "down" -> 1 [] op = "up" -> 2 [] op = "rotate" -> 3 [] op = "cluster" -> 4
      [] OTHER -> 0

Symmetry == Permutations({p1, p2})

-----------------------------------------------------------------------------

allvars == <<part, vars, throttle, rights, calls, user, compose, service, scaler>>

MCInit ==
    /\ part \in {"trust", "throttle", "rights", "mounts", "calls", "remotes",
                "compose", "users", "recreate", "autoscale"}
    /\ Init /\ Throttle!Init /\ Rights!Init /\ Call!Init /\ User!Init
    /\ Up!Init /\ Ctl!Init /\ Scale!Init

MCNext ==
    /\ UNCHANGED part
    /\ \/ part = "trust" /\ Next
          /\ UNCHANGED <<throttle, rights, calls, user, compose, service, scaler>>
       \/ part = "throttle" /\ Throttle!Next
          /\ UNCHANGED <<vars, rights, calls, user, compose, service, scaler>>
       \/ part \in {"rights", "mounts"} /\ Rights!Next
          /\ (part = "rights" => \A n \in CtrIds : containers'[n].mounts = {})
          /\ (part = "mounts" => UNCHANGED <<lbs, images, node>>)
          /\ UNCHANGED <<vars, throttle, calls, user, compose, service, scaler>>
       \/ part = "calls" /\ Call!Next
          /\ UNCHANGED <<vars, throttle, rights, user, compose, service, scaler>>
       \/ part = "remotes" /\ ~exposed /\ User!Next
          /\ UNCHANGED <<vars, throttle, rights, calls, compose, service, scaler>>
       \/ part \in {"compose", "users"} /\ Up!Next
          /\ (part = "compose" => client'[u2] = Up!Idle)
          /\ (disk' # disk => /\ part = "compose" /\ disk = 1 /\ commands > 0
                              /\ \A u \in {u1, u2} : client[u] = Up!Idle)
          /\ (part = "users" => commands' <= 2)
          /\ (client'[u2] # Up!Idle => Rank(client'[u1].op) <= Rank(client'[u2].op))
          /\ (\A u \in {u1, u2} : client'[u].op # "idle" =>
                 (client'[u].file.per_node => part = "compose" /\ commands' = 1))
          /\ UNCHANGED <<vars, throttle, rights, calls, user, service, scaler>>
       \/ part = "recreate" /\ Ctl!Next
          /\ UNCHANGED <<vars, throttle, rights, calls, user, compose, scaler>>
       \/ part = "autoscale" /\ Scale!Next
          /\ UNCHANGED <<vars, throttle, rights, calls, user, compose, service>>

MCSpec == MCInit /\ [][MCNext]_allvars

-----------------------------------------------------------------------------
(* The properties of compose, under their names.                           *)

\* An undisturbed up leaves what its file says (Compose).
UpEstablishes == Up!UpEstablishes

\* Services start after and stop before what they depend on (Compose).
OrderKept == Up!OrderKept
=============================================================================
