------------------------------- MODULE MCHost -------------------------------
(***************************************************************************)
(* Small instances of what a host is asked to do and must get done: the    *)
(* addresses that it gives, the streams of an exec on it, the set-up of    *)
(* its daemon, the launch of a container, the provisioning of a cluster    *)
(* and the gateway's listener.  They share no state, so `part' says which  *)
(* of them moves in a behaviour, and which fairness applies: the states    *)
(* that TLC explores are the union of the states of the parts.             *)
(***************************************************************************)
EXTENDS Addresses

CONSTANTS
    c1, c2, c3, l1, l2,                        \* containers and balancers
    b1, b2, s1, s2, h1, h2, m1, m2, None,      \* bridges, subnets, hosts, machines
    a1, a2                                     \* addresses of the gateway

VARIABLES
    part,
    mode, input, feeder, rx, client, to_gateway, to_client, gw, stdin, pipe, out_rx,
    proc, held, answer, grace, owed, written,                               \* ExecStream
    config, node, in_spec, lb, links, machine, server, init_client, crashes, cut,
    unchecked,                                                              \* Setup
    parent, child, word, net, killed, init, pending, prog, zombies,         \* Launch
    profile, inst, has, registry, install, admin, faults,                   \* Provision
    https, daemon, key, cert, made, taken, listener, changes                \* Listener

\* In a /28 the pool has 12 addresses, and one is left for load balancers: two
\* compete for it.
MCHash == [o \in Owners |-> IF o = l1 THEN 5 ELSE 3]

\* Clients name any address, also one of the container pool.
AnyVip == [l \in Balancers |-> {2, 14}]

\* Connections and sockets that one piece fills: with two pieces of input, one of
\* output and the exit frame, each side comes to wait for the other.
Stream == INSTANCE ExecStream
    WITH Modes <- {"remote", "local"}, MaxIn <- 2, MaxOut <- 1, WireCap <- 1, PipeCap <- 1,
         up <- to_gateway, down <- to_client

SetUp == INSTANCE Setup
    WITH Subnets <- {s1, s2}, Bridges <- {b1, b2}, Containers <- {c1, c2}, Hosts <- {h1, h2},
         Machines <- {m1, m2}, MaxCrashes <- 1,
         addr <- in_spec, proc <- server, client <- init_client

Starting == INSTANCE Launch WITH Codes <- {"0", "1"}, MaxOrphans <- 2

Cluster == INSTANCE Provision
    WITH NodeSeq <- <<"n1", "n2">>, MaxFaults <- 2, client <- admin

Https == INSTANCE Listener WITH Addresses <- {a1, a2}, MaxChanges <- 6, gw <- listener

-----------------------------------------------------------------------------

stream == <<mode, input, feeder, rx, client, to_gateway, to_client, gw, stdin, pipe, out_rx,
            proc, held, answer, grace, owed, written>>
setup == <<config, node, in_spec, lb, links, machine, server, init_client, crashes, cut, unchecked>>
launch == <<parent, child, word, net, killed, init, pending, prog, zombies>>
cluster == <<profile, inst, has, registry, install, admin, faults>>
https_listener == <<https, daemon, key, cert, made, taken, listener, changes>>

MCInit ==
    /\ part \in {"addresses", "exec", "setup", "launch", "cluster", "listener"}
    /\ Init /\ Stream!Init /\ SetUp!Init /\ Starting!Init /\ Cluster!Init /\ Https!Init
    /\ part # "exec" => mode = "remote"
    /\ part # "cluster" => install = "snap"
    /\ part # "setup" => machine = m1

MCNext ==
    /\ UNCHANGED part
    /\ \/ /\ part = "addresses" /\ Next
          /\ UNCHANGED <<stream, setup, launch, cluster, https_listener>>
       \/ /\ part = "exec" /\ Stream!Next
          /\ UNCHANGED <<vars, setup, launch, cluster, https_listener>>
       \/ /\ part = "setup" /\ SetUp!Next
          /\ UNCHANGED <<vars, stream, launch, cluster, https_listener>>
       \/ /\ part = "launch" /\ Starting!Next
          /\ UNCHANGED <<vars, stream, setup, cluster, https_listener>>
       \/ /\ part = "cluster" /\ Cluster!Next
          /\ UNCHANGED <<vars, stream, setup, launch, https_listener>>
       \/ /\ part = "listener" /\ Https!Next
          /\ UNCHANGED <<vars, stream, setup, launch, cluster>>

\* The fairness of each part, for the behaviours in which it moves.
Fairness ==
    /\ WF_stream(part = "exec" /\ Stream!ClientTurn)
    /\ WF_stream(part = "exec" /\ Stream!GatewayTurn)
    /\ WF_stream(part = "exec" /\ Stream!Grace)
    /\ WF_stream(part = "exec" /\ Stream!PumpInput)
    /\ WF_stream(part = "exec" /\ Stream!LocalReturn)
    /\ \A ch \in Stream!Channels : WF_stream(part = "exec" /\ Stream!Pump(ch))
    /\ WF_stream(part = "exec" /\ Stream!ProcRead)
    /\ WF_stream(part = "exec" /\ Stream!ExitAtEof)
    /\ WF_stream(part = "exec" /\ Stream!Answers("status"))
    /\ WF_setup(part = "setup" /\ SetUp!DaemonTurn)
    /\ WF_launch(part = "launch" /\ \/ Starting!Prepare \/ Starting!clone3 \/ Starting!network
                                    \/ Starting!Send \/ Starting!Confirm \/ Starting!ConfirmTimeout)
    /\ WF_launch(part = "launch" /\ Starting!Await)
    /\ WF_launch(part = "launch" /\ (Starting!Block \/ Starting!Fork))
    /\ WF_launch(part = "launch" /\ (Starting!Execvp \/ Starting!CannotExecute))
    /\ WF_launch(part = "launch" /\ Starting!ForwardTerm)
    /\ WF_launch(part = "launch" /\ Starting!Reap)
    /\ WF_cluster(part = "cluster" /\ (Cluster!RunStep \/ Cluster!Record \/ Cluster!Unregister))
    /\ WF_https_listener(part = "listener" /\ Https!Daemon)
    /\ WF_https_listener(part = "listener" /\ Https!GatewayTurn)

MCSpec ==
    MCInit /\ [][MCNext]_<<part, vars, stream, setup, launch, cluster, https_listener>> /\ Fairness

-----------------------------------------------------------------------------
(* The properties of the parts, under their names.                         *)

\* An exec comes to its end, and one that ends with a status has shown all that its
\* command wrote (ExecStream).
StreamsDeliver == []Stream!ShownAll /\ (part = "exec" => Stream!Ends)

\* A daemon that ended comes back (Setup).
ComesBack == part = "setup" => SetUp!ComesBack

\* Launches are decided and collocate-init does its work (Launch).
LaunchSettles == part = "launch" => Starting!LaunchSettles

\* An interrupted provisioning can be resumed: a command ends, and unless it meets a
\* fault its nodes are recorded by then (Provision).
Resumes == [][Cluster!EndsRecorded]_cluster /\ (part = "cluster" => Cluster!Finishes)

\* The gateway gets to the right listener, and listens with its own key (Listener).
Listens == []Https!OwnKey /\ (part = "listener" => Https!Settles)

\* What is said of launched nodes in README.md (Provision).
LaunchedNested == part = "cluster" => Cluster!LaunchedNested
=============================================================================
