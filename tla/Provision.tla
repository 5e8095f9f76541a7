------------------------------ MODULE Provision ------------------------------
(***************************************************************************)
(* collocate init in lxd mode, cluster add-node and cluster remove-node:   *)
(* the nodes are observed, a list of lxc commands is planned from that,    *)
(* they run one by one until one fails, every node must then answer, and   *)
(* only then is the registry (cluster.yaml) saved.  LXD and the packages   *)
(* are external: a command does what plan relies on or fails.              *)
(***************************************************************************)
EXTENDS Naturals, Sequences, SequencesExt

CONSTANTS
    NodeSeq,    \* the node names in their order
    MaxFaults   \* bound on failing commands, interrupts and stopped nodes

VARIABLES
    profile,    \* the LXD profile: "none", "plain" (created), "nesting" (set)
    inst,       \* state of each instance
    has,        \* what each instance has: "package", "plugs", "daemon", "config"
    registry,   \* nodes in cluster.yaml
    install,    \* "snap" or "deb"
    client,     \* the command under way
    faults

vars == <<profile, inst, has, registry, install, client, faults>>

Nodes == Range(NodeSeq)
Idle == [at |-> "idle"]
Answers(n) == inst[n] = "Running" /\ {"daemon", "config"} \subseteq has[n]

-----------------------------------------------------------------------------
(* observe and plan                                                        *)

observed_installed(n) == inst[n] = "Running" /\ "package" \in has[n]
observed_initialized(n) == observed_installed(n) /\ Answers(n)

Step(n, kind) == [node |-> n, kind |-> kind]

profile_steps == <<Step("", "create_profile"), Step("", "set_nesting")>>

install_steps(n) ==
    IF install = "snap" THEN <<Step(n, "install"), Step(n, "connect")>>
    ELSE <<Step(n, "push"), Step(n, "install"), Step(n, "enable")>>

\* Mutant: interfaces are connected only right after the installation.
MutNodeSteps(n) ==
    (CASE inst[n] = "None" -> <<Step(n, "launch")>>
       [] inst[n] = "Running" -> <<>>
       [] inst[n] = "Stopped" -> <<Step(n, "start")>>)
    \o IF observed_initialized(n) THEN <<>>
       ELSE <<Step(n, "wait_ready")>>
            \o (IF observed_installed(n) THEN <<>> ELSE install_steps(n))
            \o <<Step(n, "init")>>

node_steps(n) ==
    (CASE inst[n] = "None" -> <<Step(n, "launch")>>
       [] inst[n] = "Running" -> <<>>
       [] inst[n] = "Stopped" -> <<Step(n, "start")>>)
    \o IF observed_initialized(n) THEN <<>>
       ELSE <<Step(n, "wait_ready")>>
            \o (IF observed_installed(n)
                THEN SelectSeq(install_steps(n), LAMBDA s : s.kind = "connect")
                ELSE install_steps(n))
            \o <<Step(n, "init")>>

plan(nodes) ==
    (IF profile = "none" /\ \E n \in nodes : inst[n] = "None" THEN profile_steps ELSE <<>>)
    \o FlattenSeq([i \in 1..Len(NodeSeq) |->
                      IF NodeSeq[i] \in nodes THEN node_steps(NodeSeq[i]) ELSE <<>>])

\* Init asks for every node, add-node for one more.
provision_nodes(nodes) ==
    /\ client = Idle
    /\ client' = [at |-> "steps", nodes |-> nodes, steps |-> plan(nodes),
                  clean |-> faults = MaxFaults]
    /\ UNCHANGED <<profile, inst, has, registry, install, faults>>

-----------------------------------------------------------------------------
(* The commands                                                            *)

\* What a command needs to succeed.
Needs(s) ==
    /\ s.kind \in {"wait_ready", "push", "install", "connect", "enable", "init"}
         => inst[s.node] = "Running"
    /\ s.kind = "init" => /\ "daemon" \in has[s.node]
                         /\ (install = "snap" => "plugs" \in has[s.node])

\* What it brings to the node; a snap starts its daemon, a deb may wait for enable.
Brings(s) ==
    CASE s.kind = "install" -> IF install = "snap" THEN {"package", "daemon"} ELSE {"package"}
      [] s.kind = "connect" -> {"plugs"}
      [] s.kind = "enable" -> {"daemon"}
      [] s.kind = "init" -> {"config"}
      [] OTHER -> {}

Does(s) ==
    /\ profile' = CASE s.kind = "create_profile" -> "plain"
                    [] s.kind = "set_nesting" -> "nesting"
                    [] OTHER -> profile
    /\ inst' = IF s.kind \in {"launch", "start"} THEN [inst EXCEPT ![s.node] = "Running"] ELSE inst
    /\ has' = [n \in Nodes |-> IF n = s.node THEN has[n] \cup Brings(s) ELSE has[n]]

RunStep ==
    /\ client.at = "steps" /\ client.steps # <<>>
    /\ IF Needs(Head(client.steps))
         THEN Does(Head(client.steps)) /\ client' = [client EXCEPT !.steps = Tail(@)]
         ELSE client' = Idle /\ UNCHANGED <<profile, inst, has>>
    /\ UNCHANGED <<registry, install, faults>>

\* Every node must report itself initialized; merge_registry, save.
Record ==
    /\ client.at = "steps" /\ client.steps = <<>>
    /\ registry' = IF \A n \in client.nodes : Answers(n) THEN registry \cup client.nodes
                   ELSE registry
    /\ client' = Idle
    /\ UNCHANGED <<profile, inst, has, install, faults>>

\* cluster remove-node: the instance goes, then the record.
RemoveNode(n, keep_instance) ==
    /\ client = Idle /\ n \in registry
    /\ client' = [at |-> "unregister", node |-> n]
    /\ IF keep_instance THEN UNCHANGED <<inst, has>>
       ELSE inst' = [inst EXCEPT ![n] = "None"] /\ has' = [has EXCEPT ![n] = {}]
    /\ UNCHANGED <<profile, registry, install, faults>>

Unregister ==
    /\ client.at = "unregister"
    /\ registry' = registry \ {client.node} /\ client' = Idle
    /\ UNCHANGED <<profile, inst, has, install, faults>>

Fault == faults < MaxFaults /\ faults' = faults + 1

\* A command that fails, or the user interrupts.
Interrupt ==
    /\ client # Idle /\ Fault /\ client' = Idle
    /\ UNCHANGED <<profile, inst, has, registry, install>>

NodeStops(n) ==
    /\ inst[n] = "Running" /\ Fault /\ inst' = [inst EXCEPT ![n] = "Stopped"]
    /\ UNCHANGED <<profile, has, registry, install, client>>

-----------------------------------------------------------------------------

Init ==
    /\ profile = "none" /\ inst = [n \in Nodes |-> "None"] /\ has = [n \in Nodes |-> {}]
    /\ registry = {} /\ install \in {"snap", "deb"} /\ client = Idle /\ faults = 0

Next ==
    \/ provision_nodes(Nodes)
    \/ \E n \in Nodes :
         \/ provision_nodes({n}) \/ NodeStops(n)
         \/ \E keep \in BOOLEAN : RemoveNode(n, keep)
    \/ RunStep \/ Record \/ Unregister \/ Interrupt

\* A command goes on by itself; nobody has to start one.
Fairness == WF_vars(RunStep \/ Record \/ Unregister)

Spec == Init /\ [][Next]_vars /\ Fairness

-----------------------------------------------------------------------------
(* Correctness.                                                            *)

\* However earlier commands ended, one that meets no further fault does not end
\* before its nodes are recorded: the plan made from what is there leaves out no step
\* of the instance that is still needed for that (the profile's nesting may be,
\* LaunchedNested).  For snaps; after a deb installation that was cut, plan leaves
\* out the step that enables the daemon.
EndsRecorded ==
    client.at = "steps" /\ client.clean /\ install = "snap" /\ client' = Idle
        => client.nodes \subseteq registry'

\* A command ends.
Finishes == client.at = "steps" ~> client = Idle

\* README: every node is launched "with the collocate profile
\* (security.nesting=true)", and "re-running init resumes where it stopped".
LaunchedNested == \A n \in Nodes : inst[n] = "Running" => profile = "nesting"
=============================================================================
