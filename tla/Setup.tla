-------------------------------- MODULE Setup --------------------------------
(***************************************************************************)
(* How a node gets and changes its settings: the standby server before the *)
(* first init, Request::Init of a running daemon, which purges containers, *)
(* rewrites node.json and the configuration and executes itself again,     *)
(* the start of the daemon, which refuses files that do not agree, and the *)
(* init command, which waits for the settings to come back.                *)
(*                                                                         *)
(* Settings are the parts that init tells apart.  A file is replaced at    *)
(* once; a crash, or an error, may come between two files.                 *)
(***************************************************************************)
EXTENDS Naturals

CONSTANTS
    Subnets, Bridges,
    Containers,
    Hosts,      \* addresses within a subnet
    Machines,   \* instance ids: another one after the disk was cloned
    None,
    MaxCrashes  \* bound on crashes and failing file operations

VARIABLES
    config,   \* collocated.toml
    node,     \* node.json: the subnet and the machine it was written for
    addr,     \* per stored container the address in its spec, or Unset
    lb,       \* a load balancer is stored
    links,    \* bridges of the host
    machine,
    proc,     \* the daemon: where it is, its settings, and the new settings or the
              \* container it is busy with
    client,   \* collocate init: the settings that it waits for
    crashes,
    cut,      \* ghost: an init stopped between node.json and the configuration
    unchecked \* ghost: a run stopped between the store and the check of an address

vars == <<config, node, addr, lb, links, machine, proc, client, crashes, cut, unchecked>>
files == <<config, node, addr, lb>>

Settings == [subnet : Subnets, bridge : Bridges, https : BOOLEAN]
Down == [at |-> "down"]
Standby == [at |-> "standby"]
Serving(s) == [at |-> "serving", cfg |-> s]
Busy(at, s, new) == [at |-> at, cfg |-> s, new |-> new]

Unset == [net |-> None, host |-> None]
Address(net) == [net : {net}, host : Hosts]
Stored == {c \in Containers : addr[c] # None}
net_changed(s, t) == s.subnet # t.subnet \/ s.bridge # t.bridge

\* check_settings: a bridge that the daemon does not have must not exist.
check_settings(s, current) == s.bridge \in current \/ s.bridge \notin links

Fault == crashes < MaxCrashes /\ crashes' = crashes + 1

-----------------------------------------------------------------------------
(* The start of the daemon.                                                *)

\* Daemon::new: open_node and Ipam::rebuild must accept the files.
open_node(s) == node # None => (node.subnet = s.subnet /\ node.machine = machine)

\* reserve: an address of another subnet or of another container is refused.
Reservable(c, s) ==
    addr[c] # Unset => addr[c].net = s.subnet /\ \A d \in Stored \ {c} : addr[d] # addr[c]

rebuild(s) == \A c \in Stored : Reservable(c, s)

Start ==
    /\ proc = Down
    /\ IF config = None
         THEN proc' = Standby /\ UNCHANGED <<node, links>>
         ELSE /\ open_node(config) /\ rebuild(config)
              /\ node' = IF node = None THEN [subnet |-> config.subnet, machine |-> machine]
                         ELSE node
              /\ links' = links \cup {config.bridge}
              /\ proc' = Serving(config)
    /\ UNCHANGED <<config, addr, lb, machine, client, crashes, cut, unchecked>>

\* collocated --adopt, and --reinit-node, which removes every container first.
adopt_node ==
    /\ proc = Down /\ config # None /\ node # None
    /\ node' = [node EXCEPT !.machine = machine]
    /\ UNCHANGED <<config, addr, lb, links, machine, proc, client, crashes, cut, unchecked>>

reinit_node ==
    /\ proc = Down /\ config # None /\ node # None
    /\ \/ \E c \in Stored : addr' = [addr EXCEPT ![c] = None] /\ UNCHANGED node
       \/ Stored = {} /\ node' = [node EXCEPT !.machine = machine] /\ UNCHANGED addr
    /\ UNCHANGED <<config, lb, links, machine, proc, client, crashes, cut, unchecked>>

\* collocated --teardown.
teardown ==
    /\ proc = Down /\ config # None
    /\ links' = links \ {config.bridge}
    /\ UNCHANGED <<files, machine, proc, client, crashes, cut, unchecked>>

Clone(m) ==
    /\ proc = Down /\ m # machine /\ machine' = m
    /\ UNCHANGED <<files, links, proc, client, crashes, cut, unchecked>>

-----------------------------------------------------------------------------
(* Init                                                                    *)

\* standby: settings are checked and written, and the daemon starts again.
StandbyInit(s) ==
    /\ proc = Standby /\ client = s
    /\ IF check_settings(s, {})
         THEN config' = s /\ proc' = Down /\ UNCHANGED client
         ELSE client' = None /\ UNCHANGED <<config, proc>>
    /\ UNCHANGED <<node, addr, lb, links, machine, crashes, cut, unchecked>>

\* op_init: only the https address differs.
InitHttps(s) ==
    /\ proc.at = "serving" /\ client = s
    /\ s = [proc.cfg EXCEPT !.https = s.https]
    /\ config' = s /\ proc' = Serving(s)
    /\ UNCHANGED <<node, addr, lb, links, machine, client, crashes, cut, unchecked>>

op_init(s, force) ==
    /\ proc.at = "serving" /\ client = s
    /\ s # [proc.cfg EXCEPT !.https = s.https]
    /\ LET refused == \/ ~check_settings(s, {proc.cfg.bridge})
                      \/ net_changed(s, proc.cfg) /\ (Stored # {} \/ lb) /\ ~force
       IN  IF refused THEN client' = None /\ UNCHANGED proc
           ELSE /\ proc' = Busy(IF net_changed(s, proc.cfg) THEN "purge" ELSE "node", proc.cfg, s)
                /\ UNCHANGED client
    /\ UNCHANGED <<files, links, machine, crashes, cut, unchecked>>

\* The containers one by one, then the load balancers.
Purge ==
    /\ proc.at = "purge"
    /\ \/ /\ \E c \in Stored : addr' = [addr EXCEPT ![c] = None]
          /\ UNCHANGED <<lb, proc>>
       \/ /\ Stored = {}
          /\ lb' = FALSE /\ proc' = [proc EXCEPT !.at = "node"]
          /\ UNCHANGED addr
    /\ UNCHANGED <<config, node, links, machine, client, crashes, cut, unchecked>>

\* update_node refuses another subnet while containers are stored.
UpdateNode ==
    /\ proc.at = "node"
    /\ IF node.subnet # proc.new.subnet /\ Stored # {}
         THEN proc' = Serving(proc.cfg) /\ client' = None /\ UNCHANGED node
         ELSE /\ node' = [node EXCEPT !.subnet = proc.new.subnet]
              /\ proc' = [proc EXCEPT !.at = "config"] /\ UNCHANGED client
    /\ UNCHANGED <<config, addr, lb, links, machine, crashes, cut, unchecked>>

\* Mutant: the new configuration is not written.
MutWriteConfig ==
    /\ proc.at = "config"
    /\ proc' = [proc EXCEPT !.at = "reexec"]
    /\ UNCHANGED <<files, links, machine, client, crashes, cut, unchecked>>

WriteConfig ==
    /\ proc.at = "config"
    /\ config' = proc.new /\ proc' = [proc EXCEPT !.at = "reexec"]
    /\ UNCHANGED <<node, addr, lb, links, machine, client, crashes, cut, unchecked>>

\* teardown_network of the old bridge, and the process replaces itself.
Reexec ==
    /\ proc.at = "reexec"
    /\ links' = IF net_changed(proc.cfg, proc.new) THEN links \ {proc.cfg.bridge} ELSE links
    /\ proc' = Down
    /\ UNCHANGED <<files, machine, client, crashes, cut, unchecked>>

\* A step that fails: the request is answered with the error and what was done stays.
InitFails ==
    /\ proc.at \in {"purge", "node", "config"} /\ Fault
    /\ proc' = Serving(proc.cfg) /\ client' = None
    /\ cut' = (cut \/ (proc.at = "config" /\ proc.new.subnet # config.subnet))
    /\ UNCHANGED <<files, links, machine, unchecked>>

Crash ==
    /\ proc # Down /\ Fault
    /\ proc' = Down
    /\ cut' = (cut \/ (proc.at = "config" /\ proc.new.subnet # config.subnet))
    /\ unchecked' = (unchecked \/ (proc.at = "launch" /\ ~Reservable(proc.new, proc.cfg)))
    /\ UNCHANGED <<files, links, machine, client>>

-----------------------------------------------------------------------------
(* Containers and load balancers while the daemon serves, and the client.  *)

\* op_run stores the spec with the address that its client asks for, if any.
Run(c, wanted) ==
    /\ proc.at = "serving" /\ addr[c] = None
    /\ addr' = [addr EXCEPT ![c] = wanted]
    /\ proc' = Busy("launch", proc.cfg, c)
    /\ UNCHANGED <<config, node, lb, links, machine, client, crashes, cut, unchecked>>

\* launch reserves that address, or allocates one and stores it; a run whose
\* launch fails, for this or another reason, purges the container.
Launch(c) ==
    /\ proc.at = "launch" /\ proc.new = c /\ proc' = Serving(proc.cfg)
    /\ \/ addr[c] # Unset /\ Reservable(c, proc.cfg) /\ UNCHANGED addr
       \/ /\ addr[c] = Unset
          /\ \E a \in Address(proc.cfg.subnet) \ {addr[d] : d \in Stored} :
               addr' = [addr EXCEPT ![c] = a]
       \/ addr' = [addr EXCEPT ![c] = None]
    /\ UNCHANGED <<config, node, lb, links, machine, client, crashes, cut, unchecked>>

\* The purge after a failed launch fails too, which op_run ignores.
PurgeFails(c) ==
    /\ proc.at = "launch" /\ proc.new = c /\ Fault
    /\ proc' = Serving(proc.cfg)
    /\ unchecked' = (unchecked \/ addr[c] # Unset)
    /\ UNCHANGED <<files, links, machine, client, cut>>

Rm(c) ==
    /\ proc.at = "serving" /\ addr[c] # None
    /\ addr' = [addr EXCEPT ![c] = None]
    /\ UNCHANGED <<config, node, lb, links, machine, proc, client, crashes, cut, unchecked>>

LbSet ==
    /\ proc.at = "serving" /\ lb' = ~lb
    /\ UNCHANGED <<config, node, addr, links, machine, proc, client, crashes, cut, unchecked>>

\* apply_local asks a daemon that answers Info, and polls until the settings apply.
apply_local(s) ==
    /\ client = None /\ proc.at \in {"standby", "serving"} /\ client' = s
    /\ UNCHANGED <<files, links, machine, proc, crashes, cut, unchecked>>

Applied ==
    /\ client # None /\ proc = Serving(client) /\ client' = None
    /\ UNCHANGED <<files, links, machine, proc, crashes, cut, unchecked>>

TimedOut ==
    /\ client # None /\ proc.at \notin {"standby"} /\ proc # Serving(client) /\ client' = None
    /\ UNCHANGED <<files, links, machine, proc, crashes, cut, unchecked>>

-----------------------------------------------------------------------------

Init ==
    /\ config = None /\ node = None /\ addr = [c \in Containers |-> None] /\ lb = FALSE
    /\ links = {} /\ machine \in Machines /\ proc = Down /\ client = None
    /\ crashes = 0 /\ cut = FALSE /\ unchecked = FALSE

Next ==
    \/ Start \/ adopt_node \/ reinit_node \/ teardown
    \/ \E m \in Machines : Clone(m)
    \/ \E s \in Settings :
         \/ apply_local(s) \/ StandbyInit(s) \/ InitHttps(s)
         \/ \E force \in BOOLEAN : op_init(s, force)
    \/ Purge \/ UpdateNode \/ WriteConfig \/ Reexec \/ InitFails \/ Crash
    \/ \E c \in Containers : Launch(c) \/ PurgeFails(c) \/ Rm(c)
    \/ \E c \in Containers : \E a \in {Unset} \cup UNION {Address(n) : n \in Subnets} : Run(c, a)
    \/ LbSet \/ Applied \/ TimedOut

\* The service manager starts the daemon again and a request that is being
\* served goes on; commands of the administrator carry no fairness.
DaemonTurn ==
    \/ Start \/ Purge \/ UpdateNode \/ WriteConfig \/ Reexec
    \/ \E c \in Containers : Launch(c)

Fairness == WF_vars(DaemonTurn)

Spec == Init /\ [][Next]_vars /\ Fairness

-----------------------------------------------------------------------------
(* Correctness.                                                            *)

\* A daemon that ended comes back with an init server or serving.  Three things
\* make Daemon::new refuse for good: open_node does when an init was cut between
\* node.json and the configuration, or when the disk was cloned, and rebuild does
\* when a run stored an address of its client and did not get to check it.
ComesBack ==
    proc = Down ~> \/ proc.at \in {"standby", "serving"}
                   \/ cut \/ unchecked
                   \/ node # None /\ node.machine # machine
=============================================================================
