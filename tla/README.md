# A TLA+ verification project for collocate

collocate runs containers on one host or on a cluster of them. `collocated` is the
daemon that owns a node's containers; clients talk to it over a Unix socket, or over
TLS through `collocate-gateway`; `collocate-controller` keeps the services of compose
files at their desired replicas; the `collocate` command sets nodes up, provisions
clusters and brings compose files up. This directory holds models of the parts of the
program that keep state or take several steps, the TLC configurations that check them on
small instances, and TLAPS proofs of the properties that matter most.

Paths below are relative to `src/crates`. Line numbers are in `PROJECT.json`, which maps
every definition that models code to its lines.

* [Inventory](#inventory): the parts of the system
* [Modules](#modules): how each models its part, and what is checked of it
* [Runs and bounds](#runs-and-bounds), [Fairness](#fairness), [Proofs](#proofs)
* [Where code and text disagree](#where-code-and-text-disagree), [Known limits of the code](#known-limits-of-the-code)
* [Not modelled](#not-modelled), [Plan](#plan), [How to run](#how-to-run)

## Inventory

| part | state it keeps | operations | interacts with |
|---|---|---|---|
| event loop of `collocated` (`collocated/src/daemon.rs`) | `live` (pid, waiters, stop flag), restart counts, timers; all in memory | run, start, stop, kill, restart, rm, wait and exec requests; `on_pidfd`, `on_timer`; `reconcile` at start | everything below, by calls from its single thread |
| node store (`collocate-store`) | directories of containers, `node.json` | `create`, `update`, `remove`, `recover`, `load_all`, `open_node` | the event loop, set-up |
| addresses (`collocate-net/src/ipam.rs`) | two maps in memory | `reserve`, `allocate`, `release`, `vip`, `rebuild` | launch, purge, `op_lb_set`, start of the daemon |
| health checks, load balancers, firewall (`daemon.rs`, `collocated/src/health.rs`, `collocate-net/src/ruleset.rs`) | health trackers, probes in flight, `lbs`, `fw_dirty`; the nft table in the kernel | `check_health`, probe exits, `op_lb_set`, `flush_firewall` | container starts and exits |
| launch, exec and init (`collocate-runtime`, `collocate-init`) | cgroup, namespaces, processes | the handshake of a launch, the relay of an exec, the init's reaping and signals | the kernel, the event loop |
| set-up and standby (`collocated/src/{setup,standby,config,main}.rs`, `collocate/src/init.rs`) | configuration, links | init, `op_init`, re-exec, start | node store, addresses |
| images (`collocate-image`, `collocated/src/images.rs`) | layers and a file for each image | pull and import in worker processes; delete, prune and commit in the daemon | registry client |
| secrets (`collocated/src/secrets.rs`) | two files for each secret | `set`, `ensure`, `remove`, `reveal` | compose, launch |
| trust store (`collocate-trust`) | tokens, certificates, the server's key and certificate | token, enroll, add, remove, expire | the daemon's remote requests |
| requests and authorization (`collocate-core`, `collocated/src/remote.rs`) | none | `access`, `op_as`, filters on answers | gateway, every handler |
| gateway (`collocate-gateway`) | cache of trust decisions, failed enrollments, the listener; one thread per connection | lookup, enroll, call, exec and log streams, image uploads; probing for its address | daemon over its socket, clients over TLS |
| remote client (`collocate-remote`) | a kept connection, `remotes.yaml` | calls with a retry, exec streams | gateway |
| controller (`collocate-controller`) | what it remembers of each service, the autoscaler's history; memory only | tick: observe, decide, drain, start; scale | compose files, daemons |
| compose (`collocate-compose`, `cluster up`) | none of its own | order, `plan`, `up`, `down` | daemon requests |
| cluster provisioning (`collocate-cluster`, init in lxd mode) | `cluster.yaml` | a plan of steps from what is observed | LXD, set-up of each node |
| logs (`collocate/src/commands.rs`, gateway, `collocate-pebble`) | the follower's position | poll, print, end | captured log, Pebble |

What is hard about it, and hard to test:

* **Crashes.** The daemon keeps its tables, timers and reservations in memory while the
  containers, files, cgroups and nft rules outlive it. (`Lifecycle`, `Addresses`,
  `Backends`, `NodeStore`, `Setup`, `Trust`, `Secrets`, `ImageStore`)
* **Timers that outlive their reason.** By the time a relaunch, a removal or a kill fires,
  the container may have been stopped, removed or started again. (`Lifecycle`)
* **Late answers and names that change hands.** A probe ends after its container was
  replaced; the answer about a certificate arrives after it was removed; a process id
  belongs to another process. (`Backends`, `Gateway`, `Exec`)
* **Check, then act.** Threads of the gateway, workers that import the same layer, commands
  that save the same file. (`Gateway`, `EnrollThrottle`, `ImageStore`, `Remotes`)
* **Decisions on an old observation.** Ticks of the controller, plans of `up` and of
  provisioning act call by call on what goes on changing. (`Controller`, `Compose`,
  `Provision`)
* **Everyone waiting on everyone.** Parent and child of a launch; client, gateway and
  command of an exec. (`Launch`, `ExecStream`)
* **Retries of what was already done.** Client and gateway each send a request again.
  (`RemoteCall`)
* **One step of several fails.** Most such errors are logged and nothing else. (all)

The full list, with lines and the properties for each, is under `hazards` in
`PROJECT.json`.

## Modules

A module's actions are the program's handlers, whole: what a handler does after its main
work (marking the firewall, answering waiters, saving) is part of the action. Where a
crash may strike in the middle of a handler, the handler is several actions, or there is a
second action for the cut handler. Definitions named `Mut...` are deliberate bugs;
`PROJECT.json` pairs each with the property that must catch it, to show that the property
depends on the code.

### The daemon and its containers

**Lifecycle** is the event loop. The daemon has one thread, so a handler is one step
between other handlers, the kernel (a process dies; a killed one takes its time), timers
and crashes. A handler is an operator on a *world* `[h |-> host, m |-> mem]`: `host` is
what survives the daemon (stored specs, exit records, run directories, cgroups, processes)
and `mem` what it loses (`live`, restart counts, scheduled tasks, connections). A handler
with several durable writes yields, besides its result, the hosts a crash can leave between
them, which `CrashInLaunch`, `CrashInExit` and `CrashInPurge` keep. `StartDaemon` is
`reconcile`. Any pending timer may be the next one due, except that the kill of a stop does
not come before its signal. The ghost `abandoned` holds the ids whose relaunch or adoption
failed; `acked` those whose last order was a stop that was answered. `WaitersParked`: an
unanswered stop or wait is parked in the live entry. `LiveIsStored`: what runs has its
spec. `OneInit`: never two inits. `ReapArmed`: an idle-limited container has its reap
timer, across restarts. `CleanStart`: the daemon's start leaves no cgroup or run directory
without owner. `PersistentKept`: nothing but an rm loses a persistent container.
`StopAnswers`, `EphemeralLeaves`: a stop is answered, an ephemeral container leaves.

**ContainerMap, NodeStore**: the abstract store is a map in which create, update and remove
are one step; `NodeStore` has every rename and removal of the two base directories as an
action, with crashes and reboots (which empty `/run`) anywhere. `ImplementsContainerMap`
is the refinement. This is what lets `Lifecycle` and `Addresses` take those calls as single
steps.

**Ipam, Addresses**: `Ipam` has the allocator's arithmetic as operators (ranges, hash-first
probe, `reserve` with its conflicts, `vip`, `rebuild`), addresses being offsets in the
subnet; `Addresses` composes it with the operations that use it and with what is on disk.
`TableConsistent`: the two maps are inverse. `StoredReserved`: the table covers every
stored spec. `NothingLeaked`: it holds nothing of a container that is gone.

**Backends**: handlers that change who should receive traffic only set `fw_dirty`; `Flush`,
at the end of a batch, computes the rules and runs nft, which may fail (ghost `stale`). An
exec probe is a process whose end is handled later. `RulesCurrent`: between batches the
kernel's rules are those the daemon's state calls for, unless the last nft failed.
`UnfitLeaves`: a container that is gone, stopping or failing comes to receive nothing.

**Setup**: the standby server before the first init, `op_init` step by step (purge,
`node.json`, configuration, re-exec), the start of the daemon with its refusals, the init
command that waits, crashes and cloned disks. `ComesBack`: a daemon that ended comes back
to serving or to standby; as `Start` refuses files that do not fit, this is also what shows
that the stored containers, `node.json` and the configuration fit each other.

**Launch**: daemon and child over two sockets, failures of either, the timeout of
`confirm`, and collocate-init with pending signals, orphans and reaping. `LaunchSettles`:
every launch is decided, a failed one leaves no process, the program's exit is noticed
although several SIGCHLD are one, and SIGTERM is passed on once signals are blocked.

**Exec**: the relay joins a cgroup by path, a root by pid and namespaces by pidfd while the
container ends, starts again and its pid is reused. `ExecInside`: a command runs only in
the start of the container that was meant.

**Node** puts the store, the secrets, the images, a command in a container and the log of
a container side by side: they share no files, so a step of the node is a step of one of
them. It is the specification of the run `node` and of the theorems about these parts.

**SecretMap, Secrets**: the directory implements an abstract map through every
interruption (`ImplementsMap`); no name has the extension `tmp` (see the known limits).

**ImageStore**: workers and the daemon share the layer directory without a lock, and every
extraction of a layer uses the same temporary directory. `ImagesWhole`: a directory with a
layer's name holds all of it, and a pull nobody disturbs leaves an image that is complete.

### Clients and access

**Clients** puts `Trust`, `EnrollThrottle`, `Access`, `RemoteCall`, `Remotes`, `Controller`
with the recreate strategy and `Autoscaler` side by side, as `Node` does with the parts of
a node. It is the specification of the theorems of `ClientsProofs`; `MCClients` adds
`Compose` and is the module of the run `clients`.

**Trust**: tokens, certificates, identity; each file is replaced by a rename, crashes fall
between files. `CertsDistinct`, `SpentIsGone`, `IdentityMatches`.

**Access**: which role and reach a request needs, the caller's projects, what the handlers
then do for anybody, and the filter on answers. `Isolated`: a restricted certificate sees
and changes only what is of its projects, load balancers aside, and a viewer changes
nothing.

**Gateway**: a lookup is three steps of a thread (read the cache, ask the daemon, write the
cache) which other threads separate; time is ticks. `StreamsCutOff`: a stream goes on for
`CutOff`, which is the cache's lifetime plus the time of a lookup, after a removal at most. `AdmittedIsTrusted`: whoever is admitted was trusted within the
cache's lifetime. `EnrolledIsAdmitted`: an enrolled client is not refused out of an older
entry, except for the race in which an older answer is written after the entry was
forgotten. **EnrollThrottle**: `NearLimit` bounds failures by the limit plus the
connections checked together.

**Listener**: the gateway's main. It probes the daemon for the address, reads certificate
and key (two files, which daemon and administrator change), binds, and checks both again.
`Listens`: when changes end it gets to the right listener and stays there, and it never
listens with a certificate and another's key.

**RemoteCall**: a request over the client's kept connection and the gateway's connection to
the daemon. Both retry once. The gateway reads head and body, refuses, or calls; answers
say whether the connection is kept; the rest of a body that was too large is read as the
next head. `CallsSound`: no request gets another's answer, an enrollment is carried out
once at most, another request at most four times.

**ExecStream**: client and gateway each take turns at reading and sending over a connection
of bounded capacity, with threads for the input, the outputs and the daemon's answer; a
local client pumps three sockets. `StreamsDeliver`: the exec ends once its command has
exited or its input has ended, and one that ends with a status has shown all output.

**Remotes**: `remotes.yaml`, loaded, changed and saved by several commands at a time
through one temporary file, and enrollment between load and save. `RemotesSound`: whatever
can be loaded names a default that exists and remotes that trusted this client.

**Logs**: a follower of the command line or the gateway polls the captured log by position
or Pebble by time stamp while the container restarts, is removed and is run again.
`FollowsWhole`: each line once and in order, none skipped.

### Services and clusters

**Rollout, Controller**: `Rollout` is `rollout.rs`, a function of an observation;
`Controller` composes it with the replicas, the file, the tick's calls and its memory.
`AvailabilityKept`, `BadLeaves`, `Converges` for rolling updates, `OneRevision` for
recreate. **Autoscaler**: history, windows, steps and tolerance. `ScalesStable`: a
recommendation of the whole window is honoured, whatever was pruned and skipped.

**Compose**: `up`, `down` and `cluster up` as sequences of calls that may fail anywhere,
from a plan made once per node, by several users at a time. `UpEstablishes`: an up that
meets no error and no other command leaves exactly the containers of the file, whatever
earlier commands left, and those that mount the secret with its current value unless their
node is `stale` (see the known limits). `OrderKept`: dependencies first, dependents away
first.

**Provision**: the plan from what is observed, its steps with interruptions, the registry.
`Resumes`: a command that meets no further fault records its nodes.

## Runs and bounds

Components that share no state are checked in one run where that saves nothing but
repetition: the MC module instantiates each, `part` says which of them moves in a
behaviour, and the states explored are the union of the parts' states, not their product.
A part's fairness applies to the behaviours in which it moves.

| run | states | time | parts and bounds |
|---|---|---|---|
| `lifecycle` | 42 k | 95 s | two connections and one container, of which `which` says whether it is ephemeral, idle-limited and restarts on failure, or persistent and always restarts; containers share only the thread here, so one at a time suffices for properties of one. `MaxAttempts` is above `MaxRetries` so that the limit is crossed; `MaxTasks` bounds equal timers |
| `lifecycle_stop` | – | – | finding |
| `host` | 331 k | 90 s | *addresses*: a /28, three containers, two balancers that compete for the one virtual address, clients that name any address. *exec*: remote and local; connections and sockets take one piece, so that two pieces of input, one of output and the exit frame make every pair of sides wait for each other |
| `clients` | 624 k | 140 s | *trust*: two of each name, fingerprint, secret; *throttle*: three connections, limit 3; *rights*: a certificate of each role; *calls*: three requests, three errors; *remotes*: two commands, two names, three inodes; *compose*: three files over two services and two nodes, in one of which both nodes need the secret, three commands one after the other, one fault; *users*: two such commands at the same time; *recreate*: two troubles, two edits; *autoscale*: windows of 1 and 3 ticks |
| `access_lb` | – | – | finding |
| `gateway` | 1.04 M | 30 s | two threads of one client, TTL of two ticks, lookups of up to one; connections are interchangeable, hence the symmetry |
| `gateway_uploads` | – | – | finding |
| `controller` | 149 k | 35 s | two replicas, a good and a bad revision, two edits, a delay and a deadline, two troubles (an exit, a replica that vanishes, an aborted tick or a restart) |
| `backends` | 133 k | 135 s | a container with exec probes, one with network checks, one balancer, one retry |
| `node` | 215 k | 35 s | *secrets*: names that share a stem; *store*: two ids, names that collide; *images*: two workers of one layer, and one worker of two; *exec*: three starts; *logs*: three lines, two containers of a name |
| `progress` | 54 k | 20 s | *setup*: two subnets, bridges and machines, one crash; *launch*: two orphans; *cluster*: two nodes, two faults; *listener*: two addresses, six changes |
| `provision` | – | – | finding |

Deadlock is not checked where the system may stop: a daemon whose files do not agree does
not start, clients and commands are finite in number.

## Fairness

Runs of safety properties have none. Where there is liveness:

* `Lifecycle`: weak fairness of handling an exit, of each due timer, and of the death of
  a killed process. The loop is epoll over all of them and returns to it after each
  handler; the kernel delivers SIGKILL. Clients and crashes are under no obligation.
* `Backends`: the flush, handling exits, the checks' timers and the end of a probe (its
  timeout kills it).
* `Controller`: ticks, the calls of a tick, time (delay, deadline, min_ready) and a
  replica's health settling; strong fairness of a start that succeeds: a daemon that
  refuses every start forever can give no service. Edits and troubles are finite in number.
* `Setup`: the start of a daemon that ended (systemd) and the steps of an init under way.
  `Launch`: the parent's steps and timeout, the child's, those of collocate-init.
  `Provision`: the steps of a command under way.
* `Listener`: the daemon's start and its steps in `ensure_server_identity`; the gateway's
  loops, which sleep at most 10 s. Changes from outside are finite in number.
* `ExecStream`: turns of client and gateway (both poll, and a send of the gateway ends by
  its write timeout), the threads, the 2 s of grace, and the daemon's answer once the
  command exited. Of the command only this: it reads its input, and exits once that ended.

## Proofs

Each `...Proofs` module proves its theorems for every value of the constants, from the
assumptions named in the component's module (types of the constants; a subnet of at least
four addresses; positive bounds), which TLC evaluates in the runs.

* **LifecycleProofs.** `NoRequestLost` (`WaitersParked`), `NeverTwoInits` (`OneInit`),
  `LiveAlwaysStored` (`LiveIsStored`). None is inductive alone: a launch keeps
  `OneInit` only because a running init is always inside a cgroup and launch refuses an
  existing cgroup; waiters stay parked only because every path that drops a live entry
  answers it. `LifecycleInv` is the conjunction over `host` (`HostOK`), memory (`MemOK`)
  and live ⊆ stored, stated of a world so that it is proved of every intermediate world
  of a handler, which is what a crash needs. Upon it rest three more:
  `IdleReapArmed` (`ReapArmed`), with the invariant `ReapsOK`, by which a container without
  idle timeout never has a reap timer either, new or stale; `StartLeavesNothing`
  (`CleanStart`), from what `reconcile` leaves whichever processes vanish meanwhile or
  resist their kill; and `OnlyRmLoses` (`PersistentKept`), by showing of each handler, and
  of each place where a crash can cut it, that it keeps the specs of persistent
  containers, which needs `ReapsOK` for the timer that purges. The last two are action
  properties.
* **AddressesProofs.** `TableAlwaysConsistent`, `StoredAlwaysReserved`,
  `AddressesComeBack` (`NothingLeaked`), `StoredAddressesDistinct`. `AddressInv` is the
  conjunction of the properties, none of which is inductive without the others, and of
  this: files hold assignable addresses, so that rebuilding cannot take an address out of
  range. That nothing leaks is what makes a reservation found in the table one's own.
* **ClientsProofs.** One theorem for each property of the parts of `Clients`.
  `CertsStayDistinct`, `TokensSpentOnce`, `IdentityStaysWhole`: `TrustInv` adds that
  pending tokens have distinct secrets: otherwise removing the token used would leave its
  twin.
  `FailuresStayNearLimit` (`NearLimit`): failures and connections past the check are
  counted by cardinality; a check that passes bounds their sum.
  `CertificatesIsolated` (`Isolated`), an action property: for any callers, projects and
  names.
  `CallsStaySound` (`CallsSound`): `Counted` bounds what was carried out by the attempts
  made, and `Matched` says that nothing waits on a connection but the answer to the request
  that is being made, unless an earlier one spoiled it.
  `RemotesStaySound` (`RemotesSound`): `UserInv` says that every configuration is sound, in
  whichever inode it is, those that two commands write at once included, and in whichever
  command has loaded it.
  `RecreatedOneAtATime` (`OneRevision`): `RecreateIsExclusive` of `ControllerProofs`,
  instantiated with the strategy.
  `ScalesSteadily` (`ScalesStable`): the invariant `Remembered` says that, for as long as a
  recommendation can matter, the pruned history has it if and only if it was made. Where
  one would argue by induction, the well-founded order of the naturals gives a least
  member of a set of numbers (`LeastNatural`); `FiniteGreatest` gives a greatest one.
* **BackendsProofs.** `RulesAlwaysCurrent`. The lemma `SameRules` says which variables the
  rules depend on; every action either leaves these alone or sets `fw_dirty`.
* **SecretsProofs.** `StoreImplementsMap`: for all names whose extension is not `tmp`, the
  directory implements `SecretMap`. The invariant says what the temporary file holds when
  it is renamed. Without the assumption the theorem is false (see the known limits).
* **GatewayProofs.** `AnswersExplained` is the invariant: an answer in the cache, and one
  that a thread holds and has yet to write, is explained by the trust store or by a
  removal (`Vouched`) or an outage (`Excused`) that is no older than the answer. The
  answers on their way are the point: the properties do not mention them and are broken
  by them later. From it, `RevokedStreamsEnd` (`StreamsCutOff`) with the clock of each
  stream, and the action properties `AdmissionsJustified` (`AdmittedIsTrusted`) and
  `EnrollmentsHold` (`EnrolledIsAdmitted`) through one lemma, `Outcome`, about how a
  lookup can end. For any lifetime of the cache, any time of a lookup, any connections.
* **ControllerProofs.** For any number of replicas, surge and unavailability.
  `RollingKeepsServing` (`AvailabilityKept`): the property is about healthy replicas, the
  invariant `Covered` about those that are *ready* and not among those a tick under way
  has still to drain; its proof is the arithmetic of `next_step` on cardinalities
  (`Highest` and `Lowest` choose as many as they are asked for).
  `RecreateIsExclusive`: never two revisions, although a tick starts replicas from an old
  observation, since what is still to be started is of the revision that runs (`Single`).
  `NeverTooMany`: no revision has more replicas than desired, those still to be started
  included (`Bounded`). The two strategies are assumptions of their theorems.
* **NodeProofs.** `NodeStoreIsAMap` (`ImplementsContainerMap`): each file operation of the
  node store is a step of the map or a stutter. `create` takes effect at its rename,
  `remove` at the rename to the trash or, without a directory of state, at the removal of
  the spec under `/run`. The invariant `StoreInv` says that a container has one spec and
  under the base directory of its kind, that what `create` checked still holds at its
  rename, what the directory it renames holds, and what `remove` can rely on in each step.
  `ImagesStayWhole` (`ImagesWhole`): `ImageInv` follows what the temporary directory of a
  layer holds at each step of the worker that unpacks it, and for a worker that nobody
  disturbed, that each layer is there or still ahead of it.
  `CommandsRunInside` (`ExecInside`): a root that is not that of the start which was meant
  can only have been opened once its process 1 was gone (`RelayRooted`), and then joining
  its namespaces or forking fails.
  `LogsFollowedWhole` (`FollowsWhole`): `LogInv` says that all logs and outputs are in the
  order of writing (`Ordered`), that a follower of the captured log has printed the stretch
  up to its offset (`CapturedTo`), that one of Pebble has printed nothing later than its
  time stamp and skipped nothing up to it (`PebbleTo`), and that what was there when the
  container was seen down still is (`DueIsThere`), all of this for a follower whose
  container may have lost its name to a later one (`Placed`).
  The entries later than a stamp are a suffix since stamps never decrease.

The assumptions are on constants only, and what the code makes them: values that stand for
something missing are no values of the thing, bounds are natural numbers (`MaxStarts` and
`MaxTasks` positive, `MaxAttempts` above `MaxRetries`), the image of a commit has a layer.

Only model-checked:

* all liveness, which is out of the prover's reach, like ENABLED: `Setup`, `Launch`,
  `Provision`, `Listener`, `ExecStream` and the eventual half of `Backends`, `Controller`
  and `Lifecycle`;
* `UpEstablishes` and `OrderKept` of `Compose`. A plan is a sequence put together from the
  file by flattening, filtering and sorting; which calls it holds, and in which order, for
  every file needs induction over sequences.

Every other invariant of a run, and every action property that is not about eventual
behaviour, is a theorem.

## Where code and text disagree

Each is a run in which TLC finds a statement of the repository violated by what the code
does; `findings` in `PROJECT.json` quotes it.

| run | what happens |
|---|---|
| `lifecycle_stop` | a stop in the restart backoff is answered Ok, and the pending relaunch starts the container |
| `gateway_uploads` | an upload never looks at trust again and outlives the removal of its certificate |
| `access_lb` | load balancers are keyed by project and name joined with `__`, which both may hold: a certificate of one project replaces a balancer of another |
| `provision` | an init interrupted between creating the profile and setting `security.nesting` is followed by one that finds the profile and launches nodes without nesting |

## Known limits of the code

Met while modelling. The models keep these behaviours, and where a property would
otherwise be false its statement says so.

The daemon and its containers:

* A relaunch that fails is only logged: the exited ephemeral container then stays for as
  long as the daemon runs (ghost `abandoned`, excepted in `EphemeralLeaves`).
* The exit status of a container that ended while the daemon was down is lost; wait
  answers 0. The model keeps no values of statuses.
* `op_run` stores a spec before launch checks the address its client asked for. A crash in
  between can leave two specs with one address; `Ipam::rebuild` then fails every start
  (`Rebuildable`).
* The result of a health probe is credited to the next launch of the container when that
  comes first (`ProbeResult`).
* A failed nft run is not repeated until something else changes (ghost `stale`).
* An init that changes the subnet and is cut between `node.json` and the configuration
  leaves files that `open_node` refuses (ghost `cut`, excepted in `ComesBack`).
* A SIGTERM that arrives before collocate-init blocks its signals is lost; the end of file
  of a child that was killed counts as a confirmed launch (`Launch`).
* The timeout of an exec kills the relay only, not the command (`Exec`).
* A secret named `x.tmp` is overwritten by the temporary file of its own version.
* Two workers that extract one layer share its temporary directory, commit extracts in
  place, and a daemon that dies in a commit or a prune leaves a part of a layer (ghost
  `excused` of `ImageStore`).

Clients and access:

* A crash between the two files of an enrollment leaves the used token pending
  (ghost `cut` of `Trust`, excepted in `SpentIsGone`). An enrollment whose answer is lost
  cannot be repeated.
* Connections that pass the throttle together may exceed the limit of failures by their
  number less one (`NearLimit`). Each new listener counts its connections from zero, while
  those of earlier listeners go on (`Listener`). A certificate without its key is never
  replaced by a new identity.
* A second attempt whose answer cannot be read keeps its connection, and a request larger
  than the limit leaves its rest on the connection, to be answered as a malformed request:
  the next request may read the wrong answer (ghost `spoiled` of `RemoteCall`).
* Client and gateway that both send wait for each other until the gateway's write timeout
  of 30 s ends the exec; a client that still sends when the command exits may get an error
  in place of the status; a local exec returns only once its input has more or ends, and
  not while a descendant holds its outputs (`ExecStream`).
* Commands that save `remotes.yaml` at a time lose each other's changes and share the
  temporary file; two first commands may write key and certificate of different identities
  (`Remotes`).
* Lines that Pebble gets between a follower's last poll and the exit are not shown, entries
  with equal stamps may be skipped, so may lines of a container run again under the name,
  and a failed list request ends a gateway's stream (`Logs`).

Services and clusters:

* A restarted controller has forgotten since when replicas are healthy and when the rollout
  began: it drains every old replica together, and a deadline never passes (excepted in
  `AvailabilityKept` and `BadLeaves`).
* With recreate a bad revision is neither rolled back nor paused (`BadLeaves` is checked for
  rolling only), and a rolling update rolls back only while a replica of the revision before
  is left: when all of them failed by themselves, a bad revision stays (excepted in
  `BadLeaves`). A deadline that passes rejects the new revision, good or bad; `Converges`
  then asks for the revision that the service went back to.
* A mounted secret is not part of the revision: a rotation that is cut short is never made
  up for, and a `cluster up` that replaces the value a node had (a rotation on the owner, a
  secret generated on a node where no service used it) leaves the containers that mount it
  there with the old one (ghost `stale` of `Compose`). `up` never removes load balancers that left the
  file, removes containers that did in reverse order of their names, and `cluster up` drops
  dependencies across nodes and skips nodes left without services.
* After a deb installation that was cut, the plan skips enabling the daemon (`Resumes` is
  stated for snaps).

## Not modelled

Byte formats (JSON, TLS, HTTP headers, tar, nft text, YAML), key generation, kernel set-up
(mounts, users, sysctl), argument parsing and output of the command line, commands that
make a single request, the registry client and the thin system call wrappers: they keep no
state of their own and have no order to get wrong. Placement is a pure choice of a node.
Inside the modelled parts: events and statistics, weights of backends, values of exit
statuses.

## Plan

1. `UpEstablishes` as a theorem, with the plan of a command as a set of obligations per
   container and an order on them in place of a sequence.
2. Placement composed with `Controller`; the number of replicas of `Controller` driven by
   `Autoscaler`.

## How to run

    tlc -config lifecycle.cfg MCLifecycle
    tlapm LifecycleProofs.tla

`PROJECT.json` names the module of each configuration. The violation runs are expected to
fail with the property they name.
