------------------------------ MODULE Addresses ------------------------------
(***************************************************************************)
(* How collocated assigns the addresses of its subnet: the table of Ipam,  *)
(* the addresses recorded in the stored container specs, the load          *)
(* balancers in memory and their files.  The table is memory only; a new   *)
(* daemon rebuilds it from the specs (Ipam::rebuild, fatal when two specs  *)
(* claim one address) and then from the load balancer files (load_lbs,     *)
(* where a conflict is ignored).                                           *)
(***************************************************************************)
EXTENDS Ipam

CONSTANTS
    Persistent,   \* containers whose spec survives without a process
    WantedAddrs,  \* addresses that clients ask for in a spec (net.addr)
    WantedVips    \* for each load balancer, the addresses clients ask for

ASSUME WantedAssumption ==
    /\ Persistent \subseteq Containers
    /\ WantedAddrs \subseteq Addrs
    /\ WantedVips \in [Balancers -> SUBSET Addrs]

VARIABLES
    up,      \* the daemon is running
    ipam,    \* Daemon.ipam
    stored,  \* containers with a spec on disk
    addr,    \* net.addr of their specs, NoAddr for None
    lbs,     \* Daemon.lbs: the vip of each, NoAddr when there is none
    files    \* the same in the load balancer directory

vars == <<up, ipam, stored, addr, lbs, files>>

NoVips == [l \in Balancers |-> NoAddr]

-----------------------------------------------------------------------------
(* Containers.                                                             *)

\* The address of a launch: reserve the one in the spec, or allocate one.
LaunchAddr(c, a) ==
    IF a = NoAddr THEN allocate(ipam, c)
    ELSE IF CanReserve(ipam, a, c) THEN {a} ELSE {}

\* op_run.  (A run that fails is purged, which restores this state.)
Run(c, wanted) ==
    /\ up /\ c \notin stored
    /\ \E a \in LaunchAddr(c, wanted) :
         /\ ipam' = reserve(ipam, a, c)
         /\ addr' = [addr EXCEPT ![c] = a]
    /\ stored' = stored \cup {c}
    /\ UNCHANGED <<up, lbs, files>>

\* Start, Restart or relaunch of a stored container; the address stays reserved
\* when the launch fails later on.
Start(c) ==
    /\ up /\ c \in stored
    /\ \E a \in LaunchAddr(c, addr[c]) :
         /\ ipam' = reserve(ipam, a, c)
         /\ addr' = [addr EXCEPT ![c] = a]
    /\ UNCHANGED <<up, stored, lbs, files>>

\* Mutant: the address is not released.
MutPurge(c) ==
    /\ up /\ c \in stored
    /\ stored' = stored \ {c}
    /\ addr' = [addr EXCEPT ![c] = NoAddr]
    /\ UNCHANGED <<up, ipam, lbs, files>>

\* purge: Rm, the exit timer, the idle reaper.
Purge(c) ==
    /\ up /\ c \in stored
    /\ stored' = stored \ {c}
    /\ addr' = [addr EXCEPT ![c] = NoAddr]
    /\ ipam' = release(ipam, c)
    /\ UNCHANGED <<up, lbs, files>>

-----------------------------------------------------------------------------
(* Load balancers.                                                         *)

LbAddr(l, v) ==
    IF v = NoAddr THEN vip(ipam, l)
    ELSE IF CanReserve(ipam, v, l) THEN {v} ELSE {}

\* op_lb_set.
LbSet(l, wanted) ==
    /\ up
    /\ \E v \in LbAddr(l, wanted) :
         /\ ipam' = reserve(ipam, v, l)
         /\ files' = [files EXCEPT ![l] = v]
         /\ lbs' = [lbs EXCEPT ![l] = v]
    /\ UNCHANGED <<up, stored, addr>>

\* op_lb_set when `ip addr add' or the write of the file fails: the table keeps
\* the new reservation, the load balancer its old address.
LbSetFails(l, wanted) ==
    /\ up
    /\ \E v \in LbAddr(l, wanted) : ipam' = reserve(ipam, v, l)
    /\ UNCHANGED <<up, stored, addr, lbs, files>>

LbRemove(l) ==
    /\ up /\ lbs[l] # NoAddr
    /\ lbs' = [lbs EXCEPT ![l] = NoAddr]
    /\ files' = [files EXCEPT ![l] = NoAddr]
    /\ ipam' = release(ipam, l)
    /\ UNCHANGED <<up, stored, addr>>

-----------------------------------------------------------------------------
(* Crash and start.                                                        *)

Down == up' = FALSE /\ ipam' = New /\ lbs' = NoVips

Crash == up /\ Down /\ UNCHANGED <<stored, addr, files>>

\* The crash comes after store.create: the spec holds the address its client
\* asked for, which nobody has checked yet.
CrashInRun(c, wanted) ==
    /\ up /\ c \notin stored
    /\ Down
    /\ stored' = stored \cup {c}
    /\ addr' = [addr EXCEPT ![c] = wanted]
    /\ UNCHANGED files

\* The crash comes after the file was written, or while it was: a file cut
\* short does not parse, and load_lbs passes over it.
CrashInLbSet(l, wanted) ==
    /\ up
    /\ \E v \in LbAddr(l, wanted) : \E file \in {v, NoAddr} : files' = [files EXCEPT ![l] = file]
    /\ Down
    /\ UNCHANGED <<stored, addr>>

\* Ipam::rebuild succeeds.
Rebuildable ==
    /\ \A c \in stored : addr[c] # NoAddr => addr[c] \in Assignable
    /\ \A c, d \in stored : c # d /\ addr[c] # NoAddr => addr[c] # addr[d]

\* load_lbs reserves in the order of the directory and ignores conflicts, so of
\* the load balancers that claim an address no spec claims one wins.
Claims(l) == files[l] # NoAddr /\ \A c \in stored : addr[c] # files[l]

Winners(won) ==
    /\ won \subseteq {l \in Balancers : Claims(l)}
    /\ \A l \in Balancers : Claims(l) => \E k \in won : files[k] = files[l]
    /\ \A k, l \in won : k # l => files[k] # files[l]

\* Mutant: the table is rebuilt from the containers that run.
MutStartDaemon ==
    /\ ~up /\ Rebuildable
    /\ up' = TRUE
    /\ \E won \in SUBSET Balancers, gone \in SUBSET (stored \ Persistent) :
         /\ Winners(won)
         /\ stored' = stored \ gone
         /\ addr' = [c \in Containers |-> IF c \in gone THEN NoAddr ELSE addr[c]]
         /\ ipam' = TableOf([o \in Owners |->
                        IF o \in stored \ (gone \cup Persistent) THEN addr[o]
                        ELSE IF o \in won THEN files[o] ELSE NoAddr])
    /\ lbs' = files
    /\ UNCHANGED files

\* Daemon::new: rebuild, load_lbs, reconcile, which removes the ephemeral
\* containers that no longer run (`gone').
StartDaemon ==
    /\ ~up /\ Rebuildable
    /\ up' = TRUE
    /\ \E won \in SUBSET Balancers, gone \in SUBSET (stored \ Persistent) :
         /\ Winners(won)
         /\ stored' = stored \ gone
         /\ addr' = [c \in Containers |-> IF c \in gone THEN NoAddr ELSE addr[c]]
         /\ ipam' = TableOf([o \in Owners |->
                        IF o \in stored \ gone THEN addr[o]
                        ELSE IF o \in won THEN files[o] ELSE NoAddr])
    /\ lbs' = files
    /\ UNCHANGED files

-----------------------------------------------------------------------------

Init ==
    /\ up = TRUE /\ ipam = New
    /\ stored = {} /\ addr = [c \in Containers |-> NoAddr]
    /\ lbs = NoVips /\ files = NoVips

Next ==
    \/ \E c \in Containers, a \in WantedAddrs \cup {NoAddr} : Run(c, a) \/ CrashInRun(c, a)
    \/ \E c \in Containers : Start(c) \/ Purge(c)
    \/ \E l \in Balancers : \E v \in WantedVips[l] \cup {NoAddr} :
         LbSet(l, v) \/ LbSetFails(l, v) \/ CrashInLbSet(l, v)
    \/ \E l \in Balancers : LbRemove(l)
    \/ Crash \/ StartDaemon

Spec == Init /\ [][Next]_vars

-----------------------------------------------------------------------------

\* Every variable has its type.
TypeOK ==
    /\ up \in BOOLEAN
    /\ ipam \in Tables
    /\ stored \subseteq Containers
    /\ addr \in [Containers -> Addrs]
    /\ lbs \in [Balancers -> Addrs]
    /\ files \in [Balancers -> Addrs]

\* The two maps of the table stay inverse to each other, through moves, releases
\* and rebuilds: no address has two owners and none is leaked (Ipam).
TableConsistent == Consistent(ipam)

\* Whatever address the spec of a stored container holds is reserved for it in
\* the table of a running daemon, so nobody else is given it: also for stopped
\* containers, and after the table was rebuilt.
StoredReserved ==
    up => \A c \in stored : addr[c] # NoAddr => ipam.by_owner[c] = addr[c]

\* The table of a running daemon holds no reservation for a container that is
\* gone: addresses come back.
NothingLeaked ==
    up => \A c \in Containers \ stored : ipam.by_owner[c] = NoAddr
=============================================================================
