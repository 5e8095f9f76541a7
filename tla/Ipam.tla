-------------------------------- MODULE Ipam --------------------------------
(***************************************************************************)
(* The address table of collocate-net (struct Ipam): which owner holds     *)
(* which address of the node's subnet.  Addresses are offsets from the     *)
(* network address.  Offset 0, the network itself, is never assignable and *)
(* stands for "no address".                                                *)
(*                                                                         *)
(* A table is a record of the two maps of the struct; `reserve' and the    *)
(* others are operators from tables to tables, so that the daemon's table  *)
(* (Addresses) is one use of them.                                         *)
(***************************************************************************)
EXTENDS Integers

CONSTANTS
    Containers,  \* owners that are container ids
    Balancers,   \* owners "vip:project/name"
    NoOwner,     \* not an owner
    Size,        \* addresses in the subnet, 2^(32 - prefix)
    Hash         \* hash_u64 of an owner's name

Owners == Containers \cup Balancers

ASSUME OwnerAssumption ==
    /\ Containers \cap Balancers = {}
    /\ NoOwner \notin Owners

\* Subnet::parse admits prefixes up to 30.
ASSUME SizeAssumption ==
    /\ Size \in Nat
    /\ Size >= 4

ASSUME HashAssumption == Hash \in [Owners -> Nat]

-----------------------------------------------------------------------------

VIP_CAP == 255
NoAddr == 0
Addrs == 0..(Size - 1)

first == 2
last == Size - 2

vip_count ==
    LET share == (last - first + 1) \div 8
    IN  IF share < VIP_CAP THEN share ELSE VIP_CAP

\* Containers get addresses up to pool_end, load balancers those above it.
pool_end == last - vip_count

Assignable == first..last

Tables == [by_owner : [Owners -> Addrs], by_addr : [Addrs -> Owners \cup {NoOwner}]]

New == [by_owner |-> [o \in Owners |-> NoAddr], by_addr |-> [a \in Addrs |-> NoOwner]]

-----------------------------------------------------------------------------

CanReserve(t, a, o) == a \in Assignable /\ t.by_addr[a] \in {NoOwner, o}

\* Mutant: the owner's earlier address is not freed.
MutReserve(t, a, o) ==
    [by_owner |-> [t.by_owner EXCEPT ![o] = a], by_addr |-> [t.by_addr EXCEPT ![a] = o]]

\* A successful reserve; the owner's earlier address becomes free.
reserve(t, a, o) ==
    [by_owner |-> [t.by_owner EXCEPT ![o] = a],
     by_addr  |-> [x \in Addrs |-> IF x = a THEN o
                                   ELSE IF x = t.by_owner[o] THEN NoOwner
                                   ELSE t.by_addr[x]]]

release(t, o) ==
    [by_owner |-> [t.by_owner EXCEPT ![o] = NoAddr],
     by_addr  |-> [x \in Addrs |-> IF x = t.by_owner[o] THEN NoOwner ELSE t.by_addr[x]]]

Free(t, range) == {a \in range : t.by_addr[a] = NoOwner}

\* The address `allocate' finds: the owner's own, or the lowest free one of the
\* pool.  The empty set when the pool is exhausted.
allocate(t, o) ==
    LET free == Free(t, first..pool_end)
    IN  IF t.by_owner[o] # NoAddr THEN {t.by_owner[o]}
        ELSE {a \in free : \A b \in free : a <= b}

\* The steps of `probe' from the owner's hash, around a range of len addresses.
Step(o, a, base, len) == ((a - base) - (Hash[o] % len)) % len

probe(t, o, base, len) ==
    LET free == Free(t, base..(base + len - 1))
    IN  {a \in free : \A b \in free : Step(o, a, base, len) <= Step(o, b, base, len)}

vip(t, o) ==
    IF t.by_owner[o] # NoAddr THEN {t.by_owner[o]}
    ELSE IF vip_count = 0 THEN {}
    ELSE probe(t, o, pool_end + 1, vip_count)

\* The table in which each owner o holds claims[o].
TableOf(claims) ==
    [by_owner |-> claims,
     by_addr  |-> [a \in Addrs |->
         IF a # NoAddr /\ \E o \in Owners : claims[o] = a
         THEN CHOOSE o \in Owners : claims[o] = a ELSE NoOwner]]

\* The two maps are inverse to each other and hold assignable addresses only, so
\* no address has two owners and none is lost.
Consistent(t) ==
    /\ \A o \in Owners : t.by_owner[o] # NoAddr =>
          /\ t.by_owner[o] \in Assignable
          /\ t.by_addr[t.by_owner[o]] = o
    /\ \A a \in Addrs : t.by_addr[a] # NoOwner =>
          a \in Assignable /\ t.by_owner[t.by_addr[a]] = a
=============================================================================
