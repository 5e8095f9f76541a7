--------------------------- MODULE AddressesProofs ---------------------------
(***************************************************************************)
(* Proofs about the address table, for every subnet size, every set of     *)
(* containers and load balancers and every address clients ask for.        *)
(***************************************************************************)
EXTENDS Addresses, TLAPS

\* The virtual range is no larger than the assignable one (vip_count, pool_end).
LEMMA VipRange == vip_count \in Nat /\ vip_count <= last - first + 1
<1>1. (last - first + 1) \div 8 \in Nat /\ (last - first + 1) \div 8 <= last - first + 1
  BY SizeAssumption, SMT DEF last, first
<1> QED
  BY <1>1, SizeAssumption DEF vip_count, VIP_CAP, last, first

\* Assignable addresses are addresses, and none of them is the network's own.
LEMMA AssignableAddrs == Assignable \subseteq Addrs /\ NoAddr \notin Assignable /\ NoAddr \in Addrs
  BY SizeAssumption DEF Assignable, Addrs, NoAddr, first, last

\* Ipam::reserve keeps the two maps inverse and gives the owner the address.
LEMMA ReserveConsistent ==
    ASSUME NEW t \in Tables, NEW o \in Owners, NEW a, Consistent(t), CanReserve(t, a, o)
    PROVE  /\ reserve(t, a, o) \in Tables
           /\ Consistent(reserve(t, a, o))
           /\ reserve(t, a, o).by_owner = [t.by_owner EXCEPT ![o] = a]
<1> DEFINE u == reserve(t, a, o)
<1>1. a \in Assignable /\ a \in Addrs /\ a # NoAddr /\ t.by_addr[a] \in {NoOwner, o}
  BY AssignableAddrs DEF CanReserve
<1>2. t.by_owner \in [Owners -> Addrs] /\ t.by_addr \in [Addrs -> Owners \cup {NoOwner}]
  BY DEF Tables
<1>3. u.by_owner = [t.by_owner EXCEPT ![o] = a] /\ u.by_owner \in [Owners -> Addrs]
  BY <1>1, <1>2 DEF reserve
<1>4. u.by_addr = [x \in Addrs |-> IF x = a THEN o
                                   ELSE IF x = t.by_owner[o] THEN NoOwner
                                   ELSE t.by_addr[x]]
  BY DEF reserve
<1>5. u.by_addr \in [Addrs -> Owners \cup {NoOwner}]
  BY <1>2, <1>4
<1>6. u \in Tables
  BY <1>3, <1>5 DEF reserve, Tables
<1>7. ASSUME NEW p \in Owners, u.by_owner[p] # NoAddr
      PROVE  u.by_owner[p] \in Assignable /\ u.by_addr[u.by_owner[p]] = p
  <2>1. CASE p = o
    BY <2>1, <1>1, <1>2, <1>3, <1>4
  <2>2. CASE p # o
    <3>1. u.by_owner[p] = t.by_owner[p] /\ t.by_owner[p] # NoAddr
      BY <2>2, <1>2, <1>3, <1>7
    <3>2. t.by_owner[p] \in Assignable /\ t.by_addr[t.by_owner[p]] = p
      BY <3>1 DEF Consistent
    <3>3. t.by_owner[p] # a
      BY <3>2, <2>2, <1>1, OwnerAssumption
    <3>4. t.by_owner[p] # t.by_owner[o]
      <4>1. CASE t.by_owner[o] = NoAddr
        BY <4>1, <3>1
      <4>2. CASE t.by_owner[o] # NoAddr
        BY <4>2, <3>2, <2>2 DEF Consistent
      <4> QED BY <4>1, <4>2
    <3> QED BY <3>1, <3>2, <3>3, <3>4, <1>4, AssignableAddrs
  <2> QED BY <2>1, <2>2
<1>8. ASSUME NEW x \in Addrs, u.by_addr[x] # NoOwner
      PROVE  x \in Assignable /\ u.by_owner[u.by_addr[x]] = x
  <2>1. CASE x = a
    BY <2>1, <1>1, <1>2, <1>3, <1>4
  <2>2. CASE x # a
    <3>1. u.by_addr[x] = t.by_addr[x] /\ x # t.by_owner[o] /\ t.by_addr[x] # NoOwner
      BY <2>2, <1>4, <1>8
    <3>2. x \in Assignable /\ t.by_owner[t.by_addr[x]] = x
      BY <3>1 DEF Consistent
    <3>3. t.by_addr[x] \in Owners /\ t.by_addr[x] # o
      BY <3>1, <3>2, <1>2
    <3> QED BY <3>1, <3>2, <3>3, <1>2, <1>3
  <2> QED BY <2>1, <2>2
<1> QED
  BY <1>3, <1>6, <1>7, <1>8 DEF Consistent

\* Ipam::release keeps the two maps inverse and takes the owner's address away.
LEMMA ReleaseConsistent ==
    ASSUME NEW t \in Tables, NEW o \in Owners, Consistent(t)
    PROVE  /\ release(t, o) \in Tables
           /\ Consistent(release(t, o))
           /\ release(t, o).by_owner = [t.by_owner EXCEPT ![o] = NoAddr]
<1> DEFINE u == release(t, o)
<1>1. t.by_owner \in [Owners -> Addrs] /\ t.by_addr \in [Addrs -> Owners \cup {NoOwner}]
  BY DEF Tables
<1>2. /\ u.by_owner = [t.by_owner EXCEPT ![o] = NoAddr]
      /\ u.by_addr = [x \in Addrs |-> IF x = t.by_owner[o] THEN NoOwner ELSE t.by_addr[x]]
  BY DEF release
<1>3. u \in Tables
  BY <1>1, <1>2, AssignableAddrs DEF release, Tables
<1>4. ASSUME NEW p \in Owners, u.by_owner[p] # NoAddr
      PROVE  u.by_owner[p] \in Assignable /\ u.by_addr[u.by_owner[p]] = p
  <2>1. p # o /\ u.by_owner[p] = t.by_owner[p] /\ t.by_owner[p] # NoAddr
    BY <1>1, <1>2, <1>4
  <2>2. t.by_owner[p] \in Assignable /\ t.by_addr[t.by_owner[p]] = p
    BY <2>1 DEF Consistent
  <2>3. t.by_owner[p] # t.by_owner[o]
    BY <2>1, <2>2 DEF Consistent
  <2> QED BY <2>1, <2>2, <2>3, <1>2, AssignableAddrs
<1>5. ASSUME NEW x \in Addrs, u.by_addr[x] # NoOwner
      PROVE  x \in Assignable /\ u.by_owner[u.by_addr[x]] = x
  <2>1. u.by_addr[x] = t.by_addr[x] /\ x # t.by_owner[o] /\ t.by_addr[x] # NoOwner
    BY <1>2, <1>5
  <2>2. x \in Assignable /\ t.by_owner[t.by_addr[x]] = x
    BY <2>1 DEF Consistent
  <2>3. t.by_addr[x] \in Owners /\ t.by_addr[x] # o
    BY <2>1, <2>2, <1>1
  <2> QED BY <2>1, <2>2, <2>3, <1>1, <1>2
<1> QED
  BY <1>2, <1>3, <1>4, <1>5 DEF Consistent

\* What allocate and vip find can be reserved for the owner who asked.
LEMMA FoundIsFree ==
    ASSUME NEW t \in Tables, NEW o \in Owners, Consistent(t)
    PROVE  /\ \A a \in allocate(t, o) : CanReserve(t, a, o)
           /\ \A a \in vip(t, o) : CanReserve(t, a, o)
<1>1. t.by_owner[o] # NoAddr => CanReserve(t, t.by_owner[o], o)
  BY DEF Consistent, CanReserve
<1>2. ASSUME NEW a \in Free(t, first..pool_end)
      PROVE  CanReserve(t, a, o)
  BY VipRange, SizeAssumption DEF Free, CanReserve, Assignable, pool_end, first, last
<1>3. ASSUME NEW a \in Free(t, (pool_end + 1)..(pool_end + 1 + vip_count - 1))
      PROVE  CanReserve(t, a, o)
  BY VipRange, SizeAssumption DEF Free, CanReserve, Assignable, pool_end, first, last
<1>4. \A a \in allocate(t, o) : CanReserve(t, a, o)
  BY <1>1, <1>2 DEF allocate
<1>5. \A a \in vip(t, o) : CanReserve(t, a, o)
  BY <1>1, <1>3 DEF vip, probe
<1> QED BY <1>4, <1>5

-----------------------------------------------------------------------------
(* The invariant of the daemon's address book.                             *)

\* The addresses in the load balancer files are assignable: what load_lbs
\* reserves after a crash was once reserved.
FilesAssignable == \A l \in Balancers : files[l] # NoAddr => files[l] \in Assignable

\* TableConsistent alone is not inductive: the rebuild after a crash needs the
\* files, and StoredReserved is what a later reserve relies on.
AddressInv ==
    /\ TypeOK
    /\ TableConsistent
    /\ StoredReserved
    /\ NothingLeaked
    /\ FilesAssignable

\* The address a launch takes can be reserved for its container.
LEMMA LaunchAddrFree ==
    ASSUME AddressInv, NEW c \in Containers, NEW a, NEW b \in LaunchAddr(c, a)
    PROVE  CanReserve(ipam, b, c)
  BY FoundIsFree DEF AddressInv, TypeOK, TableConsistent, LaunchAddr, Owners

\* The address of op_lb_set can be reserved for its load balancer.
LEMMA LbAddrFree ==
    ASSUME AddressInv, NEW l \in Balancers, NEW v, NEW b \in LbAddr(l, v)
    PROVE  CanReserve(ipam, b, l)
  BY FoundIsFree DEF AddressInv, TypeOK, TableConsistent, LbAddr, Owners

\* The empty table is consistent.
LEMMA NewConsistent == New \in Tables /\ Consistent(New)
  BY AssignableAddrs DEF New, Tables, Consistent

\* A table built from claims that do not collide is consistent (Ipam::rebuild).
LEMMA TableOfConsistent ==
    ASSUME NEW claims \in [Owners -> Addrs],
           \A o \in Owners : claims[o] # NoAddr => claims[o] \in Assignable,
           \A o, p \in Owners : o # p /\ claims[o] # NoAddr => claims[o] # claims[p]
    PROVE  TableOf(claims) \in Tables /\ Consistent(TableOf(claims))
<1> DEFINE u == TableOf(claims)
           holder(a) == CHOOSE o \in Owners : claims[o] = a
<1>1. /\ u.by_owner = claims
      /\ u.by_addr = [a \in Addrs |-> IF a # NoAddr /\ \E o \in Owners : claims[o] = a
                                      THEN holder(a) ELSE NoOwner]
  BY DEF TableOf
<1>2. ASSUME NEW a, \E o \in Owners : claims[o] = a
      PROVE  holder(a) \in Owners /\ claims[holder(a)] = a
  BY <1>2
<1>3. u \in Tables
  <2>1. u.by_addr \in [Addrs -> Owners \cup {NoOwner}]
    BY <1>1, <1>2
  <2> QED BY <1>1, <2>1 DEF TableOf, Tables
<1>4. ASSUME NEW o \in Owners, u.by_owner[o] # NoAddr
      PROVE  u.by_owner[o] \in Assignable /\ u.by_addr[u.by_owner[o]] = o
  <2>1. claims[o] # NoAddr /\ claims[o] \in Assignable /\ claims[o] \in Addrs
    BY <1>1, <1>4
  <2>2. u.by_addr[claims[o]] = holder(claims[o])
    BY <1>1, <2>1
  <2>3. holder(claims[o]) \in Owners /\ claims[holder(claims[o])] = claims[o]
    BY <1>2
  <2>4. holder(claims[o]) = o
    BY <2>1, <2>3
  <2> QED BY <1>1, <2>1, <2>2, <2>4
<1>5. ASSUME NEW a \in Addrs, u.by_addr[a] # NoOwner
      PROVE  a \in Assignable /\ u.by_owner[u.by_addr[a]] = a
  <2>1. a # NoAddr /\ \E o \in Owners : claims[o] = a
    BY <1>1, <1>5
  <2>2. u.by_addr[a] = holder(a)
    BY <1>1, <2>1
  <2> QED BY <1>1, <1>2, <2>1, <2>2
<1> QED
  BY <1>3, <1>4, <1>5 DEF Consistent

\* A crash leaves the empty table and changes nothing the invariant is about.
LEMMA DownInv ==
    ASSUME AddressInv, Down,
           stored' \subseteq Containers, addr' \in [Containers -> Addrs],
           files' \in [Balancers -> Addrs],
           \A l \in Balancers : files'[l] # NoAddr => files'[l] \in Assignable
    PROVE  AddressInv'
  BY NewConsistent, AssignableAddrs
  DEF AddressInv, TypeOK, TableConsistent, StoredReserved, NothingLeaked, FilesAssignable,
      Down, NoVips

\* The start of the daemon rebuilds a table in which every stored container
\* holds the address of its spec, when the specs do not collide.
LEMMA StartDaemonInv ==
    ASSUME AddressInv, StartDaemon
    PROVE  AddressInv'
<1>1. PICK won \in SUBSET Balancers, gone \in SUBSET (stored \ Persistent) :
         /\ Winners(won)
         /\ stored' = stored \ gone
         /\ addr' = [c \in Containers |-> IF c \in gone THEN NoAddr ELSE addr[c]]
         /\ ipam' = TableOf([o \in Owners |->
                        IF o \in stored \ gone THEN addr[o]
                        ELSE IF o \in won THEN files[o] ELSE NoAddr])
  BY DEF StartDaemon
<1> DEFINE claims == [o \in Owners |-> IF o \in stored \ gone THEN addr[o]
                                       ELSE IF o \in won THEN files[o] ELSE NoAddr]
<1>2. /\ stored \subseteq Containers /\ addr \in [Containers -> Addrs]
      /\ files \in [Balancers -> Addrs] /\ Containers \cap Balancers = {}
      /\ Containers \subseteq Owners /\ Balancers \subseteq Owners
  BY OwnerAssumption DEF AddressInv, TypeOK, Owners
<1>3. claims \in [Owners -> Addrs]
  BY <1>2, AssignableAddrs
<1>4. \A o \in Owners : claims[o] # NoAddr => claims[o] \in Assignable
  BY <1>2 DEF StartDaemon, Rebuildable, AddressInv, FilesAssignable
<1>5. ASSUME NEW o \in Owners, NEW p \in Owners, o # p, claims[o] # NoAddr
      PROVE  claims[o] # claims[p]
  <2>1. CASE o \in stored \ gone /\ p \in stored \ gone
    BY <2>1, <1>5 DEF StartDaemon, Rebuildable
  <2>2. CASE o \in stored \ gone /\ p \notin stored \ gone
    BY <2>2, <1>1, <1>2, <1>5 DEF Winners, Claims
  <2>3. CASE o \notin stored \ gone /\ p \in stored \ gone
    BY <2>3, <1>1, <1>2, <1>5 DEF Winners, Claims
  <2>4. CASE o \notin stored \ gone /\ p \notin stored \ gone
    BY <2>4, <1>1, <1>2, <1>5 DEF Winners
  <2> QED BY <2>1, <2>2, <2>3, <2>4
<1>6. ipam' \in Tables /\ Consistent(ipam') /\ ipam'.by_owner = claims
  <2>1. ipam' = TableOf(claims)
    BY <1>1
  <2> HIDE DEF claims
  <2>2. TableOf(claims) \in Tables /\ Consistent(TableOf(claims))
    BY <1>3, <1>4, <1>5, TableOfConsistent
  <2>3. TableOf(claims).by_owner = claims
    BY DEF TableOf
  <2> QED BY <2>1, <2>2, <2>3
<1>7. TypeOK'
  BY <1>1, <1>2, <1>6, AssignableAddrs DEF StartDaemon, TypeOK
<1>8. StoredReserved' /\ NothingLeaked'
  <2>1. \A c \in stored' : addr'[c] = addr[c] /\ claims[c] = addr[c]
    BY <1>1, <1>2
  <2>2. \A c \in Containers \ stored' : claims[c] = NoAddr
    BY <1>1, <1>2
  <2> QED BY <2>1, <2>2, <1>6 DEF StoredReserved, NothingLeaked
<1>9. FilesAssignable'
  BY DEF StartDaemon, AddressInv, FilesAssignable
<1> QED
  BY <1>6, <1>7, <1>8, <1>9 DEF AddressInv, TableConsistent
\* A successful reservation for o, everything else of the table untouched.
LEMMA ReservedInv ==
    ASSUME AddressInv, NEW o \in Owners, NEW a, CanReserve(ipam, a, o),
           ipam' = reserve(ipam, a, o)
    PROVE  /\ ipam' \in Tables /\ Consistent(ipam')
           /\ ipam'.by_owner[o] = a
           /\ \A p \in Owners \ {o} : ipam'.by_owner[p] = ipam.by_owner[p]
<1>1. ipam \in Tables /\ Consistent(ipam)
  BY DEF AddressInv, TypeOK, TableConsistent
<1>2. /\ ipam' \in Tables /\ Consistent(ipam')
      /\ ipam'.by_owner = [ipam.by_owner EXCEPT ![o] = a]
  BY <1>1, ReserveConsistent
<1> QED
  BY <1>1, <1>2 DEF Tables

\* A released owner, everything else of the table untouched.
LEMMA ReleasedInv ==
    ASSUME AddressInv, NEW o \in Owners, ipam' = release(ipam, o)
    PROVE  /\ ipam' \in Tables /\ Consistent(ipam')
           /\ ipam'.by_owner[o] = NoAddr
           /\ \A p \in Owners \ {o} : ipam'.by_owner[p] = ipam.by_owner[p]
<1>1. ipam \in Tables /\ Consistent(ipam)
  BY DEF AddressInv, TypeOK, TableConsistent
<1>2. /\ ipam' \in Tables /\ Consistent(ipam')
      /\ ipam'.by_owner = [ipam.by_owner EXCEPT ![o] = NoAddr]
  BY <1>1, ReleaseConsistent
<1> QED
  BY <1>1, <1>2 DEF Tables

\* The address book's invariant is inductive: one step per action of Next.
LEMMA AddressStep ==
    ASSUME AddressInv, [Next]_vars
    PROVE  AddressInv'
<1> USE DEF Owners
<1>0. /\ stored \subseteq Containers /\ addr \in [Containers -> Addrs]
      /\ lbs \in [Balancers -> Addrs] /\ files \in [Balancers -> Addrs]
      /\ Containers \cap Balancers = {}
  BY OwnerAssumption DEF AddressInv, TypeOK
<1>1. ASSUME NEW c \in Containers, NEW w \in WantedAddrs \cup {NoAddr}, Run(c, w)
      PROVE  AddressInv'
  <2>1. PICK a \in LaunchAddr(c, w) :
            ipam' = reserve(ipam, a, c) /\ addr' = [addr EXCEPT ![c] = a]
    BY <1>1 DEF Run
  <2>2. CanReserve(ipam, a, c) /\ a \in Addrs
    BY LaunchAddrFree, AssignableAddrs DEF CanReserve
  <2>3. /\ ipam' \in Tables /\ Consistent(ipam')
        /\ ipam'.by_owner[c] = a
        /\ \A p \in Owners \ {c} : ipam'.by_owner[p] = ipam.by_owner[p]
    BY <2>1, <2>2, ReservedInv
  <2> QED
    BY <1>0, <1>1, <2>1, <2>2, <2>3
    DEF Run, AddressInv, TypeOK, TableConsistent, StoredReserved, NothingLeaked, FilesAssignable
<1>2. ASSUME NEW c \in Containers, NEW w \in WantedAddrs \cup {NoAddr}, CrashInRun(c, w)
      PROVE  AddressInv'
  <2>1. w \in Addrs
    BY WantedAssumption, AssignableAddrs
  <2>2. stored' \subseteq Containers /\ addr' \in [Containers -> Addrs] /\ files' = files
    BY <1>0, <1>2, <2>1 DEF CrashInRun
  <2> QED
    BY <1>0, <1>2, <2>2, DownInv DEF CrashInRun, AddressInv, FilesAssignable
<1>3. ASSUME NEW c \in Containers, Start(c)
      PROVE  AddressInv'
  <2>1. PICK a \in LaunchAddr(c, addr[c]) :
            ipam' = reserve(ipam, a, c) /\ addr' = [addr EXCEPT ![c] = a]
    BY <1>3 DEF Start
  <2>2. CanReserve(ipam, a, c) /\ a \in Addrs
    BY LaunchAddrFree, AssignableAddrs DEF CanReserve
  <2>3. /\ ipam' \in Tables /\ Consistent(ipam')
        /\ ipam'.by_owner[c] = a
        /\ \A p \in Owners \ {c} : ipam'.by_owner[p] = ipam.by_owner[p]
    BY <2>1, <2>2, ReservedInv
  <2> QED
    BY <1>0, <1>3, <2>1, <2>2, <2>3
    DEF Start, AddressInv, TypeOK, TableConsistent, StoredReserved, NothingLeaked, FilesAssignable
<1>4. ASSUME NEW c \in Containers, Purge(c)
      PROVE  AddressInv'
  <2>1. /\ ipam' \in Tables /\ Consistent(ipam')
        /\ ipam'.by_owner[c] = NoAddr
        /\ \A p \in Owners \ {c} : ipam'.by_owner[p] = ipam.by_owner[p]
    BY <1>4, ReleasedInv DEF Purge
  <2> QED
    BY <1>0, <1>4, <2>1, AssignableAddrs
    DEF Purge, AddressInv, TypeOK, TableConsistent, StoredReserved, NothingLeaked, FilesAssignable
<1>5. ASSUME NEW l \in Balancers, NEW w, LbSet(l, w) \/ LbSetFails(l, w)
      PROVE  AddressInv'
  <2>1. PICK v \in LbAddr(l, w) :
            /\ ipam' = reserve(ipam, v, l)
            /\ files' \in {files, [files EXCEPT ![l] = v]}
            /\ lbs' \in {lbs, [lbs EXCEPT ![l] = v]}
    BY <1>5 DEF LbSet, LbSetFails
  <2>2. CanReserve(ipam, v, l) /\ v \in Addrs /\ v \in Assignable
    BY LbAddrFree, AssignableAddrs DEF CanReserve
  <2>3. /\ ipam' \in Tables /\ Consistent(ipam')
        /\ \A p \in Owners \ {l} : ipam'.by_owner[p] = ipam.by_owner[p]
    BY <2>1, <2>2, ReservedInv
  <2>4. up' = up /\ stored' = stored /\ addr' = addr
    BY <1>5 DEF LbSet, LbSetFails
  <2>5. files' \in [Balancers -> Addrs] /\ lbs' \in [Balancers -> Addrs] /\ FilesAssignable'
    BY <1>0, <2>1, <2>2 DEF AddressInv, FilesAssignable
  <2> QED
    BY <1>0, <2>3, <2>4, <2>5
    DEF AddressInv, TypeOK, TableConsistent, StoredReserved, NothingLeaked
<1>6. ASSUME NEW l \in Balancers, NEW w, CrashInLbSet(l, w)
      PROVE  AddressInv'
  <2>1. PICK v \in LbAddr(l, w) : \E file \in {v, NoAddr} : files' = [files EXCEPT ![l] = file]
    BY <1>6 DEF CrashInLbSet
  <2>2. v \in Addrs /\ v \in Assignable
    BY LbAddrFree, AssignableAddrs DEF CanReserve
  <2>3. files' \in [Balancers -> Addrs] /\ FilesAssignable'
    BY <1>0, <2>1, <2>2, AssignableAddrs DEF AddressInv, FilesAssignable
  <2> QED
    BY <1>0, <1>6, <2>3, DownInv DEF CrashInLbSet, FilesAssignable
<1>7. ASSUME NEW l \in Balancers, LbRemove(l)
      PROVE  AddressInv'
  <2>1. /\ ipam' \in Tables /\ Consistent(ipam')
        /\ \A p \in Owners \ {l} : ipam'.by_owner[p] = ipam.by_owner[p]
    BY <1>7, ReleasedInv DEF LbRemove
  <2> QED
    BY <1>0, <1>7, <2>1, AssignableAddrs
    DEF LbRemove, AddressInv, TypeOK, TableConsistent, StoredReserved, NothingLeaked, FilesAssignable
<1>8. CASE Crash
  BY <1>0, <1>8, DownInv DEF Crash, AddressInv, FilesAssignable
<1>9. CASE StartDaemon
  BY <1>9, StartDaemonInv
<1>10. CASE UNCHANGED vars
  BY <1>10 DEF vars, AddressInv, TypeOK, TableConsistent, StoredReserved, NothingLeaked, FilesAssignable
<1> QED
  BY <1>1, <1>2, <1>3, <1>4, <1>5, <1>6, <1>7, <1>8, <1>9, <1>10 DEF Next

\* The first start of the daemon, with nothing stored.
LEMMA AddressInit == Init => AddressInv
<1> SUFFICES ASSUME Init PROVE AddressInv
  OBVIOUS
<1>1. ipam \in Tables /\ Consistent(ipam)
  BY NewConsistent DEF Init
<1>2. \A c \in Containers : ipam.by_owner[c] = NoAddr
  BY DEF Init, New, Owners
<1>3. TypeOK
  BY <1>1, AssignableAddrs DEF Init, NoVips, TypeOK
<1>4. FilesAssignable
  BY DEF Init, NoVips, FilesAssignable
<1>5. StoredReserved /\ NothingLeaked
  BY <1>2 DEF Init, StoredReserved, NothingLeaked
<1> QED
  BY <1>1, <1>3, <1>4, <1>5 DEF AddressInv, TableConsistent

\* The invariant holds in every reachable state.
LEMMA AddressInductive == Spec => []AddressInv
<1>1. AddressInv /\ [Next]_vars => AddressInv'
  BY AddressStep
<1> QED
  BY <1>1, AddressInit, PTL DEF Spec

\* The daemon's address table is always consistent: no address of the subnet ever
\* has two owners, whatever is run, removed, moved or rebuilt after a crash.
THEOREM TableAlwaysConsistent == Spec => []TableConsistent
<1>1. AddressInv => TableConsistent
  BY DEF AddressInv
<1> QED
  BY <1>1, AddressInductive, PTL

\* A stored container's address is never available to anybody else while the
\* daemon runs: it is reserved in the table, also when the container is stopped.
THEOREM StoredAlwaysReserved == Spec => [](TypeOK /\ StoredReserved)
<1>1. AddressInv => TypeOK /\ StoredReserved
  BY DEF AddressInv
<1> QED
  BY <1>1, AddressInductive, PTL

\* The address of a container comes back when the container is gone: the table of
\* a running daemon never keeps a reservation that nothing would release.
THEOREM AddressesComeBack == Spec => []NothingLeaked
<1>1. AddressInv => NothingLeaked
  BY DEF AddressInv
<1> QED
  BY <1>1, AddressInductive, PTL

\* What the table is for: while the daemon runs, no two stored containers have
\* the same address in their specs.
AddressesDistinct ==
    up => \A c, d \in stored : addr[c] # NoAddr /\ addr[c] = addr[d] => c = d

\* The daemon refuses to start over two specs with one address, which a crash
\* inside op_run can leave behind, and none of its handlers stores two.
THEOREM StoredAddressesDistinct == Spec => []AddressesDistinct
<1>1. AddressInv => AddressesDistinct
  <2> SUFFICES ASSUME AddressInv, up, NEW c \in stored, NEW d \in stored,
                      addr[c] # NoAddr, addr[c] = addr[d]
               PROVE  c = d
    BY DEF AddressesDistinct
  <2>1. c \in Owners /\ d \in Owners
    BY DEF AddressInv, TypeOK, Owners
  <2>2. ipam.by_owner[c] = addr[c] /\ ipam.by_owner[d] = addr[c]
    BY DEF AddressInv, StoredReserved
  <2>3. ipam.by_addr[addr[c]] = c /\ ipam.by_addr[addr[c]] = d
    BY <2>1, <2>2 DEF AddressInv, TableConsistent, Consistent
  <2> QED BY <2>3
<1> QED
  BY <1>1, AddressInductive, PTL
=============================================================================
