---------------------------- MODULE ClientsProofs ----------------------------
(***************************************************************************)
(* Proofs about the clients' side, each about the specification of its own *)
(* part: the trust store, the throttle of enrollments, the remotes, the     *)
(* calls, the rights of a certificate, recreating and the autoscaler.       *)
(***************************************************************************)
EXTENDS Clients, Sequences, FiniteSetTheorems, WellFoundedInduction, TLAPS

-----------------------------------------------------------------------------
(* The trust store, for any names, certificates and secrets.               *)

\* Secrets are handed out once: every token has its own, and one that has
\* enrolled a certificate was handed out.
SecretsDistinct ==
    /\ \A t, u \in tokens : t.secret = u.secret => t = u
    /\ \A t \in tokens : t.secret \in issued
    /\ \A s \in Secrets : used[s] > 0 => s \in issued

\* The inductive invariant.
TrustInv == TypeOK /\ CertsDistinct /\ SecretsDistinct /\ SpentIsGone /\ IdentityMatches

\* A new trust store has no certificates and no tokens.
LEMMA TrustInitInv == Init => TrustInv
  BY TrustAssumption DEF Init, TrustInv, TypeOK, CertsDistinct, SecretsDistinct, SpentIsGone,
     IdentityMatches, identity

\* What the administrator does with tokens: none of it enrolls anybody.
LEMMA TokenStep ==
    ASSUME TrustInv, NEW n \in Names,
           \/ revoke_token(n)
           \/ \E s \in Secrets, role \in Roles, expires \in BOOLEAN : create_token(n, s, role, expires)
           \/ \E t \in tokens : Expire(t) \/ EnrollExpired(t)
    PROVE  TrustInv'
<1> USE DEF TrustInv, TypeOK, CertsDistinct, SecretsDistinct, SpentIsGone, IdentityMatches, identity
<1>1. CASE revoke_token(n)
  BY <1>1 DEF revoke_token
<1>2. ASSUME NEW s \in Secrets, NEW role \in Roles, NEW expires \in BOOLEAN,
             create_token(n, s, role, expires)
      PROVE  TrustInv'
  <2> DEFINE new == [name |-> n, secret |-> s, role |-> role, expires |-> expires, expired |-> FALSE]
  <2>1. tokens' = tokens \cup {new} /\ new \in PendingToken /\ new.secret = s
    BY <1>2 DEF create_token, PendingToken
  <2>2. s \notin issued /\ issued' = issued \cup {s}
        /\ UNCHANGED <<certs, used, cut, keys, server_key, server_cert>>
    BY <1>2 DEF create_token
  <2>3. used[s] = 0
    BY <2>2
  <2> HIDE DEF new
  <2>4. SecretsDistinct'
    BY <2>1, <2>2
  <2>5. SpentIsGone'
    BY <2>1, <2>2, <2>3
  <2> QED BY <2>1, <2>2, <2>4, <2>5
<1>3. ASSUME NEW t \in tokens, Expire(t)
      PROVE  TrustInv'
  <2> DEFINE new == [t EXCEPT !.expired = TRUE]
  <2>1. tokens' = (tokens \ {t}) \cup {new} /\ new \in PendingToken /\ new.secret = t.secret
    BY <1>3 DEF Expire, PendingToken
  <2>2. UNCHANGED <<certs, issued, used, cut, keys, server_key, server_cert>>
    BY <1>3 DEF Expire
  <2> HIDE DEF new
  <2>3. SecretsDistinct'
    BY <2>1, <2>2
  <2>4. SpentIsGone'
    BY <2>1, <2>2
  <2> QED BY <2>1, <2>2, <2>3, <2>4
<1>4. ASSUME NEW t \in tokens, EnrollExpired(t)
      PROVE  TrustInv'
  BY <1>4 DEF EnrollExpired
<1> QED
  BY <1>1, <1>2, <1>3, <1>4

\* Both ways an enrollment ends, before and after the tokens are written.
LEMMA EnrollStep ==
    ASSUME TrustInv, NEW n \in Names, NEW t \in tokens, NEW f \in Fps,
           Enroll(t, f, n) \/ CrashInEnroll(t, f, n)
    PROVE  TrustInv'
<1> DEFINE c == [name |-> n, fp |-> f, role |-> t.role]
           s == t.secret
<1>1. /\ t \in PendingToken /\ s \in Secrets /\ c \in TrustedCertificate
      /\ c.fp = f /\ c.name = n
  BY DEF TrustInv, TypeOK, PendingToken, TrustedCertificate
<1>2. /\ certs' = certs \cup {c}
      /\ used' = [used EXCEPT ![s] = IF @ < MaxEnrollments THEN @ + 1 ELSE @]
      /\ UNCHANGED <<issued, keys, server_key, server_cert>>
      /\ tokens' \subseteq tokens
      /\ \A d \in certs : d.fp # f /\ d.name # n
  BY DEF Enroll, CrashInEnroll, Enrolled, CanEnroll, identity
<1>3. \/ tokens' = tokens \ {t} /\ cut' = cut
      \/ tokens' = tokens /\ cut' = cut \cup {s}
  BY DEF Enroll, CrashInEnroll
<1> HIDE DEF c, s
<1>4. used' \in [Secrets -> 0..MaxEnrollments]
  BY <1>1, <1>2, TrustAssumption DEF TrustInv, TypeOK
<1>5. TypeOK'
  BY <1>1, <1>2, <1>3, <1>4 DEF TrustInv, TypeOK
<1>6. CertsDistinct'
  BY <1>1, <1>2 DEF TrustInv, CertsDistinct
<1>7. SecretsDistinct'
  BY <1>1, <1>2 DEF TrustInv, TypeOK, SecretsDistinct, s
<1>8. SpentIsGone'
  <2>1. s \notin cut => used[s] = 0
    BY <1>1 DEF TrustInv, TypeOK, SpentIsGone, s
  <2>2. CASE tokens' = tokens \ {t} /\ cut' = cut
    <3>1. \A u \in tokens' : u.secret # s
      BY <2>2 DEF TrustInv, SecretsDistinct, s
    <3>2. s \notin cut => used'[s] = 1
      BY <1>1, <1>2, <2>1, TrustAssumption DEF TrustInv, TypeOK
    <3>3. \A r \in Secrets \ {s} : used'[r] = used[r]
      BY <1>2 DEF TrustInv, TypeOK
    <3> QED BY <1>2, <2>2, <3>1, <3>2, <3>3 DEF TrustInv, SpentIsGone
  <2>3. CASE tokens' = tokens /\ cut' = cut \cup {s}
    <3>1. \A r \in Secrets \ {s} : used'[r] = used[r]
      BY <1>2 DEF TrustInv, TypeOK
    <3> QED BY <2>3, <3>1 DEF TrustInv, SpentIsGone
  <2> QED BY <1>3, <2>2, <2>3
<1>9. IdentityMatches'
  BY <1>2 DEF TrustInv, IdentityMatches
<1> QED BY <1>5, <1>6, <1>7, <1>8, <1>9 DEF TrustInv

\* Every step of the trust store preserves its invariant.
LEMMA TrustNextInv == TrustInv /\ [Next]_vars => TrustInv'
<1> SUFFICES ASSUME TrustInv, [Next]_vars PROVE TrustInv'
  OBVIOUS
<1>1. ASSUME NEW n \in Names, NEW f \in Fps, NEW role \in Roles, add_certificate(n, f, role)
      PROVE  TrustInv'
  <2> DEFINE c == [name |-> n, fp |-> f, role |-> role]
  <2>1. c \in TrustedCertificate /\ c.fp = f /\ c.name = n /\ certs' = certs \cup {c}
    BY <1>1 DEF add_certificate, TrustedCertificate
  <2>2. (\A d \in certs : d.fp # f /\ d.name # n)
        /\ UNCHANGED <<tokens, issued, used, cut, keys, server_key, server_cert>>
    BY <1>1 DEF add_certificate, name_taken, identity
  <2> HIDE DEF c
  <2> QED BY <2>1, <2>2 DEF TrustInv, TypeOK, CertsDistinct, SecretsDistinct, SpentIsGone, IdentityMatches
<1>2. ASSUME NEW c \in certs, remove(c)
      PROVE  TrustInv'
  BY <1>2 DEF remove, TrustInv, TypeOK, CertsDistinct, SecretsDistinct, SpentIsGone, IdentityMatches, identity
<1>3. CASE ensure_server_identity \/ CrashInEnsureIdentity
  BY <1>3, TrustAssumption DEF ensure_server_identity, CrashInEnsureIdentity, TrustInv, TypeOK,
     CertsDistinct, SecretsDistinct, SpentIsGone, IdentityMatches
<1>4. ASSUME NEW t \in tokens, Expire(t) \/ EnrollExpired(t)
      PROVE  TrustInv'
  <2>1. t.name \in Names
    BY DEF TrustInv, TypeOK, PendingToken
  <2> QED BY <1>4, <2>1, TokenStep
<1>5. CASE UNCHANGED vars
  BY <1>5 DEF vars, TrustInv, TypeOK, CertsDistinct, SecretsDistinct, SpentIsGone, IdentityMatches
<1> QED
  BY <1>1, <1>2, <1>3, <1>4, <1>5, TokenStep, EnrollStep DEF Next

\* So the invariant of the trust store holds throughout.
LEMMA TrustInvariance == Spec => []TrustInv
  BY TrustInitInv, TrustNextInv, PTL DEF Spec

\* No two trusted certificates ever share a fingerprint or a name.
THEOREM CertsStayDistinct == Spec => []CertsDistinct
  BY TrustInvariance, PTL DEF TrustInv

\* A token enrolls one certificate and is gone, except when the daemon crashed
\* between the two writes of enroll.
THEOREM TokensSpentOnce == Spec => []SpentIsGone
  BY TrustInvariance, PTL DEF TrustInv

\* The server's certificate and key always belong together.
THEOREM IdentityStaysWhole == Spec => []IdentityMatches
  BY TrustInvariance, PTL DEF TrustInv

-----------------------------------------------------------------------------
(* The throttle of enrollments, for any number of connections and any limit. *)

\* Who asks, and how old the failures are.
ThrottleTypeOK ==
    /\ pc \in [Conns -> {"idle", "asking"}]
    /\ IsFiniteSet(DOMAIN failures) /\ failures \in [DOMAIN failures -> Nat]

ThrottleInv == ThrottleTypeOK /\ NearLimit

\* The cardinality that the throttle's module imports is the same.
LEMMA SameCardinality ==
    ASSUME NEW S
    PROVE  Throttle!Cardinality(S) = Cardinality(S)
  BY DEF Throttle!Cardinality, Cardinality

\* The failures that are recent are some of them.
LEMMA RecentFinite ==
    ASSUME ThrottleTypeOK
    PROVE  /\ IsFiniteSet(DOMAIN Throttle!Recent(failures))
           /\ Throttle!Recent(failures) \in [DOMAIN Throttle!Recent(failures) -> Nat]
           /\ Throttle!Count(Throttle!Recent(failures)) \in Nat
           /\ Throttle!Recent(Throttle!Recent(failures)) = Throttle!Recent(failures)
<1> DEFINE D == {j \in DOMAIN failures : failures[j] < ENROLL_WINDOW}
<1>1. DOMAIN Throttle!Recent(failures) = D
  BY DEF Throttle!Recent
<1>2. IsFiniteSet(D) /\ Cardinality(D) \in Nat
  BY FS_Subset, FS_CardinalityType DEF ThrottleTypeOK
<1>3. Throttle!Recent(failures) \in [D -> Nat]
  BY DEF Throttle!Recent, ThrottleTypeOK
<1>4. Throttle!Recent(Throttle!Recent(failures)) = Throttle!Recent(failures)
  BY DEF Throttle!Recent
<1> QED BY <1>1, <1>2, <1>3, <1>4, SameCardinality DEF Throttle!Count

\* Who asks is one of the connections.
LEMMA AskingFinite ==
    ASSUME NEW S \in SUBSET Conns
    PROVE  IsFiniteSet(S) /\ Cardinality(S) \in Nat /\ Cardinality(Conns) \in Nat
           /\ Cardinality(S) <= Cardinality(Conns)
  BY ThrottleAssumption, FS_Subset, FS_CardinalityType

\* Fewer recent failures and fewer that ask stay near the limit.
LEMMA FewerStayNear ==
    ASSUME ThrottleInv, ThrottleTypeOK',
           DOMAIN Throttle!Recent(failures)' \subseteq DOMAIN Throttle!Recent(failures),
           Throttle!Asking' \subseteq Throttle!Asking
    PROVE  NearLimit'
<1> DEFINE R == DOMAIN Throttle!Recent(failures)
           R1 == DOMAIN (Throttle!Recent(failures)')
           A1 == Throttle!Asking'
<1>1. IsFiniteSet(R) /\ Cardinality(R) \in Nat
  BY RecentFinite, FS_CardinalityType DEF ThrottleInv
<1>2. Cardinality(R1) \in Nat /\ Cardinality(R1) <= Cardinality(R)
  BY <1>1, FS_Subset, FS_CardinalityType
<1>3. Throttle!Asking \in SUBSET Conns
  BY DEF Throttle!Asking
<1>4. Cardinality(A1) \in Nat /\ Cardinality(A1) <= Cardinality(Throttle!Asking)
      /\ Cardinality(Throttle!Asking) \in Nat
  BY <1>3, AskingFinite, FS_Subset, FS_CardinalityType
<1>5. Cardinality(R) + Cardinality(Throttle!Asking) <= ENROLL_FAILURES + Cardinality(Conns) - 1
  BY SameCardinality DEF ThrottleInv, NearLimit, Throttle!NearLimit, Throttle!Count
<1>6. Cardinality(R1) + Cardinality(A1) <= ENROLL_FAILURES + Cardinality(Conns) - 1
  BY <1>1, <1>2, <1>3, <1>4, <1>5, AskingFinite, ThrottleAssumption
<1> QED BY <1>6, SameCardinality DEF NearLimit, Throttle!NearLimit, Throttle!Count

\* Every step of the enrollments preserves the limit.
LEMMA ThrottleNextInv == ThrottleInv /\ [Throttle!Next]_throttle => ThrottleInv'
<1> SUFFICES ASSUME ThrottleInv, [Throttle!Next]_throttle
             PROVE  ThrottleInv'
  OBVIOUS
<1> USE DEF ThrottleInv
<1>1. ASSUME NEW c \in Conns, Throttle!Enroll(c)
      PROVE  ThrottleInv'
  <2>1. ThrottleTypeOK'
    BY <1>1, RecentFinite DEF Throttle!Enroll, ThrottleTypeOK
  <2>2. Throttle!Recent(failures)' = Throttle!Recent(failures)
    BY <1>1, RecentFinite DEF Throttle!Enroll, Throttle!Recent
  <2>3. CASE Throttle!Count(Throttle!Recent(failures)) >= ENROLL_FAILURES
    <3>1. Throttle!Asking' \subseteq Throttle!Asking
      BY <1>1, <2>3 DEF Throttle!Enroll, Throttle!Asking, ThrottleTypeOK
    <3> QED BY <2>1, <2>2, <3>1, FewerStayNear
  <2>4. CASE ~(Throttle!Count(Throttle!Recent(failures)) >= ENROLL_FAILURES)
    <3>1. Throttle!Asking' \in SUBSET Conns
      BY DEF Throttle!Asking
    <3> QED BY <2>1, <2>2, <2>4, <3>1, RecentFinite, AskingFinite, ThrottleAssumption,
            SameCardinality DEF NearLimit, Throttle!NearLimit, Throttle!Count
  <2> QED BY <2>3, <2>4
<1>2. ASSUME NEW c \in Conns, Throttle!NotCounted(c)
      PROVE  ThrottleInv'
  <2>1. ThrottleTypeOK'
    BY <1>2 DEF Throttle!NotCounted, ThrottleTypeOK
  <2>2. Throttle!Asking' \subseteq Throttle!Asking
    BY <1>2 DEF Throttle!NotCounted, Throttle!Asking, ThrottleTypeOK
  <2>3. Throttle!Recent(failures)' = Throttle!Recent(failures)
    BY <1>2 DEF Throttle!NotCounted, Throttle!Recent
  <2> QED BY <2>1, <2>2, <2>3, FewerStayNear
<1>3. ASSUME NEW c \in Conns, Throttle!Failed(c)
      PROVE  ThrottleInv'
  <2> DEFINE n == CHOOSE m \in 1..(Throttle!Count(failures) + 1) : m \notin DOMAIN failures
             R == DOMAIN Throttle!Recent(failures)
             R1 == DOMAIN (Throttle!Recent(failures)')
             A == Throttle!Asking
             A1 == Throttle!Asking'
  <2>1. /\ pc[c] = "asking" /\ pc' = [pc EXCEPT ![c] = "idle"]
        /\ failures' = [i \in DOMAIN failures \cup {n} |-> IF i = n THEN 0 ELSE failures[i]]
    BY <1>3 DEF Throttle!Failed
  <2> HIDE DEF n
  <2>2. ThrottleTypeOK'
    BY <2>1, FS_AddElement DEF ThrottleTypeOK
  <2>3. R1 \subseteq R \cup {n}
    BY <2>1 DEF Throttle!Recent
  <2>4. A1 = A \ {c} /\ c \in A /\ A \in SUBSET Conns
    BY <2>1 DEF Throttle!Asking, ThrottleTypeOK
  <2>5. IsFiniteSet(R) /\ Cardinality(R) \in Nat
    BY RecentFinite, FS_CardinalityType
  <2>6. Cardinality(R1) \in Nat /\ Cardinality(R1) <= Cardinality(R) + 1
    <3>1. IsFiniteSet(R \cup {n}) /\ Cardinality(R \cup {n}) \in Nat
          /\ Cardinality(R \cup {n}) <= Cardinality(R) + 1
      <4>1. IsFiniteSet(R \cup {n})
            /\ Cardinality(R \cup {n}) = IF n \in R THEN Cardinality(R) ELSE Cardinality(R) + 1
        BY <2>5, FS_AddElement, Zenon
      <4> QED BY <2>5, <4>1
    <3>2. Cardinality(R1) \in Nat /\ Cardinality(R1) <= Cardinality(R \cup {n})
      BY <2>3, <3>1, FS_Subset, FS_CardinalityType
    <3> QED BY <2>5, <3>1, <3>2
  <2>7. Cardinality(A1) = Cardinality(A) - 1 /\ Cardinality(A) \in Nat
    BY <2>4, AskingFinite, FS_RemoveElement
  <2>8. Cardinality(R) + Cardinality(A) <= ENROLL_FAILURES + Cardinality(Conns) - 1
    BY SameCardinality DEF NearLimit, Throttle!NearLimit, Throttle!Count
  <2>9. Cardinality(R1) + Cardinality(A1) <= ENROLL_FAILURES + Cardinality(Conns) - 1
    BY <2>4, <2>5, <2>6, <2>7, <2>8, AskingFinite, ThrottleAssumption
  <2> QED BY <2>2, <2>9, SameCardinality DEF NearLimit, Throttle!NearLimit, Throttle!Count
<1>4. CASE Throttle!Tick
  <2>1. ThrottleTypeOK'
    BY <1>4 DEF Throttle!Tick, ThrottleTypeOK
  <2>2. \A i \in DOMAIN failures : failures'[i] < ENROLL_WINDOW => failures[i] < ENROLL_WINDOW
    BY <1>4, ThrottleAssumption DEF Throttle!Tick, ThrottleTypeOK
  <2>3. DOMAIN failures' = DOMAIN failures /\ UNCHANGED pc
    BY <1>4 DEF Throttle!Tick
  <2>4. DOMAIN (Throttle!Recent(failures)') \subseteq DOMAIN Throttle!Recent(failures)
    BY <2>2, <2>3 DEF Throttle!Recent
  <2>5. Throttle!Asking' \subseteq Throttle!Asking
    BY <2>3 DEF Throttle!Asking
  <2> QED BY <2>1, <2>4, <2>5, FewerStayNear
<1>5. CASE UNCHANGED throttle
  BY <1>5 DEF throttle, ThrottleTypeOK, NearLimit, Throttle!NearLimit, Throttle!Count,
     Throttle!Recent, Throttle!Asking
<1> QED
  BY <1>1, <1>2, <1>3, <1>4, <1>5 DEF Throttle!Next

\* The failed enrollments of a window exceed the limit by less than the number of
\* connections that were let through together.
THEOREM FailuresStayNearLimit == Throttle!Spec => []NearLimit
<1>1. Throttle!Init => ThrottleInv
  <2> SUFFICES ASSUME Throttle!Init PROVE ThrottleInv
    OBVIOUS
  <2>1. DOMAIN failures = {} /\ DOMAIN Throttle!Recent(failures) = {} /\ Throttle!Asking = {}
    BY DEF Throttle!Init, Throttle!Recent, Throttle!Asking
  <2>2. ThrottleTypeOK
    BY <2>1, FS_EmptySet DEF Throttle!Init, ThrottleTypeOK
  <2> QED BY <2>1, <2>2, FS_EmptySet, AskingFinite, ThrottleAssumption,
            SameCardinality DEF ThrottleInv, NearLimit, Throttle!NearLimit, Throttle!Count
<1> QED BY <1>1, ThrottleNextInv, PTL DEF Throttle!Spec, Throttle!vars, throttle, ThrottleInv

-----------------------------------------------------------------------------
(* The remotes of a user, for any commands, names and servers.             *)

\* A configuration with the default that it names, and remotes that are in E: the
\* servers that ever trusted the client.
Sound(cfg, E) ==
    /\ cfg \in Configs
    /\ cfg.default # Local => cfg.remotes[cfg.default] # None
    /\ \A n \in RemoteNames : cfg.remotes[n] \in E \cup {None}

\* What a command holds: the configuration it loaded or is about to write, and the
\* server it enrolls with, which trusted the client once the enrollment is over.
Holds(r, E) ==
    \/ r = [at |-> "idle"] \/ r = [at |-> "rename"]
    \/ /\ r \in [at : {"enroll", "info"}, name : RemoteNames, srv : Servers, cfg : Configs]
       /\ Sound(r.cfg, E) /\ (r.at = "info" => r.srv \in E)
    \/ r \in [at : {"save"}, cfg : Configs] /\ Sound(r.cfg, E)
    \/ r \in [at : {"write"}, cfg : Configs, inode : Inodes] /\ Sound(r.cfg, E)

\* A file that parses, and in which no write was cut short, is sound; the texts in it
\* name servers that trusted the client.
FileSound(f, E) ==
    /\ f = [cfg |-> f.cfg, texts |-> f.texts, cut |-> f.cut] /\ f.cut \in BOOLEAN
    /\ f.cfg = None \/ f.cfg \in Configs
    /\ f.cfg = None \/ f.cut \/ Sound(f.cfg, E)
    /\ DOMAIN f.texts = RemoteNames /\ \A n \in RemoteNames : f.texts[n] \subseteq E \cup {None}

\* Where it stands with a command that saves while no other does: it writes to a
\* temporary file that is empty, or renames one that it wrote.
Alone ==
    /\ \A p \in Procs : proc[p].at \in {"write", "rename"} =>
          \A q \in Procs : proc[q].at \in {"write", "rename"} => q = p
    /\ \A p \in Procs : proc[p].at = "write" => proc[p].inode = tmp /\ content[tmp] = User!Blank
    /\ \A p \in Procs : proc[p].at = "rename" /\ tmp \in Inodes =>
          content[tmp].cfg # None /\ ~content[tmp].cut
    /\ yaml \in Inodes => content[yaml].cfg # None /\ ~content[yaml].cut
    /\ yaml \in Inodes => yaml # tmp
    /\ ~exposed

\* While no text that was cut short has been remotes.yaml: every configuration in a file
\* or in a command is sound.
Whole ==
    /\ yaml \in Inodes \cup {None} /\ tmp \in Inodes \cup {None} /\ ever \subseteq Servers
    /\ overlapped \in BOOLEAN /\ exposed = FALSE
    /\ DOMAIN content = Inodes /\ \A i \in Inodes : FileSound(content[i], ever)
    /\ yaml \in Inodes => ~content[yaml].cut
    /\ DOMAIN proc = Procs /\ proc \in [Procs -> {proc[p] : p \in Procs}]
    /\ \A p \in Procs : Holds(proc[p], ever)

\* The inductive invariant: a text that does not parse, or is cut short, is read only
\* after two commands saved at the same time.
UserInv == (exposed /\ overlapped) \/ (Whole /\ (overlapped \/ Alone))

\* Servers that trusted the client stay so.
LEMMA SoundGrows ==
    ASSUME NEW E, NEW F, E \subseteq F
    PROVE  /\ \A cfg : Sound(cfg, E) => Sound(cfg, F)
           /\ \A f : FileSound(f, E) => FileSound(f, F)
           /\ \A r : Holds(r, E) => Holds(r, F)
<1>1. \A cfg : Sound(cfg, E) => Sound(cfg, F)
  BY DEF Sound
<1>2. \A f : FileSound(f, E) => FileSound(f, F)
  BY <1>1 DEF FileSound
<1> QED BY <1>1, <1>2 DEF Holds

\* What is loaded when there is no file is sound.
LEMMA EmptySound ==
    ASSUME NEW E
    PROVE  /\ Sound(User!Empty, E) /\ User!Empty # None
           /\ FileSound(User!Blank, E) /\ User!Blank.cfg # None /\ User!Blank.cut = FALSE
<1>1. Sound(User!Empty, E) /\ User!Empty \in Configs
  BY DEF User!Empty, Sound, Configs
<1>2. User!Blank = [cfg |-> User!Empty, texts |-> [n \in RemoteNames |-> {}], cut |-> FALSE]
  BY DEF User!Blank
<1> HIDE DEF User!Empty
<1> QED BY <1>1, <1>2, RemotesAssumption DEF FileSound

\* What is loaded from a whole text is sound.
LEMMA LoadSound ==
    ASSUME Whole, User!Loads
    PROVE  Sound(User!load, ever)
  BY EmptySound DEF User!load, User!Loads, Whole, FileSound

\* A step of one command that touches no file.
LEMMA HoldStep ==
    ASSUME Whole, overlapped \/ Alone, NEW p \in Procs, NEW r, User!Set(p, r),
           Holds(r, ever'), r.at \notin {"write", "rename"}, ever \subseteq ever',
           ever' \subseteq Servers, UNCHANGED <<content, yaml, tmp, overlapped, exposed>>
    PROVE  UserInv'
<1>1. \A q \in Procs : proc'[q] = IF q = p THEN r ELSE proc[q]
  BY DEF User!Set, Whole
<1>2. DOMAIN proc' = Procs /\ proc' \in [Procs -> {proc'[q] : q \in Procs}]
  BY DEF User!Set, Whole
<1>3. \A q \in Procs : Holds(proc'[q], ever')
  BY <1>1, SoundGrows DEF Whole
<1>4. \A i \in Inodes : FileSound(content[i], ever')
  BY SoundGrows DEF Whole
<1>5. Alone => Alone'
  BY <1>1 DEF Alone
<1> QED BY <1>2, <1>3, <1>4, <1>5 DEF Whole, UserInv

\* A configuration that is to be saved.
LEMMA SaveStep ==
    ASSUME Whole, overlapped \/ Alone, NEW p \in Procs, NEW cfg, User!Save(p, cfg), Sound(cfg, ever),
           UNCHANGED <<content, yaml, tmp, ever, overlapped, exposed>>
    PROVE  UserInv'
<1>1. Holds([at |-> "save", cfg |-> cfg], ever)
  BY DEF Holds, Sound
<1> QED BY <1>1, HoldStep DEF User!Save, Whole

\* The commands that change the remotes they loaded.
LEMMA ChangeStep ==
    ASSUME Whole, overlapped \/ Alone, NEW p \in Procs, NEW n \in RemoteNames, NEW m \in RemoteNames,
           User!Remove(p, n) \/ User!Rename(p, n, m)
    PROVE  UserInv'
<1> DEFINE L == User!load
<1>1. Sound(L, ever) /\ L \in Configs
  BY LoadSound DEF Sound, User!Remove, User!Rename
<1> HIDE DEF L
<1>2. ASSUME User!Remove(p, n)
      PROVE  UserInv'
  <2> DEFINE c == [remotes |-> [L.remotes EXCEPT ![n] = None],
                   default |-> IF L.default = n THEN Local ELSE L.default]
  <2>1. User!Save(p, c) /\ UNCHANGED <<content, yaml, tmp, ever, overlapped, exposed>>
    BY <1>2 DEF User!Remove, User!server, User!ghosts, L
  <2>2. Sound(c, ever)
    BY <1>1 DEF Sound, Configs
  <2> QED BY <2>1, <2>2, SaveStep
<1>3. ASSUME User!Rename(p, n, m)
      PROVE  UserInv'
  <2> DEFINE c == [remotes |-> [L.remotes EXCEPT ![m] = L.remotes[n], ![n] = None],
                   default |-> IF L.default = n THEN m ELSE L.default]
  <2>1. User!Save(p, c) /\ L.remotes[m] = None /\ L.remotes[n] # None
        /\ UNCHANGED <<content, yaml, tmp, ever, overlapped, exposed>>
    BY <1>3 DEF User!Rename, User!server, User!ghosts, L
  <2>2. Sound(c, ever)
    BY <1>1, <2>1 DEF Sound, Configs
  <2> QED BY <2>1, <2>2, SaveStep
<1> QED BY <1>2, <1>3

\* Adding a remote, up to the save.
LEMMA AddStep ==
    ASSUME Whole, overlapped \/ Alone, NEW p \in Procs,
           \/ \E n \in RemoteNames, s \in Servers : User!Add(p, n, s)
           \/ \E answered \in BOOLEAN : User!Enroll(p, answered)
           \/ User!ServerInfo(p) \/ User!Killed(p)
    PROVE  UserInv'
<1>0. Holds([at |-> "idle"], ever')
  BY DEF Holds
<1>1. ASSUME NEW n \in RemoteNames, NEW s \in Servers, User!Add(p, n, s)
      PROVE  UserInv'
  <2> DEFINE L == User!load
             r == [at |-> "enroll", name |-> n, srv |-> s, cfg |-> L]
  <2>1. User!Set(p, r) /\ UNCHANGED <<content, yaml, tmp, ever, overlapped, exposed>>
    BY <1>1 DEF User!Add, User!server, User!ghosts
  <2>2. Sound(L, ever) /\ L \in Configs
    BY <1>1, LoadSound DEF Sound, User!Add
  <2> HIDE DEF L
  <2>3. Holds(r, ever)
    BY <2>2 DEF Holds
  <2> QED BY <2>1, <2>3, HoldStep DEF Whole
<1>2. ASSUME NEW answered \in BOOLEAN, User!Enroll(p, answered)
      PROVE  UserInv'
  <2> DEFINE s == proc[p].srv
             r == [proc[p] EXCEPT !.at = "info"]
  <2>1. proc[p].at = "enroll" /\ UNCHANGED <<content, yaml, tmp, overlapped, exposed>>
    BY <1>2 DEF User!Enroll, User!ghosts
  <2>2. /\ proc[p] \in [at : {"enroll", "info"}, name : RemoteNames, srv : Servers, cfg : Configs]
        /\ Sound(proc[p].cfg, ever)
    BY <2>1 DEF Whole, Holds
  <2>3. CASE User!Set(p, User!Idle) /\ UNCHANGED User!server
    BY <1>0, <2>1, <2>3, HoldStep DEF User!Idle, User!server, User!ghosts, Whole
  <2>4. CASE ever' = ever \cup {s} /\ User!Set(p, IF answered THEN r ELSE User!Idle)
    <3>1. ever \subseteq ever' /\ ever' \subseteq Servers
      BY <2>2, <2>4 DEF Whole
    <3>2. Holds(r, ever')
      <4>1. /\ r \in [at : {"enroll", "info"}, name : RemoteNames, srv : Servers, cfg : Configs]
            /\ r.at = "info" /\ r.srv = s /\ r.cfg = proc[p].cfg
        BY <2>2
      <4>2. Sound(r.cfg, ever')
        BY <2>2, <3>1, <4>1, SoundGrows
      <4> QED BY <2>4, <4>1, <4>2 DEF Holds
    <3>3. Holds(IF answered THEN r ELSE User!Idle, ever')
      BY <1>0, <3>2 DEF User!Idle
    <3>4. (IF answered THEN r ELSE User!Idle).at \notin {"write", "rename"}
      BY <2>2 DEF User!Idle
    <3> QED BY <2>1, <2>4, <3>1, <3>3, <3>4, HoldStep
  <2> QED BY <1>2, <2>3, <2>4 DEF User!Enroll
<1>3. ASSUME User!ServerInfo(p)
      PROVE  UserInv'
  <2> DEFINE L == proc[p].cfg
             c == [L EXCEPT !.remotes[proc[p].name] = proc[p].srv]
  <2>1. proc[p].at = "info" /\ UNCHANGED <<content, yaml, tmp, ever, overlapped, exposed>>
        /\ (User!Save(p, c) \/ User!Set(p, User!Idle))
    BY <1>3 DEF User!ServerInfo, User!server, User!ghosts
  <2>2. /\ proc[p].name \in RemoteNames /\ proc[p].srv \in ever /\ proc[p].srv \in Servers
        /\ Sound(L, ever) /\ L \in Configs
    BY <2>1 DEF Whole, Holds
  <2> HIDE DEF L
  <2>3. Sound(c, ever)
    BY <2>2, RemotesAssumption DEF Sound, Configs
  <2> QED BY <1>0, <2>1, <2>3, SaveStep, HoldStep DEF User!Idle, Whole
<1>4. ASSUME User!Killed(p)
      PROVE  UserInv'
  BY <1>0, <1>4, HoldStep DEF User!Killed, User!Idle, User!server, User!ghosts, Whole
<1> QED BY <1>1, <1>2, <1>3, <1>4

\* What writing over other texts leaves is sound, when it parses.
LEMMA OverlaidSound ==
    ASSUME NEW E \in SUBSET Servers, NEW cfg, Sound(cfg, E), NEW texts,
           \A n \in RemoteNames : texts[n] \subseteq E \cup {None},
           NEW c \in User!Overlaid(cfg, texts)
    PROVE  /\ c = None \/ Sound(c, E)
           /\ c = None => \E n \in RemoteNames : texts[n] # {}
<1>1. CASE c = None
  <2>1. c \notin [remotes : [RemoteNames -> Servers \cup {None}], default : {cfg.default}]
    BY <1>1, RemotesAssumption DEF Sound, Configs
  <2> QED BY <1>1, <2>1 DEF User!Overlaid
<1>2. CASE c # None
  <2>1. /\ c \in [remotes : [RemoteNames -> Servers \cup {None}], default : {cfg.default}]
        /\ \A n \in RemoteNames : IF cfg.remotes[n] # None THEN c.remotes[n] = cfg.remotes[n]
                                   ELSE c.remotes[n] \in texts[n] \cup {None}
    BY <1>2 DEF User!Overlaid
  <2> QED BY <1>2, <2>1 DEF Sound, Configs
<1> QED BY <1>1, <1>2

\* A write, whole or cut short, keeps the files sound.
LEMMA WroteSound ==
    ASSUME Whole, NEW p \in Procs, proc[p].at = "write", NEW short \in BOOLEAN, NEW text,
           \/ text \in User!Overlaid(proc[p].cfg, content[proc[p].inode].texts)
           \/ short /\ text = None,
           User!Wrote(p, proc[p].inode, text, short)
    PROVE  /\ DOMAIN content' = Inodes /\ \A i \in Inodes : FileSound(content'[i], ever)
           /\ \A i \in Inodes : i # proc[p].inode => content'[i] = content[i]
           /\ proc[p].inode \in {yaml, tmp} =>
                 /\ content'[proc[p].inode].cfg = text
                 /\ content'[proc[p].inode].cut = (content[proc[p].inode].cut \/ short)
           /\ proc[p].inode \notin {yaml, tmp} => content' = content
<1> DEFINE i == proc[p].inode
           sh == \E q \in Procs \ {p} : proc[q].at = "write" /\ proc[q].inode = i
           T == [n \in RemoteNames |-> IF sh THEN content[i].texts[n] \cup {proc[p].cfg.remotes[n]}
                                      ELSE {}]
           f == [cfg |-> text, texts |-> T, cut |-> (content[i].cut \/ short)]
<1>1. i \in Inodes /\ Sound(proc[p].cfg, ever) /\ FileSound(content[i], ever) /\ ever \subseteq Servers
  BY DEF Whole, Holds
<1>2. CASE i \notin {yaml, tmp}
  BY <1>2 DEF User!Wrote, Whole
<1>3. CASE i \in {yaml, tmp}
  <2>1. content' = [content EXCEPT ![i] = f]
    BY <1>3 DEF User!Wrote
  <2>2. text = None \/ text \in Configs
    <3>1. CASE text \in User!Overlaid(proc[p].cfg, content[i].texts)
      BY <1>1, <3>1, OverlaidSound DEF FileSound, Sound
    <3> QED BY <3>1
  <2>3. text = None \/ short \/ Sound(text, ever)
    BY <1>1, OverlaidSound DEF FileSound
  <2>4. DOMAIN T = RemoteNames /\ \A n \in RemoteNames : T[n] \subseteq ever \cup {None}
    BY <1>1 DEF FileSound, Sound
  <2> HIDE DEF T
  <2>5. FileSound(f, ever)
    BY <1>1, <2>2, <2>3, <2>4 DEF FileSound
  <2>6. f.cfg = text /\ f.cut = (content[i].cut \/ short)
    OBVIOUS
  <2> HIDE DEF f
  <2> QED BY <1>1, <1>3, <2>1, <2>5, <2>6 DEF Whole
<1> QED BY <1>2, <1>3

\* Writing and renaming the temporary file.
LEMMA FileStep ==
    ASSUME Whole, overlapped \/ Alone, NEW p \in Procs,
           User!Create(p) \/ User!Write(p) \/ User!WriteCut(p) \/ User!RenameTmp(p)
    PROVE  UserInv'
<1>0. /\ Holds([at |-> "idle"], ever) /\ Holds([at |-> "rename"], ever)
      /\ FileSound(User!Blank, ever) /\ User!Blank.cfg # None /\ User!Blank.cut = FALSE
  BY EmptySound DEF Holds
<1>a. \A r : User!Set(p, r) => /\ \A q \in Procs : proc'[q] = IF q = p THEN r ELSE proc[q]
                               /\ DOMAIN proc' = Procs
                               /\ proc' \in [Procs -> {proc'[q] : q \in Procs}]
  BY DEF User!Set, Whole
<1>1. ASSUME User!Create(p)
      PROVE  UserInv'
  <2> DEFINE i == IF tmp # None THEN tmp ELSE CHOOSE j \in User!Unused : TRUE
             r == [at |-> "write", cfg |-> proc[p].cfg, inode |-> i]
  <2>1. /\ proc[p].at = "save" /\ content' = [content EXCEPT ![i] = User!Blank] /\ tmp' = i
        /\ User!Set(p, r) /\ UNCHANGED <<yaml, ever, exposed>>
        /\ overlapped' = (overlapped \/ \E q \in Procs : proc[q].at \in {"write", "rename"})
    BY <1>1 DEF User!Create, User!server
  <2>2. i \in Inodes /\ (tmp = None => i # yaml)
    BY <1>1 DEF User!Create, User!Unused, Whole
  <2>3. i = tmp \/ tmp = None
    OBVIOUS
  <2> HIDE DEF i
  <2>4. Holds(r, ever) /\ r.at = "write" /\ r.inode = i
    BY <2>1, <2>2 DEF Holds, Whole
  <2> HIDE DEF r
  <2>5. \A j \in Inodes : content'[j] = IF j = i THEN User!Blank ELSE content[j]
    BY <2>1, <2>2 DEF Whole
  <2>6. Whole'
    BY <1>0, <1>a, <2>1, <2>2, <2>4, <2>5 DEF Whole
  <2>7. ~overlapped' => Alone'
    <3> SUFFICES ASSUME ~overlapped' PROVE Alone'
      OBVIOUS
    <3>1. Alone /\ \A q \in Procs : proc[q].at \notin {"write", "rename"}
      BY <2>1
    <3>2. \A q \in Procs : proc'[q].at \in {"write", "rename"} => q = p
      BY <1>a, <2>1, <3>1
    <3>3. proc'[p] = r /\ content'[i] = User!Blank
      BY <1>a, <2>1, <2>2, <2>5
    <3>4. yaml \in Inodes => yaml # i
      BY <2>2, <2>3, <3>1 DEF Alone
    <3>5. yaml \in Inodes => content'[yaml] = content[yaml]
      BY <2>5, <3>4
    <3> QED BY <2>1, <2>2, <2>4, <3>1, <3>2, <3>3, <3>4, <3>5 DEF Alone
  <2> QED BY <2>6, <2>7 DEF UserInv, Whole
<1>2. ASSUME User!Write(p)
      PROVE  UserInv'
  <2> DEFINE i == proc[p].inode
  <2>1. /\ proc[p].at = "write" /\ User!Set(p, [at |-> "rename"])
        /\ UNCHANGED <<yaml, tmp, ever, overlapped, exposed>>
    BY <1>2 DEF User!Write, User!server, User!ghosts
  <2>2. PICK text \in User!Overlaid(proc[p].cfg, content[i].texts) : User!Wrote(p, i, text, FALSE)
    BY <1>2 DEF User!Write
  <2>3. /\ DOMAIN content' = Inodes /\ \A j \in Inodes : FileSound(content'[j], ever)
        /\ \A j \in Inodes : j # i => content'[j] = content[j]
        /\ i \in {yaml, tmp} => content'[i].cfg = text /\ content'[i].cut = (content[i].cut \/ FALSE)
        /\ i \notin {yaml, tmp} => content' = content
    BY <2>1, <2>2, WroteSound
  <2>4. i \in Inodes /\ Sound(proc[p].cfg, ever) /\ FileSound(content[i], ever)
    BY <2>1 DEF Whole, Holds
  <2>5. Whole'
    <3>1. yaml \in Inodes => ~content'[yaml].cut
      BY <2>3, <2>4 DEF Whole, FileSound
    <3>2. \A q \in Procs : Holds(proc'[q], ever)
      BY <1>0, <1>a, <2>1 DEF Whole
    <3> QED BY <1>a, <2>1, <2>3, <3>1, <3>2 DEF Whole
  <2>6. Alone => Alone'
    <3> SUFFICES ASSUME Alone PROVE Alone'
      OBVIOUS
    <3>1. i = tmp /\ content[i] = User!Blank /\ (yaml \in Inodes => yaml # i)
      BY <2>1 DEF Alone
    <3>2. \A n \in RemoteNames : content[i].texts[n] = {}
      BY <3>1 DEF User!Blank
    <3>3. content'[i].cfg # None /\ ~content'[i].cut
      <4>1. content'[i].cfg = text /\ ~content'[i].cut
        BY <1>0, <2>3, <3>1
      <4>2. \A n \in RemoteNames : content[i].texts[n] \subseteq ever \cup {None}
        BY <3>2
      <4>3. ever \in SUBSET Servers
        BY DEF Whole
      <4> QED BY <2>2, <2>4, <3>2, <4>1, <4>2, <4>3, OverlaidSound
    <3>4. \A q \in Procs : q # p => proc'[q].at \notin {"write", "rename"}
      BY <1>a, <2>1 DEF Alone
    <3>5. proc'[p].at = "rename"
      BY <1>a, <2>1
    <3>6. yaml \in Inodes => content'[yaml] = content[yaml]
      BY <2>3, <3>1
    <3> QED BY <2>1, <2>4, <3>1, <3>3, <3>4, <3>5, <3>6 DEF Alone
  <2> QED BY <2>1, <2>5, <2>6 DEF UserInv
<1>3. ASSUME User!WriteCut(p)
      PROVE  UserInv'
  <2> DEFINE i == proc[p].inode
  <2>1. /\ proc[p].at = "write" /\ User!Set(p, [at |-> "idle"])
        /\ UNCHANGED <<yaml, tmp, ever, overlapped>> /\ exposed' = (exposed \/ i = yaml)
    BY <1>3 DEF User!WriteCut, User!server, User!Idle
  <2>2. User!Wrote(p, i, None, TRUE)
    BY <1>3 DEF User!WriteCut
  <2>3. /\ DOMAIN content' = Inodes /\ \A j \in Inodes : FileSound(content'[j], ever)
        /\ \A j \in Inodes : j # i => content'[j] = content[j]
    BY <2>1, <2>2, WroteSound
  <2>4. Alone => (yaml \in Inodes => yaml # i)
    BY <2>1 DEF Alone
  <2>5. i \in Inodes
    BY <2>1 DEF Whole, Holds
  <2>6. CASE i = yaml
    BY <2>1, <2>4, <2>5, <2>6 DEF UserInv, Whole
  <2>7. CASE i # yaml
    <3>1. yaml \in Inodes => content'[yaml] = content[yaml]
      BY <2>3, <2>7
    <3>2. Whole'
      BY <1>0, <1>a, <2>1, <2>3, <2>7, <3>1 DEF Whole
    <3>3. Alone => Alone'
      <4>1. Alone => \A q \in Procs : proc'[q].at \notin {"write", "rename"}
        BY <1>a, <2>1 DEF Alone
      <4> QED BY <2>1, <2>7, <3>1, <4>1 DEF Alone
    <3> QED BY <2>1, <3>2, <3>3 DEF UserInv
  <2> QED BY <2>6, <2>7
<1>4. ASSUME User!RenameTmp(p)
      PROVE  UserInv'
  <2>1. proc[p].at = "rename" /\ User!Set(p, [at |-> "idle"]) /\ UNCHANGED <<ever, overlapped>>
    BY <1>4 DEF User!RenameTmp, User!Idle, User!server
  <2>2. CASE UNCHANGED <<content, yaml, tmp, exposed>>
    <3>1. Holds([at |-> "idle"], ever') /\ [at |-> "idle"].at \notin {"write", "rename"}
      BY <1>0, <2>1
    <3> QED BY <2>1, <2>2, <3>1, HoldStep DEF Whole
  <2>3. CASE /\ tmp # None /\ yaml' = tmp /\ tmp' = None
             /\ content' = [j \in Inodes |-> IF j = yaml THEN User!Blank ELSE content[j]]
             /\ exposed' = (exposed \/ content[tmp].cut)
    <3>1. tmp \in Inodes /\ (tmp = yaml => ~content[tmp].cut)
      BY <2>3 DEF Whole
    <3>2. Alone => content[tmp].cfg # None /\ ~content[tmp].cut
      BY <2>1, <3>1 DEF Alone
    <3>3. content'[tmp] = IF tmp = yaml THEN User!Blank ELSE content[tmp]
      BY <2>3, <3>1
    <3>4. CASE content[tmp].cut
      BY <2>1, <2>3, <3>2, <3>4 DEF UserInv
    <3>5. CASE ~content[tmp].cut
      <4>1. Whole'
        BY <1>0, <1>a, <2>1, <2>3, <3>1, <3>3, <3>5 DEF Whole
      <4>2. Alone => Alone'
        <5>1. Alone => \A q \in Procs : proc'[q].at \notin {"write", "rename"}
          BY <1>a, <2>1 DEF Alone
        <5>2. Alone => content'[tmp].cfg # None /\ ~content'[tmp].cut
          BY <1>0, <3>2, <3>3
        <5> QED BY <2>3, <3>1, <3>5, <5>1, <5>2 DEF Alone
      <4> QED BY <2>1, <4>1, <4>2 DEF UserInv
    <3> QED BY <3>4, <3>5
  <2> QED BY <1>4, <2>2, <2>3 DEF User!RenameTmp
<1> QED BY <1>1, <1>2, <1>3, <1>4

\* Every step of the commands preserves the invariant of the remotes.
LEMMA UserNextInv == UserInv /\ [User!Next]_user => UserInv'
<1> SUFFICES ASSUME UserInv, [User!Next]_user
             PROVE  UserInv'
  OBVIOUS
<1>0. CASE exposed /\ overlapped
  <2>1. exposed' /\ overlapped'
    BY <1>0 DEF user, User!Next, User!Remove, User!Rename, User!Switch, User!Add, User!Enroll,
       User!ServerInfo, User!Create, User!Write, User!WriteCut, User!RenameTmp, User!Killed,
       User!Token, User!Untrust, User!ghosts
  <2> QED BY <2>1 DEF UserInv
<1> SUFFICES ASSUME Whole, overlapped \/ Alone
             PROVE  UserInv'
  BY <1>0 DEF UserInv
<1>1. ASSUME NEW p \in Procs, NEW n \in RemoteNames,
             User!Remove(p, n) \/ \E m \in RemoteNames : User!Rename(p, n, m)
      PROVE  UserInv'
  BY <1>1, ChangeStep
<1>2. ASSUME NEW p \in Procs, NEW n \in RemoteNames \cup {Local}, User!Switch(p, n)
      PROVE  UserInv'
  <2> DEFINE L == User!load
             c == [L EXCEPT !.default = n]
  <2>1. User!Save(p, c) /\ (n # Local => L.remotes[n] # None)
        /\ UNCHANGED <<content, yaml, tmp, ever, overlapped, exposed>>
    BY <1>2 DEF User!Switch, User!server, User!ghosts
  <2>2. Sound(L, ever)
    BY <1>2, LoadSound DEF User!Switch
  <2> HIDE DEF L
  <2>3. Sound(c, ever)
    BY <2>1, <2>2 DEF Sound, Configs
  <2> QED BY <2>1, <2>3, SaveStep
<1>3. ASSUME NEW s \in Servers, User!Token(s) \/ User!Untrust(s)
      PROVE  UserInv'
  <2>1. UNCHANGED <<content, yaml, tmp, proc, ever, overlapped, exposed>>
    BY <1>3 DEF User!Token, User!Untrust, User!ghosts
  <2> QED BY <2>1 DEF UserInv, Whole, Alone
<1>4. CASE UNCHANGED user
  BY <1>4 DEF user, UserInv, Whole, Alone
<1> QED BY <1>1, <1>2, <1>3, <1>4, AddStep, FileStep DEF User!Next

\* A command that saves alone never leaves a file that cannot be loaded, and a file that
\* can, and was not cut short, names a default that it has and remotes that trusted
\* the client, however commands interleave, fail and are interrupted.
THEOREM RemotesStaySound == User!Spec => []RemotesSound
<1>1. User!Init => UserInv
  <2> SUFFICES ASSUME User!Init PROVE UserInv
    OBVIOUS
  <2>1. Whole
    BY EmptySound DEF User!Init, Whole, User!Idle, Holds
  <2>2. Alone
    BY RemotesAssumption DEF User!Init, Alone, User!Idle
  <2> QED BY <2>1, <2>2 DEF UserInv
<1>2. UserInv => RemotesSound
  <2> SUFFICES ASSUME UserInv PROVE User!RemotesSound
    BY DEF RemotesSound
  <2>1. CASE exposed /\ overlapped
    BY <2>1 DEF User!RemotesSound
  <2>2. CASE Whole /\ (overlapped \/ Alone)
    <3>1. ~User!Loads => overlapped
      BY <2>2, EmptySound DEF User!Loads, User!load, Whole, Alone
    <3>2. User!Loads => /\ User!selected_remote # None
                        /\ \A n \in RemoteNames : User!load.remotes[n] \in ever \cup {None}
      BY <2>2, LoadSound, RemotesAssumption DEF User!selected_remote, Sound, Configs
    <3> QED BY <2>2, <3>1, <3>2 DEF User!RemotesSound, Whole
  <2> QED BY <2>1, <2>2 DEF UserInv
<1>3. UserInv /\ [User!Next]_(User!vars) => UserInv'
  BY UserNextInv DEF User!vars, User!server, User!ghosts, user
<1> QED BY <1>1, <1>2, <1>3, PTL DEF User!Spec

-----------------------------------------------------------------------------
(* The calls of a client, for any number of requests and errors.           *)

Answers == [n : Nat, keep_alive : BOOLEAN]
Connections == [dead : BOOLEAN, waiting : Seq(Answers), rest : BOOLEAN]
Stages == {"send", "head", "body", "daemon", "answer"}
Exchanges ==
    [at : Stages, n : Call!Requests, kind : Call!Kinds, large : BOOLEAN, attempt : {1, 2},
     reused : BOOLEAN]

CallTypeOK ==
    /\ kinds \in Seq(Call!Kinds) /\ Len(kinds) <= MaxRequests
    /\ done \in [Call!Requests -> Nat]
    /\ DOMAIN got = Call!Requests
    /\ conn \in [Call!Kinds -> Connections \cup {None}]
    /\ req = Call!NoReq \/ req \in Exchanges
    /\ req \in Exchanges => req.n = Len(kinds) /\ kinds[req.n] = req.kind
    /\ req \in Exchanges /\ req.at # "send" => conn[req.kind] \in Connections

\* How often the current request may have been carried out before this attempt, and
\* after it.  Only a call is sent again.
Before == IF req.attempt = 1 THEN 0 ELSE 2
After == IF req.kind = "enroll" THEN 1 ELSE Before + 2

\* What has been carried out.
Counted ==
    /\ \A n \in Call!Requests : n > Len(kinds) => done[n] = 0
    /\ \A n \in DOMAIN kinds : done[n] <= IF kinds[n] = "enroll" THEN 1 ELSE 4
    /\ req \in Exchanges =>
          /\ req.kind = "enroll" => req.attempt = 1 /\ ~req.reused
          /\ done[req.n] <= IF req.at = "answer" THEN After ELSE Before

\* Nothing waits on a connection but the answer to the request that is being made.
Unread(k) ==
    IF req \in Exchanges /\ req.at = "answer" /\ req.kind = k
      THEN /\ ~conn[k].rest
           /\ \E keep \in BOOLEAN : conn[k].waiting = <<[n |-> req.n, keep_alive |-> keep]>>
      ELSE conn[k] # None \/ (req \in Exchanges /\ req.at # "send" /\ req.kind = k) =>
              conn[k].waiting = <<>> /\ ~conn[k].rest

Matched ==
    ~spoiled => /\ \A n \in Call!Requests : got[n] \in {None, n}
                /\ \A k \in Call!Kinds : Unread(k)

CallInv == CallTypeOK /\ Counted /\ Matched

\* The absence of a request is no request.
LEMMA NoReqNoExchange == Call!NoReq \notin Exchanges
  BY DEF Call!NoReq, Exchanges, Stages

\* The request ends, with an answer of its own or none, and leaves c as its connection.
LEMMA FinishStep ==
    ASSUME CallInv, req \in Exchanges, NEW a, NEW c \in Connections \cup {None},
           Call!Finish(a), Call!SetConn(c), UNCHANGED <<kinds, done>>,
           ~spoiled' => /\ ~spoiled /\ a \in {None, req.n}
                        /\ c # None => c.waiting = <<>> /\ ~c.rest
    PROVE  CallInv'
<1>1. /\ req' = Call!NoReq /\ req' \notin Exchanges /\ req.n \in Call!Requests
      /\ req.kind \in Call!Kinds
  BY NoReqNoExchange DEF Call!Finish, Exchanges
<1>2. \A k \in Call!Kinds : conn'[k] = IF k = req.kind THEN c ELSE conn[k]
  BY DEF CallInv, CallTypeOK, Call!SetConn
<1>3. \A n \in Call!Requests : got'[n] = IF n = req.n THEN a ELSE got[n]
  BY DEF CallInv, CallTypeOK, Call!Finish
<1>4. CallTypeOK'
  <2>1. conn' \in [Call!Kinds -> Connections \cup {None}] /\ DOMAIN got' = Call!Requests
    BY <1>1 DEF CallInv, CallTypeOK, Call!SetConn, Call!Finish
  <2> QED BY <1>1, <2>1 DEF CallInv, CallTypeOK
<1>5. Counted'
  BY <1>1 DEF CallInv, Counted, Call!Requests
<1>6. ASSUME ~spoiled', NEW k \in Call!Kinds
      PROVE  Unread(k)'
  <2>1. k # req.kind => (conn[k] # None => conn[k].waiting = <<>> /\ ~conn[k].rest)
    BY <1>6 DEF CallInv, Matched, Unread
  <2>2. conn'[k] # None => conn'[k].waiting = <<>> /\ ~conn'[k].rest
    BY <1>1, <1>2, <1>6, <2>1
  <2> QED BY <1>1, <2>2 DEF Unread
<1>7. Matched'
  <2> SUFFICES ASSUME ~spoiled' PROVE Matched'
    BY DEF Matched
  <2>1. \A n \in Call!Requests : got'[n] \in {None, n}
    BY <1>3 DEF CallInv, Matched
  <2>2. \A k \in Call!Kinds : Unread(k)'
    BY <1>6
  <2> QED BY <2>1, <2>2 DEF Matched
<1> QED BY <1>4, <1>5, <1>7 DEF CallInv

\* The request goes on, over the connection c and after d executions.
LEMMA MoveStep ==
    ASSUME CallInv, req \in Exchanges, req' \in Exchanges,
           req'.n = req.n, req'.kind = req.kind, req'.reused = req.reused,
           NEW c \in Connections \cup {None}, Call!SetConn(c),
           req'.at # "send" => c \in Connections,
           NEW d \in Nat, done' = [done EXCEPT ![req.n] = d], UNCHANGED <<kinds, got>>,
           req'.kind = "enroll" => req'.attempt = 1,
           d <= IF req'.at = "answer" THEN After' ELSE Before',
           ~spoiled' =>
              /\ ~spoiled
              /\ IF req'.at = "answer"
                   THEN /\ ~c.rest
                        /\ \E keep \in BOOLEAN : c.waiting = <<[n |-> req.n, keep_alive |-> keep]>>
                   ELSE c # None \/ req'.at # "send" => c.waiting = <<>> /\ ~c.rest
    PROVE  CallInv'
<1>1. /\ req.n \in Call!Requests /\ req.kind \in Call!Kinds /\ req.n = Len(kinds)
      /\ req'.attempt \in {1, 2} /\ kinds[req.n] = req.kind
  BY DEF Exchanges, CallInv, CallTypeOK
<1>2. \A k \in Call!Kinds : conn'[k] = IF k = req.kind THEN c ELSE conn[k]
  BY DEF CallInv, CallTypeOK, Call!SetConn
<1>3. \A n \in Call!Requests : done'[n] = IF n = req.n THEN d ELSE done[n]
  BY DEF CallInv, CallTypeOK
<1>4. CallTypeOK'
  <2>1. conn' \in [Call!Kinds -> Connections \cup {None}] /\ done' \in [Call!Requests -> Nat]
    BY <1>1 DEF CallInv, CallTypeOK, Call!SetConn
  <2> QED BY <1>1, <1>2, <2>1 DEF CallInv, CallTypeOK
<1>5. d <= IF req.kind = "enroll" THEN 1 ELSE 4
  BY <1>1 DEF After, Before
<1>6. Counted'
  <2>1. /\ Len(kinds) \in Nat /\ Call!Requests \subseteq Nat
        /\ \A n \in DOMAIN kinds : n \in Call!Requests
    BY CallAssumption DEF CallInv, CallTypeOK, Call!Requests
  <2>2. \A n \in Call!Requests : n > Len(kinds) => done'[n] = 0
    <3> SUFFICES ASSUME NEW n \in Call!Requests, n > Len(kinds)
                 PROVE  done'[n] = 0
      OBVIOUS
    <3>1. done[n] = 0
      BY DEF CallInv, Counted
    <3> QED BY <1>1, <1>3, <2>1, <3>1
  <2>3. \A n \in DOMAIN kinds : done'[n] <= IF kinds[n] = "enroll" THEN 1 ELSE 4
    <3> SUFFICES ASSUME NEW n \in DOMAIN kinds
                 PROVE  done'[n] <= IF kinds[n] = "enroll" THEN 1 ELSE 4
      OBVIOUS
    <3>1. done[n] <= IF kinds[n] = "enroll" THEN 1 ELSE 4
      BY DEF CallInv, Counted
    <3> QED BY <1>1, <1>3, <1>5, <2>1, <3>1
  <2>4. /\ req'.kind = "enroll" => ~req'.reused
        /\ done'[req'.n] = d
    BY <1>1, <1>3 DEF CallInv, Counted
  <2> QED BY <2>2, <2>3, <2>4 DEF Counted
<1>7. ASSUME ~spoiled', NEW k \in Call!Kinds
      PROVE  Unread(k)'
  <2>1. CASE k = req.kind
    BY <1>1, <1>2, <1>7, <2>1 DEF Unread
  <2>2. CASE k # req.kind
    <3>1. conn[k] # None => conn[k].waiting = <<>> /\ ~conn[k].rest
      BY <1>7, <2>2 DEF CallInv, Matched, Unread
    <3> QED BY <1>2, <2>2, <3>1 DEF Unread
  <2> QED BY <2>1, <2>2
<1>8. Matched'
  <2>1. \A k \in Call!Kinds : ~spoiled' => Unread(k)'
    BY <1>7
  <2> QED BY <2>1 DEF CallInv, Matched
<1> QED BY <1>4, <1>6, <1>8 DEF CallInv

\* What is known of the request that is being made.
LEMMA ExchangeFacts ==
    ASSUME CallInv, req \in Exchanges
    PROVE  /\ req.n \in Call!Requests /\ req.kind \in Call!Kinds /\ req.at \in Stages
           /\ req.attempt \in {1, 2} /\ req.reused \in BOOLEAN
           /\ conn[req.kind] \in Connections \cup {None}
           /\ req.at # "send" => conn[req.kind] \in Connections
           /\ done[req.n] \in Nat
           /\ done[req.n] <= IF req.at = "answer" THEN After ELSE Before
           /\ req.kind = "enroll" => req.attempt = 1 /\ ~req.reused
           /\ done = [done EXCEPT ![req.n] = done[req.n]]
           /\ conn = [conn EXCEPT ![req.kind] = conn[req.kind]]
           /\ ~spoiled => IF req.at = "answer"
                THEN /\ ~conn[req.kind].rest
                     /\ \E keep \in BOOLEAN :
                          conn[req.kind].waiting = <<[n |-> req.n, keep_alive |-> keep]>>
                ELSE conn[req.kind] # None \/ req.at # "send" =>
                        conn[req.kind].waiting = <<>> /\ ~conn[req.kind].rest
<1>1. /\ req.n \in Call!Requests /\ req.kind \in Call!Kinds /\ req.at \in Stages
      /\ req.attempt \in {1, 2} /\ req.reused \in BOOLEAN
  BY DEF Exchanges
<1>2. /\ done[req.n] \in Nat /\ conn[req.kind] \in Connections \cup {None}
      /\ done = [done EXCEPT ![req.n] = done[req.n]]
      /\ conn = [conn EXCEPT ![req.kind] = conn[req.kind]]
      /\ req.at # "send" => conn[req.kind] \in Connections
  BY <1>1 DEF CallInv, CallTypeOK
<1>3. ~spoiled => Unread(req.kind)
  BY <1>1 DEF CallInv, Matched
<1> QED BY <1>1, <1>2, <1>3 DEF CallInv, Counted, Unread

\* What a new connection holds.
LEMMA NewConnections ==
    /\ Call!Opened \in Connections /\ Call!Opened.waiting = <<>> /\ ~Call!Opened.rest
    /\ Call!Broken \in Connections /\ Call!Broken.waiting = <<>> /\ ~Call!Broken.rest
<1>1. <<>> \in Seq(Answers)
  OBVIOUS
<1> QED BY <1>1 DEF Call!Opened, Call!Broken, Connections

\* An exchange fails: it is tried again, or the request has failed.
LEMMA IoErrorStep ==
    ASSUME CallInv, req \in Exchanges, Call!IoError, UNCHANGED <<kinds, done, spoiled>>
    PROVE  CallInv'
<1>1. CASE req.attempt = 1 /\ req.reused
  <2>1. req' = [req EXCEPT !.at = "send", !.attempt = 2] /\ Call!SetConn(None) /\ UNCHANGED got
    BY <1>1 DEF Call!IoError, Call!Again
  <2>2. /\ req' \in Exchanges /\ req'.n = req.n /\ req'.kind = req.kind
        /\ req'.reused = req.reused /\ req'.at = "send" /\ req'.attempt = 2
    BY <2>1 DEF Exchanges, Stages
  <2>3. req.kind # "enroll" /\ done[req.n] <= 2 /\ done[req.n] \in Nat /\ Before' = 2
    BY <1>1, <2>2, ExchangeFacts DEF Before, After
  <2>4. done' = [done EXCEPT ![req.n] = done[req.n]]
    BY ExchangeFacts
  <2> QED BY <2>1, <2>2, <2>3, <2>4, MoveStep
<1>2. CASE ~(req.attempt = 1 /\ req.reused)
  <2> DEFINE c == IF req.attempt = 1 THEN None ELSE Call!Broken
  <2>1. Call!Finish(None) /\ Call!SetConn(c)
    BY <1>2 DEF Call!IoError
  <2>2. c \in Connections \cup {None} /\ (c # None => c.waiting = <<>> /\ ~c.rest)
    BY NewConnections
  <2> HIDE DEF c
  <2> QED BY <2>1, <2>2, FinishStep
<1> QED BY <1>1, <1>2

\* What a connection is when its answers, or whether it is dead or has a rest, change.
LEMMA ConnectionUpdate ==
    ASSUME NEW old \in Connections, NEW w \in Seq(Answers), NEW b \in BOOLEAN
    PROVE  /\ [old EXCEPT !.waiting = w, !.dead = b] \in Connections
           /\ [old EXCEPT !.waiting = w, !.dead = b].waiting = w
           /\ ~old.rest => ~[old EXCEPT !.waiting = w, !.dead = b].rest
           /\ [old EXCEPT !.waiting = w, !.rest = b] \in Connections
           /\ [old EXCEPT !.waiting = w] \in Connections
           /\ [old EXCEPT !.waiting = w].waiting = w
           /\ [old EXCEPT !.waiting = w].rest = old.rest
  BY DEF Connections

\* The gateway has answered, after d executions of the request in all.
LEMMA AnswerStep ==
    ASSUME CallInv, req \in Exchanges, req.at \in {"body", "daemon"}, NEW keep \in BOOLEAN,
           Call!Answer(keep), NEW d \in Nat, done' = [done EXCEPT ![req.n] = d], d <= After,
           UNCHANGED <<kinds, got, spoiled>>
    PROVE  CallInv'
<1> DEFINE old == conn[req.kind]
           a == [n |-> req.n, keep_alive |-> keep]
           c == [old EXCEPT !.waiting = Append(@, a), !.dead = ~keep]
<1>1. Call!SetConn(c) /\ req' = [req EXCEPT !.at = "answer"]
  BY DEF Call!Answer, Call!Go, Call!Reply
<1>2. /\ req' \in Exchanges /\ req'.n = req.n /\ req'.kind = req.kind /\ req'.at = "answer"
      /\ req'.attempt = req.attempt /\ req'.reused = req.reused
  BY <1>1 DEF Exchanges, Stages
<1>3. old \in Connections /\ a \in Answers
      /\ (~spoiled => old.waiting = <<>> /\ ~old.rest)
  BY ExchangeFacts, CallAssumption DEF Answers, Call!Requests
<1> HIDE DEF old, a
<1>4. c \in Connections /\ c.waiting = Append(old.waiting, a) /\ (~old.rest => ~c.rest)
  <2>1. Append(old.waiting, a) \in Seq(Answers)
    BY <1>3 DEF Connections
  <2>2. PICK b \in BOOLEAN : b = ~keep
    BY Zenon
  <2>3. PICK w \in Seq(Answers) : w = Append(old.waiting, a)
    BY <2>1
  <2>4. c = [old EXCEPT !.waiting = w, !.dead = b]
    BY <2>2, <2>3, Zenon
  <2> HIDE DEF c
  <2>5. /\ [old EXCEPT !.waiting = w, !.dead = b] \in Connections
        /\ [old EXCEPT !.waiting = w, !.dead = b].waiting = w
        /\ ~old.rest => ~[old EXCEPT !.waiting = w, !.dead = b].rest
    BY <1>3, ConnectionUpdate
  <2> QED BY <2>3, <2>4, <2>5, Zenon
<1> HIDE DEF c
<1>5. After' = After /\ (req'.kind = "enroll" => req'.attempt = 1)
  BY <1>2, ExchangeFacts DEF After, Before
<1>6. ~spoiled => c.waiting = <<a>> /\ ~c.rest
  <2>1. Append(<<>>, a) = <<a>>
    OBVIOUS
  <2> QED BY <1>3, <1>4, <2>1
<1>7. ~spoiled' => ~spoiled /\ ~c.rest
                   /\ \E k \in BOOLEAN : c.waiting = <<[n |-> req.n, keep_alive |-> k]>>
  BY <1>6 DEF a
<1> QED BY <1>1, <1>2, <1>4, <1>5, <1>7, MoveStep

\* The steps of a request that is under way.
LEMMA ExchangeStep ==
    ASSUME CallInv, req \in Exchanges,
           \/ Call!DialFails \/ Call!Send \/ Call!Eof \/ Call!read_request \/ Call!TooLarge
           \/ Call!RequestLost \/ Call!Receive \/ Call!AnswerLost \/ Call!Unreadable
    PROVE  CallInv'
<1> DEFINE old == conn[req.kind]
<1>1. CASE Call!DialFails
  BY <1>1, ExchangeFacts, FinishStep DEF Call!DialFails, Call!SetConn
<1>2. CASE Call!Eof \/ Call!RequestLost \/ Call!AnswerLost
  BY <1>2, IoErrorStep DEF Call!Eof, Call!RequestLost, Call!AnswerLost
<1>3. CASE Call!Send
  <2>1. CASE Call!IoError
    BY <1>3, <2>1, IoErrorStep DEF Call!Send
  <2>2. CASE ~Call!IoError
    <3> DEFINE c == IF old = None THEN Call!Opened ELSE old
    <3>1. /\ Call!SetConn(c) /\ req' = [req EXCEPT !.at = "head"] /\ req.at = "send"
          /\ UNCHANGED <<got, kinds, done, spoiled>>
      BY <1>3, <2>2 DEF Call!Send, Call!Go
    <3>2. /\ req' \in Exchanges /\ req'.n = req.n /\ req'.kind = req.kind /\ req'.at = "head"
          /\ req'.attempt = req.attempt /\ req'.reused = req.reused
      BY <3>1 DEF Exchanges, Stages
    <3>3. c \in Connections /\ (~spoiled => c.waiting = <<>> /\ ~c.rest)
      BY <3>1, NewConnections, ExchangeFacts
    <3> HIDE DEF c
    <3>4. /\ done[req.n] <= Before' /\ (req'.kind = "enroll" => req'.attempt = 1)
          /\ done' = [done EXCEPT ![req.n] = done[req.n]] /\ done[req.n] \in Nat
      BY <3>1, <3>2, ExchangeFacts DEF Before
    <3> QED BY <3>1, <3>2, <3>3, <3>4, MoveStep
  <2> QED BY <2>1, <2>2
<1>4. CASE Call!read_request
  <2>1. /\ req' = [req EXCEPT !.at = "body"] /\ req.at = "head"
        /\ UNCHANGED <<conn, got, kinds, done, spoiled>>
    BY <1>4 DEF Call!read_request, Call!Go
  <2>2. /\ req' \in Exchanges /\ req'.n = req.n /\ req'.kind = req.kind /\ req'.at = "body"
        /\ req'.attempt = req.attempt /\ req'.reused = req.reused
    BY <2>1 DEF Exchanges, Stages
  <2>3. /\ done[req.n] <= Before' /\ (req'.kind = "enroll" => req'.attempt = 1)
        /\ done' = [done EXCEPT ![req.n] = done[req.n]] /\ done[req.n] \in Nat
        /\ Call!SetConn(old) /\ old \in Connections
    BY <2>1, <2>2, ExchangeFacts DEF Before, Call!SetConn
  <2> QED BY <2>1, <2>2, <2>3, ExchangeFacts, MoveStep
<1>5. CASE Call!TooLarge
  <2> DEFINE a == [n |-> req.n, keep_alive |-> TRUE]
             c == [old EXCEPT !.waiting = Append(@, a), !.rest = TRUE]
  <2>1. /\ Call!SetConn(c) /\ req' = [req EXCEPT !.at = "answer"] /\ req.at = "body"
        /\ spoiled' = TRUE /\ UNCHANGED <<got, kinds, done>>
    BY <1>5 DEF Call!TooLarge, Call!Go, Call!Reply
  <2>2. /\ req' \in Exchanges /\ req'.n = req.n /\ req'.kind = req.kind /\ req'.at = "answer"
        /\ req'.attempt = req.attempt /\ req'.reused = req.reused
    BY <2>1 DEF Exchanges, Stages
  <2>3. /\ done[req.n] <= After' /\ (req'.kind = "enroll" => req'.attempt = 1)
        /\ done' = [done EXCEPT ![req.n] = done[req.n]] /\ done[req.n] \in Nat
    BY <2>1, <2>2, ExchangeFacts DEF Before, After
  <2>4. c \in Connections
    <3>1. old \in Connections /\ a \in Answers
      BY <2>1, ExchangeFacts, CallAssumption DEF Answers, Call!Requests
    <3>2. Append(old.waiting, a) \in Seq(Answers)
      BY <3>1 DEF Connections
    <3> QED BY <3>1, <3>2, ConnectionUpdate
  <2> HIDE DEF c
  <2> QED BY <2>1, <2>2, <2>3, <2>4, MoveStep
<1>6. CASE Call!Receive
  <2> DEFINE c == IF Head(old.waiting).keep_alive THEN [old EXCEPT !.waiting = Tail(@)] ELSE None
             w == old.waiting
  <2>1. /\ req.at \in {"answer", "head"} /\ w # <<>>
        /\ Call!Finish(Head(w).n) /\ Call!SetConn(c) /\ UNCHANGED <<kinds, done, spoiled>>
    BY <1>6 DEF Call!Receive
  <2>2. old \in Connections /\ w \in Seq(Answers)
    BY <2>1, ExchangeFacts DEF Connections
  <2>3. ~spoiled => Head(w).n = req.n /\ Tail(w) = <<>> /\ ~old.rest
    <3> SUFFICES ASSUME ~spoiled PROVE Head(w).n = req.n /\ Tail(w) = <<>> /\ ~old.rest
      OBVIOUS
    <3>1. ~old.rest /\ \E keep \in BOOLEAN : w = <<[n |-> req.n, keep_alive |-> keep]>>
      BY <2>1, ExchangeFacts
    <3>2. PICK keep \in BOOLEAN : w = <<[n |-> req.n, keep_alive |-> keep]>>
      BY <3>1
    <3> QED BY <3>1, <3>2
  <2>4. c \in Connections \cup {None} /\ (c # None => c.waiting = Tail(w) /\ c.rest = old.rest)
    <3>1. Tail(w) \in Seq(Answers)
      BY <1>6, <2>2 DEF Call!Receive
    <3> QED BY <2>2, <3>1, ConnectionUpdate
  <2> HIDE DEF c
  <2> QED BY <2>1, <2>3, <2>4, FinishStep
<1>7. CASE Call!Unreadable
  <2>1. CASE req.attempt = 1
    BY <1>7, <2>1, FinishStep DEF Call!Unreadable
  <2>2. CASE req.attempt # 1
    BY <1>7, <2>2, ExchangeFacts, FinishStep DEF Call!Unreadable, Call!SetConn
  <2> QED BY <2>1, <2>2
<1> QED BY <1>1, <1>2, <1>3, <1>4, <1>5, <1>6, <1>7

\* What the gateway answers.
LEMMA GatewayStep ==
    ASSUME CallInv, req \in Exchanges,
           \/ Call!Untrusted \/ (\E refused \in BOOLEAN : Call!ReadBody(refused)) \/ Call!Serve
           \/ \E carried, again \in 0..1 : Call!DaemonError(carried, again)
    PROVE  CallInv'
<1> DEFINE d == done[req.n]
<1>0. d \in Nat /\ (req.at # "answer" => d <= Before) /\ Before \in {0, 2} /\ After \in 1..4
      /\ Before < After /\ done = [done EXCEPT ![req.n] = d]
      /\ (req.kind # "enroll" => After = Before + 2) /\ (req.kind = "enroll" => Before = 0)
  BY ExchangeFacts DEF Before, After
<1>1. CASE Call!Untrusted
  <2>1. /\ Call!Answer(FALSE) /\ req.at = "body" /\ UNCHANGED <<done, kinds, got, spoiled>>
    BY <1>1 DEF Call!Untrusted
  <2>2. done' = [done EXCEPT ![req.n] = d] /\ d <= After /\ FALSE \in BOOLEAN
    BY <1>0, <2>1, SMTT(20)
  <2> HIDE DEF d
  <2> QED BY <1>0, <2>1, <2>2, AnswerStep
<1>2. ASSUME NEW refused \in BOOLEAN, Call!ReadBody(refused)
      PROVE  CallInv'
  <2>1. CASE refused
    <3>1. /\ Call!Answer(TRUE) /\ req.at = "body" /\ UNCHANGED <<done, kinds, got, spoiled>>
      BY <1>2, <2>1 DEF Call!ReadBody
    <3>2. done' = [done EXCEPT ![req.n] = d] /\ d <= After /\ TRUE \in BOOLEAN
      BY <1>0, <3>1, SMTT(20)
    <3> HIDE DEF d
    <3> QED BY <1>0, <3>1, <3>2, AnswerStep
  <2>2. CASE ~refused
    <3>1. /\ req' = [req EXCEPT !.at = "daemon"] /\ req.at = "body"
          /\ UNCHANGED <<conn, got, kinds, done, spoiled>>
      BY <1>2, <2>2 DEF Call!ReadBody, Call!Go
    <3>2. /\ req' \in Exchanges /\ req'.n = req.n /\ req'.kind = req.kind /\ req'.at = "daemon"
          /\ req'.attempt = req.attempt /\ req'.reused = req.reused
      BY <3>1 DEF Exchanges, Stages
    <3>3. /\ d <= Before' /\ (req'.kind = "enroll" => req'.attempt = 1)
          /\ done' = [done EXCEPT ![req.n] = d]
          /\ Call!SetConn(conn[req.kind]) /\ conn[req.kind] \in Connections
      BY <1>0, <3>1, <3>2, ExchangeFacts DEF Before, Call!SetConn
    <3> QED BY <1>0, <3>1, <3>2, <3>3, ExchangeFacts, MoveStep
  <2> QED BY <2>1, <2>2
<1>3. CASE Call!Serve
  <2>1. done' = [done EXCEPT ![req.n] = d + 1] /\ req.at = "daemon"
    BY <1>3 DEF Call!Serve
  <2>2. d + 1 \in Nat /\ d + 1 <= After
    BY <1>0, <2>1
  <2> QED BY <1>3, <2>1, <2>2, AnswerStep DEF Call!Serve
<1>4. ASSUME NEW carried \in 0..1, NEW again \in 0..1, Call!DaemonError(carried, again)
      PROVE  CallInv'
  <2> DEFINE e == d + carried + (IF req.kind = "call" THEN again ELSE 0)
  <2>1. done' = [done EXCEPT ![req.n] = e] /\ req.at = "daemon"
    BY <1>4 DEF Call!DaemonError
  <2>2. e \in Nat /\ e <= After
    <3>1. req.kind \in {"call", "enroll"}
      BY ExchangeFacts DEF Call!Kinds
    <3> HIDE DEF d
    <3>2. CASE req.kind = "call"
      BY <1>0, <2>1, <3>2
    <3>3. CASE req.kind = "enroll"
      BY <1>0, <2>1, <3>3
    <3> QED BY <3>1, <3>2, <3>3
  <2> HIDE DEF e
  <2> QED BY <1>4, <2>1, <2>2, AnswerStep DEF Call!DaemonError
<1> QED BY <1>1, <1>2, <1>3, <1>4

\* A new request, and what becomes of connections that no request uses.
LEMMA BetweenStep ==
    ASSUME CallInv,
           \/ \E kind \in Call!Kinds : Call!ReadRest(kind) \/ \E large \in BOOLEAN : Call!request(kind, large)
           \/ Call!IdleClose
    PROVE  CallInv'
<1> USE DEF CallInv
<1>1. ASSUME NEW kind \in Call!Kinds, NEW large \in BOOLEAN, Call!request(kind, large)
      PROVE  CallInv'
  <2> DEFINE kept == IF kind = "call" THEN conn[kind] ELSE None
             n == Len(kinds) + 1
  <2>1. /\ req = Call!NoReq /\ Len(kinds) < MaxRequests /\ kinds' = Append(kinds, kind)
        /\ conn' = [conn EXCEPT ![kind] = kept] /\ UNCHANGED <<done, got, spoiled, errors>>
    BY <1>1 DEF Call!request
  <2>2. /\ Len(kinds) \in Nat /\ kinds' \in Seq(Call!Kinds) /\ Len(kinds') = n
        /\ DOMAIN kinds = 1..Len(kinds) /\ DOMAIN kinds' = 1..n
        /\ kinds'[n] = kind /\ \A i \in 1..Len(kinds) : kinds'[i] = kinds[i]
    BY <2>1 DEF CallTypeOK
  <2>3. PICK reused \in BOOLEAN : reused = (kept # None)
    BY Zenon
  <2>4. req' = [at |-> "send", n |-> n, kind |-> kind, large |-> large, attempt |-> 1,
                reused |-> reused]
    BY <1>1, <2>2, <2>3 DEF Call!request
  <2>5. n \in Call!Requests /\ n > Len(kinds) /\ n \in Nat
    BY <2>1, <2>2, CallAssumption DEF Call!Requests
  <2>6. /\ req' \in Exchanges /\ req'.n = n /\ req'.kind = kind /\ req'.at = "send"
        /\ req'.attempt = 1 /\ (kind = "enroll" => ~req'.reused)
    <3>1. kind = "enroll" => ~reused
      BY <2>3
    <3> QED BY <2>4, <2>5, <3>1 DEF Exchanges, Stages
  <2>7. \A k \in Call!Kinds : conn'[k] = None \/ conn'[k] = conn[k]
    BY <2>1 DEF CallTypeOK
  <2>8. CallTypeOK'
    <3>1. conn' \in [Call!Kinds -> Connections \cup {None}]
      BY <2>1 DEF CallTypeOK
    <3>2. n <= MaxRequests
      BY <2>1, <2>2, CallAssumption
    <3> QED BY <2>1, <2>2, <2>6, <3>1, <3>2 DEF CallTypeOK
  <2>9. Counted'
    <3>1. done[n] = 0 /\ Call!Requests \subseteq Nat
      BY <2>5, CallAssumption DEF Counted, Call!Requests
    <3>2. \A m \in Call!Requests : m > n => done[m] = 0
      BY <2>2, <2>5, <3>1 DEF Counted
    <3>3. \A i \in 1..n : done[i] <= IF kinds'[i] = "enroll" THEN 1 ELSE 4
      BY <2>2, <2>5, <3>1 DEF Counted
    <3> QED BY <2>1, <2>2, <2>6, <3>1, <3>2, <3>3 DEF Counted, After, Before
  <2>10. Matched'
    <3>1. ASSUME ~spoiled, NEW k \in Call!Kinds
          PROVE  Unread(k)'
      <4>1. conn[k] # None => conn[k].waiting = <<>> /\ ~conn[k].rest
        BY <2>1, <3>1, NoReqNoExchange DEF Matched, Unread
      <4> QED BY <2>6, <2>7, <4>1 DEF Unread
    <3> QED BY <2>1, <3>1 DEF Matched
  <2> QED BY <2>8, <2>9, <2>10
<1>2. ASSUME NEW kind \in Call!Kinds, Call!ReadRest(kind)
      PROVE  CallInv'
  <2>1. /\ conn[kind] # None /\ conn[kind].rest
        /\ conn' = [conn EXCEPT ![kind] = [dead |-> TRUE, rest |-> FALSE,
                                           waiting |-> Append(@.waiting, Call!Malformed)]]
        /\ UNCHANGED <<req, kinds, done, got, spoiled>>
    BY <1>2 DEF Call!ReadRest
  <2>2. spoiled
    BY <2>1 DEF Matched, Unread
  <2>3. conn' \in [Call!Kinds -> Connections \cup {None}] /\ conn'[kind] \in Connections
    <3>1. conn[kind] \in Connections /\ Call!Malformed \in Answers
      BY <2>1 DEF CallTypeOK, Call!Malformed, Answers
    <3>2. Append(conn[kind].waiting, Call!Malformed) \in Seq(Answers)
      BY <3>1 DEF Connections
    <3> DEFINE c == [dead |-> TRUE, rest |-> FALSE,
                     waiting |-> Append(conn[kind].waiting, Call!Malformed)]
    <3>3. c \in Connections
      BY <3>2 DEF Connections
    <3>4. conn' = [conn EXCEPT ![kind] = c]
      BY <2>1
    <3> HIDE DEF c
    <3> QED BY <3>3, <3>4 DEF CallTypeOK
  <2>4. \A k \in Call!Kinds : k # kind => conn'[k] = conn[k]
    BY <2>1 DEF CallTypeOK
  <2>5. CallTypeOK'
    <3>1. req \in Exchanges => req.kind \in Call!Kinds
      BY DEF Exchanges
    <3> QED BY <2>1, <2>3, <2>4, <3>1 DEF CallTypeOK
  <2> QED BY <2>1, <2>2, <2>5 DEF Counted, Matched, After, Before
<1>3. CASE Call!IdleClose
  <2> DEFINE old == conn["call"]
             c == [old EXCEPT !.dead = TRUE]
  <2>1. /\ req = Call!NoReq /\ old # None /\ conn' = [conn EXCEPT !["call"] = c]
        /\ UNCHANGED <<req, kinds, done, got, spoiled>>
    BY <1>3 DEF Call!IdleClose
  <2>2. old \in Connections /\ "call" \in Call!Kinds
    BY <2>1 DEF CallTypeOK, Call!Kinds
  <2>3. c \in Connections /\ c.waiting = old.waiting /\ (~old.rest => ~c.rest)
    BY <2>2 DEF Connections
  <2> HIDE DEF c
  <2>4. /\ conn' \in [Call!Kinds -> Connections \cup {None}]
        /\ \A k \in Call!Kinds : conn'[k] = IF k = "call" THEN c ELSE conn[k]
    BY <2>1, <2>2, <2>3 DEF CallTypeOK
  <2>5. Matched'
    <3>1. ASSUME ~spoiled, NEW k \in Call!Kinds
          PROVE  Unread(k)'
      <4>1. conn[k] # None => conn[k].waiting = <<>> /\ ~conn[k].rest
        BY <2>1, <3>1, NoReqNoExchange DEF Matched, Unread
      <4> QED BY <2>1, <2>3, <2>4, <4>1, NoReqNoExchange DEF Unread
    <3> QED BY <2>1, <3>1 DEF Matched
  <2> QED BY <2>1, <2>4, <2>5, NoReqNoExchange DEF CallTypeOK, Counted
<1> QED BY <1>1, <1>2, <1>3

\* Every step of the calls preserves their invariant.
LEMMA CallNextInv == CallInv /\ [Call!Next]_calls => CallInv'
<1> SUFFICES ASSUME CallInv, [Call!Next]_calls
             PROVE  CallInv'
  OBVIOUS
<1>1. CASE UNCHANGED calls
  BY <1>1 DEF calls, CallInv, CallTypeOK, Counted, Matched, Unread, After, Before
<1>2. CASE req \in Exchanges
  BY <1>1, <1>2, ExchangeStep, GatewayStep, BetweenStep DEF Call!Next
<1>3. CASE req = Call!NoReq
  <2>1. req.at = "none"
    BY <1>3 DEF Call!NoReq
  <2> QED BY <1>1, <2>1, BetweenStep
          DEF Call!Next, Call!DialFails, Call!Send, Call!Eof, Call!read_request, Call!Untrusted,
              Call!TooLarge, Call!ReadBody, Call!RequestLost, Call!Serve, Call!DaemonError,
              Call!Receive, Call!AnswerLost, Call!Unreadable
<1> QED BY <1>2, <1>3 DEF CallInv, CallTypeOK

\* A request gets its own answer or none, unless something was left unread on a
\* connection that was kept, and an enrollment is carried out at most once.
THEOREM CallsStaySound == Call!Spec => []CallsSound
<1>1. Call!Init => CallInv
  <2> SUFFICES ASSUME Call!Init PROVE CallInv
    OBVIOUS
  <2>1. <<>> \in Seq(Call!Kinds) /\ Len(<<>>) = 0 /\ DOMAIN <<>> = {}
    OBVIOUS
  <2> QED BY <2>1, NoReqNoExchange, CallAssumption
          DEF Call!Init, CallInv, CallTypeOK, Counted, Matched, Unread
<1>2. CallInv => CallsSound
  BY DEF CallInv, Counted, Matched, CallsSound, Call!CallsSound
<1> QED BY <1>1, <1>2, CallNextInv, PTL DEF Call!Spec, Call!vars, calls

-----------------------------------------------------------------------------
(* The recreate strategy: what ControllerProofs proves of it holds of the   *)
(* service of Clients, which is the same specification by another name.     *)

Proved == INSTANCE ControllerProofs WITH Strategy <- "recreate"

\* Recreating never runs replicas of two revisions at once, whatever errors, restarts
\* and edits come in between.
THEOREM RecreatedOneAtATime == Ctl!Spec => []OneRevision
<1> USE DEF Ctl!Highest, Proved!Highest, Ctl!Lowest, Proved!Lowest, Ctl!bound, Proved!bound,
            Ctl!Indexes, Proved!Indexes, Ctl!Cardinality, Proved!Cardinality, Ctl!NoReplica,
            Proved!NoReplica, Ctl!Live, Proved!Live, Ctl!Health, Proved!Health, Ctl!Fresh,
            Proved!Fresh, Ctl!Nothing, Proved!Nothing, Ctl!Step, Proved!Step
<1>1. Ctl!Init <=> Proved!Init
  BY Zenon DEF Ctl!Init, Proved!Init
<1>2. Ctl!Next <=> Proved!Next
  BY Zenon
     DEF Ctl!Minus, Proved!Minus, Ctl!LeastOf, Proved!LeastOf, Ctl!Old, Proved!Old, Ctl!New,
         Proved!New, Ctl!Step, Proved!Step, Ctl!Nothing, Proved!Nothing, Ctl!failure,
         Proved!failure, Ctl!free_indexes, Proved!free_indexes, Ctl!Steady, Proved!Steady,
         Ctl!Rolling, Proved!Rolling, Ctl!Recreate, Proved!Recreate, Ctl!next_step,
         Proved!next_step, Ctl!CRASH_LIMIT, Proved!CRASH_LIMIT, Ctl!Health, Proved!Health,
         Ctl!Fresh, Proved!Fresh, Ctl!Troubles, Proved!Troubles, Ctl!EditFile, Proved!EditFile,
         Ctl!Checked, Proved!Checked, Ctl!Exit, Proved!Exit, Ctl!Vanish, Proved!Vanish,
         Ctl!MinReadyPasses, Proved!MinReadyPasses, Ctl!DelayPasses, Proved!DelayPasses,
         Ctl!DeadlinePasses, Proved!DeadlinePasses, Ctl!Applied, Proved!Applied, Ctl!Exited,
         Proved!Exited, Ctl!Seen, Proved!Seen, Ctl!Observation, Proved!Observation,
         Ctl!Decided, Proved!Decided, Ctl!ObservePaused, Proved!ObservePaused, Ctl!Observe,
         Proved!Observe, Ctl!Acted, Proved!Acted, Ctl!Without, Proved!Without, Ctl!Drain,
         Proved!Drain, Ctl!Start, Proved!Start, Ctl!Abort, Proved!Abort, Ctl!Restart,
         Proved!Restart, Ctl!World, Proved!World, Ctl!Tick, Proved!Tick, Ctl!Next, Proved!Next,
         Ctl!vars, Proved!vars
<1>3. OneRevision <=> Proved!OneRevision
  BY Zenon DEF OneRevision, Ctl!OneRevision, Proved!OneRevision
<1>4. [Ctl!Next]_(Ctl!vars) => [Proved!Next]_(Proved!vars)
  BY <1>2 DEF Ctl!vars, Proved!vars
<1>5. Proved!RolloutAssumption /\ Proved!ControllerAssumption
  BY ServiceAssumption DEF Proved!RolloutAssumption, Proved!ControllerAssumption
<1>6. Proved!Spec => []Proved!OneRevision
  BY <1>5, Proved!RecreateIsExclusive
<1> QED BY <1>1, <1>3, <1>4, <1>6, PTL DEF Ctl!Spec, Proved!Spec

-----------------------------------------------------------------------------
(* The autoscaler, for any policy and whatever is read.                    *)

\* Every set of naturals has a least element.
LEMMA LeastNatural ==
    ASSUME NEW T \in SUBSET Nat, T # {}
    PROVE  \E x \in T : \A y \in T : x <= y
<1>1. PICK x \in T : \A y \in T : ~(<<y, x>> \in OpToRel(<, Nat))
  BY NatLessThanWellFounded, WFMin
<1>2. ASSUME NEW y \in T
      PROVE  x <= y
  <2>1. x \in Nat /\ y \in Nat
    OBVIOUS
  <2>2. ~(y < x)
    BY <1>1, <2>1 DEF OpToRel
  <2> QED BY <2>1, <2>2
<1> QED BY <1>2

\* Every finite set of numbers has a greatest element, by induction on its size.
LEMMA FiniteGreatest ==
    ASSUME NEW S \in SUBSET Int, IsFiniteSet(S), S # {}
    PROVE  \E x \in S : \A y \in S : x >= y
<1> DEFINE Top(U) == \E x \in U : \A y \in U : x >= y
           Bad1(k) == \E U \in SUBSET Int :
                         IsFiniteSet(U) /\ U # {} /\ Cardinality(U) = k /\ ~Top(U)
           T == {k \in Nat : Bad1(k)}
<1> SUFFICES ASSUME ~Top(S) PROVE FALSE
  OBVIOUS
<1>1. Cardinality(S) \in T
  BY FS_CardinalityType
<1>2. PICK k \in T : \A j \in T : k <= j
  BY <1>1, LeastNatural
<1>3. PICK U \in SUBSET Int : IsFiniteSet(U) /\ U # {} /\ Cardinality(U) = k /\ ~Top(U)
  OBVIOUS
<1>4. PICK u \in U : TRUE
  BY <1>3
<1> DEFINE V == U \ {u}
<1>5. IsFiniteSet(V) /\ Cardinality(V) = k - 1 /\ V \in SUBSET Int /\ Cardinality(V) \in Nat
  BY <1>3, <1>4, FS_RemoveElement, FS_CardinalityType
<1>6. V = {} => Top(U)
  <2> SUFFICES ASSUME V = {} PROVE \A y \in U : u >= y
    BY <1>4
  <2> QED BY <1>4
<1>7. CASE V # {}
  <2>1. k - 1 \notin T
    BY <1>2, <1>5
  <2>2. Top(V)
    BY <1>5, <1>7, <2>1
  <2>3. PICK m \in V : \A y \in V : m >= y
    BY <2>2
  <2>4. CASE m >= u
    BY <1>3, <1>4, <2>3, <2>4
  <2>5. CASE ~(m >= u)
    <3>1. \A y \in U : u >= y
      BY <1>4, <1>5, <2>3, <2>5
    <3> QED BY <1>3, <1>4, <3>1
  <2> QED BY <2>4, <2>5
<1> QED BY <1>3, <1>6, <1>7

Recommended == [age : Nat, to : 0..MaxReplicas]

\* The inductive invariant: for as long as a recommendation can matter, the history has
\* it if and only if it was made.
Remembered(h, m) ==
    \A e \in Recommended : e.age <= Scale!Longest => (e \in m <=> \E i \in DOMAIN h : h[i] = e)

ScaleInv ==
    /\ desired \in Nat /\ history \in Seq(Recommended) /\ made \in SUBSET Recommended
    /\ Remembered(history, made)

\* The longer window is a number.
LEMMA LongestNat ==
    Scale!Longest \in Nat /\ UpWindow <= Scale!Longest /\ DownWindow <= Scale!Longest
  BY ScaleAssumption DEF Scale!Longest

\* Time passes.
LEMMA OlderRemembered ==
    ASSUME NEW h \in Seq(Recommended), NEW m \in SUBSET Recommended, Remembered(h, m)
    PROVE  /\ Scale!Older(h) \in Seq(Recommended) /\ Len(Scale!Older(h)) = Len(h)
           /\ Scale!OlderSet(m) \in SUBSET Recommended
           /\ Remembered(Scale!Older(h), Scale!OlderSet(m))
<1> DEFINE g == Scale!Older(h)
           s == Scale!OlderSet(m)
           old(e) == [e EXCEPT !.age = @ + 1]
<1>1. \A e \in Recommended : old(e) \in Recommended /\ old(e).age = e.age + 1 /\ old(e).to = e.to
  BY DEF Recommended
<1>2. Len(h) \in Nat /\ DOMAIN h = 1..Len(h) /\ \A i \in 1..Len(h) : h[i] \in Recommended
  OBVIOUS
<1>3. g = [i \in 1..Len(h) |-> old(h[i])]
  BY <1>2 DEF Scale!Older
<1> HIDE DEF g
<1>4. g \in Seq(Recommended) /\ Len(g) = Len(h) /\ DOMAIN g = 1..Len(h)
  BY <1>1, <1>2, <1>3
<1>5. s = {old(e) : e \in {x \in m : x.age <= Scale!Longest}}
  BY DEF Scale!OlderSet
<1> HIDE DEF s
<1>6. s \in SUBSET Recommended
  BY <1>1, <1>5
<1>7. ASSUME NEW e \in Recommended, e.age <= Scale!Longest
      PROVE  e \in s <=> \E i \in DOMAIN g : g[i] = e
  <2>1. ASSUME e \in s PROVE \E i \in DOMAIN g : g[i] = e
    <3>1. PICK x \in m : x.age <= Scale!Longest /\ e = old(x)
      BY <1>5, <2>1
    <3>2. PICK i \in DOMAIN h : h[i] = x
      BY <3>1 DEF Remembered
    <3> QED BY <1>2, <1>3, <1>4, <3>1, <3>2
  <2>2. ASSUME NEW i \in DOMAIN g, g[i] = e PROVE e \in s
    <3>1. h[i] \in Recommended /\ e = old(h[i]) /\ i \in DOMAIN h
      BY <1>2, <1>3, <1>4, <2>2
    <3>2. h[i].age <= Scale!Longest
      <4>1. e.age = h[i].age + 1 /\ h[i].age \in Nat /\ e.age \in Nat
        BY <1>1, <3>1 DEF Recommended
      <4> QED BY <1>7, <4>1, LongestNat
    <3>3. h[i] \in m
      BY <3>1, <3>2 DEF Remembered
    <3> QED BY <1>5, <3>1, <3>2, <3>3
  <2> QED BY <2>1, <2>2
<1> QED BY <1>4, <1>6, <1>7 DEF Remembered, g, s

\* pop_front drops only what is too old to matter.
LEMMA PruneRemembered ==
    ASSUME NEW h \in Seq(Recommended), NEW m \in SUBSET Recommended, Remembered(h, m),
           NEW n \in DOMAIN h, h[n].age <= Scale!Longest
    PROVE  /\ Scale!prune(h) \in Seq(Recommended)
           /\ Remembered(Scale!prune(h), m)
<1> DEFINE Stops(k) == /\ \A i \in 1..(k - 1) : h[i].age > Scale!Longest
                       /\ k <= Len(h) => h[k].age <= Scale!Longest
           K == {j \in 1..Len(h) : h[j].age <= Scale!Longest}
           k == CHOOSE j \in 1..(Len(h) + 1) : Stops(j)
<1>1. Len(h) \in Nat /\ DOMAIN h = 1..Len(h) /\ \A i \in 1..Len(h) : h[i].age \in Nat
  <2>1. Len(h) \in Nat /\ DOMAIN h = 1..Len(h) /\ \A i \in 1..Len(h) : h[i] \in Recommended
    OBVIOUS
  <2> QED BY <2>1 DEF Recommended
<1>2. K \in SUBSET Nat /\ K # {}
  BY <1>1
<1>3. PICK j \in K : \A i \in K : j <= i
  BY <1>2, LeastNatural
<1>4. j \in 1..(Len(h) + 1) /\ Stops(j)
  BY <1>1, <1>3, LongestNat
<1>5. k \in 1..(Len(h) + 1) /\ Stops(k)
  BY <1>4
<1>6. Scale!prune(h) = SubSeq(h, k, Len(h))
  BY DEF Scale!prune
<1> HIDE DEF k
<1> DEFINE p == SubSeq(h, k, Len(h))
<1>7. /\ p \in Seq(Recommended) /\ DOMAIN p = 1..(Len(h) - k + 1)
      /\ \A i \in 1..(Len(h) - k + 1) : p[i] = h[k + i - 1]
  BY <1>1, <1>5
<1> HIDE DEF p
<1>8. ASSUME NEW e \in Recommended, e.age <= Scale!Longest
      PROVE  (\E i \in DOMAIN h : h[i] = e) <=> (\E i \in DOMAIN p : p[i] = e)
  <2>1. ASSUME NEW i \in DOMAIN h, h[i] = e
        PROVE  \E q \in DOMAIN p : p[q] = e
    <3>1. ~(i < k)
      <4> SUFFICES ASSUME i < k PROVE FALSE
        OBVIOUS
      <4>1. h[i].age > Scale!Longest
        BY <1>1, <1>5
      <4> QED BY <1>1, <1>8, <2>1, <4>1, LongestNat
    <3>2. i - k + 1 \in 1..(Len(h) - k + 1) /\ k + (i - k + 1) - 1 = i
      <4>1. i \in Nat /\ k \in Nat /\ i <= Len(h) /\ k >= 1 /\ Len(h) \in Nat
        BY <1>1, <1>5
      <4> QED BY <3>1, <4>1
    <3>3. p[i - k + 1] = h[i]
      BY <1>7, <3>2
    <3> QED BY <1>7, <2>1, <3>2, <3>3
  <2>2. ASSUME NEW i \in DOMAIN p, p[i] = e
        PROVE  \E q \in DOMAIN h : h[q] = e
    <3>1. k + i - 1 \in DOMAIN h
      BY <1>1, <1>5, <1>7
    <3> QED BY <1>7, <2>2, <3>1
  <2> QED BY <2>1, <2>2
<1> QED BY <1>6, <1>7, <1>8 DEF Remembered, p

\* What is asked of the service stays within the policy's bounds.
LEMMA RecommendationBounded ==
    ASSUME NEW r \in Readings, r # {}, NEW c \in Nat
    PROVE  Scale!recommendation(c, r) \in 0..MaxReplicas
<1> DEFINE W == {Scale!Wanted(c, x) : x \in r}
<1>1. ASSUME NEW x \in r
      PROVE  Scale!Wanted(c, x) \in Int
  <2>1. x[1] \in Nat /\ x[2] \in Nat \ {0} /\ Tolerance \in Nat
    BY ScaleAssumption
  <2>2. c * x[1] + x[2] - 1 \in Int
    BY <2>1
  <2>3. (c * x[1] + x[2] - 1) \div x[2] \in Int
    BY <2>1, <2>2
  <2> QED BY <2>3 DEF Scale!Wanted
<1>2. W \in SUBSET Int /\ IsFiniteSet(W) /\ W # {}
  <2> DEFINE f == [x \in r |-> Scale!Wanted(c, x)]
  <2>1. f \in Surjection(r, W)
    BY DEF Surjection
  <2>2. IsFiniteSet(W)
    BY <2>1, ScaleAssumption, FS_Surjection
  <2> QED BY <1>1, <2>2
<1>3. Scale!Max(W) \in Int
  BY <1>2, FiniteGreatest DEF Scale!Max
<1>4. MinReplicas \in Nat /\ MaxReplicas \in Nat
  BY ScaleAssumption
<1>5. Scale!recommendation(c, r) = Scale!Clamp(Scale!Max(W))
  BY DEF Scale!recommendation
<1> HIDE DEF W
<1> QED BY <1>3, <1>4, <1>5 DEF Scale!Clamp, Scale!AtMost, Scale!AtLeast

\* What a step of the autoscaler may do.
Steadily ==
    ~Scale!OutOfBounds /\ made' # {} =>
        /\ desired' < desired =>
              desired' >= Scale!Max(Scale!Since(DownWindow)) /\ desired' >= desired - DownStep
        /\ desired' > desired =>
              desired' <= Scale!Min(Scale!Since(UpWindow)) /\ desired' <= desired + UpStep

\* The recommendations of a window are those that were made in it.
LEMMA WindowsAgree ==
    ASSUME NEW h \in Seq(Recommended), NEW m \in SUBSET Recommended, Remembered(h, m),
           NEW secs \in Nat, secs <= Scale!Longest
    PROVE  /\ Scale!window(h, secs) = {e.to : e \in {x \in m : x.age <= secs}}
           /\ Scale!window(h, secs) \in SUBSET (0..MaxReplicas)
<1>1. \A i \in DOMAIN h : h[i] \in Recommended
  OBVIOUS
<1>2. \A e \in Recommended : e.age \in Nat /\ e.to \in 0..MaxReplicas
  BY DEF Recommended
<1>3. \A e \in Recommended : e.age <= secs => (e \in m <=> \E i \in DOMAIN h : h[i] = e)
  BY <1>2, LongestNat DEF Remembered
<1>4. ASSUME NEW x
      PROVE  x \in Scale!window(h, secs) <=> \E e \in m : e.age <= secs /\ e.to = x
  <2>1. x \in Scale!window(h, secs) <=> \E i \in DOMAIN h : h[i].age <= secs /\ h[i].to = x
    BY DEF Scale!window
  <2> QED BY <1>1, <1>3, <2>1
<1>5. Scale!window(h, secs) = {e.to : e \in {x \in m : x.age <= secs}}
  BY <1>4
<1> QED BY <1>2, <1>4, <1>5

\* A decision.
LEMMA DecideStep ==
    ASSUME ScaleInv, NEW r \in Readings, Scale!Decide(r)
    PROVE  ScaleInv' /\ Steadily
<1> DEFINE wanted == Scale!recommendation(desired, r)
           new == [age |-> 0, to |-> wanted]
           g == Scale!Older(history)
           s == Scale!OlderSet(made)
           a == Append(g, new)
           h == Scale!prune(a)
<1>1. /\ ~Scale!OutOfBounds /\ r # {} /\ history' = h /\ made' = s \cup {new}
      /\ desired' = Scale!Move(desired, wanted, h)
  BY DEF Scale!Decide
<1>2. wanted \in 0..MaxReplicas /\ desired \in Nat
  BY <1>1, RecommendationBounded DEF ScaleInv
<1> HIDE DEF wanted
<1>3. new \in Recommended /\ new.age = 0 /\ new.to = wanted
  BY <1>2 DEF Recommended
<1>4. g \in Seq(Recommended) /\ s \in SUBSET Recommended /\ Remembered(g, s)
  BY OlderRemembered DEF ScaleInv
<1> HIDE DEF new, g, s
<1>5. /\ a \in Seq(Recommended) /\ DOMAIN a = 1..(Len(g) + 1) /\ Len(g) \in Nat
      /\ a[Len(g) + 1] = new /\ DOMAIN g = 1..Len(g)
      /\ \A i \in 1..Len(g) : a[i] = g[i]
  BY <1>3, <1>4
<1> HIDE DEF a
<1>6. s \cup {new} \in SUBSET Recommended /\ Remembered(a, s \cup {new})
  BY <1>3, <1>4, <1>5 DEF Remembered
<1>7. Len(g) + 1 \in DOMAIN a /\ a[Len(g) + 1].age <= Scale!Longest
  BY <1>3, <1>5, LongestNat
<1>8. h \in Seq(Recommended) /\ Remembered(h, s \cup {new})
  BY <1>5, <1>6, <1>7, PruneRemembered
<1> HIDE DEF h
<1> DEFINE U == Scale!window(h, UpWindow)
           D == Scale!window(h, DownWindow)
<1>9. /\ UpWindow \in Nat /\ DownWindow \in Nat /\ UpStep \in Nat /\ DownStep \in Nat
      /\ MaxReplicas \in Nat
  BY ScaleAssumption
<1>10. /\ Scale!Since(UpWindow) = U /\ Scale!Since(DownWindow) = D
       /\ U \in SUBSET (0..MaxReplicas) /\ D \in SUBSET (0..MaxReplicas)
       /\ wanted \in U /\ wanted \in D
  <2>1. \A secs \in {UpWindow, DownWindow} :
           /\ Scale!window(h, secs) = {e.to : e \in {x \in s \cup {new} : x.age <= secs}}
           /\ Scale!window(h, secs) \in SUBSET (0..MaxReplicas)
    BY <1>6, <1>8, <1>9, WindowsAgree, LongestNat
  <2>2. \A secs \in {UpWindow, DownWindow} :
           Scale!Since(secs) = {e.to : e \in {x \in s \cup {new} : x.age <= secs}}
    BY <1>1 DEF Scale!Since
  <2>3. \A secs \in {UpWindow, DownWindow} :
           wanted \in {e.to : e \in {x \in s \cup {new} : x.age <= secs}}
    BY <1>3, <1>9
  <2> QED BY <2>1, <2>2, <2>3
<1> HIDE DEF U, D
<1>11. Scale!Min(U) \in Nat
  <2>1. U \in SUBSET Nat /\ U # {}
    BY <1>9, <1>10
  <2> QED BY <2>1, LeastNatural DEF Scale!Min
<1>12. Scale!Max(D) \in Nat
  <2>1. IsFiniteSet(0..MaxReplicas)
    BY <1>9, FS_Interval
  <2>2. D \in SUBSET Nat /\ D # {}
    BY <1>9, <1>10
  <2>3. IsFiniteSet(D)
    BY <1>10, <2>1, FS_Subset, Zenon
  <2>4. Scale!Max(D) \in D
    <3>1. D \in SUBSET Int
      BY <2>2
    <3> QED BY <2>2, <2>3, <3>1, FiniteGreatest DEF Scale!Max
  <2> QED BY <2>2, <2>4
<1>13. /\ desired' \in Nat
       /\ desired' < desired => desired' >= Scale!Max(D) /\ desired' >= desired - DownStep
       /\ desired' > desired => desired' <= Scale!Min(U) /\ desired' <= desired + UpStep
  BY <1>1, <1>2, <1>9, <1>11, <1>12 DEF Scale!Move, Scale!AtMost, Scale!AtLeast, U, D
<1> QED BY <1>1, <1>6, <1>8, <1>10, <1>13 DEF ScaleInv, Steadily

\* Every step of the autoscaler preserves its invariant and stays within a step.
LEMMA ScaleStep == ScaleInv /\ [Scale!Next]_scaler => ScaleInv' /\ [Steadily]_scaler
<1> SUFFICES ASSUME ScaleInv, [Scale!Next]_scaler
             PROVE  ScaleInv' /\ [Steadily]_scaler
  OBVIOUS
<1>1. CASE Scale!Bound \/ Scale!Skip
  <2>1. history' = Scale!Older(history) /\ made' = Scale!OlderSet(made)
    BY <1>1 DEF Scale!Bound, Scale!Skip
  <2>2. /\ history' \in Seq(Recommended) /\ made' \in SUBSET Recommended
        /\ Remembered(history', made')
    BY <2>1, OlderRemembered DEF ScaleInv
  <2>3. desired' \in Nat /\ (Scale!OutOfBounds \/ desired' = desired)
    BY <1>1, ScaleAssumption DEF Scale!Bound, Scale!Skip, Scale!Clamp, Scale!AtMost,
       Scale!AtLeast, ScaleInv
  <2>4. desired \in Nat
    BY DEF ScaleInv
  <2> QED BY <2>2, <2>3, <2>4 DEF ScaleInv, Steadily
<1>2. CASE Scale!Forget
  <2>1. <<>> \in Seq(Recommended) /\ DOMAIN <<>> = {}
    OBVIOUS
  <2> QED BY <1>2, <2>1, ScaleAssumption DEF Scale!Forget, ScaleInv, Remembered, Steadily
<1>3. CASE UNCHANGED scaler
  BY <1>3 DEF scaler, ScaleInv
<1> QED BY <1>1, <1>2, <1>3, DecideStep DEF Scale!Next

\* A service shrinks no further than every recommendation of the down window allows
\* and grows no further than all of the up window ask, one step at a time.
THEOREM ScalesSteadily == Scale!Spec => ScalesStable
<1>1. Scale!Init => ScaleInv
  <2>1. <<>> \in Seq(Recommended) /\ DOMAIN <<>> = {}
    OBVIOUS
  <2> QED BY <2>1, ScaleAssumption DEF Scale!Init, ScaleInv, Remembered
<1> QED BY <1>1, ScaleStep, PTL
        DEF Scale!Spec, Scale!vars, scaler, ScalesStable, Scale!ScalesStable, Steadily

-----------------------------------------------------------------------------
(* What a certificate sees and touches, for any callers and projects.      *)

RightsTypeOK ==
    /\ containers \in [CtrIds -> [project : Projects \cup {None},
                                  state : {"absent", "running", "stopped"},
                                  mounts : SUBSET (Volumes \cup {ServerPath})]]
    /\ DOMAIN images = ImageNames

ScopeNames == {"open", "filtered", "target", "project", "internal", "unrestricted"}

\* The scopes, by verb.
LEMMA Scopes ==
    ASSUME NEW r \in Rights!Request
    PROVE  /\ Rights!scope(r) \in ScopeNames
           /\ r.verb \in Rights!FilteredVerbs <=> Rights!scope(r) = "filtered"
           /\ r.verb \in Rights!TargetVerbs <=> Rights!scope(r) = "target"
           /\ r.verb \in Rights!ProjectVerbs <=> Rights!scope(r) = "project"
           /\ r.verb \in Rights!ImageVerbs \cup Rights!AdminVerbs => Rights!scope(r) = "unrestricted"
  BY DEF ScopeNames, Rights!scope, Rights!FilteredVerbs, Rights!TargetVerbs, Rights!ProjectVerbs,
     Rights!OpenVerbs, Rights!InternalVerbs, Rights!ImageVerbs, Rights!AdminVerbs

\* What authorize asks of the caller of each scope.
LEMMA Authorized ==
    ASSUME NEW c, NEW r \in Rights!Request, Rights!authorize(c, r), Rights!restricted(c)
    PROVE  /\ Rights!scope(r) = "project" => r.project \in c.projects
           /\ Rights!scope(r) = "filtered" /\ r.project # None => r.project \in c.projects
           /\ Rights!scope(r) = "target" =>
                 Rights!There(r.target) /\ containers[r.target].project \in c.projects
           /\ Rights!scope(r) # "unrestricted"
  BY DEF Rights!authorize, Rights!allows_project

\* A reply to a restricted certificate is about its own projects, or what the container
\* asked for reaches.
LEMMA RepliesOwn ==
    ASSUME NEW c, NEW r \in Rights!Request, Rights!authorize(c, r), Rights!restricted(c),
           NEW x \in Rights!reply(c, r)
    PROVE  x.project \in c.projects \/ (r.verb \in Rights!InsideVerbs /\ x \in Rights!Reached(r.target))
<1>1. CASE Rights!filtered(c, r)
  BY <1>1 DEF Rights!reply, Rights!filter_response, Rights!allows_project
<1>2. CASE ~Rights!filtered(c, r)
  <2>1. x \in Rights!listed(r)
    BY <1>2 DEF Rights!reply
  <2>2. CASE r.verb \in {"ps", "stats"}
    <3>1. Rights!scope(r) = "filtered"
      BY <2>2, Scopes DEF Rights!FilteredVerbs
    <3>2. r.project \in c.projects /\ r.project # None
      BY <1>2, <3>1, Authorized DEF Rights!filtered
    <3>3. \E m \in CtrIds : x.project = containers[m].project /\ Rights!Matches(r, containers[m].project)
      BY <2>1, <2>2 DEF Rights!listed, Rights!InsideVerbs
    <3> QED BY <3>2, <3>3 DEF Rights!Matches
  <2>3. CASE r.verb = "secret_list"
    <3>1. Rights!scope(r) = "filtered"
      BY <2>3, Scopes DEF Rights!FilteredVerbs
    <3>2. r.project \in c.projects /\ r.project # None
      BY <1>2, <3>1, Authorized DEF Rights!filtered
    <3>3. \E p \in secrets : x.project = p /\ Rights!Matches(r, p)
      BY <2>1, <2>3 DEF Rights!listed, Rights!InsideVerbs
    <3> QED BY <3>2, <3>3 DEF Rights!Matches
  <2>4. CASE r.verb = "lb_list"
    <3>1. Rights!scope(r) = "filtered" /\ r.project = None
      BY <2>4, Scopes DEF Rights!FilteredVerbs, Rights!Request, Rights!TargetVerbs,
         Rights!ProjectVerbs, Rights!OpenVerbs, Rights!InternalVerbs, Rights!ImageVerbs,
         Rights!AdminVerbs
    <3> QED BY <1>2, <3>1 DEF Rights!filtered
  <2>5. CASE r.verb = "secret_reveal"
    <3>1. Rights!scope(r) = "project"
      BY <2>5, Scopes DEF Rights!ProjectVerbs
    <3>2. x.project = r.project
      BY <2>1, <2>5 DEF Rights!listed, Rights!InsideVerbs
    <3> QED BY <3>1, <3>2, Authorized
  <2>6. CASE r.verb \in {"logs", "wait", "exec", "exec_probe"}
    <3>1. Rights!scope(r) = "target"
      BY <2>6, Scopes DEF Rights!TargetVerbs
    <3>2. \/ x.project = containers[r.target].project
          \/ r.verb \in Rights!InsideVerbs /\ x \in Rights!Reached(r.target)
      BY <2>1, <2>6, <3>1, Authorized DEF Rights!listed, Rights!InsideVerbs
    <3> QED BY <3>1, <3>2, Authorized
  <2> QED BY <2>1, <2>2, <2>3, <2>4, <2>5, <2>6 DEF Rights!listed, Rights!InsideVerbs
<1> QED BY <1>1, <1>2

\* A certificate is shown what is of its own projects only.
LEMMA AlwaysShowsOwn == Rights!ShowsOwn
  BY RepliesOwn DEF Rights!ShowsOwn, Rights!Foreign

\* A handler changes containers of one project only: that of the one it is about.
LEMMA OneContainer ==
    ASSUME RightsTypeOK, NEW n \in CtrIds, NEW x,
           containers' = [containers EXCEPT ![n] = x], UNCHANGED <<secrets, configs>>,
           NEW p, \A v \in Volumes : p \in volumes'[v] <=> p \in volumes[v],
           containers[n].project # p \/ containers[n] = Rights!Absent,
           x.project # p \/ x = Rights!Absent
    PROVE  Rights!Holding(p)' = Rights!Holding(p)
<1> DEFINE f == [m \in CtrIds |-> IF containers[m].project = p THEN containers[m] ELSE Rights!Absent]
<1>1. \A m \in CtrIds : containers'[m] = IF m = n THEN x ELSE containers[m]
  BY DEF RightsTypeOK
<1>2. \A m \in CtrIds :
         (IF containers'[m].project = p THEN containers'[m] ELSE Rights!Absent)
            = (IF containers[m].project = p THEN containers[m] ELSE Rights!Absent)
  BY <1>1
<1>3. f' = f
  BY <1>2 DEF Rights!Absent
<1>4. {v \in Volumes : p \in volumes'[v]} = {v \in Volumes : p \in volumes[v]}
  OBVIOUS
<1>5. /\ Rights!Holding(p)
            = <<f, p \in secrets, p \in configs, {v \in Volumes : p \in volumes[v]}>>
      /\ Rights!Holding(p)'
            = <<f', p \in secrets', p \in configs', {v \in Volumes : p \in volumes'[v]}>>
  BY Zenon DEF Rights!Holding
<1> QED BY <1>3, <1>4, <1>5, Zenon

\* The same for secrets and configurations of a project that the request does not name.
LEMMA OtherSecrets ==
    ASSUME UNCHANGED <<containers, volumes>>, NEW p,
           p \in secrets' <=> p \in secrets, p \in configs' <=> p \in configs
    PROVE  Rights!Holding(p)' = Rights!Holding(p)
<1>1. (p \in secrets') = (p \in secrets) /\ (p \in configs') = (p \in configs)
  OBVIOUS
<1> QED BY <1>1, Zenon DEF Rights!Holding

\* What an authorized request of a restricted certificate may do.
Within(c) ==
    /\ Rights!Changed \subseteq c.projects /\ node' = node
    /\ \A i \in ImageNames : images[i] # None => images'[i] # None

\* Requests about containers.
LEMMA ContainerStep ==
    ASSUME RightsTypeOK, NEW c, NEW r \in Rights!Request, Rights!authorize(c, r),
           Rights!restricted(c), Rights!Run(r) \/ Rights!Start(r) \/ Rights!Stop(r) \/ Rights!Rm(r)
    PROVE  Within(c)
<1> SUFFICES ASSUME NEW p, p \notin c.projects
             PROVE  Rights!Holding(p)' = Rights!Holding(p)
  <2>1. images' = images /\ node' = node
    BY DEF Rights!Run, Rights!Start, Rights!Stop, Rights!Rm, Rights!Set
  <2> QED BY <2>1 DEF Within, Rights!Changed
<1>1. CASE Rights!Run(r)
  <2> DEFINE x == [project |-> r.project, state |-> "running", mounts |-> r.mounts]
  <2>1. /\ r.verb = "run" /\ containers[r.name] = Rights!Absent
        /\ containers' = [containers EXCEPT ![r.name] = x] /\ UNCHANGED <<secrets, configs>>
    BY <1>1 DEF Rights!Run, Rights!There, Rights!Set
  <2>2. r.name \in CtrIds
    BY <2>1 DEF Rights!Request, Rights!FilteredVerbs, Rights!TargetVerbs, Rights!ProjectVerbs,
       Rights!OpenVerbs, Rights!InternalVerbs, Rights!ImageVerbs, Rights!AdminVerbs
  <2>3. x.project # p /\ r.project # p
    BY <2>1, Scopes, Authorized DEF Rights!ProjectVerbs
  <2>4. \A v \in Volumes : p \in volumes'[v] <=> p \in volumes[v]
    BY <1>1, <2>3 DEF Rights!Run
  <2> QED BY <2>1, <2>2, <2>3, <2>4, OneContainer
<1>2. CASE Rights!Start(r) \/ Rights!Stop(r) \/ Rights!Rm(r)
  <2> DEFINE t == r.target
  <2>1. r.verb \in Rights!TargetVerbs
    BY <1>2 DEF Rights!Start, Rights!Stop, Rights!Rm, Rights!TargetVerbs
  <2>2. t \in CtrIds
    BY <2>1 DEF Rights!Request, Rights!FilteredVerbs, Rights!TargetVerbs, Rights!ProjectVerbs,
       Rights!OpenVerbs, Rights!InternalVerbs, Rights!ImageVerbs, Rights!AdminVerbs
  <2>3. containers[t].project # p
    BY <2>1, Scopes, Authorized
  <2> HIDE DEF t
  <2>4. PICK x : /\ containers' = [containers EXCEPT ![t] = x]
                 /\ UNCHANGED <<secrets, configs, volumes>>
                 /\ x.project # p \/ x = Rights!Absent
    <3>1. \A s : [containers[t] EXCEPT !.state = s].project = containers[t].project
      BY <2>2 DEF RightsTypeOK
    <3>2. CASE Rights!Start(r)
      BY <2>3, <3>1, <3>2 DEF Rights!Start, Rights!Set, t
    <3>3. CASE Rights!Stop(r)
      BY <2>3, <3>1, <3>3 DEF Rights!Stop, Rights!Set, t
    <3>4. CASE Rights!Rm(r)
      BY <3>4 DEF Rights!Rm, Rights!Set, t
    <3> QED BY <1>2, <3>2, <3>3, <3>4
  <2> QED BY <2>2, <2>3, <2>4, OneContainer
<1> QED BY <1>1, <1>2

\* The other requests.
LEMMA OtherStep ==
    ASSUME RightsTypeOK, NEW c, NEW r \in Rights!Request, Rights!authorize(c, r),
           Rights!restricted(c),
           \/ Rights!Secret(r) \/ Rights!op_config_put(r) \/ Rights!Lb(r) \/ Rights!Image(r)
           \/ Rights!Admin(r)
    PROVE  Within(c)
<1>1. CASE Rights!Secret(r) \/ Rights!op_config_put(r)
  <2>1. r.project \in c.projects
    BY <1>1, Scopes, Authorized DEF Rights!Secret, Rights!op_config_put, Rights!ProjectVerbs
  <2>2. \A p : p \notin c.projects => Rights!Holding(p)' = Rights!Holding(p)
    BY <1>1, <2>1, OtherSecrets DEF Rights!Secret, Rights!op_config_put
  <2>3. images' = images /\ node' = node
    BY <1>1 DEF Rights!Secret, Rights!op_config_put
  <2> QED BY <2>2, <2>3 DEF Within, Rights!Changed
<1>2. CASE Rights!Lb(r) \/ Rights!Image(r)
  <2>1. UNCHANGED <<containers, secrets, configs, volumes, node>>
    BY <1>2 DEF Rights!Lb, Rights!Image
  <2>2. \A p : Rights!Holding(p)' = Rights!Holding(p)
    BY <2>1, OtherSecrets
  <2>3. \A i \in ImageNames : images[i] # None => images'[i] # None
    <3>1. r.verb \notin Rights!ImageVerbs
      BY Scopes, Authorized
    <3>2. CASE Rights!Image(r)
      <4>1. PICK v \in Rights!Version : images' = [images EXCEPT ![r.image] = v]
        BY <3>1, <3>2 DEF Rights!Image, Rights!ImageVerbs
      <4> QED BY <4>1, AccessAssumption DEF Rights!Version, RightsTypeOK
    <3> QED BY <1>2, <3>2 DEF Rights!Lb
  <2> QED BY <2>1, <2>2, <2>3 DEF Within, Rights!Changed
<1>3. CASE Rights!Admin(r)
  BY <1>3, Scopes, Authorized DEF Rights!Admin
<1> QED BY <1>1, <1>2, <1>3

\* A viewer's requests are none of those that change something.
LEMMA ViewersRead ==
    ASSUME NEW c \in Callers, c.role = "viewer", NEW r \in Rights!Request, Rights!authorize(c, r)
    PROVE  ~Rights!handle(r)
<1>1. Rights!role(r) \in {"viewer", "operator", "admin"}
  BY DEF Rights!role
<1>2. Rights!rank["viewer"] = 0 /\ Rights!rank["operator"] = 1 /\ Rights!rank["admin"] = 2
  BY DEF Rights!rank
<1>3. Rights!rank[c.role] >= Rights!rank[Rights!role(r)]
  BY DEF Rights!authorize
<1>4. Rights!role(r) = "viewer"
  BY <1>1, <1>2, <1>3
<1>5. r.verb \in Rights!ReadVerbs
  BY <1>4 DEF Rights!role
<1> QED
  BY <1>5 DEF Rights!handle, Rights!Run, Rights!Start, Rights!Stop, Rights!Rm, Rights!Secret,
     Rights!op_config_put, Rights!Lb, Rights!Image, Rights!Admin, Rights!ReadVerbs,
     Rights!FilteredVerbs, Rights!ImageVerbs, Rights!AdminVerbs

\* Handlers keep the records of containers whole.
LEMMA RightsTyped == RightsTypeOK /\ [Rights!Next]_rights => RightsTypeOK'
<1> SUFFICES ASSUME RightsTypeOK, [Rights!Next]_rights
             PROVE  RightsTypeOK'
  OBVIOUS
<1>1. CASE UNCHANGED containers /\ DOMAIN images' = ImageNames
  BY <1>1 DEF RightsTypeOK
<1>2. ASSUME NEW r \in Rights!Request,
             Rights!Run(r) \/ Rights!Start(r) \/ Rights!Stop(r) \/ Rights!Rm(r)
      PROVE  RightsTypeOK'
  BY <1>2 DEF RightsTypeOK, Rights!Request, Rights!Run, Rights!Start, Rights!Stop, Rights!Rm,
     Rights!Set, Rights!Absent, Rights!FilteredVerbs, Rights!TargetVerbs, Rights!ProjectVerbs,
     Rights!OpenVerbs, Rights!InternalVerbs, Rights!ImageVerbs, Rights!AdminVerbs
<1>3. ASSUME NEW r \in Rights!Request,
             \/ Rights!Secret(r) \/ Rights!op_config_put(r) \/ Rights!Lb(r) \/ Rights!Image(r)
             \/ Rights!Admin(r)
      PROVE  RightsTypeOK'
  BY <1>1, <1>3 DEF Rights!Secret, Rights!op_config_put, Rights!Lb, Rights!Image, Rights!Admin,
     RightsTypeOK
<1>4. ASSUME NEW n \in CtrIds, Rights!ThroughPath(n)
      PROVE  RightsTypeOK'
  BY <1>1, <1>4 DEF Rights!ThroughPath
<1>5. CASE UNCHANGED rights
  BY <1>1, <1>5 DEF rights, RightsTypeOK
<1> QED BY <1>2, <1>3, <1>4, <1>5 DEF Rights!Next, Rights!op_as, Rights!handle

\* What Confined says of a step.
ConfinedStep ==
    Rights!state' # Rights!state =>
        /\ by'.role # "viewer"
        /\ Rights!restricted(by') => Within(by')

\* Every step of the rights confines certificates.
LEMMA RightsStep == RightsTypeOK /\ [Rights!Next]_rights => [ConfinedStep]_rights
<1> SUFFICES ASSUME RightsTypeOK, Rights!Next
             PROVE  ConfinedStep
  OBVIOUS
<1>1. \/ by' = Rights!LocalCaller
      \/ \E r \in Rights!Request : \E c \in Callers : Rights!op_as(c, r)
  BY DEF Rights!Next, Rights!ThroughPath
<1>2. CASE by' = Rights!LocalCaller
  BY <1>2, AccessAssumption DEF Rights!LocalCaller, ConfinedStep, Rights!restricted
<1>3. ASSUME NEW r \in Rights!Request, NEW c \in Callers, Rights!op_as(c, r)
      PROVE  ConfinedStep
  <2>1. Rights!authorize(c, r) /\ Rights!handle(r) /\ by' = c
    BY <1>3 DEF Rights!op_as
  <2>2. c.role # "viewer"
    BY <2>1, ViewersRead
  <2>3. Rights!restricted(c) => Within(c)
    BY <2>1, ContainerStep, OtherStep DEF Rights!handle
  <2> QED BY <2>1, <2>2, <2>3 DEF ConfinedStep
<1> QED BY <1>1, <1>2, <1>3

\* A request of a restricted certificate shows, and changes, only what is of its projects,
\* but for what its own containers reach through their mounts, and a viewer's changes
\* nothing: op_as is enough, although the handlers know of no callers.
THEOREM CertificatesIsolated == Rights!Spec => Isolated
<1>1. Rights!Init => RightsTypeOK
  BY DEF Rights!Init, RightsTypeOK, Rights!Absent
<1>2. RightsTypeOK /\ [Rights!Next]_(Rights!vars) => RightsTypeOK' /\ [ConfinedStep]_(Rights!vars)
  BY RightsTyped, RightsStep DEF Rights!vars, Rights!state, rights
<1>3. Rights!Spec => [][ConfinedStep]_(Rights!vars)
  BY <1>1, <1>2, PTL DEF Rights!Spec
<1> QED BY <1>3, AlwaysShowsOwn, PTL DEF Isolated, Rights!Isolated, Rights!Confined, ConfinedStep, Within
=============================================================================
