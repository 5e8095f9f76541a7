---------------------------- MODULE GatewayProofs ----------------------------
(***************************************************************************)
(* Proofs about the gateway's trust cache and its streams, for every set of *)
(* connections and certificates, every TRUST_TTL and every duration of a    *)
(* lookup.                                                                   *)
(***************************************************************************)
EXTENDS Gateway, TLAPS

Pcs == {"free", "ready", "lookup", "ask", "insert", "call", "enroll", "forget", "opening",
        "stream", "stalled"}

Threads == [pc : Pcs, fp : Fps, kind : Kinds, open : BOOLEAN, answer : BOOLEAN,
            last_trust : 0..(TTL + 1), life : 0..(CutOff + 1), lag : 0..MaxLag]

EntryType == [known : BOOLEAN, caller : BOOLEAN, age : 0..TTL]

\* Every variable has its type.
TypeOK ==
    /\ up \in BOOLEAN /\ trusted \subseteq Fps
    /\ cache \in [Fps -> EntryType]
    /\ conn \in [Conns -> Threads]
    /\ revoked \in [Fps -> 0..(CutOff + 1)]
    /\ outage \in 0..(Recently + 1)
    /\ told \subseteq Fps /\ raced \subseteq Fps

\* Which threads have a stream, and whose clocks run.
Shape(r) ==
    /\ r.pc \in {"stream", "stalled"} => r.open
    /\ r.open => r.pc \in {"stream", "stalled", "lookup", "ask", "insert"}
    /\ r.open \/ r.pc = "opening" => r.kind # "enroll"
    /\ ~Hurried(r) => r.lag = 0
    /\ ~r.open => r.last_trust = 0 /\ r.life = 0
    /\ r.open /\ Hurried(r) => r.last_trust = r.lag \/ r.last_trust > TTL

\* A positive answer that is n ticks old at most is explained: the certificate is
\* trusted, or was removed since.
Vouched(f, n) == f \in trusted \/ revoked[f] <= n

\* A negative answer that is n ticks old at most is explained: the client was told
\* nothing yet, or the daemon was away since, or the answer raced the enrollment.
Excused(f, n) == f \in told => outage <= n \/ f \in raced

\* What a thread is about to write into the cache.
Answered(r) ==
    r.pc = "insert" =>
        (r.answer => Vouched(r.fp, r.lag)) /\ (~r.answer => Excused(r.fp, r.lag))

\* An entry of the cache: the answer was on its way for MaxLag at most.
EntryOK(f) ==
    cache[f].known /\ cache[f].age < TTL =>
        /\ cache[f].caller => Vouched(f, cache[f].age + MaxLag)
        /\ ~cache[f].caller => Excused(f, cache[f].age + MaxLag)

\* A stream that is looked up again finds no entry of before its own forgetting.
Rechecked(r) == r.open /\ r.pc = "lookup" /\ cache[r.fp].known => cache[r.fp].age <= r.lag

\* A stream is due for a check, or was never checked, or a check found it trusted.
Checked(r) ==
    r.pc \in {"stream", "stalled"} =>
        r.last_trust > TTL \/ r.life = r.last_trust \/ Vouched(r.fp, r.last_trust + MaxLag)

ThreadOK(r) == Shape(r) /\ Answered(r) /\ Rechecked(r) /\ Checked(r)

\* The properties alone say nothing of answers that are still on their way to the
\* cache, by which they can be broken later.
GatewayInv ==
    /\ TypeOK
    /\ told \subseteq trusted /\ (~up => outage = 0)
    /\ \A f \in Fps : EntryOK(f)
    /\ \A c \in Conns : ThreadOK(conn[c])

-----------------------------------------------------------------------------
(* Threads.                                                                *)

\* Nothing runs in a connection that is free.
LEMMA FreeOK == Free \in Threads /\ ThreadOK(Free)
<1>1. (CHOOSE f \in Fps : TRUE) \in Fps /\ (CHOOSE k \in Kinds : TRUE) \in Kinds
  BY GatewayAssumption
<1>2. Free \in Threads
  BY <1>1, GatewayAssumption DEF Free, Threads, Pcs, CutOff
<1> QED
  BY <1>2 DEF Free, ThreadOK, Shape, Answered, Rechecked, Checked, Hurried

\* A thread goes to another place.
LEMMA WithPc ==
    ASSUME NEW r \in Threads, NEW p \in Pcs
    PROVE  LET n == [r EXCEPT !.pc = p]
           IN  /\ n \in Threads /\ n.pc = p
               /\ n.fp = r.fp /\ n.kind = r.kind /\ n.open = r.open /\ n.answer = r.answer
               /\ n.last_trust = r.last_trust /\ n.life = r.life /\ n.lag = r.lag
  BY DEF Threads

\* A thread gets a request.
LEMMA WithKind ==
    ASSUME NEW r \in Threads, NEW k \in Kinds
    PROVE  LET n == [r EXCEPT !.kind = k]
           IN  /\ n \in Threads /\ n.kind = k
               /\ n.pc = r.pc /\ n.fp = r.fp /\ n.open = r.open /\ n.answer = r.answer
               /\ n.last_trust = r.last_trust /\ n.life = r.life /\ n.lag = r.lag
  BY DEF Threads

\* A thread opens its stream.
LEMMA WithOpen ==
    ASSUME NEW r \in Threads, NEW b \in BOOLEAN
    PROVE  LET n == [r EXCEPT !.open = b]
           IN  /\ n \in Threads /\ n.open = b
               /\ n.pc = r.pc /\ n.fp = r.fp /\ n.kind = r.kind /\ n.answer = r.answer
               /\ n.last_trust = r.last_trust /\ n.life = r.life /\ n.lag = r.lag
  BY DEF Threads

\* A thread gets an answer.
LEMMA WithAnswer ==
    ASSUME NEW r \in Threads, NEW b \in BOOLEAN
    PROVE  LET n == [r EXCEPT !.answer = b]
           IN  /\ n \in Threads /\ n.answer = b
               /\ n.pc = r.pc /\ n.fp = r.fp /\ n.kind = r.kind /\ n.open = r.open
               /\ n.last_trust = r.last_trust /\ n.life = r.life /\ n.lag = r.lag
  BY DEF Threads

\* The clock of the last check is set.
LEMMA WithTrust ==
    ASSUME NEW r \in Threads, NEW k \in 0..(TTL + 1)
    PROVE  LET n == [r EXCEPT !.last_trust = k]
           IN  /\ n \in Threads /\ n.last_trust = k
               /\ n.pc = r.pc /\ n.fp = r.fp /\ n.kind = r.kind /\ n.open = r.open
               /\ n.answer = r.answer /\ n.life = r.life /\ n.lag = r.lag
  BY DEF Threads

\* The clock of the stream is set.
LEMMA WithLife ==
    ASSUME NEW r \in Threads, NEW k \in 0..(CutOff + 1)
    PROVE  LET n == [r EXCEPT !.life = k]
           IN  /\ n \in Threads /\ n.life = k
               /\ n.pc = r.pc /\ n.fp = r.fp /\ n.kind = r.kind /\ n.open = r.open
               /\ n.answer = r.answer /\ n.last_trust = r.last_trust /\ n.lag = r.lag
  BY DEF Threads

\* The clock of the lookup is set.
LEMMA WithLag ==
    ASSUME NEW r \in Threads, NEW k \in 0..MaxLag
    PROVE  LET n == [r EXCEPT !.lag = k]
           IN  /\ n \in Threads /\ n.lag = k
               /\ n.pc = r.pc /\ n.fp = r.fp /\ n.kind = r.kind /\ n.open = r.open
               /\ n.answer = r.answer /\ n.last_trust = r.last_trust /\ n.life = r.life
  BY DEF Threads

\* The client shows its certificate.
LEMMA WithFp ==
    ASSUME NEW r \in Threads, NEW f \in Fps
    PROVE  LET n == [r EXCEPT !.fp = f]
           IN  /\ n \in Threads /\ n.fp = f
               /\ n.pc = r.pc /\ n.kind = r.kind /\ n.open = r.open /\ n.answer = r.answer
               /\ n.last_trust = r.last_trust /\ n.life = r.life /\ n.lag = r.lag
  BY DEF Threads

\* A thread that moves on without touching what the threads share.
LEMMA Moves ==
    ASSUME GatewayInv, NEW c \in Conns, NEW r \in Threads, ThreadOK(r), Go(c, r),
           UNCHANGED <<up, trusted, cache, revoked, outage, told, raced>>
    PROVE  GatewayInv'
<1>1. conn' = [conn EXCEPT ![c] = r] /\ conn \in [Conns -> Threads]
  BY DEF Go, GatewayInv, TypeOK
<1>2. conn' \in [Conns -> Threads] /\ \A d \in Conns : conn'[d] = IF d = c THEN r ELSE conn[d]
  BY <1>1
<1>3. TypeOK'
  BY <1>2 DEF GatewayInv, TypeOK
<1>4. ASSUME NEW s, ThreadOK(s)
      PROVE  ThreadOK(s)'
  BY <1>4 DEF ThreadOK, Shape, Answered, Rechecked, Checked, Hurried, Vouched, Excused
<1>5. \A d \in Conns : ThreadOK(conn[d])'
  BY <1>2, <1>4 DEF GatewayInv
<1>6. \A f \in Fps : EntryOK(f)'
  BY DEF GatewayInv, EntryOK, Vouched, Excused
<1> QED
  BY <1>3, <1>5, <1>6 DEF GatewayInv

\* Another thread, the daemon or its administrator acts: answers stay explained, and
\* an entry of the cache is kept, forgotten or replaced by a new one.
LEMMA Bystander ==
    ASSUME NEW r \in Threads, ThreadOK(r),
           \A n \in Nat : Vouched(r.fp, n) => Vouched(r.fp, n)',
           r.pc = "insert" /\ ~r.answer => (Excused(r.fp, r.lag) => Excused(r.fp, r.lag)'),
           \/ cache'[r.fp] = cache[r.fp]
           \/ ~cache'[r.fp].known
           \/ cache'[r.fp].age = 0
    PROVE  ThreadOK(r)'
<1>1. r.lag \in Nat /\ r.last_trust + MaxLag \in Nat
  BY GatewayAssumption DEF Threads
<1>2. Shape(r)' /\ Answered(r)'
  BY <1>1 DEF ThreadOK, Shape, Hurried, Answered
<1>3. Rechecked(r)'
  BY <1>1 DEF ThreadOK, Rechecked
<1>4. Checked(r)'
  BY <1>1 DEF ThreadOK, Checked
<1> QED BY <1>2, <1>3, <1>4 DEF ThreadOK

\* After a lookup: a stream goes on only with an answer that is explained.
LEMMA DecidedOK ==
    ASSUME NEW r \in Threads, ThreadOK(r), r.pc \in {"lookup", "insert"}, NEW a \in BOOLEAN,
           r.open /\ a => r.last_trust > TTL \/ Vouched(r.fp, r.last_trust + MaxLag)
    PROVE  Decided(r, a) \in Threads /\ ThreadOK(Decided(r, a))
<1> DEFINE q == [r EXCEPT !.lag = 0]
           t == [q EXCEPT !.answer = FALSE]
           s(pc) == [t EXCEPT !.pc = pc]
<1>1. ASSUME NEW pc \in {"enroll", "stream", "call", "opening"}
      PROVE  /\ s(pc) \in Threads /\ s(pc).pc = pc /\ s(pc).lag = 0 /\ s(pc).open = r.open
             /\ s(pc).fp = r.fp /\ s(pc).last_trust = r.last_trust /\ s(pc).life = r.life
             /\ s(pc).kind = r.kind
  <2>1. 0 \in 0..MaxLag /\ FALSE \in BOOLEAN /\ pc \in Pcs
    BY GatewayAssumption DEF Pcs
  <2>2. /\ q \in Threads /\ q.lag = 0 /\ q.open = r.open /\ q.fp = r.fp /\ q.kind = r.kind
        /\ q.last_trust = r.last_trust /\ q.life = r.life
    BY <2>1, WithLag
  <2> HIDE DEF q
  <2>3. /\ t \in Threads /\ t.lag = 0 /\ t.open = r.open /\ t.fp = r.fp /\ t.kind = r.kind
        /\ t.last_trust = r.last_trust /\ t.life = r.life
    BY <2>1, <2>2, WithAnswer
  <2> HIDE DEF t
  <2> QED BY <2>1, <2>3, WithPc
<1>2. Decided(r, a) = IF r.kind = "enroll" THEN s("enroll")
                      ELSE IF ~a THEN Free
                      ELSE IF r.open THEN s("stream")
                      ELSE IF r.kind = "call" THEN s("call") ELSE s("opening")
  BY Zenon DEF Decided
<1> HIDE DEF s
<1>3. ~r.open => /\ ThreadOK(s("enroll")) /\ ThreadOK(s("call"))
                 /\ r.kind # "enroll" => ThreadOK(s("opening"))
  BY <1>1 DEF ThreadOK, Shape, Answered, Rechecked, Checked, Hurried
<1>4. r.open /\ a => ThreadOK(s("stream"))
  BY <1>1 DEF ThreadOK, Shape, Answered, Rechecked, Checked, Hurried
<1>5. r.open => r.kind # "enroll"
  BY DEF ThreadOK, Shape
<1> QED BY <1>1, <1>2, <1>3, <1>4, <1>5, FreeOK

-----------------------------------------------------------------------------
(* One lemma per kind of step.                                             *)

\* Requests, refusals and the turns of a stream move one thread only.
LEMMA RequestsKeep ==
    ASSUME GatewayInv, NEW c \in Conns, NEW f \in Fps, NEW k \in Kinds,
           Accept(c, f) \/ Close(c) \/ Request(c, k) \/ CallDone(c) \/ EnrollFails(c)
    PROVE  GatewayInv'
<1> DEFINE r == conn[c]
<1>1. r \in Threads /\ ThreadOK(r) /\ {"ready", "lookup", "enroll"} \subseteq Pcs
  BY DEF GatewayInv, TypeOK, Pcs
<1>2. UNCHANGED <<up, trusted, cache, revoked, outage, told, raced>>
  BY DEF Accept, Close, Request, CallDone, EnrollFails
<1>3. ASSUME NEW g \in Fps
      PROVE  LET s == [[Free EXCEPT !.pc = "ready"] EXCEPT !.fp = g] IN s \in Threads /\ ThreadOK(s)
  <2> DEFINE q == [Free EXCEPT !.pc = "ready"]
             s == [q EXCEPT !.fp = g]
  <2>1. q \in Threads /\ q.pc = "ready" /\ q.open = FALSE /\ q.last_trust = 0 /\ q.life = 0 /\ q.lag = 0
    BY <1>1, FreeOK, WithPc DEF Free
  <2> HIDE DEF q
  <2>2. s \in Threads /\ s.pc = "ready" /\ s.open = FALSE /\ s.last_trust = 0 /\ s.life = 0 /\ s.lag = 0
    BY <2>1, WithFp
  <2> HIDE DEF s
  <2>3. ThreadOK(s)
    BY <2>2 DEF ThreadOK, Shape, Answered, Rechecked, Checked, Hurried
  <2> QED BY <2>2, <2>3 DEF s, q
<1>4. CASE Accept(c, f)
  BY <1>2, <1>3, <1>4, Moves DEF Accept
<1>5. CASE Close(c)
  BY <1>2, <1>5, FreeOK, Moves DEF Close
<1>6. CASE Request(c, k)
  <2> DEFINE q == [r EXCEPT !.pc = "lookup"]
             s == [q EXCEPT !.kind = k]
  <2>1. ~r.open /\ r.last_trust = 0 /\ r.life = 0
    BY <1>1, <1>6 DEF Request, ThreadOK, Shape
  <2>2. q \in Threads /\ q.pc = "lookup" /\ q.open = r.open /\ q.last_trust = 0 /\ q.life = 0
    BY <1>1, <2>1, WithPc
  <2> HIDE DEF q
  <2>3. s \in Threads /\ s.pc = "lookup" /\ s.open = r.open /\ s.last_trust = 0 /\ s.life = 0
    BY <2>2, WithKind
  <2> HIDE DEF s
  <2>4. ThreadOK(s)
    BY <2>1, <2>3 DEF ThreadOK, Shape, Answered, Rechecked, Checked, Hurried
  <2>5. Go(c, s)
    BY <1>6 DEF Request, s, q
  <2> QED BY <1>2, <2>3, <2>4, <2>5, Moves
<1>7. CASE CallDone(c)
  <2>1. r.fp \in Fps
    BY <1>1 DEF Threads
  <2> QED BY <1>2, <1>3, <1>7, <2>1, Moves DEF CallDone
<1>8. CASE EnrollFails(c)
  <2> DEFINE s == [r EXCEPT !.pc = "ready"]
  <2>1. ~r.open /\ r.last_trust = 0 /\ r.life = 0 /\ r.lag = 0
    BY <1>1, <1>8 DEF EnrollFails, ThreadOK, Shape, Hurried
  <2>2. s \in Threads /\ s.pc = "ready" /\ s.open = r.open /\ s.last_trust = 0 /\ s.life = 0 /\ s.lag = 0
    BY <1>1, <2>1, WithPc
  <2> HIDE DEF s
  <2>3. ThreadOK(s)
    BY <2>1, <2>2 DEF ThreadOK, Shape, Answered, Rechecked, Checked, Hurried
  <2>4. Go(c, s)
    BY <1>8 DEF EnrollFails, s
  <2> QED BY <1>2, <2>2, <2>3, <2>4, Moves
<1> QED BY <1>4, <1>5, <1>6, <1>7, <1>8

\* A hit answers as the entry says; a stream that checks finds an entry that was
\* written after its check began.
LEMMA HitExplained ==
    ASSUME GatewayInv, NEW c \in Conns, LookupHit(c)
    PROVE  /\ cache[conn[c].fp].caller \in BOOLEAN
           /\ cache[conn[c].fp].caller => Vouched(conn[c].fp, Recently)
           /\ ~cache[conn[c].fp].caller => Excused(conn[c].fp, Recently)
           /\ conn[c].open /\ cache[conn[c].fp].caller =>
                conn[c].last_trust > TTL \/ Vouched(conn[c].fp, conn[c].last_trust + MaxLag)
<1> DEFINE r == conn[c]
           e == cache[r.fp]
<1>1. r \in Threads /\ ThreadOK(r)
  BY DEF GatewayInv, TypeOK
<1>2. r.fp \in Fps /\ r.lag \in Nat /\ r.last_trust \in Nat
  BY <1>1, GatewayAssumption DEF Threads
<1>3. e.known /\ e.age < TTL /\ r.pc = "lookup"
  BY DEF LookupHit, Valid
<1>4. e \in EntryType /\ EntryOK(r.fp)
  BY <1>2 DEF GatewayInv, TypeOK
<1>5. e.age \in Nat /\ e.caller \in BOOLEAN
  BY <1>4, GatewayAssumption DEF EntryType
<1>6. (e.caller => Vouched(r.fp, e.age + MaxLag)) /\ (~e.caller => Excused(r.fp, e.age + MaxLag))
  BY <1>3, <1>4 DEF EntryOK
<1>7. revoked[r.fp] \in Nat /\ outage \in Nat
  BY <1>2, GatewayAssumption DEF GatewayInv, TypeOK, CutOff, Recently
<1>8. \A n \in Nat : e.age + MaxLag <= n => /\ Vouched(r.fp, e.age + MaxLag) => Vouched(r.fp, n)
                                            /\ Excused(r.fp, e.age + MaxLag) => Excused(r.fp, n)
  BY <1>5, <1>7, GatewayAssumption DEF Vouched, Excused
<1>9. Recently \in Nat /\ e.age + MaxLag <= Recently
  BY <1>3, <1>5, GatewayAssumption DEF Recently
<1>10. r.open => /\ e.age + MaxLag <= r.lag + MaxLag
                 /\ r.last_trust = r.lag \/ r.last_trust > TTL
  BY <1>1, <1>2, <1>3, <1>5, GatewayAssumption DEF ThreadOK, Rechecked, Shape, Hurried
<1>11. r.lag + MaxLag \in Nat
  BY <1>2, GatewayAssumption
<1> HIDE DEF e, r
<1>12. r.open /\ e.caller => r.last_trust > TTL \/ Vouched(r.fp, r.last_trust + MaxLag)
  BY <1>6, <1>8, <1>10, <1>11
<1>13. (e.caller => Vouched(r.fp, Recently)) /\ (~e.caller => Excused(r.fp, Recently))
  BY <1>6, <1>8, <1>9
<1> QED BY <1>5, <1>12, <1>13 DEF e, r

\* A lookup that hits, misses or asks moves its own thread only.
LEMMA LookupKeeps ==
    ASSUME GatewayInv, NEW c \in Conns, LookupHit(c) \/ LookupMiss(c) \/ Ask(c)
    PROVE  GatewayInv'
<1> DEFINE r == conn[c]
<1>1. r \in Threads /\ ThreadOK(r) /\ {"ask", "insert"} \subseteq Pcs
  BY DEF GatewayInv, TypeOK, Pcs
<1>2. UNCHANGED <<up, trusted, cache, revoked, outage, told, raced>>
  BY DEF LookupHit, LookupMiss, Ask
<1>3. CASE LookupHit(c)
  <2>1. r.pc \in {"lookup", "insert"}
    BY <1>3 DEF LookupHit
  <2>2. LET s == Decided(r, cache[r.fp].caller) IN s \in Threads /\ ThreadOK(s)
    BY <1>1, <1>3, <2>1, HitExplained, DecidedOK
  <2> QED BY <1>2, <1>3, <2>2, Moves DEF LookupHit
<1>4. CASE LookupMiss(c)
  <2> DEFINE s == [r EXCEPT !.pc = "ask"]
  <2>1. r.pc = "lookup"
    BY <1>4 DEF LookupMiss
  <2>2. /\ s \in Threads /\ s.pc = "ask" /\ s.open = r.open /\ s.kind = r.kind /\ s.lag = r.lag
        /\ s.last_trust = r.last_trust /\ s.life = r.life
    BY <1>1, WithPc
  <2> HIDE DEF s
  <2>3. ThreadOK(s)
    BY <1>1, <2>1, <2>2 DEF ThreadOK, Shape, Answered, Rechecked, Checked, Hurried
  <2>4. Go(c, s)
    BY <1>4 DEF LookupMiss, s
  <2> QED BY <1>2, <2>2, <2>3, <2>4, Moves
<1>5. CASE Ask(c)
  <2> DEFINE b == up /\ r.fp \in trusted
             q == [r EXCEPT !.pc = "insert"]
             s == [q EXCEPT !.answer = b]
  <2>1. r.pc = "ask" /\ b \in BOOLEAN
    BY <1>5 DEF Ask, GatewayInv, TypeOK
  <2>2. r.fp \in Fps /\ r.lag \in Nat
    BY <1>1, GatewayAssumption DEF Threads
  <2>3. (b => Vouched(r.fp, r.lag)) /\ (~b => Excused(r.fp, r.lag))
    <3>1. b => Vouched(r.fp, r.lag)
      BY DEF Vouched
    <3>2. ~up => outage <= r.lag
      BY <2>2 DEF GatewayInv
    <3>3. r.fp \notin trusted => r.fp \notin told
      BY DEF GatewayInv
    <3> QED BY <3>1, <3>2, <3>3 DEF Excused
  <2> HIDE DEF b
  <2>4. /\ q \in Threads /\ q.pc = "insert" /\ q.open = r.open /\ q.kind = r.kind /\ q.lag = r.lag
        /\ q.last_trust = r.last_trust /\ q.life = r.life /\ q.fp = r.fp
    BY <1>1, WithPc
  <2> HIDE DEF q
  <2>5. /\ s \in Threads /\ s.pc = "insert" /\ s.open = r.open /\ s.kind = r.kind /\ s.lag = r.lag
        /\ s.last_trust = r.last_trust /\ s.life = r.life /\ s.answer = b /\ s.fp = r.fp
    BY <2>1, <2>4, WithAnswer
  <2> HIDE DEF s
  <2>6. Shape(s) /\ Rechecked(s) /\ Checked(s)
    BY <1>1, <2>1, <2>5 DEF ThreadOK, Shape, Rechecked, Checked, Hurried
  <2>7. Answered(s)
    BY <2>3, <2>5 DEF Answered
  <2>8. Go(c, s)
    BY <1>5 DEF Ask, s, q, b
  <2> QED BY <1>2, <2>5, <2>6, <2>7, <2>8, Moves DEF ThreadOK
<1> QED BY <1>3, <1>4, <1>5

\* The turns of a stream.
LEMMA StreamsKeep ==
    ASSUME GatewayInv, NEW c \in Conns, Opened(c) \/ Stall(c) \/ Resume(c)
    PROVE  GatewayInv'
<1> DEFINE r == conn[c]
<1>1. r \in Threads /\ ThreadOK(r) /\ {"stream", "stalled"} \subseteq Pcs
  BY DEF GatewayInv, TypeOK, Pcs
<1>2. UNCHANGED <<up, trusted, cache, revoked, outage, told, raced>>
  BY DEF Opened, Stall, Resume
<1>3. CASE Opened(c)
  <2> DEFINE q == [r EXCEPT !.pc = "stream"]
             s == [q EXCEPT !.open = TRUE]
  <2>1. ~r.open /\ r.last_trust = 0 /\ r.life = 0 /\ r.lag = 0 /\ r.kind # "enroll"
    BY <1>1, <1>3 DEF Opened, ThreadOK, Shape, Hurried
  <2>2. q \in Threads /\ q.pc = "stream" /\ q.kind = r.kind /\ q.last_trust = 0 /\ q.life = 0 /\ q.lag = 0
    BY <1>1, <2>1, WithPc
  <2> HIDE DEF q
  <2>3. /\ s \in Threads /\ s.pc = "stream" /\ s.open = TRUE /\ s.kind = r.kind
        /\ s.last_trust = 0 /\ s.life = 0 /\ s.lag = 0
    BY <2>2, WithOpen
  <2> HIDE DEF s
  <2>4. ThreadOK(s)
    BY <2>1, <2>3 DEF ThreadOK, Shape, Answered, Rechecked, Checked, Hurried
  <2>5. Go(c, s)
    BY <1>3 DEF Opened, s, q
  <2> QED BY <1>2, <2>3, <2>4, <2>5, Moves
<1>4. ASSUME NEW p \in {"stream", "stalled"}, r.pc \in {"stream", "stalled"}
      PROVE  LET s == [r EXCEPT !.pc = p] IN s \in Threads /\ ThreadOK(s)
  <2> DEFINE s == [r EXCEPT !.pc = p]
  <2>1. /\ s \in Threads /\ s.pc = p /\ s.open = r.open /\ s.kind = r.kind /\ s.lag = r.lag
        /\ s.last_trust = r.last_trust /\ s.life = r.life /\ s.fp = r.fp
    BY <1>1, WithPc
  <2> HIDE DEF s
  <2>2. ThreadOK(s)
    BY <1>1, <1>4, <2>1 DEF ThreadOK, Shape, Answered, Rechecked, Checked, Hurried
  <2> QED BY <2>1, <2>2 DEF s
<1>5. CASE Stall(c)
  BY <1>2, <1>4, <1>5, Moves DEF Stall
<1>6. CASE Resume(c)
  BY <1>2, <1>4, <1>6, Moves DEF Resume
<1> QED BY <1>3, <1>5, <1>6

\* A step that changes what the threads share keeps the invariant when it leaves
\* the answers explained that are in the cache and on their way to it.
LEMMA Shares ==
    ASSUME TypeOK', told' \subseteq trusted', ~up' => outage' = 0,
           \A f \in Fps : EntryOK(f)',
           \A f \in Fps, n \in Nat : Vouched(f, n) => Vouched(f, n)',
           \A f \in Fps : cache'[f] = cache[f] \/ ~cache'[f].known \/ cache'[f].age = 0,
           \A d \in Conns : \E v \in Threads :
               /\ conn'[d] = v
               /\ \/ ThreadOK(v)'
                  \/ ThreadOK(v) /\ (v.pc = "insert" /\ ~v.answer =>
                                       (Excused(v.fp, v.lag) => Excused(v.fp, v.lag)'))
    PROVE  GatewayInv'
<1>1. ASSUME NEW d \in Conns
      PROVE  ThreadOK(conn[d])'
  <2>1. PICK v \in Threads :
               /\ conn'[d] = v
               /\ \/ ThreadOK(v)'
                  \/ ThreadOK(v) /\ (v.pc = "insert" /\ ~v.answer =>
                                       (Excused(v.fp, v.lag) => Excused(v.fp, v.lag)'))
    OBVIOUS
  <2>2. v.fp \in Fps
    BY DEF Threads
  <2>3. CASE ThreadOK(v)'
    BY <2>1, <2>3
  <2>4. CASE ThreadOK(v) /\ (v.pc = "insert" /\ ~v.answer =>
                               (Excused(v.fp, v.lag) => Excused(v.fp, v.lag)'))
    <3>1. ThreadOK(v)'
      BY <2>2, <2>4, Bystander
    <3> QED BY <2>1, <3>1
  <2> QED BY <2>1, <2>3, <2>4
<1> QED BY <1>1 DEF GatewayInv

\* The answer that is written is at most MaxLag old.
LEMMA InsertKeeps ==
    ASSUME GatewayInv, NEW c \in Conns, Insert(c)
    PROVE  GatewayInv'
<1> DEFINE r == conn[c]
           f == r.fp
           s == Decided(r, r.answer)
<1>1. r \in Threads /\ ThreadOK(r) /\ r.pc = "insert"
  BY DEF GatewayInv, TypeOK, Insert
<1>2. f \in Fps /\ r.answer \in BOOLEAN /\ r.lag \in 0..MaxLag /\ r.last_trust \in Nat
  BY <1>1, GatewayAssumption DEF Threads
<1>3. UNCHANGED <<up, trusted, revoked, outage, told, raced>>
  BY DEF Insert
<1>4. (r.answer => Vouched(f, r.lag)) /\ (~r.answer => Excused(f, r.lag))
  BY <1>1 DEF ThreadOK, Answered
<1>5. revoked[f] \in Nat /\ outage \in Nat
  BY <1>2, GatewayAssumption DEF GatewayInv, TypeOK, CutOff, Recently
<1>6. \A n \in Nat : r.lag <= n => /\ Vouched(f, r.lag) => Vouched(f, n)
                                   /\ Excused(f, r.lag) => Excused(f, n)
  BY <1>2, <1>5, GatewayAssumption DEF Vouched, Excused
<1>7. s \in Threads /\ ThreadOK(s) /\ s.pc # "insert"
  <2>1. r.open => r.last_trust = r.lag \/ r.last_trust > TTL
    BY <1>1 DEF ThreadOK, Shape, Hurried
  <2>2. r.lag + MaxLag \in Nat /\ r.lag <= r.lag + MaxLag
    BY <1>2, GatewayAssumption
  <2>3. r.open /\ r.answer => r.last_trust > TTL \/ Vouched(r.fp, r.last_trust + MaxLag)
    BY <1>4, <1>6, <2>1, <2>2
  <2>4. s \in Threads /\ ThreadOK(s)
    BY <1>1, <1>2, <2>3, DecidedOK
  <2>5. s.pc # "insert"
    BY <1>1 DEF Decided, Threads, Free
  <2> QED BY <2>4, <2>5
<1>8. conn' = [conn EXCEPT ![c] = s] /\ conn \in [Conns -> Threads]
  BY DEF Insert, Go, GatewayInv, TypeOK
<1>9. cache' = [cache EXCEPT ![f] = [known |-> TRUE, caller |-> r.answer, age |-> 0]]
  BY DEF Insert
<1> HIDE DEF s
<1>10. cache' \in [Fps -> EntryType] /\ conn' \in [Conns -> Threads]
  <2>1. [known |-> TRUE, caller |-> r.answer, age |-> 0] \in EntryType
    BY <1>2, GatewayAssumption DEF EntryType
  <2> QED BY <1>2, <1>7, <1>8, <1>9, <2>1 DEF GatewayInv, TypeOK
<1>11. \A g \in Fps : /\ g # f => cache'[g] = cache[g]
                      /\ g = f => cache'[g].age = 0 /\ cache'[g].caller = r.answer
  BY <1>9, <1>2 DEF GatewayInv, TypeOK
<1>12. ASSUME NEW g \in Fps
       PROVE  EntryOK(g)'
  <2>1. CASE g = f
    <3>1. MaxLag \in Nat /\ r.lag <= MaxLag /\ 0 + MaxLag = MaxLag
      BY <1>2, GatewayAssumption
    <3>2. (r.answer => Vouched(f, MaxLag)) /\ (~r.answer => Excused(f, MaxLag))
      BY <1>4, <1>6, <3>1
    <3>3. cache'[g].age + MaxLag = MaxLag /\ cache'[g].caller = r.answer
      BY <1>11, <2>1, <3>1
    <3> QED BY <1>3, <2>1, <3>2, <3>3 DEF EntryOK, Vouched, Excused
  <2>2. CASE g # f
    BY <1>3, <1>11, <2>2 DEF GatewayInv, EntryOK, Vouched, Excused
  <2> QED BY <2>1, <2>2
<1>13. ASSUME NEW d \in Conns
       PROVE  \E v \in Threads :
               /\ conn'[d] = v
               /\ \/ ThreadOK(v)'
                  \/ ThreadOK(v) /\ (v.pc = "insert" /\ ~v.answer =>
                                       (Excused(v.fp, v.lag) => Excused(v.fp, v.lag)'))
  <2>1. conn'[d] \in Threads /\ ThreadOK(conn'[d])
    BY <1>7, <1>8 DEF GatewayInv
  <2> QED BY <1>3, <2>1 DEF Excused
<1>14. TypeOK'
  BY <1>3, <1>10 DEF GatewayInv, TypeOK
<1>15. \A g \in Fps, n \in Nat : Vouched(g, n) => Vouched(g, n)'
  BY <1>3 DEF Vouched
<1>16. told' \subseteq trusted' /\ (~up' => outage' = 0)
  BY <1>3 DEF GatewayInv
<1>17. \A g \in Fps : cache'[g] = cache[g] \/ ~cache'[g].known \/ cache'[g].age = 0
  BY <1>11
<1> QED BY <1>12, <1>13, <1>14, <1>15, <1>16, <1>17, Shares

\* still_trusted forgets the entry before it looks the certificate up.
LEMMA RecheckKeeps ==
    ASSUME GatewayInv, NEW c \in Conns, Recheck(c)
    PROVE  GatewayInv'
<1> DEFINE r == conn[c]
           f == r.fp
           q == [r EXCEPT !.pc = "lookup"]
           s == [q EXCEPT !.last_trust = 0]
<1>1. r \in Threads /\ ThreadOK(r) /\ r.pc = "stream"
  BY DEF GatewayInv, TypeOK, Recheck
<1>2. f \in Fps
  BY <1>1 DEF Threads
<1>3. UNCHANGED <<up, trusted, revoked, outage, told, raced>>
  BY DEF Recheck
<1>4. conn' = [conn EXCEPT ![c] = s] /\ conn \in [Conns -> Threads]
  BY DEF Recheck, Go, GatewayInv, TypeOK
<1>5. cache' = [cache EXCEPT ![f] = NoEntry] /\ cache \in [Fps -> EntryType]
  BY DEF Recheck, GatewayInv, TypeOK
<1>6. r.open /\ r.kind # "enroll" /\ r.lag = 0
  BY <1>1 DEF ThreadOK, Shape, Hurried
<1>7. /\ s \in Threads /\ s.pc = "lookup" /\ s.open = r.open /\ s.kind = r.kind /\ s.lag = 0
      /\ s.last_trust = 0 /\ s.fp = f
  <2>1. "lookup" \in Pcs /\ 0 \in 0..(TTL + 1)
    BY GatewayAssumption DEF Pcs
  <2>2. q \in Threads /\ q.pc = "lookup" /\ q.open = r.open /\ q.kind = r.kind /\ q.lag = 0 /\ q.fp = f
    BY <1>1, <1>6, <2>1, WithPc
  <2> HIDE DEF q, f
  <2> QED BY <2>1, <2>2, WithTrust
<1> HIDE DEF s
<1>8. \A g \in Fps : (g # f => cache'[g] = cache[g]) /\ (g = f => cache'[g] = NoEntry)
  BY <1>5
<1>9. ~cache'[f].known
  BY <1>2, <1>8 DEF NoEntry
<1>v. PICK v \in Threads : v = s
  BY <1>7
<1>10. ThreadOK(v)'
  BY <1>6, <1>7, <1>9, <1>v DEF ThreadOK, Shape, Answered, Rechecked, Checked, Hurried
<1>11. TypeOK'
  <2>1. NoEntry \in EntryType
    BY GatewayAssumption DEF NoEntry, EntryType
  <2>2. cache' \in [Fps -> EntryType] /\ conn' \in [Conns -> Threads]
    BY <1>2, <1>4, <1>5, <1>7, <2>1
  <2> QED BY <1>3, <2>2 DEF GatewayInv, TypeOK
<1>12. ASSUME NEW g \in Fps
       PROVE  EntryOK(g)'
  <2>1. CASE g = f
    BY <1>9, <2>1 DEF EntryOK
  <2>2. CASE g # f
    BY <1>3, <1>8, <2>2 DEF GatewayInv, EntryOK, Vouched, Excused
  <2> QED BY <2>1, <2>2
<1>13. ASSUME NEW d \in Conns
       PROVE  \E u \in Threads :
               /\ conn'[d] = u
               /\ \/ ThreadOK(u)'
                  \/ ThreadOK(u) /\ (u.pc = "insert" /\ ~u.answer =>
                                       (Excused(u.fp, u.lag) => Excused(u.fp, u.lag)'))
  <2>1. CASE d = c
    BY <1>4, <1>10, <1>v, <2>1
  <2>2. CASE d # c
    <3>1. conn'[d] = conn[d] /\ conn[d] \in Threads /\ ThreadOK(conn[d])
      BY <1>4, <2>2 DEF GatewayInv
    <3> QED BY <1>3, <3>1 DEF Excused
  <2> QED BY <2>1, <2>2
<1>14. \A g \in Fps, n \in Nat : Vouched(g, n) => Vouched(g, n)'
  BY <1>3 DEF Vouched
<1>15. told' \subseteq trusted' /\ (~up' => outage' = 0)
  BY <1>3 DEF GatewayInv
<1>16. \A g \in Fps : cache'[g] = cache[g] \/ ~cache'[g].known \/ cache'[g].age = 0
  BY <1>8, <1>9
<1> QED BY <1>11, <1>12, <1>13, <1>14, <1>15, <1>16, Shares

\* The answers that are on their way when an enrollment ends race it.
LEMMA ForgetKeeps ==
    ASSUME GatewayInv, NEW c \in Conns, Forget(c)
    PROVE  GatewayInv'
<1> DEFINE r == conn[c]
           f == r.fp
           q == [r EXCEPT !.pc = "ready"]
           s == [q EXCEPT !.lag = 0]
           racing == {d \in Conns : conn[d].fp = f /\ conn[d].pc = "insert" /\ ~conn[d].answer}
<1>1. r \in Threads /\ ThreadOK(r) /\ r.pc = "forget"
  BY DEF GatewayInv, TypeOK, Forget
<1>2. f \in Fps
  BY <1>1 DEF Threads
<1>3. UNCHANGED <<up, trusted, revoked, outage>>
  BY DEF Forget
<1>4. conn' = [conn EXCEPT ![c] = s] /\ conn \in [Conns -> Threads]
  BY DEF Forget, Go, GatewayInv, TypeOK
<1>5. cache' = [cache EXCEPT ![f] = NoEntry] /\ cache \in [Fps -> EntryType]
  BY DEF Forget, GatewayInv, TypeOK
<1>6. /\ told' = told \cup (trusted \cap {f})
      /\ raced' = IF f \in trusted /\ racing # {} THEN raced \cup {f} ELSE raced
  BY DEF Forget
<1>7. ~r.open /\ r.last_trust = 0 /\ r.life = 0
  BY <1>1 DEF ThreadOK, Shape
<1>8. s \in Threads /\ s.pc = "ready" /\ s.open = r.open /\ s.last_trust = 0 /\ s.life = 0 /\ s.lag = 0
  <2>1. "ready" \in Pcs /\ 0 \in 0..MaxLag
    BY GatewayAssumption DEF Pcs
  <2>2. q \in Threads /\ q.pc = "ready" /\ q.open = r.open /\ q.last_trust = 0 /\ q.life = 0
    BY <1>1, <1>7, <2>1, WithPc
  <2> HIDE DEF q
  <2> QED BY <2>1, <2>2, WithLag
<1> HIDE DEF s
<1>v. PICK v \in Threads : v = s
  BY <1>8
<1>9. ThreadOK(v)'
  BY <1>7, <1>8, <1>v DEF ThreadOK, Shape, Answered, Rechecked, Checked, Hurried
<1>10. \A g \in Fps : (g # f => cache'[g] = cache[g]) /\ (g = f => cache'[g] = NoEntry)
  BY <1>5
<1>11. ~cache'[f].known
  BY <1>2, <1>10 DEF NoEntry
<1>12. TypeOK'
  <2>1. NoEntry \in EntryType
    BY GatewayAssumption DEF NoEntry, EntryType
  <2>2. cache' \in [Fps -> EntryType] /\ conn' \in [Conns -> Threads]
    BY <1>2, <1>4, <1>5, <1>8, <2>1
  <2>3. told' \subseteq Fps /\ raced' \subseteq Fps
    BY <1>2, <1>6 DEF GatewayInv, TypeOK
  <2> QED BY <1>3, <2>2, <2>3 DEF GatewayInv, TypeOK
<1>13. \A g, n : (g # f \/ f \in raced') => (Excused(g, n) => Excused(g, n)')
  BY <1>3, <1>6 DEF Excused
<1>14. ASSUME NEW g \in Fps
       PROVE  EntryOK(g)'
  <2>1. CASE g = f
    BY <1>11, <2>1 DEF EntryOK
  <2>2. CASE g # f
    <3>1. EntryOK(g) /\ cache'[g] = cache[g]
      BY <1>10, <2>2 DEF GatewayInv
    <3>2. Excused(g, cache[g].age + MaxLag) => Excused(g, cache[g].age + MaxLag)'
      BY <1>3, <1>6, <2>2, <3>1 DEF Excused
    <3>3. Vouched(g, cache[g].age + MaxLag) => Vouched(g, cache[g].age + MaxLag)'
      BY <1>3, <3>1 DEF Vouched
    <3> QED BY <3>1, <3>2, <3>3 DEF EntryOK
  <2> QED BY <2>1, <2>2
<1>15. ASSUME NEW d \in Conns
       PROVE  \E u \in Threads :
               /\ conn'[d] = u
               /\ \/ ThreadOK(u)'
                  \/ ThreadOK(u) /\ (u.pc = "insert" /\ ~u.answer =>
                                       (Excused(u.fp, u.lag) => Excused(u.fp, u.lag)'))
  <2>1. CASE d = c
    BY <1>4, <1>9, <1>v, <2>1
  <2>2. CASE d # c
    <3>1. PICK u \in Threads : u = conn[d]
      BY <1>4
    <3>2. conn'[d] = u /\ ThreadOK(u)
      BY <1>4, <2>2, <3>1 DEF GatewayInv
    <3>3. u.pc = "insert" /\ ~u.answer => (Excused(u.fp, u.lag) => Excused(u.fp, u.lag)')
      <4> SUFFICES ASSUME u.pc = "insert", ~u.answer, Excused(u.fp, u.lag)
                   PROVE  Excused(u.fp, u.lag)'
        OBVIOUS
      <4>1. CASE u.fp = f
        <5>1. d \in racing
          BY <3>1, <4>1
        <5>2. f \in trusted => f \in raced'
          BY <1>6, <5>1
        <5>3. f \in told' => f \in trusted
          BY <1>6 DEF GatewayInv
        <5> QED BY <4>1, <5>2, <5>3 DEF Excused
      <4>2. CASE u.fp # f
        BY <1>3, <1>6, <4>2 DEF Excused
      <4> QED BY <4>1, <4>2
    <3> QED BY <3>2, <3>3
  <2> QED BY <2>1, <2>2
<1>16. \A g \in Fps, n \in Nat : Vouched(g, n) => Vouched(g, n)'
  BY <1>3 DEF Vouched
<1>17. told' \subseteq trusted' /\ (~up' => outage' = 0)
  BY <1>3, <1>6 DEF GatewayInv
<1>18. \A g \in Fps : cache'[g] = cache[g] \/ ~cache'[g].known \/ cache'[g].age = 0
  BY <1>10, <1>11
<1> QED BY <1>12, <1>14, <1>15, <1>16, <1>17, <1>18, Shares

\* The administrator adds or removes a certificate, or the daemon stops or starts.
LEMMA DaemonKeeps ==
    ASSUME GatewayInv, NEW f \in Fps,
           TrustAdd(f) \/ TrustRemove(f) \/ DaemonStops \/ DaemonStarts
    PROVE  GatewayInv'
<1>1. /\ cache' = cache /\ conn' = conn
      /\ \A g \in Fps : g \in trusted => g \in trusted' \/ revoked'[g] = 0
      /\ \A g \in Fps : revoked'[g] = revoked[g] \/ revoked'[g] = 0
      /\ outage' = outage \/ outage' = 0
      /\ \A g \in told' : g \in told /\ (g \in raced => g \in raced')
  BY DEF TrustAdd, TrustRemove, DaemonStops, DaemonStarts, GatewayInv, TypeOK
<1>2. TypeOK'
  <2>1. 0 \in 0..(CutOff + 1) /\ 0 \in 0..(Recently + 1)
    BY GatewayAssumption DEF CutOff, Recently
  <2>2. CASE TrustAdd(f)
    BY <2>2 DEF GatewayInv, TypeOK, TrustAdd
  <2>3. CASE TrustRemove(f)
    BY <2>1, <2>3 DEF GatewayInv, TypeOK, TrustRemove
  <2>4. CASE DaemonStops
    BY <2>1, <2>4 DEF GatewayInv, TypeOK, DaemonStops
  <2>5. CASE DaemonStarts
    BY <2>5 DEF GatewayInv, TypeOK, DaemonStarts
  <2> QED BY <2>2, <2>3, <2>4, <2>5
<1>3. told' \subseteq trusted' /\ (~up' => outage' = 0)
  BY DEF TrustAdd, TrustRemove, DaemonStops, DaemonStarts, GatewayInv
<1>4. \A g \in Fps, n \in Nat : Vouched(g, n) => Vouched(g, n)'
  BY <1>1 DEF Vouched
<1>5. \A g \in Fps, n \in Nat : Excused(g, n) => Excused(g, n)'
  BY <1>1 DEF Excused
<1>6. ASSUME NEW g \in Fps
      PROVE  EntryOK(g)'
  <2>1. EntryOK(g) /\ cache[g] \in EntryType
    BY DEF GatewayInv, TypeOK
  <2>2. cache[g].age + MaxLag \in Nat
    BY <2>1, GatewayAssumption DEF EntryType
  <2>3. PICK n \in Nat : n = cache[g].age + MaxLag
    BY <2>2
  <2>4. (Vouched(g, n) => Vouched(g, n)') /\ (Excused(g, n) => Excused(g, n)')
    BY <1>4, <1>5
  <2> QED BY <1>1, <2>1, <2>3, <2>4 DEF EntryOK
<1>7. ASSUME NEW d \in Conns
      PROVE  \E u \in Threads :
               /\ conn'[d] = u
               /\ \/ ThreadOK(u)'
                  \/ ThreadOK(u) /\ (u.pc = "insert" /\ ~u.answer =>
                                       (Excused(u.fp, u.lag) => Excused(u.fp, u.lag)'))
  <2>1. PICK u \in Threads : u = conn[d]
    BY DEF GatewayInv, TypeOK
  <2>2. conn'[d] = u /\ ThreadOK(u)
    BY <1>1, <2>1 DEF GatewayInv
  <2>3. u.fp \in Fps /\ u.lag \in Nat
    BY GatewayAssumption DEF Threads
  <2> QED BY <1>5, <2>2, <2>3
<1> QED BY <1>1, <1>2, <1>3, <1>4, <1>6, <1>7, Shares

\* An enrollment adds a certificate, and forgets its entry later.
LEMMA EnrollKeeps ==
    ASSUME GatewayInv, NEW c \in Conns, EnrollOk(c)
    PROVE  GatewayInv'
<1> DEFINE r == conn[c]
           s == [r EXCEPT !.pc = "forget"]
<1>1. r \in Threads /\ ThreadOK(r) /\ r.pc = "enroll" /\ "forget" \in Pcs
  BY DEF GatewayInv, TypeOK, EnrollOk, Pcs
<1>2. UNCHANGED <<up, cache, revoked, outage, told, raced>> /\ trusted' = trusted \cup {r.fp}
  BY DEF EnrollOk
<1>3. ~r.open /\ r.last_trust = 0 /\ r.life = 0 /\ r.lag = 0 /\ r.fp \in Fps
  BY <1>1 DEF ThreadOK, Shape, Hurried, Threads
<1>4. s \in Threads /\ s.pc = "forget" /\ s.open = r.open /\ s.last_trust = 0 /\ s.life = 0 /\ s.lag = 0
  BY <1>1, <1>3, WithPc
<1>5. conn' = [conn EXCEPT ![c] = s] /\ conn \in [Conns -> Threads]
  BY DEF EnrollOk, Go, GatewayInv, TypeOK
<1> HIDE DEF s
<1>6. ThreadOK(s)
  BY <1>3, <1>4 DEF ThreadOK, Shape, Answered, Rechecked, Checked, Hurried
<1>7. TypeOK'
  <2>1. conn' \in [Conns -> Threads] /\ trusted' \subseteq Fps
    BY <1>2, <1>3, <1>4, <1>5 DEF GatewayInv, TypeOK
  <2> QED BY <1>2, <2>1 DEF GatewayInv, TypeOK
<1>8. told' \subseteq trusted' /\ (~up' => outage' = 0)
  BY <1>2 DEF GatewayInv
<1>9. \A g \in Fps : EntryOK(g)'
  BY <1>2 DEF GatewayInv, EntryOK, Vouched, Excused
<1>10. \A g \in Fps, n \in Nat : Vouched(g, n) => Vouched(g, n)'
  BY <1>2 DEF Vouched
<1>11. ASSUME NEW d \in Conns
       PROVE  \E u \in Threads :
               /\ conn'[d] = u
               /\ \/ ThreadOK(u)'
                  \/ ThreadOK(u) /\ (u.pc = "insert" /\ ~u.answer =>
                                       (Excused(u.fp, u.lag) => Excused(u.fp, u.lag)'))
  <2>1. conn'[d] \in Threads /\ ThreadOK(conn'[d])
    BY <1>4, <1>5, <1>6 DEF GatewayInv
  <2> QED BY <1>2, <2>1 DEF Excused
<1> QED BY <1>2, <1>7, <1>8, <1>9, <1>10, <1>11, Shares

-----------------------------------------------------------------------------
(* Time.                                                                   *)

\* What a tick does to the clocks of a thread.
LEMMA AgedFields ==
    ASSUME NEW r \in Threads, Hurried(r) => r.lag < MaxLag
    PROVE  LET v == Aged(r)
           IN  /\ v \in Threads
               /\ v.pc = r.pc /\ v.fp = r.fp /\ v.kind = r.kind /\ v.open = r.open /\ v.answer = r.answer
               /\ v.last_trust = IF r.open THEN Later(r.last_trust, TTL + 1) ELSE 0
               /\ v.life = IF r.open THEN Later(r.life, CutOff + 1) ELSE 0
               /\ v.lag = IF Hurried(r) THEN r.lag + 1 ELSE 0
<1> DEFINE x == IF r.open THEN Later(r.last_trust, TTL + 1) ELSE 0
           y == IF r.open THEN Later(r.life, CutOff + 1) ELSE 0
           z == IF Hurried(r) THEN r.lag + 1 ELSE 0
           p == [r EXCEPT !.last_trust = x]
           q == [p EXCEPT !.life = y]
           v == [q EXCEPT !.lag = z]
<1>1. x \in 0..(TTL + 1) /\ y \in 0..(CutOff + 1) /\ z \in 0..MaxLag
  BY GatewayAssumption DEF Threads, Later, CutOff
<1>2. Aged(r) = v
  BY DEF Aged, Threads
<1> HIDE DEF x, y, z
<1>3. /\ p \in Threads /\ p.last_trust = x
      /\ p.pc = r.pc /\ p.fp = r.fp /\ p.kind = r.kind /\ p.open = r.open /\ p.answer = r.answer
  BY <1>1, WithTrust
<1> HIDE DEF p
<1>4. /\ q \in Threads /\ q.last_trust = x /\ q.life = y
      /\ q.pc = r.pc /\ q.fp = r.fp /\ q.kind = r.kind /\ q.open = r.open /\ q.answer = r.answer
  BY <1>1, <1>3, WithLife
<1> HIDE DEF q
<1>5. /\ v \in Threads /\ v.last_trust = x /\ v.life = y /\ v.lag = z
      /\ v.pc = r.pc /\ v.fp = r.fp /\ v.kind = r.kind /\ v.open = r.open /\ v.answer = r.answer
  BY <1>1, <1>4, WithLag
<1> QED BY <1>2, <1>5 DEF x, y, z

\* A tick makes every answer and every clock that runs one older.
LEMMA TickKeeps ==
    ASSUME GatewayInv, Tick
    PROVE  GatewayInv'
<1>0. /\ UNCHANGED <<up, trusted, told, raced>>
      /\ revoked' = [f \in Fps |-> Later(revoked[f], CutOff + 1)]
      /\ outage' = IF up THEN Later(outage, Recently + 1) ELSE 0
      /\ cache' = [f \in Fps |-> IF cache[f].known
                                 THEN [cache[f] EXCEPT !.age = Later(@, TTL)] ELSE cache[f]]
      /\ conn' = [c \in Conns |-> IF conn[c].pc = "free" THEN conn[c] ELSE Aged(conn[c])]
      /\ \A c \in Conns : Hurried(conn[c]) => conn[c].lag < MaxLag
  BY DEF Tick
<1>1. TTL \in Nat /\ MaxLag \in Nat /\ CutOff \in Nat /\ Recently \in Nat /\ TTL <= CutOff
  BY GatewayAssumption DEF CutOff, Recently
<1>2. ASSUME NEW f \in Fps, NEW n \in Nat
      PROVE  (Vouched(f, n) => Vouched(f, n + 1)') /\ (Excused(f, n) => Excused(f, n + 1)')
  <2>1. revoked[f] \in 0..(CutOff + 1) /\ revoked'[f] = Later(revoked[f], CutOff + 1) /\ outage \in 0..(Recently + 1)
    BY <1>0 DEF GatewayInv, TypeOK
  <2>2. revoked[f] <= n => revoked'[f] <= n + 1
    BY <1>1, <2>1 DEF Later
  <2>3. outage <= n => outage' <= n + 1
    BY <1>0, <1>1, <2>1 DEF Later
  <2> QED BY <1>0, <2>2, <2>3 DEF Vouched, Excused
<1>3. ASSUME NEW f \in Fps
      PROVE  /\ cache'[f] \in EntryType /\ cache'[f].known = cache[f].known /\ cache'[f].caller = cache[f].caller
             /\ cache[f].known => cache'[f].age = Later(cache[f].age, TTL)
             /\ cache[f].age \in 0..TTL /\ cache'[f].age \in 0..TTL
  <2>1. cache[f] \in EntryType
    BY DEF GatewayInv, TypeOK
  <2>2. cache'[f] = IF cache[f].known THEN [cache[f] EXCEPT !.age = Later(@, TTL)] ELSE cache[f]
    BY <1>0
  <2>3. Later(cache[f].age, TTL) \in 0..TTL
    BY <1>1, <2>1 DEF EntryType, Later
  <2> QED BY <2>1, <2>2, <2>3 DEF EntryType
<1>4. ASSUME NEW f \in Fps
      PROVE  EntryOK(f)'
  <2> SUFFICES ASSUME cache'[f].known, cache'[f].age < TTL
               PROVE  /\ cache'[f].caller => Vouched(f, cache[f].age + MaxLag)'
                      /\ ~cache'[f].caller => Excused(f, cache[f].age + MaxLag)'
    BY DEF EntryOK
  <2>1. cache[f].known /\ cache[f].age < TTL /\ cache'[f].age = cache[f].age + 1
    BY <1>1, <1>3 DEF Later
  <2>2. PICK n \in Nat : n = cache[f].age + MaxLag
    BY <1>1, <1>3
  <2>3. n + 1 = cache'[f].age + MaxLag
    BY <1>1, <1>3, <2>1, <2>2
  <2>4. (cache[f].caller => Vouched(f, n)) /\ (~cache[f].caller => Excused(f, n))
    BY <2>1, <2>2 DEF GatewayInv, EntryOK
  <2>5. (cache[f].caller => Vouched(f, n + 1)') /\ (~cache[f].caller => Excused(f, n + 1)')
    BY <1>2, <2>4
  <2> QED BY <1>3, <2>3, <2>5
<1>5. ASSUME NEW d \in Conns
      PROVE  conn'[d] \in Threads /\ ThreadOK(conn[d])'
  <2>1. PICK u \in Threads : u = conn[d]
    BY DEF GatewayInv, TypeOK
  <2>2. ThreadOK(u) /\ (Hurried(u) => u.lag < MaxLag)
    BY <1>0, <2>1 DEF GatewayInv
  <2>3. CASE u.pc = "free"
    <3>1. conn'[d] = u
      BY <1>0, <2>1, <2>3
    <3>2. ThreadOK(u)'
      BY <2>2, <2>3 DEF ThreadOK, Shape, Answered, Rechecked, Checked, Hurried
    <3> QED BY <3>1, <3>2
  <2>4. CASE u.pc # "free"
    <3>1. PICK v \in Threads :
            /\ v = conn'[d]
            /\ v.pc = u.pc /\ v.fp = u.fp /\ v.kind = u.kind /\ v.open = u.open /\ v.answer = u.answer
            /\ v.last_trust = IF u.open THEN Later(u.last_trust, TTL + 1) ELSE 0
            /\ v.life = IF u.open THEN Later(u.life, CutOff + 1) ELSE 0
            /\ v.lag = IF Hurried(u) THEN u.lag + 1 ELSE 0
      <4>1. conn'[d] = Aged(u)
        BY <1>0, <2>1, <2>4
      <4> QED BY <2>2, <4>1, AgedFields
    <3>2. /\ u.last_trust \in 0..(TTL + 1) /\ u.life \in 0..(CutOff + 1) /\ u.lag \in 0..MaxLag
          /\ u.fp \in Fps
      BY DEF Threads
    <3>3. Shape(v)'
      BY <1>1, <2>2, <3>1, <3>2 DEF ThreadOK, Shape, Hurried, Later
    <3>4. Answered(v)'
      <4>1. u.pc = "insert" => v.lag = u.lag + 1
        BY <3>1 DEF Hurried
      <4>2. u.lag \in Nat
        BY <1>1, <3>2
      <4>3. /\ Vouched(u.fp, u.lag) => Vouched(u.fp, u.lag + 1)'
            /\ Excused(u.fp, u.lag) => Excused(u.fp, u.lag + 1)'
        BY <1>2, <3>2, <4>2
      <4> QED BY <2>2, <3>1, <4>1, <4>3 DEF ThreadOK, Answered
    <3>5. Rechecked(v)'
      <4>1. u.pc = "lookup" => v.lag = u.lag + 1
        BY <3>1 DEF Hurried
      <4>2. /\ cache'[u.fp].known = cache[u.fp].known /\ cache[u.fp].age \in 0..TTL
            /\ cache[u.fp].known => cache'[u.fp].age = Later(cache[u.fp].age, TTL)
        BY <1>3, <3>2
      <4>3. cache[u.fp].age <= u.lag => Later(cache[u.fp].age, TTL) <= u.lag + 1
        BY <1>1, <3>2, <4>2 DEF Later
      <4> QED BY <2>2, <3>1, <4>1, <4>2, <4>3 DEF ThreadOK, Rechecked
    <3>6. Checked(v)'
      <4> SUFFICES ASSUME v.pc \in {"stream", "stalled"}, ~(v.last_trust > TTL)
                   PROVE  v.life = v.last_trust \/ Vouched(v.fp, v.last_trust + MaxLag)'
        BY DEF Checked
      <4>1. u.open /\ u.pc \in {"stream", "stalled"}
        BY <2>2, <3>1 DEF ThreadOK, Shape
      <4>2. v.last_trust = u.last_trust + 1 /\ u.last_trust <= TTL
        BY <1>1, <3>1, <3>2, <4>1 DEF Later
      <4>3. u.life = u.last_trust \/ Vouched(u.fp, u.last_trust + MaxLag)
        BY <1>1, <2>2, <3>2, <4>1, <4>2 DEF ThreadOK, Checked
      <4>4. CASE u.life = u.last_trust
        BY <1>1, <3>1, <3>2, <4>1, <4>2, <4>4 DEF Later
      <4>5. CASE Vouched(u.fp, u.last_trust + MaxLag)
        <5>1. u.last_trust + MaxLag \in Nat /\ v.last_trust + MaxLag = u.last_trust + MaxLag + 1
          BY <1>1, <3>2, <4>2
        <5>2. Vouched(u.fp, u.last_trust + MaxLag + 1)'
          BY <1>2, <3>2, <4>5, <5>1
        <5> QED BY <3>1, <5>1, <5>2
      <4> QED BY <4>3, <4>4, <4>5
    <3>7. ThreadOK(v)'
      BY <3>3, <3>4, <3>5, <3>6 DEF ThreadOK
    <3> QED BY <3>1, <3>7
  <2> QED BY <2>3, <2>4
<1>6. TypeOK'
  <2>1. revoked' \in [Fps -> 0..(CutOff + 1)]
    BY <1>0, <1>1 DEF GatewayInv, TypeOK, Later
  <2>2. outage' \in 0..(Recently + 1)
    BY <1>0, <1>1 DEF GatewayInv, TypeOK, Later
  <2>3. cache' \in [Fps -> EntryType] /\ conn' \in [Conns -> Threads]
    BY <1>0, <1>3, <1>5
  <2> QED BY <1>0, <2>1, <2>2, <2>3 DEF GatewayInv, TypeOK
<1>7. told' \subseteq trusted' /\ (~up' => outage' = 0)
  BY <1>0 DEF GatewayInv
<1> QED BY <1>4, <1>5, <1>6, <1>7 DEF GatewayInv

-----------------------------------------------------------------------------
(* The theorems.                                                           *)

\* The invariant is inductive.
LEMMA InvStep ==
    ASSUME GatewayInv, [Next]_vars
    PROVE  GatewayInv'
<1>1. CASE UNCHANGED vars
  BY <1>1 DEF vars, GatewayInv, TypeOK, EntryOK, ThreadOK, Shape, Answered, Rechecked, Checked,
              Hurried, Vouched, Excused
<1>2. CASE Tick
  BY <1>2, TickKeeps
<1>3. CASE DaemonStops \/ DaemonStarts \/ \E f \in Fps : TrustAdd(f) \/ TrustRemove(f)
  BY <1>3, DaemonKeeps, GatewayAssumption
<1>4. CASE \E c \in Conns : \/ \E f \in Fps : Accept(c, f)
                            \/ \E k \in Kinds : Request(c, k)
                            \/ Close(c) \/ CallDone(c) \/ EnrollFails(c)
  BY <1>4, RequestsKeep, GatewayAssumption
<1>5. CASE \E c \in Conns : LookupHit(c) \/ LookupMiss(c) \/ Ask(c) \/ Opened(c) \/ Stall(c) \/ Resume(c)
  BY <1>5, LookupKeeps, StreamsKeep
<1>6. CASE \E c \in Conns : Insert(c) \/ EnrollOk(c) \/ Forget(c) \/ Recheck(c)
  BY <1>6, InsertKeeps, EnrollKeeps, ForgetKeeps, RecheckKeeps
<1> QED BY <1>1, <1>2, <1>3, <1>4, <1>5, <1>6 DEF Next

\* The cache starts empty, before any request.
LEMMA InvInit == Init => GatewayInv
<1> SUFFICES ASSUME Init PROVE GatewayInv
  OBVIOUS
<1>1. NoEntry \in EntryType /\ NoEntry.known = FALSE
  BY GatewayAssumption DEF NoEntry, EntryType
<1>2. CutOff + 1 \in 0..(CutOff + 1) /\ Recently + 1 \in 0..(Recently + 1)
  BY GatewayAssumption DEF CutOff, Recently
<1>3. TypeOK
  BY <1>1, <1>2, FreeOK DEF Init, TypeOK
<1>4. (\A f \in Fps : EntryOK(f)) /\ \A c \in Conns : ThreadOK(conn[c])
  BY <1>1, FreeOK DEF Init, EntryOK
<1> QED BY <1>3, <1>4 DEF Init, GatewayInv

\* In every reachable state, the answers in the cache and on their way to it are
\* explained by the trust store, a removal or an outage of a bounded time ago.
THEOREM AnswersExplained == Spec => []GatewayInv
<1>1. Init => GatewayInv
  BY InvInit
<1>2. GatewayInv /\ [Next]_vars => GatewayInv'
  BY InvStep
<1> QED BY <1>1, <1>2, PTL DEF Spec

\* Recheck in exec and logs bounds the life of a stream whose certificate was removed.
THEOREM RevokedStreamsEnd == Spec => []StreamsCutOff
<1>1. GatewayInv => StreamsCutOff
  <2> SUFFICES ASSUME GatewayInv, NEW c \in Conns, conn[c].pc = "stream",
                      conn[c].kind \in {"exec", "logs"}, conn[c].fp \notin trusted,
                      ~CheckDue(conn[c])
               PROVE  revoked[conn[c].fp] <= CutOff \/ conn[c].life <= CutOff
    BY DEF StreamsCutOff
  <2>1. conn[c] \in Threads /\ Checked(conn[c])
    BY DEF GatewayInv, TypeOK, ThreadOK
  <2>2. conn[c].last_trust \in Nat /\ conn[c].fp \in Fps
    BY <2>1, GatewayAssumption DEF Threads
  <2>3. revoked[conn[c].fp] \in Nat
    BY <2>2, GatewayAssumption DEF GatewayInv, TypeOK, CutOff
  <2>4. conn[c].last_trust <= TTL
    BY <2>2, GatewayAssumption DEF CheckDue
  <2>5. conn[c].life = conn[c].last_trust \/ revoked[conn[c].fp] <= conn[c].last_trust + MaxLag
    BY <2>1, <2>2, <2>4, GatewayAssumption DEF Checked, Vouched
  <2> QED BY <2>2, <2>3, <2>4, <2>5, GatewayAssumption DEF CutOff
<1> QED BY <1>1, AnswersExplained, PTL

\* A lookup ends with an answer of the cache or of the daemon that is explained.
LEMMA Outcome ==
    ASSUME GatewayInv, Next, NEW c \in Conns, Looking(c), conn'[c].pc \in {"call", "opening", "free"}
    PROVE  \E a \in BOOLEAN : /\ conn'[c] = Decided(conn[c], a)
                              /\ a => Vouched(conn[c].fp, Recently)
                              /\ ~a => Excused(conn[c].fp, Recently)
<1>1. conn[c] \in Threads /\ ThreadOK(conn[c]) /\ conn \in [Conns -> Threads]
  BY DEF GatewayInv, TypeOK
<1>2. conn[c].pc \in {"lookup", "insert"}
  BY DEF Looking
<1>3. conn'[c].pc # conn[c].pc
  BY <1>2
<1>4. ASSUME NEW d \in Conns, NEW s, Go(d, s), d # c
      PROVE  FALSE
  BY <1>1, <1>3, <1>4 DEF Go
<1>5. ASSUME Tick
      PROVE  FALSE
  <2>1. conn'[c] = Aged(conn[c]) /\ (Hurried(conn[c]) => conn[c].lag < MaxLag)
    BY <1>2, <1>5 DEF Tick
  <2> QED BY <1>1, <1>3, <2>1, AgedFields
<1>6. ASSUME DaemonStops \/ DaemonStarts \/ \E f \in Fps : TrustAdd(f) \/ TrustRemove(f)
      PROVE  FALSE
  BY <1>3, <1>6 DEF DaemonStops, DaemonStarts, TrustAdd, TrustRemove
<1>7. PICK d \in Conns : \/ \E f \in Fps : Accept(d, f)
                         \/ \E kind \in Kinds : Request(d, kind)
                         \/ Close(d) \/ LookupHit(d) \/ LookupMiss(d) \/ Ask(d) \/ Insert(d) \/ CallDone(d)
                         \/ EnrollOk(d) \/ EnrollFails(d) \/ Forget(d)
                         \/ Opened(d) \/ Stall(d) \/ Resume(d) \/ Recheck(d)
  BY <1>5, <1>6 DEF Next
<1>8. \E s : Go(d, s)
  BY <1>7 DEF Accept, Request, Close, LookupHit, LookupMiss, Ask, Insert, CallDone, EnrollOk,
              EnrollFails, Forget, Opened, Stall, Resume, Recheck
<1>9. d = c
  BY <1>4, <1>8
<1>10. LookupHit(c) \/ LookupMiss(c) \/ Insert(c)
  BY <1>2, <1>7, <1>9 DEF Accept, Request, Close, Ask, CallDone, EnrollOk, EnrollFails, Forget,
                          Opened, Stall, Resume, Recheck
<1>11. CASE LookupMiss(c)
  <2>1. conn'[c] = [conn[c] EXCEPT !.pc = "ask"]
    BY <1>1, <1>11 DEF LookupMiss, Go
  <2>2. conn'[c].pc = "ask"
    BY <1>1, <2>1, WithPc DEF Pcs
  <2> QED BY <2>2
<1>12. CASE LookupHit(c)
  <2>1. conn'[c] = Decided(conn[c], cache[conn[c].fp].caller)
    BY <1>1, <1>12 DEF LookupHit, Go
  <2> QED BY <1>12, <2>1, HitExplained
<1>13. CASE Insert(c)
  <2>1. conn'[c] = Decided(conn[c], conn[c].answer) /\ conn[c].pc = "insert"
    BY <1>1, <1>13 DEF Insert, Go
  <2>2. /\ conn[c].answer \in BOOLEAN /\ conn[c].fp \in Fps /\ conn[c].lag \in Nat
        /\ conn[c].lag <= Recently
    BY <1>1, GatewayAssumption DEF Threads, Recently
  <2>3. /\ conn[c].answer => Vouched(conn[c].fp, conn[c].lag)
        /\ ~conn[c].answer => Excused(conn[c].fp, conn[c].lag)
    BY <1>1, <2>1 DEF ThreadOK, Answered
  <2>4. revoked[conn[c].fp] \in Nat /\ outage \in Nat /\ Recently \in Nat
    BY <2>2, GatewayAssumption DEF GatewayInv, TypeOK, CutOff, Recently
  <2>5. /\ Vouched(conn[c].fp, conn[c].lag) => Vouched(conn[c].fp, Recently)
        /\ Excused(conn[c].fp, conn[c].lag) => Excused(conn[c].fp, Recently)
    BY <2>2, <2>4 DEF Vouched, Excused
  <2> QED BY <2>1, <2>2, <2>3, <2>5
<1> QED BY <1>10, <1>11, <1>12, <1>13

\* serve admits nobody on an answer that is older than the cache may keep one.
THEOREM AdmissionsJustified == Spec => AdmittedIsTrusted
<1>1. ASSUME GatewayInv, [Next]_vars, NEW c \in Conns, Looking(c), conn'[c].pc \in {"call", "opening"}
      PROVE  conn[c].fp \in trusted \/ revoked[conn[c].fp] <= Recently
  <2>1. Next
    BY <1>1 DEF vars, Looking
  <2>2. PICK a \in BOOLEAN : /\ conn'[c] = Decided(conn[c], a)
                             /\ a => Vouched(conn[c].fp, Recently)
    BY <1>1, <2>1, Outcome
  <2>3. conn[c] \in Threads
    BY <1>1 DEF GatewayInv, TypeOK
  <2>4. a
    BY <1>1, <2>2, <2>3 DEF Decided, Free, Threads
  <2> QED BY <2>2, <2>4 DEF Vouched
<1>2. GatewayInv /\ [Next]_vars =>
        [\A c \in Conns :
            Looking(c) /\ conn'[c].pc \in {"call", "opening"} =>
                conn[c].fp \in trusted \/ revoked[conn[c].fp] <= Recently]_vars
  BY <1>1
<1> QED BY <1>2, AnswersExplained, PTL DEF Spec, AdmittedIsTrusted

\* The answer of before an enrollment refuses nobody after it, the race apart.
THEOREM EnrollmentsHold == Spec => EnrolledIsAdmitted
<1>1. ASSUME GatewayInv, [Next]_vars, NEW c \in Conns, Looking(c), conn'[c].pc = "free",
             conn[c].fp \in told
      PROVE  outage <= Recently \/ conn[c].fp \in raced
  <2>1. Next
    BY <1>1 DEF vars, Looking
  <2>2. PICK a \in BOOLEAN : /\ conn'[c] = Decided(conn[c], a)
                             /\ ~a => Excused(conn[c].fp, Recently)
    BY <1>1, <2>1, Outcome
  <2>3. conn[c] \in Threads
    BY <1>1 DEF GatewayInv, TypeOK
  <2>4. ~a
    BY <1>1, <2>2, <2>3 DEF Decided, Threads
  <2> QED BY <1>1, <2>2, <2>4 DEF Excused
<1>2. GatewayInv /\ [Next]_vars =>
        [\A c \in Conns :
            Looking(c) /\ conn'[c].pc = "free" /\ conn[c].fp \in told =>
                outage <= Recently \/ conn[c].fp \in raced]_vars
  BY <1>1
<1> QED BY <1>2, AnswersExplained, PTL DEF Spec, EnrolledIsAdmitted
=============================================================================
