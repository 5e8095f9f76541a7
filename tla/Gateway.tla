------------------------------- MODULE Gateway -------------------------------
(***************************************************************************)
(* collocate-gateway: one thread per TLS connection, a shared cache of what *)
(* the daemon said about a client certificate, and the streams (exec, logs, *)
(* image upload) that outlive the check made when they were opened.        *)
(*                                                                         *)
(* A lookup is three steps of a thread that other threads may separate: it *)
(* reads the cache, asks the daemon, and writes the answer into the cache. *)
(* The daemon's trust store is its set of certificates (Trust).            *)
(*                                                                         *)
(* Time passes in ticks.  TRUST_TTL is TTL ticks; a lookup, and the        *)
(* forgetting after an enrollment, take at most MaxLag ticks; a stream that *)
(* is not held up by its client or its process takes its turns within a    *)
(* tick.                                                                   *)
(***************************************************************************)
EXTENDS Naturals, FiniteSets

CONSTANTS
    Conns,           \* connections, each served by a thread
    Fps,             \* fingerprints of client certificates
    Kinds,           \* requests that clients make
    TTL,             \* TRUST_TTL
    MaxLag,          \* bound: ticks a lookup takes
    MAX_CONNECTIONS

ASSUME GatewayAssumption ==
    /\ Fps # {} /\ Kinds # {}
    /\ TTL \in Nat /\ MaxLag \in Nat

VARIABLES
    up,       \* the daemon answers
    trusted,  \* fingerprints in the daemon's trust store
    cache,    \* Gateway.cache
    conn,     \* the thread of each connection; its pc is at `lookup', `ask' and `insert'
              \* in a lookup, at `opening' between the check and the first turn of a stream
    revoked,  \* ghost: ticks since a fingerprint was removed from the store
    outage,   \* ghost: ticks since the daemon last did not answer
    told,     \* ghost: fingerprints enrolled and answered 201, and still trusted
    raced     \* ghost: ... of which a negative answer was on its way to the cache

vars == <<up, trusted, cache, conn, revoked, outage, told, raced>>

\* Recently is how long a stale answer can last in the cache.
Recently == TTL + MaxLag

\* How long a stream may go on after its certificate was removed: to the next
\* check, when the last one has just read an answer of before the removal.
CutOff == TTL + MaxLag

Free == [pc |-> "free", fp |-> CHOOSE f \in Fps : TRUE, kind |-> CHOOSE k \in Kinds : TRUE,
         open |-> FALSE, answer |-> FALSE, last_trust |-> 0, life |-> 0, lag |-> 0]

NoEntry == [known |-> FALSE, caller |-> FALSE, age |-> 0]

\* A counter of ticks that stops at its cap.
Later(n, cap) == IF n < cap THEN n + 1 ELSE n

-----------------------------------------------------------------------------
(* The daemon and its administrator.                                       *)

TrustAdd(f) ==
    /\ up /\ f \notin trusted
    /\ trusted' = trusted \cup {f}
    /\ UNCHANGED <<up, cache, conn, revoked, outage, told, raced>>

TrustRemove(f) ==
    /\ up /\ f \in trusted
    /\ trusted' = trusted \ {f}
    /\ revoked' = [revoked EXCEPT ![f] = 0]
    /\ told' = told \ {f} /\ raced' = raced \ {f}
    /\ UNCHANGED <<up, cache, conn, outage>>

DaemonStops == up /\ up' = FALSE /\ outage' = 0
               /\ UNCHANGED <<trusted, cache, conn, revoked, told, raced>>

DaemonStarts == ~up /\ up' = TRUE
                /\ UNCHANGED <<trusted, cache, conn, revoked, outage, told, raced>>

-----------------------------------------------------------------------------
(* Connections and requests.                                               *)

Go(c, r) == conn' = [conn EXCEPT ![c] = r]

Active == {c \in Conns : conn[c].pc # "free"}

\* try_serve, and the handshake that shows the client's certificate.
Accept(c, f) ==
    /\ conn[c].pc = "free"
    /\ Cardinality(Active) < MAX_CONNECTIONS
    /\ Go(c, [Free EXCEPT !.pc = "ready", !.fp = f])
    /\ UNCHANGED <<up, trusted, cache, revoked, outage, told, raced>>

\* The client hangs up, or the connection times out.
Close(c) ==
    /\ conn[c].pc \in {"ready", "call", "opening", "stream", "stalled"}
    /\ Go(c, Free)
    /\ UNCHANGED <<up, trusted, cache, revoked, outage, told, raced>>

\* serve looks the certificate up for every request, before it looks at the route.
Request(c, kind) ==
    /\ conn[c].pc = "ready"
    /\ Go(c, [conn[c] EXCEPT !.pc = "lookup", !.kind = kind])
    /\ UNCHANGED <<up, trusted, cache, revoked, outage, told, raced>>

\* What becomes of a thread whose lookup answered: an enrollment goes on in any
\* case; an untrusted client is refused, and cut off when it has a stream.
Decided(r, answer) ==
    LET s == [r EXCEPT !.lag = 0, !.answer = FALSE]
    IN  IF r.kind = "enroll" THEN [s EXCEPT !.pc = "enroll"]
        ELSE IF ~answer THEN Free
        ELSE IF r.open THEN [s EXCEPT !.pc = "stream"]
        ELSE IF r.kind = "call" THEN [s EXCEPT !.pc = "call"]
        ELSE [s EXCEPT !.pc = "opening"]

\* Mutant: entries do not age.
MutValid(e) == e.known

\* An entry counts for TRUST_TTL.
Valid(e) == e.known /\ e.age < TTL

LookupHit(c) ==
    /\ conn[c].pc = "lookup" /\ Valid(cache[conn[c].fp])
    /\ Go(c, Decided(conn[c], cache[conn[c].fp].caller))
    /\ UNCHANGED <<up, trusted, cache, revoked, outage, told, raced>>

LookupMiss(c) ==
    /\ conn[c].pc = "lookup" /\ ~Valid(cache[conn[c].fp])
    /\ Go(c, [conn[c] EXCEPT !.pc = "ask"])
    /\ UNCHANGED <<up, trusted, cache, revoked, outage, told, raced>>

\* lookup_uncached: no daemon is no trust.
Ask(c) ==
    /\ conn[c].pc = "ask"
    /\ Go(c, [conn[c] EXCEPT !.pc = "insert", !.answer = up /\ conn[c].fp \in trusted])
    /\ UNCHANGED <<up, trusted, cache, revoked, outage, told, raced>>

Insert(c) ==
    /\ conn[c].pc = "insert"
    /\ cache' = [cache EXCEPT ![conn[c].fp] =
                    [known |-> TRUE, caller |-> conn[c].answer, age |-> 0]]
    /\ Go(c, Decided(conn[c], conn[c].answer))
    /\ UNCHANGED <<up, trusted, revoked, outage, told, raced>>

\* The daemon answered a call; the connection is kept for the next request.
CallDone(c) ==
    /\ conn[c].pc = "call"
    /\ Go(c, [Free EXCEPT !.pc = "ready", !.fp = conn[c].fp])
    /\ UNCHANGED <<up, trusted, cache, revoked, outage, told, raced>>

-----------------------------------------------------------------------------
(* Enrollment: the daemon trusts the certificate, then its entry of the    *)
(* cache is forgotten, then the client is told.                            *)

EnrollOk(c) ==
    /\ up /\ conn[c].pc = "enroll" /\ conn[c].fp \notin trusted
    /\ trusted' = trusted \cup {conn[c].fp}
    /\ Go(c, [conn[c] EXCEPT !.pc = "forget"])
    /\ UNCHANGED <<up, cache, revoked, outage, told, raced>>

\* Throttled, a bad token, a conflict or no daemon.
EnrollFails(c) ==
    /\ conn[c].pc = "enroll"
    /\ Go(c, [conn[c] EXCEPT !.pc = "ready"])
    /\ UNCHANGED <<up, trusted, cache, revoked, outage, told, raced>>

\* Mutant: the cache is left as it is.
MutForget(c) ==
    /\ conn[c].pc = "forget"
    /\ Go(c, [conn[c] EXCEPT !.pc = "ready", !.lag = 0])
    /\ told' = told \cup (trusted \cap {conn[c].fp})
    /\ UNCHANGED <<up, trusted, cache, revoked, outage, raced>>

Forget(c) ==
    LET f == conn[c].fp
        racing == {d \in Conns : conn[d].fp = f /\ conn[d].pc = "insert" /\ ~conn[d].answer}
    IN  /\ conn[c].pc = "forget"
        /\ cache' = [cache EXCEPT ![f] = NoEntry]
        /\ Go(c, [conn[c] EXCEPT !.pc = "ready", !.lag = 0])
        /\ told' = told \cup (trusted \cap {f})
        /\ raced' = IF f \in trusted /\ racing # {} THEN raced \cup {f} ELSE raced
        /\ UNCHANGED <<up, trusted, revoked, outage>>

-----------------------------------------------------------------------------
(* Streams.                                                                *)

\* The first message of an exec, the parameters of logs, the upload begins.
Opened(c) ==
    /\ conn[c].pc = "opening"
    /\ Go(c, [conn[c] EXCEPT !.pc = "stream", !.open = TRUE])
    /\ UNCHANGED <<up, trusted, cache, revoked, outage, told, raced>>

\* A write to the client, or to a process that does not read, holds the thread up.
Stall(c) ==
    /\ conn[c].pc = "stream"
    /\ Go(c, [conn[c] EXCEPT !.pc = "stalled"])
    /\ UNCHANGED <<up, trusted, cache, revoked, outage, told, raced>>

Resume(c) ==
    /\ conn[c].pc = "stalled"
    /\ Go(c, [conn[c] EXCEPT !.pc = "stream"])
    /\ UNCHANGED <<up, trusted, cache, revoked, outage, told, raced>>

\* exec and logs check every TRUST_TTL; an image upload does not.
CheckDue(r) == r.kind \in {"exec", "logs"} /\ r.last_trust > TTL

\* Mutant: a certificate that has an entry of any age counts as trusted.
MutRecheck(c) ==
    /\ conn[c].pc = "stream" /\ CheckDue(conn[c])
    /\ Go(c, IF cache[conn[c].fp].known THEN [conn[c] EXCEPT !.last_trust = 0]
             ELSE [conn[c] EXCEPT !.pc = "lookup", !.last_trust = 0])
    /\ UNCHANGED <<up, trusted, cache, revoked, outage, told, raced>>

\* still_trusted: forget, then lookup.
Recheck(c) ==
    /\ conn[c].pc = "stream" /\ CheckDue(conn[c])
    /\ cache' = [cache EXCEPT ![conn[c].fp] = NoEntry]
    /\ Go(c, [conn[c] EXCEPT !.pc = "lookup", !.last_trust = 0])
    /\ UNCHANGED <<up, trusted, revoked, outage, told, raced>>

-----------------------------------------------------------------------------
(* Time.                                                                   *)

Hurried(r) == r.pc \in {"lookup", "ask", "insert", "forget"}

Aged(r) == [r EXCEPT !.last_trust = IF r.open THEN Later(@, TTL + 1) ELSE 0,
                     !.life = IF r.open THEN Later(@, CutOff + 1) ELSE 0,
                     !.lag = IF Hurried(r) THEN @ + 1 ELSE 0]

Tick ==
    /\ \A c \in Conns :
         /\ Hurried(conn[c]) => conn[c].lag < MaxLag
         /\ conn[c].pc = "stream" => ~CheckDue(conn[c])
    /\ conn' = [c \in Conns |-> IF conn[c].pc = "free" THEN conn[c] ELSE Aged(conn[c])]
    /\ cache' = [f \in Fps |-> IF cache[f].known
                               THEN [cache[f] EXCEPT !.age = Later(@, TTL)] ELSE cache[f]]
    /\ revoked' = [f \in Fps |-> Later(revoked[f], CutOff + 1)]
    /\ outage' = IF up THEN Later(outage, Recently + 1) ELSE 0
    /\ UNCHANGED <<up, trusted, told, raced>>

-----------------------------------------------------------------------------

Init ==
    /\ up = TRUE /\ trusted = {}
    /\ cache = [f \in Fps |-> NoEntry]
    /\ conn = [c \in Conns |-> Free]
    /\ revoked = [f \in Fps |-> CutOff + 1]
    /\ outage = Recently + 1
    /\ told = {} /\ raced = {}

Next ==
    \/ Tick \/ DaemonStops \/ DaemonStarts
    \/ \E f \in Fps : TrustAdd(f) \/ TrustRemove(f)
    \/ \E c \in Conns :
         \/ \E f \in Fps : Accept(c, f)
         \/ \E kind \in Kinds : Request(c, kind)
         \/ Close(c) \/ LookupHit(c) \/ LookupMiss(c) \/ Ask(c) \/ Insert(c) \/ CallDone(c)
         \/ EnrollOk(c) \/ EnrollFails(c) \/ Forget(c)
         \/ Opened(c) \/ Stall(c) \/ Resume(c) \/ Recheck(c)

Spec == Init /\ [][Next]_vars

-----------------------------------------------------------------------------
(* Correctness.                                                            *)

Looking(c) == conn[c].pc \in {"lookup", "insert"}

\* A request is admitted only for a certificate that is trusted or was removed
\* at most TRUST_TTL (and the time of a lookup) ago, whatever lookups of other
\* threads were under way when it was removed.
AdmittedIsTrusted ==
    [][\A c \in Conns :
          Looking(c) /\ conn'[c].pc \in {"call", "opening"} =>
              conn[c].fp \in trusted \/ revoked[conn[c].fp] <= Recently]_vars

\* A client that was told that it is enrolled is not refused, and its streams
\* are not cut off, while its certificate stays trusted, except shortly after
\* the daemon did not answer, and except when another connection of the same
\* client was being refused just when the enrollment ended.
EnrolledIsAdmitted ==
    [][\A c \in Conns :
          Looking(c) /\ conn'[c].pc = "free" /\ conn[c].fp \in told =>
              outage <= Recently \/ conn[c].fp \in raced]_vars

\* An exec or logs stream of a removed certificate ends: none has run for longer
\* than CutOff since both its start and the removal, unless the check is the
\* next thing it does (a stream that was held up).
StreamsCutOff ==
    \A c \in Conns :
        LET r == conn[c]
        IN  r.pc = "stream" /\ r.kind \in {"exec", "logs"} /\ r.fp \notin trusted =>
                revoked[r.fp] <= CutOff \/ r.life <= CutOff \/ CheckDue(r)

\* The same of every open stream, the upload of an image included.
AllStreamsCutOff ==
    \A c \in Conns :
        LET r == conn[c]
        IN  r.pc = "stream" /\ r.fp \notin trusted =>
                revoked[r.fp] <= CutOff \/ r.life <= CutOff \/ CheckDue(r)
=============================================================================
