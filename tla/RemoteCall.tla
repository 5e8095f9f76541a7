----------------------------- MODULE RemoteCall -----------------------------
(***************************************************************************)
(* A request of a remote client: over the client's connection to the       *)
(* gateway (HttpsApi), which is kept for the next request, and from there   *)
(* over the gateway's connection to the daemon (daemon_call).  Both send a  *)
(* request again on a new connection after an I/O error.  An enrollment has *)
(* connections of its own and must be carried out once at most: a second    *)
(* one finds the token spent.                                               *)
(***************************************************************************)
EXTENDS Naturals, Sequences

CONSTANTS
    None,
    MaxRequests,  \* bound: requests of the client
    MaxErrors     \* bound: errors

VARIABLES
    conn,     \* HttpsApi.conn of calls and of an enrollment: None, or whether the
              \* gateway has closed it, the answers nobody has read and whether the
              \* rest of a request is still to be read
    req,      \* the request being made
    kinds,    \* the kind of each request made so far
    done,     \* ghost: how often the daemon has carried out each request
    got,      \* ghost: whose answer each request got, None without one
    spoiled,  \* ghost: a connection was kept on which something was left unread: the
              \* answer of a second attempt, or the rest of a large request
    errors

vars == <<conn, req, kinds, done, got, spoiled, errors>>

Kinds == {"call", "enroll"}
Requests == 1..MaxRequests
NoReq == [at |-> "none"]
Opened == [dead |-> FALSE, waiting |-> <<>>, rest |-> FALSE]
Broken == [Opened EXCEPT !.dead = TRUE]

\* The answer to what is no request, and that of a request.
Malformed == [n |-> 0, keep_alive |-> FALSE]
Reply(keep) == [n |-> req.n, keep_alive |-> keep]

Error == errors < MaxErrors /\ errors' = errors + 1
SetConn(c) == conn' = [conn EXCEPT ![req.kind] = c]
Go(at) == req' = [req EXCEPT !.at = at]

-----------------------------------------------------------------------------
(* The client: Api::call and enroll, both through request.                 *)

\* reused: the request goes over a connection that an earlier one opened.  An
\* enrollment has an HttpsApi of its own.
request(kind, large) ==
    /\ req = NoReq /\ Len(kinds) < MaxRequests /\ kinds' = Append(kinds, kind)
    /\ LET kept == IF kind = "call" THEN conn[kind] ELSE None IN
       /\ conn' = [conn EXCEPT ![kind] = kept]
       /\ req' = [at |-> "send", n |-> Len(kinds'), kind |-> kind, large |-> large,
                  attempt |-> 1, reused |-> kept # None]
    /\ UNCHANGED <<done, got, spoiled, errors>>

\* The request ends, with an answer or with an error.
Finish(answer) ==
    /\ got' = [got EXCEPT ![req.n] = answer]
    /\ req' = NoReq

Again ==
    /\ req' = [req EXCEPT !.at = "send", !.attempt = 2]
    /\ SetConn(None) /\ UNCHANGED got

\* An I/O error of an exchange: a second attempt on a new connection when the first
\* went over an old one.  A broken connection is left behind by a second attempt.
IoError ==
    IF req.attempt = 1 /\ req.reused THEN Again
    ELSE /\ Finish(None)
         /\ SetConn(IF req.attempt = 1 THEN None ELSE Broken)

\* dial, when there is no connection: none of the addresses answers.
DialFails ==
    /\ req.at = "send" /\ conn[req.kind] = None /\ Error
    /\ Finish(None)
    /\ UNCHANGED <<conn, kinds, done, spoiled>>

\* exchange, until the request is on its way.  The gateway may have closed the
\* connection: then it fails, now or when there is nothing to read.
Send ==
    /\ req.at = "send"
    /\ \/ /\ conn[req.kind] # None /\ conn[req.kind].dead
          /\ IoError
       \/ /\ SetConn(IF conn[req.kind] = None THEN Opened ELSE conn[req.kind])
          /\ Go("head") /\ UNCHANGED got
    /\ UNCHANGED <<kinds, done, spoiled, errors>>

\* read_response finds the end of a connection that was closed.
Eof ==
    /\ req.at = "head" /\ conn[req.kind].dead /\ conn[req.kind].waiting = <<>>
    /\ IoError
    /\ UNCHANGED <<kinds, done, spoiled, errors>>

-----------------------------------------------------------------------------
(* The gateway: serve, call and enroll.                                    *)

\* write_json.
Answer(keep) ==
    /\ SetConn([conn[req.kind] EXCEPT !.waiting = Append(@, Reply(keep)), !.dead = ~keep])
    /\ Go("answer")

\* read_request.
read_request ==
    /\ req.at = "head" /\ ~conn[req.kind].dead /\ ~conn[req.kind].rest
    /\ Go("body")
    /\ UNCHANGED <<conn, kinds, done, got, spoiled, errors>>

\* What is left of a request does not parse as the head of the next one, or is too
\* long for one.
ReadRest(kind) ==
    /\ conn[kind] # None /\ conn[kind].rest /\ ~conn[kind].dead
    /\ conn' = [conn EXCEPT ![kind] = [dead |-> TRUE, rest |-> FALSE,
                                       waiting |-> Append(@.waiting, Malformed)]]
    /\ UNCHANGED <<req, kinds, done, got, spoiled, errors>>

\* A call of a client that is not trusted: the body is drained, and the connection
\* closed after the answer.
Untrusted ==
    /\ req.at = "body" /\ req.kind = "call" /\ Error
    /\ Answer(FALSE)
    /\ UNCHANGED <<kinds, done, got, spoiled>>

\* read_all stops at its limit, and the gateway goes on to the next request.
TooLarge ==
    /\ req.at = "body" /\ req.large
    /\ SetConn([conn[req.kind] EXCEPT !.waiting = Append(@, Reply(TRUE)), !.rest = TRUE])
    /\ Go("answer") /\ spoiled' = TRUE
    /\ UNCHANGED <<kinds, done, got, errors>>

\* The body is read.  The gateway itself refuses requests that need descriptors, and
\* enrollments when it is throttled or the token is for another server.
ReadBody(refused) ==
    /\ req.at = "body" /\ ~req.large
    /\ IF refused THEN Answer(TRUE) ELSE Go("daemon") /\ UNCHANGED conn
    /\ UNCHANGED <<kinds, done, got, spoiled, errors>>

\* The connection breaks while the gateway reads.
RequestLost ==
    /\ req.at \in {"head", "body"} /\ Error
    /\ IoError
    /\ UNCHANGED <<kinds, done, spoiled>>

Serve ==
    /\ req.at = "daemon"
    /\ done' = [done EXCEPT ![req.n] = @ + 1] /\ Answer(TRUE)
    /\ UNCHANGED <<kinds, got, spoiled, errors>>

\* Mutant: an enrollment is sent again too.
MutDaemonError(carried, again) ==
    /\ req.at = "daemon" /\ Error
    /\ done' = [done EXCEPT ![req.n] = @ + carried + again]
    /\ Answer(TRUE)
    /\ UNCHANGED <<kinds, got, spoiled>>

\* The daemon goes away before it answers, and may have carried out the request.
\* daemon_call connects and sends it again, which may fail too; enroll does not.
DaemonError(carried, again) ==
    /\ req.at = "daemon" /\ Error
    /\ done' = [done EXCEPT ![req.n] = @ + carried + (IF req.kind = "call" THEN again ELSE 0)]
    /\ Answer(TRUE)
    /\ UNCHANGED <<kinds, got, spoiled>>

-----------------------------------------------------------------------------
(* The answer.                                                             *)

\* The first answer on the connection, which says whether it is kept.
Receive ==
    /\ req.at = "answer" \/ (req.at = "head" /\ conn[req.kind].dead)
    /\ LET c == conn[req.kind] IN
       /\ c.waiting # <<>>
       /\ Finish(Head(c.waiting).n)
       /\ SetConn(IF Head(c.waiting).keep_alive THEN [c EXCEPT !.waiting = Tail(@)] ELSE None)
    /\ UNCHANGED <<kinds, done, spoiled, errors>>

\* The connection breaks before the answer is read.
AnswerLost ==
    /\ req.at = "answer" /\ Error
    /\ IoError
    /\ UNCHANGED <<kinds, done, spoiled>>

\* The answer is longer than MAX_RESPONSE, or malformed: it is not read, and the
\* connection is dropped with it, unless this was a second attempt.
Unreadable ==
    /\ req.at = "answer" /\ Error
    /\ Finish(None)
    /\ IF req.attempt = 1 THEN SetConn(None) /\ UNCHANGED spoiled
       ELSE UNCHANGED conn /\ spoiled' = TRUE
    /\ UNCHANGED <<kinds, done>>

\* The gateway closes a connection that is not used.
IdleClose ==
    /\ req = NoReq /\ conn["call"] # None /\ ~conn["call"].dead
    /\ conn' = [conn EXCEPT !["call"].dead = TRUE]
    /\ UNCHANGED <<req, kinds, done, got, spoiled, errors>>

-----------------------------------------------------------------------------

Init ==
    /\ conn = [k \in Kinds |-> None] /\ req = NoReq /\ kinds = <<>>
    /\ done = [n \in Requests |-> 0] /\ got = [n \in Requests |-> None]
    /\ spoiled = FALSE /\ errors = 0

Next ==
    \/ \E kind \in Kinds : ReadRest(kind) \/ \E large \in BOOLEAN : request(kind, large)
    \/ DialFails \/ Send \/ Eof \/ read_request \/ Untrusted \/ TooLarge
    \/ \E refused \in BOOLEAN : ReadBody(refused)
    \/ RequestLost \/ Serve
    \/ \E carried, again \in 0..1 : DaemonError(carried, again)
    \/ Receive \/ AnswerLost \/ Unreadable \/ IdleClose

Spec == Init /\ [][Next]_vars

-----------------------------------------------------------------------------
(* Correctness.                                                            *)

\* Whatever fails, a request is never given the answer of another one: what an
\* earlier request left unread goes with its connection.  (The exceptions
\* are the answer of a second attempt that could not be read, and the rest of a
\* request that was too large.)  And the daemon carries out
\* an enrollment at most once, and any other request at most four times: the client
\* and the gateway try twice each.
CallsSound ==
    /\ ~spoiled => \A n \in Requests : got[n] \in {None, n}
    /\ \A n \in DOMAIN kinds : done[n] <= IF kinds[n] = "enroll" THEN 1 ELSE 4
=============================================================================
