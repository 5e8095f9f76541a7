-------------------------------- MODULE Trust --------------------------------
(***************************************************************************)
(* The daemon's trust store (collocate-trust): tokens.json,                *)
(* certificates.json and the server's identity.  Each file is replaced as a *)
(* whole by a rename, so a crash never leaves half a file; it may come      *)
(* between the two files that an operation writes.  The daemon serves one   *)
(* request at a time.                                                       *)
(***************************************************************************)
EXTENDS Naturals

CONSTANTS
    Names,          \* names of clients and tokens
    Fps,            \* fingerprints of client certificates
    Secrets,        \* secrets of trust tokens
    Roles,          \* what a token or a certificate grants
    MaxEnrollments, \* bound: enrollments counted for one secret
    MaxKeys         \* bound: server keys generated

ASSUME TrustAssumption ==
    /\ MaxEnrollments \in Nat \ {0, 1}
    /\ MaxKeys \in Nat

VARIABLES
    tokens,    \* tokens.json
    certs,     \* certificates.json
    issued,    \* ghost: the secrets handed out
    used,      \* ghost: how often each secret enrolled a certificate
    cut,       \* ghost: secrets whose enrollment was cut short by a crash
    keys,      \* ghost: server keys generated so far
    server_key, server_cert  \* the key each file of the identity belongs to; 0: no file

vars == <<tokens, certs, issued, used, cut, keys, server_key, server_cert>>
identity == <<keys, server_key, server_cert>>

PendingToken == [name : Names, secret : Secrets, role : Roles, expires : BOOLEAN, expired : BOOLEAN]
TrustedCertificate == [name : Names, fp : Fps, role : Roles]

name_taken(n) == (\E c \in certs : c.name = n) \/ (\E t \in tokens : t.name = n)

-----------------------------------------------------------------------------

\* The secret is random: it was never handed out before.
create_token(n, s, role, expires) ==
    /\ ~name_taken(n) /\ s \notin issued
    /\ tokens' = tokens \cup {[name |-> n, secret |-> s, role |-> role,
                               expires |-> expires, expired |-> FALSE]}
    /\ issued' = issued \cup {s}
    /\ UNCHANGED <<certs, used, cut, identity>>

revoke_token(n) ==
    /\ \E t \in tokens : t.name = n
    /\ tokens' = {t \in tokens : t.name # n}
    /\ UNCHANGED <<certs, issued, used, cut, identity>>

\* The clock passes a token's expires_at.
Expire(t) ==
    /\ t \in tokens /\ t.expires /\ ~t.expired
    /\ tokens' = (tokens \ {t}) \cup {[t EXCEPT !.expired = TRUE]}
    /\ UNCHANGED <<certs, issued, used, cut, identity>>

\* Mutant: only the name is looked at.
MutAddCertificate(n, f, role) ==
    /\ ~name_taken(n)
    /\ certs' = certs \cup {[name |-> n, fp |-> f, role |-> role]}
    /\ UNCHANGED <<tokens, issued, used, cut, identity>>

add_certificate(n, f, role) ==
    /\ \A c \in certs : c.fp # f
    /\ ~name_taken(n)
    /\ certs' = certs \cup {[name |-> n, fp |-> f, role |-> role]}
    /\ UNCHANGED <<tokens, issued, used, cut, identity>>

-----------------------------------------------------------------------------
(* enroll.                                                                 *)

\* An expired token is discarded when somebody presents it.
EnrollExpired(t) ==
    /\ t \in tokens /\ t.expired
    /\ tokens' = tokens \ {t}
    /\ UNCHANGED <<certs, issued, used, cut, identity>>

\* The certificate is new, and so is its name among the certificates (the
\* pending tokens are not looked at); the client may choose the name.
CanEnroll(t, f, n) ==
    /\ t \in tokens /\ ~t.expired
    /\ \A c \in certs : c.fp # f /\ c.name # n

Enrolled(t, f, n) ==
    /\ certs' = certs \cup {[name |-> n, fp |-> f, role |-> t.role]}
    /\ used' = [used EXCEPT ![t.secret] = IF @ < MaxEnrollments THEN @ + 1 ELSE @]
    /\ UNCHANGED <<issued, identity>>

\* Mutant: the token is kept.
MutEnroll(t, f, n) ==
    CanEnroll(t, f, n) /\ Enrolled(t, f, n) /\ UNCHANGED <<tokens, cut>>

\* The certificates are written, then the tokens without the one that was used.
Enroll(t, f, n) ==
    /\ CanEnroll(t, f, n) /\ Enrolled(t, f, n)
    /\ tokens' = tokens \ {t}
    /\ UNCHANGED cut

\* A crash between the two writes.
CrashInEnroll(t, f, n) ==
    /\ CanEnroll(t, f, n) /\ Enrolled(t, f, n)
    /\ cut' = cut \cup {t.secret}
    /\ UNCHANGED tokens

\* By its name or its fingerprint.
remove(c) ==
    /\ c \in certs
    /\ certs' = certs \ {c}
    /\ UNCHANGED <<tokens, issued, used, cut, identity>>

-----------------------------------------------------------------------------
(* The server's identity: the key is written before the certificate, and   *)
(* only the certificate says that there is one.                            *)

\* Mutant: the certificate is written first.
MutCrashInEnsureIdentity ==
    /\ server_cert = 0 /\ keys < MaxKeys
    /\ keys' = keys + 1 /\ server_cert' = keys'
    /\ UNCHANGED <<tokens, certs, issued, used, cut, server_key>>

\* A crash between the two files.
CrashInEnsureIdentity ==
    /\ server_cert = 0 /\ keys < MaxKeys
    /\ keys' = keys + 1 /\ server_key' = keys'
    /\ UNCHANGED <<tokens, certs, issued, used, cut, server_cert>>

ensure_server_identity ==
    /\ server_cert = 0 /\ keys < MaxKeys
    /\ keys' = keys + 1 /\ server_key' = keys' /\ server_cert' = keys'
    /\ UNCHANGED <<tokens, certs, issued, used, cut>>

-----------------------------------------------------------------------------

Init ==
    /\ tokens = {} /\ certs = {}
    /\ issued = {} /\ used = [s \in Secrets |-> 0] /\ cut = {}
    /\ keys = 0 /\ server_key = 0 /\ server_cert = 0

Next ==
    \/ \E n \in Names :
         \/ revoke_token(n)
         \/ \E role \in Roles :
              \/ \E s \in Secrets, expires \in BOOLEAN : create_token(n, s, role, expires)
              \/ \E f \in Fps : add_certificate(n, f, role)
         \/ \E t \in tokens, f \in Fps : Enroll(t, f, n) \/ CrashInEnroll(t, f, n)
    \/ \E t \in tokens : Expire(t) \/ EnrollExpired(t)
    \/ \E c \in certs : remove(c)
    \/ ensure_server_identity \/ CrashInEnsureIdentity

Spec == Init /\ [][Next]_vars

-----------------------------------------------------------------------------
(* Correctness.                                                            *)

\* Every variable has its type.
TypeOK ==
    /\ tokens \subseteq PendingToken
    /\ certs \subseteq TrustedCertificate
    /\ issued \subseteq Secrets /\ cut \subseteq Secrets
    /\ used \in [Secrets -> 0..MaxEnrollments]
    /\ keys \in 0..MaxKeys /\ server_key \in 0..MaxKeys /\ server_cert \in 0..MaxKeys

\* A fingerprint has one caller and a name one certificate, whichever way the
\* certificates came and in whatever order: lookup takes the first match, and
\* remove refuses a name that two certificates have.
CertsDistinct ==
    \A c, d \in certs : c.fp = d.fp \/ c.name = d.name => c = d

\* A token is gone once it enrolled a certificate, and its secret never comes
\* back, unless the daemon crashed between the two files that enroll writes.
SpentIsGone ==
    \A s \in Secrets \ cut :
        /\ used[s] <= 1
        /\ used[s] = 1 => \A t \in tokens : t.secret # s

\* The server never presents a certificate whose key it does not have.
IdentityMatches == server_cert # 0 => server_cert = server_key
=============================================================================
