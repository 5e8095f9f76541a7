------------------------------ MODULE Listener ------------------------------
(***************************************************************************)
(* The listener of the gateway's main, and what it follows: the https       *)
(* address that the daemon tells it and the files of the server's identity, *)
(* which it reads itself while the daemon or an administrator changes them. *)
(* It looks again every CHECK, on its own, so that nothing needs to tell it.*)
(***************************************************************************)
EXTENDS Naturals

CONSTANTS
    Addresses,  \* https addresses
    None,
    MaxChanges  \* bound: changes from outside

VARIABLES
    https,   \* the daemon's Config.https_address, as stored
    daemon,  \* `down', `ensure' and `saving' in ensure_server_identity, or `up'
    key,     \* SERVER_KEY and SERVER_CERT: the identity of each file
    cert,
    made,    \* identities generated
    taken,   \* addresses that another program listens on
    gw,      \* the gateway: where it is, its target and the identity it has loaded
    changes

vars == <<https, daemon, key, cert, made, taken, gw, changes>>

Probing == [at |-> "probe", target |-> None, cert |-> None, key |-> None]
Listening == gw.at \in {"listening", "recheck"}
Change == changes < MaxChanges /\ changes' = changes + 1

-----------------------------------------------------------------------------
(* The daemon: a start and the requests that change remote access.          *)

Start ==
    /\ daemon = "down" /\ daemon' = IF https # None THEN "ensure" ELSE "up"
    /\ UNCHANGED <<https, key, cert, made, taken, gw, changes>>

\* op_init with settings that differ in the https address only.
SetHttps(a) ==
    /\ daemon = "up" /\ a # https /\ Change
    /\ https' = a /\ daemon' = IF a # None THEN "ensure" ELSE "up"
    /\ UNCHANGED <<key, cert, made, taken, gw>>

\* TrustTokenCreate names the identity in the token.
CreateToken ==
    /\ daemon = "up" /\ https # None /\ Change
    /\ daemon' = "ensure"
    /\ UNCHANGED <<https, key, cert, made, taken, gw>>

\* ensure_server_identity: only without a certificate is there a new identity; one
\* without its key is an error.
Ensure ==
    /\ daemon = "ensure"
    /\ IF cert # None THEN daemon' = "up" /\ UNCHANGED <<key, made>>
       ELSE /\ made' = made + 1 /\ key' = made + 1 /\ daemon' = "saving"
    /\ UNCHANGED <<https, cert, taken, gw, changes>>

\* save_identity: the key has been written, now the certificate.
Save ==
    /\ daemon = "saving" /\ daemon' = "up" /\ cert' = made
    /\ UNCHANGED <<https, key, made, taken, gw, changes>>

-----------------------------------------------------------------------------
(* From outside.                                                           *)

DaemonStops ==
    /\ daemon # "down" /\ Change /\ daemon' = "down"
    /\ UNCHANGED <<https, key, cert, made, taken, gw>>

\* An administrator removes the identity for a new one, file by file.
RemoveFile ==
    /\ Change
    /\ \/ cert # None /\ cert' = None /\ UNCHANGED key
       \/ key # None /\ key' = None /\ UNCHANGED cert
    /\ UNCHANGED <<https, daemon, made, taken, gw>>

OtherProgram(a) ==
    /\ Change /\ ~(Listening /\ gw.target = a)
    /\ taken' = IF a \in taken THEN taken \ {a} ELSE taken \cup {a}
    /\ UNCHANGED <<https, daemon, key, cert, made, gw>>

GatewayRestarts ==
    /\ Change /\ gw' = Probing
    /\ UNCHANGED <<https, daemon, key, cert, made, taken>>

-----------------------------------------------------------------------------
(* The gateway.                                                            *)

\* main: it asks the daemon and serves what it answers; else it asks again.
probe ==
    /\ gw.at = "probe" /\ daemon = "up" /\ https # None
    /\ gw' = [gw EXCEPT !.at = "cert", !.target = https]
    /\ UNCHANGED <<https, daemon, key, cert, made, taken, changes>>

\* server_identity: the certificate, then the key.  serve returns without either, and
\* when server_config finds that they do not fit.
LoadCert ==
    /\ gw.at = "cert"
    /\ gw' = IF cert = None THEN Probing ELSE [gw EXCEPT !.at = "key", !.cert = cert]
    /\ UNCHANGED <<https, daemon, key, cert, made, taken, changes>>

LoadKey ==
    /\ gw.at = "key"
    /\ gw' = IF key # gw.cert THEN Probing ELSE [gw EXCEPT !.at = "bind", !.key = key]
    /\ UNCHANGED <<https, daemon, key, cert, made, taken, changes>>

\* TcpListener::bind.
Bind ==
    /\ gw.at = "bind"
    /\ gw' = IF gw.target \in taken THEN Probing ELSE [gw EXCEPT !.at = "listening"]
    /\ UNCHANGED <<https, daemon, key, cert, made, taken, changes>>

\* A daemon that does not answer has changed nothing.
Changed == daemon # "down" /\ https # gw.target

\* The check of serve every CHECK: the daemon's answer ...
CheckTarget ==
    /\ gw.at = "listening" /\ daemon \in {"up", "down"}
    /\ gw' = IF Changed THEN Probing ELSE [gw EXCEPT !.at = "recheck"]
    /\ UNCHANGED <<https, daemon, key, cert, made, taken, changes>>

\* Mutant: a listener is kept while there is a certificate.
MutCheckIdentity ==
    /\ gw.at = "recheck"
    /\ gw' = IF cert = None THEN Probing ELSE [gw EXCEPT !.at = "listening"]
    /\ UNCHANGED <<https, daemon, key, cert, made, taken, changes>>

\* ... and the identity: a missing one counts as another one, and so does one whose
\* key is missing.
CheckIdentity ==
    /\ gw.at = "recheck"
    /\ gw' = IF cert # gw.cert \/ key = None THEN Probing ELSE [gw EXCEPT !.at = "listening"]
    /\ UNCHANGED <<https, daemon, key, cert, made, taken, changes>>

-----------------------------------------------------------------------------

Init ==
    /\ https = None /\ daemon = "up" /\ key = None /\ cert = None /\ made = 0
    /\ taken = {} /\ gw = Probing /\ changes = 0

Daemon == Start \/ Ensure \/ Save
GatewayTurn == probe \/ LoadCert \/ LoadKey \/ Bind \/ CheckTarget \/ CheckIdentity

Next ==
    \/ Daemon \/ CreateToken \/ DaemonStops \/ RemoveFile \/ GatewayRestarts \/ GatewayTurn
    \/ \E a \in Addresses \cup {None} : SetHttps(a)
    \/ \E a \in Addresses : OtherProgram(a)

\* The gateway goes round its loops, and a daemon that ended is started again: by its
\* unit after a failure, and after a clean stop, which is an assumption, by its
\* administrator.
Fairness == WF_vars(Daemon) /\ WF_vars(GatewayTurn)

Spec == Init /\ [][Next]_vars /\ Fairness

-----------------------------------------------------------------------------
(* Correctness.                                                            *)

\* What the gateway should do when nothing changes any more: with an address that is
\* free and a whole identity, listen there with that identity, else not at all.
Right ==
    IF https = None \/ cert = None \/ key # cert \/ https \in taken THEN ~Listening
    ELSE Listening /\ gw.target = https /\ gw.cert = cert

\* The gateway never listens with a certificate and another's key.
OwnKey == Listening => gw.cert = gw.key

\* Whenever addresses and identities change, files go missing one by one, the daemon
\* or the gateway ends and another program takes an address, the gateway gets to
\* what is right and stays there: it keeps no listener with an old address or an old
\* certificate.
Settles == <>[]Right
=============================================================================
