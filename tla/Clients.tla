------------------------------ MODULE Clients ------------------------------
(***************************************************************************)
(* The clients' side: the trust store, the throttle of enrollments, what a  *)
(* certificate may see and touch, a client's calls and its remotes, and     *)
(* what operates services from there: the recreate strategy of the          *)
(* controller and the autoscaler.  None of them shares state with another;  *)
(* each has its own specification, over the constants and variables here.   *)
(***************************************************************************)
EXTENDS Trust, FiniteSets

CONSTANTS
    None, Local,
    Conns, ENROLL_FAILURES, ENROLL_WINDOW,           \* EnrollThrottle
    Callers, Projects, LbNames, CtrIds, Volumes, ServerPath, ImageNames,  \* Access
    MaxRequests, MaxErrors,                          \* RemoteCall
    Procs, RemoteNames, Servers, Inodes, MaxTokens,  \* Remotes
    MaxSurge, MaxUnavailable, OnFailure, Desired, Revisions, Bad, HasDeadline, HasDelay,
    MaxEdits, MaxTroubles,                           \* Controller
    MinReplicas, MaxReplicas, UpWindow, DownWindow, UpStep, DownStep, Tolerance, Readings,
    Replicas                                         \* Autoscaler

VARIABLES
    pc, failures,                                               \* EnrollThrottle
    containers, secrets, configs, lbs, images, volumes, node, by,  \* Access
    conn, req, kinds, done, got, spoiled, errors,               \* RemoteCall
    content, yaml, tmp, proc, rm_tokens, minted, trusted, ever, overlapped, exposed, \* Remotes
    file, rep, ctl, plan, spent, served,                        \* Controller
    desired, history, made                                      \* Autoscaler

\* There are finitely many connections at a time, and the limit lets one through.
ASSUME ThrottleAssumption ==
    IsFiniteSet(Conns) /\ ENROLL_FAILURES \in Nat \ {0} /\ ENROLL_WINDOW \in Nat

\* A certificate has one of the roles; a local caller has none, and neither has an image
\* name that is not there one of the versions.
ASSUME AccessAssumption ==
    /\ None # "viewer" /\ None \notin {1, 2}
    /\ \A c \in Callers : c.role \in {"viewer", "operator", "admin"}

\* The bound on the requests of a client is a number.
ASSUME CallAssumption == MaxRequests \in Nat

\* What Rollout and Controller assume of a service.
ASSUME ServiceAssumption ==
    MaxSurge \in Nat /\ MaxUnavailable \in Nat /\ Desired \in Nat /\ HasDelay \in BOOLEAN

\* Targets are positive, and a tick reads finitely many metrics.
ASSUME ScaleAssumption ==
    /\ {MinReplicas, MaxReplicas, UpWindow, DownWindow, UpStep, DownStep, Tolerance, Replicas}
          \subseteq Nat
    /\ \A r \in Readings : /\ IsFiniteSet(r)
                           /\ \A x \in r : x[1] \in Nat /\ x[2] \in Nat \ {0}

\* What remotes.yaml may say.
Configs == [remotes : [RemoteNames -> Servers \cup {None}], default : RemoteNames \cup {Local}]

\* A remote that is not there is neither a server nor LOCAL, and no configuration;
\* nor is a file that is not there an inode.
ASSUME RemotesAssumption ==
    Local # None /\ None \notin Servers /\ None \notin Configs /\ None \notin Inodes

Throttle == INSTANCE EnrollThrottle

Rights == INSTANCE Access WITH Names <- CtrIds

Call == INSTANCE RemoteCall

User == INSTANCE Remotes WITH Names <- RemoteNames, tokens <- rm_tokens

Ctl == INSTANCE Controller WITH Strategy <- "recreate"

Scale == INSTANCE Autoscaler

throttle == <<pc, failures>>
rights == <<containers, secrets, configs, lbs, images, volumes, node, by>>
calls == <<conn, req, kinds, done, got, spoiled, errors>>
user == <<content, yaml, tmp, proc, rm_tokens, minted, trusted, ever, overlapped, exposed>>
service == <<file, rep, ctl, plan, spent, served>>
scaler == <<desired, history, made>>

-----------------------------------------------------------------------------
(* The properties of the parts, under their names.                         *)

\* Failed enrollments stay near the limit (EnrollThrottle).
NearLimit == Throttle!NearLimit

\* What README.md says of failed enrollments (EnrollThrottle).
TenFailures == Throttle!TenFailures

\* Requests of a restricted certificate see and touch its own projects only (Access).
Isolated == Rights!Isolated

\* What is said of load balancers in README.md (Access).
LbsConfined == Rights!LbsConfined

\* Answers go to their requests, and an enrollment happens once (RemoteCall).
CallsSound == Call!CallsSound

\* Every configuration that can be loaded is sound (Remotes).
RemotesSound == User!RemotesSound

\* Recreating never runs two revisions at once (Controller).
OneRevision == Ctl!OneRevision

\* The autoscaler is stable and bounded (Autoscaler).
ScalesStable == Scale!ScalesStable
=============================================================================
