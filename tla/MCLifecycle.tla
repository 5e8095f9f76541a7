----------------------------- MODULE MCLifecycle -----------------------------
(***************************************************************************)
(* Small instances of Lifecycle.  Containers share nothing but the daemon,  *)
(* so one container shows the races between its own timers, requests and    *)
(* crashes; `which' says which of them leaves traces in a behaviour, and    *)
(* thereby of which kind it is: ephemeral and reaped when idle, or          *)
(* persistent.                                                              *)
(***************************************************************************)
EXTENDS Lifecycle

CONSTANTS
    Restarts,      \* the restart policy of the ephemeral containers
    KeptRestarts   \* and of the persistent ones

MCPolicy == [i \in Ids |-> IF i \in Persistent THEN KeptRestarts ELSE Restarts]

VARIABLE which

mcvars == <<vars, which>>

MCInit == Init /\ which \in Ids

MCNext ==
    /\ Next /\ UNCHANGED which
    /\ host'.stored \cup host'.dirs \cup host'.cgroup \cup acked' \subseteq {which}

MCSpec == MCInit /\ [][MCNext]_mcvars
MCFairSpec == MCSpec /\ Fairness
=============================================================================
