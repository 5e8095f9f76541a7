----------------------------- MODULE MCBackends -----------------------------
(***************************************************************************)
(* Small instances of Backends: one load balancer over two containers,     *)
(* which differ in how they are checked.                                   *)
(***************************************************************************)
EXTENDS Backends

CONSTANTS a, b, l

AllServe == [x \in Balancers |-> Ids]

\* One container is checked by probes, the other by the daemon.
ExecAndNet == [c \in Ids |-> IF c = a THEN "exec" ELSE "net"]
=============================================================================
