---------------------------- MODULE MCController ----------------------------
(***************************************************************************)
(* A small instance of Controller: three revisions, one of them bad, so    *)
(* that a rollout goes from a good revision to another good one, to a bad  *)
(* one, and back.  Which good revision comes first is a matter of names.   *)
(***************************************************************************)
EXTENDS Controller

CONSTANT MaxEvents  \* bound: edits and troubles taken together

MCInit == Init /\ file = "a"

\* The actions that fairness is about are neither edits nor troubles.
MCNext == Next /\ spent'.edits + Troubles' <= MaxEvents

MCSpec == MCInit /\ [][MCNext]_vars /\ Fairness
=============================================================================
