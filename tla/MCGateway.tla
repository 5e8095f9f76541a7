------------------------------ MODULE MCGateway ------------------------------
(***************************************************************************)
(* Instances of Gateway: two connections of one client, which is what two  *)
(* threads need to disturb each other's lookups.  A logs stream takes the  *)
(* same steps as an exec stream, which stands for both.                    *)
(***************************************************************************)
EXTENDS Gateway, TLC

Symmetry == Permutations(Conns)
=============================================================================
