------------------------------- MODULE MCNode -------------------------------
(***************************************************************************)
(* A small instance of Node.  Its parts share no state, so `part' says      *)
(* which of them moves in a behaviour: the states that TLC explores are the *)
(* union of the states of the parts, not their product.  Two of the parts   *)
(* are the image store, with two pulls of one layer at a time and with one  *)
(* pull of two layers.                                                      *)
(***************************************************************************)
EXTENDS Node, TLC

CONSTANTS a, b, v1, v2, i1, i2, w1, w2

VARIABLE part

\* A name, or none, that two containers may both want.
MCSpecs == [name : {"", "web"}, persistent : BOOLEAN, ver : {0, 1}]

\* A commit adds a layer above the first.
MCLayersOf == "d" :> <<"base", "app">> @@ "e" :> <<"base">> @@ "dc" :> <<"base", "upper">>

-----------------------------------------------------------------------------

MCInit ==
    /\ part \in {"secrets", "store", "two pulls", "one pull", "exec", "logs"}
    /\ NodeInit
    /\ part # "logs" => rock /\ follower = Log!Fresh("cli", TRUE, None, "Auto")

TwoPulls == ImageStep /\ \A w \in Workers : puller'[w].at # "idle" => puller'[w].digest = "e"

OnePull == ImageStep /\ puller'[w2].at = "idle"

MCNext ==
    /\ UNCHANGED part
    /\ \/ part = "secrets" /\ SecretsStep
       \/ part = "store" /\ StoreStep
       \/ part = "two pulls" /\ TwoPulls
       \/ part = "one pull" /\ OnePull
       \/ part = "exec" /\ ExecStep
       \/ part = "logs" /\ LogStep

MCSpec == MCInit /\ [][MCNext]_<<nodeVars, part>>
=============================================================================
