------------------------------ MODULE SecretMap ------------------------------
(***************************************************************************)
(* What the secret store of a project promises: a map from names to        *)
(* values, in which an operation changes the secret that it names and no   *)
(* other, and every value is one that somebody gave.                       *)
(***************************************************************************)
CONSTANTS Names, Values, Absent

VARIABLE secrets

Init == secrets = [n \in Names |-> Absent]

Put(n, v) == secrets' = [secrets EXCEPT ![n] = v]

Delete(n) == secrets[n] # Absent /\ secrets' = [secrets EXCEPT ![n] = Absent]

Next == \E n \in Names : Delete(n) \/ \E v \in Values : Put(n, v)

Spec == Init /\ [][Next]_secrets
=============================================================================
