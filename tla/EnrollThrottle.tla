--------------------------- MODULE EnrollThrottle ---------------------------
(***************************************************************************)
(* The gateway's limit on failed enrollments of one address: throttled     *)
(* prunes and counts the failures of the last ENROLL_WINDOW, the daemon is *)
(* asked, and record_failure adds a failure.  Each step takes the lock, and *)
(* the threads of other connections run between them.                      *)
(***************************************************************************)
EXTENDS Naturals, FiniteSets

CONSTANTS
    Conns,           \* connections from the address
    ENROLL_FAILURES,
    ENROLL_WINDOW    \* in ticks

VARIABLES
    pc,        \* where the enrollment of each connection is
    failures   \* Gateway.failures of the address: the age of each, by a number

vars == <<pc, failures>>

Count(list) == Cardinality(DOMAIN list)

Recent(list) == [i \in {j \in DOMAIN list : list[j] < ENROLL_WINDOW} |-> list[i]]

-----------------------------------------------------------------------------

\* Mutant: the failures are counted before the old ones are dropped, one too many.
MutEnroll(c) ==
    /\ pc[c] = "idle"
    /\ failures' = Recent(failures)
    /\ pc' = [pc EXCEPT ![c] = IF Count(failures) > ENROLL_FAILURES THEN "idle" ELSE "asking"]

\* enroll up to the daemon's answer.
Enroll(c) ==
    /\ pc[c] = "idle"
    /\ failures' = Recent(failures)
    /\ pc' = [pc EXCEPT ![c] = IF Count(Recent(failures)) >= ENROLL_FAILURES
                               THEN "idle" ELSE "asking"]

\* Enrolled, or an error that is not the client's (a conflict, no daemon).
NotCounted(c) ==
    /\ pc[c] = "asking"
    /\ pc' = [pc EXCEPT ![c] = "idle"]
    /\ UNCHANGED failures

\* Forbidden or Invalid: record_failure.
Failed(c) ==
    /\ pc[c] = "asking"
    /\ pc' = [pc EXCEPT ![c] = "idle"]
    /\ LET n == CHOOSE n \in 1..(Count(failures) + 1) : n \notin DOMAIN failures IN
       failures' = [i \in DOMAIN failures \cup {n} |-> IF i = n THEN 0 ELSE failures[i]]

Tick ==
    /\ failures' = [i \in DOMAIN failures |->
                       IF failures[i] < ENROLL_WINDOW THEN failures[i] + 1 ELSE failures[i]]
    /\ UNCHANGED pc

Init == pc = [c \in Conns |-> "idle"] /\ failures = [i \in {} |-> 0]

Next ==
    \/ \E c \in Conns : Enroll(c) \/ NotCounted(c) \/ Failed(c)
    \/ Tick

Spec == Init /\ [][Next]_vars

-----------------------------------------------------------------------------

Asking == {c \in Conns : pc[c] = "asking"}

\* Failures in a window exceed the limit, which README.md states (TenFailures), by
\* at most the connections that were let through together: one less than there are
\* connections.
NearLimit ==
    Count(Recent(failures)) + Cardinality(Asking)
        <= ENROLL_FAILURES + Cardinality(Conns) - 1

\* README: "Ten failures per minute per address are allowed."  Connections that are
\* let through together may all fail.
TenFailures == Count(Recent(failures)) <= ENROLL_FAILURES
=============================================================================
