---------------------------- MODULE ContainerMap ----------------------------
(***************************************************************************)
(* What the node store promises: a map from container ids to specs.  A     *)
(* call takes effect at once or not at all, whatever the moment of a       *)
(* crash, and a call that answers Ok has taken effect.  A reboot empties   *)
(* /run and with it forgets the ephemeral containers, and nothing else.    *)
(***************************************************************************)
CONSTANTS Ids, Specs, None, NoCall

VARIABLES
    stored,  \* the spec of each container, None: no such container
    call,    \* the call under way and whether it has taken effect
    reply    \* what the last call answered

Persistent(s) == s # None /\ s.persistent

NameFree(n) == n = "" \/ \A i \in Ids : stored[i] # None => stored[i].name # n

Calls == [kind : {"create", "update"}, id : Ids, spec : Specs, done : BOOLEAN]
         \cup [kind : {"remove"}, id : Ids, done : BOOLEAN]

Init == stored = [i \in Ids |-> None] /\ call = NoCall /\ reply = "none"

Ask(c) == call = NoCall /\ ~c.done /\ call' = c /\ reply' = "none" /\ UNCHANGED stored

Effect(c) ==
    \/ /\ c.kind = "create" /\ stored[c.id] = None /\ NameFree(c.spec.name)
       /\ stored' = [stored EXCEPT ![c.id] = c.spec]
    \/ /\ c.kind = "update" /\ stored[c.id] # None
       /\ stored' = [stored EXCEPT ![c.id] = c.spec]
    \/ /\ c.kind = "remove" /\ stored[c.id] # None
       /\ stored' = [stored EXCEPT ![c.id] = None]

Take ==
    /\ call # NoCall /\ ~call.done /\ Effect(call)
    /\ call' = [call EXCEPT !.done = TRUE]
    /\ UNCHANGED reply

Ok == call # NoCall /\ call.done /\ call' = NoCall /\ reply' = "ok" /\ UNCHANGED stored

Error == call # NoCall /\ call' = NoCall /\ reply' = "error" /\ UNCHANGED stored

Crash == call' = NoCall /\ reply' = "none" /\ UNCHANGED stored

Reboot ==
    /\ stored' = [i \in Ids |-> IF Persistent(stored[i]) THEN stored[i] ELSE None]
    /\ call' = NoCall /\ reply' = "none"

Next == (\E c \in Calls : Ask(c)) \/ Take \/ Ok \/ Error \/ Crash \/ Reboot

Spec == Init /\ [][Next]_<<stored, call, reply>>
=============================================================================
