-------------------------------- MODULE Logs --------------------------------
(***************************************************************************)
(* Reading and following the log of a container, by name.  The daemon       *)
(* answers from the captured log, which it addresses by position, or from  *)
(* the buffer of Pebble in a rock, which it addresses by time stamp; the    *)
(* answer says which it was.  The command line (follow_logs) and the        *)
(* gateway (logs) poll, while the container writes, ends, is started again, *)
(* is removed, and is run again under its name.                             *)
(* A line is its place in the order of everything written.  The time stamp  *)
(* of a Pebble entry is any number: stamps may be equal, go back, or not be *)
(* readable, which nanos makes 0.                                           *)
(***************************************************************************)
EXTENDS Naturals, Sequences, SequencesExt

CONSTANTS
    None,
    Stamps,    \* what nanos makes of the time of an entry
    MaxLines,  \* bound: lines written
    MaxLives   \* bound: containers that had the name

VARIABLES
    rock,      \* the image has Pebble
    stored, running,
    life,      \* ghost: which container has the name
    captured,  \* its captured log
    pebble,    \* the entries that its Pebble holds
    written,   \* lines written so far
    stamps,    \* the stamp of each, None for lines of a captured log
    follower

container == <<rock, stored, running, life, captured, pebble, written, stamps>>
vars == <<container, follower>>

Increasing(s) == \A i, j \in DOMAIN s : i < j => s[i] < s[j]

-----------------------------------------------------------------------------
(* The container.  Its captured log is opened for appending at each start; *)
(* Pebble's buffer goes with it.                                           *)

Write ==
    /\ running /\ written < MaxLines /\ written' = written + 1
    /\ \/ /\ captured' = Append(captured, written') /\ UNCHANGED pebble
          /\ stamps' = Append(stamps, None)
       \/ /\ rock /\ pebble' = Append(pebble, written') /\ UNCHANGED captured
          /\ \E t \in Stamps : stamps' = Append(stamps, t)
    /\ UNCHANGED <<rock, stored, running, life, follower>>

Exit ==
    /\ running /\ running' = FALSE /\ pebble' = <<>>
    /\ UNCHANGED <<rock, stored, life, captured, written, stamps, follower>>

Start ==
    /\ stored /\ ~running /\ running' = TRUE
    /\ UNCHANGED <<rock, stored, life, captured, pebble, written, stamps, follower>>

Rm ==
    /\ stored /\ ~running /\ stored' = FALSE /\ captured' = <<>>
    /\ UNCHANGED <<rock, running, life, pebble, written, stamps, follower>>

RunAgain ==
    /\ ~stored /\ life < MaxLives /\ life' = life + 1
    /\ stored' = TRUE /\ running' = TRUE
    /\ UNCHANGED <<rock, captured, pebble, written, stamps, follower>>

-----------------------------------------------------------------------------
(* The daemon's answer: data, next_offset and source, or None for an error. *)

\* The last n of a sequence; all of it without a tail.
LastOf(s, n) == IF n = None \/ n >= Len(s) THEN s ELSE SubSeq(s, Len(s) - n + 1, Len(s))

captured_logs(tail, offset) ==
    LET total == Len(captured)
        from == IF offset <= total THEN offset ELSE total
    IN [data |-> IF offset = None THEN LastOf(captured, tail)
                 ELSE SubSeq(captured, from + 1, total),
        next_offset |-> total, source |-> "Captured"]

\* The entries with a later stamp, in their order.
Later(s, after) ==
    LET kept == {i \in DOMAIN s : stamps[s[i]] > after}
        place == CHOOSE f \in UNION {[1..n -> kept] : n \in 0..Len(s)} :
                    Increasing(f) /\ \A i \in kept : \E j \in DOMAIN f : f[j] = i
    IN [j \in DOMAIN place |-> s[place[j]]]

\* The entries after the offset, and the latest stamp.
pebble_logs(tail, offset) ==
    LET after == IF offset = None THEN 0 ELSE offset
        data == Later(LastOf(pebble, IF offset = None THEN tail ELSE None), after)
        reached == {after} \cup {stamps[data[i]] : i \in DOMAIN data}
    IN [data |-> data, next_offset |-> CHOOSE t \in reached : \A u \in reached : t >= u,
        source |-> "Pebble"]

\* fetched: Pebble answers, which takes a running container.
op_logs(tail, offset, source, fetched) ==
    IF ~stored THEN None
    ELSE IF source = "Captured" \/ (source = "Auto" /\ ~rock) THEN captured_logs(tail, offset)
    ELSE IF rock /\ running /\ fetched THEN pebble_logs(tail, offset)
    ELSE IF rock /\ source = "Auto" THEN captured_logs(tail, offset)
    ELSE None

-----------------------------------------------------------------------------
(* The followers.                                                          *)

Fresh(by, follow, tail, source) ==
    [at |-> "first", by |-> by, follow |-> follow, tail |-> tail, source |-> source,
     offset |-> None, running |-> TRUE, out |-> <<>>,
     life |-> life, since |-> 0, due |-> 0]

\* What the follower was shown: since and due are ghosts, the position before the
\* first line it prints and the length of the log when it saw the container down.
Shown(r, at) ==
    [follower EXCEPT !.at = at, !.out = @ \o r.data, !.offset = r.next_offset,
                     !.source = r.source,
                     !.since = IF follower.offset = None THEN r.next_offset - Len(r.data) ELSE @]

\* Mutant: the source that was asked for is asked for again.
MutFirst(fetched) ==
    /\ follower.at = "first"
    /\ LET r == op_logs(follower.tail, None, follower.source, fetched) IN
       follower' = IF r = None THEN [follower EXCEPT !.at = "failed"]
                   ELSE [Shown(r, IF follower.by = "cli" THEN "check"
                                  ELSE IF ~follower.follow THEN "done"
                                  ELSE IF r.data = <<>> THEN "check" ELSE "read")
                           EXCEPT !.source = follower.source]
    /\ UNCHANGED container

\* The first request, with the tail and without an offset; later ones name the
\* source that answered.  The gateway ends here when it does not follow, and asks
\* for the state when there is nothing to show.
First(fetched) ==
    /\ follower.at = "first"
    /\ LET r == op_logs(follower.tail, None, follower.source, fetched) IN
       follower' = IF r = None THEN [follower EXCEPT !.at = "failed"]
                   ELSE Shown(r, IF follower.by = "cli" THEN "check"
                                 ELSE IF ~follower.follow THEN "done"
                                 ELSE IF r.data = <<>> THEN "check" ELSE "read")
    /\ UNCHANGED container

\* Ps.  The command line gives up on Pebble when the container is down.
Check ==
    /\ follower.at = "check"
    /\ follower' = [follower EXCEPT
                      !.running = running,
                      !.due = IF ~running THEN Len(captured) ELSE @,
                      !.at = IF follower.by = "cli"
                                /\ follower.source = "Pebble" /\ ~running
                             THEN "done" ELSE "read"]
    /\ UNCHANGED container

\* Ps fails: the gateway takes it for the end of the container.
CheckFails ==
    /\ follower.at = "check"
    /\ follower' = IF follower.by = "cli" THEN [follower EXCEPT !.at = "failed"]
                   ELSE [follower EXCEPT !.at = "read", !.running = FALSE]
    /\ UNCHANGED container

\* A later request.  The container was looked at before it, so that one that was
\* down then has nothing to add.
Read(fetched) ==
    /\ follower.at = "read"
    /\ LET r == op_logs(None, follower.offset, follower.source, fetched)
           over == ~follower.running \/ ~follower.follow
       IN follower' = IF r = None THEN [follower EXCEPT !.at = "failed"]
                      ELSE Shown(r, IF over THEN "done"
                                    ELSE IF follower.by = "cli" \/ r.data = <<>> THEN "check"
                                    ELSE "read")
    /\ UNCHANGED container

-----------------------------------------------------------------------------

Init ==
    /\ rock \in BOOLEAN
    /\ stored = TRUE /\ running = TRUE /\ life = 1
    /\ captured = <<>> /\ pebble = <<>> /\ written = 0 /\ stamps = <<>>
    /\ \E by \in {"cli", "gateway"}, follow \in BOOLEAN, tail \in {None, 1},
          source \in {"Auto", "Captured", "Pebble"} :
            follower = Fresh(by, follow, tail, source)

FollowerStep == Check \/ CheckFails \/ \E fetched \in BOOLEAN : First(fetched) \/ Read(fetched)

Next == Write \/ Exit \/ Start \/ Rm \/ RunAgain \/ FollowerStep

Spec == Init /\ [][Next]_vars

-----------------------------------------------------------------------------
(* Correctness.                                                            *)

\* The stamps of entries, as far as they can be read, do not go back.
NeverBack ==
    \A i, j \in DOMAIN stamps :
        i < j /\ stamps[i] # None /\ stamps[j] \notin {None, 0} => stamps[i] <= stamps[j]

\* A follower prints no line twice, through restarts of the container and through a
\* container run again under the name, and prints the lines in the order of the log: those
\* of Pebble too, as long as stamps do not go back or all entries were asked for.
\* While the name stays with one container it skips no line of a captured log; when it
\* ends because it saw the container down, nothing written until then is missing.  Of the
\* entries that Pebble still holds it skips, once it has printed an earlier one, only those
\* whose stamp is not later than that of a line printed before them: equal, gone back or
\* not readable.
FollowsWhole ==
    LET f == follower
        whole == f.life = life /\ stored /\ f.offset # None
    IN /\ \A i, j \in DOMAIN f.out : i # j => f.out[i] # f.out[j]
       /\ f.source # "Pebble" \/ f.tail = None \/ NeverBack => Increasing(f.out)
       /\ whole /\ f.source = "Captured" =>
            /\ f.out = SubSeq(captured, f.since + 1, f.offset)
            /\ f.at = "done" /\ f.follow => f.offset >= f.due
       /\ f.offset # None /\ f.source = "Pebble" =>
            \A i, j \in DOMAIN pebble :
                /\ i < j /\ Contains(f.out, pebble[i]) /\ stamps[pebble[j]] <= f.offset
                /\ \A k \in DOMAIN f.out :
                      f.out[k] < pebble[j] => stamps[f.out[k]] < stamps[pebble[j]]
                => Contains(f.out, pebble[j])
=============================================================================
