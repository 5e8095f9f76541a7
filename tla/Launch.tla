------------------------------- MODULE Launch -------------------------------
(***************************************************************************)
(* The start of a container: the daemon clones a child, gives it a network *)
(* and waits for its word on a socket; the child builds its root, drops    *)
(* its privileges and executes collocate-init, which closes the socket.    *)
(* collocate-init forks the program, passes signals on, reaps what dies in *)
(* the container and ends with the program's exit status.                  *)
(*                                                                         *)
(* The kernel is external: mounts, namespaces and commands of ip succeed   *)
(* or fail.  A process 1 without a handler ignores SIGTERM; a standard     *)
(* signal is pending at most once.                                         *)
(***************************************************************************)
EXTENDS Naturals, Sequences

CONSTANTS
    Codes,      \* exit statuses of the program, as strings
    MaxOrphans  \* bound on other processes of the container that end

VARIABLES
    parent,     \* the daemon in spawn and confirm
    child,      \* the child up to its execve
    word,       \* the message in each direction of the socket: "", "N" or "E"
    net,        \* "none", "veth" on the bridge, "inside" the child's namespace
    killed,     \* ghost: the child was killed from outside
    init,       \* collocate-init
    pending,    \* signals that wait for collocate-init
    prog,       \* the program: "none", "masked" (forked), "runs", "term", an exit status
    zombies     \* ended processes of the container that nobody waited for

vars == <<parent, child, word, net, killed, init, pending, prog, zombies>>
launching == <<parent, child, word, net, killed>>
inside == <<init, pending, prog, zombies>>

\* child_run: from unshare to execve.  "mounts" is every MountOp and the root,
\* "ids" the user, limits, bounding set and ids, "caps" the capabilities and
\* no_new_privs.
ChildSteps == <<"unshare", "await", "mounts", "pivot", "ids", "caps", "exec">>
Setting == {"unshare", "await", "mounts", "pivot", "ids", "caps", "exec"}
ChildAt(i) == ChildSteps[i] = child
Closed == child \in {"init", "dead"}   \* the child's end of the socket

-----------------------------------------------------------------------------
(* spawn                                                                   *)

\* Prepared::new and the veth pair; each may fail.
Prepare ==
    /\ parent = "start"
    /\ \/ net' = "veth" /\ parent' = "clone"
       \/ net' \in {"none", "veth"} /\ parent' = "err"
    /\ UNCHANGED <<child, word, killed, inside>>

clone3 ==
    /\ parent = "clone"
    /\ \/ parent' = "network" /\ child' = "unshare"
       \/ parent' = "err" /\ UNCHANGED child
    /\ UNCHANGED <<word, net, killed, inside>>

\* move_to_ns and in_ns_config; an error kills the child and removes the pair.
network ==
    /\ parent = "network"
    /\ \/ child # "dead" /\ net' = "inside" /\ parent' = "send" /\ UNCHANGED <<child, killed>>
       \/ net' = "none" /\ parent' = "err" /\ child' = "dead" /\ killed' = (child # "dead")
    /\ UNCHANGED <<word, inside>>

\* send_fd fails when the child is gone.
Send ==
    /\ parent = "send"
    /\ IF Closed THEN parent' = "err" /\ UNCHANGED word
       ELSE parent' = "confirm" /\ word' = [word EXCEPT !.down = "N"]
    /\ UNCHANGED <<child, net, killed, inside>>

\* Started::confirm: a message, the end of the stream, or neither in time.
Confirm ==
    /\ parent = "confirm"
    /\ \/ word.up = "E" /\ parent' = "err"
       \/ word.up = "" /\ Closed /\ parent' = "ok"
    /\ UNCHANGED <<child, word, net, killed, inside>>

ConfirmTimeout ==
    /\ parent = "confirm" /\ word.up = "" /\ ~Closed
    /\ parent' = "err" /\ child' = "dead" /\ killed' = TRUE
    /\ UNCHANGED <<word, net, inside>>

\* The daemon dies: its end of the socket closes.
DaemonDies ==
    /\ parent \in {"clone", "network", "send", "confirm"} /\ parent' = "gone"
    /\ UNCHANGED <<child, word, net, killed, inside>>

-----------------------------------------------------------------------------
(* child_run                                                               *)

Await ==
    /\ child = "await"
    /\ \/ word.down = "N" /\ child' = "mounts" /\ UNCHANGED word
       \/ /\ word.down = "" /\ parent \in {"err", "gone"}   \* launcher aborted
          /\ child' = "dead" /\ word' = [word EXCEPT !.up = "E"]
    /\ UNCHANGED <<parent, net, killed, inside>>

ChildStep(i) ==
    /\ child # "await" /\ i < Len(ChildSteps) /\ ChildAt(i)
    /\ child' = ChildSteps[i + 1]
    /\ UNCHANGED <<parent, word, net, killed, inside>>

execve ==
    /\ child = "exec" /\ child' = "init" /\ init' = "fresh"
    /\ UNCHANGED <<parent, word, net, killed, pending, prog, zombies>>

\* A step that fails: child_main sends the error and exits with 126.
ChildFails ==
    /\ child \in Setting
    /\ child' = "dead" /\ word' = [word EXCEPT !.up = "E"]
    /\ UNCHANGED <<parent, net, killed, inside>>

\* Killed from outside, for lack of memory or with its cgroup.
Killed ==
    /\ child \notin {"none", "dead"}
    /\ child' = "dead" /\ killed' = TRUE
    /\ init' = "none" /\ prog' = "none" /\ pending' = {} /\ zombies' = 0
    /\ UNCHANGED <<parent, word, net>>

-----------------------------------------------------------------------------
(* collocate-init                                                          *)

\* sigprocmask, then fork.
Block ==
    /\ init = "fresh" /\ init' = "blocked"
    /\ UNCHANGED <<launching, pending, prog, zombies>>

Fork ==
    /\ init = "blocked"
    /\ \/ init' = "waits" /\ prog' = "masked"
       \/ init' = "exited" /\ UNCHANGED prog
    /\ UNCHANGED <<launching, pending, zombies>>

\* The program gets the old mask and is executed, or cannot be.
Execvp ==
    /\ prog = "masked" /\ prog' = "runs"
    /\ UNCHANGED <<launching, init, pending, zombies>>

Dies(code) ==
    /\ prog' = code /\ zombies' = zombies + 1 /\ pending' = pending \cup {"CHLD"}
    /\ UNCHANGED <<launching, init>>

CannotExecute == prog = "masked" /\ Dies("127")
ProgExits(code) == prog \in {"runs", "term"} /\ Dies(code)

\* Another process of the container, adopted by collocate-init, ends.
OrphanExits ==
    /\ prog = "runs" /\ zombies < MaxOrphans
    /\ zombies' = zombies + 1 /\ pending' = pending \cup {"CHLD"}
    /\ UNCHANGED <<launching, init, prog>>

\* op_stop sends SIGTERM: lost before the signals are blocked.
Terminate ==
    /\ parent = "ok" /\ init \in {"fresh", "blocked", "waits"}
    /\ pending' = IF init = "fresh" THEN pending ELSE pending \cup {"TERM"}
    /\ UNCHANGED <<launching, init, prog, zombies>>

ForwardTerm ==
    /\ init = "waits" /\ "TERM" \in pending
    /\ pending' = pending \ {"TERM"}
    /\ prog' = IF prog \in {"masked", "runs"} THEN "term" ELSE prog
    /\ UNCHANGED <<launching, init, zombies>>

\* Mutant: one waitpid for each SIGCHLD.
MutReap ==
    /\ init = "waits" /\ "CHLD" \in pending
    /\ pending' = pending \ {"CHLD"} /\ zombies' = zombies - 1
    /\ \/ prog \in Codes \cup {"127"} /\ init' = "exited"
       \/ (prog \in Codes \cup {"127"} => zombies > 1) /\ UNCHANGED init
    /\ UNCHANGED <<launching, prog>>

\* waitpid until there is no more; the program's status ends collocate-init.
Reap ==
    /\ init = "waits" /\ "CHLD" \in pending
    /\ pending' = pending \ {"CHLD"} /\ zombies' = 0
    /\ init' = IF prog \in Codes \cup {"127"} THEN "exited" ELSE "waits"
    /\ UNCHANGED <<launching, prog>>

-----------------------------------------------------------------------------

Init ==
    /\ parent = "start" /\ child = "none" /\ word = [down |-> "", up |-> ""] /\ net = "none"
    /\ killed = FALSE /\ init = "none" /\ pending = {} /\ prog = "none" /\ zombies = 0

Next ==
    \/ Prepare \/ clone3 \/ network \/ Send \/ Confirm \/ ConfirmTimeout \/ DaemonDies
    \/ Await \/ (\E i \in 1..6 : ChildStep(i)) \/ execve \/ ChildFails \/ Killed
    \/ Block \/ Fork \/ Execvp \/ CannotExecute \/ (\E c \in Codes : ProgExits(c))
    \/ OrphanExits \/ Terminate \/ ForwardTerm \/ Reap

\* The daemon and collocate-init go on, and so does a child that waits for the
\* daemon; the child may hang in a mount and the program may run for ever.
Fairness ==
    /\ WF_vars(Prepare \/ clone3 \/ network \/ Send \/ Confirm \/ ConfirmTimeout)
    /\ WF_vars(Await)
    /\ WF_vars(Block \/ Fork) /\ WF_vars(Execvp \/ CannotExecute)
    /\ WF_vars(ForwardTerm) /\ WF_vars(Reap)

Spec == Init /\ [][Next]_vars /\ Fairness

-----------------------------------------------------------------------------
(* Correctness.                                                            *)

Ended == prog \in Codes \cup {"127"}

\* Every launch comes to be decided, and one that failed leaves no process of the
\* container behind: neither a child that waits for the network nor one that hangs.
\* In one that was confirmed, the program's exit is noticed although SIGCHLD of
\* several processes is one signal, and a SIGTERM that arrives once the signals are
\* blocked is passed on.
LaunchSettles ==
    <>[](/\ parent \in {"ok", "err", "gone"}
         /\ parent = "err" => child \in {"none", "dead"}
         /\ Ended => init \in {"exited", "none"}
         /\ "TERM" \in pending => prog = "term" \/ Ended \/ init \in {"exited", "none"})
=============================================================================
