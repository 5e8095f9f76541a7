------------------------------ MODULE NodeStore ------------------------------
(***************************************************************************)
(* NodeStore of collocate-store: a container is the directory of its id    *)
(* under the state directory (persistent) or under /run (ephemeral), with  *)
(* spec.json and, under /run, runtime.json.  Every call is a sequence of   *)
(* file operations that a crash may cut; recover tidies up at the start.   *)
(* The daemon holds the lock and runs one call at a time.  atomic_write    *)
(* makes the file visible at its rename, which is the step modelled.       *)
(***************************************************************************)
CONSTANTS
    Ids,
    Specs,   \* records with name and persistent, and what update changes
    None,    \* no spec.json
    NoDir,   \* no such directory
    NoCall   \* no call under way

VARIABLES
    dir,     \* per base directory and id
    tmp,     \* the same for the directory .tmp-<id>
    trash,   \* ids under .trash
    op,      \* the call under way and its next step
    reply    \* what the last call answered

vars == <<dir, tmp, trash, op, reply>>

Bases == {"state", "run"}
Idle == [kind |-> "idle"]
Down == [kind |-> "down"]
Recovering == [kind |-> "recover"]
Running == op \notin {Idle, Down, Recovering}

base(s) == IF s.persistent THEN "state" ELSE "run"

HasSpec(b, i) == dir[b][i] # NoDir /\ dir[b][i].spec # None

\* What get and load_all read of a container: the first spec.json found.
Stored(i) ==
    IF HasSpec("state", i) THEN dir["state"][i].spec
    ELSE IF HasSpec("run", i) THEN dir["run"][i].spec ELSE None

spec_path(i) == CHOOSE b \in Bases : HasSpec(b, i)

SetDir(b, i, d) == dir' = [dir EXCEPT ![b][i] = d]
SetTmp(b, i, d) == tmp' = [tmp EXCEPT ![b][i] = d]
atomic_write(b, i, s) == dir' = [dir EXCEPT ![b][i].spec = s]
Goto(step) == op' = [op EXCEPT !.step = step] /\ UNCHANGED reply
Answer(r) == op' = Idle /\ reply' = r
At(kind, step) == Running /\ op.kind = kind /\ op.step = step

Call(kind, i, s, step) ==
    /\ op = Idle
    /\ op' = [kind |-> kind, id |-> i, spec |-> s, step |-> step]
    /\ reply' = "none"
    /\ UNCHANGED <<dir, tmp, trash>>

-----------------------------------------------------------------------------
(* create                                                                  *)

NameUsed(n) == n # "" /\ \E i \in Ids : Stored(i) # None /\ Stored(i).name = n

create(i, s) == Call("create", i, s, "check")

\* Mutant: the name is not looked up.
MutCreateCheck ==
    /\ At("create", "check")
    /\ IF Stored(op.id) # None THEN Answer("error") ELSE Goto("tmp")
    /\ UNCHANGED <<dir, tmp, trash>>

CreateCheck ==
    /\ At("create", "check")
    /\ IF Stored(op.id) # None \/ NameUsed(op.spec.name) THEN Answer("error") ELSE Goto("tmp")
    /\ UNCHANGED <<dir, tmp, trash>>

CreateTmp ==
    /\ At("create", "tmp")
    /\ SetTmp(base(op.spec), op.id, [spec |-> None, rt |-> FALSE])
    /\ Goto("write")
    /\ UNCHANGED <<dir, trash>>

CreateWrite ==
    /\ At("create", "write")
    /\ SetTmp(base(op.spec), op.id, [spec |-> op.spec, rt |-> FALSE])
    /\ Goto(IF dir[base(op.spec)][op.id] = NoDir THEN "rename" ELSE "place")
    /\ UNCHANGED <<dir, trash>>

\* A directory without spec.json is in the way.
CreatePlace ==
    /\ At("create", "place")
    /\ SetTmp(base(op.spec), op.id, NoDir)
    /\ Goto("rmdir")
    /\ UNCHANGED <<dir, trash>>

CreateRmdir ==
    /\ At("create", "rmdir")
    /\ IF dir[base(op.spec)][op.id].rt
         THEN Answer("error") /\ UNCHANGED dir
         ELSE Goto("tmp") /\ SetDir(base(op.spec), op.id, NoDir)
    /\ UNCHANGED <<tmp, trash>>

CreateRename ==
    /\ At("create", "rename")
    /\ SetDir(base(op.spec), op.id, tmp[base(op.spec)][op.id])
    /\ SetTmp(base(op.spec), op.id, NoDir)
    /\ Goto("return")
    /\ UNCHANGED trash

-----------------------------------------------------------------------------
(* update, remove and the runtime file                                     *)

\* The daemon writes back the spec of a container it read before: its name and
\* kind are the ones stored.
update(i, s) ==
    /\ Stored(i) # None => Stored(i).name = s.name /\ Stored(i).persistent = s.persistent
    /\ Call("update", i, s, "check")

UpdateWrite ==
    /\ At("update", "check")
    /\ IF Stored(op.id) = None
         THEN Answer("error") /\ UNCHANGED dir
         ELSE /\ atomic_write(spec_path(op.id), op.id, op.spec)
              /\ Goto("return")
    /\ UNCHANGED <<tmp, trash>>

remove(i) == Call("remove", i, None, "check")

RemoveCheck ==
    /\ At("remove", "check")
    /\ IF Stored(op.id) = None THEN Answer("error") ELSE Goto("trash")
    /\ UNCHANGED <<dir, tmp, trash>>

\* A rename over the directory of an earlier removal fails.
RemoveTrash ==
    /\ At("remove", "trash")
    /\ IF dir["state"][op.id] = NoDir THEN Goto("runtime") /\ UNCHANGED <<dir, trash>>
       ELSE IF op.id \in trash THEN Answer("error") /\ UNCHANGED <<dir, trash>>
       ELSE SetDir("state", op.id, NoDir) /\ trash' = trash \cup {op.id} /\ Goto("runtime")
    /\ UNCHANGED tmp

\* remove_dir_all of the directory under /run: its files in any order.
RemoveRuntime ==
    /\ At("remove", "runtime")
    /\ LET d == dir["run"][op.id] IN
       \/ d = NoDir /\ Goto("purge") /\ UNCHANGED dir
       \/ /\ d # NoDir /\ d.spec = None /\ ~d.rt
          /\ SetDir("run", op.id, NoDir) /\ Goto("purge")
       \/ /\ d # NoDir /\ d.spec # None
          /\ SetDir("run", op.id, [d EXCEPT !.spec = None]) /\ UNCHANGED <<op, reply>>
       \/ /\ d # NoDir /\ d.rt
          /\ SetDir("run", op.id, [d EXCEPT !.rt = FALSE]) /\ UNCHANGED <<op, reply>>
    /\ UNCHANGED <<tmp, trash>>

\* purge_trash, with which the daemon follows every remove.
PurgeTrash ==
    /\ At("remove", "purge")
    /\ IF trash = {} THEN Goto("return") /\ UNCHANGED trash
       ELSE \E i \in trash : trash' = trash \ {i} /\ UNCHANGED <<op, reply>>
    /\ UNCHANGED <<dir, tmp>>

Return ==
    /\ Running /\ op.step = "return"
    /\ Answer("ok")
    /\ UNCHANGED <<dir, tmp, trash>>

\* The daemon writes runtime.json for a container that it started from the store.
write_runtime(i) ==
    /\ op = Idle /\ Stored(i) # None
    /\ SetDir("run", i, [spec |-> IF dir["run"][i] = NoDir THEN None ELSE dir["run"][i].spec,
                         rt |-> TRUE])
    /\ UNCHANGED <<tmp, trash, op, reply>>

clear_runtime(i) ==
    /\ op = Idle /\ dir["run"][i] # NoDir /\ dir["run"][i].rt
    /\ SetDir("run", i, [dir["run"][i] EXCEPT !.rt = FALSE])
    /\ UNCHANGED <<tmp, trash, op, reply>>

-----------------------------------------------------------------------------
(* Crash, reboot and recovery                                              *)

Crash == op # Down /\ op' = Down /\ reply' = "none" /\ UNCHANGED <<dir, tmp, trash>>

\* /run is a tmpfs.
Reboot ==
    /\ dir' = [dir EXCEPT !["run"] = [i \in Ids |-> NoDir]]
    /\ tmp' = [tmp EXCEPT !["run"] = [i \in Ids |-> NoDir]]
    /\ op' = Down /\ reply' = "none"
    /\ UNCHANGED trash

open == op = Down /\ op' = Recovering /\ UNCHANGED <<dir, tmp, trash, reply>>

recover ==
    /\ op = Recovering
    /\ \/ \E b \in Bases, i \in Ids :
            tmp[b][i] # NoDir /\ SetTmp(b, i, NoDir) /\ UNCHANGED <<trash, op>>
       \/ /\ \A b \in Bases, i \in Ids : tmp[b][i] = NoDir
          /\ IF trash = {} THEN op' = Idle /\ UNCHANGED trash
             ELSE \E i \in trash : trash' = trash \ {i} /\ UNCHANGED op
          /\ UNCHANGED tmp
    /\ UNCHANGED <<dir, reply>>

-----------------------------------------------------------------------------

Init ==
    /\ dir = [b \in Bases |-> [i \in Ids |-> NoDir]]
    /\ tmp = [b \in Bases |-> [i \in Ids |-> NoDir]]
    /\ trash = {} /\ op = Down /\ reply = "none"

Next ==
    \/ \E i \in Ids :
         \/ remove(i) \/ write_runtime(i) \/ clear_runtime(i)
         \/ \E s \in Specs : create(i, s) \/ update(i, s)
    \/ CreateCheck \/ CreateTmp \/ CreateWrite \/ CreatePlace \/ CreateRmdir \/ CreateRename
    \/ UpdateWrite \/ RemoveCheck \/ RemoveTrash \/ RemoveRuntime \/ PurgeTrash \/ Return
    \/ Crash \/ Reboot \/ open \/ recover

Spec == Init /\ [][Next]_vars

-----------------------------------------------------------------------------
(* Correctness.                                                            *)

\* The call as the abstract map sees it: done once its one effective rename or
\* unlink is behind it.
Effective ==
    \/ op.step \in {"return", "purge"}
    \/ op.kind = "remove" /\ op.step = "runtime" /\ Stored(op.id) = None

AbstractCall ==
    IF ~Running THEN NoCall
    ELSE IF op.kind = "remove" THEN [kind |-> "remove", id |-> op.id, done |-> Effective]
    ELSE [kind |-> op.kind, id |-> op.id, spec |-> op.spec, done |-> Effective]

Map == INSTANCE ContainerMap WITH stored <- [i \in Ids |-> Stored(i)], call <- AbstractCall

\* create, update and remove are atomic through every crash of the daemon, in
\* the middle of a call or of recover, and through a reboot: a container is there
\* with a whole spec or not at all, names stay unique, and a call that answered
\* Ok has taken effect.
ImplementsContainerMap == Map!Spec

=============================================================================
