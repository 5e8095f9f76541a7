-------------------------------- MODULE Node --------------------------------
(***************************************************************************)
(* What a node keeps in files and processes: the secrets of a project, the  *)
(* store of containers, the image store, a command in a container, and the  *)
(* log of a container.  Each has its own files and processes, so a step of  *)
(* the node is a step of one of them and leaves the others alone.           *)
(***************************************************************************)
EXTENDS Secrets, Sequences

CONSTANTS
    None,                                       \* nothing
    Ids, Specs, NoDir, NoCall,                  \* NodeStore
    Workers, Images, Digests, LayersOf, Committed, Faults,   \* ImageStore
    MaxStarts,                                  \* Exec
    MaxLines, MaxRuns, Stamps                   \* Logs

VARIABLES
    dir, tmp, trash, call, reply,                                    \* NodeStore
    meta, layer, img_tmp, puller, img_daemon, excused, faults,       \* ImageStore
    life, alive, reaped, cgroup, reused, relay, worker,              \* Exec
    rock, stored, running, named, captured, pebble, written, stamps, follower  \* Logs

Store == INSTANCE NodeStore WITH op <- call

Image == INSTANCE ImageStore
    WITH Names <- Images, tmp <- img_tmp, worker <- puller, daemon <- img_daemon

Command == INSTANCE Exec WITH MaxLives <- MaxStarts

Log == INSTANCE Logs WITH MaxLives <- MaxRuns, life <- named

\* Values that stand for something missing are no values of the thing, an image is
\* a sequence of layers, and a container is started at least once.
ASSUME NodeAssumption ==
    /\ \A s \in Specs : s.persistent \in BOOLEAN
    /\ None \notin Specs \cup Nat
    /\ NoDir \notin [spec : Specs \cup {None}, rt : BOOLEAN]
    /\ NoCall \notin [kind : {"create", "update"}, id : Ids, spec : Specs, done : BOOLEAN]
    /\ NoCall \notin [kind : {"remove"}, id : Ids, done : BOOLEAN]
    /\ \A d \in Digests \cup {Committed} : LayersOf[d] \in Seq(Image!Layers)
    /\ LayersOf[Committed] # <<>>
    /\ \A s \in SUBSET Image!Whole : s # None
    /\ MaxStarts \in Nat \ {0} /\ MaxLines \in Nat /\ Stamps \subseteq Nat

-----------------------------------------------------------------------------

store == <<dir, tmp, trash, call, reply>>
images == <<meta, layer, img_tmp, puller, img_daemon, excused, faults>>
exec == <<life, alive, reaped, cgroup, reused, relay, worker>>
logs == <<rock, stored, running, named, captured, pebble, written, stamps, follower>>

nodeVars == <<files, op, store, images, exec, logs>>

SecretsStep == Next /\ UNCHANGED <<store, images, exec, logs>>
StoreStep   == Store!Next /\ UNCHANGED <<vars, images, exec, logs>>
ImageStep   == Image!Next /\ UNCHANGED <<vars, store, exec, logs>>
ExecStep    == Command!Next /\ UNCHANGED <<vars, store, images, logs>>
LogStep     == Log!Next /\ UNCHANGED <<vars, store, images, exec>>

NodeInit == Init /\ Store!Init /\ Image!Init /\ Command!Init /\ Log!Init

NodeNext == SecretsStep \/ StoreStep \/ ImageStep \/ ExecStep \/ LogStep

NodeSpec == NodeInit /\ [][NodeNext]_nodeVars

-----------------------------------------------------------------------------
(* The properties of the parts, under their names.                         *)

\* The node store's calls are atomic through crashes and reboots (NodeStore).
ImplementsContainerMap == Store!ImplementsContainerMap

\* Layers are whole, and an undisturbed pull is complete (ImageStore).
ImagesWhole == Image!ImagesWhole

\* A command runs in the start of the container that was meant (Exec).
ExecInside == Command!ExecInside

\* A follower of a log prints it once and in order, and skips no line that it can tell
\* from those it has printed (Logs).
FollowsWhole == Log!FollowsWhole
=============================================================================
