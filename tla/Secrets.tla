------------------------------- MODULE Secrets -------------------------------
(***************************************************************************)
(* SecretStore of collocated: the directory of one project.  A secret is a *)
(* file with its value and a second one with its version, each written     *)
(* beside the file and renamed over it.  The names of the second file and  *)
(* of the one beside it are those of the secret with another extension     *)
(* (with_extension): a path here is a stem and an extension, "" for none.  *)
(*                                                                         *)
(* The daemon serves one request at a time, so one operation is under way; *)
(* it may be cut short between any two of its file operations, by a crash  *)
(* or by one that fails.                                                   *)
(***************************************************************************)
EXTENDS Naturals

CONSTANTS
    Stems, Exts,  \* the names that clients use
    Values,       \* values of secrets
    Absent,       \* no such file
    Torn,         \* a file written in part
    MaxVersion    \* bound: versions saturate here

ASSUME SecretsAssumption ==
    /\ "meta" \notin Exts
    /\ Absent \notin Values \cup Nat \cup {Torn}
    /\ MaxVersion \in Nat \ {0}

VARIABLES
    files,  \* the directory: what each path holds
    op      \* the operation under way, and the next of its steps

vars == <<files, op>>

\* The names that valid() accepts.
Names == Stems \X Exts
Paths == Stems \X (Exts \cup {"meta", "tmp"})

with_extension(p, ext) == <<p[1], ext>>
Meta(n) == with_extension(n, "meta")
Tmp(n) == with_extension(n, "tmp")

Contents == Values \cup (0..MaxVersion) \cup {Absent, Torn}

Idle == [step |-> "idle"]
Ops == [step : {"value", "rename", "meta", "rename_meta"}, name : Names, value : Values,
        version : 1..MaxVersion]
       \cup [step : {"remove_meta"}, name : Names]

version(n) == IF files[Meta(n)] \in 0..MaxVersion THEN files[Meta(n)] ELSE 0

Write(p, text) == files' = [files EXCEPT ![p] = text]

\* A path renamed to itself stays.
Rename(p, q) ==
    files' = [x \in Paths |-> IF x = q THEN files[p] ELSE IF x = p THEN Absent ELSE files[x]]

-----------------------------------------------------------------------------

\* write_value: the version is computed first.
Begin(n, v) ==
    /\ op = Idle
    /\ op' = [step |-> "value", name |-> n, value |-> v,
              version |-> IF version(n) < MaxVersion THEN version(n) + 1 ELSE MaxVersion]
    /\ UNCHANGED files

set(n, v) == Begin(n, v)

\* ensure, with the value that it generates.
ensure(n, v) == files[n] = Absent /\ Begin(n, v)

\* Mutant: the value is written in place.
MutWriteTmp ==
    /\ op.step = "value"
    /\ \/ Write(op.name, op.value) /\ op' = [op EXCEPT !.step = "meta"]
       \/ Write(op.name, Torn) /\ op' = Idle

\* write_private: the file beside, which a crash may leave torn.
WriteTmp ==
    /\ op.step = "value"
    /\ \/ Write(Tmp(op.name), op.value) /\ op' = [op EXCEPT !.step = "rename"]
       \/ Write(Tmp(op.name), Torn) /\ op' = Idle

RenameValue ==
    /\ op.step = "rename"
    /\ Rename(Tmp(op.name), op.name)
    /\ op' = [op EXCEPT !.step = "meta"]

WriteMeta ==
    /\ op.step = "meta"
    /\ \/ Write(Tmp(op.name), op.version) /\ op' = [op EXCEPT !.step = "rename_meta"]
       \/ Write(Tmp(op.name), Torn) /\ op' = Idle

RenameMeta ==
    /\ op.step = "rename_meta"
    /\ Rename(Tmp(op.name), Meta(op.name))
    /\ op' = Idle

\* remove: the value, then the version.
remove(n) ==
    /\ op = Idle /\ files[n] # Absent
    /\ Write(n, Absent)
    /\ op' = [step |-> "remove_meta", name |-> n]

RemoveMeta ==
    /\ op.step = "remove_meta"
    /\ Write(Meta(op.name), Absent)
    /\ op' = Idle

\* A crash, or a file operation that fails.
Interrupt ==
    /\ op # Idle
    /\ op' = Idle
    /\ UNCHANGED files

-----------------------------------------------------------------------------

Init == files = [p \in Paths |-> Absent] /\ op = Idle

Next ==
    \/ \E n \in Names : remove(n) \/ \E v \in Values : set(n, v) \/ ensure(n, v)
    \/ WriteTmp \/ RenameValue \/ WriteMeta \/ RenameMeta \/ RemoveMeta \/ Interrupt

Spec == Init /\ [][Next]_vars

-----------------------------------------------------------------------------
(* Correctness.                                                            *)

\* Every variable has its type.
TypeOK == files \in [Paths -> Contents] /\ op \in Ops \cup {Idle}

\* The secrets that no other secret shares a file with: a secret x.tmp is the file
\* beside x, x.key and every other name with its stem.
Kept == {n \in Names : n[2] # "tmp"}

\* The directory implements the map, for the secrets that do not end in .tmp: through
\* crashes, and whatever stems they share with each other or with one that does, each
\* changes only by an operation on it, at once, and to the value that was given.
Map == INSTANCE SecretMap WITH Names <- Kept, secrets <- [n \in Kept |-> files[n]]
ImplementsMap == Map!Spec
=============================================================================
