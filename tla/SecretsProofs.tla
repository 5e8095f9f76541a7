---------------------------- MODULE SecretsProofs ----------------------------
(***************************************************************************)
(* The directory of secrets implements the map of secrets for all names,   *)
(* values and versions, of the secrets that do not end in .tmp.            *)
(***************************************************************************)
EXTENDS Secrets, TLAPS

\* A name, the file of its version and the one beside are paths of the directory, and
\* the map keeps nothing under the latter two.
LEMMA NamesArePaths ==
    \A n \in Names : /\ n \in Paths /\ Meta(n) \in Paths /\ Tmp(n) \in Paths
                     /\ Meta(n) # Tmp(n) /\ Meta(n) \notin Kept /\ Tmp(n) \notin Kept
  BY SecretsAssumption DEF Names, Kept, Paths, Meta, Tmp, with_extension

\* What the file beside holds when it is about to be renamed over the value.
TmpHoldsValue == op.step = "rename" => files[Tmp(op.name)] = op.value

SecretsInv == TypeOK /\ TmpHoldsValue

\* An operation under way has the fields of its kind.
LEMMA OpFields ==
    ASSUME TypeOK
    PROVE  /\ op.step \in {"value", "rename", "meta", "rename_meta", "remove_meta"} =>
                op.name \in Names
           /\ op.step \in {"value", "rename", "meta", "rename_meta"} =>
                /\ op.value \in Values /\ op.version \in 1..MaxVersion
                /\ op \in [step : {"value", "rename", "meta", "rename_meta"}, name : Names,
                           value : Values, version : 1..MaxVersion]
  BY DEF TypeOK, Ops, Idle

\* A version is a number up to the bound.
LEMMA VersionType == ASSUME TypeOK, NEW n \in Names PROVE version(n) \in 0..MaxVersion
  BY SecretsAssumption DEF version

\* Writing or renaming files keeps the type of the directory.
LEMMA FileTypes ==
    ASSUME TypeOK, NEW p \in Paths, NEW q \in Paths
    PROVE  /\ \A t \in Contents : Write(p, t) => files' \in [Paths -> Contents]
           /\ Rename(p, q) => files' \in [Paths -> Contents]
<1>1. Absent \in Contents
  BY DEF Contents
<1> QED BY <1>1 DEF TypeOK, Write, Rename

\* The next step of an operation keeps its fields.
LEMMA NextStep ==
    ASSUME TypeOK, op.step \in {"value", "rename", "meta", "rename_meta"},
           NEW s \in {"value", "rename", "meta", "rename_meta"}, op' = [op EXCEPT !.step = s]
    PROVE  /\ op' \in Ops /\ op'.step = s /\ op'.name = op.name /\ op'.value = op.value
  BY OpFields DEF Ops

-----------------------------------------------------------------------------

\* The store starts empty.
LEMMA SecretsInit == Init => SecretsInv
  BY DEF Init, SecretsInv, TypeOK, TmpHoldsValue, Contents, Idle

\* Every step of the store preserves its invariant.
LEMMA SecretsNext == SecretsInv /\ [Next]_vars => SecretsInv'
<1> SUFFICES ASSUME SecretsInv, [Next]_vars PROVE SecretsInv'
  OBVIOUS
<1> USE DEF SecretsInv
<1>0. /\ Idle.step = "idle" /\ Idle \in Ops \cup {Idle}
      /\ Torn \in Contents /\ Values \subseteq Contents /\ 1..MaxVersion \subseteq Contents
      /\ Absent \in Contents
  BY SecretsAssumption DEF Idle, Contents
<1>1. CASE UNCHANGED vars
  BY <1>1 DEF vars, TypeOK, TmpHoldsValue
<1>2. ASSUME NEW n \in Names, NEW v \in Values, Begin(n, v) PROVE SecretsInv'
  <2> DEFINE k == IF version(n) < MaxVersion THEN version(n) + 1 ELSE MaxVersion
  <2>1. k \in 1..MaxVersion
    BY VersionType, SecretsAssumption
  <2>2. op' = [step |-> "value", name |-> n, value |-> v, version |-> k] /\ files' = files
    BY <1>2 DEF Begin
  <2> HIDE DEF k
  <2>3. op' \in Ops
    BY <2>1, <2>2 DEF Ops
  <2> QED BY <2>2, <2>3 DEF TypeOK, TmpHoldsValue
<1>3. ASSUME NEW n \in Names, remove(n) PROVE SecretsInv'
  <2>1. op' \in Ops /\ op'.step = "remove_meta"
    BY <1>3 DEF remove, Ops
  <2>2. files' \in [Paths -> Contents]
    BY <1>0, <1>3, NamesArePaths, FileTypes DEF remove
  <2> QED BY <2>1, <2>2 DEF TypeOK, TmpHoldsValue
<1>4. CASE WriteTmp
  <2>1. op.step = "value" /\ op.name \in Names /\ op.value \in Contents /\ Tmp(op.name) \in Paths
    BY <1>0, <1>4, OpFields, NamesArePaths DEF WriteTmp
  <2>2. CASE Write(Tmp(op.name), op.value) /\ op' = [op EXCEPT !.step = "rename"]
    <3>1. op' \in Ops /\ op'.step = "rename" /\ op'.name = op.name /\ op'.value = op.value
      BY <2>1, <2>2, NextStep
    <3>2. files' \in [Paths -> Contents]
      BY <2>1, <2>2, FileTypes
    <3>3. files'[Tmp(op.name)] = op.value
      BY <2>1, <2>2 DEF Write, TypeOK
    <3> QED BY <3>1, <3>2, <3>3 DEF TypeOK, TmpHoldsValue, Tmp, with_extension
  <2>3. CASE Write(Tmp(op.name), Torn) /\ op' = Idle
    <3>1. files' \in [Paths -> Contents]
      BY <1>0, <2>1, <2>3, FileTypes
    <3> QED BY <1>0, <2>3, <3>1 DEF TypeOK, TmpHoldsValue
  <2> QED BY <1>4, <2>2, <2>3 DEF WriteTmp
<1>5. CASE RenameValue
  <2>1. op.step = "rename" /\ op.name \in Paths /\ Tmp(op.name) \in Paths
    BY <1>5, OpFields, NamesArePaths DEF RenameValue
  <2>2. op' \in Ops /\ op'.step = "meta"
    BY <1>5, <2>1, NextStep DEF RenameValue
  <2>3. files' \in [Paths -> Contents]
    BY <1>5, <2>1, FileTypes DEF RenameValue
  <2> QED BY <2>2, <2>3 DEF TypeOK, TmpHoldsValue
<1>6. CASE WriteMeta
  <2>1. op.step = "meta" /\ op.version \in Contents /\ Tmp(op.name) \in Paths
    BY <1>0, <1>6, OpFields, NamesArePaths DEF WriteMeta
  <2>2. CASE Write(Tmp(op.name), op.version) /\ op' = [op EXCEPT !.step = "rename_meta"]
    <3>1. op' \in Ops /\ op'.step = "rename_meta"
      BY <2>1, <2>2, NextStep
    <3>2. files' \in [Paths -> Contents]
      BY <2>1, <2>2, FileTypes
    <3> QED BY <3>1, <3>2 DEF TypeOK, TmpHoldsValue
  <2>3. CASE Write(Tmp(op.name), Torn) /\ op' = Idle
    <3>1. files' \in [Paths -> Contents]
      BY <1>0, <2>1, <2>3, FileTypes
    <3> QED BY <1>0, <2>3, <3>1 DEF TypeOK, TmpHoldsValue
  <2> QED BY <1>6, <2>2, <2>3 DEF WriteMeta
<1>7. CASE RenameMeta
  <2>1. Meta(op.name) \in Paths /\ Tmp(op.name) \in Paths /\ op' = Idle
    BY <1>7, OpFields, NamesArePaths DEF RenameMeta
  <2>2. files' \in [Paths -> Contents]
    BY <1>7, <2>1, FileTypes DEF RenameMeta
  <2> QED BY <1>0, <2>1, <2>2 DEF TypeOK, TmpHoldsValue
<1>8. CASE RemoveMeta
  <2>1. Meta(op.name) \in Paths /\ op' = Idle
    BY <1>8, OpFields, NamesArePaths DEF RemoveMeta
  <2>2. files' \in [Paths -> Contents]
    BY <1>0, <1>8, <2>1, FileTypes DEF RemoveMeta
  <2> QED BY <1>0, <2>1, <2>2 DEF TypeOK, TmpHoldsValue
<1>9. CASE Interrupt
  BY <1>0, <1>9 DEF Interrupt, TypeOK, TmpHoldsValue
<1> QED BY <1>1, <1>2, <1>3, <1>4, <1>5, <1>6, <1>7, <1>8, <1>9 DEF Next, set, ensure

\* The steps that change a secret are the rename of its value and its removal; those
\* of a secret that ends in .tmp change no other.
LEMMA MapStep ==
    ASSUME SecretsInv, [Next]_vars
    PROVE  [Map!Next]_([n \in Kept |-> files[n]])
<1> DEFINE map == [n \in Kept |-> files[n]]
<1> USE DEF SecretsInv
<1>0. Kept \subseteq Names
  BY DEF Kept
<1>1. ASSUME NEW p \in Paths, p \notin Kept, NEW t, Write(p, t) PROVE map' = map
  BY <1>0, <1>1, NamesArePaths DEF Write, TypeOK
<1>2. ASSUME files' = files PROVE map' = map
  BY <1>2
<1>3. ASSUME NEW n \in Names, remove(n) PROVE Map!Next \/ map' = map
  <2>1. CASE n \notin Kept
    BY <1>1, <1>3, <2>1, NamesArePaths DEF remove
  <2>2. CASE n \in Kept
    <3>1. map[n] # Absent /\ map' = [map EXCEPT ![n] = Absent]
      BY <1>0, <1>3, <2>2, NamesArePaths DEF remove, Write, TypeOK
    <3> QED BY <2>2, <3>1 DEF Map!Next, Map!Delete
  <2> QED BY <2>1, <2>2
<1>4. CASE RenameValue
  <2>1. /\ op.name \in Names /\ op.value \in Values /\ files[Tmp(op.name)] = op.value
        /\ Tmp(op.name) \notin Kept
    BY <1>4, OpFields, NamesArePaths DEF RenameValue, TmpHoldsValue
  <2>2. \A n \in Kept : files'[n] = IF n = op.name THEN op.value ELSE files[n]
    BY <1>0, <1>4, <2>1, NamesArePaths DEF RenameValue, Rename, TypeOK
  <2>3. CASE op.name \notin Kept
    BY <2>2, <2>3
  <2>4. CASE op.name \in Kept
    <3>1. map' = [map EXCEPT ![op.name] = op.value]
      BY <2>2, <2>4
    <3> QED BY <2>1, <2>4, <3>1 DEF Map!Next, Map!Put
  <2> QED BY <2>3, <2>4
<1>5. CASE RenameMeta
  <2>1. op.name \in Names /\ Tmp(op.name) \notin Kept /\ Meta(op.name) \notin Kept
    BY <1>5, OpFields, NamesArePaths DEF RenameMeta
  <2> QED BY <1>0, <1>5, <2>1, NamesArePaths DEF RenameMeta, Rename, TypeOK
<1>6. CASE WriteTmp \/ WriteMeta
  <2>1. op.name \in Names /\ Tmp(op.name) \notin Kept /\ Tmp(op.name) \in Paths
    BY <1>6, OpFields, NamesArePaths DEF WriteTmp, WriteMeta
  <2> QED BY <1>1, <1>6, <2>1 DEF WriteTmp, WriteMeta
<1>7. CASE RemoveMeta
  <2>1. Meta(op.name) \notin Kept /\ Meta(op.name) \in Paths
    BY <1>7, OpFields, NamesArePaths DEF RemoveMeta
  <2> QED BY <1>1, <1>7, <2>1 DEF RemoveMeta
<1>8. CASE Interrupt \/ UNCHANGED vars \/ \E n \in Names, v \in Values : Begin(n, v)
  BY <1>2, <1>8 DEF Interrupt, vars, Begin
<1> QED BY <1>3, <1>4, <1>5, <1>6, <1>7, <1>8 DEF Next, set, ensure

\* Every run of the store, crashes included, is one of the map: no secret is lost, torn
\* or changed by an operation on another, whatever stems they share, except for those
\* whose own name ends in .tmp.
THEOREM StoreImplementsMap == Spec => ImplementsMap
<1>1. Init => Map!Init
  BY NamesArePaths DEF Init, Map!Init, Kept
<1>2. SecretsInv /\ [Next]_vars => [Map!Next]_([n \in Kept |-> files[n]])
  BY MapStep
<1> QED BY <1>1, <1>2, SecretsInit, SecretsNext, PTL DEF Spec, ImplementsMap, Map!Spec
=============================================================================
