-------------------------- MODULE MemoryStoreProofs --------------------------
(***************************************************************************)
(* Theorems about the in-memory backend, for every value of the constants: *)
(* any number of kinds, keys and watchers, any log and channel size.  They *)
(* go from the data to what the backend promises to its watchers, and to   *)
(* the contract of store.go, which it implements.                          *)
(***************************************************************************)
EXTENDS MemoryStore, WatchLogProofs

callRecord == [op : {"Create", "Update", "UpdateStatus", "Delete"}, rv : Nat, generation : Nat,
               brings : SUBSET Labels]

(* A committed mutation of well-formed data leaves well-formed data.       *)
LEMMA CommitType ==
    ASSUME TypeOK, NEW gvk \in Kinds, NEW key \in Keys, NEW stored \in Object \cup {NoObject},
           NEW type \in {"ADDED", "MODIFIED", "DELETED"}, NEW event \in Object,
           NEW call \in callRecord, Commit(gvk, key, stored, type, event, call), uidCounter' \in Nat
    PROVE  TypeOK'
<1>1. LogTypeOK'
  BY EmitType, Zenon DEF Commit, TypeOK
<1>2. objects' \in [Kinds -> [Keys -> Object \cup {NoObject}]]
  BY Zenon DEF Commit, TypeOK
<1>3. calls' \in Seq(callRecord)
  BY AppendProperties, Zenon DEF Commit, TypeOK, callRecord
<1> QED
  BY <1>1, <1>2, <1>3, Zenon DEF TypeOK, callRecord

(* The object a key holds is an object or none.                            *)
LEMMA StoredType ==
    ASSUME TypeOK, NEW gvk \in Kinds, NEW key \in Keys, objects[gvk][key] # NoObject
    PROVE  objects[gvk][key] \in Object
  BY Zenon DEF TypeOK

(* Callers pass objects.                                                   *)
LEMMA InputType ==
    ASSUME TypeOK, NEW gvk \in Kinds, NEW key \in Keys
    PROVE  /\ \A in \in Inputs(gvk, key) : in \in Object /\ in.key = key /\ in.rv # 0 /\ in.uid = 0
           /\ \A in \in NewObjects(key) : in \in Object /\ in.key = key
<1>1. \A obj \in {objects[gvk][key]} \ {NoObject} : obj.generation \in Nat
  BY StoredType, Zenon DEF Object
<1>2. revision \in Nat
  BY Zenon DEF TypeOK, LogTypeOK
<1>3. \A in \in Inputs(gvk, key) : in \in Object /\ in.key = key /\ in.rv # 0 /\ in.uid = 0
  <2> TAKE in \in Inputs(gvk, key)
  <2>1. in.generation \in Nat
    BY <1>1 DEF Inputs
  <2> QED
    BY <1>2, <2>1 DEF Inputs, Object
<1>4. \A in \in NewObjects(key) : in \in Object /\ in.key = key
  <2> TAKE in \in NewObjects(key)
  <2>1. in.uid \in Nat
    BY BoundsAssumption, Zenon DEF NewObjects
  <2> QED
    BY <2>1 DEF NewObjects, Object
<1> QED
  BY <1>3, <1>4, Zenon

(* The merges of Update and UpdateStatus produce objects.                  *)
LEMMA MergedType ==
    ASSUME NEW stored \in Object, NEW in \in Object
    PROVE  UpdateMerged(stored, in) \in Object /\ UpdateStatusMerged(stored, in) \in Object
<1>1. [in EXCEPT !.status = stored.status] \in Object /\ [stored EXCEPT !.status = in.status] \in Object
  BY Zenon DEF Object
<1>2. \A src, dst \in Object : Decode(src, dst) \in Object
  BY ZenonT(30) DEF Decode, Object
<1>3. \A obj \in Object : [obj EXCEPT !.rv = stored.rv, !.uid = stored.uid] \in Object
  BY Zenon DEF Object
<1>4. \A obj \in Object :
        [obj EXCEPT !.rv = stored.rv, !.uid = stored.uid, !.generation = stored.generation] \in Object
  BY Zenon DEF Object
<1> QED
  BY <1>1, <1>2, <1>3, <1>4, Zenon DEF UpdateMerged, UpdateStatusMerged

(* Every stored object is filed under its own key.                         *)
Keyed ==
    \A gvk \in Kinds, key \in Keys :
        objects[gvk][key] # NoObject => objects[gvk][key].key = key

(***************************************************************************)
(* What every successful mutation amounts to: obj is the object of its     *)
(* event and, unless it is a delete, what the key holds afterwards.        *)
(***************************************************************************)
Mutation(gvk, key, type, obj, call) ==
    LET old == objects[gvk][key]
    IN  /\ Commit(gvk, key, IF type = "DELETED" THEN NoObject ELSE obj, type, obj, call)
        /\ uidCounter' \in Nat
        /\ obj \in Object /\ obj.key = key /\ obj.rv = revision + 1
        /\ call \in callRecord
        /\ type \in {"ADDED", "MODIFIED", "DELETED"}
        /\ type = "ADDED" <=> call.op = "Create"
        /\ type = "MODIFIED" <=> call.op \in {"Update", "UpdateStatus"}
        /\ type = "ADDED" => old = NoObject /\ obj.generation = 1 /\ obj.uid # 0 /\ call.rv = 0
        /\ type = "DELETED" => obj = [old EXCEPT !.rv = revision + 1]
        /\ type # "ADDED" => old # NoObject
        /\ call.rv # 0 => call.rv = old.rv
        /\ type = "MODIFIED" => call.rv # 0 /\ obj.uid = old.uid
        /\ type = "MODIFIED" /\ call.generation = old.generation => ~SameContent(old, obj)
        /\ ~OmitEmpty =>
              /\ type = "MODIFIED" =>
                    obj.generation = old.generation + (IF obj.spec = old.spec THEN 0 ELSE 1)
              /\ call.op = "Update" => obj.status = old.status
              /\ call.op = "UpdateStatus" => obj.spec = old.spec /\ obj.generation = old.generation
        /\ call.op = "UpdateStatus" /\ call.brings = {} => obj.labels = old.labels

(* Create is a mutation.                                                   *)
LEMMA CreateMutates ==
    ASSUME TypeOK, NEW gvk \in Kinds, NEW key \in Keys, NEW in \in NewObjects(key), Create(gvk, in)
    PROVE  \E obj, call : Mutation(gvk, key, "ADDED", obj, call)
<1> DEFINE uid == IF in.uid = 0 THEN uidCounter + 1 ELSE in.uid
           stored == [in EXCEPT !.uid = uid, !.generation = 1, !.rv = revision + 1]
<1>1. in \in Object /\ in.key = key
  BY InputType, Zenon
<1>2. /\ objects[gvk][key] = NoObject
      /\ uidCounter' = IF in.uid = 0 THEN uidCounter + 1 ELSE uidCounter
      /\ Commit(gvk, key, stored, "ADDED", stored, Call("Create", 0, 0, {}))
  BY <1>1, Zenon DEF Create
<1>3. uidCounter \in Nat /\ revision \in Nat
  BY Zenon DEF TypeOK, LogTypeOK
<1>4. uid \in Nat /\ uid # 0 /\ uidCounter' \in Nat
  BY <1>1, <1>2, <1>3 DEF Object
<1> HIDE DEF uid
<1>5. /\ stored \in Object /\ stored.key = key /\ stored.rv = revision + 1
      /\ stored.generation = 1 /\ stored.uid # 0
  <2>1. revision + 1 \in Nat BY <1>3
  <2> QED BY <1>1, <1>4, <2>1, Zenon DEF Object
<1>6. /\ Call("Create", 0, 0, {}) \in callRecord
      /\ Call("Create", 0, 0, {}).op = "Create" /\ Call("Create", 0, 0, {}).rv = 0
  BY Zenon DEF Call, callRecord
<1> HIDE DEF stored
<1>7. Mutation(gvk, key, "ADDED", stored, Call("Create", 0, 0, {}))
  BY <1>2, <1>4, <1>5, <1>6, Zenon DEF Mutation
<1> QED
  BY <1>7, Zenon

(* Update is a mutation.                                                   *)
LEMMA UpdateMutates ==
    ASSUME TypeOK, Keyed, NEW gvk \in Kinds, NEW key \in Keys,
           NEW in \in Object, in.key = key, in.rv # 0, Update(gvk, in)
    PROVE  \E obj, call : Mutation(gvk, key, "MODIFIED", obj, call)
<1> DEFINE old == objects[gvk][key]
           merged == UpdateMerged(old, in)
           obj == [merged EXCEPT !.generation = nextGeneration(old, in), !.rv = revision + 1]
           call == Call("Update", in.rv, in.generation, in.labels \ old.labels)
<1>1. in \in Object /\ in.key = key /\ in.rv # 0
  OBVIOUS
<1>2. /\ old # NoObject
      /\ in.rv = old.rv
      /\ ~contentEqual(old, merged)
      /\ Commit(gvk, key, obj, "MODIFIED", obj, call)
      /\ uidCounter' = uidCounter
  BY <1>1, Zenon DEF Update, Conflict
<1>3. old \in Object /\ old.key = key
  BY <1>2, StoredType, Zenon DEF Keyed
<1>4. uidCounter' \in Nat /\ revision \in Nat
  BY <1>2, Zenon DEF TypeOK, LogTypeOK
<1>5. merged \in Object
  BY <1>1, <1>3, MergedType, Zenon
<1>6. /\ merged.key = key /\ merged.uid = old.uid /\ merged.rv = old.rv
      /\ merged.spec = in.spec /\ merged.generation = in.generation
      /\ ~OmitEmpty => merged.status = old.status
  BY <1>1, <1>3, Zenon DEF UpdateMerged, Decode, Omitted, Object
<1>7. nextGeneration(old, in) \in Nat
  BY <1>1, <1>3 DEF nextGeneration, Object
<1> HIDE DEF merged, old
<1>8. /\ obj \in Object /\ obj.key = key /\ obj.rv = revision + 1 /\ obj.uid = old.uid
      /\ obj.generation = nextGeneration(old, in)
      /\ obj.spec = merged.spec /\ obj.status = merged.status /\ obj.labels = merged.labels
  <2>1. \A g, r \in Nat : LET o == [merged EXCEPT !.generation = g, !.rv = r]
                          IN  /\ o \in Object /\ o.key = key /\ o.rv = r /\ o.uid = old.uid
                              /\ o.generation = g
                              /\ o.spec = merged.spec /\ o.status = merged.status
                              /\ o.labels = merged.labels
    BY <1>5, <1>6, Zenon DEF Object
  <2>2. revision + 1 \in Nat BY <1>4
  <2> QED BY <1>7, <2>1, <2>2, Zenon
<1>9. call \in callRecord /\ call.op = "Update" /\ call.rv = in.rv /\ call.generation = in.generation
  <2>1. in.labels \ old.labels \in SUBSET Labels BY <1>1, Zenon DEF Object
  <2> QED BY <1>1, <2>1, Zenon DEF Call, callRecord, Object
<1>10. in.generation = old.generation => ~SameContent(old, obj)
  <2> SUFFICES ASSUME in.generation = old.generation, SameContent(old, obj) PROVE FALSE
    BY Zenon
  <2>1. merged.spec = old.spec /\ merged.status = old.status /\ merged.labels = old.labels
    BY <1>8, Zenon DEF SameContent
  <2>2. old = [merged EXCEPT !.rv = old.rv, !.uid = old.uid]
    BY <1>3, <1>5, <1>6, <2>1, Zenon DEF Object
  <2> QED
    BY <1>2, <2>2, Zenon DEF contentEqual
<1>11. obj.generation = old.generation + (IF obj.spec = old.spec THEN 0 ELSE 1)
  BY <1>3, <1>6, <1>8 DEF nextGeneration, Object
<1> HIDE DEF obj, call
<1>12. Mutation(gvk, key, "MODIFIED", obj, call)
  BY <1>1, <1>2, <1>4, <1>6, <1>8, <1>9, <1>10, <1>11, Zenon DEF Mutation, old
<1> QED
  BY <1>12, Zenon

(* UpdateStatus is a mutation.                                             *)
LEMMA UpdateStatusMutates ==
    ASSUME TypeOK, Keyed, NEW gvk \in Kinds, NEW key \in Keys,
           NEW in \in Object, in.key = key, in.rv # 0, UpdateStatus(gvk, in)
    PROVE  \E obj, call : Mutation(gvk, key, "MODIFIED", obj, call)
<1> DEFINE old == objects[gvk][key]
           merged == UpdateStatusMerged(old, in)
           obj == [merged EXCEPT !.rv = revision + 1]
           call == Call("UpdateStatus", in.rv, in.generation, in.labels \ old.labels)
<1>1. in \in Object /\ in.key = key /\ in.rv # 0
  OBVIOUS
<1>2. /\ old # NoObject
      /\ in.rv = old.rv
      /\ ~contentEqual(old, merged)
      /\ Commit(gvk, key, obj, "MODIFIED", obj, call)
      /\ uidCounter' = uidCounter
  BY <1>1, Zenon DEF UpdateStatus, Conflict
<1>3. old \in Object /\ old.key = key
  BY <1>2, StoredType, Zenon DEF Keyed
<1>4. uidCounter' \in Nat /\ revision \in Nat
  BY <1>2, Zenon DEF TypeOK, LogTypeOK
<1>5. merged \in Object
  BY <1>1, <1>3, MergedType, Zenon
<1>6. /\ merged.key = key /\ merged.uid = old.uid /\ merged.rv = old.rv
      /\ merged.generation = old.generation
      /\ merged.labels = old.labels \cup in.labels
      /\ ~OmitEmpty => merged.spec = old.spec
  BY <1>1, <1>3, Zenon DEF UpdateStatusMerged, Decode, Omitted, Object
<1> HIDE DEF merged, old
<1>7. /\ obj \in Object /\ obj.key = key /\ obj.rv = revision + 1 /\ obj.uid = old.uid
      /\ obj.generation = old.generation
      /\ obj.spec = merged.spec /\ obj.status = merged.status /\ obj.labels = merged.labels
  BY <1>4, <1>5, <1>6 DEF Object
<1>8. /\ call \in callRecord /\ call.op = "UpdateStatus" /\ call.rv = in.rv
      /\ call.brings = {} => obj.labels = old.labels
  <2>1. in.labels \ old.labels \in SUBSET Labels BY <1>1, Zenon DEF Object
  <2>2. in.labels \ old.labels = {} => old.labels \cup in.labels = old.labels
    OBVIOUS
  <2>3. call.brings = in.labels \ old.labels BY Zenon DEF Call
  <2>4. call \in callRecord /\ call.op = "UpdateStatus" /\ call.rv = in.rv
    BY <1>1, <2>1, Zenon DEF Call, callRecord, Object
  <2> HIDE DEF obj, call
  <2> QED BY <1>6, <1>7, <2>2, <2>3, <2>4, Zenon
<1>9. ~SameContent(old, obj)
  <2> SUFFICES ASSUME SameContent(old, obj) PROVE FALSE
    BY Zenon
  <2>1. merged.spec = old.spec /\ merged.status = old.status /\ merged.labels = old.labels
    BY <1>7, Zenon DEF SameContent
  <2>2. old = [merged EXCEPT !.rv = old.rv, !.uid = old.uid]
    BY <1>3, <1>5, <1>6, <2>1, Zenon DEF Object
  <2> QED
    BY <1>2, <2>2, Zenon DEF contentEqual
<1>10. ~OmitEmpty => obj.generation = old.generation + (IF obj.spec = old.spec THEN 0 ELSE 1)
  BY <1>3, <1>6, <1>7 DEF Object
<1> HIDE DEF obj, call
<1>11. Mutation(gvk, key, "MODIFIED", obj, call)
  BY <1>1, <1>2, <1>4, <1>6, <1>7, <1>8, <1>9, <1>10, Zenon DEF Mutation, old
<1> QED
  BY <1>11, Zenon

(* Delete is a mutation.                                                   *)
LEMMA DeleteMutates ==
    ASSUME TypeOK, Keyed, NEW gvk \in Kinds, NEW key \in Keys, NEW rv \in Nat,
           Delete(gvk, key, rv)
    PROVE  \E obj, call : Mutation(gvk, key, "DELETED", obj, call)
<1> DEFINE old == objects[gvk][key]
           obj == [old EXCEPT !.rv = revision + 1]
           call == Call("Delete", rv, 0, {})
<1>1. /\ old # NoObject
      /\ rv # 0 => rv = old.rv
      /\ Commit(gvk, key, NoObject, "DELETED", obj, call)
      /\ uidCounter' = uidCounter
  BY Zenon DEF Delete, deletedObj
<1>2. old \in Object /\ old.key = key
  BY <1>1, StoredType, Zenon DEF Keyed
<1>3. uidCounter' \in Nat /\ revision \in Nat
  BY <1>1, Zenon DEF TypeOK, LogTypeOK
<1>4. obj \in Object /\ obj.key = key /\ obj.rv = revision + 1
  BY <1>2, <1>3 DEF Object
<1>5. call \in callRecord /\ call.op = "Delete" /\ call.rv = rv
  BY <1>3 DEF Call, callRecord
<1> HIDE DEF call
<1>6. Mutation(gvk, key, "DELETED", obj, call)
  BY <1>1, <1>3, <1>4, <1>5, Zenon DEF Mutation
<1> QED
  BY <1>6, Zenon

(* Every call that changes the store is a mutation.                        *)
LEMMA MutateMutates ==
    ASSUME TypeOK, Keyed, Mutate
    PROVE  \E gvk \in Kinds, key \in Keys : \E type, obj, call : Mutation(gvk, key, type, obj, call)
<1>1. \A rv \in 0..revision : rv \in Nat
  OBVIOUS
<1>2. \A gvk \in Kinds, key \in Keys : \A in \in Inputs(gvk, key) : in \in Object /\ in.key = key /\ in.rv # 0
  BY InputType, ZenonT(30)
<1> QED
  BY <1>1, <1>2, CreateMutates, UpdateMutates, UpdateStatusMutates, DeleteMutates, Zenon DEF Mutate
-----------------------------------------------------------------------------
(***************************************************************************)
(* The inductive invariant of the store's data.  RevisionsDense makes the  *)
(* history an array indexed by revision, LogIsRecentHistory stamps every   *)
(* event's object with its revision, and StoreIsHistory then tells which   *)
(* write each stored object comes from.                                    *)
(***************************************************************************)
StoreInv ==
    /\ TypeOK
    /\ Keyed
    /\ RevisionsDense
    /\ LogIsRecentHistory
    /\ StoreIsHistory

(* What a mutation appends to the history, and that it rewrites nothing.   *)
LEMMA MutationEffect ==
    ASSUME StoreInv, NEW gvk \in Kinds, NEW key \in Keys, NEW type, NEW obj, NEW call,
           Mutation(gvk, key, type, obj, call)
    PROVE  LET r == revision + 1
               entry == [revision |-> r, gvk |-> gvk, event |-> [type |-> type, obj |-> obj]]
           IN  /\ TypeOK'
               /\ logEvent(entry) /\ entry \in eventLogEntry
               /\ revision \in Nat /\ revision' = r
               /\ DOMAIN history = 1..revision /\ DOMAIN history' = 1..r
               /\ Len(history') = r /\ Len(calls') = r
               /\ history'[r] = entry /\ calls'[r] = call
               /\ \A i \in 1..revision : history'[i] = history[i] /\ calls'[i] = calls[i]
               /\ objects' = [objects EXCEPT ![gvk][key] = IF type = "DELETED" THEN NoObject ELSE obj]
<1> DEFINE r == revision + 1
           event == [type |-> type, obj |-> obj]
           entry == [revision |-> r, gvk |-> gvk, event |-> event]
           new == IF type = "DELETED" THEN NoObject ELSE obj
<1>1. /\ Commit(gvk, key, new, type, obj, call)
      /\ obj \in Object /\ call \in callRecord /\ type \in {"ADDED", "MODIFIED", "DELETED"}
      /\ uidCounter' \in Nat
  BY Zenon DEF Mutation
<1>2. revision \in Nat /\ Len(history) = revision /\ Len(calls) = revision
  BY Zenon DEF StoreInv, TypeOK, LogTypeOK, RevisionsDense
<1>3. history \in Seq(eventLogEntry) /\ calls \in Seq(callRecord)
  BY Zenon DEF StoreInv, TypeOK, LogTypeOK, callRecord
<1>4. event \in Event
  BY <1>1, Zenon DEF Event
<1>5. entry \in eventLogEntry
  BY <1>2, <1>4 DEF eventLogEntry
<1>6. /\ revision' = r /\ logEvent(entry) /\ calls' = Append(calls, call)
      /\ objects' = [objects EXCEPT ![gvk][key] = new]
  BY <1>1, Zenon DEF Commit, Emit
<1>7. TypeOK'
  <2>1. new \in Object \cup {NoObject} BY <1>1, Zenon
  <2> HIDE DEF new
  <2> QED BY <1>1, <2>1, CommitType, Zenon DEF StoreInv
<1> HIDE DEF entry
<1>8. /\ history' \in Seq(eventLogEntry) /\ Len(history') = r
      /\ \A i \in 1..revision : history'[i] = history[i]
      /\ history'[r] = entry
  <2>1. history' = Append(history, entry) BY <1>6, Zenon DEF logEvent
  <2> QED BY <1>2, <1>3, <1>5, <2>1, AppendProperties
<1>9. /\ calls' \in Seq(callRecord) /\ Len(calls') = r
      /\ \A i \in 1..revision : calls'[i] = calls[i]
      /\ calls'[r] = call
  BY <1>1, <1>2, <1>3, <1>6, AppendProperties
<1>10. DOMAIN history = 1..revision /\ DOMAIN history' = 1..r
  BY <1>2, <1>3, <1>8, LenProperties, Zenon
<1> QED
  BY <1>2, <1>5, <1>6, <1>7, <1>8, <1>9, <1>10, Zenon DEF entry

(* A mutation preserves the invariant.                                     *)
LEMMA MutationInv ==
    ASSUME StoreInv, NEW gvk \in Kinds, NEW key \in Keys, NEW type, NEW obj, NEW call,
           Mutation(gvk, key, type, obj, call)
    PROVE  StoreInv'
<1> DEFINE r == revision + 1
           entry == [revision |-> r, gvk |-> gvk, event |-> [type |-> type, obj |-> obj]]
           new == IF type = "DELETED" THEN NoObject ELSE obj
<1>1. /\ TypeOK'
      /\ logEvent(entry) /\ entry \in eventLogEntry
      /\ revision \in Nat /\ revision' = r
      /\ DOMAIN history = 1..revision /\ DOMAIN history' = 1..r
      /\ Len(history') = r /\ Len(calls') = r
      /\ history'[r] = entry
      /\ \A i \in 1..revision : history'[i] = history[i]
      /\ objects' = [objects EXCEPT ![gvk][key] = new]
  BY MutationEffect
<1>2. obj \in Object /\ obj.key = key /\ obj.rv = r
  BY Zenon DEF Mutation
<1>3. objects \in [Kinds -> [Keys -> Object \cup {NoObject}]]
  BY Zenon DEF StoreInv, TypeOK
<1>4. /\ entry.revision = r /\ entry.gvk = gvk /\ entry.event.type = type
      /\ entry.event.obj = obj
  BY Zenon
<1> HIDE DEF entry
<1>5. Keyed'
  BY <1>1, <1>2, <1>3, Zenon DEF StoreInv, Keyed
<1>6. RevisionsDense'
  <2> SUFFICES ASSUME NEW i \in 1..r PROVE history'[i].revision = i
    BY <1>1, Zenon DEF RevisionsDense
  <2>1. CASE i = r
    BY <1>1, <1>4, <2>1, Zenon
  <2>2. CASE i # r
    <3>1. i \in 1..revision BY <1>1, <2>2
    <3> QED BY <1>1, <3>1, Zenon DEF StoreInv, RevisionsDense
  <2> QED BY <2>1, <2>2, Zenon
<1>7. LogIsRecentHistory'
  <2>1. revision < entry.revision /\ revision' = entry.revision /\ entry.event.obj.rv = entry.revision
    BY <1>1, <1>2, <1>4
  <2>2. LogTypeOK /\ LogIsRecentHistory
    BY Zenon DEF StoreInv, TypeOK
  <2> QED BY <1>1, <2>1, <2>2, LogEventRecent, Zenon
<1>8. StoreIsHistory'
  <2> SUFFICES ASSUME NEW g \in Kinds, NEW k \in Keys
               PROVE  /\ Writes(g, k)' = {} => objects'[g][k] = NoObject
                      /\ \A q \in Writes(g, k)' :
                            (\A p \in Writes(g, k)' : p <= q) =>
                               objects'[g][k] = IF history'[q].event.type = "DELETED" THEN NoObject
                                                ELSE history'[q].event.obj
    BY Zenon DEF StoreIsHistory
  <2>1. CASE g = gvk /\ k = key
    <3>1. r \in Writes(g, k)'
      BY <1>1, <1>2, <1>4, <2>1 DEF Writes
    <3>2. objects'[g][k] = new
      BY <1>1, <1>3, <2>1, Zenon
    <3>3. ASSUME NEW q \in Writes(g, k)', \A p \in Writes(g, k)' : p <= q
          PROVE  q = r
      <4>1. q \in 1..r BY <1>1, Zenon DEF Writes
      <4>2. r <= q BY <3>1, <3>3, Zenon
      <4> QED BY <1>1, <4>1, <4>2
    <3> QED BY <1>1, <1>4, <3>1, <3>2, <3>3, Zenon
  <2>2. CASE ~(g = gvk /\ k = key)
    <3>1. objects'[g][k] = objects[g][k]
      BY <1>1, <1>3, <2>2, Zenon
    <3>2. r \notin Writes(g, k)'
      BY <1>1, <1>2, <1>4, <2>2, Zenon DEF Writes
    <3>3. \A q \in 1..r : q # r => q \in 1..revision
      BY <1>1
    <3>4. \A q \in 1..revision : q \in 1..r
      BY <1>1
    <3>5. Writes(g, k)' = Writes(g, k)
      BY <1>1, <3>2, <3>3, <3>4, Zenon DEF Writes
    <3>6. \A q \in Writes(g, k) : history'[q] = history[q]
      BY <1>1, Zenon DEF Writes
    <3> QED BY <3>1, <3>5, <3>6 DEF StoreInv, StoreIsHistory
  <2> QED BY <2>1, <2>2, Zenon
<1> QED
  BY <1>1, <1>5, <1>6, <1>7, <1>8, Zenon DEF StoreInv

(* The consumers of watches do not touch the store's data.                 *)
LEMMA ConsumeInv ==
    ASSUME StoreInv, Consume, UNCHANGED dataVars
    PROVE  StoreInv'
<1>1. LogTypeOK'
  BY ConsumeType, Zenon DEF StoreInv, TypeOK
<1>2. UNCHANGED <<revision, eventLog, history, objects, uidCounter, calls>>
  BY ConsumeKeepsLog, Zenon DEF logVars, dataVars
<1>3. TypeOK'
  BY <1>1, <1>2, Zenon DEF StoreInv, TypeOK
<1>4. Keyed' /\ RevisionsDense'
  BY <1>2, Zenon DEF StoreInv, Keyed, RevisionsDense
<1>5. LogIsRecentHistory'
  BY <1>2, Zenon DEF StoreInv, LogIsRecentHistory
<1>6. StoreIsHistory'
  BY <1>2 DEF StoreInv, StoreIsHistory, Writes
<1> QED
  BY <1>3, <1>4, <1>5, <1>6, Zenon DEF StoreInv

(* A new store satisfies it.                                               *)
LEMMA NewStoreInv ==
    ASSUME NewStore
    PROVE  StoreInv
<1>1. /\ NewLog /\ revision = 0 /\ eventLog = <<>> /\ history = <<>> /\ calls = <<>>
      /\ objects = [gvk \in Kinds |-> [key \in Keys |-> NoObject]] /\ uidCounter = 0
  BY Zenon DEF NewStore, NewLog
<1>2. <<>> \in Seq(callRecord) /\ Len(<<>>) = 0 /\ DOMAIN <<>> = {}
  BY EmptySeq
<1>3. TypeOK
  BY <1>1, <1>2, NewLogType, Zenon DEF TypeOK, callRecord
<1>4. Keyed /\ RevisionsDense
  BY <1>1, <1>2, Zenon DEF Keyed, RevisionsDense
<1>5. LogIsRecentHistory
  BY <1>1, <1>2, WatchLogAssumption DEF LogIsRecentHistory
<1>6. StoreIsHistory
  BY <1>1, <1>2, Zenon DEF StoreIsHistory, Writes
<1> QED
  BY <1>3, <1>4, <1>5, <1>6, Zenon DEF StoreInv

(* Every step of the store preserves it.                                   *)
LEMMA StoreStep ==
    ASSUME StoreInv, [Next]_vars
    PROVE  StoreInv'
<1>1. CASE Mutate
  BY <1>1, MutateMutates, MutationInv, Zenon DEF StoreInv
<1>2. CASE Consume /\ UNCHANGED dataVars
  BY <1>2, ConsumeInv, Zenon
<1>3. CASE UNCHANGED vars
  <2>1. UNCHANGED <<revision, eventLog, history, watchers, watch, objects, uidCounter, calls>>
    BY <1>3, Zenon DEF vars, logVars, watchVars, dataVars
  <2>2. TypeOK' BY <2>1, Zenon DEF StoreInv, TypeOK, LogTypeOK
  <2>3. Keyed' /\ RevisionsDense' BY <2>1, Zenon DEF StoreInv, Keyed, RevisionsDense
  <2>4. LogIsRecentHistory' BY <2>1, Zenon DEF StoreInv, LogIsRecentHistory
  <2>5. StoreIsHistory' BY <2>1 DEF StoreInv, StoreIsHistory, Writes
  <2> QED BY <2>2, <2>3, <2>4, <2>5, Zenon DEF StoreInv
<1> QED
  BY <1>1, <1>2, <1>3, Zenon DEF Next

(* StoreInv is inductive.                                                  *)
THEOREM StoreInvariant == Spec => []StoreInv
<1>1. NewStore => StoreInv
  BY NewStoreInv, Zenon
<1>2. StoreInv /\ [Next]_vars => StoreInv'
  BY StoreStep, Zenon
<1> QED
  BY <1>1, <1>2, PTL DEF Spec

(* Types: every variable of the store keeps its shape.                     *)
THEOREM TypeCorrect == Spec => []TypeOK
  BY StoreInvariant, PTL DEF StoreInv

(* Every revision the store hands out belongs to exactly one event.        *)
THEOREM RevisionsAreDense == Spec => []RevisionsDense
  BY StoreInvariant, PTL DEF StoreInv

(* The bounded event log is always the recent part of the history.         *)
THEOREM LogIsRecent == Spec => []LogIsRecentHistory
  BY StoreInvariant, PTL DEF StoreInv

(* Replaying the history gives the store's contents.                       *)
THEOREM HistoryIsStore == Spec => []StoreIsHistory
  BY StoreInvariant, PTL DEF StoreInv
-----------------------------------------------------------------------------
(***************************************************************************)
(* What relates each write to the one before it of the same object.        *)
(***************************************************************************)
WriteInv ==
    /\ NoLostUpdate
    /\ NoopSuppressed
    /\ ~OmitEmpty => GenerationTracksSpec /\ SplitWrites

(* A mutation adds one pair of consecutive writes at most: the new write   *)
(* and the one that stored the object it replaces.                         *)
LEMMA NewConsecutive ==
    ASSUME StoreInv, NEW gvk \in Kinds, NEW key \in Keys, NEW type, NEW obj, NEW call,
           Mutation(gvk, key, type, obj, call), NEW pr \in Consecutives'
    PROVE  \/ /\ pr \in Consecutives
              /\ pr[1] \in DOMAIN history /\ pr[2] \in DOMAIN history
              /\ history'[pr[1]] = history[pr[1]] /\ history'[pr[2]] = history[pr[2]]
              /\ calls'[pr[2]] = calls[pr[2]]
           \/ /\ pr[2] = revision + 1 /\ pr[1] \in DOMAIN history
              /\ history'[pr[1]] = history[pr[1]] /\ pr[1] = history[pr[1]].event.obj.rv
              /\ objects[gvk][key] = IF history[pr[1]].event.type = "DELETED" THEN NoObject
                                     ELSE history[pr[1]].event.obj
<1> DEFINE r == revision + 1
           entry == [revision |-> r, gvk |-> gvk, event |-> [type |-> type, obj |-> obj]]
<1>1. /\ revision \in Nat
      /\ DOMAIN history = 1..revision /\ DOMAIN history' = 1..r
      /\ history'[r] = entry
      /\ \A i \in 1..revision : history'[i] = history[i] /\ calls'[i] = calls[i]
  BY MutationEffect
<1>2. entry.gvk = gvk /\ entry.event.obj = obj /\ obj.key = key
  BY Zenon DEF Mutation
<1> HIDE DEF entry
<1>3. pr \in (1..r) \X (1..r) /\ Consecutive(pr[1], pr[2])'
  BY <1>1, Zenon DEF Consecutives
<1> DEFINE p == pr[1]  q == pr[2]
<1>4. p \in 1..r /\ q \in 1..r /\ pr = <<p, q>>
  BY <1>3
<1> DEFINE W == {i \in 1..r : /\ history'[i].gvk = history'[q].gvk
                               /\ history'[i].event.obj.key = history'[q].event.obj.key}
<1>5. p < q /\ p \in W /\ \A i \in W : i <= p \/ i >= q
  BY <1>1, <1>3, Zenon DEF Consecutive, Writes
<1> HIDE DEF p, q
<1>6. p \in 1..revision
  BY <1>1, <1>4, <1>5
<1>7. \A i \in 1..revision : i \in 1..r
  BY <1>1
<1>8. CASE q # r
  <2>1. q \in 1..revision /\ history'[q] = history[q] /\ calls'[q] = calls[q]
    BY <1>1, <1>4, <1>8
  <2> DEFINE V == Writes(history[q].gvk, history[q].event.obj.key)
  <2>2. \A i \in 1..revision : i \in W <=> i \in V
    BY <1>1, <1>7, <2>1, Zenon DEF Writes
  <2>3. \A i \in V : i \in 1..revision
    BY <1>1, Zenon DEF Writes
  <2> HIDE DEF V, W
  <2>4. p \in V /\ \A i \in V : i <= p \/ i >= q
    BY <1>5, <1>6, <2>2, <2>3, Zenon
  <2>5. Consecutive(p, q)
    BY <1>5, <2>4, Zenon DEF Consecutive, V
  <2>6. pr \in Consecutives
    BY <1>1, <1>4, <1>6, <2>1, <2>5, Zenon DEF Consecutives, p, q
  <2> QED
    BY <1>1, <1>6, <2>1, <2>6, Zenon DEF p, q
<1>9. CASE q = r
  <2>1. \A i \in 1..revision : i \in W <=> i \in Writes(gvk, key)
    BY <1>1, <1>2, <1>7, <1>9, Zenon DEF Writes
  <2> HIDE DEF W
  <2>2. p \in Writes(gvk, key)
    BY <1>5, <1>6, <2>1, Zenon
  <2>3. \A i \in Writes(gvk, key) : i <= p
    <3> TAKE i \in Writes(gvk, key)
    <3>1. i \in 1..revision BY <1>1, Zenon DEF Writes
    <3>2. i \in W BY <2>1, <3>1, Zenon
    <3>3. ~(i >= q) BY <1>1, <1>9, <3>1
    <3> QED BY <1>5, <3>2, <3>3, Zenon
  <2>4. objects[gvk][key] = IF history[p].event.type = "DELETED" THEN NoObject ELSE history[p].event.obj
    BY <2>2, <2>3, Zenon DEF StoreInv, StoreIsHistory
  <2>5. p = history[p].event.obj.rv
    BY <1>1, <1>6, Zenon DEF StoreInv, RevisionsDense, LogIsRecentHistory
  <2> QED
    BY <1>1, <1>6, <1>9, <2>4, <2>5, Zenon DEF p, q
<1> QED
  BY <1>8, <1>9, Zenon

(* A mutation keeps the relations between consecutive writes.              *)
LEMMA MutationWriteInv ==
    ASSUME StoreInv, WriteInv, NEW gvk \in Kinds, NEW key \in Keys, NEW type, NEW obj, NEW call,
           Mutation(gvk, key, type, obj, call)
    PROVE  WriteInv'
<1> DEFINE r == revision + 1
           entry == [revision |-> r, gvk |-> gvk, event |-> [type |-> type, obj |-> obj]]
           old == objects[gvk][key]
<1>1. /\ revision \in Nat /\ DOMAIN history = 1..revision /\ DOMAIN history' = 1..r
      /\ history'[r] = entry /\ calls'[r] = call
      /\ \A i \in 1..revision : history'[i] = history[i] /\ calls'[i] = calls[i]
  BY MutationEffect
<1>2. entry.event.type = type /\ entry.event.obj = obj
  BY Zenon
<1> HIDE DEF entry
<1>3. /\ obj \in Object /\ call \in callRecord
      /\ type \in {"ADDED", "MODIFIED", "DELETED"}
      /\ type = "ADDED" <=> call.op = "Create"
      /\ type = "MODIFIED" <=> call.op \in {"Update", "UpdateStatus"}
      /\ type = "ADDED" => old = NoObject /\ obj.generation = 1 /\ call.rv = 0
      /\ type # "ADDED" => old # NoObject
      /\ call.rv # 0 => call.rv = old.rv
      /\ type = "MODIFIED" => call.rv # 0 /\ obj.uid = old.uid
      /\ type = "MODIFIED" /\ call.generation = old.generation => ~SameContent(old, obj)
      /\ ~OmitEmpty =>
            /\ type = "MODIFIED" =>
                  obj.generation = old.generation + (IF obj.spec = old.spec THEN 0 ELSE 1)
            /\ call.op = "Update" => obj.status = old.status
            /\ call.op = "UpdateStatus" => obj.spec = old.spec /\ obj.generation = old.generation
  BY Zenon DEF Mutation
<1> HIDE DEF old
<1>4. ASSUME NEW pr \in Consecutives', pr \notin Consecutives
      PROVE  /\ history'[pr[2]].event.type = type /\ history'[pr[2]].event.obj = obj
             /\ calls'[pr[2]] = call
             /\ type # "ADDED" =>
                   /\ history'[pr[1]].event.type # "DELETED"
                   /\ history'[pr[1]].event.obj = old
                   /\ pr[1] = old.rv
  BY <1>1, <1>2, <1>3, <1>4, NewConsecutive DEF old
<1>5. ASSUME NEW pr \in Consecutives', pr \in Consecutives
      PROVE  /\ pr[1] \in DOMAIN history /\ pr[2] \in DOMAIN history
             /\ history'[pr[1]] = history[pr[1]] /\ history'[pr[2]] = history[pr[2]]
             /\ calls'[pr[2]] = calls[pr[2]]
  BY <1>1, <1>5, Zenon DEF Consecutives
<1>6. NoLostUpdate'
  <2> SUFFICES ASSUME NEW pr \in Consecutives'
               PROVE  /\ calls'[pr[2]].rv # 0 => calls'[pr[2]].rv = pr[1]
                      /\ calls'[pr[2]].op # "Create" => history'[pr[1]].event.type # "DELETED"
                      /\ calls'[pr[2]].op \in {"Update", "UpdateStatus"} => calls'[pr[2]].rv # 0
    BY Zenon DEF NoLostUpdate
  <2>1. CASE pr \in Consecutives
    BY <1>5, <2>1, Zenon DEF WriteInv, NoLostUpdate
  <2>2. CASE pr \notin Consecutives
    BY <1>3, <1>4, <2>2, Zenon
  <2> QED BY <2>1, <2>2, Zenon
<1>7. NoopSuppressed'
  <2> SUFFICES ASSUME NEW pr \in Consecutives', history'[pr[2]].event.type = "MODIFIED",
                      calls'[pr[2]].generation = history'[pr[1]].event.obj.generation
               PROVE  ~SameContent(history'[pr[1]].event.obj, history'[pr[2]].event.obj)
    BY Zenon DEF NoopSuppressed, SameContent
  <2>1. CASE pr \in Consecutives
    BY <1>5, <2>1, Zenon DEF WriteInv, NoopSuppressed
  <2>2. CASE pr \notin Consecutives
    BY <1>3, <1>4, <2>2, Zenon
  <2> QED BY <2>1, <2>2, Zenon
<1>8. ASSUME ~OmitEmpty PROVE GenerationTracksSpec'
  <2>1. ASSUME NEW i \in DOMAIN history', history'[i].event.type = "ADDED"
        PROVE  history'[i].event.obj.generation = 1
    <3>1. CASE i = r
      BY <1>1, <1>2, <1>3, <2>1, <3>1, Zenon
    <3>2. CASE i # r
      <4>1. i \in DOMAIN history /\ history'[i] = history[i] BY <1>1, <3>2
      <4> QED BY <1>8, <2>1, <4>1, Zenon DEF WriteInv, GenerationTracksSpec
    <3> QED BY <3>1, <3>2, Zenon
  <2>2. ASSUME NEW pr \in Consecutives', history'[pr[2]].event.type = "MODIFIED"
        PROVE  LET a == history'[pr[1]].event.obj  b == history'[pr[2]].event.obj
               IN  b.generation = a.generation + (IF b.spec = a.spec THEN 0 ELSE 1) /\ b.uid = a.uid
    <3>1. CASE pr \in Consecutives
      BY <1>5, <1>8, <2>2, <3>1, ZenonT(30) DEF WriteInv, GenerationTracksSpec
    <3>2. CASE pr \notin Consecutives
      BY <1>3, <1>4, <1>8, <2>2, <3>2, Zenon
    <3> QED BY <3>1, <3>2, Zenon
  <2> QED BY <2>1, <2>2, Zenon DEF GenerationTracksSpec
<1>9. ASSUME ~OmitEmpty PROVE SplitWrites'
  <2> SUFFICES ASSUME NEW pr \in Consecutives'
               PROVE  LET a == history'[pr[1]].event.obj  b == history'[pr[2]].event.obj
                      IN  /\ calls'[pr[2]].op = "Update" => b.status = a.status
                          /\ calls'[pr[2]].op = "UpdateStatus" => b.spec = a.spec /\ b.generation = a.generation
    BY Zenon DEF SplitWrites
  <2>1. CASE pr \in Consecutives
    BY <1>5, <1>9, <2>1, Zenon DEF WriteInv, SplitWrites
  <2>2. CASE pr \notin Consecutives
    BY <1>3, <1>4, <1>9, <2>2, Zenon
  <2> QED BY <2>1, <2>2, Zenon
<1> QED
  BY <1>6, <1>7, <1>8, <1>9, Zenon DEF WriteInv

(* They are about the history and the calls alone.                         *)
LEMMA WriteInvKept ==
    ASSUME WriteInv, UNCHANGED <<history, calls>>
    PROVE  WriteInv'
<1>1. Consecutives' = Consecutives
  BY Zenon DEF Consecutives, Consecutive, Writes
<1>2. NoLostUpdate' BY <1>1, Zenon DEF WriteInv, NoLostUpdate
<1>3. NoopSuppressed' BY <1>1, Zenon DEF WriteInv, NoopSuppressed
<1>4. ~OmitEmpty => GenerationTracksSpec' BY <1>1, Zenon DEF WriteInv, GenerationTracksSpec
<1>5. ~OmitEmpty => SplitWrites' BY <1>1, Zenon DEF WriteInv, SplitWrites
<1> QED BY <1>2, <1>3, <1>4, <1>5, Zenon DEF WriteInv

(* In a new store nothing is written yet.                                  *)
LEMMA NewStoreWriteInv ==
    ASSUME NewStore
    PROVE  WriteInv
<1>1. DOMAIN history = {}
  BY EmptySeq DEF NewStore, NewLog
<1>2. Consecutives = {}
  BY <1>1, Zenon DEF Consecutives
<1> QED
  BY <1>1, <1>2, Zenon DEF WriteInv, NoLostUpdate, NoopSuppressed, GenerationTracksSpec, SplitWrites

(* No write is lost, no no-op takes a revision, and spec, status and       *)
(* generation keep to their own calls, whatever the types and sizes.       *)
THEOREM WriteInvariant == Spec => []WriteInv
<1>1. NewStore => WriteInv
  BY NewStoreWriteInv, Zenon
<1>2. StoreInv /\ WriteInv /\ [Next]_vars => WriteInv'
  <2> SUFFICES ASSUME StoreInv, WriteInv, [Next]_vars PROVE WriteInv'
    BY Zenon
  <2>1. CASE Mutate
    BY <2>1, MutateMutates, MutationWriteInv, Zenon DEF StoreInv
  <2>2. CASE UNCHANGED <<history, calls>>
    BY <2>2, WriteInvKept, Zenon
  <2>3. Consume /\ UNCHANGED dataVars => UNCHANGED <<history, calls>>
    BY ConsumeKeepsLog, Zenon DEF logVars, dataVars
  <2>4. UNCHANGED vars => UNCHANGED <<history, calls>>
    BY Zenon DEF vars, logVars, dataVars
  <2> QED
    BY <2>1, <2>2, <2>3, <2>4, Zenon DEF Next
<1> QED
  BY <1>1, <1>2, StoreInvariant, PTL DEF Spec

(* Optimistic concurrency works: a write that presents a resourceVersion   *)
(* is applied to that very version of the object (Update, UpdateStatus and *)
(* Delete).                                                                *)
THEOREM NoUpdateLost == Spec => []NoLostUpdate
  BY WriteInvariant, PTL DEF WriteInv

(* Writing back unchanged content under the generation read takes no       *)
(* revision (contentEqual).                                                *)
THEOREM NoopsSuppressed == Spec => []NoopSuppressed
  BY WriteInvariant, PTL DEF WriteInv

(* For types whose JSON tags omit no zero value, the generation counts the *)
(* changes of the spec (nextGeneration, UpdateStatus).                     *)
THEOREM GenerationCounts ==
    ASSUME ~OmitEmpty
    PROVE  Spec => []GenerationTracksSpec
<1>1. WriteInv => GenerationTracksSpec
  BY Zenon DEF WriteInv
<1> QED
  BY <1>1, WriteInvariant, PTL

(* For the same types Update never changes the status and UpdateStatus     *)
(* never changes the spec.                                                 *)
THEOREM WritesAreSplit ==
    ASSUME ~OmitEmpty
    PROVE  Spec => []SplitWrites
<1>1. WriteInv => SplitWrites
  BY Zenon DEF WriteInv
<1> QED
  BY <1>1, WriteInvariant, PTL
-----------------------------------------------------------------------------
(* The data and the watches are sound together.                            *)
BackendInv == StoreInv /\ WatchOK

(* A mutation keeps the watches sound.                                     *)
LEMMA MutationWatch ==
    ASSUME BackendInv, NEW gvk \in Kinds, NEW key \in Keys, NEW type, NEW obj, NEW call,
           Mutation(gvk, key, type, obj, call)
    PROVE  WatchOK'
<1>1. /\ Emit(gvk, type, obj) /\ obj \in Object /\ obj.rv = revision + 1
      /\ type \in {"ADDED", "MODIFIED", "DELETED"}
  BY Zenon DEF Mutation, Commit
<1>2. LogTypeOK /\ LogIsRecentHistory /\ WatchOK
  BY Zenon DEF BackendInv, StoreInv, TypeOK
<1> QED
  BY <1>1, <1>2, EmitWatch, Zenon

(* Every step of the store keeps the watches sound.                        *)
LEMMA WatchStep ==
    ASSUME BackendInv, [Next]_vars
    PROVE  WatchOK'
<1>1. CASE Mutate
  BY <1>1, MutateMutates, MutationWatch, Zenon DEF BackendInv, StoreInv
<1>2. CASE Consume /\ UNCHANGED dataVars
  BY <1>2, ConsumeWatch, Zenon DEF BackendInv, StoreInv, TypeOK
<1>3. CASE UNCHANGED vars
  <2>1. UNCHANGED <<revision, history, watchers, watch>>
    BY <1>3, Zenon DEF vars, logVars, watchVars
  <2> QED BY <2>1 DEF BackendInv, WatchOK, WatcherOK, Stream, Covered, Due
<1> QED
  BY <1>1, <1>2, <1>3, Zenon DEF Next

(* BackendInv is inductive.                                                *)
THEOREM BackendInvariant == Spec => []BackendInv
<1>1. NewStore => WatchOK
  BY NewLogWatch, Zenon DEF NewStore
<1>2. StoreInv /\ WatchOK /\ [Next]_vars => WatchOK'
  BY WatchStep, Zenon DEF BackendInv
<1> QED
  BY <1>1, <1>2, StoreInvariant, PTL DEF Spec, BackendInv

(* A watch delivers events of its kind it has not delivered before, in the *)
(* order of their revisions (Watch, send).                                 *)
THEOREM WatchesOrdered == Spec => []WatchOrdered
<1>1. BackendInv => WatchOrdered
  BY WatchPromise, Zenon DEF BackendInv, StoreInv, TypeOK
<1> QED
  BY <1>1, BackendInvariant, PTL

(* No event is missing between a consumer's position and the end of its    *)
(* channel, also when the channel overflowed or Stop raced a mutation.     *)
THEOREM WatchesHaveNoGap == Spec => []WatchNoGap
<1>1. BackendInv => WatchNoGap
  BY WatchPromise, Zenon DEF BackendInv, StoreInv, TypeOK
<1> QED
  BY <1>1, BackendInvariant, PTL

(* No stopped watcher stays registered and no open one is left out.        *)
THEOREM RegistryFollows == Spec => []RegistryMatches
<1>1. BackendInv => RegistryMatches
  BY WatchPromise, Zenon DEF BackendInv, StoreInv, TypeOK
<1> QED
  BY <1>1, BackendInvariant, PTL

(* Resuming from a revision gives exactly the events after it, or the      *)
(* error when some are gone (eventsSince).                                 *)
THEOREM ResumesExactly == Spec => []EventsSinceExact
<1>1. StoreInv => EventsSinceExact
  BY ExactFromLog, Zenon DEF StoreInv, TypeOK
<1> QED
  BY <1>1, StoreInvariant, PTL

(* The preload of a watch never blocks the store, however long the replay  *)
(* (chanCap, send).                                                        *)
THEOREM PreloadFits == Spec => []NeverBlocksOnPreload
<1>1. NewStore => NeverBlocksOnPreload
  BY EmptySeq DEF NewStore, NewLog, NoWatch, NeverBlocksOnPreload
<1>2. StoreInv /\ NeverBlocksOnPreload /\ [Next]_vars => NeverBlocksOnPreload'
  <2> SUFFICES ASSUME StoreInv, NeverBlocksOnPreload, [Next]_vars PROVE NeverBlocksOnPreload'
    BY Zenon
  <2>1. LogTypeOK BY Zenon DEF StoreInv, TypeOK
  <2>2. CASE Mutate
    BY <2>1, <2>2, MutateMutates, EmitFits DEF StoreInv, Mutation, Commit
  <2>3. CASE Consume /\ UNCHANGED dataVars
    BY <2>1, <2>3, ConsumeFits, Zenon
  <2>4. CASE UNCHANGED vars
    BY <2>4, Zenon DEF vars, watchVars, NeverBlocksOnPreload
  <2> QED
    BY <2>2, <2>3, <2>4, Zenon DEF Next
<1> QED
  BY <1>1, <1>2, StoreInvariant, PTL DEF Spec
-----------------------------------------------------------------------------
(* What the contract sees of a watch.                                      *)
Subscription ==
    [w \in Watchers |->
       [open |-> watch[w].stage \in {"open", "stopping"},
        gvk |-> watch[w].gvk, sel |-> watch[w].sel, cursor |-> watch[w].cursor]]

(* Sending an event moves no consumer.                                     *)
LEMMA EmitKeeps ==
    ASSUME LogTypeOK, NEW gvk \in Kinds, NEW type, NEW obj, Emit(gvk, type, obj), NEW w \in Watchers
    PROVE  /\ watch'[w].stage = watch[w].stage /\ watch'[w].gvk = watch[w].gvk
           /\ watch'[w].sel = watch[w].sel /\ watch'[w].cursor = watch[w].cursor
<1> DEFINE event == [type |-> type, obj |-> obj]
           active == {x \in watchers[gvk] : ~watch[x].closed}
<1>1. watch' = [x \in Watchers |-> IF x \in active THEN send(watch[x], event) ELSE watch[x]]
  BY Zenon DEF Emit, notifyWatchers
<1> HIDE DEF event
<1>2. watch[w] \in memoryWatcher
  BY Zenon DEF LogTypeOK
<1> QED
  BY <1>1, <1>2, SendFacts

LEMMA EmitSubscription ==
    ASSUME LogTypeOK, NEW gvk \in Kinds, NEW type, NEW obj, Emit(gvk, type, obj)
    PROVE  Subscription' = Subscription
  BY EmitKeeps, Zenon DEF Subscription

(* A mutation that writes back what was read, with changes, is a mutation  *)
(* of the contract.                                                        *)
LEMMA MutationContract ==
    ASSUME ~OmitEmpty, StoreInv, NEW gvk \in Kinds, NEW key \in Keys, NEW type, NEW obj, NEW call,
           Mutation(gvk, key, type, obj, call), WritesBack
    PROVE  Contract!Mutate
<1> DEFINE old == objects[gvk][key]
<1>1. /\ Emit(gvk, type, obj)
      /\ obj \in Object /\ obj.key = key /\ obj.rv = revision + 1 /\ call \in callRecord
      /\ type \in {"ADDED", "MODIFIED", "DELETED"}
      /\ type = "ADDED" => old = NoObject /\ obj.uid # 0
      /\ type = "DELETED" => obj = [old EXCEPT !.rv = revision + 1]
      /\ type # "ADDED" => old # NoObject
      /\ call.rv # 0 => call.rv = old.rv
      /\ type = "MODIFIED" => call.rv # 0 /\ obj.uid = old.uid
      /\ type = "ADDED" <=> call.op = "Create"
      /\ type = "MODIFIED" <=> call.op \in {"Update", "UpdateStatus"}
      /\ type = "MODIFIED" /\ call.generation = old.generation => ~SameContent(old, obj)
      /\ call.op = "UpdateStatus" /\ call.brings = {} => obj.labels = old.labels
      /\ type = "MODIFIED" =>
            obj.generation = old.generation + (IF obj.spec = old.spec THEN 0 ELSE 1)
      /\ call.op = "Update" => obj.status = old.status
      /\ call.op = "UpdateStatus" => obj.spec = old.spec /\ obj.generation = old.generation
  BY Zenon DEF Mutation, Commit
<1>2. /\ revision \in Nat /\ revision' = revision + 1
      /\ objects' = [objects EXCEPT ![gvk][key] = IF type = "DELETED" THEN NoObject ELSE obj]
  BY Zenon DEF Mutation, Commit, Emit, StoreInv, TypeOK, LogTypeOK
<1>3. history' = Append(history, [revision |-> revision', gvk |-> gvk, event |-> [type |-> type, obj |-> obj]])
  BY <1>1, <1>2, Zenon DEF Emit, logEvent
<1>4. Subscription' = Subscription
  BY <1>1, EmitSubscription, Zenon DEF StoreInv, TypeOK
<1>5. revision' > revision /\ obj.rv = revision'
  BY <1>1, <1>2
<1> DEFINE r == revision + 1
<1>entry. /\ Len(calls') = r /\ calls'[r] = call
          /\ history'[r] = [revision |-> r, gvk |-> gvk, event |-> [type |-> type, obj |-> obj]]
  BY MutationEffect
<1> HIDE DEF r
<1>6. Contract!call = call /\ calls' = Append(calls, Contract!call)
  <2>1. calls' = Append(calls, call) BY Zenon DEF Mutation, Commit
  <2> QED BY <1>entry, <2>1, Zenon DEF Contract!call
<1>7. /\ calls' # calls
      /\ call.op = "Update" => call.generation = old.generation
      /\ call.op = "UpdateStatus" => call.brings = {}
  <2>1. Len(calls) = revision BY Zenon DEF StoreInv, RevisionsDense
  <2>2. calls' # calls BY <1>2, <1>entry, <2>1 DEF r
  <2>3. history'[r].gvk = gvk /\ history'[r].event.obj.key = key BY <1>1, <1>entry
  <2> QED BY <1>entry, <2>2, <2>3, Zenon DEF WritesBack
<1>8. Contract!Happened(gvk, key, type, obj)
  BY <1>1, <1>2, <1>3, <1>4, <1>5, <1>6, Zenon DEF Contract!Happened, Subscription
<1>9. type # "DELETED" => obj \in {objects'[gvk][key]} \ {NoObject}
  <2>1. objects \in [Kinds -> [Keys -> Object \cup {NoObject}]] BY Zenon DEF StoreInv, TypeOK
  <2>2. obj # NoObject BY <1>1, NoObjectAssumption, Zenon DEF Object
  <2> QED BY <1>2, <2>1, <2>2, Zenon
<1>10. CASE type = "ADDED"
  <2>1. Contract!Create(gvk, key, obj) BY <1>1, <1>6, <1>8, <1>10, Zenon DEF Contract!Create
  <2> QED BY <1>7, <1>9, <1>10, <2>1, Zenon DEF Contract!Mutate
<1>11. CASE type = "MODIFIED" /\ call.op = "Update"
  <2>1. obj.spec # old.spec \/ obj.labels # old.labels BY <1>1, <1>7, <1>11, Zenon DEF SameContent
  <2>2. Contract!Update(gvk, key, obj) BY <1>1, <1>6, <1>8, <1>11, <2>1, Zenon DEF Contract!Update
  <2> QED BY <1>7, <1>9, <1>11, <2>2, Zenon DEF Contract!Mutate
<1>12. CASE type = "MODIFIED" /\ call.op = "UpdateStatus"
  <2>1. Contract!UpdateStatus(gvk, key, obj) BY <1>1, <1>6, <1>7, <1>8, <1>12, Zenon DEF Contract!UpdateStatus
  <2> QED BY <1>7, <1>9, <1>12, <2>1, Zenon DEF Contract!Mutate
<1>13. CASE type = "DELETED"
  <2>1. call.op = "Delete" BY <1>1, <1>13 DEF callRecord
  <2>2. Contract!Delete(gvk, key) BY <1>1, <1>2, <1>6, <1>8, <1>13, <2>1, Zenon DEF Contract!Delete
  <2> QED BY <1>7, <2>2, Zenon DEF Contract!Mutate
<1> QED
  BY <1>1, <1>10, <1>11, <1>12, <1>13, Zenon

(* Fields of what the contract sees.                                       *)
LEMMA SubscriptionFields ==
    ASSUME NEW w \in Watchers
    PROVE  /\ Subscription[w].open = (watch[w].stage \in {"open", "stopping"})
           /\ Subscription[w].gvk = watch[w].gvk /\ Subscription[w].sel = watch[w].sel
           /\ Subscription[w].cursor = watch[w].cursor
  BY Zenon DEF Subscription

(* Opening a watch is the contract's Watch.                                *)
LEMMA OpenContract ==
    ASSUME LogTypeOK, NEW w \in Watchers, NEW gvk, NEW sel, NEW replay, NEW cursor \in 0..revision,
           openWatch(w, gvk, sel, replay, cursor), UNCHANGED dataVars
    PROVE  Contract!Watch(w)
<1>1. /\ watch[w].stage \in {"free", "stopped"}
      /\ watch' = [watch EXCEPT ![w] =
                     [stage |-> "open", gvk |-> gvk, sel |-> sel, ch |-> replay,
                      cap |-> chanCap(replay), closed |-> FALSE, cursor |-> cursor]]
      /\ UNCHANGED <<objects, revision, history, calls>>
  BY Zenon DEF openWatch, logVars, dataVars
<1>2. watch \in [Watchers -> memoryWatcher]
  BY Zenon DEF LogTypeOK
<1>3. watch'[w].stage = "open" /\ watch'[w].cursor = cursor
  BY <1>1, <1>2, Zenon
<1>4. \A x \in Watchers : x # w => watch'[x] = watch[x]
  BY <1>1, <1>2, Zenon
<1>5. ~Subscription[w].open /\ Subscription'[w].open /\ Subscription'[w].cursor \in 0..revision
  BY <1>1, <1>3, Zenon DEF Subscription
<1>6. Subscription' = [Subscription EXCEPT ![w] = Subscription'[w]]
  <2>1. \A x \in Watchers : x # w => Subscription'[x] = Subscription[x]
    BY <1>4, Zenon DEF Subscription
  <2>2. DOMAIN Subscription = Watchers /\ DOMAIN Subscription' = Watchers
        /\ Subscription = [x \in Watchers |-> Subscription[x]]
        /\ Subscription' = [x \in Watchers |-> Subscription'[x]]
    BY Zenon DEF Subscription
  <2> QED BY <2>1, <2>2, Zenon
<1> QED
  BY <1>1, <1>5, <1>6, Zenon DEF Contract!Watch, Subscription

(* The second half of Stop is the contract's Stop.                         *)
LEMMA RemoveContract ==
    ASSUME LogTypeOK, NEW w \in Watchers, removeWatcher(w), UNCHANGED dataVars
    PROVE  Contract!Stop(w)
<1>1. /\ watch[w].stage = "stopping" /\ watch' = [watch EXCEPT ![w].stage = "stopped"]
      /\ UNCHANGED <<objects, revision, history, calls>>
  BY Zenon DEF removeWatcher, logVars, dataVars
<1>2. watch \in [Watchers -> memoryWatcher]
  BY Zenon DEF LogTypeOK
<1>3. /\ watch'[w].stage = "stopped" /\ watch'[w].gvk = watch[w].gvk
      /\ watch'[w].sel = watch[w].sel /\ watch'[w].cursor = watch[w].cursor
      /\ \A x \in Watchers : x # w => watch'[x] = watch[x]
  BY <1>1, <1>2, Zenon DEF memoryWatcher
<1>4. Subscription[w].open
  BY <1>1, Zenon DEF Subscription
<1>5. Subscription' = [Subscription EXCEPT ![w].open = FALSE]
  <2> DEFINE S == {"open", "stopping"}
  <2>1. watch'[w].stage \notin S BY <1>3, Zenon
  <2> HIDE DEF S
  <2>2. (watch'[w].stage \in S) = FALSE BY <2>1
  <2>3. \A x \in Watchers : x # w => Subscription'[x] = Subscription[x] BY <1>3, Zenon DEF Subscription
  <2>4. /\ Subscription = [x \in Watchers |-> Subscription[x]]
        /\ Subscription' = [x \in Watchers |-> Subscription'[x]]
    BY Zenon DEF Subscription
  <2>5. \A o : o = (watch'[w].stage \in S) =>
                 Subscription'[w] = [open |-> o, gvk |-> watch[w].gvk,
                                     sel |-> watch[w].sel, cursor |-> watch[w].cursor]
    BY <1>3, Zenon DEF Subscription, S
  <2>6. \E o : Subscription[w] = [open |-> o, gvk |-> watch[w].gvk,
                                  sel |-> watch[w].sel, cursor |-> watch[w].cursor]
    BY Zenon DEF Subscription
  <2>7. \A o : o = (watch'[w].stage \in S) => Subscription' = [Subscription EXCEPT ![w].open = o]
    BY <2>3, <2>4, <2>5, <2>6
  <2> QED BY <2>2, <2>7, Zenon
<1> QED
  BY <1>1, <1>4, <1>5, Zenon DEF Contract!Stop, Subscription

(* The first half shows nothing.                                           *)
LEMMA CloseContract ==
    ASSUME LogTypeOK, NEW w \in Watchers, StopClose(w), UNCHANGED dataVars
    PROVE  UNCHANGED Contract!vars
<1>1. /\ watch[w].stage = "open"
      /\ watch' = [watch EXCEPT ![w].stage = "stopping", ![w].closed = TRUE]
      /\ UNCHANGED <<objects, revision, history, calls>>
  BY Zenon DEF StopClose, logVars, dataVars
<1>2. watch \in [Watchers -> memoryWatcher]
  BY Zenon DEF LogTypeOK
<1>3. /\ watch'[w].stage = "stopping" /\ watch'[w].gvk = watch[w].gvk
      /\ watch'[w].sel = watch[w].sel /\ watch'[w].cursor = watch[w].cursor
      /\ \A x \in Watchers : x # w => watch'[x] = watch[x]
  BY <1>1, <1>2, Zenon DEF memoryWatcher
<1>4. Subscription' = Subscription
  <2> DEFINE S == {"open", "stopping"}
  <2>1. watch'[w].stage \in S /\ watch[w].stage \in S BY <1>1, <1>3, Zenon
  <2> HIDE DEF S
  <2>2. (watch'[w].stage \in S) = (watch[w].stage \in S) BY <2>1
  <2>3. Subscription'[w] = Subscription[w] BY <1>3, <2>2, Zenon DEF Subscription, S
  <2>4. \A x \in Watchers : x # w => Subscription'[x] = Subscription[x] BY <1>3, Zenon DEF Subscription
  <2>5. /\ Subscription = [x \in Watchers |-> Subscription[x]]
        /\ Subscription' = [x \in Watchers |-> Subscription'[x]]
    BY Zenon DEF Subscription
  <2> QED BY <2>3, <2>4, <2>5, Zenon
<1> QED
  BY <1>1, <1>4, Zenon DEF Contract!vars, Subscription

(* Receiving is the contract's Deliver: the event is the next one due.     *)
LEMMA RecvContract ==
    ASSUME BackendInv, NEW w \in Watchers, Recv(w), UNCHANGED dataVars
    PROVE  Contract!Deliver(w)
<1>1. LogTypeOK /\ LogIsRecentHistory /\ WatchOK
  BY Zenon DEF BackendInv, StoreInv, TypeOK
<1>2. UNCHANGED <<objects, revision, history, calls>>
  BY Zenon DEF Recv, logVars, dataVars
<1>3. /\ watch' = [watch EXCEPT ![w] = watch'[w]]
      /\ watch'[w].stage = watch[w].stage /\ watch'[w].gvk = watch[w].gvk
      /\ watch'[w].sel = watch[w].sel
  BY <1>1, RecvWatch, Zenon
<1>4. PICK i \in Due(watch[w].gvk, watch[w].cursor) :
         /\ watch'[w].cursor = history[i].revision
         /\ \A j \in Due(watch[w].gvk, watch[w].cursor) :
               j < i => ~Matches(watch[w].sel, history[j].event.obj)
  BY <1>1, RecvWatch, Zenon
<1>5. \A x \in Watchers : x # w => watch'[x] = watch[x]
  BY <1>1, <1>3, Zenon DEF LogTypeOK
<1>6. Subscription' = [Subscription EXCEPT ![w].cursor = history[i].revision]
  BY <1>3, <1>4, <1>5, Zenon DEF Subscription
<1>7. Contract!Ahead(Subscription[w]) = Due(watch[w].gvk, watch[w].cursor)
  BY SubscriptionFields, Zenon DEF Contract!Ahead, Due
<1>8. \A j \in Contract!Ahead(Subscription[w]) :
         j < i => ~(Subscription[w].sel \subseteq history[j].event.obj.labels)
  BY <1>4, <1>7, SubscriptionFields, Zenon DEF Matches
<1> QED
  BY <1>2, <1>4, <1>6, <1>7, <1>8, ZenonT(30) DEF Contract!Deliver, Subscription

(* Every step of a consumer is a step of the contract or shows nothing.    *)
LEMMA ConsumeContract ==
    ASSUME BackendInv, Consume, UNCHANGED dataVars
    PROVE  (\E w \in Watchers : Contract!Watch(w) \/ Contract!Stop(w) \/ Contract!Deliver(w))
           \/ UNCHANGED Contract!vars
<1>1. PICK w \in Watchers :
        \/ \E gvk \in Kinds, from \in 0..revision, sel \in SUBSET Labels : WatchFrom(w, gvk, from, sel)
        \/ \E gvk \in Kinds : WatchLive(w, gvk)
        \/ Recv(w)
        \/ StopClose(w)
        \/ removeWatcher(w)
  BY Zenon DEF Consume
<1>2. LogTypeOK /\ revision \in Nat
  BY Zenon DEF BackendInv, StoreInv, TypeOK, LogTypeOK
<1>3. ASSUME NEW gvk \in Kinds, NEW from \in 0..revision, NEW sel \in SUBSET Labels,
             WatchFrom(w, gvk, from, sel)
      PROVE  Contract!Watch(w)
  BY <1>2, <1>3, OpenContract, Zenon DEF WatchFrom
<1>4. ASSUME NEW gvk \in Kinds, WatchLive(w, gvk) PROVE Contract!Watch(w)
  <2>1. openWatch(w, gvk, {}, <<>>, revision) /\ revision \in 0..revision BY <1>2, <1>4 DEF WatchLive
  <2>2. \A cursor \in 0..revision : openWatch(w, gvk, {}, <<>>, cursor) => Contract!Watch(w)
    BY <1>2, OpenContract, Zenon
  <2> QED BY <2>1, <2>2, Zenon
<1> QED
  BY <1>1, <1>2, <1>3, <1>4, RecvContract, CloseContract, RemoveContract, Zenon

(* For types whose JSON tags omit no zero value, the memory backend        *)
(* implements the Store contract: its bounded log, its channels that       *)
(* overflow and the two halves of Stop never show, and every step but the  *)
(* two kinds of writes that WritesBack leaves out is one of the contract   *)
(* (ImplementsContract).                                                   *)
THEOREM MemoryImplementsContract ==
    ASSUME ~OmitEmpty
    PROVE  Spec => ImplementsContract
<1>1. NewStore => Contract!Init
  <2> SUFFICES ASSUME NewStore PROVE Contract!Init
    BY Zenon
  <2>1. /\ objects = [gvk \in Kinds |-> [key \in Keys |-> NoObject]] /\ revision = 0 /\ history = <<>>
        /\ calls = <<>> /\ watch = NoWatch
    BY Zenon DEF NewStore, NewLog
  <2>2. \A w \in Watchers : ~Subscription[w].open /\ Subscription[w].cursor = 0
    BY <2>1, Zenon DEF Subscription, NoWatch
  <2> QED BY <2>1, <2>2, Zenon DEF Contract!Init, Subscription
<1>2. BackendInv /\ [Next]_vars => [WritesBack => [Contract!Next]_(Contract!vars)]_vars
  <2> SUFFICES ASSUME BackendInv, [Next]_vars, WritesBack PROVE Contract!Next \/ UNCHANGED Contract!vars
    BY Zenon
  <2>1. CASE Mutate
    BY <2>1, MutateMutates, MutationContract, Zenon DEF BackendInv, StoreInv, Contract!Next
  <2>2. CASE Consume /\ UNCHANGED dataVars
    BY <2>2, ConsumeContract, Zenon DEF Contract!Next
  <2>3. CASE UNCHANGED vars
    <3>1. UNCHANGED <<objects, revision, history, calls, watch>>
      BY <2>3, Zenon DEF vars, logVars, watchVars, dataVars
    <3> QED BY <3>1, Zenon DEF Contract!vars
  <2> QED
    BY <2>1, <2>2, <2>3, Zenon DEF Next
<1> QED
  BY <1>1, <1>2, BackendInvariant, PTL DEF Spec, ImplementsContract

(* Callers that write back what they read, with changes, get the contract  *)
(* as store.go states it.                                                  *)
THEOREM WritingBackGetsContract ==
    ASSUME ~OmitEmpty
    PROVE  Spec /\ [][WritesBack]_vars => Contract!Spec
<1>1. UNCHANGED vars => UNCHANGED Contract!vars
  <2> SUFFICES ASSUME UNCHANGED vars PROVE UNCHANGED Contract!vars
    BY Zenon
  <2>1. UNCHANGED <<objects, revision, history, calls, watch>>
    BY Zenon DEF vars, logVars, watchVars, dataVars
  <2> QED BY <2>1, Zenon DEF Contract!vars
<1>2. /\ [WritesBack]_vars
      /\ [WritesBack => [Contract!Next]_(Contract!vars)]_vars
      => [Contract!Next]_(Contract!vars)
  BY <1>1, Zenon
<1> QED
  BY <1>2, MemoryImplementsContract, PTL DEF ImplementsContract, Contract!Spec
-----------------------------------------------------------------------------
(***************************************************************************)
(* StateAt as a function of the history h, which makes it a constant       *)
(* operator: what it says of one history can be used for the next.         *)
(***************************************************************************)
WritesIn(h, gvk, key) == {r \in DOMAIN h : h[r].gvk = gvk /\ h[r].event.obj.key = key}

WritesTo(h, gvk, key, rv) == {r \in WritesIn(h, gvk, key) : r <= rv}

Outcome(event) == IF event.type = "DELETED" THEN NoObject ELSE event.obj

Latest(W) == CHOOSE r \in W : \A q \in W : q <= r

StateIn(h, gvk, key, rv) ==
    LET W == WritesTo(h, gvk, key, rv)
    IN  IF W = {} THEN NoObject ELSE Outcome(h[Latest(W)].event)

(* It is StateAt of the present history.                                   *)
LEMMA StateAtIsStateIn ==
    ASSUME NEW gvk, NEW key, NEW rv
    PROVE  StateAt(gvk, key, rv) = StateIn(history, gvk, key, rv)
<1> DEFINE V == {r \in Writes(gvk, key) : r <= rv}
<1>1. V = WritesTo(history, gvk, key, rv)
  BY Zenon DEF WritesTo, WritesIn, Writes
<1>2. StateAt(gvk, key, rv) =
        IF V = {} \/ history[Latest(V)].event.type = "DELETED" THEN NoObject
        ELSE history[Latest(V)].event.obj
  BY Zenon DEF StateAt, Latest
<1> HIDE DEF V
<1> QED
  BY <1>1, <1>2, Zenon DEF StateIn, Outcome

(* The last write of a key up to a revision decides its state there.       *)
LEMMA StateLast ==
    ASSUME NEW h, NEW gvk, NEW key, NEW rv, DOMAIN h \subseteq Nat, NEW last \in WritesTo(h, gvk, key, rv),
           \A q \in WritesTo(h, gvk, key, rv) : q <= last
    PROVE  StateIn(h, gvk, key, rv) = Outcome(h[last].event)
<1> DEFINE W == WritesTo(h, gvk, key, rv)
           c == Latest(W)
<1>0. last \in W /\ \A q \in W : q <= last
  BY Zenon
<1>1. c \in W /\ \A q \in W : q <= c
  <2> HIDE DEF W
  <2> QED BY <1>0, Zenon DEF Latest
<1>2. last <= c /\ c <= last
  BY <1>0, <1>1, Zenon
<1>3. c \in Nat /\ last \in Nat
  BY <1>1, Zenon DEF WritesTo, WritesIn
<1>4. c = last
  <2> HIDE DEF c
  <2> QED BY <1>2, <1>3
<1>5. StateIn(h, gvk, key, rv) = Outcome(h[c].event)
  BY <1>1, Zenon DEF StateIn
<1> QED
  BY <1>4, <1>5, Zenon

(* Either nothing was written up to a revision, or there is a last write.  *)
LEMMA StateCases ==
    ASSUME NEW h, NEW gvk, NEW key, NEW rv \in Nat, DOMAIN h \subseteq Nat
    PROVE  \/ WritesTo(h, gvk, key, rv) = {} /\ StateIn(h, gvk, key, rv) = NoObject
           \/ \E last \in WritesTo(h, gvk, key, rv) :
                 /\ \A q \in WritesTo(h, gvk, key, rv) : q <= last
                 /\ StateIn(h, gvk, key, rv) = Outcome(h[last].event)
<1> DEFINE W == WritesTo(h, gvk, key, rv)
<1>1. W \in SUBSET Nat /\ \A q \in W : q <= rv
  BY Zenon DEF WritesTo, WritesIn
<1>2. CASE W = {}
  BY <1>2, Zenon DEF StateIn
<1>3. CASE W # {}
  <2>1. PICK last \in W : \A q \in W : q <= last
    <3> HIDE DEF W
    <3> QED BY <1>1, <1>3, HasGreatest, Zenon
  <2> QED BY <2>1, StateLast, Zenon
<1> QED
  BY <1>2, <1>3, Zenon

(* The state at a revision depends only on the history up to it.           *)
LEMMA StateFrozen ==
    ASSUME NEW n \in Nat, NEW h, NEW g,
           DOMAIN h = 1..n, DOMAIN h \subseteq DOMAIN g, DOMAIN g \subseteq Nat \ {0},
           \A i \in 1..n : g[i] = h[i], NEW gvk, NEW key, NEW rv \in 0..n
    PROVE  StateIn(g, gvk, key, rv) = StateIn(h, gvk, key, rv)
<1>1. WritesTo(g, gvk, key, rv) = WritesTo(h, gvk, key, rv)
  <2>1. \A i \in DOMAIN g : i <= rv /\ i # 0 => i \in 1..n
    OBVIOUS
  <2> QED BY <2>1, Zenon DEF WritesTo, WritesIn
<1>2. DOMAIN h \subseteq Nat /\ rv \in Nat
  OBVIOUS
<1>3. CASE WritesTo(h, gvk, key, rv) = {}
  BY <1>1, <1>3, Zenon DEF StateIn
<1>4. ASSUME NEW last \in WritesTo(h, gvk, key, rv), \A q \in WritesTo(h, gvk, key, rv) : q <= last
      PROVE  StateIn(g, gvk, key, rv) = StateIn(h, gvk, key, rv)
  <2>1. g[last] = h[last]
    BY Zenon DEF WritesTo, WritesIn
  <2> QED BY <1>1, <1>2, <1>4, <2>1, StateLast
<1> QED
  BY <1>2, <1>3, <1>4, StateCases, Zenon

(* With no write in between, the state stays what it was.                  *)
LEMMA StateSkip ==
    ASSUME NEW h, NEW gvk, NEW key, DOMAIN h \subseteq Nat, NEW from \in Nat, NEW to \in Nat, from <= to,
           \A r \in WritesIn(h, gvk, key) : r <= to => r <= from
    PROVE  StateIn(h, gvk, key, to) = StateIn(h, gvk, key, from)
<1>1. \A r \in WritesIn(h, gvk, key) : r \in Nat
  BY Zenon DEF WritesIn
<1>2. \A r \in WritesIn(h, gvk, key) : r <= to <=> r <= from
  BY <1>1
<1>3. WritesTo(h, gvk, key, to) = WritesTo(h, gvk, key, from)
  BY <1>2, Zenon DEF WritesTo
<1> QED
  BY <1>3, Zenon DEF StateIn

(* What a sound store's history holds.                                     *)
LEMMA HistoryFacts ==
    ASSUME StoreInv
    PROVE  /\ revision \in Nat /\ DOMAIN history = 1..revision
           /\ \A i \in DOMAIN history : /\ history[i].revision = i /\ history[i].event.obj.rv = i
                                        /\ history[i] \in eventLogEntry /\ history[i].event \in Event
                                        /\ history[i].event.obj \in Object
<1>1. /\ revision \in Nat /\ history \in Seq(eventLogEntry) /\ Len(history) = revision
      /\ \A i \in DOMAIN history : history[i].revision = i
      /\ \A i \in DOMAIN history : history[i].event.obj.rv = history[i].revision
  BY Zenon DEF StoreInv, TypeOK, LogTypeOK, RevisionsDense, LogIsRecentHistory
<1>2. DOMAIN history = 1..revision
  BY <1>1, LenProperties, Zenon
<1>3. \A i \in DOMAIN history : history[i] \in eventLogEntry
  BY <1>1, <1>2, ElementOfSeq, Zenon
<1> QED
  BY <1>1, <1>2, <1>3, Zenon DEF eventLogEntry, Event

(* A state in the past is an object of its key, no newer than its revision. *)
LEMMA StateType ==
    ASSUME StoreInv, NEW gvk, NEW key \in Keys, NEW rv \in 0..revision
    PROVE  LET st == StateIn(history, gvk, key, rv)
           IN  \/ st = NoObject
               \/ st # NoObject /\ st \in Object /\ st.key = key /\ st.rv \in Nat /\ st.rv <= rv
<1>1. DOMAIN history \subseteq Nat /\ rv \in Nat
  BY HistoryFacts
<1>2. ASSUME NEW last \in WritesTo(history, gvk, key, rv),
             StateIn(history, gvk, key, rv) = Outcome(history[last].event)
      PROVE  LET st == StateIn(history, gvk, key, rv)
             IN  \/ st = NoObject
                 \/ st # NoObject /\ st \in Object /\ st.key = key /\ st.rv \in Nat /\ st.rv <= rv
  <2>1. last \in DOMAIN history /\ last <= rv /\ history[last].event.obj.key = key
    BY Zenon DEF WritesTo, WritesIn
  <2>2. last \in Nat /\ history[last].event.obj \in Object /\ history[last].event.obj.rv = last
    BY <1>1, <2>1, HistoryFacts, Zenon
  <2>3. NoObject \notin Object
    BY NoObjectAssumption, Zenon DEF Object
  <2> QED BY <1>2, <2>1, <2>2, <2>3, Zenon DEF Outcome
<1> QED
  BY <1>1, <1>2, StateCases, Zenon

(* The present state is what the store holds.                              *)
LEMMA StateNow ==
    ASSUME StoreInv, NEW gvk \in Kinds, NEW key \in Keys
    PROVE  StateIn(history, gvk, key, revision) = objects[gvk][key]
<1>1. revision \in Nat /\ DOMAIN history \subseteq Nat
  BY HistoryFacts
<1>2. WritesTo(history, gvk, key, revision) = Writes(gvk, key)
  BY HistoryFacts DEF WritesTo, WritesIn, Writes
<1>3. gvk \in Kinds
  BY Zenon
<1>4. CASE WritesTo(history, gvk, key, revision) = {}
  BY <1>2, <1>3, <1>4, Zenon DEF StoreInv, StoreIsHistory, StateIn
<1>5. ASSUME NEW last \in WritesTo(history, gvk, key, revision),
             \A q \in WritesTo(history, gvk, key, revision) : q <= last
      PROVE  objects[gvk][key] = Outcome(history[last].event)
  BY <1>2, <1>3, <1>5 DEF StoreInv, StoreIsHistory, Outcome
<1> QED
  BY <1>1, <1>4, <1>5, StateCases

(* The next event of the kind changes the state of its own key only.       *)
LEMMA StateNext ==
    ASSUME StoreInv, NEW gvk, NEW from \in 0..revision, NEW i \in Due(gvk, from),
           \A j \in Due(gvk, from) : ~(j < i), NEW key \in Keys
    PROVE  StateIn(history, gvk, key, i) =
             IF key = history[i].event.obj.key THEN Outcome(history[i].event)
             ELSE StateIn(history, gvk, key, from)
<1>1. /\ revision \in Nat /\ DOMAIN history = 1..revision
      /\ \A j \in DOMAIN history : history[j].revision = j
  BY HistoryFacts, Zenon
<1>2. i \in 1..revision /\ from < i /\ history[i].gvk = gvk
  BY <1>1, Zenon DEF Due
<1>3. \A j \in DOMAIN history : history[j].gvk = gvk /\ j <= i => j <= from \/ j = i
  <2> SUFFICES ASSUME NEW j \in DOMAIN history, history[j].gvk = gvk, j <= i, ~(j <= from)
               PROVE  j = i
    BY Zenon
  <2>1. j \in Due(gvk, from)
    BY <1>1 DEF Due
  <2> QED BY <1>1, <1>2, <2>1
<1>4. CASE key = history[i].event.obj.key
  <2>1. i \in WritesTo(history, gvk, key, i) /\ \A q \in WritesTo(history, gvk, key, i) : q <= i
    BY <1>1, <1>2, <1>4 DEF WritesTo, WritesIn
  <2>2. DOMAIN history \subseteq Nat
    BY <1>1
  <2> QED BY <1>4, <2>1, <2>2, StateLast, Zenon
<1>5. CASE key # history[i].event.obj.key
  <2>1. \A r \in WritesIn(history, gvk, key) : r <= i => r <= from
    BY <1>3, <1>5, Zenon DEF WritesIn
  <2>2. DOMAIN history \subseteq Nat /\ from \in Nat /\ i \in Nat /\ from <= i
    BY <1>1, <1>2
  <2> QED BY <1>5, <2>1, <2>2, StateSkip
<1> QED
  BY <1>4, <1>5, Zenon
=============================================================================
