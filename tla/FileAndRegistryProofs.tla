------------------------ MODULE FileAndRegistryProofs ------------------------
(***************************************************************************)
(* Theorems about the filesystem backend, for every value of the           *)
(* constants: any number of kinds, keys, changes, failed writes and        *)
(* crashes; and, in the last section, about the cache's registry of        *)
(* informers, which shares no state with it.                               *)
(***************************************************************************)
EXTENDS FileStore, CacheLifecycle, WatchLogProofs

callRecord == [op : {"Create", "Update", "UpdateStatus", "Delete"}, rv : Nat]

changeRecord ==
    [call : callRecord, gvk : Kinds, old : Object \cup {NoObject}, new : Object \cup {NoObject},
     rv : Nat, run : Nat, announced : BOOLEAN]

FileTypeOK ==
    /\ files \in [Kinds -> [Keys -> Object \cup {NoObject}]]
    /\ revision \in Nat /\ revisionFile \in Nat
    /\ uidCounter \in Nat /\ uidFile \in Nat
    /\ up \in BOOLEAN
    /\ failed \in Nat /\ crashes \in Nat
    /\ changes \in Seq(changeRecord)
    /\ uids \in Seq(Nat)

(* Every stored object is filed under its own key.                         *)
Keyed ==
    \A gvk \in Kinds, key \in Keys :
        files[gvk][key] # NoObject => files[gvk][key].key = key

(* .uid-counter is at or past every UID given out, and a running store     *)
(* agrees with it.                                                         *)
UIDsPersisted ==
    /\ up => uidCounter = uidFile
    /\ \A i \in DOMAIN uids : uids[i] <= uidFile

(* Changes of the present run are not past the counter; a dead store has   *)
(* made none in the run that its restart begins.                           *)
RunBehindRevision ==
    \A i \in DOMAIN changes :
        /\ changes[i].run <= crashes
        /\ ~up => changes[i].run < crashes
        /\ changes[i].run = crashes => changes[i].rv <= revision

(* .revision is behind the counter by failed writes only, and behind the   *)
(* files by these and one crash.                                           *)
RevisionFileLag ==
    /\ up => revisionFile <= revision /\ revision <= revisionFile + failed
    /\ \A gvk \in Kinds, key \in Keys :
          files[gvk][key] # NoObject =>
             files[gvk][key].rv <= revisionFile + failed + (IF crashes = 0 THEN 0 ELSE 1)

FileInv ==
    /\ FileTypeOK
    /\ Keyed
    /\ UIDsPersisted
    /\ UIDsUnique
    /\ RunBehindRevision
    /\ RevisionsIncreaseInRun
    /\ RevisionFileLag
    /\ ~OmitEmpty => SplitWrites
-----------------------------------------------------------------------------
(* What a mutation makes of an object: it differs from the old one in what *)
(* its caller may write.                                                   *)
WellSplit(op, old, new) ==
    /\ op \in {"Update", "UpdateStatus"} =>
          <<old.spec, old.status, old.labels>> # <<new.spec, new.status, new.labels>>
    /\ op = "Update" => new.status = old.status
    /\ op = "UpdateStatus" => new.spec = old.spec /\ new.generation = old.generation

(* The UID counter and its file over a mutation.                           *)
UIDStep(outcome) ==
    \/ /\ uidFile' = uidFile /\ uids' = uids
       /\ outcome # "crash" => uidCounter' = uidCounter
    \/ /\ uidFile' = uidCounter + 1 /\ uids' = Append(uids, uidCounter + 1)
       /\ outcome # "crash" => uidCounter' = uidCounter + 1

(* What every mutation amounts to.                                         *)
Mutation(gvk, key, new, type, event, call, outcome) ==
    /\ Write(gvk, key, new, type, event, call, outcome)
    /\ UIDStep(outcome)
    /\ call \in callRecord
    /\ new \in Object \cup {NoObject}
    /\ new # NoObject => new.key = key /\ new.rv = revision + 1
    /\ type \in {"ADDED", "MODIFIED", "DELETED"} /\ event \in Object /\ event.rv = revision + 1
    /\ ~OmitEmpty => WellSplit(call.op, files[gvk][key], new)

(* Callers pass objects.                                                   *)
LEMMA InputType ==
    ASSUME NEW key \in Keys
    PROVE  /\ \A in \in Inputs(key) : in \in Object /\ in.key = key
           /\ \A in \in NewObjects(key) : in \in Object /\ in.key = key
<1>1. 0 \in Nat /\ {0, 1} \subseteq Nat /\ 1..MaxChanges + MaxFaults \subseteq Nat
  BY OutcomesAssumption
<1> QED
  BY <1>1, Zenon DEF Inputs, NewObjects, Object

(* NoObject is not an object.                                              *)
LEMMA NoObjectIsNone == NoObject \notin Object
  BY NoObjectAssumption, Zenon DEF Object

(* Create is a mutation (filesystem Store.Create).                         *)
LEMMA CreateMutates ==
    ASSUME FileInv, NEW gvk \in Kinds, NEW key \in Keys, NEW outcome \in Outcomes,
           NEW in \in NewObjects(key), Create(gvk, in, outcome)
    PROVE  \E new, type, event, call : Mutation(gvk, key, new, type, event, call, outcome)
<1> DEFINE uid == IF in.uid = 0 THEN uidCounter + 1 ELSE in.uid
           stored == [in EXCEPT !.uid = uid, !.generation = 1, !.rv = revision + 1]
           call == [op |-> "Create", rv |-> 0]
<1>1. in \in Object /\ in.key = key
  BY InputType, Zenon
<1>2. uidCounter \in Nat /\ revision + 1 \in Nat /\ in.uid \in Nat
  BY <1>1 DEF FileInv, FileTypeOK, Object
<1>3. uid \in Nat
  BY <1>2
<1>4. /\ Write(gvk, key, stored, "ADDED", stored, call, outcome)
      /\ uidFile' = IF in.uid = 0 THEN uid ELSE uidFile
      /\ uids' = IF in.uid = 0 THEN Append(uids, uid) ELSE uids
      /\ outcome # "crash" => uidCounter' = IF in.uid = 0 THEN uid ELSE uidCounter
  BY <1>1, Zenon DEF Create
<1>5. UIDStep(outcome)
  BY <1>4, Zenon DEF UIDStep
<1> HIDE DEF uid
<1>6. stored \in Object /\ stored.key = key /\ stored.rv = revision + 1
  BY <1>1, <1>2, <1>3, Zenon DEF Object
<1>7. call \in callRecord /\ call.op = "Create"
  BY Zenon DEF callRecord
<1> HIDE DEF stored, call
<1>8. WellSplit(call.op, files[gvk][key], stored)
  BY <1>7, Zenon DEF WellSplit
<1>9. Mutation(gvk, key, stored, "ADDED", stored, call, outcome)
  BY <1>4, <1>5, <1>6, <1>7, <1>8, Zenon DEF Mutation
<1> QED
  BY <1>9, Zenon

(* What the store manages, put back into a decoded object.                 *)
Kept(obj, stored) ==
    [obj EXCEPT !.rv = stored.rv, !.uid = stored.uid, !.generation = stored.generation]

(* The merges are a decoding and Kept.                                     *)
LEMMA MergedIsKept ==
    ASSUME NEW stored \in Object, NEW in \in Object
    PROVE  \E a, b \in Object :
              /\ UpdateMerged(stored, in) = Kept(Decode(a, in), stored)
              /\ UpdateStatusMerged(stored, in) = Kept(Decode(b, in), stored)
              /\ a.key = in.key /\ a.status = stored.status
              /\ b.key = stored.key /\ b.spec = stored.spec
<1> DEFINE a == [in EXCEPT !.status = stored.status]
           b == [stored EXCEPT !.status = in.status]
<1>1. a \in Object /\ a.key = in.key /\ a.status = stored.status
  BY Zenon DEF Object
<1>2. b \in Object /\ b.key = stored.key /\ b.spec = stored.spec
  BY Zenon DEF Object
<1>3. UpdateMerged(stored, in) = Kept(Decode(a, in), stored)
  BY Zenon DEF UpdateMerged, Kept
<1>4. UpdateStatusMerged(stored, in) = Kept(Decode(b, in), stored)
  BY Zenon DEF UpdateStatusMerged, Kept
<1> QED
  BY <1>1, <1>2, <1>3, <1>4, Zenon

(* Decoding, field by field.                                               *)
LEMMA DecodeFacts ==
    ASSUME NEW src \in Object, NEW dst \in Object
    PROVE  /\ Decode(src, dst) \in Object /\ Decode(src, dst).key = src.key
           /\ ~OmitEmpty => /\ Decode(src, dst).spec = src.spec
                            /\ Decode(src, dst).status = src.status
  BY Zenon DEF Decode, Omitted, Object

(* Kept, field by field.                                                   *)
LEMMA KeptFacts ==
    ASSUME NEW obj \in Object, NEW stored \in Object
    PROVE  /\ Kept(obj, stored) \in Object /\ Kept(obj, stored).key = obj.key
           /\ Kept(obj, stored).generation = stored.generation
           /\ Kept(obj, stored).rv = stored.rv /\ Kept(obj, stored).uid = stored.uid
           /\ Kept(obj, stored).spec = obj.spec /\ Kept(obj, stored).status = obj.status
  BY Zenon DEF Kept, Object

(* The merges of Update and UpdateStatus produce objects that keep what    *)
(* the store manages and, without omitempty, the part of the object that   *)
(* is not theirs.                                                          *)
LEMMA MergedFacts ==
    ASSUME NEW stored \in Object, NEW in \in Object, in.key = stored.key
    PROVE  /\ \A merged \in {UpdateMerged(stored, in), UpdateStatusMerged(stored, in)} :
                 /\ merged \in Object /\ merged.key = stored.key
                 /\ merged.generation = stored.generation
                 /\ merged.rv = stored.rv /\ merged.uid = stored.uid
           /\ ~OmitEmpty => /\ UpdateMerged(stored, in).status = stored.status
                            /\ UpdateStatusMerged(stored, in).spec = stored.spec
<1>1. PICK a, b \in Object :
        /\ UpdateMerged(stored, in) = Kept(Decode(a, in), stored)
        /\ UpdateStatusMerged(stored, in) = Kept(Decode(b, in), stored)
        /\ a.key = in.key /\ a.status = stored.status
        /\ b.key = stored.key /\ b.spec = stored.spec
  BY MergedIsKept, Zenon
<1>2. /\ Decode(a, in) \in Object /\ Decode(a, in).key = a.key
      /\ Decode(b, in) \in Object /\ Decode(b, in).key = b.key
      /\ ~OmitEmpty => Decode(a, in).status = a.status /\ Decode(b, in).spec = b.spec
  BY DecodeFacts, Zenon
<1> QED
  BY <1>1, <1>2, KeptFacts

(* They change the part that is theirs if they change anything.            *)
LEMMA MergedSplit ==
    ASSUME NEW stored \in Object, NEW in \in Object, in.key = stored.key, ~OmitEmpty
    PROVE  /\ UpdateMerged(stored, in) # stored
                 => WellSplit("Update", stored, UpdateMerged(stored, in))
           /\ UpdateStatusMerged(stored, in) # stored
                 => WellSplit("UpdateStatus", stored, UpdateStatusMerged(stored, in))
<1>1. \A obj \in Object :
        /\ obj.key = stored.key /\ obj.generation = stored.generation
        /\ obj.rv = stored.rv /\ obj.uid = stored.uid
        /\ obj.spec = stored.spec /\ obj.status = stored.status /\ obj.labels = stored.labels
        => obj = stored
  BY DEF Object
<1> QED
  BY <1>1, MergedFacts, Zenon DEF WellSplit

(* Update is a mutation (filesystem Store.Update).                       *)
LEMMA UpdateMutates ==
    ASSUME FileInv, NEW gvk \in Kinds, NEW key \in Keys, NEW outcome \in Outcomes,
           NEW in \in Inputs(key), Update(gvk, in, outcome)
    PROVE  \E new, type, event, call : Mutation(gvk, key, new, type, event, call, outcome)
<1> DEFINE stored == files[gvk][key]
           merged == UpdateMerged(stored, in)
           generation == IF specChanged(stored, in) THEN stored.generation + 1 ELSE stored.generation
           updated == [merged EXCEPT !.generation = generation, !.rv = revision + 1]
           call == [op |-> "Update", rv |-> in.rv]
<1>1. in \in Object /\ in.key = key
  BY InputType, Zenon
<1>2. /\ stored # NoObject /\ merged # stored
      /\ Write(gvk, key, updated, "MODIFIED", updated, call, outcome)
      /\ uidFile' = uidFile /\ uids' = uids
      /\ outcome # "crash" => uidCounter' = uidCounter
  BY <1>1, Zenon DEF Update
<1>3. UIDStep(outcome)
  BY <1>2, Zenon DEF UIDStep
<1>4. stored \in Object /\ stored.key = key
  BY <1>2 DEF FileInv, FileTypeOK, Keyed
<1> HIDE DEF stored
<1>5. merged \in Object /\ merged.generation = stored.generation
  BY <1>1, <1>4, MergedFacts
<1>6. merged.key = key /\ (~OmitEmpty => WellSplit("Update", stored, merged))
  BY <1>1, <1>2, <1>4, MergedFacts, MergedSplit, Zenon
<1> HIDE DEF merged
<1>7. generation \in Nat
  BY <1>4 DEF Object
<1> HIDE DEF generation
<1>8. revision + 1 \in Nat
  BY DEF FileInv, FileTypeOK
<1>9. /\ updated \in Object /\ updated.key = key /\ updated.rv = revision + 1
      /\ updated.spec = merged.spec /\ updated.status = merged.status
      /\ updated.labels = merged.labels
  BY <1>5, <1>6, <1>7, <1>8, Zenon DEF Object
<1>10. call \in callRecord /\ call.op = "Update"
  BY <1>1, Zenon DEF callRecord, Object
<1> HIDE DEF updated, call
<1>11. ~OmitEmpty => WellSplit(call.op, stored, updated)
  BY <1>6, <1>9, <1>10, Zenon DEF WellSplit
<1>12. Mutation(gvk, key, updated, "MODIFIED", updated, call, outcome)
  BY <1>2, <1>3, <1>9, <1>10, <1>11, Zenon DEF Mutation, stored
<1> QED
  BY <1>12, Zenon

(* UpdateStatus is a mutation (filesystem Store.UpdateStatus).           *)
LEMMA UpdateStatusMutates ==
    ASSUME FileInv, NEW gvk \in Kinds, NEW key \in Keys, NEW outcome \in Outcomes,
           NEW in \in Inputs(key), UpdateStatus(gvk, in, outcome)
    PROVE  \E new, type, event, call : Mutation(gvk, key, new, type, event, call, outcome)
<1> DEFINE stored == files[gvk][key]
           merged == UpdateStatusMerged(stored, in)
           updated == [merged EXCEPT !.rv = revision + 1]
           call == [op |-> "UpdateStatus", rv |-> in.rv]
<1>1. in \in Object /\ in.key = key
  BY InputType, Zenon
<1>2. /\ stored # NoObject /\ merged # stored
      /\ Write(gvk, key, updated, "MODIFIED", updated, call, outcome)
      /\ uidFile' = uidFile /\ uids' = uids
      /\ outcome # "crash" => uidCounter' = uidCounter
  BY <1>1, Zenon DEF UpdateStatus
<1>3. UIDStep(outcome)
  BY <1>2, Zenon DEF UIDStep
<1>4. stored \in Object /\ stored.key = key
  BY <1>2 DEF FileInv, FileTypeOK, Keyed
<1> HIDE DEF stored
<1>5. merged \in Object /\ merged.generation = stored.generation
  BY <1>1, <1>4, MergedFacts
<1>6. merged.key = key /\ (~OmitEmpty => WellSplit("UpdateStatus", stored, merged))
  BY <1>1, <1>2, <1>4, MergedFacts, MergedSplit, Zenon
<1> HIDE DEF merged
<1>8. revision + 1 \in Nat
  BY DEF FileInv, FileTypeOK
<1>9. /\ updated \in Object /\ updated.key = key /\ updated.rv = revision + 1
      /\ updated.spec = merged.spec /\ updated.status = merged.status
      /\ updated.labels = merged.labels
      /\ updated.generation = merged.generation
  BY <1>5, <1>6, <1>8, Zenon DEF Object
<1>10. call \in callRecord /\ call.op = "UpdateStatus"
  BY <1>1, Zenon DEF callRecord, Object
<1> HIDE DEF updated, call
<1>11. ~OmitEmpty => WellSplit(call.op, stored, updated)
  BY <1>6, <1>9, <1>10, Zenon DEF WellSplit
<1>12. Mutation(gvk, key, updated, "MODIFIED", updated, call, outcome)
  BY <1>2, <1>3, <1>9, <1>10, <1>11, Zenon DEF Mutation, stored
<1> QED
  BY <1>12, Zenon

(* Delete is a mutation (filesystem Store.Delete).                         *)
LEMMA DeleteMutates ==
    ASSUME FileInv, NEW gvk \in Kinds, NEW key \in Keys, NEW outcome \in Outcomes,
           NEW rv \in 0..MaxChanges + MaxFaults, Delete(gvk, key, rv, outcome)
    PROVE  \E new, type, event, call : Mutation(gvk, key, new, type, event, call, outcome)
<1> DEFINE call == [op |-> "Delete", rv |-> rv]
<1>1. /\ Write(gvk, key, NoObject, "DELETED", deletedObj(files[gvk][key]), call, outcome)
      /\ uidFile' = uidFile /\ uids' = uids
      /\ outcome # "crash" => uidCounter' = uidCounter
  BY Zenon DEF Delete
<1>2. call \in callRecord /\ call.op = "Delete"
  BY OutcomesAssumption DEF callRecord
<1> HIDE DEF call
<1>3. UIDStep(outcome) /\ WellSplit(call.op, files[gvk][key], NoObject)
  BY <1>1, <1>2, Zenon DEF UIDStep, WellSplit
<1>4. deletedObj(files[gvk][key]) \in Object /\ deletedObj(files[gvk][key]).rv = revision + 1
  <2>1. files[gvk][key] \in Object /\ revision + 1 \in Nat
    BY DEF Delete, FileInv, FileTypeOK
  <2> QED
    BY <2>1, Zenon DEF deletedObj, Object
<1>5. Mutation(gvk, key, NoObject, "DELETED", deletedObj(files[gvk][key]), call, outcome)
  BY <1>1, <1>2, <1>3, <1>4, Zenon DEF Mutation
<1> QED
  BY <1>5, Zenon

(* Mutate is one of them.                                                  *)
LEMMA MutateIsMutation ==
    ASSUME FileInv, Mutate
    PROVE  \E gvk \in Kinds, key \in Keys, outcome \in Outcomes :
              \E new, type, event, call : Mutation(gvk, key, new, type, event, call, outcome)
  BY CreateMutates, UpdateMutates, UpdateStatusMutates, DeleteMutates DEF Mutate
-----------------------------------------------------------------------------
(* The record of a change of the file of a key.                            *)
Recorded(gvk, key, new, call, outcome) ==
    [call |-> call, gvk |-> gvk, old |-> files[gvk][key], new |-> new, rv |-> revision + 1,
     run |-> crashes, announced |-> outcome = "ok"]

Changed(gvk, key, new, call, outcome) ==
    /\ files' = [files EXCEPT ![gvk][key] = new]
    /\ changes' = Append(changes, Recorded(gvk, key, new, call, outcome))

(* What the outcomes of Write that change a file leave in the counters.    *)
Counters(outcome) ==
    \/ /\ outcome = "ok"
       /\ revision' = revision + 1 /\ revisionFile' = revision + 1
       /\ up' = up /\ failed' = failed /\ crashes' = crashes
    \/ /\ outcome = "persistError"
       /\ revision' = revision + 1 /\ revisionFile' = revisionFile
       /\ up' = up /\ failed' = failed + 1 /\ crashes' = crashes
    \/ /\ outcome = "crash"
       /\ revision' = 0 /\ revisionFile' = revisionFile /\ uidCounter' = 0
       /\ up' = FALSE /\ failed' = failed /\ crashes' = crashes + 1

(* An object file that could not be written or removed.                    *)
NotWritten(outcome) ==
    /\ outcome = "writeError" /\ files' = files /\ changes' = changes
    /\ revision' \in {revision, revision + 1} /\ revisionFile' = revisionFile
    /\ up' = up /\ failed' = failed + 1 /\ crashes' = crashes

(* Write changes the file and the counters, or fails to.                   *)
LEMMA WriteOutcomes ==
    ASSUME NEW gvk, NEW key, NEW new, NEW type, NEW event, NEW call, NEW outcome,
           Write(gvk, key, new, type, event, call, outcome)
    PROVE  /\ up
           /\ \/ Changed(gvk, key, new, call, outcome) /\ Counters(outcome)
              \/ NotWritten(outcome)
<1>1. up /\ outcome \in {"ok", "writeError", "persistError", "crash"}
  BY OutcomesAssumption, Zenon DEF Write
<1>2. CASE outcome = "ok"
  BY <1>1, <1>2, Zenon DEF Write, Changed, Recorded, Emit, Counters
<1>3. CASE outcome = "persistError"
  BY <1>1, <1>3, Zenon DEF Write, Changed, Recorded, PersistFailed, Counters
<1>4. CASE outcome = "crash"
  BY <1>1, <1>4, Zenon DEF Write, Changed, Recorded, Lost, Counters
<1>5. CASE outcome = "writeError"
  BY <1>1, <1>5, Zenon DEF Write, NotWritten
<1> QED
  BY <1>1, <1>2, <1>3, <1>4, <1>5, Zenon

(* A change of a file is recorded at the end of `changes'.                 *)
LEMMA ChangedFacts ==
    ASSUME FileInv, NEW gvk \in Kinds, NEW key \in Keys, NEW new \in Object \cup {NoObject},
           NEW call \in callRecord, NEW outcome, Changed(gvk, key, new, call, outcome)
    PROVE  /\ files' \in [Kinds -> [Keys -> Object \cup {NoObject}]]
           /\ \A g \in Kinds, k \in Keys :
                 files'[g][k] = IF g = gvk /\ k = key THEN new ELSE files[g][k]
           /\ changes' \in Seq(changeRecord)
           /\ DOMAIN changes = 1..Len(changes) /\ Len(changes) \in Nat
           /\ DOMAIN changes' = 1..(Len(changes) + 1)
           /\ \A i \in 1..Len(changes) : changes'[i] = changes[i] /\ changes[i] \in changeRecord
           /\ changes'[Len(changes) + 1] = Recorded(gvk, key, new, call, outcome)
<1>1. /\ files \in [Kinds -> [Keys -> Object \cup {NoObject}]]
      /\ revision + 1 \in Nat /\ crashes \in Nat /\ changes \in Seq(changeRecord)
  BY DEF FileInv, FileTypeOK
<1>2. /\ files' = [files EXCEPT ![gvk][key] = new]
      /\ changes' = Append(changes, Recorded(gvk, key, new, call, outcome))
  BY Zenon DEF Changed
<1>3. /\ files' \in [Kinds -> [Keys -> Object \cup {NoObject}]]
      /\ \A g \in Kinds, k \in Keys :
            files'[g][k] = IF g = gvk /\ k = key THEN new ELSE files[g][k]
  BY <1>1, <1>2, Zenon
<1>4. files[gvk][key] \in Object \cup {NoObject}
  BY <1>1, Zenon
<1>5. Recorded(gvk, key, new, call, outcome) \in changeRecord
  BY <1>1, <1>4, Zenon DEF Recorded, changeRecord
<1> HIDE DEF Recorded
<1>6. /\ changes' \in Seq(changeRecord) /\ Len(changes') = Len(changes) + 1
      /\ \A i \in 1..Len(changes) : changes'[i] = changes[i]
      /\ changes'[Len(changes) + 1] = Recorded(gvk, key, new, call, outcome)
  BY <1>1, <1>2, <1>5, AppendProperties
<1>7. /\ DOMAIN changes = 1..Len(changes) /\ Len(changes) \in Nat
      /\ DOMAIN changes' = 1..Len(changes')
      /\ \A i \in 1..Len(changes) : changes[i] \in changeRecord
  BY <1>1, <1>6, LenProperties, ElementOfSeq, Zenon
<1> QED
  BY <1>3, <1>6, <1>7, Zenon

(* A UID is in .uid-counter before it is used, so none is given out twice  *)
(* (generateUID).                                                          *)
LEMMA UIDStepKeeps ==
    ASSUME FileInv, up, NEW outcome, UIDStep(outcome),
           outcome = "crash" => uidCounter' = 0 /\ ~up'
    PROVE  /\ uidCounter' \in Nat /\ uidFile' \in Nat /\ uids' \in Seq(Nat)
           /\ UIDsPersisted' /\ UIDsUnique'
<1>1. /\ uidCounter \in Nat /\ uidFile = uidCounter /\ uids \in Seq(Nat)
      /\ \A i \in DOMAIN uids : uids[i] <= uidFile
      /\ \A i, j \in DOMAIN uids : i < j => uids[i] < uids[j]
  BY Zenon DEF FileInv, FileTypeOK, UIDsPersisted, UIDsUnique
<1>2. /\ DOMAIN uids = 1..Len(uids) /\ Len(uids) \in Nat
      /\ \A i \in 1..Len(uids) : uids[i] \in Nat
  BY <1>1, LenProperties, ElementOfSeq, Zenon
<1>3. CASE uidFile' = uidFile /\ uids' = uids /\ (outcome # "crash" => uidCounter' = uidCounter)
  BY <1>1, <1>3 DEF UIDsPersisted, UIDsUnique
<1>4. CASE /\ uidFile' = uidCounter + 1 /\ uids' = Append(uids, uidCounter + 1)
           /\ outcome # "crash" => uidCounter' = uidCounter + 1
  <2> DEFINE n == Len(uids)
             uid == uidCounter + 1
  <2>1. uid \in Nat
    BY <1>1
  <2>2. /\ uids' \in Seq(Nat) /\ Len(uids') = n + 1
        /\ \A i \in 1..n : uids'[i] = uids[i]
        /\ uids'[n + 1] = uid
    BY <1>1, <1>4, <2>1, AppendProperties
  <2>3. DOMAIN uids' = 1..(n + 1)
    BY <2>2, LenProperties, Zenon
  <2>4. \A i \in 1..(n + 1) : i # n + 1 => i \in 1..n
    BY <1>2
  <2>5. \A i \in 1..n : uids[i] < uid
    BY <1>1, <1>2
  <2>6. \A i \in DOMAIN uids' : uids'[i] <= uid
    BY <1>2, <2>1, <2>2, <2>3, <2>4, <2>5, SMTT(20)
  <2>7. UIDsUnique'
    <3> SUFFICES ASSUME NEW i \in 1..(n + 1), NEW j \in 1..(n + 1), i < j
                 PROVE  uids'[i] < uids'[j]
      BY <2>3, Zenon DEF UIDsUnique
    <3>1. i \in 1..n
      BY <1>2
    <3> QED
      BY <1>1, <1>2, <2>2, <2>4, <2>5, <3>1, Zenon
  <2> QED
    BY <1>1, <1>4, <2>2, <2>6, <2>7 DEF UIDsPersisted
<1> QED
  BY <1>3, <1>4, Zenon DEF UIDStep

(* A recorded change is the newest of its run, and separates spec and      *)
(* status.                                                                 *)
LEMMA ChangedKeeps ==
    ASSUME FileInv, NEW gvk \in Kinds, NEW key \in Keys, NEW new, NEW call \in callRecord,
           NEW outcome, Changed(gvk, key, new, call, outcome),
           new \in Object \cup {NoObject}, new # NoObject => new.key = key,
           ~OmitEmpty => WellSplit(call.op, files[gvk][key], new),
           up, \/ up' /\ crashes' = crashes /\ revision' = revision + 1
               \/ ~up' /\ crashes' = crashes + 1
    PROVE  /\ Keyed' /\ RunBehindRevision' /\ RevisionsIncreaseInRun'
           /\ ~OmitEmpty => SplitWrites'
<1> DEFINE n == Len(changes)
           last == Recorded(gvk, key, new, call, outcome)
<1>1. /\ \A g \in Kinds, k \in Keys :
            files'[g][k] = IF g = gvk /\ k = key THEN new ELSE files[g][k]
      /\ DOMAIN changes = 1..n /\ n \in Nat
      /\ DOMAIN changes' = 1..(n + 1)
      /\ \A i \in 1..n : changes'[i] = changes[i] /\ changes[i] \in changeRecord
      /\ changes'[n + 1] = last
  BY ChangedFacts, SMTT(20)
<1>2. /\ last.call = call /\ last.old = files[gvk][key] /\ last.new = new
      /\ last.rv = revision + 1 /\ last.run = crashes
  BY Zenon DEF Recorded
<1>3. revision \in Nat /\ crashes \in Nat
  BY Zenon DEF FileInv, FileTypeOK
<1> HIDE DEF n, last
<1>4. \A i \in 1..(n + 1) : i # n + 1 => i \in 1..n
  BY <1>1
<1>5. \A i \in 1..n :
        /\ changes[i].run \in Nat /\ changes[i].rv \in Nat
        /\ changes[i].run <= crashes
        /\ changes[i].run = crashes => changes[i].rv <= revision
  BY <1>1, Zenon DEF FileInv, RunBehindRevision, changeRecord
<1>6. Keyed'
  BY <1>1 DEF FileInv, Keyed
<1>7. RunBehindRevision'
  <2> SUFFICES ASSUME NEW i \in 1..(n + 1)
               PROVE  /\ changes'[i].run <= crashes'
                      /\ ~up' => changes'[i].run < crashes'
                      /\ changes'[i].run = crashes' => changes'[i].rv <= revision'
    BY <1>1, Zenon DEF RunBehindRevision
  <2>1. CASE i = n + 1
    BY <1>1, <1>2, <1>3, <2>1, SMTT(20)
  <2>2. CASE i # n + 1
    <3>1. i \in 1..n /\ changes'[i] = changes[i]
      BY <1>1, <1>4, <2>2, Zenon
    <3> QED
      BY <1>3, <1>5, <3>1
  <2> QED
    BY <2>1, <2>2, Zenon
<1>8. RevisionsIncreaseInRun'
  <2> SUFFICES ASSUME NEW i \in 1..(n + 1), NEW j \in 1..(n + 1), i < j,
                      changes'[i].run = changes'[j].run
               PROVE  changes'[i].rv < changes'[j].rv
    BY <1>1, Zenon DEF RevisionsIncreaseInRun
  <2>1. i \in 1..n /\ changes'[i] = changes[i]
    BY <1>1
  <2>2. CASE j = n + 1
    <3>1. changes[i].rv <= revision /\ changes'[j].rv = revision + 1
      BY <1>1, <1>2, <1>5, <2>1, <2>2, Zenon
    <3> QED
      BY <1>3, <1>5, <2>1, <3>1
  <2>3. CASE j # n + 1
    <3>1. j \in 1..n /\ changes'[j] = changes[j]
      BY <1>1, <1>4, <2>3, Zenon
    <3> QED
      BY <1>1, <2>1, <3>1, Zenon DEF FileInv, RevisionsIncreaseInRun
  <2> QED
    BY <2>2, <2>3, Zenon
<1>9. ASSUME ~OmitEmpty PROVE SplitWrites'
  <2>1. \A i \in 1..n :
          WellSplit(changes[i].call.op, changes[i].old, changes[i].new)
    BY <1>1, <1>9, Zenon DEF FileInv, SplitWrites, Modified, WellSplit
  <2>2. WellSplit(last.call.op, last.old, last.new)
    BY <1>2, <1>9, Zenon
  <2>3. \A i \in 1..(n + 1) :
          WellSplit(changes'[i].call.op, changes'[i].old, changes'[i].new)
    BY <1>1, <1>4, <2>1, <2>2, Zenon
  <2> QED
    BY <1>1, <2>3, Zenon DEF SplitWrites, Modified, WellSplit
<1> QED
  BY <1>6, <1>7, <1>8, <1>9, Zenon

(* A mutation preserves the invariant, whatever its outcome.               *)
LEMMA MutationStep ==
    ASSUME FileInv, NEW gvk \in Kinds, NEW key \in Keys, NEW outcome \in Outcomes,
           NEW new, NEW type, NEW event, NEW call,
           Mutation(gvk, key, new, type, event, call, outcome)
    PROVE  FileInv'
<1>1. /\ Write(gvk, key, new, type, event, call, outcome) /\ UIDStep(outcome)
      /\ call \in callRecord /\ new \in Object \cup {NoObject}
      /\ new # NoObject => new.key = key /\ new.rv = revision + 1
      /\ ~OmitEmpty => WellSplit(call.op, files[gvk][key], new)
  BY Zenon DEF Mutation
<1>2. /\ up
      /\ \/ Changed(gvk, key, new, call, outcome) /\ Counters(outcome)
         \/ NotWritten(outcome)
  BY <1>1, WriteOutcomes, Zenon
<1>3. /\ uidCounter' \in Nat /\ uidFile' \in Nat /\ uids' \in Seq(Nat)
      /\ UIDsPersisted' /\ UIDsUnique'
  <2>1. outcome = "crash" => uidCounter' = 0 /\ ~up'
    BY <1>2, Zenon DEF Counters, NotWritten
  <2> QED
    BY <1>1, <1>2, <2>1, UIDStepKeeps, Zenon
<1>4. /\ revision \in Nat /\ revisionFile \in Nat /\ failed \in Nat /\ crashes \in Nat
      /\ files \in [Kinds -> [Keys -> Object \cup {NoObject}]]
      /\ changes \in Seq(changeRecord) /\ up \in BOOLEAN
  BY Zenon DEF FileInv, FileTypeOK
<1>5. /\ revisionFile <= revision /\ revision <= revisionFile + failed
      /\ \A g \in Kinds, k \in Keys :
            files[g][k] # NoObject =>
               /\ files[g][k].rv \in Nat
               /\ files[g][k].rv <= revisionFile + failed + (IF crashes = 0 THEN 0 ELSE 1)
  <2>1. \A g \in Kinds, k \in Keys : files[g][k] # NoObject => files[g][k] \in Object
    BY <1>4, Zenon
  <2>2. \A obj \in Object : obj.rv \in Nat
    BY Zenon DEF Object
  <2> QED
    BY <1>2, <2>1, <2>2, Zenon DEF FileInv, RevisionFileLag
<1>6. CASE Changed(gvk, key, new, call, outcome) /\ Counters(outcome)
  <2>1. /\ Keyed' /\ RunBehindRevision' /\ RevisionsIncreaseInRun'
        /\ ~OmitEmpty => SplitWrites'
    <3>1. \/ up' /\ crashes' = crashes /\ revision' = revision + 1
          \/ ~up' /\ crashes' = crashes + 1
      BY <1>2, <1>6, Zenon DEF Counters
    <3> QED
      BY <1>1, <1>2, <1>6, <3>1, ChangedKeeps, Zenon
  <2>2. /\ files' \in [Kinds -> [Keys -> Object \cup {NoObject}]]
        /\ changes' \in Seq(changeRecord)
        /\ \A g \in Kinds, k \in Keys :
              files'[g][k] = IF g = gvk /\ k = key THEN new ELSE files[g][k]
    <3>1. /\ call \in callRecord /\ new \in Object \cup {NoObject}
          /\ Changed(gvk, key, new, call, outcome)
      BY <1>1, <1>6, Zenon
    <3>2. changes' \in Seq(changeRecord)
      BY <3>1, ChangedFacts, Zenon
    <3>3. files' = [files EXCEPT ![gvk][key] = new]
      BY <3>1, Zenon DEF Changed
    <3> QED
      BY <1>4, <3>1, <3>2, <3>3, Zenon
  <2>3. FileTypeOK'
    <3>1. up' \in BOOLEAN
      BY <1>4, <1>6, Zenon DEF Counters
    <3>2. revision' \in Nat /\ revisionFile' \in Nat /\ failed' \in Nat /\ crashes' \in Nat
      BY <1>4, <1>6, SMTT(20) DEF Counters
    <3> QED
      BY <1>3, <2>2, <3>1, <3>2, Zenon DEF FileTypeOK
  <2> DEFINE lag == revisionFile + failed + (IF crashes = 0 THEN 0 ELSE 1)
             bound == revisionFile' + failed' + (IF crashes' = 0 THEN 0 ELSE 1)
  <2>4. /\ lag \in Nat /\ bound \in Nat /\ lag <= bound /\ revision + 1 <= bound
        /\ up' => revisionFile' <= revision' /\ revision' <= revisionFile' + failed'
    <3>1. revisionFile <= revision /\ revision <= revisionFile + failed
      BY <1>5, Zenon
    <3>2. CASE outcome = "ok"
      BY <1>4, <1>6, <3>1, <3>2 DEF Counters
    <3>3. CASE outcome = "persistError"
      BY <1>4, <1>6, <3>1, <3>3 DEF Counters
    <3>4. CASE outcome = "crash"
      BY <1>4, <1>6, <3>1, <3>4 DEF Counters
    <3> QED
      BY <1>6, <3>2, <3>3, <3>4, Zenon DEF Counters
  <2>5. \A g \in Kinds, k \in Keys : files'[g][k] # NoObject => files'[g][k].rv <= bound
    <3> HIDE DEF bound
    <3> SUFFICES ASSUME NEW g \in Kinds, NEW k \in Keys, files'[g][k] # NoObject
                 PROVE  files'[g][k].rv <= bound
      BY Zenon
    <3>1. CASE g = gvk /\ k = key
      BY <1>1, <2>2, <2>4, <3>1, ZenonT(30)
    <3>2. CASE ~(g = gvk /\ k = key)
      <4>1. files'[g][k] = files[g][k]
        BY <2>2, <3>2, Zenon
      <4>2. files[g][k].rv \in Nat /\ files[g][k].rv <= lag
        BY <1>5, <4>1, Zenon
      <4> QED
        BY <2>4, <4>1, <4>2
    <3> QED
      BY <3>1, <3>2, Zenon
  <2>6. RevisionFileLag'
    BY <2>4, <2>5, Zenon DEF RevisionFileLag
  <2> QED
    BY <1>3, <2>1, <2>3, <2>6, Zenon DEF FileInv
<1>7. CASE NotWritten(outcome)
  <2>1. FileTypeOK'
    BY <1>3, <1>4, <1>7 DEF FileTypeOK, NotWritten
  <2>2. Keyed' /\ RevisionsIncreaseInRun' /\ (~OmitEmpty => SplitWrites')
    BY <1>7, Zenon DEF FileInv, Keyed, RevisionsIncreaseInRun, SplitWrites, Modified, NotWritten
  <2>3. RunBehindRevision'
    <3>1. \A i \in DOMAIN changes : changes[i].rv \in Nat
      <4>1. \A i \in DOMAIN changes : changes[i] \in changeRecord
        BY <1>4
      <4> QED
        BY <4>1, Zenon DEF changeRecord
    <3>2. \A r \in Nat : r <= revision => r <= revision'
      BY <1>4, <1>7 DEF NotWritten
    <3> QED
      BY <1>7, <3>1, <3>2, Zenon DEF FileInv, RunBehindRevision, NotWritten
  <2>4. RevisionFileLag'
    <3>1. revisionFile' <= revision' /\ revision' <= revisionFile' + failed'
      BY <1>4, <1>5, <1>7 DEF NotWritten
    <3>2. \A r \in Nat : r <= revisionFile + failed + (IF crashes = 0 THEN 0 ELSE 1)
                        => r <= revisionFile' + failed' + (IF crashes' = 0 THEN 0 ELSE 1)
      BY <1>4, <1>7 DEF NotWritten
    <3>3. \A g \in Kinds, k \in Keys :
            files'[g][k] # NoObject =>
               files'[g][k].rv <= revisionFile' + failed' + (IF crashes' = 0 THEN 0 ELSE 1)
      BY <1>5, <1>7, <3>2, Zenon DEF NotWritten
    <3> QED
      BY <3>1, <3>3, Zenon DEF RevisionFileLag
  <2> QED
    BY <1>3, <2>1, <2>2, <2>3, <2>4, Zenon DEF FileInv
<1> QED
  BY <1>2, <1>6, <1>7, Zenon

(* A process that dies between mutations, or on a restart, preserves it.   *)
LEMMA CrashStep ==
    ASSUME FileInv, Crash \/ Restart
    PROVE  FileInv'
<1>1. /\ revision \in Nat /\ revisionFile \in Nat /\ uidFile \in Nat
      /\ failed \in Nat /\ crashes \in Nat /\ changes \in Seq(changeRecord)
      /\ files \in [Kinds -> [Keys -> Object \cup {NoObject}]]
  BY Zenon DEF FileInv, FileTypeOK
<1>2. \A i \in DOMAIN changes :
        /\ changes[i].run \in Nat /\ changes[i].rv \in Nat
        /\ changes[i].run <= crashes
        /\ ~up => changes[i].run < crashes
  <2>1. \A i \in DOMAIN changes : changes[i] \in changeRecord
    BY <1>1
  <2> QED
    BY <2>1, Zenon DEF FileInv, RunBehindRevision, changeRecord
<1>3. \A gvk \in Kinds, key \in Keys :
        files[gvk][key] # NoObject =>
           /\ files[gvk][key].rv \in Nat
           /\ files[gvk][key].rv <= revisionFile + failed + (IF crashes = 0 THEN 0 ELSE 1)
  <2>1. \A gvk \in Kinds, key \in Keys :
          files[gvk][key] # NoObject => files[gvk][key] \in Object
    BY <1>1, Zenon
  <2>2. \A obj \in Object : obj.rv \in Nat
    BY Zenon DEF Object
  <2> QED
    BY <2>1, <2>2, Zenon DEF FileInv, RevisionFileLag
<1>4. CASE Crash
  <2>1. /\ ~up' /\ up' \in BOOLEAN /\ revision' = 0 /\ uidCounter' = 0
        /\ crashes' = crashes + 1 /\ failed' = failed
        /\ files' = files /\ revisionFile' = revisionFile /\ uidFile' = uidFile
        /\ changes' = changes /\ uids' = uids
    BY <1>4, Zenon DEF Crash, Lost
  <2>2. FileTypeOK'
    BY <1>1, <2>1 DEF FileInv, FileTypeOK
  <2>3. Keyed' /\ UIDsPersisted' /\ UIDsUnique' /\ RevisionsIncreaseInRun'
    BY <2>1, Zenon DEF FileInv, Keyed, UIDsPersisted, UIDsUnique, RevisionsIncreaseInRun
  <2>4. RunBehindRevision'
    BY <1>1, <1>2, <2>1 DEF RunBehindRevision
  <2>5. RevisionFileLag'
    BY <1>1, <1>3, <2>1 DEF RevisionFileLag
  <2>6. ~OmitEmpty => SplitWrites'
    BY <2>1, Zenon DEF FileInv, SplitWrites, Modified
  <2> QED
    BY <2>2, <2>3, <2>4, <2>5, <2>6, Zenon DEF FileInv
<1>5. CASE Restart
  <2>1. /\ ~up /\ up' /\ up' \in BOOLEAN /\ revision' = revisionFile /\ uidCounter' = uidFile
        /\ crashes' = crashes /\ failed' = failed
        /\ files' = files /\ revisionFile' = revisionFile /\ uidFile' = uidFile
        /\ changes' = changes /\ uids' = uids
    BY <1>5, Zenon DEF Restart
  <2>2. FileTypeOK'
    BY <1>1, <2>1, Zenon DEF FileInv, FileTypeOK
  <2>3. Keyed' /\ UIDsPersisted' /\ UIDsUnique' /\ RevisionsIncreaseInRun'
    BY <2>1, Zenon DEF FileInv, Keyed, UIDsPersisted, UIDsUnique, RevisionsIncreaseInRun
  <2>4. RunBehindRevision'
    BY <1>1, <1>2, <2>1 DEF RunBehindRevision
  <2>5. RevisionFileLag'
    BY <1>1, <1>3, <2>1 DEF RevisionFileLag
  <2>6. ~OmitEmpty => SplitWrites'
    BY <2>1, Zenon DEF FileInv, SplitWrites, Modified
  <2> QED
    BY <2>2, <2>3, <2>4, <2>5, <2>6, Zenon DEF FileInv
<1> QED
  BY <1>4, <1>5, Zenon

(* Steps that leave files and counters alone preserve it: those of the     *)
(* watchers' consumers, and stuttering.                                    *)
LEMMA OtherStep ==
    ASSUME FileInv, UNCHANGED fileVars, UNCHANGED revision
    PROVE  FileInv'
  BY Zenon DEF FileInv, FileTypeOK, Keyed, UIDsPersisted, UIDsUnique, RunBehindRevision,
         RevisionsIncreaseInRun, RevisionFileLag, SplitWrites, Modified, fileVars

(* The inductive invariant of the filesystem backend.                      *)
THEOREM FileInvariant == Spec => []FileInv
<1>1. Init => FileInv
  <2> SUFFICES ASSUME Init PROVE FileInv
    BY Zenon
  <2>1. FileTypeOK
    BY EmptySeq, Zenon DEF Init, NewLog, FileTypeOK
  <2>2. \A gvk \in Kinds, key \in Keys : files[gvk][key] = NoObject
    BY Zenon DEF Init
  <2>3. DOMAIN changes = {} /\ DOMAIN uids = {}
    BY DEF Init
  <2>4. UIDsPersisted
    BY <2>3, Zenon DEF Init, UIDsPersisted
  <2>5. RevisionFileLag
    BY <2>2 DEF Init, NewLog, RevisionFileLag
  <2> QED
    BY <2>1, <2>2, <2>3, <2>4, <2>5, Zenon
    DEF FileInv, Keyed, UIDsUnique, RunBehindRevision, RevisionsIncreaseInRun, SplitWrites, Modified
<1>2. FileInv /\ [Next]_vars => FileInv'
  <2> SUFFICES ASSUME FileInv, [Next]_vars PROVE FileInv'
    BY Zenon
  <2>1. CASE Mutate
    BY <2>1, MutateIsMutation, MutationStep, Zenon
  <2>2. CASE up /\ Consume /\ UNCHANGED fileVars
    BY <2>2, ConsumeKeepsLog, OtherStep, Zenon DEF logVars
  <2>3. CASE Crash \/ Restart
    BY <2>3, CrashStep, Zenon
  <2>4. CASE UNCHANGED vars
    BY <2>4, OtherStep, Zenon DEF vars, logVars
  <2> QED
    BY <2>1, <2>2, <2>3, <2>4, Zenon DEF Next
<1> QED
  BY <1>1, <1>2, PTL DEF Spec

(* No two versions of objects written by one process share a               *)
(* resourceVersion, whichever of its writes fail (revision.Add).           *)
THEOREM RevisionsIncreaseWhileUp == Spec => []RevisionsIncreaseInRun
<1>1. FileInv => RevisionsIncreaseInRun
  BY Zenon DEF FileInv
<1> QED
  BY <1>1, FileInvariant, PTL

(* No UID is given out twice over all restarts of the store (generateUID,  *)
(* loadUIDCounter).                                                        *)
THEOREM UIDsNeverReused == Spec => []UIDsUnique
<1>1. FileInv => UIDsUnique
  BY Zenon DEF FileInv
<1> QED
  BY <1>1, FileInvariant, PTL

(* However often the process dies between the write of an object and that  *)
(* of .revision, a running store is at most one revision behind its files, *)
(* plus one for each write that failed (loadRevision, persistRevision).    *)
THEOREM RestartLagBounded == Spec => []RevisionLagBounded
<1>1. FileInv => RevisionLagBounded
  <2> SUFFICES ASSUME FileInv, up, NEW gvk \in Kinds, NEW key \in Keys, files[gvk][key] # NoObject
               PROVE  files[gvk][key].rv <= revision + failed + (IF crashes = 0 THEN 0 ELSE 1)
    BY Zenon DEF RevisionLagBounded
  <2>1. files[gvk][key] \in Object
    BY Zenon DEF FileInv, FileTypeOK
  <2>2. files[gvk][key].rv \in Nat
    BY <2>1, Zenon DEF Object
  <2>3. /\ revisionFile <= revision
        /\ files[gvk][key].rv <= revisionFile + failed + (IF crashes = 0 THEN 0 ELSE 1)
    BY Zenon DEF FileInv, RevisionFileLag
  <2>4. revision \in Nat /\ revisionFile \in Nat /\ failed \in Nat /\ crashes \in Nat
    BY Zenon DEF FileInv, FileTypeOK
  <2> QED
    BY <2>2, <2>3, <2>4
<1> QED
  BY <1>1, FileInvariant, PTL

(* Update and UpdateStatus of the filesystem backend keep to their part of *)
(* the object, and write only when they change it, for types without       *)
(* omitempty.                                                              *)
THEOREM FileWritesSplit ==
    ASSUME ~OmitEmpty
    PROVE  Spec => []SplitWrites
<1>1. FileInv => SplitWrites
  BY Zenon DEF FileInv
<1> QED
  BY <1>1, FileInvariant, PTL
-----------------------------------------------------------------------------
(* What a store has of its log and its watchers before its first event.    *)
EmptyLog == eventLog = <<>> /\ history = <<>> /\ watchers = NewWatchers /\ watch = NoWatch

(* What the invariants of WatchLog say of the store's own log.             *)
LogInv == LogTypeOK /\ LogIsRecentHistory /\ WatchOK

(* Every change this run has announced is in the history, under its        *)
(* revision and its kind.                                                  *)
Announced ==
    \A i \in DOMAIN changes :
        changes[i].announced /\ changes[i].run = crashes =>
            \E h \in DOMAIN history :
                history[h].revision = changes[i].rv /\ history[h].gvk = changes[i].gvk

FileLog ==
    /\ LogInv
    /\ Announced
    /\ ~up => EmptyLog

(* An empty log satisfies them at whatever revision loadRevision found.    *)
LEMMA EmptyLogInv ==
    ASSUME EmptyLog, revision \in Nat
    PROVE  LogInv
<1>1. LogTypeOK
  <2>1. (CHOOSE gvk \in Kinds : TRUE) \in Kinds
    BY KindsAssumption, Zenon
  <2>2. <<>> \in Seq(Event)
    OBVIOUS
  <2> DEFINE none == [stage |-> "free", gvk |-> CHOOSE gvk \in Kinds : TRUE, sel |-> {},
                      ch |-> <<>>, cap |-> 0, closed |-> FALSE, cursor |-> 0]
  <2>3. none \in memoryWatcher
    BY <2>1, <2>2, Zenon DEF memoryWatcher
  <2>4. watch = [w \in Watchers |-> none]
    BY Zenon DEF EmptyLog, NoWatch
  <2> HIDE DEF none
  <2> QED
    BY <2>3, <2>4 DEF EmptyLog, NewWatchers, LogTypeOK
<1>2. LogIsRecentHistory
  BY WatchLogAssumption DEF EmptyLog, LogIsRecentHistory
<1>3. WatchOK
  BY DEF EmptyLog, NewWatchers, NoWatch, WatchOK, WatcherOK
<1> QED
  BY <1>1, <1>2, <1>3, Zenon DEF LogInv

(* The same of the next state.                                             *)
LEMMA EmptyLogInvNext == (EmptyLog /\ revision \in Nat)' => LogInv'
<1>1. EmptyLog /\ revision \in Nat => LogInv
  BY EmptyLogInv, Zenon
<1> QED
  BY <1>1, PTL

(* A revision taken without an event leaves them (persistRevision fails,   *)
(* the object file cannot be written).                                     *)
LEMMA LogInvSkips ==
    ASSUME LogInv, revision' \in Nat, revision <= revision', UNCHANGED <<eventLog, history, watchVars>>
    PROVE  LogInv'
<1>1. /\ revision \in Nat /\ history \in Seq(eventLogEntry) /\ watch \in [Watchers -> memoryWatcher]
      /\ \A i \in DOMAIN history : history[i].revision <= revision
  BY Zenon DEF LogInv, LogTypeOK, LogIsRecentHistory
<1>2. \A i \in DOMAIN history : history[i].revision \in Nat
  <2>1. \A i \in DOMAIN history : history[i] \in eventLogEntry
    BY <1>1
  <2> QED
    BY <2>1, Zenon DEF eventLogEntry
<1>3. LogTypeOK'
  BY Zenon DEF LogInv, LogTypeOK, watchVars
<1>4. LogIsRecentHistory'
  <2>1. \A i \in DOMAIN history : history[i].revision <= revision'
    BY <1>1, <1>2
  <2> QED
    BY <2>1, Zenon DEF LogInv, LogIsRecentHistory
<1>5. WatchOK'
  <2> SUFFICES ASSUME NEW w \in Watchers PROVE WatcherOK(w)'
    BY Zenon DEF WatchOK
  <2>1. WatcherOK(w) /\ watch' = watch /\ watchers' = watchers
    BY Zenon DEF LogInv, WatchOK, watchVars
  <2>2. watch[w].cursor <= revision'
    <3>1. watch[w].cursor \in Nat /\ watch[w].cursor <= revision
      BY <1>1, <2>1, Zenon DEF WatcherOK, memoryWatcher
    <3> QED
      BY <1>1, <3>1
  <2>3. Stream(watch[w]) => Stream(watch[w])'
    BY <2>1, Zenon DEF Stream, Due, Covered, InOrder
  <2> QED
    BY <2>1, <2>2, <2>3, Zenon DEF WatcherOK
<1> QED
  BY <1>3, <1>4, <1>5, Zenon DEF LogInv

(* Emitting an event keeps them, and adds the event to the history.        *)
LEMMA LogInvEmits ==
    ASSUME LogInv, NEW gvk \in Kinds, NEW type \in {"ADDED", "MODIFIED", "DELETED"},
           NEW obj \in Object, obj.rv = revision + 1, Emit(gvk, type, obj)
    PROVE  /\ LogInv'
           /\ \A h \in DOMAIN history : h \in DOMAIN history' /\ history'[h] = history[h]
           /\ \E h \in DOMAIN history' :
                 history'[h].revision = revision + 1 /\ history'[h].gvk = gvk
<1> DEFINE event == [type |-> type, obj |-> obj]
           entry == [revision |-> revision + 1, gvk |-> gvk, event |-> event]
<1>1. revision \in Nat /\ history \in Seq(eventLogEntry)
  BY Zenon DEF LogInv, LogTypeOK
<1>2. event \in Event /\ event.obj = obj
  BY Zenon DEF Event
<1>3. revision' = revision + 1 /\ logEvent(entry)
  BY Zenon DEF Emit
<1> HIDE DEF event
<1>4. /\ entry \in eventLogEntry /\ entry.revision = revision + 1 /\ entry.gvk = gvk
      /\ entry.event = event
  BY <1>1, <1>2 DEF eventLogEntry
<1> HIDE DEF entry
<1>5. LogTypeOK'
  BY EmitType, Zenon DEF LogInv
<1>6. LogIsRecentHistory'
  BY <1>1, <1>2, <1>3, <1>4, LogEventRecent, SMTT(20) DEF LogInv
<1>7. WatchOK'
  BY EmitWatch, Zenon DEF LogInv
<1>8. history' = Append(history, entry)
  BY <1>3, Zenon DEF logEvent
<1>9. /\ Len(history') = Len(history) + 1 /\ Len(history) \in Nat
      /\ DOMAIN history = 1..Len(history) /\ DOMAIN history' = 1..Len(history')
      /\ \A h \in 1..Len(history) : history'[h] = history[h]
      /\ history'[Len(history) + 1] = entry
  BY <1>1, <1>4, <1>8, AppendProperties, LenProperties, SMTT(20)
<1>10. \E h \in DOMAIN history' : history'[h].revision = revision + 1 /\ history'[h].gvk = gvk
  <2>1. Len(history) + 1 \in DOMAIN history'
    BY <1>9
  <2> QED
    BY <1>4, <1>9, <2>1, Zenon
<1>11. \A h \in DOMAIN history : h \in DOMAIN history' /\ history'[h] = history[h]
  BY <1>9
<1> QED
  BY <1>5, <1>6, <1>7, <1>10, <1>11, Zenon DEF LogInv

(* A dead or restarted store has nothing announced to account for.         *)
LEMMA LostLog ==
    ASSUME FileInv', EmptyLog', ~up' \/ (~up /\ crashes' = crashes /\ changes' = changes), FileInv
    PROVE  FileLog'
<1>1. LogInv'
  <2>1. revision' \in Nat
    BY Zenon DEF FileInv, FileTypeOK
  <2> QED
    BY <2>1, EmptyLogInvNext, Zenon
<1>2. \A i \in DOMAIN changes' : changes'[i].run < crashes'
  BY Zenon DEF FileInv, RunBehindRevision
<1>3. crashes' \in Nat
  BY Zenon DEF FileInv, FileTypeOK
<1>4. Announced'
  BY <1>2, <1>3 DEF Announced
<1> QED
  BY <1>1, <1>4, Zenon DEF FileLog

(* A mutation announces what it records as announced, and nothing else.    *)
LEMMA MutationLog ==
    ASSUME FileInv, FileInv', FileLog, NEW gvk \in Kinds, NEW key \in Keys, NEW outcome \in Outcomes,
           NEW new, NEW type, NEW event, NEW call,
           Mutation(gvk, key, new, type, event, call, outcome)
    PROVE  FileLog'
<1>1. /\ Write(gvk, key, new, type, event, call, outcome)
      /\ call \in callRecord /\ new \in Object \cup {NoObject}
      /\ type \in {"ADDED", "MODIFIED", "DELETED"} /\ event \in Object /\ event.rv = revision + 1
  BY Zenon DEF Mutation
<1>2. /\ up
      /\ \/ Changed(gvk, key, new, call, outcome) /\ Counters(outcome)
         \/ NotWritten(outcome)
  BY <1>1, WriteOutcomes, Zenon
<1>3. /\ LogInv /\ Announced /\ revision \in Nat /\ revision' \in Nat
  BY Zenon DEF FileLog, FileInv, FileTypeOK
<1>4. CASE outcome = "crash"
  <2>1. ~up' /\ EmptyLog'
    BY <1>1, <1>4, Zenon DEF Write, Lost, EmptyLog, NewWatchers, NoWatch
  <2> QED
    BY <2>1, LostLog, Zenon
<1>5. CASE outcome = "writeError"
  <2>1. NotWritten(outcome)
    BY <1>2, <1>5, Zenon DEF Counters
  <2>2. UNCHANGED <<eventLog, history, watchVars, changes, crashes, up>>
    BY <1>1, <1>5, <2>1, Zenon DEF Write, NotWritten
  <2>3. revision <= revision'
    BY <1>3, <2>1 DEF NotWritten
  <2>4. LogInv'
    BY <1>3, <2>2, <2>3, LogInvSkips, Zenon
  <2>5. Announced'
    BY <1>3, <2>2, Zenon DEF Announced
  <2> QED
    BY <1>2, <2>2, <2>4, <2>5, Zenon DEF FileLog
<1>6. CASE outcome \in {"ok", "persistError"}
  <2> DEFINE n == Len(changes)
  <2>1. Changed(gvk, key, new, call, outcome) /\ Counters(outcome)
    BY <1>2, <1>6, Zenon DEF NotWritten
  <2>2. crashes' = crashes /\ up' = up /\ revision' = revision + 1
    BY <1>6, <2>1, Zenon DEF Counters
  <2>3. /\ DOMAIN changes = 1..n /\ n \in Nat /\ DOMAIN changes' = 1..(n + 1)
        /\ \A i \in 1..n : changes'[i] = changes[i]
        /\ changes'[n + 1] = Recorded(gvk, key, new, call, outcome)
    <3>1. /\ call \in callRecord /\ new \in Object \cup {NoObject}
          /\ Changed(gvk, key, new, call, outcome)
      BY <1>1, <2>1, Zenon
    <3> QED
      BY <3>1, ChangedFacts
  <2>4. /\ changes'[n + 1].gvk = gvk /\ changes'[n + 1].rv = revision + 1
        /\ changes'[n + 1].announced = (outcome = "ok")
    <3> DEFINE last == Recorded(gvk, key, new, call, outcome)
    <3>1. last.gvk = gvk /\ last.rv = revision + 1 /\ last.announced = (outcome = "ok")
      BY Zenon DEF Recorded
    <3>2. changes'[n + 1] = last
      BY <2>3, Zenon
    <3> HIDE DEF last, n
    <3> QED
      BY <3>1, <3>2, Zenon
  <2> HIDE DEF n
  <2>5. \A i \in 1..(n + 1) : i # n + 1 => i \in 1..n
    BY <2>3
  <2>6. /\ LogInv'
        /\ \A h \in DOMAIN history : h \in DOMAIN history' /\ history'[h] = history[h]
        /\ outcome = "ok" =>
              \E h \in DOMAIN history' :
                 history'[h].revision = revision + 1 /\ history'[h].gvk = gvk
    <3>1. CASE outcome = "ok"
      <4>1. Emit(gvk, type, event)
        BY <1>1, <3>1, Zenon DEF Write
      <4> QED
        BY <1>1, <1>3, <4>1, LogInvEmits, Zenon
    <3>2. CASE outcome = "persistError"
      <4>1. UNCHANGED <<eventLog, history, watchVars>>
        BY <1>1, <3>2, Zenon DEF Write, PersistFailed
      <4>2. LogInv'
        BY <1>3, <2>2, <4>1, LogInvSkips
      <4> QED
        BY <3>2, <4>1, <4>2, Zenon
    <3> QED
      BY <1>6, <3>1, <3>2, Zenon
  <2>7. Announced'
    <3> SUFFICES ASSUME NEW i \in 1..(n + 1), changes'[i].announced, changes'[i].run = crashes'
                 PROVE  \E h \in DOMAIN history' :
                           /\ history'[h].revision = changes'[i].rv
                           /\ history'[h].gvk = changes'[i].gvk
      BY <2>3, Zenon DEF Announced
    <3>1. CASE i = n + 1
      BY <2>4, <2>6, <3>1, Zenon
    <3>2. CASE i # n + 1
      <4>1. i \in DOMAIN changes /\ changes'[i] = changes[i]
        BY <2>3, <2>5, <3>2, Zenon
      <4>2. PICK h \in DOMAIN history :
              history[h].revision = changes[i].rv /\ history[h].gvk = changes[i].gvk
        BY <1>3, <2>2, <4>1, Zenon DEF Announced
      <4> QED
        BY <2>6, <4>1, <4>2, Zenon
    <3> QED
      BY <3>1, <3>2, Zenon
  <2> QED
    BY <1>2, <2>2, <2>6, <2>7, Zenon DEF FileLog
<1> QED
  BY <1>1, <1>4, <1>5, <1>6, OutcomesAssumption, Zenon

(* The inductive invariant of the filesystem backend's log.                *)
THEOREM FileLogInvariant == Spec => []FileLog
<1>1. Init => FileLog
  <2> SUFFICES ASSUME Init PROVE FileLog
    BY Zenon
  <2>1. EmptyLog /\ revision \in Nat /\ up
    BY Zenon DEF Init, NewLog, EmptyLog
  <2>2. LogInv
    BY <2>1, EmptyLogInv, Zenon
  <2>3. Announced
    BY DEF Init, Announced
  <2> QED
    BY <2>1, <2>2, <2>3, Zenon DEF FileLog
<1>2. FileLog /\ FileInv /\ FileInv' /\ [Next]_vars => FileLog'
  <2> SUFFICES ASSUME FileLog, FileInv, FileInv', [Next]_vars PROVE FileLog'
    BY Zenon
  <2>1. CASE Mutate
    <3>1. PICK gvk \in Kinds, key \in Keys, outcome \in Outcomes :
            \E new, type, event, call : Mutation(gvk, key, new, type, event, call, outcome)
      BY <2>1, MutateIsMutation, Zenon
    <3> QED
      BY <3>1, MutationLog, Zenon
  <2>2. CASE up /\ Consume /\ UNCHANGED fileVars
    <3>1. UNCHANGED <<revision, eventLog, history, changes, crashes, up>>
      BY <2>2, ConsumeKeepsLog, Zenon DEF logVars, fileVars
    <3>2. LogTypeOK'
      BY <2>2, ConsumeType, Zenon DEF FileLog, LogInv
    <3>3. LogIsRecentHistory'
      BY <3>1, Zenon DEF FileLog, LogInv, LogIsRecentHistory
    <3>4. WatchOK'
      BY <2>2, ConsumeWatch, Zenon DEF FileLog, LogInv
    <3>5. Announced'
      BY <3>1, Zenon DEF FileLog, Announced
    <3> QED
      BY <2>2, <3>1, <3>2, <3>3, <3>4, <3>5, Zenon DEF FileLog, LogInv
  <2>3. CASE Crash
    <3>1. ~up' /\ EmptyLog'
      BY <2>3, Zenon DEF Crash, Lost, EmptyLog, NewWatchers, NoWatch
    <3> QED
      BY <3>1, LostLog, Zenon
  <2>4. CASE Restart
    <3>1. ~up /\ crashes' = crashes /\ changes' = changes
      BY <2>4, Zenon DEF Restart
    <3>2. EmptyLog'
      BY <2>4, <3>1, Zenon DEF Restart, FileLog, EmptyLog, NewWatchers, NoWatch, watchVars
    <3> QED
      BY <3>1, <3>2, LostLog, Zenon
  <2>5. CASE UNCHANGED vars
    <3>1. /\ UNCHANGED <<revision, eventLog, history, watchVars, watchers, watch>>
          /\ UNCHANGED <<changes, crashes, up>>
      BY <2>5, Zenon DEF vars, logVars, fileVars, watchVars
    <3>2. LogInv'
      <4>1. LogInv /\ revision \in Nat
        BY Zenon DEF FileLog, LogInv, LogTypeOK
      <4> QED
        BY <3>1, <4>1, LogInvSkips
    <3>3. Announced'
      BY <3>1, Zenon DEF FileLog, Announced
    <3>4. ~up' => EmptyLog'
      BY <3>1, Zenon DEF FileLog, EmptyLog, NewWatchers, NoWatch
    <3> QED
      BY <3>2, <3>3, <3>4, Zenon DEF FileLog
  <2> QED
    BY <2>1, <2>2, <2>3, <2>4, <2>5, Zenon DEF Next
<1> QED
  BY <1>1, <1>2, FileInvariant, PTL DEF Spec

(* A watch whose channel is empty and open has told its consumer of every  *)
(* change that was announced since it began, whatever failed in between    *)
(* (logEvent, send).                                                       *)
THEOREM WatchesSeeChanges == Spec => []WatchSeesStore
<1>1. FileLog /\ FileInv => WatchSeesStore
  <2> SUFFICES ASSUME FileLog, FileInv, NEW w \in Watchers,
                      watch[w].stage = "open", ~watch[w].closed, watch[w].ch = <<>>, watch[w].sel = {},
                      NEW i \in DOMAIN changes, changes[i].announced, changes[i].run = crashes,
                      changes[i].gvk = watch[w].gvk, ~(changes[i].rv <= watch[w].cursor)
               PROVE  FALSE
    BY Zenon DEF WatchSeesStore
  <2>1. PICK h \in DOMAIN history :
          history[h].revision = changes[i].rv /\ history[h].gvk = changes[i].gvk
    BY Zenon DEF FileLog, Announced
  <2>2. changes[i].rv \in Nat
    <3>1. changes[i] \in changeRecord
      BY DEF FileInv, FileTypeOK
    <3> QED
      BY <3>1, Zenon DEF changeRecord
  <2>3. watch[w].cursor \in Nat
    <3>1. watch[w] \in memoryWatcher
      BY Zenon DEF FileLog, LogInv, LogTypeOK
    <3> QED
      BY <3>1, Zenon DEF memoryWatcher
  <2>4. h \in Due(watch[w].gvk, watch[w].cursor)
    BY <2>1, <2>2, <2>3 DEF Due
  <2>5. WatchNoGap
    BY WatchPromise, Zenon DEF FileLog, LogInv
  <2>6. history[h].revision \in Buffered(w)
    BY <2>4, <2>5, Zenon DEF WatchNoGap
  <2> QED
    BY <2>6 DEF Buffered
<1> QED
  BY <1>1, FileInvariant, FileLogInvariant, PTL

-----------------------------------------------------------------------------
(***************************************************************************)
(* The registry of the informers, for any number of kinds, informers and   *)
(* threads: every informer has one starter, and a kind marked as synced    *)
(* has a filled informer.                                                  *)
(***************************************************************************)
Working == {"check", "list", "mark", "undo", "Start list", "Start mark"}

(* What a thread knows about the informers it has taken on.                *)
ThreadOK(t) ==
    /\ mine[t] # NoInformer <=> pc[t] \in Working
    /\ todo[t] # {} => pc[t] \in {"Start", "Start list", "Start mark"}
    /\ ~started => todo[t] = {} /\ mine[t] = NoInformer
    /\ \A x \in todo[t] : starts[x] = 0 /\ x \notin filled /\ mine[t] # x
    /\ pc[t] = "check" => starts[mine[t]] = 0
    /\ pc[t] \in {"list", "mark", "Start list", "Start mark"} => starts[mine[t]] = 1
    /\ pc[t] \in {"check", "list", "undo", "Start list"} => mine[t] \notin filled
    /\ pc[t] \in {"mark", "Start mark"} => mine[t] \in filled

(* What is known of an informer.  As long as no removal has met a start,   *)
(* an informer someone starts is the registered one of its kind.           *)
InformerOK(x) ==
    /\ starts[x] \in {0, 1}
    /\ ~started => starts[x] = 0 /\ x \notin filled
    /\ kind[x] = NoKind => starts[x] = 0 /\ x \notin filled /\ \A t \in Threads : ~Claims(t, x)
    /\ \A t, s \in Threads : Claims(t, x) /\ Claims(s, x) => t = s
    /\ ~raced => \A t \in Threads : Claims(t, x) => informers[kind[x]] = x

RegistryOK(gvk) ==
    LET x == informers[gvk]
    IN  /\ x # NoInformer => kind[x] = gvk
        /\ x # NoInformer /\ started =>
              starts[x] = 1 \/ failures > 0 \/ \E t \in Threads : Claims(t, x)
        /\ ~raced /\ gvk \in synced => x # NoInformer /\ x \in filled

(* The inductive invariant.                                                *)
LifecycleInv ==
    /\ LifecycleTypeOK
    /\ \A t \in Threads : ThreadOK(t)
    /\ \A x \in Informers : InformerOK(x)
    /\ \A gvk \in Gvks : RegistryOK(gvk)

(* A new cache has no informer.                                            *)
LEMMA InitInv == NewCache => LifecycleInv
<1> SUFFICES ASSUME NewCache PROVE LifecycleInv
  BY Zenon
<1> USE LifecycleAssumption DEF NewCache
<1>1. LifecycleTypeOK
  BY Zenon DEF LifecycleTypeOK
<1>2. \A t \in Threads : ThreadOK(t)
  BY Zenon DEF ThreadOK, Working
<1>3. \A x \in Informers : InformerOK(x)
  BY Zenon DEF InformerOK, Claims
<1>4. \A gvk \in Gvks : RegistryOK(gvk)
  BY Zenon DEF RegistryOK
<1> QED
  BY <1>1, <1>2, <1>3, <1>4, Zenon DEF LifecycleInv

(* The invariant, taken apart.                                             *)
LEMMA InvFacts ==
    ASSUME LifecycleInv
    PROVE  /\ LifecycleTypeOK
           /\ \A t \in Threads : ThreadOK(t)
           /\ \A x \in Informers : InformerOK(x)
           /\ \A gvk \in Gvks : RegistryOK(gvk)
  BY Zenon DEF LifecycleInv

(* A thread that has work claims an informer that exists.                  *)
LEMMA MineFacts ==
    ASSUME LifecycleInv, NEW t \in Threads, pc[t] \in Working
    PROVE  /\ mine[t] \in Informers /\ Claims(t, mine[t])
           /\ kind[mine[t]] \in Gvks
           /\ ~raced => informers[kind[mine[t]]] = mine[t]
           /\ started
<1>1. mine[t] \in Informers
  <2>1. ThreadOK(t) BY InvFacts, Zenon
  <2>2. mine[t] # NoInformer BY <2>1, Zenon DEF ThreadOK
  <2>3. mine[t] \in Informers \cup {NoInformer} BY InvFacts, Zenon DEF LifecycleTypeOK
  <2> QED BY <2>2, <2>3, Zenon
<1>2. Claims(t, mine[t])
  BY Zenon DEF Claims
<1>3. started
  BY <1>1, InvFacts, LifecycleAssumption, Zenon DEF ThreadOK
<1>4. InformerOK(mine[t])
  BY <1>1, InvFacts, Zenon
<1>5. kind[mine[t]] \in Gvks
  <2>1. kind[mine[t]] \in Gvks \cup {NoKind} BY <1>1, InvFacts, Zenon DEF LifecycleTypeOK
  <2>2. kind[mine[t]] # NoKind BY <1>2, <1>4, Zenon DEF InformerOK
  <2> QED BY <2>1, <2>2, Zenon
<1> QED
  BY <1>1, <1>2, <1>3, <1>4, <1>5, Zenon DEF InformerOK

(* The thread state of s is left alone.                                    *)
Same(s) == pc'[s] = pc[s] /\ mine'[s] = mine[s] /\ todo'[s] = todo[s]

(* Waiting, watching and cancelling take no informer on and drop none.     *)
LEMMA QuietInv ==
    ASSUME LifecycleInv, LifecycleTypeOK',
           UNCHANGED <<informers, synced, started, kind, filled, mine, todo, failures, starts, raced>>,
           \A s \in Threads : \/ pc'[s] = pc[s]
                              \/ pc[s] \notin Working /\ pc'[s] \notin Working /\ todo[s] = {}
    PROVE  LifecycleInv'
<1>1. ASSUME NEW s \in Threads PROVE ThreadOK(s)'
  <2>1. ThreadOK(s) BY InvFacts, Zenon
  <2> QED BY <2>1, Zenon DEF ThreadOK, Working
<1>2. ASSUME NEW x \in Informers PROVE InformerOK(x)'
  BY InvFacts, Zenon DEF InformerOK, Claims
<1>3. ASSUME NEW gvk \in Gvks PROVE RegistryOK(gvk)'
  BY InvFacts, Zenon DEF RegistryOK, Claims
<1> QED
  BY <1>1, <1>2, <1>3, Zenon DEF LifecycleInv

(* Start or GetInformer begins to start an informer it claims (Begin).     *)
LEMMA BeginInv ==
    ASSUME LifecycleInv, NEW t \in Threads, NEW y \in Informers,
           \/ StartNext(t, y)
           \/ CheckContext(t) /\ y = mine[t]
    PROVE  LifecycleInv'
<1>1. ThreadOK(t) /\ LifecycleTypeOK
  BY InvFacts, Zenon
<1>2. Claims(t, y) /\ starts[y] = 0 /\ y \notin filled /\ started
  <2>1. CASE StartNext(t, y)
    BY <1>1, <2>1, Zenon DEF StartNext, ThreadOK, Claims
  <2>2. CASE CheckContext(t) /\ y = mine[t]
    <3>1. pc[t] = "check" BY <2>2, Zenon DEF CheckContext
    <3> QED BY <1>1, <2>2, <3>1, MineFacts, Zenon DEF ThreadOK, Claims, Working
  <2> QED BY <2>1, <2>2, Zenon
<1>3. starts' = [starts EXCEPT ![y] = starts[y] + 1] /\ starts \in [Informers -> Nat]
  <2>1. CASE StartNext(t, y) BY <1>1, <2>1, Zenon DEF StartNext, Begin, LifecycleTypeOK
  <2>2. CASE CheckContext(t) /\ y = mine[t] BY <1>1, <2>2, Zenon DEF CheckContext, Begin, LifecycleTypeOK
  <2> QED BY <2>1, <2>2, Zenon
<1>4. starts'[y] = 1 /\ starts' \in [Informers -> Nat]
  BY <1>2, <1>3
<1>5. \A x \in Informers : x # y => starts'[x] = starts[x]
  BY <1>3, Zenon
<1>6. LifecycleTypeOK'
  <2>1. CASE StartNext(t, y)
    BY <1>1, <1>4, <2>1, Zenon DEF LifecycleTypeOK, StartNext, Begin, Goto, registry, loops
  <2>2. CASE CheckContext(t) /\ y = mine[t]
    BY <1>1, <1>4, <2>2, Zenon DEF LifecycleTypeOK, CheckContext, Begin, Goto, registry, loops
  <2> QED BY <2>1, <2>2, Zenon
<1>7. UNCHANGED <<informers, synced, started, kind, filled, failures, raced>>
  BY Zenon DEF StartNext, CheckContext, Begin, registry
<1>8. /\ pc'[t] \in {"list", "Start list"} /\ mine'[t] = y /\ todo'[t] = todo[t] \ {y}
      /\ todo[t] # {} => pc'[t] = "Start list"
      /\ \A s \in Threads : s # t => Same(s)
  <2>1. CASE StartNext(t, y)
    BY <1>1, <2>1, Zenon DEF StartNext, Begin, Goto, LifecycleTypeOK, Same
  <2>2. CASE CheckContext(t) /\ y = mine[t]
    BY <1>1, <2>2, Zenon DEF CheckContext, Begin, Goto, LifecycleTypeOK, Same, ThreadOK
  <2> QED BY <2>1, <2>2, Zenon
<1>9. \A s \in Threads : s # t => ~Claims(s, y)
  BY <1>2, InvFacts, Zenon DEF InformerOK
<1>10. \A s \in Threads, x \in Informers : Claims(s, x)' <=> Claims(s, x)
  <2>1. CASE StartNext(t, y)
    <3>1. mine[t] = NoInformer BY <1>1, <2>1, Zenon DEF ThreadOK, StartNext, Working
    <3> QED BY <1>8, <2>1, <3>1, LifecycleAssumption, Zenon DEF Claims, Same, StartNext
  <2>2. CASE CheckContext(t) /\ y = mine[t]
    BY <1>1, <1>8, <2>2, Zenon DEF CheckContext, Claims, Same, ThreadOK
  <2> QED BY <2>1, <2>2, Zenon
<1>11. ASSUME NEW s \in Threads PROVE ThreadOK(s)'
  <2>1. ThreadOK(s) BY InvFacts, ZenonT(30)
  <2>2. CASE s = t
    BY <1>1, <1>2, <1>4, <1>5, <1>7, <1>8, <2>2, LifecycleAssumption, ZenonT(30) DEF ThreadOK, Working, LifecycleTypeOK
  <2>3. CASE s # t
    <3>1. y \notin todo[s] /\ mine[s] # y BY <1>9, <2>3, Zenon DEF Claims
    <3>2. pc[s] \in Working => starts'[mine[s]] = starts[mine[s]]
      BY <1>5, <3>1, MineFacts, Zenon
    <3>3. \A x \in todo[s] : starts'[x] = starts[x]
      BY <1>1, <1>5, <3>1, Zenon DEF LifecycleTypeOK
    <3> QED BY <1>7, <1>8, <2>1, <2>3, <3>2, <3>3, Zenon DEF ThreadOK, Same, Working
  <2> QED BY <2>2, <2>3, Zenon
<1>12. ASSUME NEW x \in Informers PROVE InformerOK(x)'
  BY <1>2, <1>4, <1>5, <1>7, <1>10, InvFacts, Zenon DEF InformerOK
<1>13. ASSUME NEW gvk \in Gvks PROVE RegistryOK(gvk)'
  BY <1>1, <1>2, <1>4, <1>5, <1>7, <1>10, InvFacts, Zenon DEF RegistryOK, LifecycleTypeOK
<1> QED
  BY <1>6, <1>11, <1>12, <1>13, Zenon DEF LifecycleInv

(* A new informer is claimed by the thread that registered it if the cache *)
(* was started, by nobody otherwise (getOrCreateInformer).                 *)
LEMMA CreateInv ==
    ASSUME LifecycleInv, NEW t \in Threads, NEW gvk \in Gvks, NEW y \in Informers,
           getOrCreateInformer(t, gvk, y)
    PROVE  LifecycleInv'
<1>1. ThreadOK(t) /\ LifecycleTypeOK /\ InformerOK(y)
  BY InvFacts, Zenon
<1>2. kind[y] = NoKind
  BY LifecycleAssumption, Zenon DEF getOrCreateInformer, Register, Unused
<1>3. starts[y] = 0 /\ y \notin filled /\ \A s \in Threads : ~Claims(s, y)
  BY <1>1, <1>2, Zenon DEF InformerOK
<1>4. \A k \in Gvks : informers[k] # y
  BY <1>2, InvFacts, LifecycleAssumption, Zenon DEF RegistryOK
<1>5. pc[t] = "idle" /\ mine[t] = NoInformer /\ todo[t] = {} /\ informers[gvk] = NoInformer
  BY <1>1, Zenon DEF getOrCreateInformer, Register, ThreadOK, Working
<1>6. UNCHANGED <<synced, started, filled, todo, failures, starts, raced>>
  BY Zenon DEF getOrCreateInformer, Register, aux
<1>7. /\ kind'[y] = gvk /\ informers'[gvk] = y
      /\ \A x \in Informers : x # y => kind'[x] = kind[x]
      /\ \A k \in Gvks : k # gvk => informers'[k] = informers[k]
  BY <1>1, Zenon DEF getOrCreateInformer, Register, LifecycleTypeOK
<1>8. /\ IF started THEN pc'[t] = "check" /\ mine'[t] = y ELSE Same(t)
      /\ \A s \in Threads : s # t => Same(s)
  BY <1>1, Zenon DEF getOrCreateInformer, Register, Goto, LifecycleTypeOK, Same
<1>9. LifecycleTypeOK'
  <2>1. CASE started
    BY <1>1, <2>1, Zenon DEF LifecycleTypeOK, getOrCreateInformer, Register, Goto, loops, aux
  <2>2. CASE ~started
    BY <1>1, <2>2, Zenon DEF LifecycleTypeOK, getOrCreateInformer, Register, Goto, loops, aux
  <2> QED BY <2>1, <2>2, Zenon
<1>10. \A s \in Threads, x \in Informers : Claims(s, x)' <=> Claims(s, x) \/ (s = t /\ x = y /\ started)
  BY <1>5, <1>6, <1>8, LifecycleAssumption, Zenon DEF Claims, Same
<1>11. ASSUME NEW s \in Threads PROVE ThreadOK(s)'
  <2>1. ThreadOK(s) BY InvFacts, Zenon
  <2>2. CASE s = t /\ started
    BY <1>3, <1>5, <1>6, <1>8, <2>2, LifecycleAssumption, Zenon DEF ThreadOK, Working
  <2>3. CASE Same(s)
    BY <1>6, <2>1, <2>3, Zenon DEF ThreadOK, Same
  <2> QED BY <1>8, <2>2, <2>3, Zenon
<1>12. ASSUME NEW x \in Informers PROVE InformerOK(x)'
  <2>1. InformerOK(x) BY InvFacts, Zenon
  <2>2. CASE x = y
    BY <1>3, <1>6, <1>7, <1>10, <2>2, LifecycleAssumption, Zenon DEF InformerOK
  <2>3. CASE x # y
    <3>1. \A s \in Threads : Claims(s, x)' <=> Claims(s, x) BY <1>10, <2>3, Zenon
    <3>2. ~raced /\ (\E s \in Threads : Claims(s, x)) => informers'[kind'[x]] = x
      <4> SUFFICES ASSUME ~raced, NEW s \in Threads, Claims(s, x) PROVE informers'[kind'[x]] = x
        BY Zenon
      <4>1. informers[kind[x]] = x /\ kind[x] # NoKind BY <2>1, Zenon DEF InformerOK
      <4>2. kind[x] \in Gvks BY <1>1, <4>1, Zenon DEF LifecycleTypeOK
      <4>3. kind[x] # gvk BY <1>5, <4>1, LifecycleAssumption, Zenon
      <4> QED BY <1>7, <2>3, <4>1, <4>2, <4>3, Zenon
    <3> QED BY <1>6, <1>7, <2>1, <2>3, <3>1, <3>2, Zenon DEF InformerOK
  <2> QED BY <2>2, <2>3, Zenon
<1>13. ASSUME NEW k \in Gvks PROVE RegistryOK(k)'
  <2>1. RegistryOK(k) BY InvFacts, Zenon
  <2>2. CASE k = gvk
    <3>1. started => Claims(t, y)' BY <1>10, Zenon
    <3>2. ~raced => gvk \notin synced BY <1>5, <2>1, <2>2, Zenon DEF RegistryOK
    <3> QED BY <1>6, <1>7, <2>2, <3>1, <3>2, Zenon DEF RegistryOK
  <2>3. CASE k # gvk
    <3>1. informers'[k] = informers[k] /\ informers[k] # y /\ informers[k] \in Informers \cup {NoInformer}
      BY <1>1, <1>4, <1>7, <2>3, Zenon DEF LifecycleTypeOK
    <3> QED BY <1>6, <1>7, <1>10, <2>1, <3>1, Zenon DEF RegistryOK
  <2> QED BY <2>2, <2>3, Zenon
<1> QED
  BY <1>9, <1>11, <1>12, <1>13, Zenon DEF LifecycleInv

(* Start claims every informer there is; nobody had claimed one before     *)
(* (Start).                                                                *)
LEMMA StartInv ==
    ASSUME LifecycleInv, NEW t \in Threads, Start(t)
    PROVE  LifecycleInv'
<1> DEFINE all == {informers[gvk] : gvk \in Gvks} \ {NoInformer}
<1>1. LifecycleTypeOK /\ ~started
  BY InvFacts, Zenon DEF Start
<1>2. all \subseteq Informers
  <2>1. \A gvk \in Gvks : informers[gvk] \in Informers \cup {NoInformer} BY <1>1, Zenon DEF LifecycleTypeOK
  <2> QED BY <2>1, Zenon
<1>3. todo' = [todo EXCEPT ![t] = all]
  BY Zenon DEF Start
<1>4. \A gvk \in Gvks : informers[gvk] # NoInformer =>
          informers[gvk] \in all /\ kind[informers[gvk]] = gvk
  BY InvFacts, Zenon DEF RegistryOK
<1>a. \A x \in all : kind[x] \in Gvks /\ informers[kind[x]] = x
  BY <1>4, Zenon
<1> HIDE DEF all
<1>5. UNCHANGED <<informers, synced, kind, filled, mine, failures, starts, raced>> /\ started' = TRUE
  BY Zenon DEF Start, aux
<1>6. pc'[t] = "Start" /\ todo'[t] = all /\ \A s \in Threads : s # t => Same(s)
  BY <1>1, <1>3, Zenon DEF Start, Goto, LifecycleTypeOK, Same
<1>7. LifecycleTypeOK'
  BY <1>1, <1>2, <1>3, Zenon DEF LifecycleTypeOK, Start, Goto, loops, aux
<1>8. \A s \in Threads : todo[s] = {} /\ mine[s] = NoInformer
  BY <1>1, InvFacts, Zenon DEF ThreadOK
<1>9. \A x \in Informers : starts[x] = 0 /\ x \notin filled
  BY <1>1, InvFacts, Zenon DEF InformerOK
<1>10. \A s \in Threads, x \in Informers : Claims(s, x)' <=> s = t /\ x \in all
  BY <1>5, <1>6, <1>8, LifecycleAssumption, Zenon DEF Claims, Same
<1>11. ASSUME NEW s \in Threads PROVE ThreadOK(s)'
  <2>1. ThreadOK(s) BY InvFacts, Zenon
  <2>2. CASE s = t
    BY <1>2, <1>5, <1>6, <1>8, <1>9, <2>2, LifecycleAssumption, Zenon DEF ThreadOK, Working
  <2>3. CASE s # t
    BY <1>5, <1>6, <1>8, <2>1, <2>3, Zenon DEF ThreadOK, Same
  <2> QED BY <2>2, <2>3, Zenon
<1>12. ASSUME NEW x \in Informers PROVE InformerOK(x)'
  BY <1>5, <1>9, <1>10, <1>a, LifecycleAssumption, Zenon DEF InformerOK
<1>13. ASSUME NEW gvk \in Gvks PROVE RegistryOK(gvk)'
  <2>1. RegistryOK(gvk) BY InvFacts, Zenon
  <2>2. \A x \in all : \E s \in Threads : Claims(s, x)'
    BY <1>2, <1>10, Zenon
  <2>3. informers[gvk] # NoInformer => informers[gvk] \in all
    BY <1>4, Zenon
  <2> QED BY <1>5, <2>1, <2>2, <2>3, Zenon DEF RegistryOK, Claims
<1> QED
  BY <1>7, <1>11, <1>12, <1>13, Zenon DEF LifecycleInv

(* The list is put into the one informer the thread is starting            *)
(* (startInformer).                                                        *)
LEMMA ListInv ==
    ASSUME LifecycleInv, NEW t \in Threads, ListAndAdd(t)
    PROVE  LifecycleInv'
<1> DEFINE y == mine[t]
<1>1. ThreadOK(t) /\ LifecycleTypeOK /\ pc[t] \in {"list", "Start list"}
  BY InvFacts, Zenon DEF ListAndAdd
<1>2. y \in Informers /\ Claims(t, y) /\ started
  BY <1>1, MineFacts, Zenon DEF Working
<1>3. \A s \in Threads : s # t => ~Claims(s, y)
  BY <1>2, InvFacts, Zenon DEF InformerOK
<1>4. kind[y] # NoKind
  BY <1>2, InvFacts, Zenon DEF InformerOK
<1>5. /\ filled' = filled \cup {y}
      /\ UNCHANGED <<informers, synced, started, kind, mine, todo, failures, starts, raced>>
  BY Zenon DEF ListAndAdd, registry, aux
<1>6. /\ pc'[t] = IF pc[t] = "list" THEN "mark" ELSE "Start mark"
      /\ \A s \in Threads : s # t => pc'[s] = pc[s]
  BY <1>1, Zenon DEF ListAndAdd, Goto, LifecycleTypeOK
<1>7. LifecycleTypeOK'
  BY <1>1, <1>2, Zenon DEF LifecycleTypeOK, ListAndAdd, Goto, registry, loops, aux
<1> HIDE DEF y
<1>8. ASSUME NEW s \in Threads PROVE ThreadOK(s)'
  <2>1. ThreadOK(s) BY InvFacts, Zenon
  <2>2. CASE s = t
    BY <1>1, <1>5, <1>6, <2>1, <2>2, Zenon DEF ThreadOK, Working, y
  <2>3. CASE s # t
    <3>1. y \notin todo[s] /\ y # mine[s] BY <1>3, <2>3, ZenonT(30) DEF Claims
    <3> QED BY <1>5, <1>6, <2>1, <2>3, <3>1, Zenon DEF ThreadOK
  <2> QED BY <2>2, <2>3, Zenon
<1>9. ASSUME NEW x \in Informers PROVE InformerOK(x)'
  <2>1. InformerOK(x) BY InvFacts, Zenon
  <2>2. \A s \in Threads : Claims(s, x)' <=> Claims(s, x) BY <1>5, Zenon DEF Claims
  <2>3. x \in filled' => x \in filled \/ x = y BY <1>5, Zenon
  <2> QED BY <1>2, <1>4, <1>5, <2>1, <2>2, <2>3, Zenon DEF InformerOK
<1>10. ASSUME NEW gvk \in Gvks PROVE RegistryOK(gvk)'
  BY <1>5, InvFacts, Zenon DEF RegistryOK, Claims
<1> QED
  BY <1>7, <1>8, <1>9, <1>10, Zenon DEF LifecycleInv

(* A thread lets go of the informer it was starting: because it is synced, *)
(* or because the start failed (MarkSynced, Undo, ListFails).              *)
LEMMA LetGoClaims ==
    ASSUME LifecycleInv, NEW t \in Threads, pc[t] \in Working, mine'[t] = NoInformer,
           todo'[t] \subseteq todo[t], \A s \in Threads : s # t => Same(s)
    PROVE  /\ \A s \in Threads, x \in Informers : Claims(s, x)' => Claims(s, x) /\ x # mine[t]
           /\ todo'[t] = todo[t] =>
                \A s \in Threads, x \in Informers : Claims(s, x) /\ x # mine[t] => Claims(s, x)'
<1>1. mine[t] \in Informers /\ Claims(t, mine[t])
  BY MineFacts, Zenon
<1>2. \A s \in Threads : s # t => ~Claims(s, mine[t])
  BY <1>1, InvFacts, Zenon DEF InformerOK
<1>3. mine[t] \notin todo[t]
  BY InvFacts, Zenon DEF ThreadOK
<1>4. ASSUME NEW s \in Threads, NEW x \in Informers
      PROVE  /\ Claims(s, x)' => Claims(s, x) /\ x # mine[t]
             /\ todo'[t] = todo[t] /\ Claims(s, x) /\ x # mine[t] => Claims(s, x)'
  <2>1. CASE s = t BY <1>3, <2>1, LifecycleAssumption, Zenon DEF Claims
  <2>2. CASE s # t
    <3>1. Claims(s, x)' <=> Claims(s, x) BY <2>2, Zenon DEF Claims, Same
    <3> QED BY <1>2, <2>2, <3>1, Zenon
  <2> QED BY <2>1, <2>2, Zenon
<1> QED
  BY <1>4, Zenon

LEMMA SyncedInv ==
    ASSUME LifecycleInv, NEW t \in Threads, MarkSynced(t)
    PROVE  LifecycleInv'
<1> DEFINE y == mine[t]
<1>1. ThreadOK(t) /\ LifecycleTypeOK /\ pc[t] \in {"mark", "Start mark"}
  BY InvFacts, Zenon DEF MarkSynced
<1>2. y \in Informers /\ kind[y] \in Gvks /\ started /\ (~raced => informers[kind[y]] = y)
  BY <1>1, MineFacts, Zenon DEF Working
<1>3. y \in filled /\ starts[y] = 1
  BY <1>1, Zenon DEF ThreadOK
<1>4. /\ synced' = synced \cup {kind[y]}
      /\ UNCHANGED <<informers, started, kind, filled, todo, failures, starts, raced>>
  BY Zenon DEF MarkSynced, aux
<1>5. /\ mine'[t] = NoInformer /\ pc'[t] = IF pc[t] = "mark" THEN "idle" ELSE "Start"
      /\ \A s \in Threads : s # t => Same(s)
  BY <1>1, Zenon DEF MarkSynced, Goto, LifecycleTypeOK, Same
<1>6. LifecycleTypeOK'
  BY <1>1, <1>2, Zenon DEF LifecycleTypeOK, MarkSynced, Goto, aux
<1>7. \A s \in Threads, x \in Informers : Claims(s, x)' <=> Claims(s, x) /\ x # y
  BY <1>1, <1>4, <1>5, LetGoClaims, Zenon DEF Working
<1> HIDE DEF y
<1>8. ASSUME NEW s \in Threads PROVE ThreadOK(s)'
  <2>1. ThreadOK(s) BY InvFacts, Zenon
  <2>2. CASE s = t
    <3>1. pc[t] = "mark" => todo[t] = {} BY <1>1, Zenon DEF ThreadOK
    <3>2. pc'[t] \in {"idle", "Start"} /\ (todo[t] # {} => pc'[t] = "Start") BY <1>1, <1>5, <3>1, Zenon
    <3>3. NoInformer \notin todo[t] BY <1>1, LifecycleAssumption, Zenon DEF LifecycleTypeOK
    <3> QED BY <1>2, <1>4, <1>5, <2>1, <2>2, <3>2, <3>3, Zenon DEF ThreadOK, Working
  <2>3. CASE s # t
    BY <1>4, <1>5, <2>1, <2>3, Zenon DEF ThreadOK, Same
  <2> QED BY <2>2, <2>3, Zenon
<1>9. ASSUME NEW x \in Informers PROVE InformerOK(x)'
  BY <1>4, <1>7, InvFacts, Zenon DEF InformerOK
<1>10. ASSUME NEW gvk \in Gvks PROVE RegistryOK(gvk)'
  <2>1. RegistryOK(gvk) /\ informers[gvk] \in Informers \cup {NoInformer}
    BY <1>1, InvFacts, Zenon DEF LifecycleTypeOK
  <2> QED BY <1>2, <1>3, <1>4, <1>7, <2>1, LifecycleAssumption, Zenon DEF RegistryOK
<1> QED
  BY <1>6, <1>8, <1>9, <1>10, Zenon DEF LifecycleInv

(* A start that failed deletes the registration of its kind; without a     *)
(* removal in between that is its own (getOrCreateInformer).               *)
LEMMA UndoInv ==
    ASSUME LifecycleInv, NEW t \in Threads, Undo(t)
    PROVE  LifecycleInv'
<1> DEFINE y == mine[t]
           gone == kind[y]
<1>1. ThreadOK(t) /\ LifecycleTypeOK /\ pc[t] = "undo"
  BY InvFacts, Zenon DEF Undo
<1>2. y \in Informers /\ gone \in Gvks /\ started /\ (~raced => informers[gone] = y)
  BY <1>1, MineFacts, Zenon DEF Working
<1>3. y \notin filled /\ todo[t] = {}
  BY <1>1, Zenon DEF ThreadOK
<1>4. UNCHANGED <<synced, started, kind, filled, todo, failures, starts, raced>>
  BY Zenon DEF Undo, aux
<1>5. /\ mine'[t] = NoInformer /\ pc'[t] = "idle"
      /\ \A s \in Threads : s # t => Same(s)
  BY <1>1, Zenon DEF Undo, Goto, LifecycleTypeOK, Same
<1>6. LifecycleTypeOK'
  BY <1>1, <1>2, Zenon DEF LifecycleTypeOK, Undo, Goto, loops, aux
<1>7. \A s \in Threads, x \in Informers : Claims(s, x)' <=> Claims(s, x) /\ x # y
  BY <1>1, <1>4, <1>5, LetGoClaims, Zenon DEF Working
<1>8. informers'[gone] = NoInformer /\ \A k \in Gvks : k # gone => informers'[k] = informers[k]
  BY <1>1, <1>2, Zenon DEF Undo, LifecycleTypeOK
<1>9. \A k \in Gvks : informers[k] = y => k = gone
  BY <1>2, InvFacts, LifecycleAssumption, Zenon DEF RegistryOK
<1> HIDE DEF y, gone
<1>10. ASSUME NEW s \in Threads PROVE ThreadOK(s)'
  <2>1. ThreadOK(s) BY InvFacts, Zenon
  <2>2. CASE s = t
    BY <1>2, <1>3, <1>4, <1>5, <2>2, Zenon DEF ThreadOK, Working
  <2>3. CASE s # t
    BY <1>4, <1>5, <2>1, <2>3, Zenon DEF ThreadOK, Same
  <2> QED BY <2>2, <2>3, Zenon
<1>11. ASSUME NEW x \in Informers PROVE InformerOK(x)'
  <2>1. InformerOK(x) BY InvFacts, Zenon
  <2>2. ASSUME NEW s \in Threads, Claims(s, x), x # y, ~raced PROVE informers'[kind[x]] = x
    <3>1. informers[kind[x]] = x /\ kind[x] # NoKind BY <2>1, <2>2, Zenon DEF InformerOK
    <3>2. kind[x] \in Gvks BY <1>1, <3>1, Zenon DEF LifecycleTypeOK
    <3> QED BY <1>2, <1>8, <2>2, <3>1, <3>2, Zenon
  <2> QED BY <1>4, <1>7, <2>1, <2>2, Zenon DEF InformerOK
<1>12. ASSUME NEW k \in Gvks PROVE RegistryOK(k)'
  <2>1. RegistryOK(k) /\ informers[k] \in Informers \cup {NoInformer}
    BY <1>1, InvFacts, Zenon DEF LifecycleTypeOK
  <2>2. CASE k = gone
    <3>1. ~raced => gone \notin synced BY <1>2, <1>3, <2>1, <2>2, Zenon DEF RegistryOK
    <3> QED BY <1>4, <1>8, <2>2, <3>1, Zenon DEF RegistryOK
  <2>3. CASE k # gone
    <3>1. informers'[k] = informers[k] /\ informers[k] # y BY <1>8, <1>9, <2>3, Zenon
    <3> QED BY <1>4, <1>7, <2>1, <3>1, Zenon DEF RegistryOK
  <2> QED BY <2>2, <2>3, Zenon
<1> QED
  BY <1>6, <1>10, <1>11, <1>12, Zenon DEF LifecycleInv

(* A List that fails inside Start makes it drop its other informers too;   *)
(* inside GetInformer the registration is still to be deleted.             *)
LEMMA ListFailsInv ==
    ASSUME LifecycleInv, NEW t \in Threads, ListFails(t)
    PROVE  LifecycleInv'
<1>1. ThreadOK(t) /\ LifecycleTypeOK /\ pc[t] \in {"list", "Start list"}
  BY InvFacts, Zenon DEF ListFails
<1>2. mine[t] \in Informers /\ started
  BY <1>1, MineFacts, Zenon DEF Working
<1>3. UNCHANGED <<informers, synced, started, kind, filled, starts, raced>>
  BY Zenon DEF ListFails, registry
<1>4. failures' \in Nat /\ failures' > 0
  <2>1. failures' = failures + 1 /\ failures \in Nat BY <1>1, Zenon DEF ListFails, LifecycleTypeOK
  <2> QED BY <2>1
<1>5. CASE pc[t] = "list"
  <2>1. /\ pc'[t] = "undo" /\ UNCHANGED <<mine, todo>>
        /\ \A s \in Threads : s # t => pc'[s] = pc[s]
    BY <1>1, <1>5, Zenon DEF ListFails, Goto, LifecycleTypeOK
  <2>2. LifecycleTypeOK'
    BY <1>1, <1>4, <1>5, Zenon DEF LifecycleTypeOK, ListFails, Goto, registry, loops
  <2>3. ASSUME NEW s \in Threads PROVE ThreadOK(s)'
    <3>1. ThreadOK(s) BY InvFacts, Zenon
    <3>2. CASE s = t BY <1>3, <1>5, <2>1, <3>1, <3>2, Zenon DEF ThreadOK, Working
    <3>3. CASE s # t BY <1>3, <2>1, <3>1, <3>3, ZenonT(30) DEF ThreadOK
    <3> QED BY <3>2, <3>3, Zenon
  <2>4. ASSUME NEW x \in Informers PROVE InformerOK(x)'
    <3>1. InformerOK(x) BY InvFacts, Zenon
    <3>2. \A s \in Threads : Claims(s, x)' => Claims(s, x)
      BY <1>3, <2>1, Zenon DEF Claims
    <3> QED BY <1>3, <2>1, <3>1, <3>2, Zenon DEF InformerOK
  <2>5. ASSUME NEW k \in Gvks PROVE RegistryOK(k)'
    BY <1>3, <1>4, InvFacts, Zenon DEF RegistryOK
  <2> QED BY <2>2, <2>3, <2>4, <2>5, Zenon DEF LifecycleInv
<1>6. CASE pc[t] = "Start list"
  <2>1. /\ pc'[t] = "idle" /\ mine'[t] = NoInformer /\ todo'[t] = {}
        /\ \A s \in Threads : s # t => Same(s)
    BY <1>1, <1>6, Zenon DEF ListFails, Goto, LifecycleTypeOK, Same
  <2>2. LifecycleTypeOK'
    BY <1>1, <1>4, <1>6, Zenon DEF LifecycleTypeOK, ListFails, Goto, registry, loops
  <2>3. ASSUME NEW s \in Threads PROVE ThreadOK(s)'
    <3>1. ThreadOK(s) BY InvFacts, Zenon
    <3>2. CASE s = t BY <1>2, <1>3, <2>1, <3>2, Zenon DEF ThreadOK, Working
    <3>3. CASE s # t BY <1>3, <2>1, <3>1, <3>3, Zenon DEF ThreadOK, Same
    <3> QED BY <3>2, <3>3, Zenon
  <2>4. \A s \in Threads, x \in Informers : Claims(s, x)' => Claims(s, x)
    BY <1>1, <2>1, LetGoClaims, Zenon DEF Working
  <2>5. ASSUME NEW x \in Informers PROVE InformerOK(x)'
    BY <1>3, <2>4, InvFacts, Zenon DEF InformerOK
  <2>6. ASSUME NEW k \in Gvks PROVE RegistryOK(k)'
    BY <1>3, <1>4, InvFacts, Zenon DEF RegistryOK
  <2> QED BY <2>2, <2>3, <2>5, <2>6, Zenon DEF LifecycleInv
<1> QED
  BY <1>1, <1>5, <1>6, Zenon

(* GetInformer finds the context done and is going to undo.                *)
LEMMA StoppedInv ==
    ASSUME LifecycleInv, NEW t \in Threads, CacheStopped(t)
    PROVE  LifecycleInv'
<1>1. ThreadOK(t) /\ LifecycleTypeOK /\ pc[t] = "check"
  BY InvFacts, Zenon DEF CacheStopped
<1>2. UNCHANGED <<informers, synced, started, kind, filled, mine, todo, failures, starts, raced>>
  BY Zenon DEF CacheStopped, registry, aux
<1>3. pc'[t] = "undo" /\ \A s \in Threads : s # t => pc'[s] = pc[s]
  BY <1>1, Zenon DEF CacheStopped, Goto, LifecycleTypeOK
<1>4. LifecycleTypeOK'
  BY <1>1, Zenon DEF LifecycleTypeOK, CacheStopped, Goto, registry, loops, aux
<1>5. ASSUME NEW s \in Threads PROVE ThreadOK(s)'
  <2>1. ThreadOK(s) BY InvFacts, Zenon
  <2>2. CASE s = t BY <1>1, <1>2, <1>3, <2>1, <2>2, Zenon DEF ThreadOK, Working
  <2>3. CASE s # t BY <1>2, <1>3, <2>1, <2>3, Zenon DEF ThreadOK
  <2> QED BY <2>2, <2>3, Zenon
<1>6. ASSUME NEW x \in Informers PROVE InformerOK(x)'
  BY <1>2, InvFacts, Zenon DEF InformerOK, Claims
<1>7. ASSUME NEW k \in Gvks PROVE RegistryOK(k)'
  BY <1>2, InvFacts, Zenon DEF RegistryOK, Claims
<1> QED
  BY <1>4, <1>5, <1>6, <1>7, Zenon DEF LifecycleInv

(* A removal takes the registration and the mark away together             *)
(* (RemoveInformer).                                                       *)
LEMMA RemoveInv ==
    ASSUME LifecycleInv, NEW t \in Threads, NEW gvk \in Gvks, RemoveInformer(t, gvk)
    PROVE  LifecycleInv'
<1> DEFINE y == informers[gvk]
<1>1. LifecycleTypeOK /\ y \in Informers
  BY InvFacts, Zenon DEF RemoveInformer, LifecycleTypeOK
<1>2. /\ synced' = synced \ {gvk}
      /\ UNCHANGED <<started, kind, filled, pc, mine, todo, failures, starts>>
      /\ raced' = (raced \/ \E s \in Threads : Claims(s, y))
  BY Zenon DEF RemoveInformer
<1>3. informers'[gvk] = NoInformer /\ \A k \in Gvks : k # gvk => informers'[k] = informers[k]
  BY <1>1, Zenon DEF RemoveInformer, LifecycleTypeOK
<1>4. LifecycleTypeOK'
  <2>1. raced' \in BOOLEAN BY <1>1, <1>2, Zenon DEF LifecycleTypeOK
  <2> QED BY <1>1, <2>1, Zenon DEF LifecycleTypeOK, RemoveInformer
<1>5. ~raced' => ~raced /\ \A s \in Threads : ~Claims(s, y)
  BY <1>1, <1>2, ZenonT(30) DEF LifecycleTypeOK
<1>6. ASSUME NEW s \in Threads PROVE ThreadOK(s)'
  <2>1. ThreadOK(s) BY InvFacts, Zenon
  <2> QED BY <1>2, <2>1, Zenon DEF ThreadOK
<1>7. ASSUME NEW x \in Informers PROVE InformerOK(x)'
  <2>1. InformerOK(x) BY InvFacts, Zenon
  <2>2. \A s \in Threads : Claims(s, x)' <=> Claims(s, x) BY <1>2, Zenon DEF Claims
  <2>3. ASSUME ~raced', NEW s \in Threads, Claims(s, x) PROVE informers'[kind[x]] = x
    <3>1. x # y /\ ~raced BY <1>5, <2>3, Zenon
    <3>2. informers[kind[x]] = x /\ kind[x] # NoKind BY <2>1, <2>3, <3>1, Zenon DEF InformerOK
    <3>3. kind[x] \in Gvks BY <1>1, <3>2, Zenon DEF LifecycleTypeOK
    <3> QED BY <1>3, <3>1, <3>2, <3>3, Zenon
  <2> QED BY <1>2, <2>1, <2>2, <2>3, Zenon DEF InformerOK
<1>8. ASSUME NEW k \in Gvks PROVE RegistryOK(k)'
  <2>1. RegistryOK(k) BY InvFacts, Zenon
  <2>2. CASE k = gvk BY <1>2, <1>3, <2>2, Zenon DEF RegistryOK
  <2>3. CASE k # gvk BY <1>2, <1>3, <1>5, <2>1, <2>3, Zenon DEF RegistryOK, Claims
  <2> QED BY <2>2, <2>3, Zenon
<1> QED
  BY <1>4, <1>6, <1>7, <1>8, Zenon DEF LifecycleInv

(* Waiting for the caches, and the return of Start, leave the informers.   *)
LEMMA WaitInv ==
    ASSUME LifecycleInv, NEW t \in Threads,
           StartReturns(t) \/ WaitForCacheSync(t) \/ AllSynced(t) \/ GiveUp(t)
    PROVE  LifecycleInv'
<1>1. LifecycleTypeOK /\ ThreadOK(t)
  BY InvFacts, Zenon
<1>2. UNCHANGED <<informers, synced, started, kind, filled, mine, todo, failures, starts, raced>>
  BY Zenon DEF StartReturns, WaitForCacheSync, AllSynced, GiveUp, registry, aux
<1>3. pc[t] \notin Working /\ pc'[t] \notin Working /\ todo[t] = {}
  BY <1>1, Zenon DEF StartReturns, WaitForCacheSync, AllSynced, GiveUp, Goto, Working, ThreadOK, LifecycleTypeOK
<1>4. \A s \in Threads : s # t => pc'[s] = pc[s]
  BY <1>1, Zenon DEF StartReturns, WaitForCacheSync, AllSynced, GiveUp, Goto, LifecycleTypeOK
<1>5. LifecycleTypeOK'
  <2>1. CASE StartReturns(t)
    BY <1>1, <2>1, Zenon DEF LifecycleTypeOK, StartReturns, Goto, registry, loops, aux
  <2>2. CASE WaitForCacheSync(t)
    BY <1>1, <2>2, Zenon DEF LifecycleTypeOK, WaitForCacheSync, Goto, registry, loops, aux
  <2>3. CASE AllSynced(t) \/ GiveUp(t)
    BY <1>1, <2>3, Zenon DEF LifecycleTypeOK, AllSynced, GiveUp, Goto, registry, loops, aux
  <2> QED BY <2>1, <2>2, <2>3, Zenon
<1> QED
  BY <1>2, <1>3, <1>4, <1>5, QuietInv, Zenon

(* So do the watch loops and the backend that closes a watch.              *)
LEMMA WatchInv ==
    ASSUME LifecycleInv, NEW x \in Informers, watchInformer(x) \/ Overflow(x)
    PROVE  LifecycleInv'
<1>1. LifecycleTypeOK
  BY InvFacts, Zenon
<1>2. CASE Overflow(x)
  <2>1. LifecycleTypeOK'
    BY <1>1, <1>2, Zenon DEF LifecycleTypeOK, Overflow, registry, aux
  <2>2. UNCHANGED <<informers, synced, started, kind, filled, mine, todo, failures, starts, raced, pc>>
    BY <1>2, Zenon DEF Overflow, registry, aux
  <2> QED BY <2>1, <2>2, QuietInv, Zenon
<1>3. CASE watchInformer(x)
  <2>1. PICK from, to \in {"check", "set", "events", "ended"} : LoopStep(x, from, to)
    BY <1>3, Zenon DEF watchInformer, LoopEnds, OpenWatch, setWatcher, WatchEnded, LoopDone
  <2>2. UNCHANGED <<informers, synced, started, kind, filled, mine, todo, failures, starts, raced, pc>>
    BY <2>1, Zenon DEF LoopStep, registry, aux
  <2>3. open' \subseteq Informers /\ known' \subseteq Informers
    BY <1>1, <1>3, Zenon DEF watchInformer, LoopEnds, OpenWatch, setWatcher, WatchEnded, LoopDone, LifecycleTypeOK
  <2>4. LifecycleTypeOK'
    BY <1>1, <2>1, <2>2, <2>3, Zenon DEF LifecycleTypeOK, LoopStep, registry, aux
  <2> QED BY <2>2, <2>4, QuietInv, Zenon
<1> QED
  BY <1>2, <1>3, Zenon

(* Every step keeps the invariant.                                         *)
LEMMA StepInv == LifecycleInv /\ [LifecycleNext]_lifecycleVars => LifecycleInv'
<1> SUFFICES ASSUME LifecycleInv, [LifecycleNext]_lifecycleVars PROVE LifecycleInv'
  BY Zenon
<1>1. ASSUME NEW t \in Threads, Calls(t) \/ Proceeds(t) \/ ListFails(t) PROVE LifecycleInv'
  <2>1. CASE Start(t) BY <2>1, StartInv, Zenon
  <2>2. CASE \E gvk \in Gvks, x \in Informers : getOrCreateInformer(t, gvk, x) BY <2>2, CreateInv, Zenon
  <2>3. CASE \E gvk \in Gvks : RemoveInformer(t, gvk) BY <2>3, RemoveInv, Zenon
  <2>4. CASE WaitForCacheSync(t) \/ GiveUp(t) \/ StartReturns(t) \/ AllSynced(t) BY <2>4, WaitInv, Zenon
  <2>5. CASE \E x \in Informers : StartNext(t, x) BY <2>5, BeginInv, Zenon
  <2>6. CASE CheckContext(t)
    <3>1. mine[t] \in Informers BY <2>6, MineFacts, Zenon DEF CheckContext, Working
    <3> QED BY <2>6, <3>1, BeginInv, Zenon
  <2>7. CASE CacheStopped(t) BY <2>7, StoppedInv, Zenon
  <2>8. CASE ListAndAdd(t) BY <2>8, ListInv, Zenon
  <2>9. CASE MarkSynced(t) BY <2>9, SyncedInv, Zenon
  <2>10. CASE Undo(t) BY <2>10, UndoInv, Zenon
  <2>11. CASE ListFails(t) BY <2>11, ListFailsInv, Zenon
  <2> QED
    BY <1>1, <2>1, <2>2, <2>3, <2>4, <2>5, <2>6, <2>7, <2>8, <2>9, <2>10, <2>11, Zenon DEF Calls, Proceeds
<1>2. ASSUME NEW x \in Informers, watchInformer(x) \/ Overflow(x) PROVE LifecycleInv'
  BY <1>2, WatchInv, Zenon
<1>3. CASE Cancel
  <2>1. LifecycleTypeOK'
    BY <1>3, InvFacts, Zenon DEF LifecycleTypeOK, Cancel, loops, aux
  <2> QED BY <1>3, <2>1, QuietInv, Zenon DEF Cancel, aux
<1>4. CASE UNCHANGED lifecycleVars
  <2>1. LifecycleTypeOK'
    BY <1>4, InvFacts, Zenon DEF LifecycleTypeOK, lifecycleVars, registry, loops, aux
  <2> QED BY <1>4, <2>1, QuietInv, Zenon DEF lifecycleVars, registry, aux
<1> QED
  BY <1>1, <1>2, <1>3, <1>4, Zenon DEF LifecycleNext

(* The invariant holds in every state of the cache.                        *)
THEOREM LifecycleInvariant == LifecycleSpec => []LifecycleInv
  BY InitInv, StepInv, PTL DEF LifecycleSpec

(* However Start, GetInformer, RemoveInformer and failing lists            *)
(* interleave, no informer is started twice, and none of a started cache   *)
(* is left with nobody to start it unless a List failed (Start,            *)
(* getOrCreateInformer).                                                   *)
THEOREM OneStarter == LifecycleSpec => []StartedOnce
<1>1. LifecycleInv => StartedOnce
  <2> SUFFICES ASSUME LifecycleInv, NEW x \in Informers
               PROVE  /\ starts[x] <= 1
                      /\ \A gvk \in Gvks : started /\ informers[gvk] = x =>
                            starts[x] = 1 \/ failures > 0 \/ \E t \in Threads : Claims(t, x)
    BY Zenon DEF StartedOnce
  <2>1. starts[x] \in {0, 1} BY InvFacts, Zenon DEF InformerOK
  <2>2. \A gvk \in Gvks : started /\ informers[gvk] = x =>
            starts[x] = 1 \/ failures > 0 \/ \E t \in Threads : Claims(t, x)
    BY InvFacts, LifecycleAssumption, Zenon DEF RegistryOK
  <2> QED BY <2>1, <2>2
<1> QED
  BY <1>1, LifecycleInvariant, PTL

(* As long as no removal has met a start, a kind marked as synced has an   *)
(* informer that holds its initial list (startInformer, RemoveInformer).   *)
THEOREM SyncedIsFilled == LifecycleSpec => []SyncedMeansFilled
<1>1. LifecycleInv => SyncedMeansFilled
  BY InvFacts, Zenon DEF SyncedMeansFilled, RegistryOK
<1> QED
  BY <1>1, LifecycleInvariant, PTL
=============================================================================
