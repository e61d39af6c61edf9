----------------------------- MODULE FileStore -----------------------------
(***************************************************************************)
(* filesystem/store.go: the backend that keeps one JSON file per object,   *)
(* the revision counter in .revision and the UID counter in .uid-counter.  *)
(* Its watchers and event log are in memory and are those of WatchLog.     *)
(*                                                                         *)
(* A mutation runs under s.mu, but it writes several files, and the        *)
(* process can die, or a write can fail, between any two of them.  Each    *)
(* mutation is one action with an outcome:                                 *)
(*   "ok"            all writes succeed and the event is emitted;          *)
(*   "writeError"    the object file cannot be written, or removed;        *)
(*   "persistError"  .revision cannot be written;                          *)
(*   "crash"         the process dies between these two writes.            *)
(* os.WriteFile is taken to write all or nothing, and what it wrote to     *)
(* survive: files truncated by a crash, or lost with the page cache, are   *)
(* not modelled.  A crash takes the consumers of watches with it: they     *)
(* live in the same process.                                               *)
(*                                                                         *)
(* Auxiliary: `failed' and `crashes' count the faults so far, `changes' is *)
(* every change ever made to an object file, and `uids' every UID the      *)
(* store has given out.                                                    *)
(***************************************************************************)
EXTENDS WatchLog

CONSTANTS
    Outcomes,     \* the outcomes of mutations that may happen
    MaxChanges,   \* bound: changes of files explored
    MaxFaults     \* bound: outcomes other than "ok" explored

ASSUME OutcomesAssumption ==
    /\ Outcomes \subseteq {"ok", "writeError", "persistError", "crash"}
    /\ MaxChanges \in Nat /\ MaxFaults \in Nat

VARIABLES
    files,         \* GVK -> key -> the object in its file
    revisionFile,  \* .revision, 0 if there is none
    uidFile,       \* .uid-counter
    uidCounter,
    up,            \* the process is running
    failed,
    crashes,
    changes,
    uids

fileVars == <<files, revisionFile, uidFile, uidCounter, up, failed, crashes, changes, uids>>
vars == <<logVars, watchVars, fileVars>>

(* NewStore on an empty directory.                                         *)
Init ==
    /\ NewLog
    /\ files = [gvk \in Kinds |-> [key \in Keys |-> NoObject]]
    /\ revisionFile = 0 /\ uidFile = 0 /\ uidCounter = 0
    /\ up = TRUE
    /\ failed = 0 /\ crashes = 0
    /\ changes = <<>>
    /\ uids = <<>>
-----------------------------------------------------------------------------
(* What a dying process loses.                                             *)
Lost ==
    /\ up' = FALSE
    /\ revision' = 0 /\ uidCounter' = 0 /\ eventLog' = <<>> /\ history' = <<>>
    /\ watchers' = NewWatchers /\ watch' = NoWatch

RestartUIDs ==  \* mutant
    /\ ~up
    /\ up' = TRUE
    /\ revision' = revisionFile
    /\ UNCHANGED <<uidCounter, eventLog, history, watchVars, files, revisionFile, uidFile, failed, crashes, changes, uids>>

RestartRevision ==  \* mutant
    /\ ~up
    /\ up' = TRUE
    /\ uidCounter' = uidFile
    /\ UNCHANGED <<revision, eventLog, history, watchVars, files, revisionFile, uidFile, failed, crashes, changes, uids>>

(* NewStore on the directory of a process that died: loadRevision and      *)
(* loadUIDCounter.                                                         *)
Restart ==
    /\ ~up
    /\ up' = TRUE
    /\ revision' = revisionFile
    /\ uidCounter' = uidFile
    /\ UNCHANGED <<eventLog, history, watchVars, files, revisionFile, uidFile, failed, crashes, changes, uids>>

PersistRolledBack ==  \* mutant
    UNCHANGED <<revision, revisionFile, eventLog, history, watchVars, up>>

(* persistRevision returns an error: the revision is taken all the same.   *)
PersistFailed ==
    /\ revision' = revision + 1
    /\ UNCHANGED <<revisionFile, eventLog, history, watchVars, up>>

(* The end of a mutation that replaces the file of a key by `new' (removes *)
(* it if that is NoObject) under revision + 1; `call' is what was called   *)
(* and the resourceVersion it presented.                                   *)
Write(gvk, key, new, type, event, call, outcome) ==
    LET old == files[gvk][key]
        changed == /\ files' = [files EXCEPT ![gvk][key] = new]
                   /\ changes' = Append(changes, [call |-> call, gvk |-> gvk, old |-> old, new |-> new,
                                                  rv |-> revision + 1, run |-> crashes,
                                                  announced |-> outcome = "ok"])
    IN  /\ up
        /\ outcome \in Outcomes
        /\ Len(changes) < MaxChanges
        /\ failed' = IF outcome \in {"writeError", "persistError"} THEN failed + 1 ELSE failed
        /\ crashes' = IF outcome = "crash" THEN crashes + 1 ELSE crashes
        /\ failed' + crashes' <= MaxFaults
        /\ CASE outcome = "ok" ->
                  /\ changed
                  /\ revisionFile' = revision + 1
                  /\ Emit(gvk, type, event)
                  /\ UNCHANGED up
             [] outcome = "persistError" -> changed /\ PersistFailed
             [] outcome = "crash" ->
                  /\ changed
                  /\ Lost
                  /\ UNCHANGED revisionFile
             [] outcome = "writeError" ->  \* os.Remove fails before revision.Add
                  /\ revision' = IF new = NoObject THEN revision ELSE revision + 1
                  /\ UNCHANGED <<files, changes, revisionFile, eventLog, history, watchVars, up>>

(* generateUID writes .uid-counter before the UID is used.                 *)
Create(gvk, in, outcome) ==
    LET uid == IF in.uid = 0 THEN uidCounter + 1 ELSE in.uid
        stored == [in EXCEPT !.uid = uid, !.generation = 1, !.rv = revision + 1]
    IN  /\ files[gvk][in.key] = NoObject
        /\ uidFile' = IF in.uid = 0 THEN uid ELSE uidFile
        /\ uids' = IF in.uid = 0 THEN Append(uids, uid) ELSE uids
        /\ Write(gvk, in.key, stored, "ADDED", stored, [op |-> "Create", rv |-> 0], outcome)
        /\ outcome # "crash" => uidCounter' = IF in.uid = 0 THEN uid ELSE uidCounter

(* The comparison of the spec's text in the file, which is indented, with  *)
(* its text in the input, which is not: only specs that print no field are *)
(* equal.                                                                  *)
specChanged(stored, in) == ~(Omitted(stored.spec) /\ Omitted(in.spec))

(* Everything but the status from the input, the status from the file,     *)
(* decoded over a copy of the input.                                       *)
UpdateMerged(stored, in) ==
    [Decode([in EXCEPT !.status = stored.status], in)
       EXCEPT !.rv = stored.rv, !.uid = stored.uid, !.generation = stored.generation]

Update(gvk, in, outcome) ==
    LET stored == files[gvk][in.key]
        merged == UpdateMerged(stored, in)
        generation == IF specChanged(stored, in) THEN stored.generation + 1 ELSE stored.generation
        updated == [merged EXCEPT !.generation = generation, !.rv = revision + 1]
    IN  /\ stored # NoObject
        /\ in.rv = stored.rv
        /\ merged # stored
        /\ Write(gvk, in.key, updated, "MODIFIED", updated, [op |-> "Update", rv |-> in.rv], outcome)
        /\ UNCHANGED <<uidFile, uids>> /\ (outcome # "crash" => UNCHANGED uidCounter)

UpdateStatusTakesSpec(stored, in) ==  \* mutant
    [in EXCEPT !.rv = stored.rv, !.uid = stored.uid, !.generation = stored.generation]

(* Only the status from the input, decoded over a copy of the input.       *)
UpdateStatusMerged(stored, in) ==
    [Decode([stored EXCEPT !.status = in.status], in)
       EXCEPT !.rv = stored.rv, !.uid = stored.uid, !.generation = stored.generation]

UpdateStatus(gvk, in, outcome) ==
    LET stored == files[gvk][in.key]
        merged == UpdateStatusMerged(stored, in)
        updated == [merged EXCEPT !.rv = revision + 1]
    IN  /\ stored # NoObject
        /\ in.rv = stored.rv
        /\ merged # stored
        /\ Write(gvk, in.key, updated, "MODIFIED", updated, [op |-> "UpdateStatus", rv |-> in.rv], outcome)
        /\ UNCHANGED <<uidFile, uids>> /\ (outcome # "crash" => UNCHANGED uidCounter)

(* The object of the DELETED event.                                        *)
deletedObj(stored) == [stored EXCEPT !.rv = revision + 1]

(* An empty resourceVersion (0) deletes unconditionally.                   *)
Delete(gvk, key, rv, outcome) ==
    LET stored == files[gvk][key]
    IN  /\ stored # NoObject
        /\ rv # 0 => rv = stored.rv
        /\ Write(gvk, key, NoObject, "DELETED", deletedObj(stored),
                 [op |-> "Delete", rv |-> rv], outcome)
        /\ UNCHANGED <<uidFile, uids>> /\ (outcome # "crash" => UNCHANGED uidCounter)

(* The process dies while no mutation runs.                                *)
Crash ==
    /\ up /\ "crash" \in Outcomes /\ failed + crashes < MaxFaults
    /\ crashes' = crashes + 1
    /\ Lost
    /\ UNCHANGED <<files, revisionFile, uidFile, failed, changes, uids>>
-----------------------------------------------------------------------------
(* What callers may pass: any content under any resourceVersion of the     *)
(* object's present or past versions, or a new object with or without UID. *)
Inputs(key) ==
    [key : {key}, spec : Specs, status : Statuses, labels : SUBSET Labels,
     generation : {0}, uid : {0}, rv : 1..MaxChanges + MaxFaults]

NewObjects(key) ==
    [key : {key}, spec : Specs, status : Statuses, labels : SUBSET Labels,
     generation : {0}, uid : {0, 1}, rv : {0}]

Mutate ==
    \E gvk \in Kinds, key \in Keys, outcome \in Outcomes :
        \/ \E in \in NewObjects(key) : Create(gvk, in, outcome)
        \/ \E in \in Inputs(key) : Update(gvk, in, outcome)
        \/ \E in \in Inputs(key) : UpdateStatus(gvk, in, outcome)
        \/ \E rv \in 0..MaxChanges + MaxFaults : Delete(gvk, key, rv, outcome)

Next ==
    \/ Mutate
    \/ up /\ Consume /\ UNCHANGED fileVars
    \/ Crash
    \/ Restart

Spec == Init /\ [][Next]_vars
-----------------------------------------------------------------------------
(* As long as the process lives, no two versions of objects share a        *)
(* resourceVersion, and later ones have greater ones, whichever writes     *)
(* fail: a resourceVersion presented to Update names one version, and      *)
(* caches may drop events that are not newer (revision.Add).               *)
RevisionsIncreaseInRun ==
    \A i, j \in DOMAIN changes :
        i < j /\ changes[i].run = changes[j].run => changes[i].rv < changes[j].rv

(* The same for the whole life of the directory, restarts included.        *)
RevisionsIncrease ==
    \A i, j \in DOMAIN changes : i < j => changes[i].rv < changes[j].rv

(* UIDs are never given out twice, by any incarnation of the store:        *)
(* generateUID persists the counter before the UID is used.                *)
UIDsUnique == \A i, j \in DOMAIN uids : i < j => uids[i] < uids[j]

(* A store is behind the objects it finds by at most one revision for all  *)
(* its crashes together, however often it dies between the write of an     *)
(* object and the write of .revision, and one for each failed write.       *)
RevisionLagBounded ==
    up => \A gvk \in Kinds, key \in Keys :
             files[gvk][key] # NoObject =>
                files[gvk][key].rv <= revision + failed + (IF crashes = 0 THEN 0 ELSE 1)

(* A watch with nothing left to deliver has told its consumer of every     *)
(* change of a file of its kind since where it started, deletions too,     *)
(* though failed writes leave holes in the revisions (logEvent, send).     *)
(* Changes that were never announced, because of a crash or because        *)
(* .revision could not be written, are excepted.                           *)
WatchSeesStore ==
    \A w \in Watchers :
        watch[w].stage = "open" /\ ~watch[w].closed /\ watch[w].ch = <<>> /\ watch[w].sel = {} =>
            \A i \in DOMAIN changes :
                /\ changes[i].announced /\ changes[i].run = crashes
                /\ changes[i].gvk = watch[w].gvk
                => changes[i].rv <= watch[w].cursor

Modified == {i \in DOMAIN changes : changes[i].call.op \in {"Update", "UpdateStatus"}}

(* The write paths of spec and status are separate, through JSON maps and  *)
(* failures: Update leaves the status as stored, UpdateStatus the spec and *)
(* the generation; and each changes something, or it takes no revision.    *)
SplitWrites ==
    \A i \in Modified :
        LET old == changes[i].old  new == changes[i].new
        IN  /\ <<old.spec, old.status, old.labels>> # <<new.spec, new.status, new.labels>>
            /\ changes[i].call.op = "Update" => new.status = old.status
            /\ changes[i].call.op = "UpdateStatus" => new.spec = old.spec /\ new.generation = old.generation
=============================================================================
