---------------------------- MODULE MemoryStore ----------------------------
(***************************************************************************)
(* memory/store.go: the in-memory backend.                                 *)
(*                                                                         *)
(* Every mutation runs under s.mu, so each is one action: it changes the   *)
(* object map, takes the next revision, appends to the event log and sends *)
(* the event to the watchers, in one critical section.  Calls that return  *)
(* an error, and no-op writes, change nothing: their conditions are the    *)
(* guards.                                                                 *)
(*                                                                         *)
(* Auxiliary: `calls' is the call that made each entry of the history: its *)
(* name, the resourceVersion and generation the caller presented, and the  *)
(* label keys of the input that the stored object lacked.                  *)
(***************************************************************************)
EXTENDS WatchLog

CONSTANTS
    CallerUIDs,   \* the UIDs a caller may put on an object it creates
    MaxRevision   \* bound: mutations explored

ASSUME BoundsAssumption == CallerUIDs \subseteq Nat /\ MaxRevision \in Nat

VARIABLES
    objects,      \* GVK -> key -> stored object
    uidCounter,
    calls

dataVars == <<objects, uidCounter, calls>>
vars == <<logVars, watchVars, dataVars>>

NewStore ==
    /\ NewLog
    /\ objects = [gvk \in Kinds |-> [key \in Keys |-> NoObject]]
    /\ uidCounter = 0
    /\ calls = <<>>
-----------------------------------------------------------------------------
(* What List returns: the matching objects and the revision they are at.   *)
List(gvk, sel) ==
    [items |-> {obj \in {objects[gvk][key] : key \in Keys} \ {NoObject} : Matches(sel, obj)},
     rv |-> revision]

Call(op, rv, generation, brings) ==
    [op |-> op, rv |-> rv, generation |-> generation, brings |-> brings]

CommitKeepsDeleted(gvk, key, stored, type, event, call) ==  \* mutant
    /\ revision < MaxRevision
    /\ objects' = IF type = "DELETED" THEN objects ELSE [objects EXCEPT ![gvk][key] = stored]
    /\ Emit(gvk, type, event)
    /\ calls' = Append(calls, call)

(* A committed mutation.                                                   *)
Commit(gvk, key, stored, type, event, call) ==
    /\ revision < MaxRevision
    /\ objects' = [objects EXCEPT ![gvk][key] = stored]
    /\ Emit(gvk, type, event)
    /\ calls' = Append(calls, call)

Create(gvk, in) ==
    LET uid == IF in.uid = 0 THEN uidCounter + 1 ELSE in.uid
        stored == [in EXCEPT !.uid = uid, !.generation = 1, !.rv = revision + 1]
    IN  /\ objects[gvk][in.key] = NoObject
        /\ uidCounter' = IF in.uid = 0 THEN uidCounter + 1 ELSE uidCounter
        /\ Commit(gvk, in.key, stored, "ADDED", stored, Call("Create", 0, 0, {}))

ConflictIfNewer(in, stored) == in.rv > stored.rv  \* mutant

(* The resourceVersion check of Update and UpdateStatus.                   *)
Conflict(in, stored) == in.rv # stored.rv

NeverEqual(stored, incoming) == FALSE  \* mutant

contentEqual(stored, incoming) ==
    stored = [incoming EXCEPT !.rv = stored.rv, !.uid = stored.uid]

UpdateTakesStatus(stored, in) ==  \* mutant
    [in EXCEPT !.rv = stored.rv, !.uid = stored.uid]

(* Spec and metadata of the input with the stored status, decoded over a   *)
(* copy of the input; the generation is still the caller's.                *)
UpdateMerged(stored, in) ==
    [Decode([in EXCEPT !.status = stored.status], in) EXCEPT !.rv = stored.rv, !.uid = stored.uid]

AlwaysNextGeneration(stored, in) == stored.generation + 1  \* mutant

nextGeneration(stored, in) ==
    IF stored.spec # in.spec THEN stored.generation + 1 ELSE stored.generation

Update(gvk, in) ==
    LET stored == objects[gvk][in.key]
        merged == UpdateMerged(stored, in)
        updated == [merged EXCEPT !.generation = nextGeneration(stored, in), !.rv = revision + 1]
    IN  /\ stored # NoObject
        /\ ~Conflict(in, stored)
        /\ ~contentEqual(stored, merged)
        /\ Commit(gvk, in.key, updated, "MODIFIED", updated,
                  Call("Update", in.rv, in.generation, in.labels \ stored.labels))
        /\ UNCHANGED uidCounter

(* Stored spec and metadata with the input's status, decoded over a copy   *)
(* of the input.                                                           *)
UpdateStatusMerged(stored, in) ==
    [Decode([stored EXCEPT !.status = in.status], in)
       EXCEPT !.rv = stored.rv, !.uid = stored.uid, !.generation = stored.generation]

UpdateStatus(gvk, in) ==
    LET stored == objects[gvk][in.key]
        merged == UpdateStatusMerged(stored, in)
        updated == [merged EXCEPT !.rv = revision + 1]
    IN  /\ stored # NoObject
        /\ ~Conflict(in, stored)
        /\ ~contentEqual(stored, merged)
        /\ Commit(gvk, in.key, updated, "MODIFIED", updated,
                  Call("UpdateStatus", in.rv, in.generation, in.labels \ stored.labels))
        /\ UNCHANGED uidCounter

(* The object of the DELETED event: the last version, under the revision   *)
(* of the delete.                                                          *)
deletedObj(stored) == [stored EXCEPT !.rv = revision + 1]

(* An empty resourceVersion (0) deletes unconditionally.                   *)
Delete(gvk, key, rv) ==
    LET stored == objects[gvk][key]
    IN  /\ stored # NoObject
        /\ rv # 0 => rv = stored.rv
        /\ Commit(gvk, key, NoObject, "DELETED", deletedObj(stored), Call("Delete", rv, 0, {}))
        /\ UNCHANGED uidCounter
-----------------------------------------------------------------------------
(* What callers may pass: any spec, status and labels, under any           *)
(* resourceVersion handed out so far, with the generation of the object    *)
(* they read or none (an object they built themselves).                    *)
Inputs(gvk, key) ==
    [key : {key}, spec : Specs, status : Statuses, labels : SUBSET Labels,
     generation : {0} \cup {obj.generation : obj \in {objects[gvk][key]} \ {NoObject}},
     uid : {0}, rv : 1..revision]

NewObjects(key) ==
    [key : {key}, spec : Specs, status : Statuses, labels : SUBSET Labels,
     generation : {0}, uid : CallerUIDs, rv : {0}]

Mutate ==
    \E gvk \in Kinds, key \in Keys :
        \/ \E in \in NewObjects(key) : Create(gvk, in)
        \/ \E in \in Inputs(gvk, key) : Update(gvk, in)
        \/ \E in \in Inputs(gvk, key) : UpdateStatus(gvk, in)
        \/ \E rv \in 0..revision : Delete(gvk, key, rv)

(* The writes of callers that know what they write over.  What a caller    *)
(* presents besides the content decides only whether its call is refused,  *)
(* so where others matter one way of being accepted is enough: no UID, the *)
(* generation it read, and a delete without precondition.                  *)
AcceptedWrites ==
    \E gvk \in Kinds, key \in Keys :
        \/ \E in \in NewObjects(key) : in.uid = 0 /\ Create(gvk, in)
        \/ \E in \in Inputs(gvk, key) : in.generation # 0 /\ (Update(gvk, in) \/ UpdateStatus(gvk, in))
        \/ Delete(gvk, key, 0)

Next ==
    \/ Mutate
    \/ Consume /\ UNCHANGED dataVars

Spec == NewStore /\ [][Next]_vars
-----------------------------------------------------------------------------
TypeOK ==
    /\ LogTypeOK
    /\ objects \in [Kinds -> [Keys -> Object \cup {NoObject}]]
    /\ uidCounter \in Nat
    /\ calls \in Seq([op : {"Create", "Update", "UpdateStatus", "Delete"}, rv : Nat, generation : Nat,
                      brings : SUBSET Labels])

(* Revisions number the events without holes: every revision the store     *)
(* hands out belongs to exactly one event.                                 *)
RevisionsDense ==
    /\ Len(history) = revision /\ Len(calls) = revision
    /\ \A r \in DOMAIN history : history[r].revision = r

Writes(gvk, key) ==
    {r \in DOMAIN history : history[r].gvk = gvk /\ history[r].event.obj.key = key}

(* The object of a key as it was when the store was at revision rv.        *)
StateAt(gvk, key, rv) ==
    LET W == {r \in Writes(gvk, key) : r <= rv}
        last == CHOOSE r \in W : \A q \in W : q <= r
    IN  IF W = {} \/ history[last].event.type = "DELETED" THEN NoObject
        ELSE history[last].event.obj

(* Replaying the events of the history gives the store's contents: each    *)
(* event carries the object as stored, and a mutation that changes the map *)
(* never goes without its event, nor an event without its change.          *)
StoreIsHistory ==
    \A gvk \in Kinds, key \in Keys :
        /\ Writes(gvk, key) = {} => objects[gvk][key] = NoObject
        /\ \A r \in Writes(gvk, key) :
              (\A q \in Writes(gvk, key) : q <= r) =>
                 objects[gvk][key] = IF history[r].event.type = "DELETED" THEN NoObject
                                     ELSE history[r].event.obj

(* Revisions p and r are consecutive writes of the same object.            *)
Consecutive(p, r) ==
    LET W == Writes(history[r].gvk, history[r].event.obj.key)
    IN  p < r /\ p \in W /\ \A q \in W : q <= p \/ q >= r

Consecutives == {pr \in (DOMAIN history) \X (DOMAIN history) : Consecutive(pr[1], pr[2])}

(* No lost update: a write that presented a resourceVersion was applied to *)
(* the very object that version names; no other write of the object, and   *)
(* no delete and re-create of its key, came in between (the                *)
(* resourceVersion checks of Update, UpdateStatus and Delete).             *)
NoLostUpdate ==
    \A pr \in Consecutives :
        LET p == pr[1]  r == pr[2]
        IN  /\ calls[r].rv # 0 => calls[r].rv = p
            /\ calls[r].op # "Create" => history[p].event.type # "DELETED"
            /\ calls[r].op \in {"Update", "UpdateStatus"} => calls[r].rv # 0

(* An object's generation counts the changes of its spec since it was      *)
(* created, whatever generation callers send and however spec, status and  *)
(* metadata writes interleave; its UID never changes while it lives.       *)
GenerationTracksSpec ==
    /\ \A r \in DOMAIN history :
          history[r].event.type = "ADDED" => history[r].event.obj.generation = 1
    /\ \A pr \in Consecutives :
          LET p == history[pr[1]].event.obj  r == history[pr[2]].event.obj
          IN  history[pr[2]].event.type = "MODIFIED" =>
                /\ r.generation = p.generation + (IF r.spec = p.spec THEN 0 ELSE 1)
                /\ r.uid = p.uid

(* The write paths of spec and status are separate: Update leaves the      *)
(* status as stored, UpdateStatus leaves the spec and the generation.      *)
SplitWrites ==
    \A pr \in Consecutives :
        LET p == history[pr[1]].event.obj  r == history[pr[2]].event.obj
        IN  /\ calls[pr[2]].op = "Update" => r.status = p.status
            /\ calls[pr[2]].op = "UpdateStatus" => r.spec = p.spec /\ r.generation = p.generation

SameContent(a, b) == a.spec = b.spec /\ a.status = b.status /\ a.labels = b.labels

(* Writing back what one read takes no revision and wakes no watcher: a    *)
(* caller that keeps the generation it read never produces an event whose  *)
(* object has the content of the one before.                               *)
NoopSuppressed ==
    \A pr \in Consecutives :
        LET p == history[pr[1]].event.obj  r == history[pr[2]].event.obj
        IN  /\ history[pr[2]].event.type = "MODIFIED"
            /\ calls[pr[2]].generation = p.generation
            => ~SameContent(p, r)

Contract ==
    INSTANCE StoreContract WITH
        contents <- objects, log <- history,
        subscription <- [w \in Watchers |->
                           [open |-> watch[w].stage \in {"open", "stopping"},
                            gvk |-> watch[w].gvk, sel |-> watch[w].sel, cursor |-> watch[w].cursor]]

(* The write of the step, if there is one, presents the object it read,    *)
(* with changes: an Update its generation, and an UpdateStatus no label    *)
(* key that the stored object lacks.                                       *)
WritesBack ==
    calls' # calls =>
        LET r == Len(calls')
            stored == objects[history'[r].gvk][history'[r].event.obj.key]
        IN  /\ calls'[r].op = "Update" => calls'[r].generation = stored.generation
            /\ calls'[r].op = "UpdateStatus" => calls'[r].brings = {}

(* The memory backend implements the Store contract: seen from outside,    *)
(* its bounded log, its channels that overflow and the two halves of Stop  *)
(* are a store with an unbounded log in which every watch has a position   *)
(* that each event received moves to the next one, none skipped, none      *)
(* repeated, and every accepted write is on the version it presents and    *)
(* changes what its method may change (Create, Update, UpdateStatus,       *)
(* Delete, Watch, send, Stop).  Two kinds of writes are excepted: an       *)
(* Update with another generation than the stored one, which is stored     *)
(* even if it changes nothing, and an UpdateStatus with label keys of its  *)
(* own, which are stored.                                                  *)
ImplementsContract ==
    Contract!Init /\ [][WritesBack => [Contract!Next]_(Contract!vars)]_vars

(* A status write leaves the metadata alone: the labels in the input of    *)
(* UpdateStatus are ignored, as store.go says of it.                       *)
StatusWritesStatusOnly ==
    \A pr \in Consecutives :
        calls[pr[2]].op = "UpdateStatus" =>
            history[pr[2]].event.obj.labels = history[pr[1]].event.obj.labels
=============================================================================
