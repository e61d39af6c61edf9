---------------------------- MODULE StoreClient ----------------------------
(***************************************************************************)
(* client.go over the memory backend.  Create, Update, Status().Update and *)
(* Delete are the store's; Patch, Status().Patch and DeleteAllOf are made  *)
(* of several calls of the store, between which others write.              *)
(*                                                                         *)
(* A patch is what it names: new values of spec or status, label keys to   *)
(* add or to remove, and a resourceVersion to insist on.  Merge patches    *)
(* and JSON patches are not told apart.                                    *)
(* Left out: patches that do not apply or do not decode (an error before   *)
(* anything is written), the namespace and field selectors of DeleteAllOf, *)
(* and the methods that return `not supported'.                            *)
(***************************************************************************)
EXTENDS MemoryStore

CONSTANTS
    Clients,    \* goroutines calling Patch or DeleteAllOf
    Keep,       \* the patch leaves the field alone
    NoRequest,  \* the client has no call under way
    Loads       \* what is explored: see Load

Content == [spec : Specs, status : Statuses, labels : SUBSET Labels]

(* What clients call, whether there are watchers, the kinds, keys and      *)
(* contents that are written directly, and how many writes there are.      *)
Load == [calls : SUBSET {"Patch", "DeleteAllOf"}, watched : BOOLEAN, kinds : SUBSET Kinds, keys : SUBSET Keys,
         contents : SUBSET Content, revisions : Nat]

ASSUME LoadsAssumption == Loads \subseteq Load

VARIABLES
    load,
    request     \* client -> its call

clientVars == <<vars, load, request>>

ClientInit ==
    /\ NewStore
    /\ load \in Loads
    /\ request = [c \in Clients |-> NoRequest]

Within(gvk, in) ==
    /\ gvk \in load.kinds /\ in.key \in load.keys
    /\ [spec |-> in.spec, status |-> in.status, labels |-> in.labels] \in load.contents
-----------------------------------------------------------------------------
Nothing == [spec |-> Keep, status |-> Keep, add |-> {}, remove |-> {}, rv |-> 0]

(* Patches of one field.                                                   *)
Patches ==
    {[Nothing EXCEPT !.spec = spec] : spec \in Specs}
    \cup {[Nothing EXCEPT !.status = status] : status \in Statuses}
    \cup {[Nothing EXCEPT !.add = {label}] : label \in Labels}
    \cup {[Nothing EXCEPT !.remove = {label}] : label \in Labels}

(* jsonpatch: the document with the patch applied.                         *)
Applied(patch, obj) ==
    [obj EXCEPT !.spec = IF patch.spec = Keep THEN @ ELSE patch.spec,
                !.status = IF patch.status = Keep THEN @ ELSE patch.status,
                !.labels = (@ \cup patch.add) \ patch.remove,
                !.rv = IF patch.rv = 0 THEN @ ELSE patch.rv]

PatchedCopy(stored, obj, patch) ==  \* mutant
    [Applied(patch, obj) EXCEPT !.rv = IF patch.rv = 0 THEN stored.rv ELSE @]

(* Get decodes into a copy of the caller's object, and the patched         *)
(* document is decoded into the caller's object itself.                    *)
Patched(stored, obj, patch) == Decode(Applied(patch, Decode(stored, obj)), obj)

(* What callers hold: an object read at some time, with the change made in *)
(* it (client.MergeFrom) or not (client.RawPatch).                         *)
Held(gvk, key, patch) ==
    LET read == {history[r].event.obj : r \in Writes(gvk, key)}
    IN  read \cup {Applied(patch, obj) : obj \in read}

(* A patch up to the write; `has' is for the property.                     *)
Prepare(c, verb) ==
    /\ request[c] = NoRequest /\ "Patch" \in load.calls
    /\ \E gvk \in load.kinds, key \in load.keys, change \in Patches :
          /\ objects[gvk][key] # NoObject
          /\ \E obj \in Held(gvk, key, change) :
             \E patch \in {change, [change EXCEPT !.rv = obj.rv]} :
                 request' = [request EXCEPT ![c] =
                               [verb |-> verb, gvk |-> gvk, patch |-> patch, has |-> obj.labels,
                                in |-> Patched(objects[gvk][key], obj, patch)]]
    /\ UNCHANGED <<vars, load>>

Patch(c) == Prepare(c, "Update")

(* Of Status(), and of SubResource("status"), which repeats it.            *)
StatusPatch(c) == Prepare(c, "UpdateStatus")

Patching(c) == request[c] # NoRequest /\ request[c].verb \in {"Update", "UpdateStatus"}

Answered(c) == request' = [request EXCEPT ![c] = NoRequest] /\ UNCHANGED load

PatchWrites(c) ==
    /\ Patching(c) /\ revision < load.revisions
    /\ IF request[c].verb = "Update" THEN Update(request[c].gvk, request[c].in)
       ELSE UpdateStatus(request[c].gvk, request[c].in)
    /\ Answered(c)

(* NotFoundError, ConflictError, or nothing to change.                     *)
PatchRefused(c) ==
    LET in == request[c].in
        stored == objects[request[c].gvk][in.key]
        merged == IF request[c].verb = "Update" THEN UpdateMerged(stored, in) ELSE UpdateStatusMerged(stored, in)
    IN  /\ Patching(c)
        /\ ~(stored # NoObject /\ ~Conflict(in, stored) /\ ~contentEqual(stored, merged))
        /\ Answered(c)
        /\ UNCHANGED vars
-----------------------------------------------------------------------------
(* DeleteAllOf: list, then delete one by one what was listed.              *)
DeleteAllOf(c) ==
    /\ request[c] = NoRequest /\ "DeleteAllOf" \in load.calls
    /\ \E gvk \in load.kinds, sel \in SUBSET Labels :
          LET items == List(gvk, sel).items
          IN  request' = [request EXCEPT ![c] =
                            [verb |-> "Delete", gvk |-> gvk, listed |-> items, left |-> items]]
    /\ UNCHANGED <<vars, load>>

Deleting(c) == request[c] # NoRequest /\ request[c].verb = "Delete"

DeleteNextByKey(c) ==  \* mutant
    /\ Deleting(c) /\ revision < load.revisions
    /\ \E obj \in request[c].left :
          /\ Delete(request[c].gvk, obj.key, 0)
          /\ request' = [request EXCEPT ![c].left = @ \ {obj}]
    /\ UNCHANGED load

DeleteNext(c) ==
    /\ Deleting(c) /\ revision < load.revisions
    /\ \E obj \in request[c].left :
          /\ Delete(request[c].gvk, obj.key, obj.rv)
          /\ request' = [request EXCEPT ![c].left = @ \ {obj}]
    /\ UNCHANGED load

(* The first error ends it.                                                *)
DeleteRefused(c) ==
    /\ Deleting(c)
    /\ {obj \in request[c].left : objects[request[c].gvk][obj.key] # obj} # {}
    /\ Answered(c)
    /\ UNCHANGED vars

DeleteDone(c) ==
    /\ Deleting(c) /\ request[c].left = {}
    /\ Answered(c)
    /\ UNCHANGED vars
-----------------------------------------------------------------------------
(* The callers of the store itself.  Beside clients and watchers one way   *)
(* of being accepted is enough (see AcceptedWrites).                       *)
Direct ==
    /\ IF load.calls = {} /\ ~load.watched THEN Mutate ELSE AcceptedWrites
    /\ revision < load.revisions
    /\ \A gvk \in Kinds, key \in Keys :
          objects'[gvk][key] \notin {NoObject, objects[gvk][key]} => Within(gvk, objects'[gvk][key])
    /\ UNCHANGED <<load, request>>

(* The watchers.                                                           *)
Watching ==
    /\ load.watched /\ Consume
    /\ UNCHANGED <<dataVars, load, request>>

Client(c) ==
    \/ Patch(c) \/ StatusPatch(c) \/ PatchWrites(c) \/ PatchRefused(c)
    \/ DeleteAllOf(c) \/ DeleteNext(c) \/ DeleteRefused(c) \/ DeleteDone(c)

ClientNext == Direct \/ Watching \/ \E c \in Clients : Client(c)

ClientSpec == ClientInit /\ [][ClientNext]_clientVars
-----------------------------------------------------------------------------
(* An accepted patch leaves the object as it was but for what it names.    *)
PatchOutcome(c) ==
    LET patch == request[c].patch
        before == objects[request[c].gvk][request[c].in.key]
        after == objects'[request[c].gvk][request[c].in.key]
        due == (before.labels \cup patch.add) \ patch.remove
    IN  /\ patch.rv # 0 => before.rv = patch.rv
        /\ IF request[c].verb = "Update"
           THEN /\ after.spec = Applied(patch, before).spec /\ after.status = before.status
                /\ due \subseteq after.labels /\ after.labels \subseteq due \cup request[c].has
           ELSE /\ after.status = Applied(patch, before).status /\ after.spec = before.spec
                /\ after.labels \subseteq before.labels \cup patch.add \cup request[c].has

(* A patch is as good as atomic: when it is accepted, the object changes   *)
(* from what it is at that moment by what the patch names and by nothing   *)
(* else, whatever was written since the patch read it; a resourceVersion   *)
(* in the patch is that of the object replaced.  Label keys are excepted:  *)
(* those the caller's own object has come back, if another writer removed  *)
(* them or even if the patch itself does (Patch, Status().Patch).          *)
PatchAppliesDiff ==
    [][\A c \in Clients :
          Patching(c) /\ request'[c] = NoRequest /\ revision' # revision => PatchOutcome(c)]_clientVars

(* What DeleteAllOf deleted is what it listed: an object somebody wrote in *)
(* between is not deleted by it, the delete is the next thing that happens *)
(* to the listed version.                                                  *)
DeletesWhatItListed ==
    \A c \in Clients : Deleting(c) =>
        \A obj \in request[c].listed \ request[c].left :
            \E r \in Writes(request[c].gvk, obj.key) :
                Consecutive(obj.rv, r) /\ history[r].event.type = "DELETED"
=============================================================================
