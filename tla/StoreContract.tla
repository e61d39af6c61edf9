--------------------------- MODULE StoreContract ---------------------------
(***************************************************************************)
(* What store.go asks of a backend: the rules in the comments of the Store *)
(* interface, as a specification.  The store is a map of objects, the log  *)
(* of everything that ever happened to it and, beside each entry, the call *)
(* that made it; a watch is a position in that log.  There are no buffers, *)
(* no bound on the log and no overflow: a backend has them and must not    *)
(* let them show.                                                          *)
(***************************************************************************)
EXTENDS StoreTypes

CONSTANT Watchers

VARIABLES
    contents,      \* GVK -> key -> object
    revision,
    log,
    calls,         \* the calls that made the entries of the log: the method
                   \* and the resourceVersion presented to it
    subscription   \* watcher -> whether it is open, its kind and selector,
                   \* and the last revision received

vars == <<contents, revision, log, calls, subscription>>

Init ==
    /\ contents = [gvk \in Kinds |-> [key \in Keys |-> NoObject]]
    /\ revision = 0
    /\ log = <<>>
    /\ calls = <<>>
    /\ \A w \in Watchers : ~subscription[w].open /\ subscription[w].cursor = 0

(* The call that makes the step's entry.                                   *)
call == calls'[Len(calls')]

(* Revisions increase; holes are allowed.                                  *)
Happened(gvk, key, type, obj) ==
    /\ revision' > revision
    /\ obj.key = key /\ obj.rv = revision'
    /\ log' = Append(log, [revision |-> revision', gvk |-> gvk, event |-> [type |-> type, obj |-> obj]])
    /\ calls' = Append(calls, call)
    /\ contents' = [contents EXCEPT ![gvk][key] = IF type = "DELETED" THEN NoObject ELSE obj]
    /\ UNCHANGED subscription

Create(gvk, key, obj) ==
    /\ call.op = "Create"
    /\ contents[gvk][key] = NoObject
    /\ obj.uid # 0
    /\ Happened(gvk, key, "ADDED", obj)

(* Writes spec and metadata, on the resourceVersion of the object that is  *)
(* replaced; the stored status is preserved.  The generation counts the    *)
(* changes of the spec, and a write that changes nothing does not happen.  *)
Update(gvk, key, obj) ==
    LET old == contents[gvk][key]
    IN  /\ call.op = "Update"
        /\ old # NoObject /\ call.rv = old.rv
        /\ obj.uid = old.uid /\ obj.status = old.status
        /\ obj.spec # old.spec \/ obj.labels # old.labels
        /\ obj.generation = old.generation + (IF obj.spec = old.spec THEN 0 ELSE 1)
        /\ Happened(gvk, key, "MODIFIED", obj)

(* Writes the status, on the resourceVersion of the object that is         *)
(* replaced; spec and metadata of the input are ignored.                   *)
UpdateStatus(gvk, key, obj) ==
    LET old == contents[gvk][key]
    IN  /\ call.op = "UpdateStatus"
        /\ old # NoObject /\ call.rv = old.rv
        /\ obj.uid = old.uid /\ obj.spec = old.spec /\ obj.generation = old.generation
        /\ obj.labels = old.labels
        /\ Happened(gvk, key, "MODIFIED", obj)

(* Without a resourceVersion (0) the delete is unconditional.              *)
Delete(gvk, key) ==
    /\ call.op = "Delete"
    /\ contents[gvk][key] # NoObject
    /\ call.rv \in {0, contents[gvk][key].rv}
    /\ Happened(gvk, key, "DELETED", [contents[gvk][key] EXCEPT !.rv = revision'])

Mutate ==
    /\ calls' # calls
    /\ \E gvk \in Kinds, key \in Keys :
          \/ \E obj \in {contents'[gvk][key]} \ {NoObject} :
                Create(gvk, key, obj) \/ Update(gvk, key, obj) \/ UpdateStatus(gvk, key, obj)
          \/ Delete(gvk, key)

(* A watch may start from any revision handed out so far.                  *)
Watch(w) ==
    /\ ~subscription[w].open /\ subscription'[w].open
    /\ subscription'[w].cursor \in 0..revision
    /\ subscription' = [subscription EXCEPT ![w] = subscription'[w]]
    /\ UNCHANGED <<contents, revision, log, calls>>

Stop(w) ==
    /\ subscription[w].open
    /\ subscription' = [subscription EXCEPT ![w].open = FALSE]
    /\ UNCHANGED <<contents, revision, log, calls>>

(* The entries of the log a watch has not seen.                            *)
Ahead(sub) == {i \in DOMAIN log : log[i].gvk = sub.gvk /\ log[i].revision > sub.cursor}

(* The consumer receives the next event of its kind, also after Stop: the  *)
(* channel is drained.  A backend may leave out the events that do not     *)
(* match the selector, or send them.                                       *)
Deliver(w) ==
    /\ \E i \in Ahead(subscription[w]) :
          /\ \A j \in Ahead(subscription[w]) :
                j < i => ~(subscription[w].sel \subseteq log[j].event.obj.labels)
          /\ subscription' = [subscription EXCEPT ![w].cursor = log[i].revision]
    /\ UNCHANGED <<contents, revision, log, calls>>

Next == Mutate \/ \E w \in Watchers : Watch(w) \/ Stop(w) \/ Deliver(w)

Spec == Init /\ [][Next]_vars
=============================================================================
