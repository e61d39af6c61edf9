--------------------------- MODULE PostgresStore ---------------------------
(***************************************************************************)
(* The PostgreSQL backend: instances of postgres/store.go's ShardedStore   *)
(* that contend for one bucket, and the tables they share, restricted to   *)
(* one kind.  Every write is one call of the stored procedure pgctl_write  *)
(* of testdata/schema.sql, a single transaction.  An instance reads its    *)
(* epochs when it starts a write, and the write may reach the database     *)
(* much later: meanwhile it waits in `call'.                               *)
(*                                                                         *)
(* A row holds an object, whose rv is the column object_version and whose  *)
(* labels and generation are its metadata column.  The driver's client is  *)
(* taken to pass its arguments to pgctl_write unchanged, with              *)
(* p_force_write FALSE.  Time is a clock that ticks; TTL is the lease's    *)
(* duration in ticks.                                                      *)
(*                                                                         *)
(* Left out: the values a call returns, with the Get that tells a conflict *)
(* from a missing object (mapConflictToNotFound); connection failures that *)
(* reach the database with no effect; Get and List, which change nothing   *)
(* here.                                                                   *)
(*                                                                         *)
(* Auxiliary: grants counts the grants of the lease and the field grant of *)
(* a held or replied lease is the number of its own; lastGrant is the one  *)
(* under which the last accepted write was started; released tells whether *)
(* an instance ever deleted its lease rows.                                *)
(***************************************************************************)
EXTENDS StoreTypes

CONSTANTS
    Instances,  \* holder identities of the instances
    NoLease,    \* the absence of a row of bucket_leases
    NoCall,     \* no write under way
    TTL,        \* leaseTTL
    Deployments \* what may be deployed, and how far it is explored

Domains == {"spec", "status"}

bucket_lease == [holder : Instances, epoch : Nat, expires_at : Nat]
kubernetes_resource == [obj : Object, seq : Nat, deleted : BOOLEAN]

(* The instances that run, whether one of them runs an informer, the keys  *)
(* assigned to the bucket, and bounds: clock ticks, accepted writes,       *)
(* faults (lost replies, failovers, failed connections), and grants up to  *)
(* which renewals fail.                                                    *)
Deployment == [instances : SUBSET Instances, informer : BOOLEAN, keys : SUBSET Keys,
               ticks : Nat, writes : Nat, faults : Nat, grants : Nat]

ASSUME PostgresAssumption ==
    /\ TTL \in Nat \ {0} /\ Deployments \subseteq Deployment
    /\ NoLease \notin bucket_lease /\ NoObject \notin kubernetes_resource

VARIABLES
    current_seq, rows, horizon,    \* counter, resources, compaction_horizon
    leases, now,                   \* bucket_leases, and the database's clock
    lessee, reply, held,           \* renewal goroutine, answer to it, s.epochs
    call,                          \* the write an instance has under way
    deployment, faults,
    grants, lastGrant, released

tables == <<current_seq, rows, horizon>>
leaseVars == <<leases, lessee, reply, held, grants, released, deployment>>
pgVars == <<tables, now, leaseVars, call, faults, lastGrant>>

NoEpochs == [epoch |-> [d \in Domains |-> 0], grant |-> 0]

NewDatabase ==
    /\ current_seq = 0 /\ rows = [key \in Keys |-> NoObject] /\ horizon = 0
    /\ leases = [d \in Domains |-> NoLease] /\ now = 0
    /\ deployment \in Deployments
    /\ lessee = [i \in Instances |-> IF i \in deployment.instances THEN "down" ELSE "absent"]
    /\ reply = [i \in Instances |-> NoEpochs]
    /\ held = [i \in Instances |-> NoEpochs]
    /\ call = [i \in Instances |-> NoCall]
    /\ faults = 0 /\ grants = 0 /\ lastGrant = 0 /\ released = FALSE
-----------------------------------------------------------------------------
(* Leases.  The goroutine of Start, and New before it: "down" before New   *)
(* has succeeded, "lapsed" after a renewal that failed, "granted" when the *)
(* database has granted the leases and the answer is on its way.           *)

HeldBy(lease, i) == lease # NoLease /\ lease.holder = i

Grantable(lease, i) == lease = NoLease \/ lease.expires_at < now \/ lease.holder = i

GrantTo(lease, i) ==
    [holder |-> i, epoch |-> (IF lease = NoLease THEN 0 ELSE lease.epoch) + 1, expires_at |-> now + TTL]

Surrendered(rowset, i) == [d \in Domains |-> IF HeldBy(rowset[d], i) THEN NoLease ELSE rowset[d]]

Resting(i) == IF held[i] = NoEpochs THEN "down" ELSE "running"

(* One INSERT ... ON CONFLICT for both domains.  An instance that gets one *)
(* of the two only gives it back.                                          *)
acquireBothLeases(i) ==
    LET granted == {d \in Domains : Grantable(leases[d], i)}
        after == [d \in Domains |-> IF d \in granted THEN GrantTo(leases[d], i) ELSE leases[d]]
    IN  /\ lessee[i] \in {"down", "lapsed"}
        /\ \/ /\ granted = Domains
              /\ leases' = after
              /\ lessee' = [lessee EXCEPT ![i] = "granted"]
              /\ reply' = [reply EXCEPT ![i] = [epoch |-> [d \in Domains |-> after[d].epoch],
                                                grant |-> grants + 1]]
              /\ grants' = grants + 1
           \/ /\ granted # Domains
              /\ leases' = Surrendered(after, i)
              /\ lessee' = [lessee EXCEPT ![i] = Resting(i)]
              /\ UNCHANGED <<reply, grants>>
        /\ UNCHANGED <<tables, now, held, released, deployment, call, faults, lastGrant>>

SetEpochsOnce(i) ==  \* mutant
    /\ lessee[i] = "granted"
    /\ held' = [held EXCEPT ![i] = IF @ = NoEpochs THEN reply[i] ELSE @]
    /\ reply' = [reply EXCEPT ![i] = NoEpochs]
    /\ lessee' = [lessee EXCEPT ![i] = "running"]
    /\ UNCHANGED <<tables, now, leases, grants, released, deployment, call, faults, lastGrant>>

(* New returns the store, or Start sets s.epochs.                          *)
SetEpochs(i) ==
    /\ lessee[i] = "granted"
    /\ held' = [held EXCEPT ![i] = reply[i]]
    /\ reply' = [reply EXCEPT ![i] = NoEpochs]
    /\ lessee' = [lessee EXCEPT ![i] = "running"]
    /\ UNCHANGED <<tables, now, leases, grants, released, deployment, call, faults, lastGrant>>

(* The connection breaks after the grant was committed: an error.          *)
GrantLost(i) ==
    /\ lessee[i] = "granted" /\ faults < deployment.faults
    /\ faults' = faults + 1
    /\ reply' = [reply EXCEPT ![i] = NoEpochs]
    /\ lessee' = [lessee EXCEPT ![i] = Resting(i)]
    /\ UNCHANGED <<tables, now, leases, held, grants, released, deployment, call, lastGrant>>

renewSpecLease(i) ==  \* mutant
    /\ lessee[i] = "running"
    /\ leases' = IF HeldBy(leases["spec"], i) THEN [leases EXCEPT !["spec"].expires_at = now + TTL] ELSE leases
    /\ lessee' = [lessee EXCEPT ![i] = IF HeldBy(leases["spec"], i) THEN "running" ELSE "lapsed"]
    /\ UNCHANGED <<tables, now, reply, held, grants, released, deployment, call, faults, lastGrant>>

(* Both rows must be the instance's; an expired lease nobody took is       *)
(* renewed too.                                                            *)
renewBothLeases(i) ==
    LET mine == {d \in Domains : HeldBy(leases[d], i)}
    IN  /\ lessee[i] = "running"
        /\ leases' = [d \in Domains |->
                        IF d \in mine THEN [leases[d] EXCEPT !.expires_at = now + TTL] ELSE leases[d]]
        /\ lessee' = [lessee EXCEPT ![i] = IF mine = Domains THEN "running" ELSE "lapsed"]
        /\ UNCHANGED <<tables, now, reply, held, grants, released, deployment, call, faults, lastGrant>>

(* The UPDATE returns an error, and Start acquires the leases anew, which  *)
(* it may still hold.  If it was committed nevertheless, this comes after  *)
(* renewBothLeases.                                                        *)
RenewFails(i) ==
    /\ lessee[i] = "running" /\ grants < deployment.grants
    /\ lessee' = [lessee EXCEPT ![i] = "lapsed"]
    /\ UNCHANGED <<tables, now, leases, reply, held, grants, released, deployment, call, faults, lastGrant>>

(* Start's context is cancelled: release, if the database can be reached.  *)
releaseBothLeases(i) ==
    /\ lessee[i] = "running"
    /\ lessee' = [lessee EXCEPT ![i] = "stopped"]
    /\ \/ /\ leases' = Surrendered(leases, i)
          /\ released' = TRUE
       \/ UNCHANGED <<leases, released>>
    /\ UNCHANGED <<tables, now, reply, held, grants, deployment, call, faults, lastGrant>>

Tick ==
    /\ now < deployment.ticks
    /\ now' = now + 1
    /\ UNCHANGED <<tables, leaseVars, call, faults, lastGrant>>
-----------------------------------------------------------------------------
(* Writes.  clientFor and statusClientFor read the epochs and build the    *)
(* client; the write reaches the database later.  What the caller passes   *)
(* is chosen then, out of what there was when the call started.            *)
Call(i) ==
    /\ lessee[i] \notin {"absent", "down"} /\ call[i] = NoCall
    /\ call' = [call EXCEPT ![i] = [held |-> held[i], seen |-> current_seq]]
    /\ UNCHANGED <<tables, now, leaseVars, faults, lastGrant>>

(* The caller's object carries the version it read, if any.  A Delete      *)
(* without version reads the current one first, and deletes that one.      *)
Passed(versions) ==
    [key : deployment.keys, spec : Specs, status : Statuses, labels : SUBSET Labels,
     generation : {1}, uid : {0}, rv : versions]

Create(c) == [domain : {"spec"}, obj : Passed({0}), deleted : {FALSE}]
Update(c) == [domain : {"spec"}, obj : Passed(1..c.seen), deleted : {FALSE}]
UpdateStatus(c) == [domain : {"status"}, obj : Passed(1..c.seen), deleted : {FALSE}]
Delete(c) == [domain : {"spec"}, obj : Passed(1..c.seen), deleted : {TRUE}]

FencedOnHolder(i, w) ==  \* mutant
    ~(HeldBy(leases[w.domain], i) /\ leases[w.domain].expires_at > now)

(* pgctl_write: the fence, ...                                             *)
Fenced(i, w) ==
    LET lease == leases[w.domain]
    IN  ~(HeldBy(lease, i) /\ lease.epoch = call[i].held.epoch[w.domain] /\ lease.expires_at > now)

(* ... no-op suppression, which comes before the version check, ...        *)
Suppressed(w) ==
    LET row == rows[w.obj.key]
    IN  /\ row # NoObject
        /\ row.obj.status = w.obj.status
        /\ \/ w.domain = "status"
           \/ /\ row.obj.spec = w.obj.spec /\ row.obj.labels = w.obj.labels
              /\ ~row.deleted /\ ~w.deleted

(* ... and the version check: 0 inserts, and a tombstone is still a row.   *)
VersionMatches(w) ==
    LET row == rows[w.obj.key]
    IN  IF w.obj.rv = 0 THEN row = NoObject ELSE row # NoObject /\ row.obj.rv = w.obj.rv

(* gen_random_uuid gives an inserted row a fresh uid.                      *)
Stored(w) ==
    LET row == rows[w.obj.key]
    IN  [seq |-> current_seq + 1,
         deleted |-> IF w.domain = "status" THEN row.deleted ELSE w.deleted,
         obj |-> IF w.domain = "status" THEN [row.obj EXCEPT !.status = w.obj.status, !.rv = @ + 1]
                 ELSE [w.obj EXCEPT !.rv = @ + 1,
                                    !.uid = IF row = NoObject THEN current_seq + 1 ELSE row.obj.uid]]

(* An error, or nothing to change: the transaction leaves no trace.        *)
Refused(i, w) == Fenced(i, w) \/ Suppressed(w) \/ ~VersionMatches(w)

pgctl_write(i, w) ==
    /\ current_seq < deployment.writes
    /\ ~Refused(i, w)
    /\ current_seq' = current_seq + 1
    /\ rows' = [rows EXCEPT ![w.obj.key] = Stored(w)]
    /\ lastGrant' = call[i].held.grant
    /\ call' = [call EXCEPT ![i] = NoCall]
    /\ UNCHANGED <<horizon, now, leaseVars, faults>>

Writes(c) == Create(c) \cup Update(c) \cup UpdateStatus(c) \cup Delete(c)

Write(i) == call[i] # NoCall /\ \E w \in Writes(call[i]) : pgctl_write(i, w)

Refuse(i) ==
    /\ call[i] # NoCall
    /\ {w \in Writes(call[i]) : Refused(i, w)} # {}
    /\ call' = [call EXCEPT ![i] = NoCall]
    /\ UNCHANGED <<tables, now, leaseVars, faults, lastGrant>>

(* Compaction of the tombstones past their retention, the oldest ones: one *)
(* statement deletes the rows and advances the horizon.                    *)
Compact ==
    \E n \in 1..current_seq :
        LET old == {key \in Keys : rows[key] # NoObject /\ rows[key].deleted /\ rows[key].seq <= n}
        IN  /\ \E key \in old : rows[key].seq = n
            /\ rows' = [key \in Keys |-> IF key \in old THEN NoObject ELSE rows[key]]
            /\ horizon' = n
            /\ UNCHANGED <<current_seq, now, leaseVars, call, faults, lastGrant>>

Leasing ==
    \/ \E i \in Instances : \/ acquireBothLeases(i) \/ SetEpochs(i) \/ GrantLost(i)
                            \/ renewBothLeases(i) \/ RenewFails(i) \/ releaseBothLeases(i)
    \/ Tick

Writing ==
    \/ \E i \in Instances : Call(i) \/ Write(i) \/ Refuse(i)
    \/ Compact

PgNext == Leasing \/ Writing

PgSpec == NewDatabase /\ [][PgNext]_pgVars
-----------------------------------------------------------------------------
epochs == [epoch : [Domains -> Nat], grant : Nat]

PgTypeOK ==
    /\ current_seq \in Nat /\ horizon \in Nat /\ now \in Nat
    /\ rows \in [Keys -> kubernetes_resource \cup {NoObject}]
    /\ leases \in [Domains -> bucket_lease \cup {NoLease}]
    /\ lessee \in [Instances -> {"absent", "down", "running", "lapsed", "granted", "stopped"}]
    /\ reply \in [Instances -> epochs] /\ held \in [Instances -> epochs]
    /\ call \in [Instances -> [held : epochs, seen : Nat] \cup {NoCall}]
    /\ deployment \in Deployments /\ faults \in Nat /\ grants \in Nat /\ lastGrant \in Nat /\ released \in BOOLEAN

(* Both domains always have the same holder, epoch and expiry: whatever    *)
(* the order of acquisitions, renewals, releases and expiries, an instance *)
(* has the spec and the status lease together or neither, and the second   *)
(* half of acquireBothLeases, giving half a grant back, never runs.        *)
LeasesTogether == leases["spec"] = leases["status"]

(* An instance that holds the leases and has no answer outstanding knows   *)
(* their epochs, so the fence stops none of its writes while the lease is  *)
(* unexpired, however often it lost and regained it: a FencedError means   *)
(* the lease is not held (acquireBothLeases, renewBothLeases, Start).      *)
(* This is so as long as no answer to a grant is lost: renewals, which     *)
(* look at the holder only, then succeed and s.epochs stays behind.        *)
HolderNotFenced ==
    faults = 0 => \A i \in Instances, d \in Domains :
        HeldBy(leases[d], i) /\ lessee[i] # "granted" => leases[d].epoch = held[i].epoch[d]

(* The fence orders writes across instances: once a write of a later grant *)
(* was accepted, a write started under an earlier one never is, however    *)
(* long it was delayed (pgctl_write's fence, acquireBothLeases).  This is  *)
(* so until a release deletes the rows and the epochs restart from 1.      *)
FencingOrdersWrites == [][~released => lastGrant' >= lastGrant]_pgVars
=============================================================================
