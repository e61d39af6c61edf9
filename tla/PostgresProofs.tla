--------------------------- MODULE PostgresProofs ---------------------------
(***************************************************************************)
(* The lease protocol of the PostgreSQL backend, and the informer that     *)
(* resumes its watch by resourceVersion, for any number of instances,      *)
(* keys, writes, faults and clock ticks.                                   *)
(***************************************************************************)
EXTENDS PostgresCache, SequenceTheorems, WellFoundedInduction, TLAPS

(* A nonempty set of naturals has a least element.                         *)
LEMMA LeastNat ==
    ASSUME NEW T \in SUBSET Nat, T # {}
    PROVE  \E m \in T : \A n \in T : m <= n
<1>1. IsWellFoundedOn(OpToRel(<, Nat), Nat)
  BY NatLessThanWellFounded, Zenon
<1>2. PICK m \in T : \A n \in T : ~(<<n, m>> \in OpToRel(<, Nat))
  BY <1>1, WFMin, Zenon
<1>3. \A n \in T : ~(n < m)
  BY <1>2, Zenon DEF OpToRel
<1> QED
  BY <1>3

(* A bounded one has a greatest.                                           *)
LEMMA HasGreatest ==
    ASSUME NEW W \in SUBSET Nat, W # {}, NEW b \in Nat, \A q \in W : q <= b
    PROVE  \E x \in W : \A y \in W : y <= x
<1> DEFINE T == {n \in Nat : \A q \in W : q <= n}
<1>1. T \in SUBSET Nat /\ b \in T
  BY Zenon
<1>2. PICK m \in T : \A n \in T : m <= n
  <2> HIDE DEF T
  <2> QED BY <1>1, LeastNat, Zenon
<1>3. CASE m \in W
  BY <1>3, Zenon
<1>4. CASE m \notin W
  <2>1. \A q \in W : q < m /\ q \in Nat
    BY <1>4
  <2>2. PICK q \in W : TRUE
    BY Zenon
  <2>3. m - 1 \in Nat
    BY <2>1, <2>2
  <2>4. \A p \in W : p <= m - 1
    BY <2>1
  <2>5. m <= m - 1
    BY <1>2, <2>3, <2>4, Zenon
  <2> QED BY <2>5
<1> QED BY <1>3, <1>4, Zenon

(* Epochs an instance was given, in any of the places it keeps them.       *)
Known(e, count, restarted) ==
    /\ e.epoch["spec"] = e.epoch["status"]
    /\ e.grant <= count
    /\ ~restarted => e.epoch["spec"] = e.grant

EpochsKnown ==
    \A i \in Instances : /\ Known(held[i], grants, released)
                         /\ Known(reply[i], grants, released)
                         /\ call[i] # NoCall => Known(call[i].held, grants, released)

(* Until a release, every grant adds one to the epoch, so the epoch of the *)
(* lease counts the grants and an epoch tells which grant it came from.    *)
EpochCountsGrants ==
    /\ lastGrant <= grants
    /\ ~released => grants = IF leases["spec"] = NoLease THEN 0 ELSE leases["spec"].epoch

AnswerCurrent ==
    faults = 0 => \A i \in Instances, d \in Domains :
        HeldBy(leases[d], i) /\ lessee[i] = "granted" => leases[d].epoch = reply[i].epoch[d]

(* The inductive invariant.                                                *)
PgInv == PgTypeOK /\ LeasesTogether /\ EpochsKnown /\ EpochCountsGrants /\ HolderNotFenced /\ AnswerCurrent
-----------------------------------------------------------------------------
LEMMA GrantTyped ==
    ASSUME PgTypeOK, NEW i \in Instances, NEW d \in Domains
    PROVE  /\ GrantTo(leases[d], i) \in bucket_lease
           /\ GrantTo(leases[d], i) # NoLease
BY PostgresAssumption DEF PgTypeOK, GrantTo, bucket_lease

LEMMA ObjectFields ==
    \A obj \in Object :
        /\ obj.key \in Keys /\ obj.rv \in Nat /\ obj.uid \in Nat /\ obj.status \in Statuses
        /\ \A status \in Statuses, rv \in Nat : [obj EXCEPT !.status = status, !.rv = rv] \in Object
        /\ \A rv, uid \in Nat : [obj EXCEPT !.rv = rv, !.uid = uid] \in Object
BY Zenon DEF Object

LEMMA StoredTyped ==
    ASSUME PgTypeOK, NEW i \in Instances, call[i] # NoCall, NEW w \in Writes(call[i]), VersionMatches(w)
    PROVE  Stored(w) \in kubernetes_resource /\ w.obj.key \in Keys
<1> DEFINE row == rows[w.obj.key]
<1>1. deployment.keys \subseteq Keys
  BY PostgresAssumption, Zenon DEF PgTypeOK, Deployment
<1>2. call[i].seen \in Nat
  BY Zenon DEF PgTypeOK
<1>3. ASSUME NEW versions \in SUBSET Nat, NEW obj \in Passed(versions)
      PROVE  obj \in Object /\ obj.rv \in versions
  <2>1. /\ obj = [key |-> obj.key, spec |-> obj.spec, status |-> obj.status, labels |-> obj.labels,
                  generation |-> obj.generation, uid |-> obj.uid, rv |-> obj.rv]
        /\ obj.key \in deployment.keys /\ obj.spec \in Specs /\ obj.status \in Statuses
        /\ obj.labels \in SUBSET Labels /\ obj.generation = 1 /\ obj.uid = 0 /\ obj.rv \in versions
    BY <1>3, Zenon DEF Passed
  <2>2. obj.key \in Keys /\ obj.rv \in Nat
    BY <1>1, <2>1, Zenon
  <2>3. QED
    BY <2>1, <2>2 DEF Object
<1>4. w.obj \in Object /\ w.domain \in Domains /\ w.deleted \in BOOLEAN /\ (w.domain = "status" => w.obj.rv # 0)
  <2>1. {0} \in SUBSET Nat /\ 1..call[i].seen \in SUBSET Nat
    BY <1>2
  <2>2. CASE w \in Create(call[i])
    BY <1>3, <2>1, <2>2, Zenon DEF Create, Domains
  <2>3. CASE w \in Update(call[i]) \cup UpdateStatus(call[i]) \cup Delete(call[i])
    <3>1. w.obj \in Passed(1..call[i].seen) /\ w.domain \in Domains /\ w.deleted \in BOOLEAN
      BY <2>3, Zenon DEF Update, UpdateStatus, Delete, Domains
    <3>2. QED
      BY <1>2, <1>3, <2>1, <3>1
  <2>4. QED
    BY <2>2, <2>3, Zenon DEF Writes
<1>5. w.obj.key \in Keys
  BY <1>4, Zenon DEF Object
<1>6. row \in kubernetes_resource \cup {NoObject}
  BY <1>5, Zenon DEF PgTypeOK
<1>7. w.domain = "status" => row \in kubernetes_resource
  BY <1>4, <1>6, Zenon DEF VersionMatches
<1>8. row # NoObject => row.obj \in Object /\ row.deleted \in BOOLEAN
  BY <1>6, Zenon DEF kubernetes_resource
<1>9. current_seq + 1 \in Nat
  BY DEF PgTypeOK
<1>10. CASE w.domain = "status"
  <2>1. row.obj \in Object /\ row.deleted \in BOOLEAN
    BY <1>7, <1>10, Zenon DEF kubernetes_resource
  <2>2. [row.obj EXCEPT !.status = w.obj.status, !.rv = row.obj.rv + 1] \in Object
    <3>1. row.obj.rv + 1 \in Nat /\ w.obj.status \in Statuses
      BY <1>4, <2>1 DEF Object
    <3>2. \A status \in Statuses, rv \in Nat : [row.obj EXCEPT !.status = status, !.rv = rv] \in Object
      BY <2>1, ObjectFields, Zenon
    <3>3. QED
      BY <3>1, <3>2, Zenon
  <2>3. Stored(w) = [seq |-> current_seq + 1, deleted |-> row.deleted,
                     obj |-> [row.obj EXCEPT !.status = w.obj.status, !.rv = row.obj.rv + 1]]
    BY <1>10, Zenon DEF Stored
  <2>4. QED
    BY <1>5, <1>9, <2>1, <2>2, <2>3 DEF kubernetes_resource
<1>11. CASE w.domain # "status"
  <2>1. (IF row = NoObject THEN current_seq + 1 ELSE row.obj.uid) \in Nat
    BY <1>8, <1>9, ObjectFields, Zenon
  <2>2. [w.obj EXCEPT !.rv = w.obj.rv + 1,
                      !.uid = IF row = NoObject THEN current_seq + 1 ELSE row.obj.uid] \in Object
    <3>1. w.obj.rv + 1 \in Nat
      BY <1>4 DEF Object
    <3>2. \A rv, uid \in Nat : [w.obj EXCEPT !.rv = rv, !.uid = uid] \in Object
      BY <1>4, ObjectFields, Zenon
    <3>3. QED
      BY <2>1, <3>1, <3>2, Zenon
  <2>3. Stored(w) = [seq |-> current_seq + 1, deleted |-> w.deleted,
                     obj |-> [w.obj EXCEPT !.rv = w.obj.rv + 1,
                                           !.uid = IF row = NoObject THEN current_seq + 1 ELSE row.obj.uid]]
    BY <1>11, Zenon DEF Stored
  <2>4. QED
    BY <1>4, <1>5, <1>9, <2>2, <2>3 DEF kubernetes_resource
<1>12. QED
  BY <1>10, <1>11, Zenon

LEMMA PgTypeInit == NewDatabase => PgTypeOK
<1> SUFFICES ASSUME NewDatabase PROVE PgTypeOK
  BY Zenon
<1>1. NoEpochs \in epochs
  BY Zenon DEF NoEpochs, epochs
<1>2. QED
  BY <1>1, Zenon DEF NewDatabase, PgTypeOK

LEMMA PgTypeStep == PgTypeOK /\ [PgNext]_pgVars => PgTypeOK'
<1> SUFFICES ASSUME PgTypeOK, [PgNext]_pgVars PROVE PgTypeOK'
  BY Zenon
<1> USE DEF tables, leaseVars
<1>1. NoEpochs \in epochs /\ now + TTL \in Nat
  BY PostgresAssumption DEF NoEpochs, epochs, PgTypeOK
<1>2. ASSUME NEW i \in Instances, acquireBothLeases(i)
      PROVE  PgTypeOK'
  <2> DEFINE granted == {d \in Domains : Grantable(leases[d], i)}
             after == [d \in Domains |-> IF d \in granted THEN GrantTo(leases[d], i) ELSE leases[d]]
  <2>1. after \in [Domains -> bucket_lease \cup {NoLease}]
    BY GrantTyped, Zenon DEF PgTypeOK
  <2>2. granted = Domains => \A d \in Domains : after[d].epoch \in Nat
    BY GrantTyped, Zenon DEF bucket_lease
  <2>3. Resting(i) \in {"down", "running"}
    BY Zenon DEF Resting
  <2> HIDE DEF after
  <2>4. Surrendered(after, i) \in [Domains -> bucket_lease \cup {NoLease}]
    BY <2>1, Zenon DEF Surrendered
  <2>5. CASE granted = Domains
    <3>1. [epoch |-> [d \in Domains |-> after[d].epoch], grant |-> grants + 1] \in epochs
      BY <2>2, <2>5 DEF epochs, PgTypeOK
    <3>2. grants + 1 \in Nat
      BY DEF PgTypeOK
    <3>3. /\ leases' = after /\ grants' = grants + 1
          /\ lessee' = [lessee EXCEPT ![i] = "granted"]
          /\ reply' = [reply EXCEPT ![i] = [epoch |-> [d \in Domains |-> after[d].epoch], grant |-> grants + 1]]
      BY <1>2, <2>5, Zenon DEF acquireBothLeases, after
    <3>4. lessee' \in [Instances -> {"absent", "down", "running", "lapsed", "granted", "stopped"}]
      BY <3>3, Zenon DEF PgTypeOK
    <3>5. reply' \in [Instances -> epochs]
      BY <3>1, <3>3, Zenon DEF PgTypeOK
    <3>6. QED
      BY <1>2, <2>1, <3>2, <3>3, <3>4, <3>5, Zenon DEF acquireBothLeases, PgTypeOK
  <2>6. CASE granted # Domains
    BY <1>2, <2>3, <2>4, <2>6, Zenon DEF acquireBothLeases, PgTypeOK, after
  <2>7. QED
    BY <2>5, <2>6, Zenon
<1>3. ASSUME NEW i \in Instances, SetEpochs(i)
      PROVE  PgTypeOK'
  BY <1>1, <1>3, Zenon DEF SetEpochs, PgTypeOK
<1>4. ASSUME NEW i \in Instances, GrantLost(i)
      PROVE  PgTypeOK'
  BY <1>1, <1>4 DEF GrantLost, Resting, PgTypeOK
<1>5. ASSUME NEW i \in Instances, renewBothLeases(i)
      PROVE  PgTypeOK'
  <2>1. \A lease \in bucket_lease : [lease EXCEPT !.expires_at = now + TTL] \in bucket_lease
    BY <1>1, Zenon DEF bucket_lease
  <2>2. \A d \in Domains : HeldBy(leases[d], i) => leases[d] \in bucket_lease
    BY Zenon DEF PgTypeOK, HeldBy
  <2>3. leases' \in [Domains -> bucket_lease \cup {NoLease}]
    BY <1>5, <2>1, <2>2, Zenon DEF renewBothLeases, PgTypeOK
  <2>4. QED
    BY <1>5, <2>3, Zenon DEF renewBothLeases, PgTypeOK
<1>6. ASSUME NEW i \in Instances, releaseBothLeases(i)
      PROVE  PgTypeOK'
  BY <1>6, Zenon DEF releaseBothLeases, Surrendered, PgTypeOK
<1>7. CASE Tick
  BY <1>7 DEF Tick, PgTypeOK
<1>8. ASSUME NEW i \in Instances, Call(i)
      PROVE  PgTypeOK'
  BY <1>8, Zenon DEF Call, PgTypeOK
<1>9. ASSUME NEW i \in Instances, Write(i)
      PROVE  PgTypeOK'
  <2>1. PICK w \in Writes(call[i]) : pgctl_write(i, w)
    BY <1>9, Zenon DEF Write
  <2>2. call[i] # NoCall /\ VersionMatches(w)
    BY <1>9, <2>1, Zenon DEF Write, pgctl_write, Refused
  <2>3. Stored(w) \in kubernetes_resource /\ w.obj.key \in Keys
    BY <2>2, StoredTyped, Zenon
  <2>4. call[i].held.grant \in Nat
    BY <2>2, Zenon DEF PgTypeOK, epochs
  <2>5. QED
    BY <2>1, <2>3, <2>4 DEF pgctl_write, PgTypeOK
<1>10. ASSUME NEW i \in Instances, Refuse(i)
       PROVE  PgTypeOK'
  BY <1>10, Zenon DEF Refuse, PgTypeOK
<1>11. CASE Compact
  BY <1>11 DEF Compact, PgTypeOK
<1>12. CASE UNCHANGED pgVars
  BY <1>12, Zenon DEF pgVars, PgTypeOK
<1>13. ASSUME NEW i \in Instances, RenewFails(i)
       PROVE  PgTypeOK'
  BY <1>13, Zenon DEF RenewFails, PgTypeOK
<1>14. QED
  BY <1>2, <1>3, <1>4, <1>5, <1>6, <1>7, <1>8, <1>9, <1>10, <1>11, <1>12, <1>13, Zenon
     DEF PgNext, Leasing, Writing

LEMMA KnownLater ==
    ASSUME NEW e, NEW c \in Nat, NEW d \in Nat, NEW r \in BOOLEAN, NEW q \in BOOLEAN,
           e.grant \in Nat, c <= d, r => q, Known(e, c, r)
    PROVE  Known(e, d, q)
BY DEF Known

LEMMA PgInvInit == NewDatabase => PgInv
<1> SUFFICES ASSUME NewDatabase PROVE PgInv
  BY Zenon
<1>1. PgTypeOK
  BY PgTypeInit, Zenon
<1>2. Known(NoEpochs, 0, FALSE)
  BY DEF Known, NoEpochs, Domains
<1>3. EpochsKnown
  BY <1>2, Zenon DEF NewDatabase, EpochsKnown
<1>4. \A i \in Instances, d \in Domains : ~HeldBy(leases[d], i)
  BY Zenon DEF NewDatabase, HeldBy
<1>5. QED
  BY <1>1, <1>3, <1>4
     DEF PgInv, NewDatabase, LeasesTogether, EpochCountsGrants, HolderNotFenced, AnswerCurrent, Domains

(* What a grant leaves; PgInv rules out half a grant.                      *)
LEMMA AcquireInv ==
    ASSUME PgInv, PgTypeOK', NEW i \in Instances, acquireBothLeases(i)
    PROVE  PgInv'
<1> DEFINE granted == {d \in Domains : Grantable(leases[d], i)}
           after == [d \in Domains |-> IF d \in granted THEN GrantTo(leases[d], i) ELSE leases[d]]
<1>1. leases["spec"] = leases["status"]
  BY Zenon DEF PgInv, LeasesTogether
<1>2. CASE granted = Domains
  <2> DEFINE lease == GrantTo(leases["spec"], i)
             e == [epoch |-> [d \in Domains |-> lease.epoch], grant |-> grants + 1]
  <2>1. \A d \in Domains : after[d] = lease
    BY <1>1, <1>2, Zenon DEF Domains
  <2>2. /\ leases' = [d \in Domains |-> lease]
        /\ lessee' = [lessee EXCEPT ![i] = "granted"]
        /\ reply' = [reply EXCEPT ![i] = e]
        /\ grants' = grants + 1
        /\ UNCHANGED <<held, released, call, faults, lastGrant>>
    BY <1>2, <2>1, Zenon DEF acquireBothLeases
  <2>3. /\ lease # NoLease /\ lease.holder = i
        /\ lease.epoch = (IF leases["spec"] = NoLease THEN 0 ELSE leases["spec"].epoch) + 1
    <3>1. "spec" \in Domains
      BY Zenon DEF Domains
    <3>2. QED
      BY <3>1, GrantTyped, Zenon DEF PgInv, GrantTo
  <2> HIDE DEF lease
  <2>4. grants \in Nat /\ released \in BOOLEAN
    BY Zenon DEF PgInv, PgTypeOK
  <2>5. Known(e, grants + 1, released)
    BY <2>3, <2>4 DEF PgInv, EpochCountsGrants, Known, Domains
  <2> HIDE DEF e
  <2>6. EpochsKnown'
    <3>1. SUFFICES ASSUME NEW j \in Instances
                   PROVE  /\ Known(held'[j], grants', released')
                          /\ Known(reply'[j], grants', released')
                          /\ call'[j] # NoCall => Known(call'[j].held, grants', released')
      BY Zenon DEF EpochsKnown
    <3>2. held[j].grant \in Nat /\ reply[j].grant \in Nat /\ (call[j] # NoCall => call[j].held.grant \in Nat)
      BY Zenon DEF PgInv, PgTypeOK, epochs
    <3>3. grants + 1 \in Nat /\ grants <= grants + 1
      BY <2>4
    <3>4. /\ Known(held[j], grants + 1, released) /\ Known(reply[j], grants + 1, released)
          /\ call[j] # NoCall => Known(call[j].held, grants + 1, released)
      BY <2>4, <3>2, <3>3, KnownLater DEF PgInv, EpochsKnown
    <3>5. reply'[j] = IF j = i THEN e ELSE reply[j]
      BY <2>2, Zenon DEF PgInv, PgTypeOK
    <3>6. QED
      BY <2>2, <2>5, <3>4, <3>5, Zenon
  <2>7. LeasesTogether' /\ EpochCountsGrants'
    <3>1. leases'["spec"] = lease /\ leases'["status"] = lease
      BY <2>2, Zenon DEF Domains
    <3>2. lastGrant \in Nat
      BY Zenon DEF PgInv, PgTypeOK
    <3>3. QED
      BY <2>2, <2>3, <2>4, <3>1, <3>2 DEF LeasesTogether, EpochCountsGrants, PgInv
  <2>8. HolderNotFenced' /\ AnswerCurrent'
    <3>1. ASSUME NEW j \in Instances, NEW d \in Domains, HeldBy(leases'[d], j)
          PROVE  lessee'[j] = "granted" /\ leases'[d].epoch = reply'[j].epoch[d]
      <4>1. leases'[d] = lease /\ j = i
        BY <2>2, <2>3, <3>1, Zenon DEF HeldBy
      <4>2. lessee'[i] = "granted" /\ reply'[i] = e
        BY <2>2, Zenon DEF PgInv, PgTypeOK
      <4>3. QED
        BY <4>1, <4>2 DEF e
    <3>2. QED
      BY <3>1, Zenon DEF HolderNotFenced, AnswerCurrent, HeldBy
  <2>9. QED
    BY <2>6, <2>7, <2>8, Zenon DEF PgInv
<1>3. CASE granted # Domains
  <2>1. granted = {}
    BY <1>1, <1>3, Zenon DEF Domains
  <2>2. \A d \in Domains : after[d] = leases[d] /\ ~HeldBy(leases[d], i)
    BY <2>1, Zenon DEF Grantable, HeldBy
  <2>3. Surrendered(after, i) = leases
    BY <2>2, Zenon DEF Surrendered, PgInv, PgTypeOK
  <2>4. UNCHANGED <<leases, held, reply, grants, released, call, faults, lastGrant>>
    BY <1>3, <2>3, Zenon DEF acquireBothLeases
  <2>5. /\ \A j \in Instances, d \in Domains : HeldBy(leases[d], j) => lessee'[j] = lessee[j]
    BY <1>3, <2>2 DEF acquireBothLeases, PgInv, PgTypeOK
  <2>6. QED
    BY <2>4, <2>5 DEF PgInv, LeasesTogether, EpochsKnown, EpochCountsGrants, HolderNotFenced, AnswerCurrent
<1>4. QED
  BY <1>2, <1>3, Zenon

LEMMA PgInvStep == PgInv /\ [PgNext]_pgVars => PgInv'
<1> SUFFICES ASSUME PgInv, [PgNext]_pgVars PROVE PgInv'
  BY Zenon
<1> USE DEF tables, leaseVars
<1>1. PgTypeOK /\ PgTypeOK'
  BY PgTypeStep, Zenon DEF PgInv
<1>2. ASSUME NEW i \in Instances, acquireBothLeases(i)
      PROVE  PgInv'
  BY <1>1, <1>2, AcquireInv, Zenon
<1>3. ASSUME NEW i \in Instances, SetEpochs(i)
      PROVE  PgInv'
  <2>1. \A j \in Instances : /\ held'[j] = IF j = i THEN reply[i] ELSE held[j]
                             /\ reply'[j] = IF j = i THEN NoEpochs ELSE reply[j]
                             /\ lessee'[j] = IF j = i THEN "running" ELSE lessee[j]
    BY <1>1, <1>3, Zenon DEF SetEpochs, PgTypeOK
  <2>2. UNCHANGED <<leases, grants, released, call, faults, lastGrant>>
    BY <1>3, Zenon DEF SetEpochs
  <2>3. Known(NoEpochs, grants, released)
    BY <1>1 DEF Known, NoEpochs, Domains, PgTypeOK
  <2>4. EpochsKnown'
    BY <2>1, <2>2, <2>3, Zenon DEF PgInv, EpochsKnown
  <2>5. HolderNotFenced' /\ AnswerCurrent'
    BY <1>3, <2>1, <2>2 DEF PgInv, HolderNotFenced, AnswerCurrent, SetEpochs
  <2>6. QED
    BY <1>1, <2>2, <2>4, <2>5, Zenon DEF PgInv, LeasesTogether, EpochCountsGrants
<1>4. ASSUME NEW i \in Instances, GrantLost(i)
      PROVE  PgInv'
  <2>1. \A j \in Instances : reply'[j] = IF j = i THEN NoEpochs ELSE reply[j]
    BY <1>1, <1>4, Zenon DEF GrantLost, PgTypeOK
  <2>2. UNCHANGED <<leases, held, grants, released, call, lastGrant>> /\ faults' # 0
    BY <1>1, <1>4 DEF GrantLost, PgTypeOK
  <2>3. Known(NoEpochs, grants, released)
    BY <1>1 DEF Known, NoEpochs, Domains, PgTypeOK
  <2>4. EpochsKnown'
    BY <2>1, <2>2, <2>3, Zenon DEF PgInv, EpochsKnown
  <2>5. QED
    BY <1>1, <2>2, <2>4, Zenon DEF PgInv, LeasesTogether, EpochCountsGrants, HolderNotFenced, AnswerCurrent
<1>5. ASSUME NEW i \in Instances, renewBothLeases(i)
      PROVE  PgInv'
  <2>1. UNCHANGED <<held, reply, grants, released, call, faults, lastGrant>>
    BY <1>5, Zenon DEF renewBothLeases
  <2>2. \A d \in Domains : leases'[d] = IF HeldBy(leases[d], i)
                                         THEN [leases[d] EXCEPT !.expires_at = now + TTL] ELSE leases[d]
    BY <1>5, Zenon DEF renewBothLeases
  <2>3. \A d \in Domains : HeldBy(leases[d], i) => leases[d] \in bucket_lease
    BY <1>1, Zenon DEF HeldBy, PgTypeOK
  <2>4. \A lease \in bucket_lease, t \in Nat :
            /\ [lease EXCEPT !.expires_at = t] # NoLease
            /\ [lease EXCEPT !.expires_at = t].holder = lease.holder
            /\ [lease EXCEPT !.expires_at = t].epoch = lease.epoch
    BY PostgresAssumption, Zenon DEF bucket_lease
  <2>5. now + TTL \in Nat
    BY <1>1, PostgresAssumption DEF PgTypeOK
  <2>6. \A d \in Domains : /\ (leases'[d] = NoLease) = (leases[d] = NoLease)
                           /\ leases[d] # NoLease => /\ leases'[d].holder = leases[d].holder
                                                     /\ leases'[d].epoch = leases[d].epoch
    <3> SUFFICES ASSUME NEW d \in Domains
                 PROVE  /\ (leases'[d] = NoLease) = (leases[d] = NoLease)
                        /\ leases[d] # NoLease => /\ leases'[d].holder = leases[d].holder
                                                  /\ leases'[d].epoch = leases[d].epoch
      BY Zenon
    <3>1. CASE HeldBy(leases[d], i)
      <4>1. leases[d] # NoLease
        BY <3>1, Zenon DEF HeldBy
      <4>2. /\ leases'[d] # NoLease
            /\ leases'[d].holder = leases[d].holder
            /\ leases'[d].epoch = leases[d].epoch
        <5> DEFINE lease == leases[d]
                   t == now + TTL
        <5>1. leases'[d] = [lease EXCEPT !.expires_at = t] /\ lease \in bucket_lease /\ t \in Nat
          BY <2>2, <2>3, <2>5, <3>1, Zenon
        <5> HIDE DEF lease, t
        <5>2. /\ [lease EXCEPT !.expires_at = t] # NoLease
              /\ [lease EXCEPT !.expires_at = t].holder = lease.holder
              /\ [lease EXCEPT !.expires_at = t].epoch = lease.epoch
          BY <2>4, <5>1, Zenon
        <5>3. QED
          BY <5>1, <5>2, Zenon DEF lease
      <4>3. QED
        BY <4>1, <4>2, Zenon
    <3>2. CASE ~HeldBy(leases[d], i)
      BY <2>2, <3>2, Zenon
    <3>3. QED
      BY <3>1, <3>2, Zenon
  <2>7. \A j \in Instances : lessee'[j] # lessee[j] => lessee[j] # "granted" /\ lessee'[j] # "granted"
    BY <1>1, <1>5, Zenon DEF renewBothLeases, PgTypeOK
  <2>8. LeasesTogether'
    BY <2>2 DEF PgInv, LeasesTogether, Domains
  <2>9. EpochCountsGrants'
    BY <2>1, <2>6, Zenon DEF PgInv, EpochCountsGrants, Domains
  <2>10. HolderNotFenced' /\ AnswerCurrent'
    BY <2>1, <2>6, <2>7 DEF PgInv, HolderNotFenced, AnswerCurrent, HeldBy
  <2>11. QED
    BY <1>1, <2>1, <2>8, <2>9, <2>10, Zenon DEF PgInv, EpochsKnown
<1>6. ASSUME NEW i \in Instances, releaseBothLeases(i)
      PROVE  PgInv'
  <2>1. /\ UNCHANGED <<held, reply, grants, call, faults, lastGrant>>
        /\ released => released'
    BY <1>6 DEF releaseBothLeases
  <2>2. \A d \in Domains : leases'[d] = leases[d] \/ leases'[d] = NoLease
    BY <1>6, Zenon DEF releaseBothLeases, Surrendered
  <2>3. \A j \in Instances : lessee'[j] # lessee[j] => lessee[j] # "granted" /\ lessee'[j] # "granted"
    BY <1>1, <1>6, Zenon DEF releaseBothLeases, PgTypeOK
  <2>4. LeasesTogether'
    BY <1>6, Zenon DEF PgInv, LeasesTogether, releaseBothLeases, Surrendered, Domains
  <2>5. EpochsKnown'
    BY <2>1, Zenon DEF PgInv, EpochsKnown, Known
  <2>6. EpochCountsGrants'
    BY <1>6, <2>1, Zenon DEF PgInv, EpochCountsGrants, releaseBothLeases
  <2>7. HolderNotFenced' /\ AnswerCurrent'
    BY <2>1, <2>2, <2>3 DEF PgInv, HolderNotFenced, AnswerCurrent, HeldBy
  <2>8. QED
    BY <1>1, <2>4, <2>5, <2>6, <2>7, Zenon DEF PgInv
<1>7. ASSUME UNCHANGED <<leases, lessee, held, reply, grants, released, faults, lastGrant>>,
             \A j \in Instances : call'[j] # NoCall => Known(call'[j].held, grants, released)
      PROVE  PgInv'
  BY <1>1, <1>7, Zenon DEF PgInv, LeasesTogether, EpochsKnown, EpochCountsGrants, HolderNotFenced, AnswerCurrent
<1>8. \A j \in Instances : call[j] # NoCall => Known(call[j].held, grants, released)
  BY Zenon DEF PgInv, EpochsKnown
<1>9. CASE Tick \/ Compact \/ UNCHANGED pgVars
  BY <1>7, <1>8, <1>9, Zenon DEF Tick, Compact, pgVars
<1>10. ASSUME NEW i \in Instances, Call(i)
       PROVE  PgInv'
  <2>1. \A j \in Instances : call'[j] = IF j = i THEN [held |-> held[i], seen |-> current_seq] ELSE call[j]
    BY <1>1, <1>10, Zenon DEF Call, PgTypeOK
  <2>2. \A j \in Instances : call'[j] # NoCall => Known(call'[j].held, grants, released)
    BY <1>8, <2>1 DEF PgInv, EpochsKnown
  <2>3. QED
    BY <1>7, <1>10, <2>2, Zenon DEF Call
<1>11. ASSUME NEW i \in Instances, Refuse(i)
       PROVE  PgInv'
  <2>1. \A j \in Instances : call'[j] = IF j = i THEN NoCall ELSE call[j]
    BY <1>1, <1>11, Zenon DEF Refuse, PgTypeOK
  <2>2. QED
    BY <1>7, <1>8, <1>11, <2>1, Zenon DEF Refuse
<1>12. ASSUME NEW i \in Instances, Write(i)
       PROVE  PgInv'
  <2>1. /\ call[i] # NoCall
        /\ lastGrant' = call[i].held.grant
        /\ call' = [call EXCEPT ![i] = NoCall]
        /\ UNCHANGED <<leases, lessee, held, reply, grants, released, faults>>
    BY <1>12, Zenon DEF Write, pgctl_write
  <2>2. \A j \in Instances : call'[j] = IF j = i THEN NoCall ELSE call[j]
    BY <1>1, <2>1, Zenon DEF PgTypeOK
  <2>3. lastGrant' <= grants
    <3>1. Known(call[i].held, grants, released)
      BY <1>8, <2>1, Zenon
    <3>2. QED
      BY <2>1, <3>1, Zenon DEF Known
  <2>4. EpochsKnown'
    BY <2>1, <2>2, Zenon DEF PgInv, EpochsKnown
  <2>5. EpochCountsGrants'
    BY <2>1, <2>3, Zenon DEF PgInv, EpochCountsGrants
  <2>6. QED
    BY <1>1, <2>1, <2>4, <2>5, Zenon DEF PgInv, LeasesTogether, HolderNotFenced, AnswerCurrent
<1>13. ASSUME NEW i \in Instances, RenewFails(i)
       PROVE  PgInv'
  <2>1. UNCHANGED <<leases, held, reply, grants, released, call, faults, lastGrant>>
    BY <1>13, Zenon DEF RenewFails
  <2>2. \A j \in Instances : lessee'[j] # lessee[j] => lessee[j] # "granted" /\ lessee'[j] # "granted"
    BY <1>1, <1>13, Zenon DEF RenewFails, PgTypeOK
  <2>3. HolderNotFenced' /\ AnswerCurrent'
    BY <2>1, <2>2 DEF PgInv, HolderNotFenced, AnswerCurrent, HeldBy
  <2>4. QED
    BY <1>1, <2>1, <2>3, Zenon DEF PgInv, LeasesTogether, EpochsKnown, EpochCountsGrants
<1>14. QED
  BY <1>2, <1>3, <1>4, <1>5, <1>6, <1>9, <1>10, <1>11, <1>12, <1>13, Zenon DEF PgNext, Leasing, Writing

(* What the lease protocol keeps, for every number of instances, faults    *)
(* and clock ticks.                                                        *)
THEOREM PgInvariant == PgSpec => []PgInv
<1>1. PgInv /\ UNCHANGED pgVars => PgInv'
  BY PgInvStep, Zenon
<1>2. QED
  BY PgInvInit, PgInvStep, PTL DEF PgSpec

(* An instance has the spec and the status lease together, or neither.     *)
THEOREM LeasesAlwaysTogether == PgSpec => []LeasesTogether
<1>1. PgInv => LeasesTogether
  BY Zenon DEF PgInv
<1>2. QED
  BY <1>1, PgInvariant, PTL

(* A holder of the lease knows its epochs unless an answer was lost.       *)
THEOREM HolderNeverFenced == PgSpec => []HolderNotFenced
<1>1. PgInv => HolderNotFenced
  BY Zenon DEF PgInv
<1>2. QED
  BY <1>1, PgInvariant, PTL

LEMMA FenceStep == PgInv /\ [PgNext]_pgVars => [~released => lastGrant' >= lastGrant]_pgVars
<1> SUFFICES ASSUME PgInv, PgNext, ~released PROVE lastGrant' >= lastGrant
  BY Zenon DEF pgVars, tables, leaseVars
<1>1. PgTypeOK
  BY Zenon DEF PgInv
<1>2. ASSUME NEW i \in Instances, Write(i)
      PROVE  lastGrant' >= lastGrant
  <2>1. PICK w \in Writes(call[i]) : pgctl_write(i, w)
    BY <1>2, Zenon DEF Write
  <2>2. call[i] # NoCall /\ ~Fenced(i, w) /\ lastGrant' = call[i].held.grant
    BY <1>2, <2>1, Zenon DEF Write, pgctl_write, Refused
  <2>3. w.domain \in Domains
    BY Zenon DEF Writes, Create, Update, UpdateStatus, Delete, Domains
  <2>4. leases["spec"] # NoLease /\ leases["spec"].epoch = call[i].held.epoch["spec"]
    BY <2>2, <2>3, Zenon DEF Fenced, HeldBy, Domains, PgInv, LeasesTogether, EpochsKnown, Known
  <2>5. call[i].held.grant = grants
    BY <2>2, <2>4, Zenon DEF PgInv, EpochsKnown, EpochCountsGrants, Known
  <2>6. QED
    BY <1>1, <2>2, <2>5, Zenon DEF PgInv, EpochCountsGrants, PgTypeOK
<1>3. CASE UNCHANGED lastGrant
  BY <1>1, <1>3 DEF PgTypeOK
<1>4. QED
  BY <1>2, <1>3, Zenon
     DEF PgNext, Leasing, Writing, acquireBothLeases, SetEpochs, GrantLost, renewBothLeases,
         RenewFails, releaseBothLeases, Tick, Call, Refuse, Compact

(* No write of an earlier grant is accepted after one of a later grant, as *)
(* long as nobody has released the lease.                                  *)
THEOREM FencedWritesOrdered == PgSpec => FencingOrdersWrites
BY FenceStep, PgInvariant, PTL DEF PgSpec, FencingOrdersWrites

(* The same with an informer reading the tables, and with failovers.       *)
THEOREM LeasesWithInformer ==
    Spec => []LeasesTogether /\ []HolderNotFenced /\ FencingOrdersWrites
<1>1. PgInv /\ Fault => PgInv'
  <2> SUFFICES ASSUME PgInv, Fault PROVE PgInv' BY Zenon
  <2>1. faults' = faults + 1 /\ faults \in Nat /\ UNCHANGED <<tables, now, leaseVars, call, lastGrant>>
    BY Zenon DEF Fault, PgInv, PgTypeOK
  <2>2. /\ current_seq' = current_seq /\ rows' = rows /\ horizon' = horizon /\ now' = now /\ call' = call
        /\ leases' = leases /\ lessee' = lessee /\ reply' = reply /\ held' = held /\ grants' = grants
        /\ released' = released /\ deployment' = deployment /\ lastGrant' = lastGrant
    BY <2>1, Zenon DEF tables, leaseVars
  <2>3. faults' \in Nat /\ faults' # 0 BY <2>1
  <2>4. PgTypeOK' BY <2>2, <2>3, Zenon DEF PgInv, PgTypeOK
  <2>5. LeasesTogether' /\ EpochsKnown' /\ EpochCountsGrants'
    BY <2>2, Zenon DEF PgInv, LeasesTogether, EpochsKnown, EpochCountsGrants
  <2>6. HolderNotFenced' /\ AnswerCurrent' BY <2>3, Zenon DEF HolderNotFenced, AnswerCurrent
  <2> QED BY <2>4, <2>5, <2>6, Zenon DEF PgInv
<1>2. [Next]_pgCacheVars => [PgNext]_pgVars \/ Fault
  BY Zenon DEF Next, Informer, Driver, Faults, pgCacheVars, InitialList, Watch, RevisionTooOld, relistInformer, HandleEvent,
         Reconnect, Poll, PollGone, WatchUnchecked, PollFails, Failover, ListElsewhere
<1>3. PgInv /\ [Next]_pgCacheVars => PgInv'
  BY <1>1, <1>2, PgInvStep, Zenon
<1>4. PgInv /\ Fault => [~released => lastGrant' >= lastGrant]_pgVars
  <2> SUFFICES ASSUME PgInv, Fault PROVE lastGrant' >= lastGrant BY Zenon
  <2>1. lastGrant \in Nat /\ lastGrant' = lastGrant BY Zenon DEF PgInv, PgTypeOK, Fault
  <2> QED BY <2>1
<1>5. PgInv /\ [Next]_pgCacheVars => [~released => lastGrant' >= lastGrant]_pgVars
  BY <1>2, <1>4, FenceStep, Zenon
<1>6. Init => PgInv
  BY PgInvInit, Zenon DEF Init
<1>7. PgInv => LeasesTogether /\ HolderNotFenced
  BY Zenon DEF PgInv
<1>8. QED
  BY <1>3, <1>5, <1>6, <1>7, PTL DEF Spec, FencingOrdersWrites
-----------------------------------------------------------------------------
(***************************************************************************)
(* Resuming by resourceVersion.  What a step of the backend does to the    *)
(* rows: nothing, a write of one row, or a compaction.                     *)
(***************************************************************************)
Version(row) == IF row = NoObject THEN 0 ELSE row.obj.rv

Written(key, row) ==
    /\ current_seq' = current_seq + 1 /\ horizon' = horizon
    /\ rows' = [rows EXCEPT ![key] = row]
    /\ row \in kubernetes_resource /\ row.seq = current_seq + 1
    /\ row.obj.key = key /\ row.obj.rv = Version(rows[key]) + 1
    /\ rows[key] = NoObject => ~row.deleted

Compacted(n) ==
    /\ current_seq' = current_seq /\ horizon' = n
    /\ \E key \in Keys : rows[key] # NoObject /\ rows[key].deleted /\ rows[key].seq = n
    /\ rows' = [key \in Keys |->
                  IF rows[key] # NoObject /\ rows[key].deleted /\ rows[key].seq <= n THEN NoObject ELSE rows[key]]

(* A version never exceeds the sequence number of its write, and what is   *)
(* left of the tombstones is past the horizon.                             *)
RowOK(key, row, seq, past) ==
    row # NoObject => /\ row.obj.key = key
                      /\ 1 <= row.obj.rv /\ row.obj.rv <= row.seq /\ row.seq <= seq
                      /\ row.deleted => row.seq > past

RowsOK == horizon <= current_seq /\ \A key \in Keys : RowOK(key, rows[key], current_seq, horizon)

LEMMA RowParts ==
    ASSUME PgTypeOK
    PROVE  /\ current_seq \in Nat /\ horizon \in Nat /\ rows \in [Keys -> kubernetes_resource \cup {NoObject}]
           /\ NoObject \notin kubernetes_resource
           /\ \A row \in kubernetes_resource :
                 row.obj \in Object /\ row.seq \in Nat /\ row.deleted \in BOOLEAN /\ row.obj.rv \in Nat /\ row.obj.key \in Keys
<1>1. current_seq \in Nat /\ horizon \in Nat /\ rows \in [Keys -> kubernetes_resource \cup {NoObject}]
  BY Zenon DEF PgTypeOK
<1>2. NoObject \notin kubernetes_resource
  BY PostgresAssumption, Zenon
<1>3. \A row \in kubernetes_resource : row.obj \in Object /\ row.seq \in Nat /\ row.deleted \in BOOLEAN
  BY Zenon DEF kubernetes_resource
<1> QED BY <1>1, <1>2, <1>3, ObjectFields, Zenon

LEMMA PgChanges ==
    ASSUME PgTypeOK, RowsOK, [PgNext]_pgVars
    PROVE  \/ UNCHANGED tables
           \/ \E key \in Keys : \E row : Written(key, row)
           \/ \E n \in 1..current_seq : Compacted(n)
<1>1. ASSUME NEW i \in Instances, Write(i) PROVE \E key \in Keys : \E row : Written(key, row)
  <2>1. call[i] # NoCall BY <1>1, Zenon DEF Write
  <2>2. PICK w \in Writes(call[i]) : pgctl_write(i, w)
    BY <1>1, Zenon DEF Write
  <2>3. VersionMatches(w) /\ ~Refused(i, w) BY <2>2, Zenon DEF pgctl_write, Refused
  <2> DEFINE key == w.obj.key
             row == Stored(w)
  <2>4. row \in kubernetes_resource /\ key \in Keys BY <2>1, <2>3, StoredTyped, Zenon
  <2>5. /\ current_seq' = current_seq + 1 /\ horizon' = horizon /\ rows' = [rows EXCEPT ![key] = row]
    BY <2>2, Zenon DEF pgctl_write
  <2>6. row.seq = current_seq + 1 BY Zenon DEF Stored
  <2>7. w.domain \in {"spec", "status"} /\ w.obj.rv \in Nat /\ w.obj \in Passed({0} \cup 1..call[i].seen)
        /\ (w.obj.rv = 0 => w.domain = "spec" /\ w.deleted = FALSE)
    <3>1. call[i].seen \in Nat BY <2>1, Zenon DEF PgTypeOK
    <3>2. \A x \in 1..call[i].seen : x \in Nat /\ x # 0 BY <3>1
    <3>3. CASE w \in Create(call[i])
      <4>1. w.domain = "spec" /\ w.obj \in Passed({0}) /\ w.deleted = FALSE BY <3>3, Zenon DEF Create
      <4>2. w.obj.rv = 0 BY <4>1, Zenon DEF Passed
      <4> QED BY <4>1, <4>2 DEF Passed
    <3>4. CASE w \in Update(call[i]) \cup UpdateStatus(call[i]) \cup Delete(call[i])
      <4>1. w.domain \in {"spec", "status"} /\ w.obj \in Passed(1..call[i].seen)
        BY <3>4, Zenon DEF Update, UpdateStatus, Delete
      <4>2. w.obj.rv \in 1..call[i].seen BY <4>1, Zenon DEF Passed
      <4> QED BY <3>2, <4>1, <4>2, Zenon DEF Passed
    <3> QED BY <3>3, <3>4, Zenon DEF Writes
  <2>8. rows[key] \in kubernetes_resource \cup {NoObject} BY <2>4, Zenon DEF PgTypeOK
  <2>9. IF w.obj.rv = 0 THEN rows[key] = NoObject ELSE rows[key] # NoObject /\ rows[key].obj.rv = w.obj.rv
    BY <2>3, Zenon DEF VersionMatches
  <2>10. w.obj.rv = Version(rows[key])
    BY <2>9, Zenon DEF Version
  <2>11. CASE w.domain = "spec"
    <3>1. row.obj = [w.obj EXCEPT !.rv = @ + 1,
                                  !.uid = IF rows[key] = NoObject THEN current_seq + 1 ELSE rows[key].obj.uid]
          /\ row.deleted = w.deleted
      BY <2>11, Zenon DEF Stored
    <3>2. row.obj.key = key /\ row.obj.rv = w.obj.rv + 1
      BY <2>7, <3>1, Zenon DEF Passed
    <3>3. rows[key] = NoObject => ~row.deleted BY <2>7, <2>9, <3>1, Zenon
    <3> QED BY <2>4, <2>5, <2>6, <2>10, <3>2, <3>3, Zenon DEF Written
  <2>12. CASE w.domain = "status"
    <3>1. rows[key] # NoObject /\ w.obj.rv # 0 BY <2>7, <2>9, <2>12, Zenon
    <3>2. rows[key].obj \in Object BY <2>8, <3>1, Zenon DEF kubernetes_resource
    <3>3. row.obj = [rows[key].obj EXCEPT !.status = w.obj.status, !.rv = @ + 1]
      BY <2>12, Zenon DEF Stored
    <3>4. row.obj.key = rows[key].obj.key /\ row.obj.rv = rows[key].obj.rv + 1
      BY <3>2, <3>3, Zenon DEF Object
    <3>5. rows[key].obj.key = key BY <2>4, <3>1, Zenon DEF RowsOK, RowOK
    <3> QED BY <2>4, <2>5, <2>6, <2>9, <2>10, <3>1, <3>4, <3>5, Zenon DEF Written
  <2> QED BY <2>7, <2>11, <2>12, Zenon
<1>2. CASE Compact
  <2>1. PICK n \in 1..current_seq :
          LET old == {key \in Keys : rows[key] # NoObject /\ rows[key].deleted /\ rows[key].seq <= n}
          IN  /\ \E key \in old : rows[key].seq = n
              /\ rows' = [key \in Keys |-> IF key \in old THEN NoObject ELSE rows[key]]
              /\ horizon' = n
              /\ UNCHANGED <<current_seq, now, leaseVars, call, faults, lastGrant>>
    BY <1>2, Zenon DEF Compact
  <2>2. \E key \in Keys : rows[key] # NoObject /\ rows[key].deleted /\ rows[key].seq = n
    BY <2>1, Zenon
  <2>3. rows' = [key \in Keys |->
                   IF rows[key] # NoObject /\ rows[key].deleted /\ rows[key].seq <= n THEN NoObject ELSE rows[key]]
    BY <2>1, Zenon
  <2> QED BY <2>1, <2>2, <2>3, Zenon DEF Compacted
<1>3. CASE UNCHANGED tables
  BY <1>3, Zenon
<1> QED
  BY <1>1, <1>2, <1>3, Zenon
     DEF PgNext, Leasing, Writing, acquireBothLeases, SetEpochs, GrantLost, renewBothLeases,
         RenewFails, releaseBothLeases, Tick, Call, Refuse, pgVars

LEMMA RowsStep ==
    ASSUME PgTypeOK, RowsOK, [PgNext]_pgVars
    PROVE  RowsOK'
<1>1. /\ current_seq \in Nat /\ horizon \in Nat /\ rows \in [Keys -> kubernetes_resource \cup {NoObject}]
      /\ \A row \in kubernetes_resource :
            row.obj \in Object /\ row.seq \in Nat /\ row.deleted \in BOOLEAN /\ row.obj.rv \in Nat
  BY RowParts, Zenon
<1>2. CASE UNCHANGED tables
  BY <1>2, Zenon DEF tables, RowsOK, RowOK
<1>3. ASSUME NEW key \in Keys, NEW row, Written(key, row) PROVE RowsOK'
  <2>h. horizon' <= current_seq'
    BY <1>1, <1>3 DEF Written, RowsOK
  <2>1. SUFFICES ASSUME NEW k \in Keys PROVE RowOK(k, rows'[k], current_seq', horizon')
    BY <2>h, Zenon DEF RowsOK, RowOK
  <2>2. RowOK(k, rows[k], current_seq, horizon) BY Zenon DEF RowsOK
  <2>3. /\ current_seq' = current_seq + 1 /\ horizon' = horizon /\ rows' = [rows EXCEPT ![key] = row]
        /\ row \in kubernetes_resource /\ row.seq = current_seq + 1
        /\ row.obj.key = key /\ row.obj.rv = Version(rows[key]) + 1
    BY <1>3, Zenon DEF Written
  <2>4. CASE k # key
    <3>1. rows'[k] = rows[k] BY <1>1, <2>3, <2>4, Zenon
    <3>2. CASE rows[k] = NoObject BY <3>1, <3>2, Zenon DEF RowOK
    <3>3. CASE rows[k] # NoObject
      <4>1. rows[k] \in kubernetes_resource BY <1>1, <3>3, Zenon
      <4> QED BY <1>1, <2>2, <2>3, <3>1, <3>3, <4>1 DEF RowOK
    <3> QED BY <3>2, <3>3, Zenon
  <2>5. CASE k = key
    <3>1. rows'[k] = row BY <1>1, <2>3, <2>5, Zenon
    <3>2. Version(rows[k]) \in Nat /\ Version(rows[k]) <= current_seq
      <4>1. CASE rows[k] = NoObject BY <1>1, <4>1 DEF Version
      <4>2. CASE rows[k] # NoObject
        <5>1. rows[k] \in kubernetes_resource BY <1>1, <4>2, Zenon
        <5> QED BY <1>1, <2>2, <4>2, <5>1 DEF Version, RowOK
      <4> QED BY <4>1, <4>2, Zenon
    <3>4. row.seq > horizon
      <4>1. horizon <= current_seq BY Zenon DEF RowsOK
      <4> QED BY <1>1, <2>3, <4>1
    <3> QED BY <1>1, <2>3, <2>5, <3>1, <3>2, <3>4 DEF RowOK
  <2> QED BY <2>4, <2>5, Zenon
<1>4. ASSUME NEW n \in 1..current_seq, Compacted(n) PROVE RowsOK'
  <2>h. horizon' <= current_seq'
    BY <1>1, <1>4 DEF Compacted
  <2>1. SUFFICES ASSUME NEW k \in Keys PROVE RowOK(k, rows'[k], current_seq', horizon')
    BY <2>h, Zenon DEF RowsOK, RowOK
  <2>2. RowOK(k, rows[k], current_seq, horizon) BY Zenon DEF RowsOK
  <2>3. /\ current_seq' = current_seq /\ horizon' = n
        /\ rows'[k] = IF rows[k] # NoObject /\ rows[k].deleted /\ rows[k].seq <= n THEN NoObject ELSE rows[k]
    BY <1>4, Zenon DEF Compacted
  <2>4. CASE rows[k] = NoObject BY <2>3, <2>4, Zenon DEF RowOK
  <2>5. CASE rows[k] # NoObject
    <3>1. rows[k].seq \in Nat BY <1>1, <2>5, Zenon
    <3> QED BY <2>2, <2>3, <2>5, <3>1 DEF RowOK
  <2> QED BY <2>4, <2>5, Zenon
<1> QED BY <1>2, <1>3, <1>4, PgChanges, Zenon
-----------------------------------------------------------------------------
(***************************************************************************)
(* Where the watch loop stands.  The events waiting in q were sent for     *)
(* rows with the sequence numbers S; v is what the cache c becomes as they *)
(* are handled one by one.                                                 *)
(***************************************************************************)
CachedObjects == [Keys -> Object \cup {NoObject}]
Rows == [Keys -> kubernetes_resource \cup {NoObject}]

Sent(S, q, from, pos) ==
    /\ S \in [1..Len(q) -> Nat]
    /\ \A n \in 1..Len(q) : from < S[n] /\ S[n] <= pos /\ 1 <= q[n].obj.rv /\ q[n].obj.rv <= S[n]
    /\ \A m, n \in 1..Len(q) : m < n => S[m] < S[n]

Leaves(event) == IF event.type = "DELETED" THEN NoObject ELSE event.obj

ViewStep(x, event, y) ==
    LET old == x[event.obj.key]
    IN  /\ y = [x EXCEPT ![event.obj.key] = Leaves(event)]
        /\ event.type # "DELETED" => old = NoObject \/ old.rv < event.obj.rv \/ old = event.obj

Views(v, c, q) ==
    /\ v \in [0..Len(q) -> CachedObjects]
    /\ v[0] = c
    /\ \A n \in 1..Len(q) : ViewStep(v[n - 1], q[n], v[n])

(* An object known as u is the row's, or the row is past the position.     *)
UpToDate(u, row, pos) ==
    IF u = NoObject THEN row = NoObject \/ row.deleted \/ row.seq > pos
    ELSE /\ row # NoObject
         /\ \/ u = row.obj /\ ~row.deleted
            \/ u.rv < row.obj.rv /\ row.seq > pos

(* The last event of a key is the row's own, unless the row is past the    *)
(* position, or was a tombstone compacted since.                           *)
LastSent(S, q, rr, pos, past) ==
    \A n \in 1..Len(q) : (\A m \in 1..Len(q) : m > n => q[m].obj.key # q[n].obj.key) =>
        LET row == rr[q[n].obj.key]
        IN  /\ row = NoObject => S[n] <= past
            /\ row # NoObject /\ row.seq <= pos => S[n] = row.seq

Tracked(S, v, c, q, rr, pos, past) ==
    /\ Views(v, c, q)
    /\ \A key \in Keys : UpToDate(v[Len(q)][key], rr[key], pos)
    /\ LastSent(S, q, rr, pos, past)

(* The position was compacted: the poll will say so, and nothing else can  *)
(* be said of the cache.                                                   *)
Missed(pos, past) == 0 < pos /\ pos < past

Following(c, q, rr, from, pos, past) ==
    \E S : Sent(S, q, from, pos) /\ (Missed(pos, past) \/ \E v : Tracked(S, v, c, q, rr, pos, past))

LEMMA RowFields ==
    /\ NoObject \notin kubernetes_resource /\ NoObject \notin Object
    /\ \A row \in kubernetes_resource :
          row.obj \in Object /\ row.seq \in Nat /\ row.obj.rv \in Nat /\ row.obj.key \in Keys
    /\ \A obj \in Object : obj.rv \in Nat /\ obj.key \in Keys
<1>1. NoObject \notin kubernetes_resource
  BY PostgresAssumption, Zenon
<1>2. NoObject \notin Object
  BY NoObjectAssumption, Zenon DEF Object
<1>3. \A row \in kubernetes_resource : row.obj \in Object /\ row.seq \in Nat
  BY Zenon DEF kubernetes_resource
<1> QED BY <1>1, <1>2, <1>3, ObjectFields, Zenon

LEMMA EventFields ==
    ASSUME NEW q \in Seq(Event), NEW n \in 1..Len(q)
    PROVE  q[n] \in Event /\ q[n].obj \in Object /\ q[n].obj.key \in Keys /\ q[n].obj.rv \in Nat
<1>1. q[n] \in Event BY ElementOfSeq, Zenon
<1>2. q[n].obj \in Object BY <1>1, Zenon DEF Event
<1> QED BY <1>1, <1>2, RowFields, Zenon

(* A write puts its row past the position.                                 *)
LEMMA FollowWrite ==
    ASSUME NEW c, NEW q \in Seq(Event), NEW rr \in Rows, NEW from, NEW pos \in Nat, NEW past,
           Following(c, q, rr, from, pos, past),
           NEW key \in Keys, NEW row \in kubernetes_resource, row.seq > pos, row.obj.rv = Version(rr[key]) + 1
    PROVE  Following(c, q, [rr EXCEPT ![key] = row], from, pos, past)
<1> DEFINE r2 == [rr EXCEPT ![key] = row]
<1>1. PICK S : Sent(S, q, from, pos) /\ (Missed(pos, past) \/ \E v : Tracked(S, v, c, q, rr, pos, past))
  BY Zenon DEF Following
<1>2. CASE Missed(pos, past)
  BY <1>1, <1>2, Zenon DEF Following
<1>3. CASE ~Missed(pos, past)
  <2>1. PICK v : Tracked(S, v, c, q, rr, pos, past) BY <1>1, <1>3, Zenon
  <2>2. Len(q) \in Nat BY LenProperties, Zenon
  <2>3. r2[key] = row /\ \A k \in Keys \ {key} : r2[k] = rr[k] BY Zenon DEF Rows
  <2> HIDE DEF r2
  <2>4. row # NoObject /\ row.seq \in Nat /\ ~(row.seq <= pos) BY RowFields
  <2>5. v[Len(q)] \in CachedObjects /\ \A k \in Keys : UpToDate(v[Len(q)][k], rr[k], pos)
    <3>1. Len(q) \in 0..Len(q) BY <2>2
    <3> QED BY <2>1, <3>1, Zenon DEF Tracked, Views
  <2>6. UpToDate(v[Len(q)][key], row, pos)
    <3> DEFINE u == v[Len(q)][key]
    <3>1. u \in Object \cup {NoObject} /\ UpToDate(u, rr[key], pos) BY <2>5, Zenon DEF CachedObjects
    <3> SUFFICES UpToDate(u, row, pos) BY Zenon DEF u
    <3> HIDE DEF u
    <3>2. CASE u = NoObject BY <3>2, Zenon DEF UpToDate
    <3>3. CASE u # NoObject
      <4>1. /\ rr[key] # NoObject /\ rr[key] \in kubernetes_resource
            /\ (u = rr[key].obj \/ u.rv < rr[key].obj.rv)
        BY <3>1, <3>3, Zenon DEF UpToDate, Rows
      <4>2. u.rv \in Nat /\ rr[key].obj.rv \in Nat /\ row.obj.rv = rr[key].obj.rv + 1
        BY <3>1, <3>3, <4>1, RowFields, Zenon DEF Version
      <4>3. u.rv < row.obj.rv BY <4>1, <4>2
      <4> QED BY <2>4, <3>3, <4>3, Zenon DEF UpToDate
    <3> QED BY <3>2, <3>3, Zenon
  <2>7. \A k \in Keys : UpToDate(v[Len(q)][k], r2[k], pos)
    <3> TAKE k \in Keys
    <3>1. CASE k = key BY <2>3, <2>6, <3>1, Zenon
    <3>2. CASE k # key BY <2>3, <2>5, <3>2, Zenon
    <3> QED BY <3>1, <3>2, Zenon
  <2>8. LastSent(S, q, r2, pos, past)
    <3> SUFFICES ASSUME NEW n \in 1..Len(q), \A m \in 1..Len(q) : m > n => q[m].obj.key # q[n].obj.key
                 PROVE  /\ r2[q[n].obj.key] = NoObject => S[n] <= past
                        /\ r2[q[n].obj.key] # NoObject /\ r2[q[n].obj.key].seq <= pos => S[n] = r2[q[n].obj.key].seq
      BY Zenon DEF LastSent
    <3>1. q[n] \in Event /\ q[n].obj.key \in Keys BY EventFields, Zenon
    <3>2. CASE q[n].obj.key = key BY <2>3, <2>4, <3>2, Zenon
    <3>3. CASE q[n].obj.key # key
      <4>1. r2[q[n].obj.key] = rr[q[n].obj.key] BY <2>3, <3>1, <3>3, Zenon
      <4>2. LastSent(S, q, rr, pos, past) BY <2>1, Zenon DEF Tracked
      <4> QED BY <4>1, <4>2, Zenon DEF LastSent
    <3> QED BY <3>2, <3>3, Zenon
  <2>9. Tracked(S, v, c, q, r2, pos, past) BY <2>1, <2>7, <2>8, Zenon DEF Tracked
  <2>10. Following(c, q, r2, from, pos, past) BY <1>1, <2>9, Zenon DEF Following
  <2> QED BY <2>10, Zenon DEF r2
<1> QED BY <1>2, <1>3, Zenon

(* With nothing sent or received the cache is empty.                       *)
LEMMA SentNothing ==
    ASSUME NEW S, NEW q \in Seq(Event), NEW from \in Nat, Sent(S, q, from, from)
    PROVE  Len(q) = 0
<1>1. Len(q) \in Nat BY LenProperties, Zenon
<1>2. ASSUME Len(q) # 0 PROVE FALSE
  <2>1. 1 \in 1..Len(q) BY <1>1, <1>2
  <2>2. S[1] \in Nat /\ from < S[1] /\ S[1] <= from BY <2>1, Zenon DEF Sent
  <2> QED BY <2>2
<1> QED BY <1>2, Zenon

(* A compaction removes tombstones the cache has seen, or the position is  *)
(* compacted with them.                                                    *)
LEMMA FollowCompact ==
    ASSUME NEW c, NEW q \in Seq(Event), NEW rr \in Rows, NEW from \in Nat, NEW pos \in Nat, NEW past \in Nat,
           Following(c, q, rr, from, pos, past), from <= pos, from = 0 => c = NoObjects,
           NEW n \in Nat, past <= n
    PROVE  Following(c, q, [key \in Keys |-> IF rr[key] # NoObject /\ rr[key].deleted /\ rr[key].seq <= n
                                             THEN NoObject ELSE rr[key]], from, pos, n)
<1> DEFINE old(key) == rr[key] # NoObject /\ rr[key].deleted /\ rr[key].seq <= n
           r2 == [key \in Keys |-> IF old(key) THEN NoObject ELSE rr[key]]
<1>0. \A key \in Keys : r2[key] = IF old(key) THEN NoObject ELSE rr[key] BY Zenon
<1> SUFFICES Following(c, q, r2, from, pos, n) BY Zenon
<1> HIDE DEF r2
<1>1. PICK S : Sent(S, q, from, pos) /\ (Missed(pos, past) \/ \E v : Tracked(S, v, c, q, rr, pos, past))
  BY Zenon DEF Following
<1>2. CASE Missed(pos, n)
  BY <1>1, <1>2, Zenon DEF Following
<1>3. CASE ~Missed(pos, n)
  <2>1. ~Missed(pos, past) BY <1>3 DEF Missed
  <2>2. PICK v : Tracked(S, v, c, q, rr, pos, past) BY <1>1, <2>1, Zenon
  <2>3. pos = 0 \/ n <= pos BY <1>3 DEF Missed
  <2>4. Len(q) \in Nat /\ Len(q) \in 0..Len(q) BY LenProperties
  <2>5. \A key \in Keys : rr[key] \in kubernetes_resource \cup {NoObject} BY Zenon DEF Rows
  <2>6. \A key \in Keys : UpToDate(v[Len(q)][key], r2[key], pos)
    <3> TAKE key \in Keys
    <3> DEFINE u == v[Len(q)][key]
    <3>1. UpToDate(u, rr[key], pos) BY <2>2, Zenon DEF Tracked
    <3>2. ASSUME pos = 0 PROVE u = NoObject
      <4>1. from = 0 BY <3>2
      <4>2. Sent(S, q, from, from) BY <1>1, <3>2, <4>1, Zenon
      <4>3. Len(q) = 0 BY <4>2, SentNothing, Zenon
      <4>4. v[0] = NoObjects BY <2>2, <4>1, Zenon DEF Tracked, Views
      <4> QED BY <4>3, <4>4, Zenon DEF NoObjects
    <3> SUFFICES UpToDate(u, r2[key], pos) BY Zenon
    <3> HIDE DEF u
    <3>3. CASE ~old(key) BY <1>0, <3>1, <3>3, Zenon
    <3>4. CASE old(key)
      <4>1. r2[key] = NoObject BY <1>0, <3>4, Zenon
      <4>2. u = NoObject
        <5>1. CASE pos = 0 BY <3>2, <5>1, Zenon
        <5>2. CASE n <= pos
          <6>1. rr[key].seq \in Nat BY <2>5, <3>4, RowFields, Zenon
          <6>2. ~(rr[key].seq > pos) BY <3>4, <5>2, <6>1
          <6> QED BY <3>1, <3>4, <6>2, Zenon DEF UpToDate
        <5> QED BY <2>3, <5>1, <5>2, Zenon
      <4> QED BY <4>1, <4>2, Zenon DEF UpToDate
    <3> QED BY <3>3, <3>4, Zenon
  <2>7. LastSent(S, q, r2, pos, n)
    <3> SUFFICES ASSUME NEW i \in 1..Len(q), \A m \in 1..Len(q) : m > i => q[m].obj.key # q[i].obj.key
                 PROVE  /\ r2[q[i].obj.key] = NoObject => S[i] <= n
                        /\ r2[q[i].obj.key] # NoObject /\ r2[q[i].obj.key].seq <= pos => S[i] = r2[q[i].obj.key].seq
      BY Zenon DEF LastSent
    <3> DEFINE key == q[i].obj.key
    <3>1. key \in Keys BY EventFields, Zenon
    <3>2. /\ rr[key] = NoObject => S[i] <= past
          /\ rr[key] # NoObject /\ rr[key].seq <= pos => S[i] = rr[key].seq
      BY <2>2, Zenon DEF Tracked, LastSent
    <3>3. S[i] \in Nat /\ from < S[i] /\ S[i] <= pos BY <1>1, Zenon DEF Sent
    <3> HIDE DEF key
    <3>4. CASE old(key)
      <4>1. r2[key] = NoObject BY <1>0, <3>1, <3>4, Zenon
      <4>2. rr[key].seq \in Nat BY <2>5, <3>1, <3>4, RowFields, Zenon
      <4>3. pos # 0 BY <3>3
      <4>4. S[i] <= n BY <2>3, <3>2, <3>4, <4>2, <4>3
      <4> QED BY <4>1, <4>4, Zenon DEF key
    <3>5. CASE ~old(key)
      <4>1. r2[key] = rr[key] BY <1>0, <3>1, <3>5, Zenon
      <4>2. rr[key] = NoObject => S[i] <= n BY <3>2, <3>3
      <4> QED BY <3>2, <4>1, <4>2, Zenon DEF key
    <3> QED BY <3>4, <3>5, Zenon
  <2>8. Tracked(S, v, c, q, r2, pos, n) BY <2>2, <2>6, <2>7, Zenon DEF Tracked
  <2> QED BY <1>1, <2>8, Zenon DEF Following
<1> QED BY <1>2, <1>3, Zenon

(* A list leaves the cache equal to the live rows.                         *)
LEMMA FollowList ==
    ASSUME NEW c \in CachedObjects, NEW rr \in Rows, NEW from, NEW pos, NEW past,
           \A key \in Keys : UpToDate(c[key], rr[key], pos)
    PROVE  Following(c, <<>>, rr, from, pos, past)
<1> DEFINE S == [n \in 1..0 |-> 0]
           v == [n \in 0..0 |-> c]
<1>1. Len(<<>>) = 0 /\ \A n : n \notin 1..0 OBVIOUS
<1>2. S \in [1..0 -> Nat] BY Zenon
<1>3. v \in [0..0 -> CachedObjects] /\ v[0] = c OBVIOUS
<1> HIDE DEF S, v
<1>4. Sent(S, <<>>, from, pos) BY <1>1, <1>2, Zenon DEF Sent
<1>5. Views(v, c, <<>>) BY <1>1, <1>3, Zenon DEF Views
<1>6. LastSent(S, <<>>, rr, pos, past) BY <1>1, Zenon DEF LastSent
<1>7. Tracked(S, v, c, <<>>, rr, pos, past) BY <1>1, <1>3, <1>5, <1>6, Zenon DEF Tracked
<1> QED BY <1>4, <1>7, Zenon DEF Following

(* The next watch starts from the version received last.                   *)
LEMMA FollowBack ==
    ASSUME NEW c \in CachedObjects, NEW rr \in Rows, NEW from \in Nat, NEW pos \in Nat, NEW past \in Nat,
           Following(c, <<>>, rr, from, pos, past), from <= pos, from = 0 => c = NoObjects,
           \A key \in Keys : rr[key] # NoObject => rr[key].seq > 0
    PROVE  Following(c, <<>>, rr, from, from, past)
<1>1. Len(<<>>) = 0 /\ <<>> \in Seq(Event) OBVIOUS
<1>2. PICK S : Sent(S, <<>>, from, pos) /\ (Missed(pos, past) \/ \E v : Tracked(S, v, c, <<>>, rr, pos, past))
  BY Zenon DEF Following
<1>3. Sent(S, <<>>, from, from)
  <2>1. \A n : n \notin 1..0 OBVIOUS
  <2> QED BY <1>1, <1>2, <2>1, Zenon DEF Sent
<1>4. \A key \in Keys : rr[key] # NoObject => rr[key].seq \in Nat /\ rr[key].obj.rv \in Nat
  BY RowFields, Zenon DEF Rows
<1>5. CASE Missed(from, past) BY <1>3, <1>5, Zenon DEF Following
<1>6. CASE from = 0
  <2>1. \A key \in Keys : UpToDate(c[key], rr[key], from)
    <3> TAKE key \in Keys
    <3>1. c[key] = NoObject BY <1>6, Zenon DEF NoObjects
    <3>2. rr[key] # NoObject => rr[key].seq > from BY <1>6, Zenon
    <3> QED BY <3>1, <3>2, Zenon DEF UpToDate
  <2> QED BY <2>1, FollowList, Zenon
<1>7. CASE from # 0 /\ ~Missed(from, past)
  <2>1. ~Missed(pos, past) BY <1>7 DEF Missed
  <2>2. PICK v : Tracked(S, v, c, <<>>, rr, pos, past) BY <1>2, <2>1, Zenon
  <2>3. \A key \in Keys : UpToDate(c[key], rr[key], from)
    <3> TAKE key \in Keys
    <3>1. UpToDate(c[key], rr[key], pos) BY <1>1, <2>2, Zenon DEF Tracked, Views
    <3>2. rr[key] # NoObject /\ rr[key].seq > pos => rr[key].seq > from BY <1>4
    <3> QED BY <3>1, <3>2, Zenon DEF UpToDate
  <2> QED BY <2>3, FollowList, Zenon
<1> QED BY <1>5, <1>6, <1>7, Zenon

(***************************************************************************)
(* An informer for all objects of the kind: the theorem is about what it   *)
(* caches, and with selectors that is not the live rows.                   *)
(***************************************************************************)
PlainInformer == Selector = {} /\ AllowedKeys = Keys /\ Rejected = {}

LEMMA DispatchPlain ==
    ASSUME PlainInformer, NEW c \in CachedObjects, NEW event \in Event, NEW y, ViewStep(c, event, y)
    PROVE  Dispatch(c, event).objects = y
<1> DEFINE obj == event.obj
           key == obj.key
           old == c[key]
<1>1. event.type \in {"ADDED", "MODIFIED", "DELETED"} /\ obj \in Object BY Zenon DEF Event
<1>2. key \in Keys /\ obj.rv \in Nat BY <1>1, RowFields, Zenon
<1>3. matchesSelectors(obj) /\ Transformable(obj) BY <1>2, Zenon DEF PlainInformer, matchesSelectors, Transformable
<1>4. old \in Object \cup {NoObject} BY <1>2, Zenon DEF CachedObjects
<1>5. y = [c EXCEPT ![key] = Leaves(event)] BY Zenon DEF ViewStep
<1>6. old = Leaves(event) => y = c BY <1>2, <1>5, Zenon DEF CachedObjects
<1>7. CASE event.type = "DELETED"
  <2>1. Dispatch(c, event) = delete(c, obj) BY <1>7, Zenon DEF Dispatch
  <2>2. Leaves(event) = NoObject BY <1>7, Zenon DEF Leaves
  <2>3. CASE old = NoObject
    <3>1. delete(c, obj) = Effect(c, NoEvents) BY <2>3, Zenon DEF delete
    <3>2. y = c BY <1>6, <2>2, <2>3, Zenon
    <3> QED BY <2>1, <3>1, <3>2 DEF Effect
  <2>4. CASE old # NoObject
    <3>1. delete(c, obj).objects = [c EXCEPT ![key] = NoObject] BY <2>4, Zenon DEF delete, Effect
    <3> QED BY <1>5, <2>1, <2>2, <3>1, Zenon
  <2> QED BY <2>3, <2>4, Zenon
<1>8. CASE event.type # "DELETED"
  <2>1. Leaves(event) = obj BY <1>8, Zenon DEF Leaves
  <2>2. old = NoObject \/ old.rv < obj.rv \/ old = obj BY <1>8, Zenon DEF ViewStep
  <2>3. Fresh(obj, old) \/ old = obj
    <3>1. CASE old = NoObject BY <3>1, Zenon DEF Fresh
    <3>2. CASE old # NoObject
      <4>1. old.rv \in Nat BY <1>4, <3>2, RowFields, Zenon
      <4> QED BY <1>2, <2>2, <3>2, <4>1, Zenon DEF Fresh
    <3> QED BY <3>1, <3>2, Zenon
  <2>4. Dispatch(c, event) = add(c, obj) \/ Dispatch(c, event) = update(c, obj) BY <1>1, <1>8, Zenon DEF Dispatch
  <2>5. CASE Fresh(obj, old)
    <3>1. add(c, obj).objects = [c EXCEPT ![key] = obj] BY <1>3, <2>5, Zenon DEF add, Effect
    <3>2. update(c, obj).objects = [c EXCEPT ![key] = obj] BY <1>3, <2>5, Zenon DEF update, Effect
    <3> QED BY <1>5, <2>1, <2>4, <3>1, <3>2, Zenon
  <2>6. CASE ~Fresh(obj, old)
    <3>1. add(c, obj) = Effect(c, NoEvents) /\ update(c, obj) = Effect(c, NoEvents) BY <2>6, Zenon DEF add, update
    <3>2. y = c BY <1>6, <2>1, <2>3, <2>6, Zenon
    <3> QED BY <2>4, <3>1, <3>2 DEF Effect
  <2> QED BY <2>5, <2>6, Zenon
<1> QED BY <1>7, <1>8, Zenon

LEMMA DispatchTyped ==
    ASSUME NEW c \in CachedObjects, NEW event \in Event
    PROVE  Dispatch(c, event).objects \in CachedObjects
<1>1. event.type \in {"ADDED", "MODIFIED", "DELETED"} /\ event.obj \in Object BY Zenon DEF Event
<1>2. event.obj.key \in Keys BY <1>1, RowFields, Zenon
<1>3. \A x \in Object \cup {NoObject} : [c EXCEPT ![event.obj.key] = x] \in CachedObjects
  BY <1>2, Zenon DEF CachedObjects
<1>4. add(c, event.obj).objects \in CachedObjects BY <1>1, <1>3, Zenon DEF add, Effect
<1>5. update(c, event.obj).objects \in CachedObjects BY <1>1, <1>3, Zenon DEF update, Effect
<1>6. delete(c, event.obj).objects \in CachedObjects BY <1>3, Zenon DEF delete, Effect
<1> QED BY <1>1, <1>4, <1>5, <1>6, Zenon DEF Dispatch

(* Handling the first event takes the cache to the next view, and the      *)
(* version to resume from no further than that event's row.                *)
LEMMA FollowEvent ==
    ASSUME PlainInformer, NEW c \in CachedObjects, NEW q \in Seq(Event), q # <<>>, NEW rr, NEW from \in Nat,
           NEW pos \in Nat, NEW past, Following(c, q, rr, from, pos, past),
           NEW to \in Nat, to = from \/ to = Head(q).obj.rv
    PROVE  /\ Following(Dispatch(c, Head(q)).objects, Tail(q), rr, to, pos, past)
           /\ to <= pos /\ 1 <= Head(q).obj.rv
<1> DEFINE c2 == Dispatch(c, Head(q)).objects
           t == Tail(q)
<1>1. /\ t \in Seq(Event) /\ Len(q) \in Nat /\ Len(t) = Len(q) - 1 /\ 1 <= Len(q) /\ Head(q) = q[1]
      /\ \A n \in 1..Len(t) : t[n] = q[n + 1] /\ n + 1 \in 1..Len(q)
  BY HeadTailProperties, LenProperties, EmptySeq
<1>2. PICK S : Sent(S, q, from, pos) /\ (Missed(pos, past) \/ \E v : Tracked(S, v, c, q, rr, pos, past))
  BY Zenon DEF Following
<1> DEFINE S2 == [n \in 1..Len(t) |-> S[n + 1]]
<1>3. 1 \in 1..Len(q) /\ S[1] \in Nat /\ from < S[1] /\ S[1] <= pos /\ 1 <= q[1].obj.rv /\ q[1].obj.rv <= S[1]
  BY <1>1, <1>2 DEF Sent
<1>4. to <= S[1] /\ to <= pos /\ 1 <= Head(q).obj.rv BY <1>1, <1>3, EventFields
<1>5. \A n \in 1..Len(t) : S2[n] = S[n + 1] BY Zenon
<1>6. Sent(S2, t, to, pos)
  <2>1. S2 \in [1..Len(t) -> Nat] BY <1>1, <1>2, Zenon DEF Sent
  <2> HIDE DEF S2
  <2>2. ASSUME NEW n \in 1..Len(t) PROVE to < S2[n] /\ S2[n] <= pos /\ 1 <= t[n].obj.rv /\ t[n].obj.rv <= S2[n]
    <3>1. n + 1 \in 1..Len(q) /\ 1 < n + 1 /\ t[n] = q[n + 1] BY <1>1
    <3>2. S[n + 1] \in Nat /\ S[1] < S[n + 1] /\ S[n + 1] <= pos
          /\ 1 <= q[n + 1].obj.rv /\ q[n + 1].obj.rv <= S[n + 1]
      BY <1>2, <1>3, <3>1, Zenon DEF Sent
    <3> QED BY <1>3, <1>4, <1>5, <3>1, <3>2
  <2>3. ASSUME NEW m \in 1..Len(t), NEW n \in 1..Len(t), m < n PROVE S2[m] < S2[n]
    <3>1. m + 1 \in 1..Len(q) /\ n + 1 \in 1..Len(q) /\ m + 1 < n + 1 BY <1>1, <2>3
    <3> QED BY <1>2, <1>5, <3>1, Zenon DEF Sent
  <2> QED BY <2>1, <2>2, <2>3, Zenon DEF Sent
<1>7. CASE Missed(pos, past) BY <1>4, <1>6, <1>7, Zenon DEF Following
<1>8. CASE ~Missed(pos, past)
  <2>1. PICK v : Tracked(S, v, c, q, rr, pos, past) BY <1>2, <1>8, Zenon
  <2>2. Views(v, c, q) /\ LastSent(S, q, rr, pos, past) BY <2>1, Zenon DEF Tracked
  <2> DEFINE v2 == [n \in 0..Len(t) |-> v[n + 1]]
  <2>3. \A n \in 0..Len(t) : n + 1 \in 0..Len(q) /\ v2[n] = v[n + 1] BY <1>1
  <2>4. v2 \in [0..Len(t) -> CachedObjects] BY <2>2, <2>3, Zenon DEF Views
  <2> HIDE DEF v2
  <2>5. v2[0] = c2
    <3>0. 1 - 1 = 0 OBVIOUS
    <3>1. v[1 - 1] = c /\ ViewStep(v[1 - 1], q[1], v[1]) BY <1>3, <2>2, <3>0, Zenon DEF Views
    <3>2. q[1] \in Event BY <1>3, EventFields, Zenon
    <3>3. Dispatch(c, q[1]).objects = v[1] BY <3>1, <3>2, DispatchPlain, Zenon
    <3>4. v2[0] = v[1] BY <1>1, <2>3
    <3> QED BY <1>1, <3>3, <3>4, Zenon
  <2>6. ASSUME NEW n \in 1..Len(t) PROVE ViewStep(v2[n - 1], t[n], v2[n])
    <3>1. n + 1 \in 1..Len(q) /\ t[n] = q[n + 1] /\ v2[n] = v[n + 1] BY <1>1, <2>3
    <3>2. n - 1 \in 0..Len(t) /\ (n - 1) + 1 = (n + 1) - 1 BY <1>1
    <3>3. v2[n - 1] = v[(n + 1) - 1] BY <2>3, <3>2, Zenon
    <3>4. ViewStep(v[(n + 1) - 1], q[n + 1], v[n + 1]) BY <2>2, <3>1, Zenon DEF Views
    <3> QED BY <3>1, <3>3, <3>4, Zenon
  <2>7. Views(v2, c2, t) BY <2>4, <2>5, <2>6, Zenon DEF Views
  <2>8. v2[Len(t)] = v[Len(q)]
    <3>1. Len(t) \in 0..Len(t) /\ Len(t) + 1 = Len(q) BY <1>1
    <3> QED BY <2>3, <3>1, Zenon
  <2>9. LastSent(S2, t, rr, pos, past)
    <3> SUFFICES ASSUME NEW i \in 1..Len(t), \A m \in 1..Len(t) : m > i => t[m].obj.key # t[i].obj.key
                 PROVE  /\ rr[t[i].obj.key] = NoObject => S2[i] <= past
                        /\ rr[t[i].obj.key] # NoObject /\ rr[t[i].obj.key].seq <= pos => S2[i] = rr[t[i].obj.key].seq
      BY Zenon DEF LastSent
    <3>1. i + 1 \in 1..Len(q) /\ t[i] = q[i + 1] /\ S2[i] = S[i + 1] BY <1>1, <1>5, Zenon
    <3>2. ASSUME NEW m \in 1..Len(q), m > i + 1 PROVE q[m].obj.key # q[i + 1].obj.key
      <4>1. m - 1 \in 1..Len(t) /\ m - 1 > i /\ (m - 1) + 1 = m BY <1>1, <3>2
      <4>2. t[m - 1] = q[(m - 1) + 1] BY <1>1, <4>1, Zenon
      <4>3. t[m - 1] = q[m] BY <4>1, <4>2, Zenon
      <4> QED BY <3>1, <4>1, <4>3, Zenon
    <3> HIDE DEF S2, t
    <3> QED BY <2>2, <3>1, <3>2, Zenon DEF LastSent
  <2>10. Tracked(S2, v2, c2, t, rr, pos, past) BY <2>1, <2>7, <2>8, <2>9, Zenon DEF Tracked
  <2> HIDE DEF S2, c2
  <2>11. Following(c2, t, rr, to, pos, past) BY <1>6, <2>10, Zenon DEF Following
  <2> QED BY <1>4, <2>11, Zenon DEF c2
<1> QED BY <1>7, <1>8, Zenon

LEMMA ExceptIs ==
    ASSUME NEW x, NEW y, NEW key, NEW u, x = [k \in Keys |-> x[k]], y = [k \in Keys |-> y[k]],
           y[key] = u, \A k \in Keys \ {key} : y[k] = x[k]
    PROVE  y = [x EXCEPT ![key] = u]
BY Zenon

LEMMA Appended ==
    ASSUME NEW q \in Seq(Event), NEW sent \in Seq(Event)
    PROVE  /\ q \o sent \in Seq(Event) /\ Len(q) \in Nat /\ Len(q \o sent) = Len(q) + Len(sent)
           /\ \A i \in 1..Len(q) : (q \o sent)[i] = q[i]
           /\ \A j \in 1..Len(sent) : (q \o sent)[Len(q) + j] = sent[j]
<1> DEFINE L == Len(q)
           n == Len(sent)
           qq == q \o sent
<1>1. /\ qq \in Seq(Event) /\ L \in Nat /\ n \in Nat /\ Len(qq) = L + n
      /\ \A i \in 1..(L + n) : qq[i] = IF i <= L THEN q[i] ELSE sent[i - L]
  BY ConcatProperties, LenProperties, Zenon
<1> HIDE DEF qq, L, n
<1>2. ASSUME NEW i \in 1..L PROVE qq[i] = q[i]
  <2>1. i \in 1..(L + n) /\ i <= L BY <1>1
  <2> QED BY <1>1, <2>1, Zenon
<1>3. ASSUME NEW j \in 1..n PROVE qq[L + j] = sent[j]
  <2>1. L + j \in 1..(L + n) /\ ~(L + j <= L) /\ (L + j) - L = j BY <1>1
  <2> QED BY <1>1, <2>1, Zenon
<1> QED BY <1>1, <1>2, <1>3, Zenon DEF qq, L, n

(* The rows past the position, in the order of their sequence numbers.     *)
Polled(rr, pos, n, inOrder, sent) ==
    /\ inOrder \in [1..n -> {key \in Keys : rr[key] # NoObject /\ rr[key].seq > pos}]
    /\ \A key \in Keys : rr[key] # NoObject /\ rr[key].seq > pos => \E i \in 1..n : inOrder[i] = key
    /\ \A i, j \in 1..n : i < j => rr[inOrder[i]].seq < rr[inOrder[j]].seq
    /\ Len(sent) = n
    /\ \A i \in 1..n : sent[i].obj = rr[inOrder[i]].obj /\ (sent[i].type = "DELETED" <=> rr[inOrder[i]].deleted)

(* A poll sends the rows past the position, so that after its events the   *)
(* cache has the live rows.                                                *)
LEMMA FollowPoll ==
    ASSUME NEW c, NEW q \in Seq(Event), NEW rr \in Rows, NEW from \in Nat, NEW pos \in Nat, NEW past \in Nat,
           Following(c, q, rr, from, pos, past), ~Missed(pos, past), from <= pos,
           \A key \in Keys : rr[key] # NoObject =>
               rr[key].obj.key = key /\ 1 <= rr[key].obj.rv /\ rr[key].obj.rv <= rr[key].seq,
           NEW n \in Nat \ {0}, NEW inOrder, NEW sent \in Seq(Event), Polled(rr, pos, n, inOrder, sent)
    PROVE  /\ q \o sent \in Seq(Event)
           /\ Following(c, q \o sent, rr, from, rr[inOrder[n]].seq, past)
           /\ pos < rr[inOrder[n]].seq
<1>0. /\ inOrder \in [1..n -> {key \in Keys : rr[key] # NoObject /\ rr[key].seq > pos}]
      /\ \A key \in Keys : rr[key] # NoObject /\ rr[key].seq > pos => \E i \in 1..n : inOrder[i] = key
      /\ \A i, j \in 1..n : i < j => rr[inOrder[i]].seq < rr[inOrder[j]].seq
      /\ Len(sent) = n
      /\ \A i \in 1..n : sent[i].obj = rr[inOrder[i]].obj /\ (sent[i].type = "DELETED" <=> rr[inOrder[i]].deleted)
  BY Zenon DEF Polled
<1> DEFINE L == Len(q)
           qq == q \o sent
           seq(i) == rr[inOrder[i]].seq
           to == rr[inOrder[n]].seq
<1>1. /\ qq \in Seq(Event) /\ L \in Nat /\ Len(qq) = L + n
      /\ \A i \in 1..L : qq[i] = q[i]
      /\ \A j \in 1..n : qq[L + j] = sent[j]
  BY <1>0, Appended, ZenonT(30)
<1>2. n \in 1..n /\ 1 \in 1..n OBVIOUS
<1>3. \A i \in 1..n : /\ inOrder[i] \in Keys /\ rr[inOrder[i]] # NoObject
                      /\ rr[inOrder[i]] \in kubernetes_resource
                      /\ seq(i) \in Nat /\ seq(i) > pos
                      /\ sent[i].obj.key = inOrder[i] /\ 1 <= sent[i].obj.rv /\ sent[i].obj.rv <= seq(i)
  <2> TAKE i \in 1..n
  <2>1. inOrder[i] \in Keys /\ rr[inOrder[i]] # NoObject /\ seq(i) > pos BY <1>0, Zenon
  <2>2. rr[inOrder[i]] \in kubernetes_resource BY <2>1, Zenon DEF Rows
  <2> QED BY <1>0, <2>1, <2>2, RowFields, Zenon
<1>4. to \in Nat /\ pos < to BY <1>2, <1>3, Zenon
<1>5. \A i \in 1..n : seq(i) <= to
  <2> TAKE i \in 1..n
  <2>1. CASE i = n BY <2>1, <1>4
  <2>2. CASE i < n
    <3>1. seq(i) < to BY <1>0, <1>2, <2>2, Zenon
    <3>2. seq(i) \in Nat BY <1>3, Zenon
    <3> HIDE DEF seq, to
    <3> QED BY <1>4, <3>1, <3>2
  <2> QED BY <2>1, <2>2
<1>6. \A i, j \in 1..n : inOrder[i] = inOrder[j] => i = j
  <2> TAKE i, j \in 1..n
  <2>1. ~(seq(i) < seq(i)) BY <1>3
  <2>2. ASSUME inOrder[i] = inOrder[j], i # j PROVE FALSE
    <3>1. i < j \/ j < i BY <2>2
    <3> QED BY <1>0, <2>1, <2>2, <3>1, Zenon
  <2> QED BY <2>2, Zenon
<1>7. \A i \in 1..Len(qq) : i \in 1..L \/ (i - L \in 1..n /\ L + (i - L) = i) BY <1>1
<1>8. PICK S : Sent(S, q, from, pos) /\ (Missed(pos, past) \/ \E v : Tracked(S, v, c, q, rr, pos, past))
  BY Zenon DEF Following
<1>9. PICK v : Tracked(S, v, c, q, rr, pos, past) BY <1>8, Zenon
<1> DEFINE S2 == [i \in 1..Len(qq) |-> IF i <= L THEN S[i] ELSE seq(i - L)]
<1>10. /\ \A i \in 1..L : i \in 1..Len(qq) /\ S2[i] = S[i]
       /\ \A j \in 1..n : L + j \in 1..Len(qq) /\ S2[L + j] = seq(j)
  <2>1. ASSUME NEW i \in 1..L PROVE i \in 1..Len(qq) /\ S2[i] = S[i]
    <3>1. i \in 1..Len(qq) /\ i <= L BY <1>1
    <3> QED BY <3>1, Zenon
  <2>2. ASSUME NEW j \in 1..n PROVE L + j \in 1..Len(qq) /\ S2[L + j] = seq(j)
    <3>1. L + j \in 1..Len(qq) /\ ~(L + j <= L) /\ (L + j) - L = j BY <1>1
    <3> QED BY <3>1, Zenon
  <2> QED BY <2>1, <2>2, Zenon
<1>11. Sent(S2, qq, from, to)
  <2>1. /\ S \in [1..L -> Nat]
        /\ \A i \in 1..L : from < S[i] /\ S[i] <= pos /\ 1 <= q[i].obj.rv /\ q[i].obj.rv <= S[i]
        /\ \A i, j \in 1..L : i < j => S[i] < S[j]
    BY <1>8, Zenon DEF Sent
  <2>2. DOMAIN S2 = 1..Len(qq) /\ S2 = [i \in 1..Len(qq) |-> S2[i]] BY Zenon
  <2> HIDE DEF S2, qq, to
  <2>3. ASSUME NEW i \in 1..Len(qq)
        PROVE  S2[i] \in Nat /\ from < S2[i] /\ S2[i] <= to /\ 1 <= qq[i].obj.rv /\ qq[i].obj.rv <= S2[i]
    <3>1. CASE i \in 1..L
      <4>1. S2[i] = S[i] /\ qq[i] = q[i] BY <1>1, <1>10, <3>1, Zenon
      <4>2. S[i] \in Nat /\ from < S[i] /\ S[i] <= pos /\ 1 <= q[i].obj.rv /\ q[i].obj.rv <= S[i] BY <2>1, <3>1, Zenon
      <4>3. S[i] <= to BY <1>4, <4>2, SMTT(20)
      <4> QED BY <4>1, <4>2, <4>3, Zenon
    <3>2. CASE i - L \in 1..n /\ L + (i - L) = i
      <4>1. S2[L + (i - L)] = seq(i - L) /\ qq[L + (i - L)] = sent[i - L] BY <1>1, <1>10, <3>2, Zenon
      <4>2. S2[i] = seq(i - L) /\ qq[i] = sent[i - L] BY <3>2, <4>1, Zenon
      <4>3. seq(i - L) \in Nat /\ seq(i - L) > pos /\ 1 <= sent[i - L].obj.rv
            /\ sent[i - L].obj.rv <= seq(i - L) /\ seq(i - L) <= to
        BY <1>3, <1>5, <3>2, Zenon
      <4> HIDE DEF seq
      <4> QED BY <4>2, <4>3
    <3> QED BY <1>7, <3>1, <3>2, Zenon
  <2>4. ASSUME NEW i \in 1..Len(qq), NEW j \in 1..Len(qq), i < j PROVE S2[i] < S2[j]
    <3>1. CASE j \in 1..L
      <4>1. i \in 1..L BY <1>1, <2>4, <3>1
      <4> QED BY <1>10, <2>1, <2>4, <3>1, <4>1, Zenon
    <3>2. CASE j - L \in 1..n /\ L + (j - L) = j
      <4>1. S2[j] = seq(j - L)
        <5>1. S2[L + (j - L)] = seq(j - L) BY <1>10, <3>2, Zenon
        <5> QED BY <3>2, <5>1, Zenon
      <4>2. seq(j - L) \in Nat /\ seq(j - L) > pos BY <1>3, <3>2, Zenon
      <4>3. CASE i \in 1..L
        <5>1. S2[i] \in Nat /\ S2[i] <= pos BY <1>10, <2>1, <4>3, Zenon
        <5> HIDE DEF seq
        <5> QED BY <4>1, <4>2, <5>1
      <4>4. CASE i - L \in 1..n /\ L + (i - L) = i
        <5>1. S2[L + (i - L)] = seq(i - L) BY <1>10, <4>4, Zenon
        <5>2. i - L < j - L BY <1>1, <2>4
        <5>3. seq(i - L) < seq(j - L) BY <1>0, <3>2, <4>4, <5>2, Zenon
        <5>4. S2[i] = seq(i - L) BY <4>4, <5>1, Zenon
        <5> HIDE DEF seq
        <5> QED BY <4>1, <5>3, <5>4, Zenon
      <4> QED BY <1>7, <4>3, <4>4, Zenon
    <3> QED BY <1>7, <3>1, <3>2, Zenon
  <2>5. S2 \in [1..Len(qq) -> Nat] BY <2>2, <2>3, Zenon
  <2> QED BY <2>3, <2>4, <2>5, Zenon DEF Sent
<1> DEFINE told(j, key) == \E m \in 1..j : inOrder[m] = key
           row(key) == IF rr[key].deleted THEN NoObject ELSE rr[key].obj
           v2 == [i \in 0..Len(qq) |-> IF i <= L THEN v[i]
                                       ELSE [key \in Keys |-> IF told(i - L, key) THEN row(key) ELSE v[L][key]]]
<1>12. Views(v, c, q) /\ LastSent(S, q, rr, pos, past) /\ \A key \in Keys : UpToDate(v[L][key], rr[key], pos)
  BY <1>9, Zenon DEF Tracked
<1>13. /\ \A i \in 0..L : i \in 0..Len(qq) /\ v2[i] = v[i]
       /\ \A j \in 0..n : /\ L + j \in 0..Len(qq)
                          /\ v2[L + j] = [key \in Keys |-> IF told(j, key) THEN row(key) ELSE v[L][key]]
  <2>1. ASSUME NEW i \in 0..L PROVE i \in 0..Len(qq) /\ v2[i] = v[i]
    <3>1. i \in 0..Len(qq) /\ i <= L BY <1>1
    <3> QED BY <3>1, Zenon
  <2>2. ASSUME NEW j \in 0..n
        PROVE  L + j \in 0..Len(qq) /\ v2[L + j] = [key \in Keys |-> IF told(j, key) THEN row(key) ELSE v[L][key]]
    <3>1. L + j \in 0..Len(qq) /\ (L + j) - L = j BY <1>1
    <3>2. CASE j = 0
      <4>1. L + j = L /\ L \in 0..L BY <1>1, <3>2
      <4>2. v2[L + j] = v[L] BY <2>1, <4>1, Zenon
      <4>3. \A key : ~told(j, key) BY <3>2
      <4>4. v[L] = [key \in Keys |-> v[L][key]] BY <1>12, <4>1, Zenon DEF Views, CachedObjects
      <4> HIDE DEF told, v2, row
      <4>5. [key \in Keys |-> IF told(j, key) THEN row(key) ELSE v[L][key]] = [key \in Keys |-> v[L][key]]
        BY <4>3, Zenon
      <4> QED BY <3>1, <4>2, <4>4, <4>5, Zenon
    <3>3. CASE j # 0
      <4>1. ~(L + j <= L) BY <1>1, <3>3
      <4> HIDE DEF told, row
      <4> QED BY <3>1, <4>1, SMTT(20)
    <3> QED BY <3>2, <3>3, Zenon
  <2> QED BY <2>1, <2>2, Zenon
<1>14. Views(v2, c, qq)
  <2>1. DOMAIN v2 = 0..Len(qq) /\ v2 = [i \in 0..Len(qq) |-> v2[i]] BY Zenon
  <2> HIDE DEF v2, qq, to
  <2>2. v[L] \in CachedObjects /\ \A i \in 0..L : v[i] \in CachedObjects
    <3>1. L \in 0..L BY <1>1
    <3> QED BY <1>12, <3>1, Zenon DEF Views
  <2>3. ASSUME NEW i \in 0..Len(qq) PROVE v2[i] \in CachedObjects
    <3>1. CASE i \in 0..L BY <1>13, <2>2, <3>1, Zenon
    <3>2. CASE i \notin 0..L
      <4>1. i - L \in 0..n /\ L + (i - L) = i BY <1>1, <3>2
      <4>2. v2[L + (i - L)] = [key \in Keys |-> IF told(i - L, key) THEN row(key) ELSE v[L][key]] BY <1>13, <4>1, Zenon
      <4>3. ASSUME NEW key \in Keys, told(i - L, key) PROVE row(key) \in Object \cup {NoObject}
        <5>1. PICK m \in 1..(i - L) : inOrder[m] = key BY <4>3, Zenon
        <5>2. m \in 1..n BY <4>1
        <5>3. rr[key].obj \in Object BY <1>3, <5>1, <5>2, RowFields, Zenon
        <5> QED BY <5>3, Zenon
      <4> HIDE DEF told, row
      <4>4. v2[i] = [key \in Keys |-> IF told(i - L, key) THEN row(key) ELSE v[L][key]] BY <4>1, <4>2, Zenon
      <4>5. \A key \in Keys : v[L][key] \in Object \cup {NoObject} BY <2>2, Zenon DEF CachedObjects
      <4>6. \A key \in Keys : (IF told(i - L, key) THEN row(key) ELSE v[L][key]) \in Object \cup {NoObject}
        BY <4>3, <4>5, Zenon
      <4> QED BY <4>4, <4>6, Zenon DEF CachedObjects
    <3> QED BY <3>1, <3>2, Zenon
  <2>4. v2 \in [0..Len(qq) -> CachedObjects] BY <2>1, <2>3, Zenon
  <2>5. v2[0] = c
    <3>1. 0 \in 0..L BY <1>1
    <3> QED BY <1>12, <1>13, <3>1, Zenon DEF Views
  <2>6. ASSUME NEW i \in 1..Len(qq), i \in 1..L PROVE ViewStep(v2[i - 1], qq[i], v2[i])
    <3>1. i - 1 \in 0..L /\ i \in 0..L BY <1>1, <2>6
    <3>2. v2[i - 1] = v[i - 1] /\ v2[i] = v[i] /\ qq[i] = q[i] BY <1>1, <1>13, <2>6, <3>1, Zenon
    <3>3. ViewStep(v[i - 1], q[i], v[i]) BY <1>12, <2>6, Zenon DEF Views
    <3> QED BY <3>2, <3>3, Zenon
  <2>7. ASSUME NEW j \in 1..n PROVE ViewStep(v2[L + (j - 1)], sent[j], v2[L + j])
    <3> DEFINE key == inOrder[j]
               x == v2[L + (j - 1)]
    <3>1. j - 1 \in 0..n /\ j \in 0..n BY <2>7
    <3>2. /\ x = [k \in Keys |-> IF told(j - 1, k) THEN row(k) ELSE v[L][k]]
          /\ v2[L + j] = [k \in Keys |-> IF told(j, k) THEN row(k) ELSE v[L][k]]
      BY <1>13, <3>1, Zenon
    <3>3. key \in Keys /\ sent[j].obj.key = key /\ sent[j].obj = rr[key].obj /\ rr[key].seq > pos /\ rr[key] # NoObject
      BY <1>0, <1>3, Zenon
    <3>4. ~told(j - 1, key)
      <4> SUFFICES ASSUME NEW m \in 1..(j - 1), inOrder[m] = key PROVE FALSE BY Zenon
      <4>1. m \in 1..n /\ m # j OBVIOUS
      <4> QED BY <1>6, <4>1, Zenon
    <3>5. told(j, key)
      <4>1. j \in 1..j OBVIOUS
      <4> QED BY <4>1, Zenon
    <3>6. \A k \in Keys \ {key} : told(j, k) <=> told(j - 1, k)
      <4> TAKE k \in Keys \ {key}
      <4>1. ASSUME NEW m \in 1..j, inOrder[m] = k PROVE told(j - 1, k)
        <5>1. m \in 1..(j - 1) BY <4>1
        <5> QED BY <4>1, <5>1, Zenon
      <4>2. ASSUME NEW m \in 1..(j - 1), inOrder[m] = k PROVE told(j, k)
        <5>1. m \in 1..j OBVIOUS
        <5> QED BY <4>2, <5>1, Zenon
      <4> QED BY <4>1, <4>2, Zenon
    <3>7. row(key) = Leaves(sent[j])
      <4>1. sent[j].type = "DELETED" <=> rr[key].deleted BY <1>0, Zenon
      <4> QED BY <3>3, <4>1, Zenon DEF Leaves
    <3> HIDE DEF told, row
    <3>8. v2[L + j] = [x EXCEPT ![key] = Leaves(sent[j])]
      <4>1. x = [k \in Keys |-> x[k]] /\ v2[L + j] = [k \in Keys |-> v2[L + j][k]] BY <3>2, Zenon
      <4>2. \A k \in Keys : /\ x[k] = IF told(j - 1, k) THEN row(k) ELSE v[L][k]
                            /\ v2[L + j][k] = IF told(j, k) THEN row(k) ELSE v[L][k]
        BY <3>2
      <4> HIDE DEF x, key
      <4>3. v2[L + j][key] = Leaves(sent[j]) BY <3>3, <3>5, <3>7, <4>2, Zenon
      <4>4. \A k \in Keys \ {key} : v2[L + j][k] = x[k] BY <3>6, <4>2, Zenon
      <4> QED BY <4>1, <4>3, <4>4, ExceptIs
    <3>9. x[key] = v[L][key] BY <3>2, <3>3, <3>4
    <3>10. v[L][key] = NoObject \/ v[L][key].rv < sent[j].obj.rv \/ v[L][key] = sent[j].obj
      <4>1. UpToDate(v[L][key], rr[key], pos) BY <1>12, <3>3, Zenon
      <4> QED BY <3>3, <4>1, Zenon DEF UpToDate
    <3> SUFFICES ViewStep(x, sent[j], v2[L + j]) BY Zenon
    <3> HIDE DEF x, key
    <3> QED BY <3>3, <3>8, <3>9, <3>10, Zenon DEF ViewStep
  <2>8. ASSUME NEW i \in 1..Len(qq) PROVE ViewStep(v2[i - 1], qq[i], v2[i])
    <3>1. CASE i \in 1..L BY <2>6, <3>1, Zenon
    <3>2. CASE i - L \in 1..n /\ L + (i - L) = i
      <4>1. L + ((i - L) - 1) = i - 1 BY <1>1
      <4>2. ViewStep(v2[L + ((i - L) - 1)], sent[i - L], v2[L + (i - L)]) BY <2>7, <3>2, Zenon
      <4>3. qq[L + (i - L)] = sent[i - L] BY <1>1, <3>2, Zenon
      <4> QED BY <3>2, <4>1, <4>2, <4>3, Zenon
    <3> QED BY <1>7, <3>1, <3>2, Zenon
  <2> QED BY <2>4, <2>5, <2>8, Zenon DEF Views
<1>15. \A key \in Keys : UpToDate(v2[Len(qq)][key], rr[key], to)
  <2> TAKE key \in Keys
  <2>1. n \in 0..n /\ Len(qq) = L + n BY <1>1
  <2>2. v2[Len(qq)][key] = IF told(n, key) THEN row(key) ELSE v[L][key]
    <3>1. v2[L + n] = [k \in Keys |-> IF told(n, k) THEN row(k) ELSE v[L][k]] BY <1>13, <2>1, Zenon
    <3> HIDE DEF told, row, v2, qq
    <3> QED BY <2>1, <3>1
  <2> HIDE DEF v2, qq
  <2>3. CASE told(n, key)
    <3>0. PICK m \in 1..n : inOrder[m] = key BY <2>3, Zenon
    <3>1. rr[key] # NoObject /\ rr[key].obj \in Object /\ rr[key].obj # NoObject
      <4>1. rr[key] # NoObject BY <1>3, <3>0, Zenon
      <4>2. rr[key].obj \in Object BY <1>3, <3>0, RowFields, Zenon
      <4>3. NoObject \notin Object BY NoObjectAssumption, Zenon DEF Object
      <4> QED BY <4>1, <4>2, <4>3, Zenon
    <3>2. v2[Len(qq)][key] = row(key) BY <2>2, <2>3, Zenon
    <3>3. CASE rr[key].deleted BY <3>2, <3>3, Zenon DEF UpToDate
    <3>4. CASE ~rr[key].deleted BY <3>1, <3>2, <3>4, Zenon DEF UpToDate
    <3> QED BY <3>3, <3>4, Zenon
  <2>4. CASE ~told(n, key)
    <3>1. rr[key] = NoObject \/ ~(rr[key].seq > pos) BY <1>0, <2>4, Zenon
    <3>2. v2[Len(qq)][key] = v[L][key] BY <2>2, <2>4, Zenon
    <3>3. UpToDate(v[L][key], rr[key], pos) BY <1>12, Zenon
    <3> HIDE DEF told, row, to
    <3> QED BY <3>1, <3>2, <3>3, Zenon DEF UpToDate
  <2> QED BY <2>3, <2>4, Zenon
<1>16. LastSent(S2, qq, rr, to, past)
  <2> HIDE DEF S2, qq, to
  <2> SUFFICES ASSUME NEW i \in 1..Len(qq), \A m \in 1..Len(qq) : m > i => qq[m].obj.key # qq[i].obj.key
               PROVE  /\ rr[qq[i].obj.key] = NoObject => S2[i] <= past
                      /\ rr[qq[i].obj.key] # NoObject /\ rr[qq[i].obj.key].seq <= to => S2[i] = rr[qq[i].obj.key].seq
    BY Zenon DEF LastSent
  <2>1. CASE i \in 1..L
    <3>1. qq[i] = q[i] /\ S2[i] = S[i] BY <1>1, <1>10, <2>1, Zenon
    <3> DEFINE key == q[i].obj.key
    <3>2. key \in Keys BY <2>1, EventFields, Zenon
    <3>3. ~(rr[key] # NoObject /\ rr[key].seq > pos)
      <4> SUFFICES ASSUME rr[key] # NoObject /\ rr[key].seq > pos PROVE FALSE BY Zenon
      <4>0. PICK j \in 1..n : inOrder[j] = key BY <1>0, <3>2, Zenon
      <4>1. qq[L + j].obj.key = key
        <5>1. qq[L + j] = sent[j] BY <1>1, Zenon
        <5>2. sent[j].obj.key = inOrder[j] BY <1>3, Zenon
        <5> QED BY <4>0, <5>1, <5>2, Zenon
      <4>2. L + j \in 1..Len(qq) /\ L + j > i BY <1>1, <2>1, SMTT(20)
      <4> QED BY <3>1, <4>1, <4>2, Zenon
    <3>4. \A m \in 1..L : m > i => q[m].obj.key # q[i].obj.key
      <4> TAKE m \in 1..L
      <4>1. m \in 1..Len(qq) /\ qq[m] = q[m] BY <1>1
      <4> QED BY <3>1, <4>1, SMTT(20)
    <3>5. /\ rr[key] = NoObject => S[i] <= past
          /\ rr[key] # NoObject /\ rr[key].seq <= pos => S[i] = rr[key].seq
      BY <1>12, <2>1, <3>4, Zenon DEF LastSent
    <3>6. rr[key] # NoObject => rr[key].seq \in Nat BY <3>2, RowFields, SMTT(20) DEF Rows
    <3>7. rr[key] # NoObject => rr[key].seq <= pos
      <4> HIDE DEF key
      <4> QED BY <3>3, <3>6, SMTT(20)
    <3> QED BY <3>1, <3>5, <3>7, Zenon
  <2>2. CASE i - L \in 1..n /\ L + (i - L) = i
    <3>1. S2[L + (i - L)] = seq(i - L) /\ qq[L + (i - L)] = sent[i - L] BY <1>1, <1>10, <2>2, Zenon
    <3>2. S2[i] = seq(i - L) /\ qq[i] = sent[i - L] BY <2>2, <3>1, Zenon
    <3>3. sent[i - L].obj.key = inOrder[i - L] /\ rr[inOrder[i - L]] # NoObject BY <1>3, <2>2, Zenon
    <3> QED BY <3>2, <3>3
  <2> QED BY <1>7, <2>1, <2>2, Zenon
<1> HIDE DEF S2, v2, qq, to
<1>17. Tracked(S2, v2, c, qq, rr, to, past) BY <1>14, <1>15, <1>16, Zenon DEF Tracked
<1>18. Following(c, qq, rr, from, to, past) BY <1>11, <1>17, Zenon DEF Following
<1> QED BY <1>1, <1>4, <1>18, Zenon DEF qq, to
-----------------------------------------------------------------------------
(***************************************************************************)
(* The inductive invariant of the informer over the backend.               *)
(***************************************************************************)
Pos == IF pc = "events" THEN position ELSE lastRV

LoopOK ==
    /\ pc \in {"off", "list", "watch", "relist", "events"}
    /\ cached \in CachedObjects /\ out \in Seq(Event) /\ lastRV \in Nat /\ position \in Nat
    /\ pc # "events" => ~open /\ out = <<>>
    /\ lastRV = 0 => cached = NoObjects
    /\ lastRV <= Pos /\ Pos <= current_seq
    /\ pc \notin {"off", "list"} => Following(cached, out, rows, lastRV, Pos, horizon)

CacheInv == PgTypeOK /\ RowsOK /\ LoopOK

LEMMA RowsParts ==
    ASSUME PgTypeOK, RowsOK
    PROVE  /\ current_seq \in Nat /\ horizon \in Nat /\ rows \in Rows
           /\ \A key \in Keys : rows[key] # NoObject =>
                 /\ rows[key] \in kubernetes_resource /\ rows[key].obj \in Object
                 /\ rows[key].obj.key = key /\ 1 <= rows[key].obj.rv /\ rows[key].obj.rv <= rows[key].seq
                 /\ rows[key].seq > 0 /\ rows[key].seq <= current_seq /\ rows[key].seq \in Nat
<1>1. current_seq \in Nat /\ horizon \in Nat /\ rows \in Rows BY RowParts, Zenon DEF Rows
<1>2. ASSUME NEW key \in Keys, rows[key] # NoObject
      PROVE  /\ rows[key] \in kubernetes_resource /\ rows[key].obj \in Object
             /\ rows[key].obj.key = key /\ 1 <= rows[key].obj.rv /\ rows[key].obj.rv <= rows[key].seq
             /\ rows[key].seq > 0 /\ rows[key].seq <= current_seq /\ rows[key].seq \in Nat
  <2>1. rows[key] \in kubernetes_resource BY <1>1, <1>2, Zenon DEF Rows
  <2>2. rows[key].obj \in Object /\ rows[key].seq \in Nat /\ rows[key].obj.rv \in Nat BY <2>1, RowFields, Zenon
  <2>3. /\ rows[key].obj.key = key
        /\ 1 <= rows[key].obj.rv /\ rows[key].obj.rv <= rows[key].seq /\ rows[key].seq <= current_seq
    BY <1>2, Zenon DEF RowsOK, RowOK
  <2> QED BY <2>1, <2>2, <2>3
<1> QED BY <1>1, <1>2, Zenon

(* A step of the backend.                                                  *)
LEMMA LoopBackend ==
    ASSUME CacheInv, [PgNext]_pgVars, UNCHANGED cacheVars
    PROVE  LoopOK'
<1> USE DEF CacheInv
<1>1. pc' = pc /\ cached' = cached /\ out' = out /\ lastRV' = lastRV /\ position' = position /\ open' = open
  BY Zenon DEF cacheVars, pollVars
<1>2. Pos' = Pos BY <1>1, Zenon DEF Pos
<1>3. /\ lastRV \in Nat /\ Pos \in Nat /\ out \in Seq(Event) /\ lastRV <= Pos /\ Pos <= current_seq
      /\ lastRV = 0 => cached = NoObjects
  BY Zenon DEF LoopOK, Pos
<1>4. current_seq \in Nat /\ horizon \in Nat /\ rows \in Rows BY RowsParts, Zenon
<1>5. Pos <= current_seq' /\
      (Following(cached, out, rows, lastRV, Pos, horizon) => Following(cached, out, rows', lastRV, Pos, horizon'))
  <2>1. CASE UNCHANGED tables BY <1>3, <2>1, Zenon DEF tables
  <2>2. ASSUME NEW key \in Keys, NEW row, Written(key, row)
        PROVE  Pos <= current_seq' /\
               (Following(cached, out, rows, lastRV, Pos, horizon) => Following(cached, out, rows', lastRV, Pos, horizon'))
    <3>1. /\ current_seq' = current_seq + 1 /\ horizon' = horizon /\ rows' = [rows EXCEPT ![key] = row]
          /\ row \in kubernetes_resource /\ row.seq = current_seq + 1 /\ row.obj.rv = Version(rows[key]) + 1
      BY <2>2, Zenon DEF Written
    <3>2. Pos <= current_seq' /\ row.seq > Pos BY <1>3, <1>4, <3>1
    <3>3. ASSUME Following(cached, out, rows, lastRV, Pos, horizon)
          PROVE  Following(cached, out, [rows EXCEPT ![key] = row], lastRV, Pos, horizon)
      BY <1>3, <1>4, <3>1, <3>2, <3>3, FollowWrite, Zenon
    <3> QED BY <3>1, <3>2, <3>3, Zenon
  <2>3. ASSUME NEW n \in 1..current_seq, Compacted(n)
        PROVE  Pos <= current_seq' /\
               (Following(cached, out, rows, lastRV, Pos, horizon) => Following(cached, out, rows', lastRV, Pos, horizon'))
    <3> DEFINE left == [key \in Keys |-> IF rows[key] # NoObject /\ rows[key].deleted /\ rows[key].seq <= n
                                         THEN NoObject ELSE rows[key]]
    <3>1. current_seq' = current_seq /\ horizon' = n /\ rows' = left BY <2>3, Zenon DEF Compacted
    <3>2. PICK key \in Keys : rows[key] # NoObject /\ rows[key].deleted /\ rows[key].seq = n BY <2>3, Zenon DEF Compacted
    <3>3. n \in Nat /\ horizon <= n BY <1>4, <3>2 DEF RowsOK, RowOK
    <3>4. ASSUME Following(cached, out, rows, lastRV, Pos, horizon)
          PROVE  Following(cached, out, left, lastRV, Pos, n)
      BY <1>3, <1>4, <3>3, <3>4, FollowCompact, Zenon
    <3> HIDE DEF left
    <3> QED BY <1>3, <3>1, <3>4, Zenon
  <2> QED BY <2>1, <2>2, <2>3, PgChanges, Zenon
<1> QED BY <1>1, <1>2, <1>5, Zenon DEF LoopOK

(* What a relist leaves in the cache.                                      *)
LEMMA RelistLive ==
    ASSUME PlainInformer, PgTypeOK, RowsOK
    PROVE  replaceAll(cached, Items).objects = [key \in Keys |-> Live(key)]
<1> DEFINE new == [key \in Keys |->
                     IF \E obj \in Items : obj.key = key /\ matchesSelectors(obj) /\ Transformable(obj)
                     THEN CHOOSE obj \in Items : obj.key = key ELSE NoObject]
<1>1. replaceAll(cached, Items).objects = new BY Zenon DEF replaceAll, Effect
<1>2. ASSUME NEW key \in Keys
      PROVE  IF \E obj \in Items : obj.key = key /\ matchesSelectors(obj) /\ Transformable(obj)
             THEN (CHOOSE obj \in Items : obj.key = key) = Live(key) ELSE NoObject = Live(key)
  <2>1. ASSUME NEW obj \in Items, obj.key = key PROVE obj = Live(key) /\ Live(key) # NoObject
    <3>1. PICK k \in Keys : obj = Live(k) /\ obj # NoObject BY <2>1, Zenon DEF Items
    <3>2. obj.key = k BY <3>1, RowsParts, Zenon DEF Live
    <3> QED BY <2>1, <3>1, <3>2, Zenon
  <2>2. ASSUME Live(key) # NoObject
        PROVE  /\ Live(key) \in Items /\ Live(key).key = key
               /\ matchesSelectors(Live(key)) /\ Transformable(Live(key))
    <3>1. Live(key) \in Items BY <2>2, Zenon DEF Items
    <3>2. Live(key).key = key BY <2>2, RowsParts, Zenon DEF Live
    <3> QED BY <3>1, <3>2, Zenon DEF PlainInformer, matchesSelectors, Transformable
  <2>3. CASE Live(key) = NoObject BY <2>1, <2>3, Zenon
  <2>4. CASE Live(key) # NoObject
    <3>1. \E obj \in Items : obj.key = key /\ matchesSelectors(obj) /\ Transformable(obj) BY <2>2, <2>4, Zenon
    <3> DEFINE x == CHOOSE obj \in Items : obj.key = key
    <3>2. x \in Items /\ x.key = key BY <3>1, Zenon
    <3> HIDE DEF x
    <3>3. x = Live(key) BY <2>1, <3>2, Zenon
    <3> QED BY <3>1, <3>3, Zenon DEF x
  <2> QED BY <2>3, <2>4, Zenon
<1>3. new = [key \in Keys |-> Live(key)] BY <1>2, Zenon
<1> QED BY <1>1, <1>3, Zenon

(* A list: of the informer's start, or of a relist.                        *)
LEMMA LoopList ==
    ASSUME CacheInv, pc # "events", pc' = "watch", cached' = [key \in Keys |-> Live(key)], lastRV' = current_seq,
           UNCHANGED <<tables, pollVars, out>>
    PROVE  LoopOK'
<1> USE DEF CacheInv
<1>1. current_seq \in Nat /\ horizon \in Nat /\ rows \in Rows BY RowsParts, Zenon
<1>2. \A key \in Keys : rows[key] # NoObject => rows[key].obj \in Object /\ rows[key].seq > 0 /\ rows[key].seq <= current_seq
  BY RowsParts, Zenon
<1>3. current_seq' = current_seq /\ horizon' = horizon /\ rows' = rows /\ open' = open /\ position' = position /\ out' = out
  BY Zenon DEF tables, pollVars
<1>4. out = <<>> /\ ~open /\ position \in Nat BY Zenon DEF LoopOK
<1>5. \A key \in Keys : Live(key) \in Object \cup {NoObject} BY <1>2, Zenon DEF Live
<1>6. cached' \in CachedObjects /\ \A key \in Keys : cached'[key] = Live(key) BY <1>5, Zenon DEF CachedObjects
<1>7. current_seq = 0 => cached' = NoObjects
  <2> SUFFICES ASSUME current_seq = 0 PROVE cached' = NoObjects BY Zenon
  <2>1. \A key \in Keys : Live(key) = NoObject
    <3> TAKE key \in Keys
    <3>1. rows[key] # NoObject => rows[key].seq \in Nat BY RowsParts, Zenon
    <3>2. rows[key] = NoObject BY <1>2, <3>1
    <3> QED BY <3>2, Zenon DEF Live
  <2> QED BY <2>1, Zenon DEF NoObjects
<1>8. \A key \in Keys : UpToDate(cached'[key], rows[key], current_seq)
  <2> TAKE key \in Keys
  <2>1. rows[key] # NoObject => rows[key].obj # NoObject BY <1>2, RowFields, Zenon
  <2> QED BY <1>6, <2>1, Zenon DEF Live, UpToDate
<1>9. Following(cached', <<>>, rows, current_seq, current_seq, horizon) BY <1>1, <1>6, <1>8, FollowList, Zenon
<1>10. Pos' = current_seq BY Zenon DEF Pos
<1>11. <<>> \in Seq(Event) OBVIOUS
<1>12. lastRV' <= Pos' /\ Pos' <= current_seq' BY <1>1, <1>3, <1>10
<1>13. Following(cached', out', rows', lastRV', Pos', horizon') BY <1>3, <1>4, <1>9, <1>10, Zenon
<1> QED BY <1>1, <1>3, <1>4, <1>6, <1>7, <1>11, <1>12, <1>13, Zenon DEF LoopOK

(* A step that leaves the cache, the versions and the events alone.        *)
LEMMA LoopTurn ==
    ASSUME CacheInv, UNCHANGED <<tables, lastRV, cached, out>>,
           \/ pc = "watch" /\ pc' = "events" /\ position' = lastRV
           \/ pc = "watch" /\ pc' = "relist" /\ UNCHANGED <<open, position>>
           \/ UNCHANGED <<pc, position>> /\ open' \in {open, FALSE}
    PROVE  LoopOK'
<1>1. LoopOK BY Zenon DEF CacheInv
<1>2. current_seq' = current_seq /\ horizon' = horizon /\ rows' = rows /\ lastRV' = lastRV /\ cached' = cached /\ out' = out
  BY Zenon DEF tables
<1>3. Pos' = Pos BY Zenon DEF Pos
<1>4. pc' \in {"off", "list", "watch", "relist", "events"} /\ position' \in Nat BY <1>1, Zenon DEF LoopOK
<1>5. pc' # "events" => ~open' /\ out' = <<>> BY <1>1, <1>2, Zenon DEF LoopOK
<1>6. pc' \notin {"off", "list"} => Following(cached', out', rows', lastRV', Pos', horizon')
  <2>1. pc' \notin {"off", "list"} => pc \notin {"off", "list"} BY Zenon
  <2> QED BY <1>1, <1>2, <1>3, <2>1, Zenon DEF LoopOK
<1> QED BY <1>1, <1>2, <1>3, <1>4, <1>5, <1>6, Zenon DEF LoopOK

LEMMA LoopEvent ==
    ASSUME PlainInformer, CacheInv, HandleEvent
    PROVE  LoopOK'
<1> USE DEF CacheInv
<1>1. /\ pc = "events" /\ pc' = pc /\ out # <<>> /\ out' = Tail(out) /\ position' = position
      /\ lastRV' = Resume(Head(out).obj) /\ cached' = Dispatch(cached, Head(out)).objects
      /\ current_seq' = current_seq /\ horizon' = horizon /\ rows' = rows
  BY Zenon DEF HandleEvent, pgVars, tables, pollVars
<1>2. Pos = position /\ Pos' = position BY <1>1, Zenon DEF Pos
<1>3. /\ cached \in CachedObjects /\ out \in Seq(Event) /\ lastRV \in Nat /\ position \in Nat
      /\ Following(cached, out, rows, lastRV, position, horizon) /\ position <= current_seq
  BY <1>1, <1>2, Zenon DEF LoopOK
<1>4. Head(out) \in Event /\ Tail(out) \in Seq(Event) BY <1>1, <1>3, HeadTailProperties, Zenon
<1>5. Head(out).obj.rv \in Nat BY <1>4, RowFields, Zenon DEF Event
<1> DEFINE to == lastRV'
<1>6. to \in Nat /\ (to = lastRV \/ to = Head(out).obj.rv) /\ Head(out).obj.rv <= to BY <1>1, <1>3, <1>5 DEF Resume
<1>7. /\ Following(Dispatch(cached, Head(out)).objects, Tail(out), rows, to, position, horizon)
      /\ to <= position /\ 1 <= Head(out).obj.rv
  <2> HIDE DEF to
  <2> QED BY <1>1, <1>3, <1>6, FollowEvent, Zenon
<1>8. Dispatch(cached, Head(out)).objects \in CachedObjects BY <1>3, <1>4, DispatchTyped, Zenon
<1>9. lastRV' # 0 BY <1>5, <1>6, <1>7
<1> QED BY <1>1, <1>2, <1>3, <1>4, <1>6, <1>7, <1>8, <1>9, Zenon DEF LoopOK

LEMMA LoopReconnect ==
    ASSUME CacheInv, Reconnect
    PROVE  LoopOK'
<1> USE DEF CacheInv
<1>1. /\ pc = "events" /\ pc' = "watch" /\ out = <<>> /\ ~open /\ out' = out /\ position' = position /\ open' = open
      /\ lastRV' = lastRV /\ cached' = cached
      /\ current_seq' = current_seq /\ horizon' = horizon /\ rows' = rows
  BY Zenon DEF Reconnect, pgVars, tables, pollVars
<1>2. Pos = position /\ Pos' = lastRV BY <1>1, Zenon DEF Pos
<1>3. /\ cached \in CachedObjects /\ lastRV \in Nat /\ position \in Nat /\ out \in Seq(Event)
      /\ lastRV = 0 => cached = NoObjects
      /\ lastRV <= position /\ position <= current_seq
      /\ Following(cached, <<>>, rows, lastRV, position, horizon)
  BY <1>1, <1>2, Zenon DEF LoopOK
<1>4. /\ current_seq \in Nat /\ horizon \in Nat /\ rows \in Rows
      /\ \A key \in Keys : rows[key] # NoObject => rows[key].seq > 0
  BY RowsParts, Zenon
<1>5. Following(cached, <<>>, rows, lastRV, lastRV, horizon) BY <1>3, <1>4, FollowBack, Zenon
<1>6. lastRV <= lastRV /\ lastRV <= current_seq BY <1>3, <1>4
<1> QED BY <1>1, <1>2, <1>3, <1>5, <1>6, Zenon DEF LoopOK

LEMMA LoopPoll ==
    ASSUME CacheInv, Poll
    PROVE  LoopOK'
<1> USE DEF CacheInv
<1>1. /\ open /\ ~Gone /\ pc' = pc /\ lastRV' = lastRV /\ cached' = cached /\ open' = open
      /\ current_seq' = current_seq /\ horizon' = horizon /\ rows' = rows
  BY Zenon DEF Poll, pgVars, tables
<1>2. pc = "events" BY <1>1, Zenon DEF LoopOK
<1>3. Pos = position /\ Pos' = position' BY <1>1, <1>2, Zenon DEF Pos
<1>4. /\ cached \in CachedObjects /\ lastRV \in Nat /\ position \in Nat /\ out \in Seq(Event)
      /\ lastRV = 0 => cached = NoObjects
      /\ lastRV <= position /\ position <= current_seq
      /\ Following(cached, out, rows, lastRV, position, horizon)
  BY <1>2, <1>3, Zenon DEF LoopOK
<1>5. /\ current_seq \in Nat /\ horizon \in Nat /\ rows \in Rows
      /\ \A key \in Keys : rows[key] # NoObject =>
            /\ rows[key] \in kubernetes_resource /\ rows[key].obj \in Object
            /\ rows[key].obj.key = key /\ 1 <= rows[key].obj.rv /\ rows[key].obj.rv <= rows[key].seq
            /\ rows[key].seq <= current_seq /\ rows[key].seq \in Nat
  BY RowsParts, Zenon
<1>6. ~Missed(position, horizon) BY <1>1, Zenon DEF Gone, Missed
<1>7. PICK n \in 1..current_seq : \E inOrder \in [1..n -> News] :
          /\ \A key \in News : \E i \in 1..n : inOrder[i] = key
          /\ \A i, j \in 1..n : i < j => rows[inOrder[i]].seq < rows[inOrder[j]].seq
          /\ position' = rows[inOrder[n]].seq
          /\ out' = out \o [i \in 1..n |-> translate(inOrder[i])]
  BY Zenon DEF Poll
<1>8. PICK inOrder \in [1..n -> News] :
          /\ \A key \in News : \E i \in 1..n : inOrder[i] = key
          /\ \A i, j \in 1..n : i < j => rows[inOrder[i]].seq < rows[inOrder[j]].seq
          /\ position' = rows[inOrder[n]].seq
          /\ out' = out \o [i \in 1..n |-> translate(inOrder[i])]
  BY <1>7, Zenon
<1> DEFINE sent == [i \in 1..n |-> translate(inOrder[i])]
<1>9. n \in Nat \ {0} /\ n \in 1..n BY <1>5
<1>10. \A i \in 1..n : translate(inOrder[i]) \in Event
  <2> TAKE i \in 1..n
  <2>1. inOrder[i] \in Keys /\ rows[inOrder[i]] # NoObject BY Zenon DEF News
  <2>2. rows[inOrder[i]].obj \in Object BY <1>5, <2>1, Zenon
  <2> QED BY <2>2, Zenon DEF translate, Event
<1>11. sent \in Seq(Event) /\ Len(sent) = n /\ \A i \in 1..n : sent[i] = translate(inOrder[i])
  <2>1. sent \in [1..n -> Event] BY <1>10, Zenon
  <2> QED BY <1>9, <2>1
<1>12. \A i \in 1..n : sent[i].obj = rows[inOrder[i]].obj /\ (sent[i].type = "DELETED" <=> rows[inOrder[i]].deleted)
  <2> TAKE i \in 1..n
  <2>1. sent[i] = translate(inOrder[i]) BY <1>11, Zenon
  <2> HIDE DEF sent
  <2> QED BY <2>1 DEF translate
<1>13. inOrder[n] \in Keys /\ rows[inOrder[n]] # NoObject BY <1>9, Zenon DEF News
<1>14. out' = out \o sent /\ position' = rows[inOrder[n]].seq BY <1>8, Zenon
<1> HIDE DEF sent
<1>15. /\ out \o sent \in Seq(Event)
       /\ Following(cached, out \o sent, rows, lastRV, rows[inOrder[n]].seq, horizon)
       /\ position < rows[inOrder[n]].seq
  <2>1. inOrder \in [1..n -> {key \in Keys : rows[key] # NoObject /\ rows[key].seq > position}] BY Zenon DEF News
  <2>2. \A key \in Keys : rows[key] # NoObject /\ rows[key].seq > position => \E i \in 1..n : inOrder[i] = key
    BY <1>8, Zenon DEF News
  <2>3. \A i, j \in 1..n : i < j => rows[inOrder[i]].seq < rows[inOrder[j]].seq BY <1>8, Zenon
  <2>4. \A key \in Keys : rows[key] # NoObject =>
            rows[key].obj.key = key /\ 1 <= rows[key].obj.rv /\ rows[key].obj.rv <= rows[key].seq
    BY <1>5, Zenon
  <2>5. horizon \in Nat /\ rows \in Rows BY <1>5, Zenon
  <2>6. Polled(rows, position, n, inOrder, sent) BY <1>11, <1>12, <2>1, <2>2, <2>3, Zenon DEF Polled
  <2> QED BY <1>4, <1>6, <1>9, <1>11, <2>4, <2>5, <2>6, FollowPoll, Zenon
<1>16. position' \in Nat /\ position' <= current_seq /\ lastRV <= position' BY <1>4, <1>5, <1>13, <1>14, <1>15
<1> QED BY <1>1, <1>2, <1>3, <1>4, <1>14, <1>15, <1>16, Zenon DEF LoopOK

LEMMA CacheInit == Init => CacheInv
<1> SUFFICES ASSUME Init PROVE CacheInv BY Zenon
<1>1. NewDatabase BY Zenon DEF Init
<1>2. PgTypeOK BY <1>1, PgTypeInit, Zenon
<1>3. RowsOK BY <1>1 DEF NewDatabase, RowsOK, RowOK
<1>4. /\ pc \in {"off", "list"} /\ lastRV = 0 /\ cached = NoObjects /\ open = FALSE /\ position = 0 /\ out = <<>>
      /\ current_seq = 0
  BY <1>1, Zenon DEF Init, NewDatabase
<1>5. NoObjects \in CachedObjects BY Zenon DEF NoObjects, CachedObjects
<1>6. Pos = 0 BY <1>4, Zenon DEF Pos
<1>7. LoopOK BY <1>4, <1>5, <1>6 DEF LoopOK
<1> QED BY <1>2, <1>3, <1>7, Zenon DEF CacheInv

LEMMA CacheStep ==
    ASSUME PlainInformer, CacheInv, [Next]_pgCacheVars
    PROVE  CacheInv'
<1>1. PgTypeOK /\ RowsOK BY Zenon DEF CacheInv
<1>2. ASSUME [PgNext]_pgVars PROVE PgTypeOK' /\ RowsOK'
  BY <1>1, <1>2, PgTypeStep, RowsStep, Zenon
<1>3. ASSUME UNCHANGED pgVars PROVE PgTypeOK' /\ RowsOK' /\ UNCHANGED tables
  BY <1>2, <1>3, Zenon DEF pgVars
<1>4. ASSUME Fault PROVE PgTypeOK' /\ RowsOK' /\ UNCHANGED tables
  <2>1. faults' = faults + 1 /\ UNCHANGED <<tables, now, leaseVars, call, lastGrant>> BY <1>4, Zenon DEF Fault
  <2>2. RowsOK' BY <1>1, <2>1, Zenon DEF RowsOK, RowOK, tables
  <2>3. /\ current_seq' = current_seq /\ rows' = rows /\ horizon' = horizon /\ now' = now /\ call' = call
        /\ leases' = leases /\ lessee' = lessee /\ reply' = reply /\ held' = held /\ grants' = grants
        /\ released' = released /\ deployment' = deployment /\ lastGrant' = lastGrant
    BY <2>1, Zenon DEF tables, leaseVars
  <2>4. faults' \in Nat BY <1>1, <2>1 DEF PgTypeOK
  <2>5. PgTypeOK' BY <1>1, <2>3, <2>4, Zenon DEF PgTypeOK
  <2> QED BY <2>1, <2>2, <2>5, Zenon
<1>5. CASE PgNext /\ UNCHANGED <<timeline, clusterEpoch, cacheVars>>
  <2>1. LoopOK' BY <1>5, LoopBackend, Zenon
  <2> QED BY <1>2, <1>5, <2>1, Zenon DEF CacheInv
<1>6. CASE UNCHANGED pgCacheVars
  <2>1. UNCHANGED pgVars /\ UNCHANGED cacheVars BY <1>6, Zenon DEF pgCacheVars
  <2>2. LoopOK' BY <2>1, LoopBackend, Zenon
  <2> QED BY <1>3, <2>1, <2>2, Zenon DEF CacheInv
<1>7. CASE InitialList
  <2>1. UNCHANGED pgVars BY <1>7, Zenon DEF InitialList
  <2>2. LoopOK' BY <1>3, <1>7, <2>1, LoopList, Zenon DEF InitialList
  <2> QED BY <1>3, <2>1, <2>2, Zenon DEF CacheInv
<1>8. CASE relistInformer
  <2>1. UNCHANGED pgVars BY <1>8, Zenon DEF relistInformer
  <2>2. cached' = [key \in Keys |-> Live(key)] BY <1>1, <1>8, RelistLive, Zenon DEF relistInformer
  <2>3. LoopOK' BY <1>3, <1>8, <2>1, <2>2, LoopList, Zenon DEF relistInformer
  <2> QED BY <1>3, <2>1, <2>3, Zenon DEF CacheInv
<1>9. CASE Watch \/ WatchUnchecked
  <2>1. OpenWatch /\ PgTypeOK' /\ RowsOK' /\ UNCHANGED tables BY <1>3, <1>4, <1>9, Zenon DEF Watch, WatchUnchecked
  <2>2. LoopOK' BY <2>1, LoopTurn, Zenon DEF OpenWatch
  <2> QED BY <2>1, <2>2, Zenon DEF CacheInv
<1>10. CASE RevisionTooOld
  <2>1. UNCHANGED pgVars BY <1>10, Zenon DEF RevisionTooOld
  <2>2. LoopOK' BY <1>3, <1>10, <2>1, LoopTurn, Zenon DEF RevisionTooOld, pollVars
  <2> QED BY <1>3, <2>1, <2>2, Zenon DEF CacheInv
<1>11. CASE HandleEvent
  <2>1. UNCHANGED pgVars BY <1>11, Zenon DEF HandleEvent
  <2> QED BY <1>3, <1>11, <2>1, LoopEvent, Zenon DEF CacheInv
<1>12. CASE Reconnect
  <2>1. UNCHANGED pgVars BY <1>12, Zenon DEF Reconnect
  <2> QED BY <1>3, <1>12, <2>1, LoopReconnect, Zenon DEF CacheInv
<1>13. CASE Poll
  <2>1. UNCHANGED pgVars BY <1>13, Zenon DEF Poll
  <2> QED BY <1>3, <1>13, <2>1, LoopPoll, Zenon DEF CacheInv
<1>14. CASE PollGone \/ PollFails
  <2>1. PgTypeOK' /\ RowsOK' /\ UNCHANGED tables BY <1>3, <1>4, <1>14, Zenon DEF PollGone, PollFails
  <2>2. open' = FALSE /\ UNCHANGED <<pc, lastRV, cached, position, out>> BY <1>14, Zenon DEF PollGone, PollFails
  <2>3. LoopOK' BY <2>1, <2>2, LoopTurn, Zenon
  <2> QED BY <2>1, <2>3, Zenon DEF CacheInv
<1>15. CASE Failover \/ ListElsewhere
  <2>1. PgTypeOK' /\ RowsOK' /\ UNCHANGED tables BY <1>3, <1>4, <1>15, Zenon DEF Failover, ListElsewhere
  <2>2. UNCHANGED <<pc, lastRV, cached, open, position, out>>
    BY <1>15, Zenon DEF Failover, ListElsewhere, cacheVars, pollVars
  <2>3. LoopOK' BY <2>1, <2>2, LoopTurn, Zenon
  <2> QED BY <2>1, <2>3, Zenon DEF CacheInv
<1> QED BY <1>5, <1>6, <1>7, <1>8, <1>9, <1>10, <1>11, <1>12, <1>13, <1>14, <1>15, Zenon DEF Next, Informer, Driver, Faults

(* The events waiting leave a key alone that none of them is about.        *)
LEMMA ViewsStay ==
    ASSUME NEW v, NEW c, NEW q \in Seq(Event), Views(v, c, q), NEW key \in Keys,
           \A n \in 1..Len(q) : q[n].obj.key # key
    PROVE  v[Len(q)][key] = c[key]
<1> DEFINE Bad == {n \in 0..Len(q) : v[n][key] # c[key]}
<1>1. Len(q) \in Nat BY LenProperties, Zenon
<1>2. ASSUME Bad # {} PROVE FALSE
  <2>1. Bad \in SUBSET Nat BY <1>1
  <2>2. PICK m \in Bad : \A n \in Bad : m <= n
    <3> HIDE DEF Bad
    <3> QED BY <1>2, <2>1, LeastNat, Zenon
  <2>3. v[0] = c BY Zenon DEF Views
  <2>4. m # 0 /\ m \in 0..Len(q) BY <2>3, Zenon
  <2>5. m \in 1..Len(q) /\ m - 1 \in 0..Len(q) /\ ~(m <= m - 1) BY <1>1, <2>4
  <2>6. v[m - 1][key] = c[key] BY <2>2, <2>5, Zenon
  <2>7. v[m] = [v[m - 1] EXCEPT ![q[m].obj.key] = Leaves(q[m])] BY <2>5, Zenon DEF Views, ViewStep
  <2>8. v[m - 1] \in CachedObjects BY <2>5, Zenon DEF Views
  <2>9. v[m][key] = v[m - 1][key] BY <2>5, <2>7, <2>8, Zenon DEF CachedObjects
  <2> QED BY <2>2, <2>6, <2>9, Zenon
<1>3. Len(q) \in 0..Len(q) BY <1>1
<1> QED BY <1>2, <1>3, Zenon

LEMMA CacheInvImplies == CacheInv => ResumeNeverSkips
<1> SUFFICES ASSUME CacheInv, pc \notin {"off", "list"}, NEW key \in Keys, cached[key] # Live(key),
                    lastRV = 0 \/ ~(lastRV <= horizon)
             PROVE  rows[key] # NoObject /\ rows[key].seq > lastRV
  BY Zenon DEF ResumeNeverSkips
<1> USE DEF CacheInv
<1>1. /\ horizon \in Nat /\ rows \in Rows
      /\ rows[key] # NoObject => rows[key].seq > 0 /\ rows[key].seq \in Nat
  BY RowsParts, Zenon
<1>2. /\ lastRV \in Nat /\ Pos \in Nat /\ out \in Seq(Event) /\ lastRV <= Pos /\ cached \in CachedObjects
      /\ lastRV = 0 => cached = NoObjects
      /\ Following(cached, out, rows, lastRV, Pos, horizon)
  BY Zenon DEF LoopOK, Pos
<1>3. CASE lastRV = 0
  <2>1. Live(key) # NoObject BY <1>2, <1>3, Zenon DEF NoObjects
  <2>2. rows[key] # NoObject BY <2>1, Zenon DEF Live
  <2> QED BY <1>1, <1>3, <2>2, Zenon
<1>4. CASE lastRV # 0 /\ ~(lastRV <= horizon)
  <2>1. ~Missed(Pos, horizon) BY <1>1, <1>2, <1>4 DEF Missed
  <2>2. PICK S, v : Sent(S, out, lastRV, Pos) /\ Tracked(S, v, cached, out, rows, Pos, horizon)
    BY <1>2, <2>1, Zenon DEF Following
  <2>3. Len(out) \in Nat BY <1>2, LenProperties, Zenon
  <2>4. rows[key] # NoObject /\ rows[key].seq > Pos => rows[key].seq > lastRV BY <1>1, <1>2
  <2>5. CASE \A n \in 1..Len(out) : out[n].obj.key # key
    <3>1. Views(v, cached, out) BY <2>2, Zenon DEF Tracked
    <3>2. v[Len(out)][key] = cached[key] BY <1>2, <2>5, <3>1, ViewsStay
    <3>3. UpToDate(cached[key], rows[key], Pos) BY <2>2, <3>2, Zenon DEF Tracked
    <3>4. rows[key] # NoObject /\ rows[key].seq > Pos BY <3>3, Zenon DEF UpToDate, Live
    <3> QED BY <2>4, <3>4, Zenon
  <2>6. CASE \E n \in 1..Len(out) : out[n].obj.key = key
    <3> DEFINE W == {n \in 1..Len(out) : out[n].obj.key = key}
    <3>1. W \in SUBSET Nat /\ W # {} /\ \A n \in W : n <= Len(out) BY <2>3, <2>6
    <3>2. PICK n \in W : \A m \in W : m <= n
      <4> HIDE DEF W
      <4> QED BY <2>3, <3>1, HasGreatest, Zenon
    <3>3. n \in 1..Len(out) /\ out[n].obj.key = key BY Zenon
    <3>4. \A m \in 1..Len(out) : m > n => out[m].obj.key # out[n].obj.key
      <4> SUFFICES ASSUME NEW m \in 1..Len(out), m > n, out[m].obj.key = key PROVE FALSE BY <3>3, Zenon
      <4>1. m \in W BY Zenon
      <4>2. m <= n BY <3>2, <4>1, Zenon
      <4> QED BY <3>3, <4>2
    <3>5. /\ rows[key] = NoObject => S[n] <= horizon
          /\ rows[key] # NoObject /\ rows[key].seq <= Pos => S[n] = rows[key].seq
      <4>1. LastSent(S, out, rows, Pos, horizon) BY <2>2, Zenon DEF Tracked
      <4> HIDE DEF W
      <4> QED BY <3>3, <3>4, <4>1, Zenon DEF LastSent
    <3>6. S[n] \in Nat /\ lastRV < S[n] BY <2>2, <3>3, Zenon DEF Sent
    <3> HIDE DEF W
    <3>7. rows[key] # NoObject BY <1>1, <1>2, <1>4, <3>5, <3>6
    <3>8. CASE rows[key].seq <= Pos
      <4>1. S[n] = rows[key].seq BY <3>5, <3>7, <3>8, Zenon
      <4>2. rows[key].seq > lastRV BY <3>6, <4>1
      <4> QED BY <3>7, <4>2, Zenon
    <3>9. CASE ~(rows[key].seq <= Pos)
      <4>1. rows[key].seq > Pos BY <1>1, <1>2, <3>7, <3>9
      <4> QED BY <2>4, <3>7, <4>1, Zenon
    <3> QED BY <3>8, <3>9, Zenon
  <2> QED BY <2>5, <2>6, Zenon
<1> QED BY <1>2, <1>3, <1>4, Zenon

(* Whatever the interleaving of writes, compactions, polls, failovers,     *)
(* faults and reconnections, for any number of keys and writes, an         *)
(* informer without selectors never skips a change for good: a key it is   *)
(* behind on has a row past the version it resumes from, or that version   *)
(* is within the horizon and the informer relists (watchInformer's lastRV, *)
(* checkCompactionHorizon).                                                *)
THEOREM InformerResumes == PlainInformer => (Spec => []ResumeNeverSkips)
<1>1. PlainInformer /\ CacheInv /\ [Next]_pgCacheVars => CacheInv' BY CacheStep, Zenon
<1> SUFFICES ASSUME PlainInformer PROVE Spec => []ResumeNeverSkips BY Zenon
<1>2. CacheInv /\ [Next]_pgCacheVars => CacheInv' BY <1>1, Zenon
<1> QED BY <1>2, CacheInit, CacheInvImplies, PTL DEF Spec
=============================================================================
