--------------------------- MODULE InformerProofs ---------------------------
(***************************************************************************)
(* Theorems about the informer, for every value of the constants: any      *)
(* number of keys and handlers, any selector and transform, any writes.    *)
(***************************************************************************)
EXTENDS Informer, WellFoundedInduction, TLAPS

(* Facts about sequences, in the form the proofs below use them.           *)
LEMMA LenProperties ==
    ASSUME NEW S, NEW s \in Seq(S)
    PROVE  Len(s) \in Nat /\ DOMAIN s = 1..Len(s) /\ s \in [1..Len(s) -> S]
  OBVIOUS

LEMMA ElementOfSeq ==
    ASSUME NEW S, NEW s \in Seq(S), NEW n \in 1..Len(s)
    PROVE  s[n] \in S
  OBVIOUS

LEMMA EmptySeq ==
    ASSUME NEW S
    PROVE  <<>> \in Seq(S) /\ Len(<<>>) = 0 /\ \A s \in Seq(S) : s # <<>> => Len(s) \in Nat \ {0}
  OBVIOUS

LEMMA AppendProperties ==
    ASSUME NEW S, NEW s \in Seq(S), NEW e \in S
    PROVE  /\ Append(s, e) \in Seq(S) /\ Append(s, e) # <<>> /\ Len(Append(s, e)) = Len(s) + 1
           /\ (\A n \in 1..Len(s) : Append(s, e)[n] = s[n]) /\ Append(s, e)[Len(s) + 1] = e
  OBVIOUS

LEMMA AppendIsConcat ==
    ASSUME NEW S, NEW s \in Seq(S), NEW e \in S
    PROVE  Append(s, e) = s \o <<e>>
  OBVIOUS

LEMMA HeadTailProperties ==
    ASSUME NEW S, NEW s \in Seq(S), s # <<>>
    PROVE  /\ Head(s) \in S /\ Tail(s) \in Seq(S) /\ Len(Tail(s)) = Len(s) - 1
           /\ \A n \in 1..Len(Tail(s)) : Tail(s)[n] = s[n + 1]
  OBVIOUS

LEMMA HeadTailConcat ==
    ASSUME NEW S, NEW s \in Seq(S), s # <<>>
    PROVE  s = <<Head(s)>> \o Tail(s)
  OBVIOUS

LEMMA ConcatProperties ==
    ASSUME NEW S, NEW s \in Seq(S), NEW t \in Seq(S)
    PROVE  /\ s \o t \in Seq(S) /\ Len(s \o t) = Len(s) + Len(t)
           /\ \A n \in 1..(Len(s) + Len(t)) :
                 (s \o t)[n] = IF n <= Len(s) THEN s[n] ELSE t[n - Len(s)]
  OBVIOUS

LEMMA ConcatEmptySeq ==
    ASSUME NEW S, NEW s \in Seq(S)
    PROVE  s \o <<>> = s /\ <<>> \o s = s
  OBVIOUS

LEMMA SubSeqProperties ==
    ASSUME NEW S, NEW s, NEW m \in Int, NEW n \in Int, \A i \in m..n : s[i] \in S
    PROVE  /\ SubSeq(s, m, n) \in Seq(S) /\ Len(SubSeq(s, m, n)) = (IF m <= n THEN n - m + 1 ELSE 0)
           /\ \A i \in 1..(n - m + 1) : SubSeq(s, m, n)[i] = s[m + i - 1]
  OBVIOUS

LEMMA SubSeqFull ==
    ASSUME NEW S, NEW s \in Seq(S)
    PROVE  SubSeq(s, 1, Len(s)) = s
  OBVIOUS

LEMMA SubSeqRecursiveSecond ==
    ASSUME NEW S, NEW s \in Seq(S), NEW m \in 1..Len(s), NEW n \in m..Len(s)
    PROVE  SubSeq(s, m, n) = SubSeq(s, m, n - 1) \o <<s[n]>>
  OBVIOUS

(* A nonempty set of naturals has a least element.                         *)
LEMMA LeastNat ==
    ASSUME NEW T \in SUBSET Nat, T # {}
    PROVE  \E m \in T : \A n \in T : m <= n
<1>1. IsWellFoundedOn(OpToRel(<, Nat), Nat)
  BY NatLessThanWellFounded, Zenon
<1>2. PICK m \in T : \A n \in T : ~(<<n, m>> \in OpToRel(<, Nat))
  BY <1>1, WFMin, Zenon
<1>3. \A n \in T : ~(n < m)
  BY <1>2, Zenon DEF OpToRel
<1> QED
  BY <1>3

ObjectOrNone == Object \cup {NoObject}

(* The event is for the key, can follow the cached object x, and leads to  *)
(* y.                                                                      *)
Leads(x, event, key, y) ==
    /\ event \in cacheEvent /\ event.obj.key = key
    /\ Fits(x, event) /\ After(event) = y

(* The same, or an add over a cached object.                               *)
LeadsOrReadds(x, event, key, y) ==
    \/ Leads(x, event, key, y)
    \/ event.type = "add" /\ x # NoObject /\ Leads(NoObject, event, key, y)

(* What an operation of the informer may do to the cached objects c: every *)
(* key it changes has an event, and every event leads from the old object  *)
(* of its key to the new one, if it does not add it again.                 *)
EffectOK(c, effect) ==
    /\ effect.objects \in [Keys -> ObjectOrNone]
    /\ DOMAIN effect.events \subseteq Keys
    /\ \A key \in DOMAIN effect.events :
          LeadsOrReadds(c[key], effect.events[key], key, effect.objects[key])
    /\ \A key \in Keys \ DOMAIN effect.events : effect.objects[key] = c[key]

Keyed(objs) == \A key \in Keys : objs[key] # NoObject => objs[key].key = key

LEMMA NoObjectIsNone == NoObject \notin Object
  BY NoObjectAssumption, Zenon DEF Object

LEMMA ObjectParts ==
    ASSUME NEW obj \in Object
    PROVE  obj.key \in Keys /\ obj.spec \in Specs /\ obj.rv \in Nat /\ obj # NoObject
  BY NoObjectIsNone, Zenon DEF Object

(* The three kinds of cache events lead where they should.                 *)
LEMMA EventsLead ==
    ASSUME NEW key \in Keys, NEW obj \in Object, obj.key = key
    PROVE  /\ Leads(NoObject, AddEvent(obj), key, obj)
           /\ \A old \in Object : Leads(old, UpdateEvent(old, obj), key, obj)
           /\ \A old \in Object : Leads(old, DeleteEvent(obj), key, NoObject)
<1>1. /\ AddEvent(obj) \in cacheEvent
      /\ \A old \in Object : UpdateEvent(old, obj) \in cacheEvent
      /\ DeleteEvent(obj) \in cacheEvent
  BY Zenon DEF AddEvent, UpdateEvent, DeleteEvent, cacheEvent
<1> QED
  BY <1>1, NoObjectIsNone, Zenon DEF Leads, Fits, After, AddEvent, UpdateEvent, DeleteEvent

(* An operation with no effect.                                            *)
LEMMA NoEffectOK ==
    ASSUME NEW c \in [Keys -> ObjectOrNone]
    PROVE  EffectOK(c, Effect(c, NoEvents)) /\ DOMAIN Effect(c, NoEvents).events = {}
  BY Zenon DEF EffectOK, Effect, NoEvents

(* What add does.                                                          *)
LEMMA AddEffect ==
    ASSUME NEW c \in [Keys -> ObjectOrNone], NEW obj \in Object
    PROVE  /\ EffectOK(c, add(c, obj))
           /\ DOMAIN add(c, obj).events \subseteq {obj.key}
           /\ add(c, obj).objects[obj.key] =
                IF matchesSelectors(obj) /\ Transformable(obj) /\ Fresh(obj, c[obj.key]) THEN obj
                ELSE c[obj.key]
<1>1. obj.key \in Keys /\ obj # NoObject
  BY ObjectParts, Zenon
<1>2. CASE ~matchesSelectors(obj) \/ ~Transformable(obj) \/ ~Fresh(obj, c[obj.key])
  <2>1. add(c, obj) = Effect(c, NoEvents) BY <1>2, Zenon DEF add
  <2> QED BY <1>2, <2>1, NoEffectOK DEF Effect
<1>3. CASE ~(~matchesSelectors(obj) \/ ~Transformable(obj) \/ ~Fresh(obj, c[obj.key]))
  <2>1. add(c, obj) = Effect([c EXCEPT ![obj.key] = obj], OneEvent(obj.key, AddEvent(obj)))
    BY <1>3, Zenon DEF add
  <2>2. LeadsOrReadds(c[obj.key], AddEvent(obj), obj.key, obj)
    BY <1>1, EventsLead, Zenon DEF LeadsOrReadds, AddEvent
  <2>3. obj \in ObjectOrNone BY Zenon DEF ObjectOrNone
  <2>4. EffectOK(c, add(c, obj)) /\ DOMAIN add(c, obj).events = {obj.key}
        /\ add(c, obj).objects[obj.key] = obj
    BY <1>1, <2>1, <2>2, <2>3 DEF EffectOK, Effect, OneEvent
  <2> QED BY <1>3, <2>4, Zenon
<1> QED BY <1>2, <1>3, Zenon

(* What update does with a version newer than the cached one.              *)
LEMMA UpdateEffect ==
    ASSUME NEW c \in [Keys -> ObjectOrNone], Keyed(c), NEW obj \in Object, Fresh(obj, c[obj.key])
    PROVE  /\ EffectOK(c, update(c, obj))
           /\ DOMAIN update(c, obj).events \subseteq {obj.key}
           /\ update(c, obj).objects[obj.key] =
                IF ~matchesSelectors(obj) THEN NoObject
                ELSE IF Transformable(obj) THEN obj ELSE c[obj.key]
<1> DEFINE old == c[obj.key]
<1>1. obj.key \in Keys /\ obj # NoObject /\ old \in ObjectOrNone /\ NoObject \in ObjectOrNone
      /\ obj \in ObjectOrNone
  BY ObjectParts, Zenon DEF ObjectOrNone
<1>2. old # NoObject => old \in Object /\ old.key = obj.key
  BY <1>1, Zenon DEF ObjectOrNone, Keyed
<1>3. CASE IF matchesSelectors(obj) THEN ~Transformable(obj) ELSE old = NoObject
  <2>1. update(c, obj) = Effect(c, NoEvents) BY <1>3, Zenon DEF update
  <2> QED BY <1>3, <2>1, NoEffectOK DEF Effect
<1>4. CASE ~matchesSelectors(obj) /\ old # NoObject
  <2>1. update(c, obj) = Effect([c EXCEPT ![obj.key] = NoObject], OneEvent(obj.key, DeleteEvent(old)))
    BY <1>4, Zenon DEF update
  <2>2. LeadsOrReadds(old, DeleteEvent(old), obj.key, NoObject)
    BY <1>1, <1>2, <1>4, EventsLead, Zenon DEF LeadsOrReadds
  <2>3. EffectOK(c, update(c, obj)) /\ DOMAIN update(c, obj).events = {obj.key}
        /\ update(c, obj).objects[obj.key] = NoObject
    BY <1>1, <2>1, <2>2 DEF EffectOK, Effect, OneEvent
  <2> QED BY <1>4, <2>3, Zenon
<1>5. CASE matchesSelectors(obj) /\ Transformable(obj)
  <2> DEFINE event == IF old = NoObject THEN AddEvent(obj) ELSE UpdateEvent(old, obj)
  <2>1. update(c, obj) = Effect([c EXCEPT ![obj.key] = obj], OneEvent(obj.key, event))
    BY <1>5, Zenon DEF update
  <2>2. LeadsOrReadds(old, event, obj.key, obj) BY <1>1, <1>2, EventsLead, Zenon DEF LeadsOrReadds
  <2> HIDE DEF event
  <2>3. EffectOK(c, update(c, obj)) /\ DOMAIN update(c, obj).events = {obj.key}
        /\ update(c, obj).objects[obj.key] = obj
    BY <1>1, <2>1, <2>2 DEF EffectOK, Effect, OneEvent
  <2> QED BY <1>5, <2>3, Zenon
<1> QED BY <1>3, <1>4, <1>5, Zenon

(* What delete does.                                                       *)
LEMMA DeleteEffect ==
    ASSUME NEW c \in [Keys -> ObjectOrNone], Keyed(c), NEW obj \in Object
    PROVE  /\ EffectOK(c, delete(c, obj))
           /\ DOMAIN delete(c, obj).events \subseteq {obj.key}
           /\ delete(c, obj).objects[obj.key] = NoObject
<1> DEFINE old == c[obj.key]
<1>1. obj.key \in Keys /\ old \in ObjectOrNone /\ NoObject \in ObjectOrNone
  BY ObjectParts, Zenon DEF ObjectOrNone
<1>2. CASE old = NoObject
  <2>1. delete(c, obj) = Effect(c, NoEvents) BY <1>2, Zenon DEF delete
  <2> QED BY <1>2, <2>1, NoEffectOK DEF Effect
<1>3. CASE old # NoObject
  <2>1. delete(c, obj) = Effect([c EXCEPT ![obj.key] = NoObject], OneEvent(obj.key, DeleteEvent(old)))
    BY <1>3, Zenon DEF delete
  <2>2. old \in Object /\ old.key = obj.key BY <1>1, <1>3, Zenon DEF ObjectOrNone, Keyed
  <2>3. LeadsOrReadds(old, DeleteEvent(old), obj.key, NoObject)
    BY <1>1, <2>2, EventsLead, Zenon DEF LeadsOrReadds
  <2>4. EffectOK(c, delete(c, obj)) /\ DOMAIN delete(c, obj).events = {obj.key}
        /\ delete(c, obj).objects[obj.key] = NoObject
    BY <1>1, <2>1, <2>3 DEF EffectOK, Effect, OneEvent
  <2> QED BY <2>4, Zenon
<1> QED BY <1>2, <1>3, Zenon

(* What a relist leaves in the cache, and that it announces the difference *)
(* between the two, if the resourceVersion tells versions apart.           *)
LEMMA ReplaceEffect ==
    ASSUME NEW c \in [Keys -> ObjectOrNone], Keyed(c), NEW t \in [Keys -> ObjectOrNone], Keyed(t),
           NEW listing \in SUBSET Object,
           \A obj \in listing : obj = t[obj.key],
           \A key \in Keys : c[key] # NoObject => c[key].rv # 0,
           \A key \in Keys : t[key] # NoObject => t[key].rv # 0,
           \A key \in Keys : /\ t[key] # NoObject /\ c[key] # NoObject /\ t[key].rv = c[key].rv
                             => t[key] = c[key]
    PROVE  /\ EffectOK(c, replaceAll(c, listing))
           /\ \A key \in Keys : replaceAll(c, listing).objects[key] =
                IF t[key] \in listing /\ matchesSelectors(t[key]) /\ Transformable(t[key]) THEN t[key]
                ELSE NoObject
<1> DEFINE kept(key) == \E obj \in listing : obj.key = key /\ matchesSelectors(obj) /\ Transformable(obj)
           new == [key \in Keys |-> IF kept(key) THEN CHOOSE obj \in listing : obj.key = key ELSE NoObject]
           version(obj) == IF obj = NoObject THEN 0 ELSE obj.rv
           changed == {key \in Keys : version(c[key]) # version(new[key])}
           event(key) == IF new[key] = NoObject THEN DeleteEvent(c[key])
                         ELSE IF c[key] = NoObject THEN AddEvent(new[key])
                         ELSE UpdateEvent(c[key], new[key])
           effect == Effect(new, [key \in changed |-> event(key)])
<1>1. replaceAll(c, listing) = effect
  BY Zenon DEF replaceAll
<1>2. ASSUME NEW key \in Keys
      PROVE  new[key] = IF t[key] \in listing /\ matchesSelectors(t[key]) /\ Transformable(t[key])
                        THEN t[key] ELSE NoObject
  <2>1. CASE kept(key)
    <3> DEFINE chosen == CHOOSE obj \in listing : obj.key = key
    <3>1. chosen \in listing /\ chosen.key = key BY <2>1, Zenon
    <3>2. chosen = t[key] BY <3>1, Zenon
    <3>3. PICK obj \in listing : obj.key = key /\ matchesSelectors(obj) /\ Transformable(obj) BY <2>1, Zenon
    <3>4. obj = t[key] BY <3>3, Zenon
    <3> QED BY <2>1, <3>1, <3>2, <3>3, <3>4, Zenon
  <2>2. CASE ~kept(key)
    <3>1. t[key] \in listing => t[key].key = key
      BY NoObjectIsNone, Zenon DEF Keyed
    <3> QED BY <2>2, <3>1, Zenon
  <2> QED BY <2>1, <2>2, Zenon
<1>3. ASSUME NEW key \in Keys
      PROVE  /\ new[key] \in ObjectOrNone /\ c[key] \in ObjectOrNone
             /\ new[key] # NoObject => new[key] = t[key] /\ new[key] \in Object /\ new[key].key = key
             /\ c[key] # NoObject => c[key] \in Object /\ c[key].key = key
  BY <1>2 DEF ObjectOrNone, Keyed
<1> HIDE DEF new
<1>4. ASSUME NEW key \in changed PROVE Leads(c[key], event(key), key, new[key])
  <2>1. c[key] # NoObject \/ new[key] # NoObject
    BY <1>4, Zenon
  <2> QED BY <1>3, <2>1, EventsLead
<1>5. ASSUME NEW key \in Keys, key \notin changed PROVE new[key] = c[key]
  <2>1. version(c[key]) = version(new[key]) BY <1>5, Zenon
  <2> QED BY <1>3, <2>1
<1>6. new \in [Keys -> ObjectOrNone]
  BY <1>3, Zenon DEF new
<1>7. effect.objects = new /\ DOMAIN effect.events = changed /\ \A key \in changed : effect.events[key] = event(key)
  BY Zenon DEF Effect
<1> HIDE DEF effect, changed, event
<1>8. changed \subseteq Keys
  BY Zenon DEF changed
<1>9. EffectOK(c, effect)
  BY <1>4, <1>5, <1>6, <1>7, <1>8, Zenon DEF EffectOK, LeadsOrReadds
<1> QED
  BY <1>1, <1>2, <1>7, <1>9, Zenon

(* What a resync does.                                                     *)
LEMMA ResyncEffect ==
    ASSUME NEW c \in [Keys -> ObjectOrNone], Keyed(c)
    PROVE  EffectOK(c, resync(c)) /\ resync(c).objects = c
<1> DEFINE present == {k \in Keys : c[k] # NoObject}
<1>1. /\ resync(c).objects = c /\ DOMAIN resync(c).events = present
      /\ \A key \in present : resync(c).events[key] = UpdateEvent(c[key], c[key])
  BY Zenon DEF resync, Effect
<1>2. ASSUME NEW key \in present PROVE Leads(c[key], UpdateEvent(c[key], c[key]), key, c[key])
  <2>1. c[key] \in Object /\ c[key].key = key /\ key \in Keys BY Zenon DEF ObjectOrNone, Keyed
  <2> QED BY <2>1, EventsLead, Zenon
<1>3. present \subseteq Keys BY Zenon
<1> HIDE DEF present
<1> QED BY <1>1, <1>2, <1>3, Zenon DEF EffectOK, LeadsOrReadds

(* What dispatching an event newer than the cached object does.            *)
LEMMA DispatchEffect ==
    ASSUME NEW c \in [Keys -> ObjectOrNone], Keyed(c), NEW event, event.obj \in Object,
           event.type \in {"ADDED", "MODIFIED", "DELETED"}, Fresh(event.obj, c[event.obj.key])
    PROVE  /\ EffectOK(c, Dispatch(c, event))
           /\ DOMAIN Dispatch(c, event).events \subseteq {event.obj.key}
           /\ Dispatch(c, event).objects[event.obj.key] =
                IF event.type = "DELETED" THEN NoObject
                ELSE IF ~matchesSelectors(event.obj)
                     THEN IF event.type = "ADDED" THEN c[event.obj.key] ELSE NoObject
                ELSE IF Transformable(event.obj) THEN event.obj ELSE c[event.obj.key]
<1>1. CASE event.type = "ADDED"
  BY <1>1, AddEffect, Zenon DEF Dispatch
<1>2. CASE event.type = "MODIFIED"
  BY <1>2, UpdateEffect, Zenon DEF Dispatch
<1>3. CASE event.type = "DELETED"
  BY <1>3, DeleteEffect, Zenon DEF Dispatch
<1> QED BY <1>1, <1>2, <1>3, Zenon
-----------------------------------------------------------------------------
(***************************************************************************)
(* The queue: what Push and drained do to a key's events.                  *)
(***************************************************************************)
DrainStep(q, f, i) == IF i = 0 THEN <<>> ELSE f[i - 1] \o EventsAt(q, i)

(* There is a function that satisfies the recursion of drained.            *)
LEMMA DrainExists ==
    ASSUME NEW q
    PROVE  \A len \in Nat : \E f : f = [i \in 0..len |-> DrainStep(q, f, i)]
<1> DEFINE good(n) == \E f : f = [i \in 0..n |-> DrainStep(q, f, i)]
           bad == {n \in Nat : ~good(n)}
<1>1. good(0)
  <2> DEFINE f == [i \in 0..0 |-> <<>>]
  <2>1. f = [i \in 0..0 |-> DrainStep(q, f, i)]
    BY DEF DrainStep
  <2> QED BY <2>1, Zenon
<1>2. ASSUME NEW n \in Nat, good(n) PROVE good(n + 1)
  <2>1. PICK f : f = [i \in 0..n |-> DrainStep(q, f, i)]
    BY <1>2, Zenon
  <2> DEFINE g == [i \in 0..(n + 1) |-> IF i <= n THEN f[i] ELSE DrainStep(q, f, i)]
  <2>2. ASSUME NEW i \in 0..(n + 1) PROVE g[i] = DrainStep(q, g, i)
    <3>1. DrainStep(q, g, i) = DrainStep(q, f, i)
      <4>1. CASE i = 0 BY <4>1, Zenon DEF DrainStep
      <4>2. CASE i # 0
        <5>1. i - 1 \in 0..n /\ i - 1 \in 0..(n + 1) BY <4>2
        <5>2. g[i - 1] = f[i - 1] BY <5>1
        <5> HIDE DEF g
        <5> QED BY <4>2, <5>2, Zenon DEF DrainStep
      <4> QED BY <4>1, <4>2, Zenon
    <3>2. CASE i <= n
      <4>1. f[i] = DrainStep(q, f, i) BY <2>1, <3>2
      <4> QED BY <3>1, <3>2, <4>1, Zenon
    <3>3. CASE ~(i <= n) BY <3>1, <3>3, Zenon
    <3> QED BY <3>2, <3>3, Zenon
  <2>3. g = [i \in 0..(n + 1) |-> DrainStep(q, g, i)]
    BY <2>2, Zenon
  <2> QED BY <2>3, Zenon
<1>3. bad = {}
  <2> SUFFICES ASSUME bad # {} PROVE FALSE BY Zenon
  <2>1. PICK m \in bad : \A n \in bad : m <= n BY LeastNat, Zenon
  <2>2. m # 0 BY <1>1, <2>1, Zenon
  <2>3. m - 1 \in Nat /\ m - 1 \notin bad BY <2>1, <2>2
  <2>4. good(m - 1) BY <2>3, Zenon
  <2>5. good(m - 1 + 1) BY <1>2, <2>3, <2>4, Zenon
  <2>6. m - 1 + 1 = m BY <2>1
  <2>7. good(m) BY <2>5, <2>6, Zenon
  <2> QED BY <2>1, <2>7, Zenon
<1> QED BY <1>3, Zenon

(* drained concatenates the keys' events from the left.                    *)
LEMMA DrainedIsConcat ==
    ASSUME NEW q \in eventQueue
    PROVE  \E f : /\ f[0] = <<>>
                  /\ f[Len(q.order)] = drained(q)
                  /\ \A i \in 1..Len(q.order) : f[i] = f[i - 1] \o EventsAt(q, i)
<1>1. Len(q.order) \in Nat
  BY LenProperties, Zenon DEF eventQueue
<1> DEFINE f == CHOOSE f : f = [i \in 0..Len(q.order) |-> DrainStep(q, f, i)]
<1>2. f = [i \in 0..Len(q.order) |-> DrainStep(q, f, i)]
  BY <1>1, DrainExists, Zenon
<1>3. drained(q) = f[Len(q.order)]
  BY Zenon DEF drained, DrainStep
<1> HIDE DEF f
<1>4. \A i \in 0..Len(q.order) : f[i] = DrainStep(q, f, i)
  BY <1>2, Zenon
<1>5. f[0] = <<>>
  BY <1>1, <1>4 DEF DrainStep
<1>6. ASSUME NEW i \in 1..Len(q.order) PROVE f[i] = f[i - 1] \o EventsAt(q, i)
  <2>1. i \in 0..Len(q.order) /\ i # 0 BY <1>1
  <2>2. f[i] = DrainStep(q, f, i) BY <1>4, <2>1, Zenon
  <2> QED BY <2>1, <2>2, Zenon DEF DrainStep
<1> QED BY <1>3, <1>5, <1>6, Zenon

(* The events pending for a key are events of that key.                    *)
OwnEvents(q) ==
    /\ q \in eventQueue
    /\ \A key \in Keys : \A n \in DOMAIN q.pending[key] : q.pending[key][n].obj.key = key

(* What coalesceEvents and Push return is for the key.                     *)
LEMMA PushType ==
    ASSUME NEW key \in Keys, NEW s \in Seq(cacheEvent), NEW event \in cacheEvent, event.obj.key = key,
           \A n \in DOMAIN s : s[n].obj.key = key
    PROVE  /\ Push(s, event) \in Seq(cacheEvent)
           /\ \A n \in DOMAIN Push(s, event) : Push(s, event)[n].obj.key = key
           /\ event.type # "delete" => Push(s, event) # <<>>
<1> DEFINE last == s[Len(s)]
<1>1. Len(s) \in Nat /\ DOMAIN s = 1..Len(s) /\ \A n \in DOMAIN s : s[n] \in cacheEvent
  BY LenProperties, ElementOfSeq, Zenon
<1>2. CASE s = <<>> \/ (last.type = "delete" /\ event.type = "add")
  <2>1. Push(s, event) = Append(s, event) BY <1>2, Zenon DEF Push
  <2>2. /\ Append(s, event) \in Seq(cacheEvent) /\ Len(Append(s, event)) = Len(s) + 1
        /\ \A n \in 1..Len(s) : Append(s, event)[n] = s[n]
        /\ Append(s, event)[Len(s) + 1] = event
    BY AppendProperties
  <2>3. DOMAIN Append(s, event) = 1..(Len(s) + 1) BY <2>2, LenProperties, Zenon
  <2>4. \A n \in 1..(Len(s) + 1) : n \in 1..Len(s) \/ n = Len(s) + 1 BY <1>1
  <2>5. Append(s, event) # <<>> BY <1>1, <2>2
  <2> QED BY <1>1, <2>1, <2>2, <2>3, <2>4, <2>5, Zenon
<1>3. CASE ~(s = <<>> \/ (last.type = "delete" /\ event.type = "add"))
  <2> DEFINE front == SubSeq(s, 1, Len(s) - 1)
             new == coalesceEvents(last, event)
  <2>1. Push(s, event) = front \o new BY <1>3, Zenon DEF Push
  <2>2. Len(s) \in 1..Len(s) BY <1>1, <1>3, EmptySeq
  <2>3. last \in cacheEvent BY <1>1, <2>2, Zenon DEF last
  <2>4. /\ front \in Seq(cacheEvent) /\ Len(front) = Len(s) - 1
        /\ \A n \in 1..(Len(s) - 1) : front[n] = s[n]
    BY <1>1, <2>2
  <2>5. /\ new \in Seq(cacheEvent)
        /\ \A n \in DOMAIN new : new[n].obj.key = key
        /\ event.type # "delete" => Len(new) = 1
    <3>1. /\ AddEvent(event.obj) \in cacheEvent /\ DeleteEvent(event.obj) \in cacheEvent
          /\ UpdateEvent(last.old, event.obj) \in cacheEvent
          /\ AddEvent(event.obj).obj = event.obj /\ DeleteEvent(event.obj).obj = event.obj
          /\ UpdateEvent(last.old, event.obj).obj = event.obj
      BY <2>3, Zenon DEF cacheEvent, AddEvent, DeleteEvent, UpdateEvent
    <3>2. \/ new = <<AddEvent(event.obj)>> \/ new = <<DeleteEvent(event.obj)>>
          \/ new = <<UpdateEvent(last.old, event.obj)>> \/ new = <<event>>
          \/ (new = <<>> /\ event.type = "delete")
      BY Zenon DEF coalesceEvents
    <3> HIDE DEF new
    <3>3. CASE new = <<>> /\ event.type = "delete" BY <3>3
    <3>4. CASE ~(new = <<>> /\ event.type = "delete")
      <4>1. PICK e \in cacheEvent : new = <<e>> /\ e.obj.key = key BY <3>1, <3>2, <3>4, Zenon
      <4>2. new \in Seq(cacheEvent) /\ Len(new) = 1 /\ new[1] = e BY <4>1
      <4>3. DOMAIN new = {1} BY <4>2
      <4> QED BY <4>1, <4>2, <4>3, Zenon
    <3> QED BY <3>3, <3>4, Zenon
  <2> HIDE DEF front, new
  <2>6. /\ front \o new \in Seq(cacheEvent) /\ Len(front \o new) = Len(front) + Len(new)
        /\ \A n \in 1..(Len(front) + Len(new)) :
              (front \o new)[n] = IF n <= Len(front) THEN front[n] ELSE new[n - Len(front)]
    BY <2>4, <2>5, ConcatProperties, Zenon
  <2>7. Len(new) \in Nat /\ DOMAIN new = 1..Len(new) /\ DOMAIN (front \o new) = 1..(Len(front) + Len(new))
    BY <2>5, <2>6, LenProperties, Zenon
  <2>8. ASSUME NEW n \in DOMAIN (front \o new) PROVE (front \o new)[n].obj.key = key
    <3>1. CASE n <= Len(front)
      <4>1. n \in 1..(Len(s) - 1) /\ n \in DOMAIN s BY <1>1, <2>4, <2>7, <3>1
      <4> QED BY <2>4, <2>6, <2>7, <3>1, <4>1, Zenon
    <3>2. CASE ~(n <= Len(front))
      <4>1. n - Len(front) \in DOMAIN new BY <1>1, <2>2, <2>4, <2>7, <3>2
      <4> QED BY <2>5, <2>6, <2>7, <3>2, <4>1, Zenon
    <3> QED BY <3>1, <3>2, Zenon
  <2>9. event.type # "delete" => Len(front \o new) # 0 BY <1>1, <2>2, <2>4, <2>5, <2>6
  <2> QED BY <2>1, <2>6, <2>8, <2>9
<1> QED BY <1>2, <1>3, Zenon

(* A handler that knows the object of the key as x can be given the event, *)
(* and knows it as y then.                                                 *)
PathStep(x, event, key, y) ==
    IF event.obj.key = key THEN Fits(x, event) /\ y = After(event) ELSE y = x

(* The events of s lead such a handler from x to y, one by one.            *)
Path(x, s, key, y) ==
    \E v \in [0..Len(s) -> ObjectOrNone] :
        /\ v[0] = x /\ v[Len(s)] = y
        /\ \A n \in 1..Len(s) : PathStep(v[n - 1], s[n], key, v[n])

LEMMA AfterType ==
    ASSUME NEW event \in cacheEvent
    PROVE  After(event) \in ObjectOrNone
  BY Zenon DEF After, cacheEvent, ObjectOrNone

LEMMA PathEmpty ==
    ASSUME NEW x \in ObjectOrNone, NEW key, NEW y
    PROVE  Path(x, <<>>, key, y) <=> x = y
<1>1. Path(x, <<>>, key, y) => x = y
  BY Zenon DEF Path
<1>2. Path(x, <<>>, key, x)
  <2> DEFINE v == [n \in 0..0 |-> x]
  <2>1. v \in [0..Len(<<>>) -> ObjectOrNone] /\ v[0] = x /\ v[Len(<<>>)] = x
    OBVIOUS
  <2>2. \A n \in 1..Len(<<>>) : PathStep(v[n - 1], <<>>[n], key, v[n])
    OBVIOUS
  <2> HIDE DEF v
  <2> QED BY <2>1, <2>2, Zenon DEF Path
<1> QED BY <1>1, <1>2, Zenon

(* A path through events of other keys stays where it is.                  *)
LEMMA PathNone ==
    ASSUME NEW x \in ObjectOrNone, NEW s \in Seq(cacheEvent), NEW key,
           \A n \in DOMAIN s : s[n].obj.key # key
    PROVE  Path(x, s, key, x)
<1> DEFINE v == [n \in 0..Len(s) |-> x]
<1>1. Len(s) \in Nat /\ DOMAIN s = 1..Len(s) BY LenProperties, Zenon
<1>2. v \in [0..Len(s) -> ObjectOrNone] /\ v[0] = x /\ v[Len(s)] = x BY <1>1
<1>3. \A n \in 1..Len(s) : v[n - 1] = x /\ v[n] = x BY <1>1
<1>4. \A n \in 1..Len(s) : PathStep(v[n - 1], s[n], key, v[n]) BY <1>1, <1>3, Zenon DEF PathStep
<1> HIDE DEF v
<1> QED BY <1>2, <1>4, Zenon DEF Path

LEMMA PathType ==
    ASSUME NEW x, NEW s \in Seq(cacheEvent), NEW key, NEW y, Path(x, s, key, y)
    PROVE  x \in ObjectOrNone /\ y \in ObjectOrNone
<1>1. Len(s) \in Nat BY LenProperties, Zenon
<1> QED BY <1>1 DEF Path

(* Paths are put together.                                                 *)
LEMMA PathConcat ==
    ASSUME NEW s \in Seq(cacheEvent), NEW t \in Seq(cacheEvent), NEW key, NEW x, NEW y, NEW z,
           Path(x, s, key, z), Path(z, t, key, y)
    PROVE  Path(x, s \o t, key, y)
<1>1. PICK v \in [0..Len(s) -> ObjectOrNone] :
         /\ v[0] = x /\ v[Len(s)] = z
         /\ \A n \in 1..Len(s) : PathStep(v[n - 1], s[n], key, v[n])
  BY Zenon DEF Path
<1>2. PICK u \in [0..Len(t) -> ObjectOrNone] :
         /\ u[0] = z /\ u[Len(t)] = y
         /\ \A n \in 1..Len(t) : PathStep(u[n - 1], t[n], key, u[n])
  BY Zenon DEF Path
<1>3. /\ Len(s) \in Nat /\ Len(t) \in Nat /\ Len(s \o t) = Len(s) + Len(t)
      /\ \A n \in 1..(Len(s) + Len(t)) : (s \o t)[n] = IF n <= Len(s) THEN s[n] ELSE t[n - Len(s)]
  BY ConcatProperties, LenProperties, Zenon
<1> DEFINE w == [n \in 0..(Len(s) + Len(t)) |-> IF n <= Len(s) THEN v[n] ELSE u[n - Len(s)]]
<1>4. \A n \in 0..Len(s) : w[n] = v[n]
  <2> TAKE n \in 0..Len(s)
  <2>1. n \in 0..(Len(s) + Len(t)) /\ n <= Len(s) BY <1>3
  <2> QED BY <2>1, Zenon
<1>5. \A n \in 0..Len(t) : w[n + Len(s)] = u[n]
  <2> TAKE n \in 0..Len(t)
  <2>1. CASE n = 0 BY <1>1, <1>2, <1>3, <2>1
  <2>2. CASE n # 0
    <3>1. n + Len(s) \in 0..(Len(s) + Len(t)) /\ ~(n + Len(s) <= Len(s)) /\ n + Len(s) - Len(s) = n BY <1>3, <2>2
    <3> QED BY <3>1
  <2> QED BY <2>1, <2>2, Zenon
<1>6. w \in [0..(Len(s) + Len(t)) -> ObjectOrNone]
  <2> SUFFICES ASSUME NEW n \in 0..(Len(s) + Len(t))
               PROVE  (IF n <= Len(s) THEN v[n] ELSE u[n - Len(s)]) \in ObjectOrNone
    BY Zenon
  <2>1. CASE n <= Len(s) BY <1>3, <2>1
  <2>2. CASE ~(n <= Len(s))
    <3>1. n - Len(s) \in 0..Len(t) BY <1>3, <2>2
    <3> QED BY <2>2, <3>1, Zenon
  <2> QED BY <2>1, <2>2, Zenon
<1> HIDE DEF w
<1>7. w[0] = x /\ w[Len(s) + Len(t)] = y
  <2>0. Len(t) \in 0..Len(t) BY <1>3
  <2>1. w[Len(t) + Len(s)] = u[Len(t)] BY <1>5, <2>0, Zenon
  <2>2. Len(t) + Len(s) = Len(s) + Len(t) BY <1>3
  <2> QED BY <1>1, <1>2, <1>3, <1>4, <2>1, <2>2
<1>8. ASSUME NEW n \in 1..(Len(s) + Len(t)) PROVE PathStep(w[n - 1], (s \o t)[n], key, w[n])
  <2>1. CASE n <= Len(s)
    <3>1. n \in 1..Len(s) /\ n \in 0..Len(s) /\ n - 1 \in 0..Len(s) BY <1>3, <2>1
    <3> QED BY <1>1, <1>3, <1>4, <2>1, <3>1, Zenon
  <2>2. CASE ~(n <= Len(s))
    <3> DEFINE m == n - Len(s)
    <3>1. m \in 1..Len(t) /\ m \in 0..Len(t) /\ m - 1 \in 0..Len(t) /\ m + Len(s) = n /\ m - 1 + Len(s) = n - 1
      BY <1>3, <2>2
    <3>2. (s \o t)[n] = t[m] BY <1>3, <2>2, Zenon
    <3>3. w[n] = u[m] /\ w[n - 1] = u[m - 1] BY <1>5, <3>1, Zenon
    <3>4. PathStep(u[m - 1], t[m], key, u[m]) BY <1>2, <3>1, Zenon
    <3> QED BY <3>2, <3>3, <3>4, Zenon
  <2> QED BY <2>1, <2>2, Zenon
<1> QED BY <1>3, <1>6, <1>7, <1>8, Zenon DEF Path

(* And taken apart.                                                        *)
LEMMA PathSplit ==
    ASSUME NEW s \in Seq(cacheEvent), NEW t \in Seq(cacheEvent), NEW key, NEW x, NEW y,
           Path(x, s \o t, key, y)
    PROVE  \E z \in ObjectOrNone : Path(x, s, key, z) /\ Path(z, t, key, y)
<1>1. /\ Len(s) \in Nat /\ Len(t) \in Nat /\ Len(s \o t) = Len(s) + Len(t)
      /\ \A n \in 1..(Len(s) + Len(t)) : (s \o t)[n] = IF n <= Len(s) THEN s[n] ELSE t[n - Len(s)]
  BY ConcatProperties, LenProperties, Zenon
<1>2. PICK w \in [0..(Len(s) + Len(t)) -> ObjectOrNone] :
         /\ w[0] = x /\ w[Len(s) + Len(t)] = y
         /\ \A n \in 1..(Len(s) + Len(t)) : PathStep(w[n - 1], (s \o t)[n], key, w[n])
  BY <1>1, Zenon DEF Path
<1> DEFINE v == [n \in 0..Len(s) |-> w[n]]
           u == [n \in 0..Len(t) |-> w[n + Len(s)]]
<1>3. \A n \in 0..Len(s) : n \in 0..(Len(s) + Len(t)) BY <1>1
<1>4. \A n \in 0..Len(t) : n + Len(s) \in 0..(Len(s) + Len(t)) BY <1>1
<1>5. Path(x, s, key, w[Len(s)])
  <2>1. v \in [0..Len(s) -> ObjectOrNone] BY <1>3, Zenon
  <2>2. v[0] = x /\ v[Len(s)] = w[Len(s)] BY <1>1, <1>2
  <2>3. ASSUME NEW n \in 1..Len(s) PROVE PathStep(v[n - 1], s[n], key, v[n])
    <3>1. n \in 1..(Len(s) + Len(t)) /\ n \in 0..Len(s) /\ n - 1 \in 0..Len(s) /\ n <= Len(s) BY <1>1
    <3>2. (s \o t)[n] = s[n] BY <1>1, <3>1, Zenon
    <3>3. v[n] = w[n] /\ v[n - 1] = w[n - 1] BY <3>1, Zenon
    <3> HIDE DEF v
    <3> QED BY <1>2, <3>1, <3>2, <3>3, Zenon
  <2> HIDE DEF v
  <2> QED BY <2>1, <2>2, <2>3, Zenon DEF Path
<1>6. Path(w[Len(s)], t, key, y)
  <2>1. u \in [0..Len(t) -> ObjectOrNone] BY <1>4, Zenon
  <2>2. u[0] = w[Len(s)] /\ u[Len(t)] = y
    <3>1. 0 + Len(s) = Len(s) /\ Len(t) + Len(s) = Len(s) + Len(t) /\ 0 \in 0..Len(t) /\ Len(t) \in 0..Len(t) BY <1>1
    <3> QED BY <1>2, <3>1, Zenon
  <2>3. ASSUME NEW n \in 1..Len(t) PROVE PathStep(u[n - 1], t[n], key, u[n])
    <3>1. /\ n + Len(s) \in 1..(Len(s) + Len(t)) /\ n \in 0..Len(t) /\ n - 1 \in 0..Len(t)
          /\ ~(n + Len(s) <= Len(s)) /\ n + Len(s) - Len(s) = n /\ n - 1 + Len(s) = n + Len(s) - 1
      BY <1>1
    <3>2. (s \o t)[n + Len(s)] = t[n] BY <1>1, <3>1
    <3>3. u[n] = w[n + Len(s)] /\ u[n - 1] = w[n + Len(s) - 1] BY <3>1, Zenon
    <3> HIDE DEF u
    <3> QED BY <1>2, <3>1, <3>2, <3>3, SMTT(20)
  <2> HIDE DEF u
  <2> QED BY <2>1, <2>2, <2>3, Zenon DEF Path
<1>7. w[Len(s)] \in ObjectOrNone BY <1>1
<1> QED BY <1>5, <1>6, <1>7, Zenon

(* A path of one event.                                                    *)
LEMMA PathOne ==
    ASSUME NEW x \in ObjectOrNone, NEW event \in cacheEvent, NEW key, NEW y
    PROVE  Path(x, <<event>>, key, y) <=> PathStep(x, event, key, y)
<1>1. Len(<<event>>) = 1 /\ <<event>>[1] = event
  BY Zenon
<1>2. ASSUME Path(x, <<event>>, key, y) PROVE PathStep(x, event, key, y)
  <2>1. PICK v \in [0..1 -> ObjectOrNone] :
           v[0] = x /\ v[1] = y /\ \A n \in 1..1 : PathStep(v[n - 1], <<event>>[n], key, v[n])
    BY <1>1, <1>2, Zenon DEF Path
  <2>2. PathStep(v[1 - 1], <<event>>[1], key, v[1]) BY <2>1
  <2> QED BY <1>1, <2>1, <2>2
<1>3. ASSUME PathStep(x, event, key, y) PROVE Path(x, <<event>>, key, y)
  <2> DEFINE v == [n \in 0..1 |-> IF n = 0 THEN x ELSE y]
  <2>1. y \in ObjectOrNone BY <1>3, AfterType, Zenon DEF PathStep
  <2>2. v \in [0..1 -> ObjectOrNone] /\ v[0] = x /\ v[1] = y BY <2>1
  <2> HIDE DEF v
  <2>3. \A n \in 1..1 : PathStep(v[n - 1], <<event>>[n], key, v[n])
    <3> TAKE n \in 1..1
    <3>1. n = 1 /\ n - 1 = 0 OBVIOUS
    <3> QED BY <1>1, <1>3, <2>2, <3>1, Zenon
  <2> QED BY <1>1, <2>2, <2>3, Zenon DEF Path
<1> QED BY <1>2, <1>3, Zenon

(* The recursion of StreamLeadsToCache computes the path.                  *)
AtStep(x, s, key, f, n) ==
    IF n = 0 THEN x
    ELSE IF s[n].obj.key = key THEN After(s[n]) ELSE f[n - 1]

Reached(x, s, key) == CHOOSE f : f = [n \in 0..Len(s) |-> AtStep(x, s, key, f, n)]

LEMMA PathIsReached ==
    ASSUME NEW s \in Seq(cacheEvent), NEW key, NEW x, NEW y, Path(x, s, key, y)
    PROVE  /\ \A n \in DOMAIN s : s[n].obj.key = key => Fits(Reached(x, s, key)[n - 1], s[n])
           /\ Reached(x, s, key)[Len(s)] = y
<1>1. Len(s) \in Nat /\ DOMAIN s = 1..Len(s)
  BY LenProperties, Zenon
<1>2. PICK v \in [0..Len(s) -> ObjectOrNone] :
         /\ v[0] = x /\ v[Len(s)] = y
         /\ \A n \in 1..Len(s) : PathStep(v[n - 1], s[n], key, v[n])
  BY Zenon DEF Path
<1>3. v = [n \in 0..Len(s) |-> AtStep(x, s, key, v, n)]
  <2>1. ASSUME NEW n \in 0..Len(s) PROVE v[n] = AtStep(x, s, key, v, n)
    <3>1. CASE n = 0 BY <1>2, <3>1, Zenon DEF AtStep
    <3>2. CASE n # 0
      <4>1. n \in 1..Len(s) BY <1>1, <3>2
      <4>2. PathStep(v[n - 1], s[n], key, v[n]) BY <1>2, <4>1, Zenon
      <4> QED BY <3>2, <4>2, Zenon DEF AtStep, PathStep
    <3> QED BY <3>1, <3>2, Zenon
  <2> QED BY <2>1, Zenon
<1> DEFINE f == Reached(x, s, key)
<1>4. f = [n \in 0..Len(s) |-> AtStep(x, s, key, f, n)]
  BY <1>3, Zenon DEF Reached
<1> HIDE DEF f
<1>5. \A n \in 0..Len(s) : f[n] = AtStep(x, s, key, f, n)
  BY <1>4, Zenon
<1> DEFINE bad == {n \in 0..Len(s) : f[n] # v[n]}
<1>6. bad = {}
  <2> SUFFICES ASSUME bad # {} PROVE FALSE BY Zenon
  <2>1. bad \in SUBSET Nat BY <1>1
  <2>2. PICK m \in bad : \A n \in bad : m <= n BY <2>1, LeastNat, Zenon
  <2>3. m \in 0..Len(s) /\ f[m] # v[m] BY <2>2, Zenon
  <2>4. m # 0
    <3>1. f[0] = AtStep(x, s, key, f, 0) BY <1>1, <1>5
    <3> QED BY <1>2, <2>3, <3>1, Zenon DEF AtStep
  <2>5. m \in 1..Len(s) /\ m - 1 \in 0..Len(s) /\ ~(m <= m - 1) BY <1>1, <2>3, <2>4
  <2>6. f[m - 1] = v[m - 1] BY <2>2, <2>5, Zenon
  <2>7. PathStep(v[m - 1], s[m], key, v[m]) BY <1>2, <2>5, Zenon
  <2>8. f[m] = AtStep(x, s, key, f, m) BY <1>5, <2>3, Zenon
  <2> QED BY <2>3, <2>4, <2>6, <2>7, <2>8 DEF AtStep, PathStep
<1>7. \A n \in 0..Len(s) : f[n] = v[n]
  BY <1>6, Zenon
<1>8. ASSUME NEW n \in DOMAIN s, s[n].obj.key = key PROVE Fits(f[n - 1], s[n])
  <2>1. n \in 1..Len(s) /\ n - 1 \in 0..Len(s) BY <1>1
  <2>2. f[n - 1] = v[n - 1] BY <1>7, <2>1, Zenon
  <2>3. PathStep(v[n - 1], s[n], key, v[n]) BY <1>2, <2>1, Zenon
  <2> QED BY <1>8, <2>2, <2>3, Zenon DEF PathStep
<1>9. f[Len(s)] = y
  <2>1. Len(s) \in 0..Len(s) BY <1>1
  <2> QED BY <1>2, <1>7, <2>1, Zenon
<1> QED BY <1>8, <1>9, Zenon DEF f

(* Pushing an event that can follow keeps the path of the key's events and *)
(* ends it at the event, whatever the two were coalesced to.               *)
LEMMA PushPath ==
    ASSUME NEW key \in Keys, NEW s \in Seq(cacheEvent), NEW event \in cacheEvent, event.obj.key = key,
           \A n \in DOMAIN s : s[n].obj.key = key,
           NEW x \in ObjectOrNone, NEW y, Path(x, s, key, y), Fits(y, event)
    PROVE  Path(x, Push(s, event), key, After(event))
<1> DEFINE last == s[Len(s)]
           front == SubSeq(s, 1, Len(s) - 1)
           new == coalesceEvents(last, event)
<1>1. Len(s) \in Nat /\ DOMAIN s = 1..Len(s) /\ \A n \in DOMAIN s : s[n] \in cacheEvent
  BY LenProperties, ElementOfSeq, Zenon
<1>2. <<event>> \in Seq(cacheEvent) /\ <<>> \in Seq(cacheEvent)
  OBVIOUS
<1>3. y \in ObjectOrNone /\ After(event) \in ObjectOrNone
  BY PathType, AfterType, Zenon
<1>4. CASE s = <<>> \/ (last.type = "delete" /\ event.type = "add")
  <2>1. Push(s, event) = s \o <<event>> BY <1>4, AppendIsConcat, Zenon DEF Push
  <2>2. Path(y, <<event>>, key, After(event)) BY <1>3, PathOne DEF PathStep
  <2> QED BY <1>2, <2>1, <2>2, PathConcat, Zenon
<1>5. CASE ~(s = <<>> \/ (last.type = "delete" /\ event.type = "add"))
  <2>1. Push(s, event) = front \o new BY <1>5, Zenon DEF Push
  <2>2. Len(s) \in 1..Len(s) BY <1>1, <1>5, EmptySeq
  <2>3. last \in cacheEvent /\ last.obj.key = key BY <1>1, <2>2, Zenon
  <2>4. front \in Seq(cacheEvent) /\ <<last>> \in Seq(cacheEvent) /\ s = front \o <<last>>
    <3>1. 1 \in 1..Len(s) BY <2>2
    <3>2. SubSeq(s, 1, Len(s)) = front \o <<last>> BY <2>2, <3>1, SubSeqRecursiveSecond, Zenon
    <3>3. front \in Seq(cacheEvent) BY <1>1, <2>2
    <3> QED BY <2>3, <3>2, <3>3, SubSeqFull
  <2> HIDE DEF front
  <2>5. PICK z \in ObjectOrNone : Path(x, front, key, z) /\ Path(z, <<last>>, key, y)
    BY <2>4, PathSplit, Zenon
  <2>6. Fits(z, last) /\ y = After(last)
    BY <2>3, <2>5, PathOne DEF PathStep
  <2> HIDE DEF last
  <2>7. last.type \in {"add", "update", "delete"} /\ event.type \in {"add", "update", "delete"}
        /\ last.obj \in Object /\ event.obj \in Object
    BY <2>3, Zenon DEF cacheEvent
  <2>8. last.obj # NoObject /\ event.obj # NoObject
    BY <2>7, NoObjectIsNone, Zenon
  <2>9. CASE last.type = "add" /\ event.type = "update"
    <3> DEFINE e == AddEvent(event.obj)
    <3>1. new = <<e>> /\ e \in cacheEvent /\ <<e>> \in Seq(cacheEvent)
      BY <2>7, <2>9 DEF coalesceEvents, AddEvent, cacheEvent
    <3>2. PathStep(z, e, key, After(event))
      BY <2>6, <2>9, Zenon DEF PathStep, Fits, After, AddEvent
    <3> HIDE DEF e
    <3>3. Path(z, <<e>>, key, After(event)) BY <3>1, <3>2, PathOne, Zenon
    <3> QED BY <2>1, <2>4, <2>5, <3>1, <3>3, PathConcat, Zenon
  <2>10. CASE last.type = "add" /\ event.type = "delete"
    <3>1. new = <<>> /\ front \o <<>> = front BY <2>4, <2>10, ConcatEmptySeq, Zenon DEF coalesceEvents
    <3>2. z = After(event) BY <2>6, <2>10, Zenon DEF Fits, After
    <3> QED BY <2>1, <2>5, <3>1, <3>2, Zenon
  <2>11. CASE last.type = "update" /\ event.type = "update"
    <3> DEFINE e == UpdateEvent(last.old, event.obj)
    <3>1. new = <<e>> /\ e \in cacheEvent /\ <<e>> \in Seq(cacheEvent)
      BY <2>3, <2>7, <2>11 DEF coalesceEvents, UpdateEvent, cacheEvent
    <3>2. PathStep(z, e, key, After(event))
      BY <2>6, <2>11, Zenon DEF PathStep, Fits, After, UpdateEvent
    <3> HIDE DEF e
    <3>3. Path(z, <<e>>, key, After(event)) BY <3>1, <3>2, PathOne, Zenon
    <3> QED BY <2>1, <2>4, <2>5, <3>1, <3>3, PathConcat, Zenon
  <2>12. CASE last.type = "update" /\ event.type = "delete"
    <3> DEFINE e == DeleteEvent(event.obj)
    <3>1. new = <<e>> /\ e \in cacheEvent /\ <<e>> \in Seq(cacheEvent)
      BY <2>7, <2>12 DEF coalesceEvents, DeleteEvent, cacheEvent
    <3>2. PathStep(z, e, key, After(event))
      BY <2>6, <2>12, Zenon DEF PathStep, Fits, After, DeleteEvent
    <3> HIDE DEF e
    <3>3. Path(z, <<e>>, key, After(event)) BY <3>1, <3>2, PathOne, Zenon
    <3> QED BY <2>1, <2>4, <2>5, <3>1, <3>3, PathConcat, Zenon
  <2>13. CASE last.type = "delete" /\ event.type # "add"
    BY <2>6, <2>7, <2>13, Zenon DEF Fits, After
  <2>14. CASE last.type # "delete" /\ event.type = "add"
    BY <2>6, <2>8, <2>14, Zenon DEF Fits, After
  <2> QED BY <1>5, <2>7, <2>9, <2>10, <2>11, <2>12, <2>13, <2>14, Zenon DEF last
<1> QED BY <1>4, <1>5, Zenon

(* Draining hands over the events of each key together and in order: they  *)
(* lead a handler where the pending events of the key do, and none that is *)
(* pending is left out.                                                    *)
LEMMA DrainFacts ==
    ASSUME NEW q, OwnEvents(q), NEW key \in Keys,
           q.pending[key] # <<>> => \E i \in DOMAIN q.order : q.order[i] = key
    PROVE  /\ drained(q) \in Seq(cacheEvent)
           /\ \A x \in ObjectOrNone, y \in ObjectOrNone :
                 Path(x, q.pending[key], key, y) => Path(x, drained(q), key, y)
           /\ q.pending[key] # <<>> => \E n \in DOMAIN drained(q) : drained(q)[n].obj.key = key
<1>1. /\ q \in eventQueue /\ q.order \in Seq(Keys) /\ q.pending \in [Keys -> Seq(cacheEvent)]
      /\ Len(q.order) \in Nat /\ DOMAIN q.order = 1..Len(q.order)
      /\ \A i \in 1..Len(q.order) : q.order[i] \in Keys
  BY LenProperties, ElementOfSeq, Zenon DEF OwnEvents, eventQueue
<1>2. PICK f : /\ f[0] = <<>>
               /\ f[Len(q.order)] = drained(q)
               /\ \A i \in 1..Len(q.order) : f[i] = f[i - 1] \o EventsAt(q, i)
  BY <1>1, DrainedIsConcat, Zenon
<1> DEFINE pend == q.pending[key]
           reached(i) == \E j \in 1..i : q.order[j] = key
           good(i) == /\ f[i] \in Seq(cacheEvent)
                      /\ ~reached(i) => \A x \in ObjectOrNone : Path(x, f[i], key, x)
                      /\ reached(i) => /\ \A x, y \in ObjectOrNone : Path(x, pend, key, y) => Path(x, f[i], key, y)
                                       /\ pend # <<>> => \E n \in DOMAIN f[i] : f[i][n].obj.key = key
           bad == {i \in 0..Len(q.order) : ~good(i)}
<1>3. pend \in Seq(cacheEvent) /\ \A n \in DOMAIN pend : pend[n].obj.key = key
  BY <1>1, Zenon DEF OwnEvents
<1>4. good(0)
  <2>1. ~reached(0) OBVIOUS
  <2>2. f[0] \in Seq(cacheEvent) /\ \A x \in ObjectOrNone : Path(x, f[0], key, x) BY <1>2, PathEmpty
  <2> QED BY <2>1, <2>2, Zenon
<1>5. ASSUME NEW i \in 1..Len(q.order), good(i - 1) PROVE good(i)
  <2> DEFINE g == f[i - 1]
             block == EventsAt(q, i)
  <2>1. f[i] = g \o block /\ g \in Seq(cacheEvent) /\ i - 1 \in Nat BY <1>2, <1>5, SMTT(30)
  <2>2. reached(i) <=> reached(i - 1) \/ q.order[i] = key
    <3>1. \A j \in 1..i : j \in 1..(i - 1) \/ j = i OBVIOUS
    <3>2. \A j \in 1..(i - 1) : j \in 1..i OBVIOUS
    <3>3. i \in 1..i OBVIOUS
    <3> QED BY <3>1, <3>2, <3>3, Zenon
  <2>3. CASE \E j \in 1..(i - 1) : q.order[j] = q.order[i]
    <3>1. block = <<>> BY <2>3, Zenon DEF EventsAt
    <3>2. f[i] = g BY <2>1, <3>1, ConcatEmptySeq, Zenon
    <3>3. reached(i) <=> reached(i - 1) BY <2>2, <2>3, Zenon
    <3> HIDE DEF reached
    <3> QED BY <1>5, <3>2, <3>3, Zenon
  <2>4. CASE ~(\E j \in 1..(i - 1) : q.order[j] = q.order[i])
    <3>1. block = q.pending[q.order[i]] /\ block \in Seq(cacheEvent)
      BY <1>1, <2>4, Zenon DEF EventsAt
    <3>2. f[i] \in Seq(cacheEvent) BY <2>1, <3>1, ConcatProperties, Zenon
    <3>3. CASE q.order[i] = key
      <4>1. ~reached(i - 1) BY <2>4, <3>3, Zenon
      <4>2. reached(i) BY <2>2, <3>3, Zenon
      <4>3. block = pend BY <3>1, <3>3, Zenon
      <4>4. \A x \in ObjectOrNone : Path(x, g, key, x) BY <1>5, <4>1, Zenon
      <4> HIDE DEF block, g, pend, reached
      <4>5. ASSUME NEW x \in ObjectOrNone, NEW y \in ObjectOrNone, Path(x, pend, key, y)
            PROVE  Path(x, f[i], key, y)
        BY <1>3, <2>1, <4>3, <4>4, <4>5, PathConcat, Zenon
      <4>6. ASSUME pend # <<>> PROVE \E n \in DOMAIN f[i] : f[i][n].obj.key = key
        <5>1. Len(pend) \in Nat \ {0} /\ DOMAIN pend = 1..Len(pend) BY <1>3, <4>6, EmptySeq, LenProperties, Zenon
        <5>2. /\ Len(g) \in Nat /\ Len(g \o pend) = Len(g) + Len(pend)
              /\ \A n \in 1..(Len(g) + Len(pend)) : (g \o pend)[n] = IF n <= Len(g) THEN g[n] ELSE pend[n - Len(g)]
          BY <1>3, <2>1, ConcatProperties, LenProperties, Zenon
        <5>3. Len(g) + 1 \in 1..(Len(g) + Len(pend)) /\ ~(Len(g) + 1 <= Len(g)) /\ Len(g) + 1 - Len(g) = 1
          BY <5>1, <5>2
        <5>4. (g \o pend)[Len(g) + 1] = pend[1] BY <5>2, <5>3
        <5>5. DOMAIN f[i] = 1..(Len(g) + Len(pend)) BY <2>1, <3>2, <4>3, <5>2, LenProperties, Zenon
        <5>6. 1 \in DOMAIN pend BY <5>1
        <5> QED BY <1>3, <2>1, <4>3, <5>3, <5>4, <5>5, <5>6, Zenon
      <4> QED BY <3>2, <4>2, <4>5, <4>6, Zenon
    <3>4. CASE q.order[i] # key
      <4>1. reached(i) <=> reached(i - 1) BY <2>2, <3>4, Zenon
      <4>2. \A n \in DOMAIN block : block[n].obj.key # key BY <1>1, <3>1, <3>4, Zenon DEF OwnEvents
      <4>3. \A x \in ObjectOrNone : Path(x, block, key, x) BY <3>1, <4>2, PathNone, Zenon
      <4>4. ASSUME NEW n \in DOMAIN g PROVE n \in DOMAIN f[i] /\ f[i][n] = g[n]
        <5>1. /\ Len(g) \in Nat /\ Len(block) \in Nat /\ Len(g \o block) = Len(g) + Len(block)
              /\ \A k \in 1..(Len(g) + Len(block)) : (g \o block)[k] = IF k <= Len(g) THEN g[k] ELSE block[k - Len(g)]
          BY <2>1, <3>1, ConcatProperties, LenProperties, Zenon
        <5>2. DOMAIN g = 1..Len(g) /\ DOMAIN f[i] = 1..(Len(g) + Len(block)) BY <2>1, <3>2, <5>1, LenProperties, Zenon
        <5>3. n \in 1..(Len(g) + Len(block)) /\ n <= Len(g) BY <5>1, <5>2
        <5> QED BY <2>1, <5>1, <5>2, <5>3, Zenon
      <4> HIDE DEF block, g, pend, reached
      <4>5. ASSUME NEW x \in ObjectOrNone, NEW y \in ObjectOrNone, Path(x, g, key, y)
            PROVE  Path(x, f[i], key, y)
        BY <2>1, <3>1, <4>3, <4>5, PathConcat, Zenon
      <4>6. CASE reached(i - 1)
        <5>1. \A x, y \in ObjectOrNone : Path(x, pend, key, y) => Path(x, g, key, y) BY <1>5, <4>6, Zenon DEF g
        <5>2. pend # <<>> => \E n \in DOMAIN g : g[n].obj.key = key BY <1>5, <4>6, Zenon DEF g
        <5> QED BY <3>2, <4>1, <4>4, <4>5, <4>6, <5>1, <5>2, Zenon
      <4>7. CASE ~reached(i - 1)
        <5>1. \A x \in ObjectOrNone : Path(x, g, key, x) BY <1>5, <4>7, Zenon DEF g
        <5> QED BY <3>2, <4>1, <4>5, <4>7, <5>1, Zenon
      <4> QED BY <4>6, <4>7, Zenon
    <3> QED BY <3>3, <3>4, Zenon
  <2> QED BY <2>3, <2>4, Zenon
<1>6. bad = {}
  <2> SUFFICES ASSUME bad # {} PROVE FALSE BY Zenon
  <2> HIDE DEF good
  <2>0. bad \in SUBSET Nat BY <1>1
  <2>1. PICK m \in bad : \A n \in bad : m <= n
    <3> HIDE DEF bad
    <3> QED BY <2>0, LeastNat, Zenon
  <2>2. m # 0 BY <1>4, <2>1, Zenon
  <2>3. m \in 1..Len(q.order) /\ m - 1 \in 0..Len(q.order) /\ ~(m <= m - 1) BY <1>1, <2>1, <2>2
  <2>4. good(m - 1) BY <2>1, <2>3, Zenon
  <2>5. good(m) BY <1>5, <2>3, <2>4, Zenon
  <2> QED BY <2>1, <2>5, Zenon
<1>7. good(Len(q.order))
  <2> HIDE DEF good
  <2> QED BY <1>1, <1>6
<1>8. CASE reached(Len(q.order))
  <2> HIDE DEF reached
  <2> QED BY <1>2, <1>7, <1>8, Zenon
<1>9. CASE ~reached(Len(q.order))
  <2>1. pend = <<>> BY <1>1, <1>9, Zenon
  <2>2. \A x, y \in ObjectOrNone : Path(x, pend, key, y) => x = y BY <2>1, PathEmpty, SMTT(30)
  <2> HIDE DEF reached, pend
  <2>3. f[Len(q.order)] \in Seq(cacheEvent) /\ \A x \in ObjectOrNone : Path(x, f[Len(q.order)], key, x) BY <1>7, <1>9, Zenon
  <2>4. \A x, y \in ObjectOrNone : Path(x, pend, key, y) => Path(x, drained(q), key, y) BY <1>2, <2>2, <2>3, Zenon
  <2> QED BY <1>2, <2>1, <2>3, <2>4, Zenon DEF pend
<1> QED BY <1>8, <1>9, Zenon
-----------------------------------------------------------------------------
(***************************************************************************)
(* The inductive invariant, in parts.  The store and the cache: objects    *)
(* are stored under their keys, no resourceVersion is ahead of the         *)
(* store's, and it tells versions apart.                                   *)
(***************************************************************************)
WellKeyed(objs) ==
    \A key \in Keys : objs[key] # NoObject => objs[key].key = key /\ objs[key].rv \in 1..rv

(* The object is the stored version, or an earlier one.                    *)
Older(obj) == truth[obj.key] # NoObject => obj.rv < truth[obj.key].rv \/ obj = truth[obj.key]

CachedOK ==
    /\ WellKeyed(cached)
    /\ \A key \in Keys : cached[key] # NoObject => key \in AllowedKeys /\ Older(cached[key])

(* The changes that are still to be replayed.                              *)
Elements(s) == {s[n] : n \in DOMAIN s}
Waiting == Elements(replay)
Pending(key) == \E event \in Waiting : event.obj.key = key

Ascending(events) == \A m, n \in DOMAIN events : m < n => events[m].obj.rv < events[n].obj.rv

Outcome(event) == IF event.type = "DELETED" THEN NoObject ELSE event.obj

(* A change that leaves this in the store is not replayed.                 *)
Hidden(obj) == obj = NoObject \/ ~(Selector \subseteq obj.labels)

(* An event to be replayed is newer than what the cache has or is being    *)
(* given; it is the key's last change, or a later one waits too, or was    *)
(* left out.                                                               *)
Overtakes(event) ==
    /\ cached[event.obj.key] # NoObject => cached[event.obj.key].rv < event.obj.rv
    /\ \A obj \in items : obj.key = event.obj.key => obj.rv < event.obj.rv

Explained(event) ==
    \/ truth[event.obj.key] = Outcome(event)
    \/ event.obj.key \in skipped /\ Hidden(truth[event.obj.key])
    \/ \E later \in Waiting : later.obj.key = event.obj.key /\ event.obj.rv < later.obj.rv

ReplayOK ==
    /\ Ascending(replay)
    /\ \A event \in Waiting :
          /\ event.obj.rv \in 1..rv /\ Replayed(event)
          /\ truth[event.obj.key] # NoObject =>
                event.obj.rv < truth[event.obj.key].rv \/ truth[event.obj.key] = Outcome(event)
          /\ Overtakes(event) /\ Explained(event)

(* The initial list is of the store as it was.                             *)
ListOK ==
    /\ phase # "fill" => items = {}
    /\ \A obj \in items :
          /\ obj.rv \in 1..rv /\ Older(obj)
          /\ Pending(obj.key) \/ obj = truth[obj.key] \/ obj.key \in skipped

(* A key that no list item or waiting event is for is cached as it should  *)
(* be.                                                                     *)
UpToDate(key) ==
    \/ Pending(key)
    \/ IF truth[key] = NoObject \/ ~matchesSelectors(truth[key]) THEN cached[key] = NoObject \/ key \in skipped
       ELSE Transformable(truth[key]) => cached[key] = truth[key] \/ truth[key] \in items

(* Before Start nothing has happened.                                      *)
Untouched ==
    phase = "new" =>
        /\ cached = NoObjects /\ outbox = NoEvents /\ replay = <<>>
        /\ \A key \in Keys : queue.pending[key] = <<>>
        /\ proc = "idle" /\ batch = <<>>

CacheOK ==
    /\ WellKeyed(truth) /\ CachedOK /\ ListOK /\ ReplayOK /\ Untouched
    /\ phase # "new" => \A key \in Keys : UpToDate(key)

IndexOK == index = IF indexed THEN buildIndex(cached) ELSE {}

(* Events wait under their own key; a pending key is in the order; an      *)
(* event still to be enqueued ends at the cached object.                   *)
QueueOK ==
    /\ \A key \in DOMAIN outbox : outbox[key].obj.key = key /\ After(outbox[key]) = cached[key]
    /\ \A key \in Keys :
          /\ \A n \in DOMAIN queue.pending[key] : queue.pending[key][n].obj.key = key
          /\ queue.pending[key] # <<>> => \E i \in DOMAIN queue.order : queue.order[i] = key
    /\ proc \in {"idle", "done"} => batch = <<>>
    /\ batch = <<>> => called = 0

Injective(s) == \A m, n \in DOMAIN s : s[m] = s[n] => m = n

(* A handler is registered once.  One added before Start is in every copy  *)
(* of the handlers, and was passed no existing objects.                    *)
HandlersOK ==
    /\ Injective(handlers) /\ Injective(targets)
    /\ \A h \in Handlers :
          /\ h \in Registered <=> added[h] \in {"early", "late"}
          /\ added[h] = "never" => view[h] = NoObjects
          /\ added[h] \in {"never", "early"} => snapshot[h] = {}
          /\ added[h] = "early" /\ proc = "call" => \E n \in DOMAIN targets : targets[n] = h

(* Handler h is going to be called for the key.                            *)
Coming(h, key) ==
    \/ key \in DOMAIN outbox
    \/ queue.pending[key] # <<>>
    \/ \E i \in DOMAIN batch :
          /\ batch[i].obj.key = key
          /\ \/ proc = "copy"
             \/ proc = "call" /\ \E n \in DOMAIN targets : targets[n] = h /\ (i > 1 \/ n > called)
    \/ \E obj \in snapshot[h] : obj.key = key

CallsComing ==
    \A h \in Registered : ~queue.closed =>
        \A key \in due[h] : cached[key] # NoObject => Coming(h, key)

InformerInv == TypeOK /\ load \in Load /\ CacheOK /\ IndexOK /\ QueueOK /\ HandlersOK
-----------------------------------------------------------------------------
(***************************************************************************)
(* The operations that change the cached objects: each is an effect        *)
(* applied while no event waits to be enqueued.                            *)
(***************************************************************************)
Applied(effect) ==
    /\ EffectOK(cached, effect)
    /\ Apply(effect, index')
    /\ phase # "new" /\ phase' # "new"
    /\ UNCHANGED <<load, queue, procVars, handlerVars, view>>

(* Reindexing the one object an operation touched is rebuilding the index. *)
LEMMA ReindexedOK ==
    ASSUME TypeOK, IndexOK, NEW effect, EffectOK(cached, effect), NEW key \in Keys,
           DOMAIN effect.events \subseteq {key}
    PROVE  Reindexed(effect) = IF indexed THEN buildIndex(effect.objects) ELSE {}
<1>0. CASE ~indexed
  BY <1>0, Zenon DEF Reindexed, IndexOK
<1> SUFFICES ASSUME indexed PROVE Reindexed(effect) = buildIndex(effect.objects)
  BY <1>0, Zenon
<1>1. index = buildIndex(cached)
  BY Zenon DEF IndexOK
<1>2. cached \in [Keys -> ObjectOrNone] /\ effect.objects \in [Keys -> ObjectOrNone]
  BY Zenon DEF TypeOK, EffectOK, ObjectOrNone
<1>3. CASE DOMAIN effect.events = {}
  <2>1. \A k \in Keys : effect.objects[k] = cached[k] BY <1>3, Zenon DEF EffectOK
  <2>2. effect.objects = cached BY <1>2, <2>1
  <2> QED BY <1>1, <1>3, <2>2, Zenon DEF Reindexed
<1>4. CASE DOMAIN effect.events # {}
  <2>1. DOMAIN effect.events = {key} BY <1>4, Zenon
  <2>2. (CHOOSE k \in DOMAIN effect.events : TRUE) = key BY <2>1, Zenon
  <2>3. \A k \in Keys \ {key} : effect.objects[k] = cached[k] BY <2>1, Zenon DEF EffectOK
  <2>4. CASE effect.objects[key] = NoObject
    <3>1. Reindexed(effect) = removeFromIndices(index, key)
      BY <1>4, <2>2, <2>4, Zenon DEF Reindexed
    <3> QED BY <1>1, <2>3, <2>4, <3>1, SMTT(30) DEF removeFromIndices, buildIndex
  <2>5. CASE effect.objects[key] # NoObject
    <3>1. Reindexed(effect) = removeFromIndices(index, key) \cup {<<effect.objects[key].spec, key>>}
      BY <1>4, <2>2, <2>5, Zenon DEF Reindexed, rebuildIndicesForObject
    <3> QED BY <1>1, <2>3, <2>5, <3>1, SMTT(30) DEF removeFromIndices, buildIndex
  <2> QED BY <2>4, <2>5, Zenon
<1> QED BY <1>3, <1>4, Zenon

LEMMA BuildIndexType ==
    ASSUME NEW objs \in [Keys -> ObjectOrNone]
    PROVE  buildIndex(objs) \subseteq Specs \X Keys
<1>1. \A key \in Keys : objs[key] # NoObject => objs[key].spec \in Specs
  BY ObjectParts, Zenon DEF ObjectOrNone
<1> QED BY <1>1 DEF buildIndex

(* What the invariant says of the objects of the cache and of the store.   *)
LEMMA ObjectsKeyed ==
    ASSUME InformerInv
    PROVE  /\ cached \in [Keys -> ObjectOrNone] /\ Keyed(cached)
           /\ truth \in [Keys -> ObjectOrNone] /\ Keyed(truth)
           /\ rv \in Nat
           /\ \A key \in Keys : cached[key] # NoObject => cached[key] \in Object /\ cached[key].rv \in 1..rv
           /\ \A key \in Keys : truth[key] # NoObject => truth[key] \in Object /\ truth[key].rv \in 1..rv
  BY SMTT(30) DEF InformerInv, TypeOK, CacheOK, CachedOK, WellKeyed, Keyed, ObjectOrNone

(* An operation that concerns one key.                                     *)
LEMMA OneKeyApplied ==
    ASSUME InformerInv, NEW effect, NEW key \in Keys, EffectOK(cached, effect),
           DOMAIN effect.events \subseteq {key}, Apply(effect, Reindexed(effect)),
           phase # "new", phase' = phase, UNCHANGED <<load, queue, procVars, handlerVars, view>>
    PROVE  /\ Applied(effect) /\ IndexOK'
           /\ cached' = effect.objects /\ \A k \in Keys \ {key} : cached'[k] = cached[k]
<1>1. /\ cached' = effect.objects /\ index' = Reindexed(effect) /\ indexed' = indexed
      /\ Apply(effect, index')
  BY Zenon DEF Apply
<1>2. \A k \in Keys \ {key} : cached'[k] = cached[k]
  BY <1>1, Zenon DEF EffectOK
<1>3. IndexOK'
  BY <1>1, ReindexedOK, Zenon DEF InformerInv, IndexOK
<1>4. Applied(effect)
  BY <1>1, Zenon DEF Applied
<1> QED BY <1>1, <1>2, <1>3, <1>4, Zenon

LEMMA AppendElements ==
    ASSUME NEW S, NEW s \in Seq(S), NEW e \in S
    PROVE  Elements(Append(s, e)) = Elements(s) \cup {e}
<1> DEFINE t == Append(s, e)
<1>1. /\ DOMAIN s = 1..Len(s) /\ DOMAIN t = 1..(Len(s) + 1) /\ Len(s) \in Nat
      /\ (\A n \in 1..Len(s) : t[n] = s[n]) /\ t[Len(s) + 1] = e
  OBVIOUS
<1> HIDE DEF t
<1>2. ASSUME NEW n \in DOMAIN t PROVE t[n] \in Elements(s) \cup {e}
  BY <1>1, SMTT(30) DEF Elements
<1>3. ASSUME NEW n \in DOMAIN s PROVE s[n] \in Elements(t)
  BY <1>1, SMTT(30) DEF Elements
<1>4. e \in Elements(t)
  BY <1>1, SMTT(30) DEF Elements
<1> QED BY <1>2, <1>3, <1>4, Zenon DEF Elements, t

LEMMA AppendAscends ==
    ASSUME NEW S, NEW s \in Seq(S), NEW e \in S, Ascending(s), \A x \in Elements(s) : x.obj.rv < e.obj.rv
    PROVE  Ascending(Append(s, e))
<1> DEFINE t == Append(s, e)
<1>1. /\ DOMAIN s = 1..Len(s) /\ DOMAIN t = 1..(Len(s) + 1) /\ Len(s) \in Nat
      /\ (\A n \in 1..Len(s) : t[n] = s[n]) /\ t[Len(s) + 1] = e
  OBVIOUS
<1> HIDE DEF t
<1> SUFFICES ASSUME NEW m \in DOMAIN t, NEW n \in DOMAIN t, m < n PROVE t[m].obj.rv < t[n].obj.rv
  BY Zenon DEF Ascending, t
<1>2. m \in 1..Len(s) /\ t[m] = s[m] /\ s[m] \in Elements(s)
  BY <1>1, SMTT(30) DEF Elements
<1>3. CASE n = Len(s) + 1
  BY <1>1, <1>2, <1>3, Zenon
<1>4. CASE n # Len(s) + 1
  <2>1. n \in 1..Len(s) BY <1>1, <1>4
  <2> QED BY <1>1, <1>2, <2>1, Zenon DEF Ascending
<1> QED BY <1>3, <1>4, Zenon

LEMMA TailElements ==
    ASSUME NEW S, NEW s \in Seq(S), s # <<>>, Ascending(s), \A x \in S : x.obj.rv \in Nat
    PROVE  /\ Head(s) \in Elements(s)
           /\ Elements(Tail(s)) = Elements(s) \ {Head(s)} /\ Ascending(Tail(s))
           /\ \A x \in Elements(Tail(s)) : Head(s).obj.rv < x.obj.rv
<1> DEFINE t == Tail(s)
           h == Head(s)
<1>1. /\ DOMAIN s = 1..Len(s) /\ DOMAIN t = 1..(Len(s) - 1) /\ Len(s) \in Nat \ {0}
      /\ (\A n \in 1..(Len(s) - 1) : t[n] = s[n + 1]) /\ h = s[1] /\ h \in S
  OBVIOUS
<1> HIDE DEF t, h
<1>2. h \in Elements(s) /\ h.obj.rv \in Nat
  BY <1>1, SMTT(30) DEF Elements
<1>3. ASSUME NEW n \in DOMAIN t PROVE n + 1 \in DOMAIN s /\ t[n] = s[n + 1] /\ h.obj.rv < t[n].obj.rv
  <2>1. n + 1 \in DOMAIN s /\ 1 \in DOMAIN s /\ 1 < n + 1 /\ t[n] = s[n + 1] BY <1>1
  <2> QED BY <1>1, <2>1, Zenon DEF Ascending
<1>4. \A x \in Elements(t) : h.obj.rv < x.obj.rv /\ x \in Elements(s)
  BY <1>3, Zenon DEF Elements
<1>5. h \notin Elements(t)
  BY <1>2, <1>4
<1>6. ASSUME NEW n \in DOMAIN s, s[n] # h PROVE s[n] \in Elements(t)
  <2>1. n # 1 BY <1>1, <1>6, Zenon
  <2>2. n - 1 \in DOMAIN t /\ t[n - 1] = s[n] BY <1>1, <2>1
  <2> QED BY <2>2, Zenon DEF Elements
<1>7. Elements(t) = Elements(s) \ {h}
  BY <1>4, <1>5, <1>6, Zenon DEF Elements
<1>8. Ascending(t)
  <2> SUFFICES ASSUME NEW m \in DOMAIN t, NEW n \in DOMAIN t, m < n PROVE t[m].obj.rv < t[n].obj.rv
    BY Zenon DEF Ascending
  <2>1. m + 1 < n + 1 BY <1>1
  <2> QED BY <1>3, <2>1, Zenon DEF Ascending
<1> QED BY <1>2, <1>4, <1>7, <1>8, Zenon DEF t, h

(* What the invariant says of the events that wait.                        *)
StreamEvent == [type : {"ADDED", "MODIFIED", "DELETED"}, obj : Object]

LEMMA WaitingFacts ==
    ASSUME InformerInv
    PROVE  /\ replay \in Seq(StreamEvent) /\ Waiting \subseteq StreamEvent
           /\ \A event \in StreamEvent : event.obj.key \in Keys /\ event.obj.rv \in Nat /\ event.obj # NoObject
           /\ replay = <<>> => Waiting = {}
<1>1. replay \in Seq(StreamEvent)
  BY Zenon DEF InformerInv, TypeOK, StreamEvent
<1>2. Waiting \subseteq StreamEvent
  BY <1>1, SMTT(30) DEF Waiting, Elements
<1>3. \A event \in StreamEvent : event.obj.key \in Keys /\ event.obj.rv \in Nat /\ event.obj # NoObject
  BY ObjectParts, Zenon DEF StreamEvent
<1>4. replay = <<>> => Waiting = {}
  BY <1>1 DEF Waiting, Elements
<1> QED BY <1>1, <1>2, <1>3, <1>4, Zenon

(* InitialAdd: an item of the initial list.                                *)
LEMMA InitialAddStep ==
    ASSUME InformerInv, InitialAdd
    PROVE  (\E effect : Applied(effect)) /\ CacheOK' /\ IndexOK'
<1>1. PICK obj \in items : /\ items' = items \ {obj}
                          /\ Apply(add(cached, obj), Reindexed(add(cached, obj)))
  BY Zenon DEF InitialAdd
<1>2. phase = "fill" /\ phase' = phase /\ UNCHANGED <<truth, rv, replay, skipped>>
      /\ UNCHANGED <<load, queue, procVars, handlerVars, view>>
  BY Zenon DEF InitialAdd, storeVars
<1> DEFINE effect == add(cached, obj)
           key == obj.key
<1>3. obj \in Object /\ key \in Keys /\ obj # NoObject /\ obj.rv \in Nat
  BY ObjectParts, Zenon DEF InformerInv, TypeOK
<1>4. obj.rv \in 1..rv /\ Older(obj) /\ (Pending(key) \/ obj = truth[key] \/ key \in skipped)
  BY Zenon DEF InformerInv, CacheOK, ListOK
<1>5. /\ EffectOK(cached, effect) /\ DOMAIN effect.events \subseteq {key}
      /\ effect.objects[key] = IF matchesSelectors(obj) /\ Transformable(obj) /\ Fresh(obj, cached[key]) THEN obj
                               ELSE cached[key]
  BY <1>3, AddEffect, ObjectsKeyed, Zenon
<1> HIDE DEF effect
<1>6. /\ Applied(effect) /\ IndexOK'
      /\ cached' = effect.objects /\ \A k \in Keys \ {key} : cached'[k] = cached[k]
  BY <1>1, <1>2, <1>3, <1>5, OneKeyApplied, Zenon DEF effect
<1>7. \/ cached'[key] = cached[key] /\ ~(matchesSelectors(obj) /\ Transformable(obj) /\ Fresh(obj, cached[key]))
      \/ cached'[key] = obj /\ matchesSelectors(obj) /\ Fresh(obj, cached[key])
  BY <1>5, <1>6, Zenon
<1>8. \A k \in Keys : cached'[k] # NoObject => cached'[k] = cached[k] \/ (k = key /\ cached'[k] = obj)
  BY <1>6, <1>7, Zenon
<1>9. WellKeyed(truth)' /\ Untouched'
  BY <1>2, Zenon DEF InformerInv, CacheOK, WellKeyed, Untouched
<1>10. CachedOK'
  <2> SUFFICES ASSUME NEW k \in Keys, cached'[k] # NoObject
               PROVE  cached'[k].key = k /\ cached'[k].rv \in 1..rv /\ k \in AllowedKeys /\ Older(cached'[k])
    BY <1>2, Zenon DEF CachedOK, WellKeyed, Older
  <2>1. CASE cached'[k] = cached[k]
    BY <2>1, Zenon DEF InformerInv, CacheOK, CachedOK, WellKeyed
  <2>2. CASE cached'[k] # cached[k]
    <3>1. k = key /\ cached'[k] = obj BY <1>8, <2>2, Zenon
    <3>2. matchesSelectors(obj) BY <1>7, <2>2, <3>1, Zenon
    <3> QED BY <1>4, <3>1, <3>2, Zenon DEF matchesSelectors
  <2> QED BY <2>1, <2>2, Zenon
<1>11. ListOK'
  BY <1>1, <1>2, Zenon DEF InformerInv, CacheOK, ListOK, Older, Pending, Waiting, Elements
<1>12. ReplayOK'
  <2>1. Waiting' = Waiting BY <1>2, Zenon DEF Waiting, Elements
  <2> SUFFICES ASSUME NEW event \in Waiting PROVE Overtakes(event)'
    BY <1>2, <2>1, Zenon DEF InformerInv, CacheOK, ReplayOK, Explained, Outcome, Hidden, Replayed, Ascending
  <2>2. Overtakes(event) /\ event.obj.key \in Keys
    BY WaitingFacts, Zenon DEF InformerInv, CacheOK, ReplayOK
  <2> QED BY <1>1, <1>8, <2>2, Zenon DEF Overtakes
<1>13. ASSUME NEW k \in Keys PROVE UpToDate(k)'
  <2>1. UpToDate(k) /\ Pending(k)' = Pending(k)
    BY <1>2, Zenon DEF InformerInv, CacheOK, Pending, Waiting, Elements
  <2> SUFFICES ASSUME ~Pending(k)
               PROVE  IF truth[k] = NoObject \/ ~matchesSelectors(truth[k])
                      THEN cached'[k] = NoObject \/ k \in skipped
                      ELSE Transformable(truth[k]) => cached'[k] = truth[k] \/ truth[k] \in items'
    BY <1>2, <2>1, Zenon DEF UpToDate, matchesSelectors, Transformable
  <2>2. CASE k # key
    <3>1. truth[k] # NoObject => truth[k] # obj BY <2>2, ObjectsKeyed, Zenon DEF Keyed
    <3> QED BY <1>1, <1>6, <2>1, <2>2, <3>1, Zenon DEF UpToDate
  <2>3. CASE k = key /\ (truth[k] = NoObject \/ ~matchesSelectors(truth[k]))
    BY <1>3, <1>4, <1>7, <2>1, <2>3, Zenon DEF UpToDate
  <2>4. CASE k = key /\ ~(truth[k] = NoObject \/ ~matchesSelectors(truth[k])) /\ Transformable(truth[k])
    <3>1. cached[k] = truth[k] \/ truth[k] \in items BY <2>1, <2>4, Zenon DEF UpToDate
    <3>2. /\ (obj.rv < truth[k].rv \/ obj = truth[k]) /\ truth[k].rv \in Nat
          /\ cached[k] # NoObject => cached[k].rv < truth[k].rv \/ cached[k] = truth[k]
          /\ cached[k] # NoObject => cached[k].rv \in Nat
      <4>1. truth[k] \in Object /\ truth[k].rv \in Nat BY <2>4, ObjectsKeyed, ObjectParts, Zenon
      <4>2. obj.rv < truth[k].rv \/ obj = truth[k] BY <1>4, <2>4, Zenon DEF Older
      <4>3. cached[k] # NoObject => cached[k] \in Object /\ cached[k].key = k /\ Older(cached[k])
        BY ObjectsKeyed, Zenon DEF InformerInv, CacheOK, CachedOK, Keyed
      <4>4. cached[k] # NoObject => cached[k].rv \in Nat BY <4>3, ObjectParts, Zenon
      <4>5. cached[k] # NoObject => cached[k].rv < truth[k].rv \/ cached[k] = truth[k]
        BY <2>4, <4>3, Zenon DEF Older
      <4> QED BY <4>1, <4>2, <4>4, <4>5, Zenon
    <3>3. CASE obj = truth[k]
      <4>1. CASE Fresh(obj, cached[k]) BY <1>7, <2>4, <3>3, <4>1, Zenon
      <4>2. CASE ~Fresh(obj, cached[k])
        <5>1. cached[k] # NoObject /\ ~(truth[k].rv > cached[k].rv) BY <3>3, <4>2, Zenon DEF Fresh
        <5>2. cached[k] = truth[k] BY <1>3, <3>2, <3>3, <5>1
        <5> QED BY <1>7, <2>4, <4>2, <5>2, Zenon
      <4> QED BY <4>1, <4>2, Zenon
    <3>4. CASE obj # truth[k] /\ truth[k] \in items
      BY <1>1, <2>4, <3>4, Zenon
    <3>5. CASE obj # truth[k] /\ cached[k] = truth[k]
      <4>1. ~Fresh(obj, cached[k])
        <5>1. obj.rv < truth[k].rv BY <3>2, <3>5, Zenon
        <5>2. truth[k].rv \in Nat BY <2>4, <3>2, <3>5, Zenon
        <5> QED BY <1>3, <2>4, <3>5, <5>1, <5>2 DEF Fresh
      <4> QED BY <1>7, <2>4, <3>5, <4>1, Zenon
    <3> QED BY <3>1, <3>3, <3>4, <3>5, Zenon
  <2> QED BY <2>2, <2>3, <2>4, Zenon
<1> QED
  BY <1>6, <1>9, <1>10, <1>11, <1>12, <1>13, Zenon DEF CacheOK

(* A change of the store is of one object, under the next resourceVersion. *)
LEMMA ChangeFacts ==
    ASSUME InformerInv, NEW event \in Changes, Changed(event)
    PROVE  /\ event \in StreamEvent /\ event.obj \in Object /\ event.obj.key \in Keys /\ event.obj.rv = rv + 1
           /\ event.type \in {"ADDED", "MODIFIED", "DELETED"}
           /\ rv' = rv + 1
           /\ truth' \in [Keys -> ObjectOrNone]
           /\ truth'[event.obj.key] = IF event.type = "DELETED" THEN NoObject ELSE event.obj
           /\ \A k \in Keys \ {event.obj.key} : truth'[k] = truth[k]
           /\ event.type = "ADDED" => truth[event.obj.key] = NoObject
<1>1. event \in StreamEvent /\ event.obj \in Object /\ event.type \in {"ADDED", "MODIFIED", "DELETED"}
  <2>1. CASE event \in [type : {"ADDED", "MODIFIED"}, obj : Stored]
    <3>1. load.keys \subseteq Keys BY Zenon DEF InformerInv, Load
    <3>2. Stored \subseteq Object
      BY <3>1, ObjectsKeyed, SMTT(30) DEF Stored, Object
    <3> QED BY <2>1, <3>2, Zenon DEF StreamEvent
  <2>2. CASE event \notin [type : {"ADDED", "MODIFIED"}, obj : Stored]
    <3>1. PICK obj \in {truth[key] : key \in Keys} \ {NoObject} :
             event = [type |-> "DELETED", obj |-> [obj EXCEPT !.rv = rv + 1]]
      BY <2>2, Zenon DEF Changes
    <3>2. obj \in Object /\ rv + 1 \in Nat BY ObjectsKeyed, SMTT(30)
    <3>3. [obj EXCEPT !.rv = rv + 1] \in Object BY <3>2, Zenon DEF Object
    <3> QED BY <3>1, <3>3, Zenon DEF StreamEvent
  <2> QED BY <2>1, <2>2, Zenon
<1>2. event.obj.key \in Keys /\ event.obj \in ObjectOrNone /\ NoObject \in ObjectOrNone
  BY <1>1, ObjectParts, Zenon DEF ObjectOrNone
<1>3. truth \in [Keys -> ObjectOrNone]
  BY ObjectsKeyed, Zenon
<1> QED
  BY <1>1, <1>2, <1>3, Zenon DEF Changed

(* What was an earlier version still is one after a change.                *)
LEMMA ChangedOlder ==
    ASSUME InformerInv, NEW event \in Changes, Changed(event), NEW obj, obj.key \in Keys,
           obj.rv \in 1..rv, Older(obj)
    PROVE  truth'[obj.key] # NoObject => obj.rv < truth'[obj.key].rv \/ obj = truth'[obj.key]
<1>1. /\ event.obj.key \in Keys /\ event.obj.rv = rv + 1 /\ rv \in Nat
      /\ truth'[event.obj.key] \in {NoObject, event.obj}
      /\ \A k \in Keys \ {event.obj.key} : truth'[k] = truth[k]
  BY ChangeFacts, ObjectsKeyed, Zenon
<1>2. CASE obj.key = event.obj.key
  BY <1>1, <1>2, SMTT(30) DEF Older
<1>3. CASE obj.key # event.obj.key
  BY <1>1, <1>3, Zenon DEF Older
<1> QED BY <1>2, <1>3, Zenon

(* The store has changed, and the cache has or has not taken it over.      *)
LEMMA ChangeVersions ==
    ASSUME InformerInv, NEW event \in Changes, Changed(event),
           \A k \in Keys \ {event.obj.key} : cached'[k] = cached[k],
           \/ cached'[event.obj.key] \in {NoObject, cached[event.obj.key]}
           \/ cached'[event.obj.key] = event.obj /\ event.type # "DELETED" /\ matchesSelectors(event.obj)
    PROVE  WellKeyed(truth)' /\ CachedOK'
<1> DEFINE key == event.obj.key
<1>1. /\ event.obj \in Object /\ key \in Keys /\ event.obj.rv = rv + 1 /\ rv' = rv + 1 /\ rv \in Nat
      /\ truth'[key] \in {NoObject, event.obj}
      /\ event.type # "DELETED" => truth'[key] = event.obj
      /\ \A k \in Keys \ {key} : truth'[k] = truth[k]
  BY ChangeFacts, ObjectsKeyed, Zenon
<1>2. /\ \A k \in Keys : cached[k] # NoObject => cached[k].key = k /\ cached[k].rv \in 1..rv
      /\ \A k \in Keys : truth[k] # NoObject => truth[k].key = k /\ truth[k].rv \in 1..rv
  BY Zenon DEF InformerInv, CacheOK, CachedOK, WellKeyed
<1>3. WellKeyed(truth)'
  <2> SUFFICES ASSUME NEW k \in Keys, truth'[k] # NoObject
               PROVE  truth'[k].key = k /\ truth'[k].rv \in 1..rv'
    BY Zenon DEF WellKeyed
  <2>1. CASE k = key
    <3>1. truth'[k] = event.obj BY <1>1, <2>1, Zenon
    <3>2. rv + 1 \in 1..(rv + 1) BY <1>1
    <3> QED BY <1>1, <2>1, <3>1, <3>2, Zenon
  <2>2. CASE k # key
    <3>1. truth'[k] = truth[k] /\ truth[k].key = k /\ truth[k].rv \in 1..rv
      BY <1>1, <1>2, <2>2, Zenon
    <3> QED BY <1>1, <3>1
  <2> QED BY <2>1, <2>2, Zenon
<1>4. WellKeyed(cached)'
  <2> SUFFICES ASSUME NEW k \in Keys, cached'[k] # NoObject
               PROVE  cached'[k].key = k /\ cached'[k].rv \in 1..rv'
    BY Zenon DEF WellKeyed
  <2>1. cached'[k] = cached[k] \/ (cached'[k] = event.obj /\ k = key) BY Zenon
  <2> QED BY <1>1, <1>2, <2>1, SMTT(30)
<1>5. ASSUME NEW k \in Keys, cached'[k] # NoObject PROVE k \in AllowedKeys /\ Older(cached[k])'
  <2>1. CASE cached'[k] = cached[k]
    <3>1. k \in AllowedKeys /\ Older(cached[k]) /\ cached[k].key = k /\ cached[k].rv \in 1..rv
      BY <1>2, <1>5, <2>1, Zenon DEF InformerInv, CacheOK, CachedOK
    <3>2. truth'[k] # NoObject => cached[k].rv < truth'[k].rv \/ cached[k] = truth'[k]
      BY <3>1, ChangedOlder, Zenon DEF Older
    <3> QED BY <2>1, <3>1, <3>2, Zenon DEF Older
  <2>2. CASE cached'[k] # cached[k]
    <3>1. k = key /\ cached'[k] = event.obj /\ truth'[k] = event.obj /\ matchesSelectors(event.obj)
      BY <1>1, <1>5, <2>2, Zenon
    <3> QED BY <3>1, Zenon DEF Older, matchesSelectors
  <2> QED BY <2>1, <2>2, Zenon
<1> QED BY <1>3, <1>4, <1>5, Zenon DEF CachedOK, Older

(* WatchEvent: a change that is dispatched.                                *)
LEMMA WatchEventStep ==
    ASSUME InformerInv, WatchEvent
    PROVE  (\E effect : Applied(effect)) /\ CacheOK' /\ IndexOK'
<1>1. PICK event \in Changes :
         /\ Changed(event)
         /\ skipped' = IF event.type = "ADDED" THEN skipped ELSE skipped \ {event.obj.key}
         /\ Apply(Dispatch(cached, event), Reindexed(Dispatch(cached, event)))
  BY Zenon DEF WatchEvent
<1>2. phase = "watch" /\ phase' = phase /\ items' = items /\ replay = <<>> /\ replay' = replay
      /\ UNCHANGED <<queue, procVars, handlerVars, view>>
  BY Zenon DEF WatchEvent
<1> DEFINE obj == event.obj
           key == event.obj.key
           effect == Dispatch(cached, event)
<1>3. /\ obj \in Object /\ key \in Keys /\ obj.rv = rv + 1 /\ rv' = rv + 1 /\ rv \in Nat
      /\ event.type \in {"ADDED", "MODIFIED", "DELETED"}
      /\ truth'[key] = Outcome(event)
      /\ \A k \in Keys \ {key} : truth'[k] = truth[k]
      /\ event.type = "ADDED" => truth[key] = NoObject
      /\ load' = load
  BY <1>1, ChangeFacts, ObjectsKeyed, Zenon DEF Changed, Outcome
<1>4. cached \in [Keys -> ObjectOrNone] /\ Keyed(cached) /\ obj # NoObject
  BY <1>3, ObjectsKeyed, ObjectParts, Zenon
<1>5. Fresh(obj, cached[key])
  BY <1>3, ObjectsKeyed, SMTT(30) DEF Fresh
<1>6. items = {} /\ Waiting = {} /\ Waiting' = {} /\ \A k \in Keys : ~Pending(k) /\ ~Pending(k)'
  BY <1>2, WaitingFacts, Zenon DEF InformerInv, CacheOK, ListOK, Pending, Waiting, Elements
<1>7. /\ EffectOK(cached, effect) /\ DOMAIN effect.events \subseteq {key}
      /\ effect.objects[key] = IF event.type = "DELETED" THEN NoObject
                               ELSE IF ~matchesSelectors(obj)
                                    THEN IF event.type = "ADDED" THEN cached[key] ELSE NoObject
                               ELSE IF Transformable(obj) THEN obj ELSE cached[key]
  BY <1>3, <1>4, <1>5, DispatchEffect, Zenon
<1> HIDE DEF effect
<1>8. /\ Applied(effect) /\ IndexOK'
      /\ cached' = effect.objects /\ \A k \in Keys \ {key} : cached'[k] = cached[k]
  BY <1>1, <1>2, <1>3, <1>7, OneKeyApplied, Zenon DEF effect
<1>9. cached'[key] = NoObject \/ cached'[key] = cached[key]
      \/ (cached'[key] = obj /\ event.type # "DELETED" /\ matchesSelectors(obj))
  BY <1>7, <1>8, Zenon
<1>10. WellKeyed(truth)' /\ CachedOK'
  BY <1>1, <1>8, <1>9, ChangeVersions, Zenon
<1>11. ListOK' /\ ReplayOK' /\ Untouched'
  BY <1>2, <1>6, Zenon DEF InformerInv, CacheOK, ListOK, ReplayOK, Untouched, Ascending
<1>12. ASSUME NEW k \in Keys PROVE UpToDate(k)'
  <2> SUFFICES IF truth'[k] = NoObject \/ ~matchesSelectors(truth'[k])
               THEN cached'[k] = NoObject \/ k \in skipped'
               ELSE Transformable(truth'[k]) => cached'[k] = truth'[k]
    BY Zenon DEF UpToDate, matchesSelectors, Transformable
  <2>1. IF truth[k] = NoObject \/ ~matchesSelectors(truth[k]) THEN cached[k] = NoObject \/ k \in skipped
        ELSE Transformable(truth[k]) => cached[k] = truth[k]
    BY <1>2, <1>6, Zenon DEF InformerInv, CacheOK, UpToDate
  <2>2. CASE k = key
    <3>1. CASE event.type = "DELETED" BY <1>3, <1>7, <1>8, <2>2, <3>1, Zenon DEF Outcome
    <3>2. CASE event.type = "MODIFIED" BY <1>3, <1>4, <1>7, <1>8, <2>2, <3>2, Zenon DEF Outcome
    <3>3. CASE event.type = "ADDED"
      BY <1>1, <1>3, <1>4, <1>7, <1>8, <2>1, <2>2, <3>3, Zenon DEF Outcome
    <3> QED BY <1>3, <3>1, <3>2, <3>3, Zenon
  <2>3. CASE k # key BY <1>1, <1>3, <1>8, <2>1, <2>3, Zenon
  <2> QED BY <2>2, <2>3, Zenon
<1> QED
  BY <1>8, <1>10, <1>11, <1>12, Zenon DEF CacheOK

(* ReplayEvent: the next change that was missed.                           *)
LEMMA ReplayEventStep ==
    ASSUME InformerInv, ReplayEvent
    PROVE  (\E effect : Applied(effect)) /\ CacheOK' /\ IndexOK'
<1> DEFINE event == Head(replay)
           obj == event.obj
           key == event.obj.key
           effect == Dispatch(cached, event)
<1>1. /\ phase = "watch" /\ phase' = phase /\ replay # <<>> /\ replay' = Tail(replay)
      /\ Apply(effect, Reindexed(effect)) /\ UNCHANGED <<truth, rv, skipped, items>>
      /\ UNCHANGED <<load, queue, procVars, handlerVars, view>>
  BY Zenon DEF ReplayEvent
<1>2. /\ event \in Waiting /\ Waiting' = Waiting \ {event} /\ Ascending(replay')
      /\ \A e \in Waiting' : event.obj.rv < e.obj.rv
  <2>1. replay \in Seq(StreamEvent) /\ Ascending(replay) /\ \A e \in StreamEvent : e.obj.rv \in Nat
    BY WaitingFacts, Zenon DEF InformerInv, CacheOK, ReplayOK
  <2> QED BY <1>1, <2>1, TailElements, Zenon DEF Waiting, Elements
<1> HIDE DEF event
<1>3. /\ event \in StreamEvent /\ obj \in Object /\ key \in Keys /\ obj # NoObject
      /\ event.type \in {"ADDED", "MODIFIED", "DELETED"}
      /\ \A e \in Waiting : e.obj.rv \in Nat /\ e.obj.key \in Keys
  BY <1>2, WaitingFacts, Zenon DEF StreamEvent
<1>4. /\ obj.rv \in 1..rv /\ Replayed(event)
      /\ truth[key] # NoObject => obj.rv < truth[key].rv \/ truth[key] = Outcome(event)
      /\ Overtakes(event) /\ Explained(event)
  BY <1>2, Zenon DEF InformerInv, CacheOK, ReplayOK
<1>5. cached \in [Keys -> ObjectOrNone] /\ Keyed(cached) /\ items = {}
  BY <1>1, ObjectsKeyed, Zenon DEF InformerInv, CacheOK, ListOK
<1>6. Fresh(obj, cached[key])
  <2>1. cached[key] # NoObject => cached[key].rv \in Nat /\ cached[key].rv < obj.rv
    BY <1>3, <1>4, ObjectsKeyed, ObjectParts, Zenon DEF Overtakes
  <2>2. obj.rv \in Nat BY <1>3, ObjectParts, Zenon
  <2> QED BY <2>1, <2>2 DEF Fresh
<1>7. /\ EffectOK(cached, effect) /\ DOMAIN effect.events \subseteq {key}
      /\ effect.objects[key] = IF event.type = "DELETED" THEN NoObject
                               ELSE IF ~matchesSelectors(obj)
                                    THEN IF event.type = "ADDED" THEN cached[key] ELSE NoObject
                               ELSE IF Transformable(obj) THEN obj ELSE cached[key]
  BY <1>3, <1>5, <1>6, DispatchEffect, Zenon
<1> HIDE DEF effect
<1>8. /\ Applied(effect) /\ IndexOK'
      /\ cached' = effect.objects /\ \A k \in Keys \ {key} : cached'[k] = cached[k]
  BY <1>1, <1>3, <1>7, OneKeyApplied, Zenon
<1>9. cached'[key] = NoObject \/ cached'[key] = cached[key]
      \/ (cached'[key] = obj /\ event.type # "DELETED" /\ matchesSelectors(obj))
  BY <1>7, <1>8, Zenon
<1>10. WellKeyed(truth)' /\ Untouched' /\ ListOK'
  BY <1>1, <1>5, Zenon DEF InformerInv, CacheOK, WellKeyed, Untouched, ListOK
<1>11. CachedOK'
  <2> SUFFICES ASSUME NEW k \in Keys, cached'[k] # NoObject
               PROVE  cached'[k].key = k /\ cached'[k].rv \in 1..rv /\ k \in AllowedKeys /\ Older(cached'[k])
    BY <1>1, Zenon DEF CachedOK, WellKeyed, Older
  <2>1. CASE cached'[k] = cached[k]
    BY <2>1, Zenon DEF InformerInv, CacheOK, CachedOK, WellKeyed
  <2>2. CASE cached'[k] # cached[k]
    <3>1. k = key /\ cached'[k] = obj /\ event.type # "DELETED" /\ matchesSelectors(obj)
      BY <1>8, <1>9, <2>2, Zenon
    <3>2. Older(obj) BY <1>4, <3>1, Zenon DEF Older, Outcome
    <3> QED BY <1>4, <3>1, <3>2, Zenon DEF matchesSelectors
  <2> QED BY <2>1, <2>2, Zenon
<1>12. ReplayOK'
  <2> SUFFICES ASSUME NEW e \in Waiting'
               PROVE  /\ e.obj.rv \in 1..rv /\ Replayed(e)
                      /\ truth[e.obj.key] # NoObject =>
                            e.obj.rv < truth[e.obj.key].rv \/ truth[e.obj.key] = Outcome(e)
                      /\ Overtakes(e)' /\ Explained(e)'
    BY <1>1, <1>2, Zenon DEF ReplayOK, Replayed, Outcome
  <2>1. e \in Waiting /\ event.obj.rv < e.obj.rv /\ e.obj.key \in Keys
    BY <1>2, <1>3, Zenon
  <2>2. Overtakes(e) /\ Explained(e)
    BY <2>1, Zenon DEF InformerInv, CacheOK, ReplayOK
  <2>3. Overtakes(e)'
    <3>1. cached'[e.obj.key] # NoObject => cached'[e.obj.key].rv < e.obj.rv
      BY <1>8, <1>9, <2>1, <2>2, Zenon DEF Overtakes
    <3> QED BY <1>1, <1>5, <3>1, Zenon DEF Overtakes
  <2>4. Explained(e)'
    <3>1. ASSUME NEW later \in Waiting, later.obj.key = e.obj.key, e.obj.rv < later.obj.rv
          PROVE  later \in Waiting'
      <4>1. later # event BY <1>2, <1>3, <2>1, <3>1
      <4> QED BY <1>2, <4>1, Zenon
    <3> QED BY <1>1, <2>2, <3>1, Zenon DEF Explained, Outcome, Hidden
  <2> QED BY <2>1, <2>3, <2>4, Zenon DEF InformerInv, CacheOK, ReplayOK
<1>13. ASSUME NEW k \in Keys PROVE UpToDate(k)'
  <2> SUFFICES ASSUME ~Pending(k)'
               PROVE  IF truth[k] = NoObject \/ ~matchesSelectors(truth[k])
                      THEN cached'[k] = NoObject \/ k \in skipped
                      ELSE Transformable(truth[k]) => cached'[k] = truth[k]
    BY <1>1, Zenon DEF UpToDate, matchesSelectors, Transformable
  <2>1. CASE k # key
    <3>1. ~Pending(k) BY <1>2, <2>1, Zenon DEF Pending
    <3> QED BY <1>1, <1>5, <1>8, <2>1, <3>1, Zenon DEF InformerInv, CacheOK, UpToDate
  <2>2. CASE k = key
    <3>1. ASSUME NEW later \in Waiting, later.obj.key = key, event.obj.rv < later.obj.rv PROVE FALSE
      <4>1. later # event BY <1>2, <1>3, <3>1
      <4> QED BY <1>2, <2>2, <3>1, <4>1, Zenon DEF Pending
    <3>2. CASE key \in skipped /\ Hidden(truth[key])
      BY <2>2, <3>2, Zenon DEF Hidden, matchesSelectors
    <3>3. CASE truth[key] = Outcome(event)
      <4>1. ~matchesSelectors(obj) => cached[key] = NoObject
        BY <1>3, <1>4, Zenon DEF matchesSelectors, Replayed, InformerInv, CacheOK, CachedOK
      <4> QED BY <1>3, <1>7, <1>8, <2>2, <3>3, <4>1, Zenon DEF Outcome
    <3> QED BY <1>4, <3>1, <3>2, <3>3, Zenon DEF Explained
  <2> QED BY <2>1, <2>2, Zenon
<1> QED
  BY <1>8, <1>10, <1>11, <1>12, <1>13, Zenon DEF CacheOK

(* MissedEvent: a change that nobody sees.                                 *)
LEMMA MissedEventStep ==
    ASSUME InformerInv, MissedEvent
    PROVE  CacheOK'
<1>1. PICK event \in Changes :
         /\ Changed(event)
         /\ replay' = IF phase # "new" /\ Replayed(event) THEN Append(replay, event) ELSE replay
         /\ skipped' = IF phase # "new" /\ ~Replayed(event) THEN skipped \cup {event.obj.key} ELSE skipped
  BY Zenon DEF MissedEvent
<1>2. /\ phase' = phase /\ cached' = cached /\ items' = items
      /\ UNCHANGED <<outbox, queue, procVars>>
  BY Zenon DEF MissedEvent, cacheVars
<1> DEFINE key == event.obj.key
<1>3. /\ event \in StreamEvent /\ event.obj \in Object /\ key \in Keys /\ event.obj.rv = rv + 1
      /\ rv' = rv + 1 /\ rv \in Nat
      /\ truth'[key] = Outcome(event) /\ \A k \in Keys \ {key} : truth'[k] = truth[k]
  <2>1. event \in StreamEvent BY <1>1, ChangeFacts, Zenon
  <2> QED BY <1>1, <2>1, ChangeFacts, ObjectsKeyed, Zenon DEF Outcome
<1>4. WellKeyed(truth)' /\ CachedOK'
  BY <1>1, <1>2, ChangeVersions, Zenon
<1>5. CASE phase = "new"
  <2>1. replay = <<>> /\ replay' = <<>> /\ items = {} /\ items' = {}
    BY <1>1, <1>2, <1>5, Zenon DEF InformerInv, CacheOK, Untouched, ListOK
  <2>2. Waiting' = {} /\ Ascending(replay')
    BY <2>1 DEF Waiting, Elements, Ascending
  <2>3. Untouched' BY <1>2, <1>5, <2>1, Zenon DEF InformerInv, CacheOK, Untouched, procVars
  <2>4. ListOK' /\ ReplayOK' BY <2>1, <2>2, Zenon DEF ListOK, ReplayOK
  <2> QED BY <1>2, <1>4, <1>5, <2>3, <2>4, Zenon DEF CacheOK
<1>6. CASE phase # "new"
  <2>1. /\ Waiting \subseteq StreamEvent
        /\ \A e \in StreamEvent : e.obj.key \in Keys /\ e.obj.rv \in Nat
        /\ \A e \in Waiting : e.obj.rv \in 1..rv
        /\ replay \in Seq(StreamEvent) /\ Ascending(replay)
    BY WaitingFacts, Zenon DEF InformerInv, CacheOK, ReplayOK
  <2>2. \A e \in Waiting : e.obj.rv < event.obj.rv
    BY <1>3, <2>1
  <2>3. /\ Waiting' = IF Replayed(event) THEN Waiting \cup {event} ELSE Waiting
        /\ skipped' = IF Replayed(event) THEN skipped ELSE skipped \cup {key}
        /\ Ascending(replay')
    <3>1. CASE Replayed(event)
      <4>1. replay' = Append(replay, event) /\ skipped' = skipped BY <1>1, <1>6, <3>1, Zenon
      <4>2. Elements(Append(replay, event)) = Elements(replay) \cup {event}
        BY <1>3, <2>1, AppendElements
      <4>3. Ascending(Append(replay, event))
        BY <1>3, <2>1, <2>2, AppendAscends, Zenon DEF Waiting
      <4> QED BY <3>1, <4>1, <4>2, <4>3, Zenon DEF Waiting, Elements
    <3>2. CASE ~Replayed(event)
      BY <1>1, <1>6, <2>1, <3>2, Zenon DEF Waiting, Elements
    <3> QED BY <3>1, <3>2, Zenon
  <2>4. ~Replayed(event) => Hidden(truth'[key])
    BY <1>3, Zenon DEF Replayed, Hidden, Outcome
  <2>5. \A k \in Keys : Pending(k) => Pending(k)'
    BY <2>3, Zenon DEF Pending
  <2>6. Replayed(event) => Pending(key)'
    BY <2>3, Zenon DEF Pending
  <2>7. ListOK'
    <3>1. phase' # "fill" => items' = {}
      BY <1>2, Zenon DEF InformerInv, CacheOK, ListOK
    <3>2. ASSUME NEW obj \in items
          PROVE  /\ obj.rv \in 1..rv' /\ Older(obj)'
                 /\ Pending(obj.key)' \/ obj = truth'[obj.key] \/ obj.key \in skipped'
      <4>1. /\ obj \in Object /\ obj.key \in Keys /\ obj.rv \in 1..rv /\ Older(obj)
            /\ Pending(obj.key) \/ obj = truth[obj.key] \/ obj.key \in skipped
        BY ObjectParts, Zenon DEF InformerInv, TypeOK, CacheOK, ListOK
      <4>2. Older(obj)' BY <1>1, <4>1, ChangedOlder, Zenon DEF Older
      <4>3. obj.rv \in 1..rv' BY <1>3, <4>1
      <4>4. CASE obj.key = key BY <2>3, <2>6, <4>2, <4>3, <4>4, Zenon
      <4>5. CASE obj.key # key BY <1>3, <2>3, <2>5, <4>1, <4>2, <4>3, <4>5, Zenon
      <4> QED BY <4>4, <4>5, Zenon
    <3> QED BY <1>2, <3>1, <3>2, Zenon DEF ListOK, Older
  <2>8. ReplayOK'
    <3>1. ASSUME NEW e \in Waiting
          PROVE  /\ e.obj.rv \in 1..rv' /\ Replayed(e)
                 /\ truth'[e.obj.key] # NoObject =>
                       e.obj.rv < truth'[e.obj.key].rv \/ truth'[e.obj.key] = Outcome(e)
                 /\ Overtakes(e)' /\ Explained(e)'
      <4>1. /\ e.obj.rv \in 1..rv /\ Replayed(e) /\ e.obj.key \in Keys
            /\ truth[e.obj.key] # NoObject =>
                  e.obj.rv < truth[e.obj.key].rv \/ truth[e.obj.key] = Outcome(e)
            /\ Overtakes(e) /\ Explained(e)
        BY <2>1, Zenon DEF InformerInv, CacheOK, ReplayOK
      <4>2. e.obj.rv \in 1..rv' BY <1>3, <4>1
      <4>3. Overtakes(e)' BY <1>2, <4>1, Zenon DEF Overtakes
      <4>4. CASE e.obj.key = key
        <5>1. truth'[key] # NoObject => e.obj.rv < truth'[key].rv BY <1>3, <2>2, Zenon DEF Outcome
        <5>2. Explained(e)'
          <6>1. CASE Replayed(event) BY <2>2, <2>3, <4>4, <6>1, Zenon DEF Explained
          <6>2. CASE ~Replayed(event) BY <2>3, <2>4, <4>4, <6>2, Zenon DEF Explained, Hidden
          <6> QED BY <6>1, <6>2, Zenon
        <5> QED BY <4>1, <4>2, <4>3, <4>4, <5>1, <5>2, Zenon
      <4>5. CASE e.obj.key # key
        <5>1. truth'[e.obj.key] = truth[e.obj.key] BY <1>3, <4>1, <4>5, Zenon
        <5>2. Explained(e)'
          BY <2>3, <4>1, <5>1, Zenon DEF Explained, Hidden, Outcome
        <5> QED BY <4>1, <4>2, <4>3, <5>1, <5>2, Zenon
      <4> QED BY <4>4, <4>5, Zenon
    <3>2. ASSUME Replayed(event)
          PROVE  /\ event.obj.rv \in 1..rv' /\ truth'[key] = Outcome(event) /\ Overtakes(event)' /\ Explained(event)'
      <4>1. event.obj.rv \in 1..rv' BY <1>3
      <4>2. cached[key] # NoObject => cached[key].rv < event.obj.rv
        BY <1>3, ObjectsKeyed, SMTT(30)
      <4>3. \A obj \in items : obj.rv < event.obj.rv
        <5>1. \A obj \in items : obj.rv \in 1..rv BY Zenon DEF InformerInv, CacheOK, ListOK
        <5> QED BY <1>3, <5>1
      <4> QED BY <1>2, <1>3, <4>1, <4>2, <4>3, Zenon DEF Overtakes, Explained, Outcome
    <3> QED BY <2>3, <3>1, <3>2, Zenon DEF ReplayOK, Replayed, Outcome
  <2>9. ASSUME NEW k \in Keys PROVE UpToDate(k)'
    <3>1. UpToDate(k) BY <1>6, Zenon DEF InformerInv, CacheOK
    <3>2. CASE k = key /\ Replayed(event) BY <2>6, <3>2, Zenon DEF UpToDate
    <3>3. CASE k = key /\ ~Replayed(event)
      <4>1. truth'[k] = NoObject \/ ~matchesSelectors(truth'[k])
        BY <2>4, <3>3, Zenon DEF Hidden, matchesSelectors
      <4>2. k \in skipped' BY <2>3, <3>3, Zenon
      <4> QED BY <4>1, <4>2, Zenon DEF UpToDate, matchesSelectors
    <3>4. CASE k # key
      <4>1. truth'[k] = truth[k] /\ (k \in skipped => k \in skipped') BY <1>3, <2>3, <3>4, Zenon
      <4> QED BY <1>2, <2>5, <3>1, <4>1, Zenon DEF UpToDate, matchesSelectors, Transformable
    <3> QED BY <3>2, <3>3, <3>4, Zenon
  <2>10. Untouched' BY <1>2, <1>6, Zenon DEF Untouched
  <2> QED BY <1>4, <2>7, <2>8, <2>9, <2>10, Zenon DEF CacheOK
<1> QED BY <1>5, <1>6, Zenon

(* The objects a list returns are those of the store.                      *)
LEMMA ListedFacts ==
    ASSUME InformerInv
    PROVE  /\ Listed \in SUBSET Object
           /\ \A obj \in Listed : obj = truth[obj.key]
           /\ \A key \in Keys : truth[key] # NoObject /\ matchesSelectors(truth[key]) => truth[key] \in Listed
<1>1. ASSUME NEW obj \in Listed PROVE obj \in Object /\ obj = truth[obj.key]
  <2>1. PICK key \in Keys : obj = truth[key] /\ obj # NoObject BY Zenon DEF Listed
  <2> QED BY <2>1, ObjectsKeyed, Zenon DEF Keyed
<1> QED BY <1>1, Zenon DEF Listed, matchesSelectors

(* relistInformer: the cache becomes what the list lets through.           *)
LEMMA RelistStep ==
    ASSUME InformerInv, relistInformer
    PROVE  (\E effect : Applied(effect)) /\ CacheOK' /\ IndexOK'
<1> DEFINE effect == replaceAll(cached, Listed)
<1>1. /\ phase = "down" /\ phase' = phase /\ truth' = truth /\ rv' = rv /\ items' = items
      /\ replay' = <<>>
      /\ Apply(effect, IF indexed THEN buildIndex(effect.objects) ELSE index)
      /\ UNCHANGED <<load, queue, procVars, handlerVars, view>>
  BY Zenon DEF relistInformer
<1>2. /\ Listed \in SUBSET Object /\ \A obj \in Listed : obj = truth[obj.key]
      /\ \A key \in Keys : truth[key] # NoObject /\ matchesSelectors(truth[key]) => truth[key] \in Listed
  BY ListedFacts, Zenon
<1>3. /\ cached \in [Keys -> ObjectOrNone] /\ Keyed(cached)
      /\ truth \in [Keys -> ObjectOrNone] /\ Keyed(truth)
      /\ \A key \in Keys : cached[key] # NoObject => cached[key].rv # 0
      /\ \A key \in Keys : truth[key] # NoObject => truth[key].rv # 0
  BY ObjectsKeyed
<1>4. \A key \in Keys : truth[key] # NoObject /\ cached[key] # NoObject /\ truth[key].rv = cached[key].rv
                        => truth[key] = cached[key]
  <2> SUFFICES ASSUME NEW key \in Keys, truth[key] # NoObject, cached[key] # NoObject, truth[key].rv = cached[key].rv
               PROVE  truth[key] = cached[key]
    BY Zenon
  <2>1. cached[key].rv < truth[key].rv \/ cached[key] = truth[key]
    BY <1>3, Zenon DEF InformerInv, CacheOK, CachedOK, Older, Keyed
  <2>2. truth[key].rv \in Nat BY ObjectsKeyed, ObjectParts, Zenon
  <2> QED BY <2>1, <2>2
<1>5. /\ EffectOK(cached, effect)
      /\ \A key \in Keys : effect.objects[key] =
            IF truth[key] \in Listed /\ matchesSelectors(truth[key]) /\ Transformable(truth[key])
            THEN truth[key] ELSE NoObject
  BY <1>2, <1>3, <1>4, ReplaceEffect, Zenon
<1>6. /\ cached' = effect.objects /\ index' = (IF indexed THEN buildIndex(effect.objects) ELSE index)
      /\ indexed' = indexed /\ Apply(effect, index')
  BY <1>1, Zenon DEF Apply
<1> HIDE DEF effect
<1>7. NoObject \notin Listed
  BY <1>2, NoObjectIsNone, Zenon
<1>8. \A key \in Keys : cached'[key] =
            IF truth[key] # NoObject /\ matchesSelectors(truth[key]) /\ Transformable(truth[key])
            THEN truth[key] ELSE NoObject
  BY <1>2, <1>5, <1>6, <1>7, Zenon
<1>9. IndexOK'
  BY <1>6, Zenon DEF InformerInv, IndexOK
<1>10. WellKeyed(truth)' /\ WellKeyed(cached)'
  BY <1>1, <1>8, Zenon DEF InformerInv, CacheOK, WellKeyed
<1>11. CachedOK'
  <2> SUFFICES ASSUME NEW key \in Keys, cached'[key] # NoObject
               PROVE  key \in AllowedKeys /\ Older(cached'[key])
    BY <1>1, <1>10, Zenon DEF CachedOK, Older
  <2>1. cached'[key] = truth[key] /\ matchesSelectors(truth[key]) BY <1>8, Zenon
  <2> QED BY <1>3, <2>1, Zenon DEF matchesSelectors, Older, Keyed
<1>12. items = {} /\ Waiting' = {} /\ Ascending(replay')
  <2>1. items = {} BY <1>1, Zenon DEF InformerInv, CacheOK, ListOK
  <2> QED BY <1>1, <2>1 DEF Waiting, Elements, Ascending
<1>13. ListOK' /\ ReplayOK' /\ Untouched'
  BY <1>1, <1>12, Zenon DEF ListOK, ReplayOK, Untouched
<1>14. \A key \in Keys : UpToDate(key)'
  BY <1>1, <1>8, Zenon DEF UpToDate, matchesSelectors, Transformable
<1>15. Applied(effect)
  BY <1>1, <1>5, <1>6, Zenon DEF Applied
<1> QED
  BY <1>9, <1>10, <1>11, <1>13, <1>14, <1>15, Zenon DEF CacheOK

(* A step that leaves the store, the stream and the cache alone.           *)
LEMMA CacheKeptAny ==
    ASSUME InformerInv, UNCHANGED <<truth, rv, replay, skipped, items, cached>>, Untouched',
           phase = "new" => phase' = phase, phase' = phase \/ items = {}
    PROVE  CacheOK'
<1>1. Waiting' = Waiting /\ \A key : Pending(key)' = Pending(key)
  BY Zenon DEF Waiting, Elements, Pending
<1>2. WellKeyed(truth)' /\ CachedOK'
  BY Zenon DEF InformerInv, CacheOK, CachedOK, WellKeyed, Older
<1>3. ListOK'
  BY <1>1, Zenon DEF InformerInv, CacheOK, ListOK, Older
<1>4. ReplayOK'
  BY <1>1, Zenon DEF InformerInv, CacheOK, ReplayOK, Overtakes, Explained, Outcome, Hidden, Replayed, Ascending
<1>5. phase' # "new" => \A key \in Keys : UpToDate(key)'
  BY <1>1, Zenon DEF InformerInv, CacheOK, UpToDate, matchesSelectors, Transformable
<1> QED BY <1>2, <1>3, <1>4, <1>5, Zenon DEF CacheOK

LEMMA CacheKept ==
    ASSUME InformerInv, UNCHANGED <<truth, rv, replay, skipped, items, cached>>, phase' # "new", phase # "new",
           phase' = phase \/ items = {}
    PROVE  CacheOK'
<1>1. Untouched' BY Zenon DEF Untouched
<1> QED BY <1>1, CacheKeptAny, Zenon

(* resyncInformer: the cache stays as it is.                               *)
LEMMA ResyncStep ==
    ASSUME InformerInv, resyncInformer
    PROVE  (\E effect : Applied(effect)) /\ CacheOK' /\ IndexOK'
<1>1. /\ phase = "watch" /\ phase' = phase /\ UNCHANGED <<truth, rv, replay, skipped, items>>
      /\ Apply(resync(cached), index)
      /\ UNCHANGED <<load, queue, procVars, handlerVars, view>>
  BY Zenon DEF resyncInformer, storeVars
<1>2. EffectOK(cached, resync(cached)) /\ resync(cached).objects = cached
  BY ObjectsKeyed, ResyncEffect, Zenon
<1>3. cached' = cached /\ index' = index /\ indexed' = indexed /\ Apply(resync(cached), index')
  BY <1>1, <1>2, Zenon DEF Apply
<1>4. IndexOK'
  BY <1>3, Zenon DEF InformerInv, IndexOK
<1>5. CacheOK'
  BY <1>1, <1>3, CacheKept, Zenon
<1>6. Applied(resync(cached))
  BY <1>1, <1>2, <1>3, Zenon DEF Applied
<1> QED
  BY <1>4, <1>5, <1>6, Zenon
-----------------------------------------------------------------------------
(***************************************************************************)
(* Every step is one of these operations, a step that leaves the cache, *)
(* the queue and the handlers alone, or one of the steps that move events  *)
(* from the outbox to the handlers or that handlers come and go with.      *)
(***************************************************************************)
Quiet == UNCHANGED <<cached, readded, outbox, queue, procVars, handlerVars, view, due>>

Moves ==
    \/ Enqueue \/ drain \/ processExit \/ CopyHandlers \/ CallHandler \/ NextEvent
    \/ \E h \in Handlers : AddEventHandler(h) \/ OnAddExisting(h) \/ RemoveEventHandler(h)
    \/ closeQueue

LEMMA StepKinds ==
    ASSUME InformerInv, [Next]_vars
    PROVE  (\E effect : Applied(effect)) \/ Quiet \/ Moves
<1>1. CASE InitialAdd \/ WatchEvent \/ ReplayEvent \/ relistInformer \/ resyncInformer
  BY <1>1, InitialAddStep, WatchEventStep, ReplayEventStep, RelistStep, ResyncStep, Zenon
<1>2. CASE startInformer \/ InitialDone \/ OpenWatch \/ LoseWatch \/ MissedEvent \/ addIndexer \/ UNCHANGED vars
  BY <1>2, Zenon DEF startInformer, InitialDone, OpenWatch, LoseWatch, MissedEvent, addIndexer, vars, Quiet, cacheVars
<1>3. CASE Moves
  BY <1>3, Zenon
<1> QED
  BY <1>1, <1>2, <1>3, Zenon DEF Next, WatchLoop, Processor, Store, Users, Moves

(* A step that only moves events leaves the store and the cache alone, and *)
(* needs a started informer, except for handlers that come and go.         *)
LEMMA MovesFacts ==
    ASSUME Moves
    PROVE  UNCHANGED <<storeVars, phase, items, cacheVars>>
  BY Zenon DEF Moves, Enqueue, drain, processExit, CopyHandlers, CallHandler, NextEvent, AddEventHandler,
         OnAddExisting, RemoveEventHandler, closeQueue, handlerVars

(* The cache follows the store, and the index the cache.                   *)
LEMMA CacheStep ==
    ASSUME InformerInv, [Next]_vars
    PROVE  CacheOK' /\ IndexOK'
<1>1. CASE InitialAdd \/ WatchEvent \/ ReplayEvent \/ relistInformer \/ resyncInformer
  BY <1>1, InitialAddStep, WatchEventStep, ReplayEventStep, RelistStep, ResyncStep, Zenon
<1>2. CASE MissedEvent
  <2>1. index' = index /\ indexed' = indexed /\ cached' = cached BY <1>2, Zenon DEF MissedEvent, cacheVars
  <2> QED BY <1>2, <2>1, MissedEventStep, Zenon DEF InformerInv, IndexOK
<1>3. CASE startInformer
  <2>1. /\ phase = "new" /\ phase' = "fill" /\ items' = Listed /\ replay' = replay
        /\ truth' = truth /\ rv' = rv /\ cached' = cached /\ index' = index /\ indexed' = indexed
    BY <1>3, Zenon DEF startInformer, storeVars, cacheVars
  <2>2. (\A key \in Keys : cached[key] = NoObject) /\ replay = <<>>
    BY <2>1, Zenon DEF InformerInv, CacheOK, Untouched, NoObjects
  <2>3. Waiting' = {} /\ Ascending(replay')
    BY <2>1, <2>2 DEF Waiting, Elements, Ascending
  <2>4. /\ \A obj \in Listed : obj \in Object /\ obj = truth[obj.key]
        /\ \A key \in Keys : truth[key] # NoObject /\ matchesSelectors(truth[key]) => truth[key] \in Listed
    BY ListedFacts, Zenon
  <2>5. \A obj \in Listed : obj.rv \in 1..rv
    BY <2>4, ObjectsKeyed, ObjectParts, Zenon
  <2>6. ListOK' /\ ReplayOK' /\ Untouched'
    BY <2>1, <2>3, <2>4, <2>5, Zenon DEF ListOK, ReplayOK, Untouched, Older
  <2>7. WellKeyed(truth)' /\ CachedOK' /\ IndexOK'
    BY <2>1, <2>2, Zenon DEF InformerInv, CacheOK, WellKeyed, CachedOK, IndexOK
  <2>8. \A key \in Keys : UpToDate(key)'
    BY <2>1, <2>2, <2>4, Zenon DEF UpToDate, matchesSelectors, Transformable
  <2> QED BY <2>6, <2>7, <2>8, Zenon DEF CacheOK
<1>4. CASE InitialDone \/ OpenWatch \/ LoseWatch
  <2>1. /\ phase \in {"fill", "down", "watch"} /\ phase' # "new" /\ (phase = "fill" => items = {})
        /\ UNCHANGED <<truth, rv, replay, skipped, items, cached, index, indexed>>
    BY <1>4, Zenon DEF InitialDone, OpenWatch, LoseWatch, storeVars, cacheVars
  <2>2. items = {} BY <2>1, Zenon DEF InformerInv, CacheOK, ListOK
  <2>3. CacheOK' BY <2>1, <2>2, CacheKept
  <2> QED BY <2>1, <2>3, Zenon DEF InformerInv, IndexOK
<1>6. CASE addIndexer \/ UNCHANGED vars
  <2>1. UNCHANGED <<truth, rv, replay, skipped, phase, items, cached, outbox, queue, proc, batch>>
    BY <1>6, Zenon DEF addIndexer, vars, storeVars, cacheVars, procVars
  <2>2. IndexOK'
    <3>1. index = IF indexed THEN buildIndex(cached) ELSE {}
      BY Zenon DEF InformerInv, CacheOK, IndexOK
    <3>2. buildIndex(cached)' = buildIndex(cached)
      BY <2>1, Zenon DEF buildIndex
    <3>3. CASE addIndexer
      <4>1. indexed' = TRUE /\ index' = buildIndex(cached) BY <3>3, Zenon DEF addIndexer
      <4> QED BY <3>2, <4>1, Zenon DEF IndexOK
    <3>4. CASE UNCHANGED vars
      <4>1. indexed' = indexed /\ index' = index BY <3>4, Zenon DEF vars, cacheVars
      <4> QED BY <3>1, <3>2, <4>1, Zenon DEF IndexOK
    <3> QED BY <1>6, <3>3, <3>4, Zenon
  <2>3. Untouched' BY <2>1, Zenon DEF InformerInv, CacheOK, Untouched
  <2> QED BY <2>1, <2>2, <2>3, CacheKeptAny, Zenon
<1>7. CASE Moves
  <2>1. UNCHANGED <<truth, rv, replay, skipped, phase, items, cached, indexed, index>>
    BY <1>7, MovesFacts, Zenon DEF storeVars, cacheVars
  <2>2. IndexOK'
    BY <2>1, Zenon DEF InformerInv, IndexOK
  <2>3. Untouched'
    <3> SUFFICES ASSUME phase = "new"
                 PROVE  UNCHANGED <<outbox, proc, batch>> /\ queue'.pending = queue.pending
      BY <2>1, Zenon DEF InformerInv, CacheOK, Untouched
    <3>1. outbox = NoEvents /\ proc = "idle"
      BY Zenon DEF InformerInv, CacheOK, Untouched
    <3>2. DOMAIN outbox = {}
      BY <3>1, Zenon DEF NoEvents
    <3>3. \/ closeQueue
          \/ \E h \in Handlers : AddEventHandler(h) \/ OnAddExisting(h) \/ RemoveEventHandler(h)
      BY <1>7, <3>1, <3>2, Zenon DEF Moves, Enqueue, drain, processExit, CopyHandlers, CallHandler, NextEvent
    <3>4. queue \in eventQueue BY Zenon DEF InformerInv, TypeOK
    <3> QED
      BY <3>3, <3>4, Zenon DEF closeQueue, AddEventHandler, OnAddExisting, RemoveEventHandler, procVars, eventQueue
  <2> QED BY <2>1, <2>2, <2>3, CacheKeptAny, Zenon
<1> QED
  BY <1>1, <1>2, <1>3, <1>4, <1>6, <1>7, Zenon DEF Next, WatchLoop, Processor, Store, Users, Moves
-----------------------------------------------------------------------------
(* The types of the store and of the cache.                                *)
LEMMA DataTypeStep ==
    ASSUME InformerInv, [Next]_vars
    PROVE  /\ load' \in Load
           /\ truth' \in [Keys -> ObjectOrNone] /\ rv' \in Nat
           /\ phase' \in {"new", "fill", "watch", "down"}
           /\ replay' \in Seq(StreamEvent) /\ skipped' \subseteq Keys
           /\ items' \subseteq Object /\ readded' \subseteq Keys
           /\ cached' \in [Keys -> ObjectOrNone]
           /\ indexed' \in BOOLEAN /\ index' \subseteq Specs \X Keys
<1>1. /\ load \in Load /\ truth \in [Keys -> ObjectOrNone] /\ rv \in Nat
      /\ phase \in {"new", "fill", "watch", "down"} /\ items \subseteq Object
      /\ cached \in [Keys -> ObjectOrNone] /\ Listed \subseteq Object
  BY ObjectsKeyed, ListedFacts, Zenon DEF InformerInv, TypeOK
<1>2. indexed \in BOOLEAN
  BY Zenon DEF InformerInv, TypeOK
<1>3. cached' \in [Keys -> ObjectOrNone]
  <2>1. CASE \E effect : Applied(effect)
    BY <2>1, Zenon DEF Applied, Apply, EffectOK
  <2>2. CASE Quiet \/ Moves
    BY <1>1, <2>2, MovesFacts, Zenon DEF Quiet, cacheVars
  <2> QED BY <2>1, <2>2, StepKinds, Zenon
<1>4. /\ load' \in Load /\ phase' \in {"new", "fill", "watch", "down"} /\ items' \subseteq Object
      /\ indexed' \in {indexed, TRUE}
  <2>1. CASE Moves
    BY <1>1, <2>1, MovesFacts, Zenon DEF storeVars, cacheVars
  <2>2. CASE UNCHANGED vars
    BY <1>1, <2>2, Zenon DEF vars, storeVars, cacheVars
  <2>3. CASE InitialAdd \/ WatchEvent \/ ReplayEvent \/ relistInformer \/ resyncInformer
    BY <1>1, <2>3, Zenon DEF InitialAdd, WatchEvent, ReplayEvent, relistInformer, resyncInformer, storeVars,
       Apply, Changed
  <2>4. CASE startInformer \/ InitialDone \/ OpenWatch \/ LoseWatch \/ MissedEvent \/ addIndexer
    BY <1>1, <2>4, Zenon DEF startInformer, InitialDone, OpenWatch, LoseWatch, MissedEvent, addIndexer, storeVars,
       cacheVars, Changed
  <2> QED BY <2>1, <2>2, <2>3, <2>4, Zenon DEF Next, WatchLoop, Processor, Store, Users, Moves
<1>5. indexed' \in BOOLEAN
  BY <1>2, <1>4, Zenon
<1>6. truth' \in [Keys -> ObjectOrNone] /\ rv' \in Nat
  <2>1. CASE WatchEvent \/ MissedEvent
    BY <1>1, <2>1, ChangeFacts, SMTT(30) DEF WatchEvent, MissedEvent
  <2>2. CASE UNCHANGED <<truth, rv>>
    BY <1>1, <2>2, Zenon
  <2>3. CASE Moves
    BY <2>2, <2>3, MovesFacts, Zenon DEF storeVars
  <2>4. CASE \/ InitialAdd \/ ReplayEvent \/ relistInformer \/ resyncInformer
             \/ startInformer \/ InitialDone \/ OpenWatch \/ LoseWatch \/ addIndexer \/ UNCHANGED vars
    BY <2>2, <2>4, Zenon DEF InitialAdd, ReplayEvent, relistInformer, resyncInformer, startInformer, InitialDone,
       OpenWatch, LoseWatch, addIndexer, storeVars, vars
  <2> QED BY <2>1, <2>3, <2>4, Zenon DEF Next, WatchLoop, Processor, Store, Users, Moves
<1>7. index' \subseteq Specs \X Keys
  <2>1. index' = IF indexed' THEN buildIndex(cached') ELSE {}
    BY CacheStep, Zenon DEF IndexOK, buildIndex
  <2> QED BY <1>3, <2>1, BuildIndexType, Zenon
<1>8. readded' \subseteq Keys
  <2>1. readded \subseteq Keys BY Zenon DEF InformerInv, TypeOK
  <2>2. CASE \E effect : Applied(effect)
    BY <2>1, <2>2, Zenon DEF Applied, Apply, EffectOK
  <2>3. CASE Quiet \/ Moves
    BY <2>1, <2>3, MovesFacts, Zenon DEF Quiet, cacheVars
  <2> QED BY <2>2, <2>3, StepKinds, Zenon
<1>9. replay' \in Seq(StreamEvent) /\ skipped' \subseteq Keys
  <2>1. replay \in Seq(StreamEvent) /\ skipped \subseteq Keys
    BY WaitingFacts, Zenon DEF InformerInv, TypeOK
  <2>2. CASE UNCHANGED <<replay, skipped>>
    BY <2>1, <2>2, Zenon
  <2>3. CASE MissedEvent
    <3>1. PICK event \in Changes :
             Changed(event) /\ replay' \in {replay, Append(replay, event)} /\ skipped' \subseteq skipped \cup {event.obj.key}
      BY <2>3, Zenon DEF MissedEvent
    <3>2. event \in StreamEvent /\ event.obj.key \in Keys BY <3>1, ChangeFacts, Zenon
    <3>3. Append(replay, event) \in Seq(StreamEvent) BY <2>1, <3>2, AppendProperties, Zenon
    <3> QED BY <2>1, <3>1, <3>2, <3>3, Zenon
  <2>4. CASE WatchEvent
    BY <2>1, <2>4, Zenon DEF WatchEvent
  <2>5. CASE ReplayEvent
    <3>1. replay # <<>> /\ replay' = Tail(replay) /\ skipped' = skipped BY <2>5, Zenon DEF ReplayEvent
    <3> QED BY <2>1, <3>1, HeadTailProperties, Zenon
  <2>6. CASE relistInformer
    BY <2>6, EmptySeq, Zenon DEF relistInformer
  <2>7. CASE Moves
    BY <2>2, <2>7, MovesFacts, Zenon DEF storeVars
  <2>8. CASE \/ InitialAdd \/ resyncInformer \/ startInformer \/ InitialDone \/ OpenWatch \/ LoseWatch
             \/ addIndexer \/ UNCHANGED vars
    BY <2>2, <2>8, Zenon DEF InitialAdd, resyncInformer, startInformer, InitialDone, OpenWatch, LoseWatch,
       addIndexer, storeVars, vars
  <2> QED
    BY <2>3, <2>4, <2>5, <2>6, <2>7, <2>8, Zenon DEF Next, WatchLoop, Processor, Store, Users, Moves
<1> QED
  BY <1>3, <1>4, <1>5, <1>6, <1>7, <1>8, <1>9, Zenon

(* What an operation leaves for the queue and the handlers.                *)
LEMMA AppliedFacts ==
    ASSUME InformerInv, NEW effect, Applied(effect)
    PROVE  /\ outbox = NoEvents /\ DOMAIN outbox = {}
           /\ cached' = effect.objects /\ outbox' = effect.events
           /\ DOMAIN outbox' \subseteq Keys
           /\ \A key \in DOMAIN outbox' :
                 outbox'[key] \in cacheEvent /\ outbox'[key].obj.key = key /\ After(outbox'[key]) = cached'[key]
           /\ readded \subseteq readded'
           /\ \A key \in DOMAIN outbox' \ readded' : Leads(cached[key], outbox'[key], key, cached'[key])
           /\ \A key \in Keys \ DOMAIN outbox' : cached'[key] = cached[key]
           /\ due' \in [Handlers -> SUBSET Keys]
           /\ \A h \in Registered : due'[h] = due[h] \cup {k \in Keys : cached'[k] # cached[k]}
           /\ UNCHANGED <<queue, proc, batch, targets, called, handlers, snapshot, added, view>>
<1>1. due \in [Handlers -> SUBSET Keys] /\ Registered \subseteq Handlers
  <2>1. handlers \in Seq(Handlers) BY Zenon DEF InformerInv, TypeOK
  <2>2. \A n \in DOMAIN handlers : handlers[n] \in Handlers BY <2>1
  <2> QED BY <2>2, SMTT(30) DEF InformerInv, TypeOK, Registered
<1>2. /\ outbox = NoEvents /\ cached' = effect.objects /\ outbox' = effect.events
      /\ due' = [h \in Handlers |-> IF h \notin Registered THEN {}
                                    ELSE due[h] \cup {k \in Keys : effect.objects[k] # cached[k]}]
  BY Zenon DEF Applied, Apply
<1>3. DOMAIN NoEvents = {}
  BY Zenon DEF NoEvents
<1>4. UNCHANGED <<queue, proc, batch, targets, called, handlers, snapshot, added, view>>
  BY Zenon DEF Applied, procVars, handlerVars
<1>5. EffectOK(cached, effect)
  BY Zenon DEF Applied
<1>6. \A key \in DOMAIN outbox' :
         outbox'[key] \in cacheEvent /\ outbox'[key].obj.key = key /\ After(outbox'[key]) = cached'[key]
  BY <1>2, <1>5, Zenon DEF EffectOK, LeadsOrReadds, Leads
<1>7. readded' = readded \cup {key \in DOMAIN outbox' : outbox'[key].type = "add" /\ cached[key] # NoObject}
  BY <1>2, Zenon DEF Applied, Apply
<1>8. \A key \in DOMAIN outbox' \ readded' : Leads(cached[key], outbox'[key], key, cached'[key])
  BY <1>2, <1>5, <1>7, Zenon DEF EffectOK, LeadsOrReadds
<1> QED
  BY <1>1, <1>2, <1>3, <1>4, <1>5, <1>6, <1>7, <1>8, Zenon DEF EffectOK

(* The events on their way to the queue, and those in it.                  *)
EventsOK ==
    /\ DOMAIN outbox \subseteq Keys /\ \A key \in DOMAIN outbox : outbox[key] \in cacheEvent
    /\ queue \in eventQueue
    /\ \A key \in DOMAIN outbox : outbox[key].obj.key = key /\ After(outbox[key]) = cached[key]
    /\ \A key \in Keys :
          /\ \A n \in DOMAIN queue.pending[key] : queue.pending[key][n].obj.key = key
          /\ queue.pending[key] # <<>> => \E i \in DOMAIN queue.order : queue.order[i] = key

LEMMA EnqueueFacts ==
    ASSUME InformerInv, NEW key \in DOMAIN outbox, ~queue.closed
    PROVE  /\ key \in Keys
           /\ enqueue(queue, key, outbox[key]).pending
                = [queue.pending EXCEPT ![key] = Push(queue.pending[key], outbox[key])]
           /\ enqueue(queue, key, outbox[key]).order \in Seq(Keys)
           /\ \A k \in Keys : (k = key \/ \E i \in DOMAIN queue.order : queue.order[i] = k)
                => \E i \in DOMAIN enqueue(queue, key, outbox[key]).order : enqueue(queue, key, outbox[key]).order[i] = k
           /\ enqueue(queue, key, outbox[key]).closed = queue.closed
           /\ enqueue(queue, key, outbox[key]) \in eventQueue
           /\ Push(queue.pending[key], outbox[key]) \in Seq(cacheEvent)
           /\ \A n \in DOMAIN Push(queue.pending[key], outbox[key]) :
                 Push(queue.pending[key], outbox[key])[n].obj.key = key
           /\ outbox[key].type # "delete" => Push(queue.pending[key], outbox[key]) # <<>>
<1> DEFINE event == outbox[key]
           order == IF queue.pending[key] = <<>> THEN Append(queue.order, key) ELSE queue.order
           pushed == Push(queue.pending[key], event)
<1>1. /\ key \in Keys /\ event \in cacheEvent /\ event.obj.key = key
      /\ queue \in [order : Seq(Keys), pending : [Keys -> Seq(cacheEvent)], closed : BOOLEAN]
  BY Zenon DEF InformerInv, TypeOK, QueueOK, eventQueue
<1>2. /\ queue.order \in Seq(Keys) /\ queue.pending \in [Keys -> Seq(cacheEvent)]
      /\ queue.pending[key] \in Seq(cacheEvent)
      /\ \A n \in DOMAIN queue.pending[key] : queue.pending[key][n].obj.key = key
      /\ queue.pending[key] # <<>> => \E i \in DOMAIN queue.order : queue.order[i] = key
  BY <1>1, Zenon DEF InformerInv, QueueOK
<1>3. /\ pushed \in Seq(cacheEvent) /\ \A n \in DOMAIN pushed : pushed[n].obj.key = key
      /\ event.type # "delete" => pushed # <<>>
  BY <1>1, <1>2, PushType, SMTT(30)
<1> HIDE DEF pushed
<1>4. enqueue(queue, key, event) = [queue EXCEPT !.pending[key] = pushed, !.order = order]
  BY <1>1, <1>2, Zenon DEF enqueue, pushed
<1>5. order \in Seq(Keys) /\ \A k \in Keys : (k = key \/ \E i \in DOMAIN queue.order : queue.order[i] = k)
                                             => \E i \in DOMAIN order : order[i] = k
  <2>1. CASE queue.pending[key] # <<>>
    BY <1>2, <2>1, Zenon
  <2>2. CASE queue.pending[key] = <<>>
    <3>1. /\ order = Append(queue.order, key) /\ order \in Seq(Keys) /\ Len(order) = Len(queue.order) + 1
          /\ Len(queue.order) \in Nat
          /\ DOMAIN queue.order = 1..Len(queue.order) /\ DOMAIN order = 1..Len(order)
          /\ order[Len(queue.order) + 1] = key
          /\ \A i \in 1..Len(queue.order) : order[i] = queue.order[i]
      BY <1>1, <1>2, <2>2, AppendProperties, LenProperties, SMTT(30)
    <3> HIDE DEF order
    <3>2. \E i \in DOMAIN order : order[i] = key
      BY <3>1
    <3>3. ASSUME NEW k \in Keys, NEW i \in DOMAIN queue.order, queue.order[i] = k
          PROVE \E j \in DOMAIN order : order[j] = k
      BY <3>1, <3>3
    <3> QED BY <3>1, <3>2, <3>3, Zenon
  <2> QED BY <2>1, <2>2, Zenon
<1> HIDE DEF order
<1>6. /\ enqueue(queue, key, event).pending = [queue.pending EXCEPT ![key] = pushed]
      /\ enqueue(queue, key, event).order = order
      /\ enqueue(queue, key, event).closed = queue.closed
  BY <1>1, <1>4, Zenon
<1>7. enqueue(queue, key, event) \in eventQueue
  <2>1. [queue.pending EXCEPT ![key] = pushed] \in [Keys -> Seq(cacheEvent)] BY <1>1, <1>2, <1>3, Zenon
  <2> QED BY <1>1, <1>4, <1>5, <2>1, Zenon DEF eventQueue
<1> HIDE DEF event
<1> QED BY <1>1, <1>3, <1>5, <1>6, <1>7, Zenon DEF pushed, event

LEMMA EventsStep ==
    ASSUME InformerInv, [Next]_vars
    PROVE  EventsOK'
<1>1. EventsOK
  BY Zenon DEF InformerInv, TypeOK, QueueOK, EventsOK
<1>2. ASSUME NEW effect, Applied(effect) PROVE EventsOK'
  <2>1. /\ DOMAIN outbox' \subseteq Keys /\ queue' = queue
    BY <1>2, AppliedFacts, Zenon
  <2>2. \A key \in DOMAIN outbox' :
           outbox'[key] \in cacheEvent /\ outbox'[key].obj.key = key /\ After(outbox'[key]) = cached'[key]
    BY <1>2, AppliedFacts, Zenon
  <2>3. EventsOK' <=> /\ DOMAIN outbox' \subseteq Keys /\ \A key \in DOMAIN outbox' : outbox'[key] \in cacheEvent
                      /\ queue' \in eventQueue
                      /\ \A key \in DOMAIN outbox' : outbox'[key].obj.key = key /\ After(outbox'[key]) = cached'[key]
                      /\ \A key \in Keys :
                           /\ \A n \in DOMAIN queue'.pending[key] : queue'.pending[key][n].obj.key = key
                           /\ queue'.pending[key] # <<>> => \E i \in DOMAIN queue'.order : queue'.order[i] = key
    BY Zenon DEF EventsOK, After
  <2> QED BY <1>1, <2>1, <2>2, <2>3, Zenon DEF EventsOK
<1>3. CASE UNCHANGED <<cached, outbox, queue>>
  BY <1>1, <1>3, Zenon DEF EventsOK, After
<1>4. CASE Enqueue
  <2>1. PICK key \in DOMAIN outbox :
           /\ queue' = enqueue(queue, key, outbox[key])
           /\ outbox' = [k \in DOMAIN outbox \ {key} |-> outbox[k]]
    BY <1>4, Zenon DEF Enqueue
  <2>2. cached' = cached BY <1>4, Zenon DEF Enqueue, cacheVars
  <2>3. /\ DOMAIN outbox' \subseteq Keys
        /\ \A k \in DOMAIN outbox' : outbox'[k] \in cacheEvent /\ outbox'[k].obj.key = k /\ After(outbox'[k]) = cached'[k]
    BY <1>1, <2>1, <2>2, Zenon DEF EventsOK
  <2>4. CASE queue.closed
    <3>1. queue' = queue BY <2>1, <2>4, Zenon DEF enqueue
    <3> QED BY <1>1, <2>3, <3>1, Zenon DEF EventsOK, After
  <2>5. CASE ~queue.closed
    <3> DEFINE pushed == Push(queue.pending[key], outbox[key])
    <3>q. /\ key \in Keys
          /\ enqueue(queue, key, outbox[key]).pending = [queue.pending EXCEPT ![key] = pushed]
          /\ enqueue(queue, key, outbox[key]) \in eventQueue
          /\ \A n \in DOMAIN pushed : pushed[n].obj.key = key
          /\ \A k \in Keys : (k = key \/ \E i \in DOMAIN queue.order : queue.order[i] = k)
                => \E i \in DOMAIN enqueue(queue, key, outbox[key]).order : enqueue(queue, key, outbox[key]).order[i] = k
      BY <2>5, EnqueueFacts, Zenon
    <3>1. /\ key \in Keys /\ queue'.pending = [queue.pending EXCEPT ![key] = pushed]
          /\ queue' \in eventQueue
          /\ \A n \in DOMAIN pushed : pushed[n].obj.key = key
          /\ \A k \in Keys : (k = key \/ \E i \in DOMAIN queue.order : queue.order[i] = k)
                => \E i \in DOMAIN queue'.order : queue'.order[i] = k
      BY <2>1, <3>q, Zenon
    <3>p. queue.pending \in [Keys -> Seq(cacheEvent)]
      BY <1>1, Zenon DEF EventsOK, eventQueue
    <3> HIDE DEF pushed
    <3>2. \A k \in Keys : /\ \A n \in DOMAIN queue'.pending[k] : queue'.pending[k][n].obj.key = k
                          /\ queue'.pending[k] # <<>> => \E i \in DOMAIN queue'.order : queue'.order[i] = k
      <4> TAKE k \in Keys
      <4>1. CASE k = key BY <3>1, <3>p, <4>1, Zenon
      <4>2. CASE k # key
        <5>1. queue'.pending[k] = queue.pending[k] BY <3>1, <3>p, <4>2, Zenon
        <5> QED BY <1>1, <3>1, <5>1 DEF EventsOK
      <4> QED BY <4>1, <4>2, Zenon
    <3> QED BY <2>3, <3>1, <3>2, Zenon DEF EventsOK, After
  <2> QED BY <2>4, <2>5, Zenon
<1>5. CASE drain
  <2>1. /\ cached' = cached /\ outbox' = outbox /\ queue' = [newEventQueue EXCEPT !.closed = queue.closed]
    BY <1>5, Zenon DEF drain, cacheVars
  <2>2. queue.closed \in BOOLEAN BY <1>1, Zenon DEF EventsOK, eventQueue
  <2>3. queue' = [order |-> <<>>, pending |-> [key \in Keys |-> <<>>], closed |-> queue.closed]
    BY <2>1, Zenon DEF newEventQueue
  <2>4. queue'.pending = [key \in Keys |-> <<>>]
    BY <2>3, Zenon
  <2>5. <<>> \in Seq(Keys) /\ [key \in Keys |-> <<>>] \in [Keys -> Seq(cacheEvent)]
    OBVIOUS
  <2>6. queue' \in eventQueue
    BY <2>2, <2>3, <2>5, Zenon DEF eventQueue
  <2> QED BY <1>1, <2>1, <2>4, <2>6 DEF EventsOK, After
<1>6. CASE closeQueue
  <2>1. cached' = cached /\ outbox' = outbox /\ queue' = [queue EXCEPT !.closed = TRUE]
    BY <1>6, Zenon DEF closeQueue, cacheVars
  <2>2. queue'.pending = queue.pending /\ queue'.order = queue.order /\ queue' \in eventQueue
    BY <1>1, <2>1, Zenon DEF EventsOK, eventQueue
  <2> QED BY <1>1, <2>1, <2>2 DEF EventsOK, After
<1>7. CASE \/ processExit \/ CopyHandlers \/ CallHandler \/ NextEvent
           \/ \E h \in Handlers : AddEventHandler(h) \/ OnAddExisting(h) \/ RemoveEventHandler(h)
  BY <1>3, <1>7, Zenon DEF processExit, CopyHandlers, CallHandler, NextEvent, AddEventHandler, OnAddExisting,
     RemoveEventHandler, cacheVars
<1>8. CASE Quiet
  BY <1>3, <1>8, Zenon DEF Quiet
<1> QED
  BY <1>2, <1>4, <1>5, <1>6, <1>7, <1>8, StepKinds, Zenon DEF Moves

(* The processor's own state.                                              *)
ProcOK ==
    /\ proc \in {"idle", "copy", "call", "done"}
    /\ batch \in Seq(cacheEvent) /\ targets \in Seq(Handlers) /\ called \in 0..Len(targets)
    /\ proc \in {"idle", "done"} => batch = <<>>
    /\ batch = <<>> => called = 0

LEMMA ProcStep ==
    ASSUME InformerInv, [Next]_vars
    PROVE  ProcOK'
<1>1. ProcOK /\ handlers \in Seq(Handlers)
  BY Zenon DEF InformerInv, TypeOK, QueueOK, ProcOK
<1>2. CASE UNCHANGED procVars
  BY <1>1, <1>2, Zenon DEF ProcOK, procVars
<1>3. CASE drain
  <2>1. drained(queue) \in Seq(cacheEvent)
    <3>1. Keys # {} BY <1>3, Zenon DEF drain, Idle
    <3>2. PICK key \in Keys : TRUE BY <3>1, Zenon
    <3> QED BY DrainFacts, Zenon DEF InformerInv, TypeOK, QueueOK, OwnEvents
  <2>2. batch = <<>> /\ called = 0 BY <1>1, <1>3, Zenon DEF ProcOK, drain
  <2> QED BY <1>1, <1>3, <2>1, <2>2, Zenon DEF ProcOK, drain
<1>4. CASE CopyHandlers \/ processExit
  BY <1>1, <1>4, LenProperties DEF ProcOK, CopyHandlers, processExit
<1>5. CASE CallHandler
  <2>1. Len(targets) \in Nat BY <1>1, LenProperties, Zenon DEF ProcOK
  <2> QED BY <1>1, <1>5, <2>1 DEF ProcOK, CallHandler
<1>6. CASE NextEvent
  <2>1. Len(targets) \in Nat BY <1>1, LenProperties, Zenon DEF ProcOK
  <2>2. CASE batch = <<>>
    BY <1>1, <1>6, <2>1, <2>2, SMTT(20) DEF ProcOK, NextEvent
  <2>3. CASE batch # <<>>
    <3>1. Tail(batch) \in Seq(cacheEvent) BY <1>1, <2>3, HeadTailProperties, Zenon DEF ProcOK
    <3> QED BY <1>1, <1>6, <2>1, <2>3, <3>1 DEF ProcOK, NextEvent
  <2> QED BY <2>2, <2>3, Zenon
<1>7. CASE Enqueue \/ closeQueue \/ \E h \in Handlers : AddEventHandler(h) \/ OnAddExisting(h) \/ RemoveEventHandler(h)
  BY <1>2, <1>7, Zenon DEF Enqueue, closeQueue, AddEventHandler, OnAddExisting, RemoveEventHandler
<1>8. CASE Quiet \/ \E effect : Applied(effect)
  BY <1>2, <1>8, Zenon DEF Quiet, Applied
<1> QED
  BY <1>3, <1>4, <1>5, <1>6, <1>7, <1>8, StepKinds, Zenon DEF Moves

(* A handler leaves the list of handlers, and the others stay.             *)
LEMMA SkipOne ==
    ASSUME NEW s \in Seq(Handlers), NEW m \in 1..Len(s)
    PROVE  LET t == SubSeq(s, 1, m - 1) \o SubSeq(s, m + 1, Len(s))
           IN  /\ t \in Seq(Handlers) /\ Len(t) = Len(s) - 1
               /\ \A n \in 1..(Len(s) - 1) : t[n] = IF n < m THEN s[n] ELSE s[n + 1]
<1>1. Len(s) \in Nat /\ m \in Int /\ m >= 1 /\ m <= Len(s) /\ \A n \in 1..Len(s) : s[n] \in Handlers
  BY LenProperties, ElementOfSeq
<1> DEFINE a == SubSeq(s, 1, m - 1)
           b == SubSeq(s, m + 1, Len(s))
           t == a \o b
<1>2. a \in Seq(Handlers) /\ Len(a) = m - 1 /\ \A n \in 1..(m - 1) : a[n] = s[n]
  <2>1. /\ Len(a) = IF 1 <= m - 1 THEN m - 1 - 1 + 1 ELSE 0
        /\ \A n \in 1..(m - 1 - 1 + 1) : a[n] = s[1 + n - 1]
        /\ a \in Seq(Handlers)
    BY <1>1, SubSeqProperties
  <2> HIDE DEF a
  <2> QED BY <1>1, <2>1
<1>3. b \in Seq(Handlers) /\ Len(b) = Len(s) - m /\ \A n \in 1..(Len(s) - m) : b[n] = s[n + m]
  <2>1. /\ Len(b) = IF m + 1 <= Len(s) THEN Len(s) - (m + 1) + 1 ELSE 0
        /\ \A n \in 1..(Len(s) - (m + 1) + 1) : b[n] = s[m + 1 + n - 1]
        /\ b \in Seq(Handlers)
    BY <1>1, SubSeqProperties
  <2> HIDE DEF b
  <2>2. Len(s) - (m + 1) + 1 = Len(s) - m /\ \A n \in 1..(Len(s) - m) : m + 1 + n - 1 = n + m
    BY <1>1
  <2>3. Len(b) = Len(s) - m
    BY <1>1, <2>1
  <2>4. \A n \in 1..(Len(s) - m) : b[n] = s[n + m]
    BY <2>1, <2>2, Zenon
  <2> QED BY <2>1, <2>3, <2>4, Zenon
<1> HIDE DEF a, b
<1>4. /\ t \in Seq(Handlers) /\ Len(t) = Len(a) + Len(b)
      /\ \A n \in 1..(Len(a) + Len(b)) : t[n] = IF n <= Len(a) THEN a[n] ELSE b[n - Len(a)]
  BY <1>2, <1>3, ConcatProperties, Zenon
<1> HIDE DEF t
<1>5. ASSUME NEW n \in 1..(Len(s) - 1) PROVE t[n] = IF n < m THEN s[n] ELSE s[n + 1]
  <2>n. n \in 1..(Len(a) + Len(b)) BY <1>1, <1>2, <1>3
  <2>1. CASE n < m
    <3>1. n <= Len(a) /\ n \in 1..(m - 1) BY <1>1, <1>2, <2>1
    <3>2. t[n] = a[n] BY <1>4, <2>n, <3>1, Zenon
    <3> QED BY <1>2, <2>1, <3>1, <3>2, Zenon
  <2>2. CASE ~(n < m)
    <3>0. ~(n <= Len(a)) /\ Len(a) = m - 1 BY <1>1, <1>2, <2>2
    <3>3. t[n] = b[n - (m - 1)] BY <1>4, <2>n, <3>0, Zenon
    <3>1. n - (m - 1) \in 1..(Len(s) - m) /\ n - (m - 1) + m = n + 1 BY <1>1, <2>2
    <3>2. b[n - (m - 1)] = s[n - (m - 1) + m] BY <1>3, <3>1, Zenon
    <3> QED BY <2>2, <3>1, <3>2, <3>3, Zenon
  <2> QED BY <2>1, <2>2, Zenon
<1>6. Len(t) = Len(s) - 1
  BY <1>1, <1>2, <1>3, <1>4, SMTT(20)
<1>7. /\ t \in Seq(Handlers) /\ Len(t) = Len(s) - 1
      /\ \A n \in 1..(Len(s) - 1) : t[n] = IF n < m THEN s[n] ELSE s[n + 1]
  BY <1>4, <1>5, <1>6, Zenon
<1> QED BY <1>7, Zenon DEF t, a, b

LEMMA WithoutOne ==
    ASSUME NEW s \in Seq(Handlers), Injective(s), NEW m \in 1..Len(s), NEW t \in Seq(Handlers),
           Len(t) = Len(s) - 1, \A n \in 1..(Len(s) - 1) : t[n] = IF n < m THEN s[n] ELSE s[n + 1]
    PROVE  Injective(t) /\ {t[n] : n \in DOMAIN t} = {s[n] : n \in DOMAIN s} \ {s[m]}
<1>1. Len(s) \in Nat /\ DOMAIN s = 1..Len(s) /\ DOMAIN t = 1..(Len(s) - 1)
  BY LenProperties, Zenon
<1>2. \A n \in DOMAIN t : /\ n < m => n \in DOMAIN s /\ t[n] = s[n]
                          /\ ~(n < m) => n + 1 \in DOMAIN s /\ t[n] = s[n + 1]
  BY <1>1
<1>3. Injective(t)
  <2> SUFFICES ASSUME NEW i \in DOMAIN t, NEW n \in DOMAIN t, t[i] = t[n] PROVE i = n
    BY Zenon DEF Injective
  <2>1. i \in Int /\ n \in Int BY <1>1
  <2> QED BY <1>2, <2>1, SMTT(20) DEF Injective
<1>4. \A n \in DOMAIN t : \E i \in DOMAIN s : i # m /\ t[n] = s[i]
  <2> TAKE n \in DOMAIN t
  <2>1. n \in Int /\ m \in Int BY <1>1
  <2>2. CASE n < m BY <1>2, <2>1, <2>2
  <2>3. CASE ~(n < m) BY <1>2, <2>1, <2>3
  <2> QED BY <2>2, <2>3, Zenon
<1>5. ASSUME NEW i \in DOMAIN s, i # m PROVE \E n \in DOMAIN t : t[n] = s[i]
  <2>1. CASE i < m
    <3>1. i \in 1..(Len(s) - 1) BY <1>1, <2>1
    <3> QED BY <1>1, <2>1, <3>1, Zenon
  <2>2. CASE i > m
    <3>1. i - 1 \in 1..(Len(s) - 1) /\ ~(i - 1 < m) /\ i - 1 + 1 = i BY <1>1, <2>2
    <3> QED BY <1>1, <3>1, Zenon
  <2> QED BY <1>1, <1>5, <2>1, <2>2
<1>6. m \in DOMAIN s BY <1>1, Zenon
<1>7. ASSUME NEW x PROVE x \in {t[n] : n \in DOMAIN t} <=> x \in {s[n] : n \in DOMAIN s} \ {s[m]}
  <2>1. ASSUME NEW n \in DOMAIN t, x = t[n] PROVE x \in {s[i] : i \in DOMAIN s} \ {s[m]}
    BY <1>4, <1>6, <2>1 DEF Injective
  <2>2. ASSUME NEW i \in DOMAIN s, x = s[i], x # s[m] PROVE x \in {t[n] : n \in DOMAIN t}
    BY <1>5, <2>2, Zenon
  <2> QED BY <2>1, <2>2, Zenon
<1> QED
  BY <1>3, <1>7, Zenon

(* Being told of an object.                                                *)
LEMMA ToldFacts ==
    ASSUME InformerInv, NEW h \in Handlers, NEW key \in Keys, NEW obj \in ObjectOrNone, Told(h, key, obj)
    PROVE  /\ view' \in [Handlers -> [Keys -> ObjectOrNone]]
           /\ due' \in [Handlers -> SUBSET Keys]
           /\ \A g \in Handlers : g # h \/ h \notin Registered => view'[g] = view[g] /\ due'[g] = due[g]
           /\ h \in Registered => view'[h] = [view[h] EXCEPT ![key] = obj] /\ due'[h] = due[h] \ {key}
<1>1. view \in [Handlers -> [Keys -> ObjectOrNone]] /\ due \in [Handlers -> SUBSET Keys]
  BY Zenon DEF InformerInv, TypeOK, ObjectOrNone
<1>2. CASE h \in Registered
  <2>1. view' = [view EXCEPT ![h][key] = obj] /\ due' = [due EXCEPT ![h] = @ \ {key}]
    BY <1>2, Zenon DEF Told
  <2>2. view' = [view EXCEPT ![h] = [view[h] EXCEPT ![key] = obj]]
    BY <2>1, Zenon
  <2>3. [view[h] EXCEPT ![key] = obj] \in [Keys -> ObjectOrNone]
    BY <1>1, Zenon
  <2>4. /\ view' \in [Handlers -> [Keys -> ObjectOrNone]] /\ view'[h] = [view[h] EXCEPT ![key] = obj]
        /\ \A g \in Handlers : g # h => view'[g] = view[g]
    BY <1>1, <2>2, <2>3, Zenon
  <2> QED BY <1>1, <1>2, <2>1, <2>4, Zenon
<1>3. CASE h \notin Registered
  BY <1>1, <1>3, Zenon DEF Told
<1> QED
  BY <1>2, <1>3, Zenon

HandlerTypes ==
    /\ handlers \in Seq(Handlers)
    /\ snapshot \in [Handlers -> SUBSET Object]
    /\ added \in [Handlers -> {"never", "early", "late", "removed"}]
    /\ view \in [Handlers -> [Keys -> ObjectOrNone]]
    /\ due \in [Handlers -> SUBSET Keys]

LEMMA AddHandlerStep ==
    ASSUME InformerInv, NEW h \in Handlers, AddEventHandler(h)
    PROVE  /\ HandlerTypes' /\ HandlersOK'
           /\ Registered' = Registered \cup {h} /\ h \notin Registered
           /\ added'[h] = "early" => phase = "new" /\ view'[h] = NoObjects
           /\ \A g \in Handlers \ {h} : added'[g] = added[g] /\ due'[g] = due[g] /\ snapshot'[g] = snapshot[g]
           /\ due'[h] = {key \in Keys : cached[key] # NoObject}
           /\ snapshot'[h] = {cached[key] : key \in Keys} \ {NoObject}
<1>1. HandlerTypes /\ HandlersOK /\ cached \in [Keys -> ObjectOrNone]
  BY Zenon DEF InformerInv, TypeOK, HandlerTypes, ObjectOrNone
<1>2. /\ added[h] = "never" /\ handlers' = Append(handlers, h)
      /\ snapshot' = [snapshot EXCEPT ![h] = {cached[key] : key \in Keys} \ {NoObject}]
      /\ added' = [added EXCEPT ![h] = IF phase = "new" THEN "early" ELSE "late"]
      /\ due' = [due EXCEPT ![h] = {key \in Keys : cached[key] # NoObject}]
      /\ view' = view /\ proc' = proc /\ targets' = targets
  BY Zenon DEF AddEventHandler, procVars
<1>3. /\ handlers' \in Seq(Handlers) /\ Len(handlers) \in Nat /\ DOMAIN handlers = 1..Len(handlers)
      /\ DOMAIN handlers' = 1..(Len(handlers) + 1) /\ handlers'[Len(handlers) + 1] = h
      /\ \A n \in 1..Len(handlers) : handlers'[n] = handlers[n]
  BY <1>1, <1>2, AppendProperties, LenProperties DEF HandlerTypes
<1>4. HandlerTypes'
  <2>1. {cached[key] : key \in Keys} \ {NoObject} \subseteq Object
    BY <1>1, Zenon DEF ObjectOrNone
  <2>2. {key \in Keys : cached[key] # NoObject} \subseteq Keys BY Zenon
  <2>3. snapshot' \in [Handlers -> SUBSET Object] BY <1>1, <1>2, <2>1, Zenon DEF HandlerTypes
  <2>4. due' \in [Handlers -> SUBSET Keys] BY <1>1, <1>2, <2>2, Zenon DEF HandlerTypes
  <2>5. added' \in [Handlers -> {"never", "early", "late", "removed"}] BY <1>1, <1>2, Zenon DEF HandlerTypes
  <2> QED BY <1>1, <1>2, <1>3, <2>3, <2>4, <2>5, Zenon DEF HandlerTypes
<1>5. h \notin Registered /\ view[h] = NoObjects
  BY <1>1, <1>2, Zenon DEF HandlersOK
<1>6. \A n \in 1..Len(handlers) : handlers[n] # h
  BY <1>3, <1>5, Zenon DEF Registered
<1>7. Injective(handlers')
  <2> SUFFICES ASSUME NEW m \in DOMAIN handlers', NEW n \in DOMAIN handlers', handlers'[m] = handlers'[n] PROVE m = n
    BY Zenon DEF Injective
  <2>1. CASE m \in 1..Len(handlers) /\ n \in 1..Len(handlers)
    BY <1>1, <1>3, <2>1, SMTT(20) DEF HandlersOK, Injective
  <2>2. CASE m = Len(handlers) + 1 \/ n = Len(handlers) + 1
    BY <1>3, <1>6, <2>2
  <2> QED BY <1>3, <2>1, <2>2
<1>8. Registered' = Registered \cup {h}
  <2>1. Registered' = {handlers'[n] : n \in 1..(Len(handlers) + 1)} BY <1>3, Zenon DEF Registered
  <2>2. Registered = {handlers[n] : n \in 1..Len(handlers)} BY <1>3, Zenon DEF Registered
  <2>3. \A n \in 1..(Len(handlers) + 1) : n \in 1..Len(handlers) \/ n = Len(handlers) + 1 BY <1>3
  <2>4. \A n \in 1..Len(handlers) : n \in 1..(Len(handlers) + 1) BY <1>3
  <2>5. Len(handlers) + 1 \in 1..(Len(handlers) + 1) BY <1>3
  <2> QED BY <1>3, <2>1, <2>2, <2>3, <2>4, <2>5, Zenon
<1>9. phase = "new" => proc = "idle" /\ {cached[key] : key \in Keys} \ {NoObject} = {}
  BY Zenon DEF InformerInv, CacheOK, Untouched, NoObjects
<1>10. ASSUME NEW g \in Handlers
       PROVE  /\ g \in Registered' <=> added'[g] \in {"early", "late"}
              /\ added'[g] = "never" => view'[g] = NoObjects
              /\ added'[g] \in {"never", "early"} => snapshot'[g] = {}
              /\ added'[g] = "early" /\ proc' = "call" => \E n \in DOMAIN targets' : targets'[n] = g
  <2>1. CASE g = h
    <3>1. added'[h] = (IF phase = "new" THEN "early" ELSE "late")
          /\ snapshot'[h] = {cached[key] : key \in Keys} \ {NoObject}
      BY <1>1, <1>2, Zenon DEF HandlerTypes
    <3> QED BY <1>2, <1>8, <1>9, <2>1, <3>1
  <2>2. CASE g # h
    <3>1. added'[g] = added[g] /\ snapshot'[g] = snapshot[g] BY <1>1, <1>2, <2>2, Zenon DEF HandlerTypes
    <3> QED BY <1>1, <1>2, <1>8, <2>2, <3>1, Zenon DEF HandlersOK
  <2> QED BY <2>1, <2>2, Zenon
<1>11. HandlersOK'
  <2>1. Injective(targets') BY <1>1, <1>2, Zenon DEF HandlersOK
  <2> QED BY <1>7, <1>10, <2>1, Zenon DEF HandlersOK
<1>12. /\ \A g \in Handlers \ {h} : added'[g] = added[g] /\ due'[g] = due[g] /\ snapshot'[g] = snapshot[g]
       /\ due'[h] = {key \in Keys : cached[key] # NoObject}
       /\ snapshot'[h] = {cached[key] : key \in Keys} \ {NoObject}
       /\ added'[h] = "early" => phase = "new"
  BY <1>1, <1>2, Zenon DEF HandlerTypes
<1> QED BY <1>2, <1>4, <1>5, <1>8, <1>11, <1>12, Zenon

LEMMA RemoveHandlerStep ==
    ASSUME InformerInv, NEW h \in Handlers, RemoveEventHandler(h)
    PROVE  /\ HandlerTypes' /\ HandlersOK'
           /\ Registered' = Registered \ {h}
           /\ \A g \in Handlers \ {h} : added'[g] = added[g] /\ due'[g] = due[g] /\ view'[g] = view[g]
<1>1. HandlerTypes /\ HandlersOK
  BY Zenon DEF InformerInv, TypeOK, HandlerTypes, ObjectOrNone
<1>2. PICK m \in DOMAIN handlers :
         handlers[m] = h /\ handlers' = SubSeq(handlers, 1, m - 1) \o SubSeq(handlers, m + 1, Len(handlers))
  BY Zenon DEF RemoveEventHandler
<1>3. /\ added' = [added EXCEPT ![h] = "removed"]
      /\ view' = [view EXCEPT ![h] = NoObjects]
      /\ due' = [due EXCEPT ![h] = {}]
      /\ snapshot' = snapshot /\ proc' = proc /\ targets' = targets
  BY Zenon DEF RemoveEventHandler, procVars
<1>4. handlers \in Seq(Handlers) /\ m \in 1..Len(handlers) /\ Injective(handlers)
  BY <1>1, LenProperties DEF HandlerTypes, HandlersOK
<1>5. /\ handlers' \in Seq(Handlers) /\ Len(handlers') = Len(handlers) - 1
      /\ \A n \in 1..(Len(handlers) - 1) : handlers'[n] = IF n < m THEN handlers[n] ELSE handlers[n + 1]
  <2> DEFINE t == SubSeq(handlers, 1, m - 1) \o SubSeq(handlers, m + 1, Len(handlers))
  <2>1. /\ t \in Seq(Handlers) /\ Len(t) = Len(handlers) - 1
        /\ \A n \in 1..(Len(handlers) - 1) : t[n] = IF n < m THEN handlers[n] ELSE handlers[n + 1]
    BY <1>4, SkipOne, Zenon
  <2>2. handlers' = t BY <1>2, Zenon
  <2> HIDE DEF t
  <2> QED BY <2>1, <2>2, Zenon
<1>6. Injective(handlers') /\ Registered' = Registered \ {h}
  <2>1. Injective(handlers')
        /\ {handlers'[n] : n \in DOMAIN handlers'} = {handlers[n] : n \in DOMAIN handlers} \ {handlers[m]}
    BY <1>4, <1>5, WithoutOne, Zenon
  <2> QED BY <1>2, <2>1, Zenon DEF Registered
<1>7. /\ \A g \in Handlers \ {h} : added'[g] = added[g] /\ due'[g] = due[g] /\ view'[g] = view[g]
      /\ added'[h] = "removed"
  BY <1>1, <1>3, Zenon DEF HandlerTypes
<1>8. HandlerTypes'
  <2>1. NoObjects \in [Keys -> ObjectOrNone] BY Zenon DEF NoObjects, ObjectOrNone
  <2> QED BY <1>1, <1>3, <1>5, <2>1, Zenon DEF HandlerTypes
<1>9. \A g \in Handlers :
         /\ g \in Registered' <=> added'[g] \in {"early", "late"}
         /\ added'[g] = "never" => view'[g] = NoObjects
         /\ added'[g] \in {"never", "early"} => snapshot'[g] = {}
         /\ added'[g] = "early" /\ proc' = "call" => \E n \in DOMAIN targets' : targets'[n] = g
  <2> TAKE g \in Handlers
  <2>1. CASE g = h BY <1>6, <1>7, <2>1, Zenon
  <2>2. CASE g # h BY <1>1, <1>3, <1>6, <1>7, <2>2 DEF HandlersOK
  <2> QED BY <2>1, <2>2, Zenon
<1>10. HandlersOK'
  <2>1. Injective(targets') BY <1>1, <1>3, Zenon DEF HandlersOK
  <2> QED BY <1>6, <1>9, <2>1, Zenon DEF HandlersOK
<1> QED BY <1>6, <1>7, <1>8, <1>10, Zenon

(* A call, and an object of a snapshot passed to a handler.                *)
LEMMA CallFacts ==
    ASSUME InformerInv, CallHandler
    PROVE  /\ called + 1 \in DOMAIN targets /\ targets[called + 1] \in Handlers
           /\ Head(batch) \in cacheEvent /\ Head(batch).obj.key \in Keys /\ After(Head(batch)) \in ObjectOrNone
           /\ Told(targets[called + 1], Head(batch).obj.key, After(Head(batch)))
<1>1. /\ proc = "call" /\ batch # <<>> /\ called < Len(targets)
      /\ Told(targets[called + 1], Head(batch).obj.key, After(Head(batch)))
  BY Zenon DEF CallHandler
<1>2. batch \in Seq(cacheEvent) /\ targets \in Seq(Handlers) /\ called \in 0..Len(targets)
  BY Zenon DEF InformerInv, TypeOK
<1>3. Len(targets) \in Nat /\ DOMAIN targets = 1..Len(targets) /\ \A n \in 1..Len(targets) : targets[n] \in Handlers
  BY <1>2, LenProperties, ElementOfSeq, Zenon
<1>4. called + 1 \in 1..Len(targets)
  BY <1>1, <1>2, <1>3
<1>5. Head(batch) \in cacheEvent
  BY <1>1, <1>2, HeadTailProperties, Zenon
<1>6. Head(batch).obj.key \in Keys
  BY <1>5, ObjectParts, Zenon DEF cacheEvent
<1> QED BY <1>1, <1>3, <1>4, <1>5, <1>6, AfterType, Zenon

LEMMA HandlersStep ==
    ASSUME InformerInv, [Next]_vars
    PROVE  HandlerTypes' /\ HandlersOK'
<1>1. HandlerTypes /\ HandlersOK
  BY Zenon DEF InformerInv, TypeOK, HandlerTypes, ObjectOrNone
<1>2. CASE /\ UNCHANGED <<handlers, added, targets>>
           /\ proc' \in {proc, "idle", "copy", "done"}
           /\ snapshot' \in [Handlers -> SUBSET Object] /\ \A h \in Handlers : snapshot'[h] \subseteq snapshot[h]
           /\ view' \in [Handlers -> [Keys -> ObjectOrNone]] /\ due' \in [Handlers -> SUBSET Keys]
           /\ \A h \in Handlers \ Registered : view'[h] = view[h]
  <2>1. HandlerTypes' BY <1>1, <1>2, Zenon DEF HandlerTypes
  <2>2. Registered' = Registered BY <1>2, Zenon DEF Registered
  <2>3. Injective(handlers') /\ Injective(targets') BY <1>1, <1>2, Zenon DEF HandlersOK
  <2>4. \A h \in Handlers :
           /\ h \in Registered' <=> added'[h] \in {"early", "late"}
           /\ added'[h] = "never" => view'[h] = NoObjects
           /\ added'[h] \in {"never", "early"} => snapshot'[h] = {}
           /\ added'[h] = "early" /\ proc' = "call" => \E n \in DOMAIN targets' : targets'[n] = h
    <3> TAKE h \in Handlers
    <3>1. added'[h] = added[h] /\ targets' = targets /\ (proc' = "call" => proc = "call") BY <1>2, Zenon
    <3>2. added[h] = "never" => view'[h] = view[h] BY <1>1, <1>2, Zenon DEF HandlersOK
    <3>3. snapshot'[h] \subseteq snapshot[h] BY <1>2, Zenon
    <3> QED BY <1>1, <2>2, <3>1, <3>2, <3>3, Zenon DEF HandlersOK
  <2> QED BY <2>1, <2>3, <2>4, Zenon DEF HandlersOK
<1>3. CASE Quiet \/ processExit \/ drain \/ closeQueue \/ Enqueue
  BY <1>1, <1>2, <1>3, Zenon DEF Quiet, processExit, drain, closeQueue, Enqueue, handlerVars, procVars, HandlerTypes
<1>4. CASE \E effect : Applied(effect)
  <2>1. PICK effect : Applied(effect) BY <1>4, Zenon
  <2>2. due' \in [Handlers -> SUBSET Keys] /\ UNCHANGED <<proc, targets, handlers, snapshot, added, view>>
    BY <2>1, AppliedFacts, Zenon
  <2> QED BY <1>1, <1>2, <2>2, Zenon DEF HandlerTypes
<1>5. CASE CallHandler
  <2>1. /\ view' \in [Handlers -> [Keys -> ObjectOrNone]] /\ due' \in [Handlers -> SUBSET Keys]
        /\ \A h \in Handlers \ Registered : view'[h] = view[h]
    BY <1>5, CallFacts, ToldFacts, Zenon
  <2> QED BY <1>1, <1>2, <1>5, <2>1, Zenon DEF CallHandler, handlerVars, HandlerTypes
<1>6. ASSUME NEW h \in Handlers, OnAddExisting(h) PROVE HandlerTypes' /\ HandlersOK'
  <2>1. PICK obj \in snapshot[h] : snapshot' = [snapshot EXCEPT ![h] = @ \ {obj}] /\ Told(h, obj.key, obj)
    BY <1>6, Zenon DEF OnAddExisting
  <2>2. obj \in Object /\ obj.key \in Keys /\ obj \in ObjectOrNone
    BY <1>1, <2>1, ObjectParts, Zenon DEF HandlerTypes, ObjectOrNone
  <2>3. /\ view' \in [Handlers -> [Keys -> ObjectOrNone]] /\ due' \in [Handlers -> SUBSET Keys]
        /\ \A g \in Handlers \ Registered : view'[g] = view[g]
    BY <2>1, <2>2, ToldFacts, Zenon
  <2>4. snapshot' \in [Handlers -> SUBSET Object] /\ \A g \in Handlers : snapshot'[g] \subseteq snapshot[g]
    BY <1>1, <2>1, Zenon DEF HandlerTypes
  <2>5. UNCHANGED <<handlers, added, targets, proc>> BY <1>6, Zenon DEF OnAddExisting, procVars
  <2> QED BY <1>2, <2>3, <2>4, <2>5, Zenon
<1>7. CASE CopyHandlers
  <2>1. targets' = handlers /\ UNCHANGED <<handlers, snapshot, added, view, due>>
    BY <1>7, Zenon DEF CopyHandlers, handlerVars
  <2>2. Registered' = Registered BY <2>1, Zenon DEF Registered
  <2>3. \A h \in Handlers : h \in Registered => \E n \in DOMAIN targets' : targets'[n] = h
    BY <2>1, Zenon DEF Registered
  <2>4. HandlerTypes' BY <1>1, <2>1, Zenon DEF HandlerTypes
  <2> QED BY <1>1, <2>1, <2>2, <2>3, <2>4, Zenon DEF HandlersOK
<1>8. CASE NextEvent
  <2>1. UNCHANGED <<handlers, snapshot, added, view, due>> BY <1>8, Zenon DEF NextEvent, handlerVars
  <2>2. (proc' = "idle" /\ targets' = <<>>) \/ (proc' = proc /\ targets' = targets)
    BY <1>8, Zenon DEF NextEvent
  <2>3. Registered' = Registered BY <2>1, Zenon DEF Registered
  <2>4. HandlerTypes' BY <1>1, <2>1, Zenon DEF HandlerTypes
  <2>5. Injective(<<>>) BY DEF Injective
  <2> QED BY <1>1, <2>1, <2>2, <2>3, <2>4, <2>5 DEF HandlersOK
<1> QED
  BY <1>3, <1>4, <1>5, <1>6, <1>7, <1>8, AddHandlerStep, RemoveHandlerStep, StepKinds, Zenon DEF Moves
-----------------------------------------------------------------------------
LEMMA InformerInit ==
    ASSUME Init
    PROVE  InformerInv
<1>1. /\ load \in Loads /\ truth = NoObjects /\ rv = 0 /\ phase = "new" /\ items = {}
      /\ replay = <<>> /\ skipped = {} /\ readded = {}
      /\ cached = NoObjects /\ indexed = FALSE /\ index = {} /\ outbox = NoEvents
      /\ queue = newEventQueue /\ proc = "idle" /\ batch = <<>> /\ targets = <<>> /\ called = 0
      /\ handlers = <<>> /\ snapshot = [h \in Handlers |-> {}] /\ added = [h \in Handlers |-> "never"]
      /\ view = [h \in Handlers |-> NoObjects] /\ due = [h \in Handlers |-> {}]
  BY Zenon DEF Init
<1>2. NoObjects \in [Keys -> ObjectOrNone] /\ \A key \in Keys : NoObjects[key] = NoObject
  BY Zenon DEF NoObjects, ObjectOrNone
<1>3. DOMAIN NoEvents = {}
  BY Zenon DEF NoEvents
<1>4. newEventQueue \in eventQueue /\ \A key \in Keys : newEventQueue.pending[key] = <<>>
  <2>1. <<>> \in Seq(Keys) /\ [key \in Keys |-> <<>>] \in [Keys -> Seq(cacheEvent)] OBVIOUS
  <2>2. newEventQueue \in eventQueue BY <2>1, Zenon DEF newEventQueue, eventQueue
  <2> QED BY <2>2, Zenon DEF newEventQueue
<1>5. Len(<<>>) = 0 /\ DOMAIN <<>> = {}
  OBVIOUS
<1>6. TypeOK
  <2>1. /\ truth \in [Keys -> Object \cup {NoObject}] /\ rv \in Nat
        /\ phase \in {"new", "fill", "watch", "down"} /\ items \subseteq Object
        /\ cached \in [Keys -> Object \cup {NoObject}]
        /\ skipped \subseteq Keys /\ readded \subseteq Keys
    BY <1>1, <1>2, Zenon DEF ObjectOrNone
  <2>r. replay \in Seq([type : {"ADDED", "MODIFIED", "DELETED"}, obj : Object])
    BY <1>1, EmptySeq, Zenon
  <2>2. indexed \in BOOLEAN BY <1>1, Zenon
  <2>3. index \subseteq Specs \X Keys BY <1>1, Zenon
  <2>4. DOMAIN outbox \subseteq Keys /\ \A key \in DOMAIN outbox : outbox[key] \in cacheEvent
    BY <1>1, <1>3, Zenon
  <2>5. /\ queue \in eventQueue /\ proc \in {"idle", "copy", "call", "done"}
        /\ batch \in Seq(cacheEvent) /\ targets \in Seq(Handlers) /\ called \in 0..Len(targets)
        /\ handlers \in Seq(Handlers)
    BY <1>1, <1>4, <1>5
  <2>6. /\ snapshot \in [Handlers -> SUBSET Object]
        /\ added \in [Handlers -> {"never", "early", "late", "removed"}]
        /\ view \in [Handlers -> [Keys -> Object \cup {NoObject}]]
        /\ due \in [Handlers -> SUBSET Keys]
    BY <1>1, <1>2, Zenon DEF ObjectOrNone
  <2> QED BY <2>1, <2>r, <2>2, <2>3, <2>4, <2>5, <2>6, Zenon DEF TypeOK
<1>7. load \in Load
  BY <1>1, LoadsAssumption, Zenon
<1>8. CacheOK
  <2>1. Waiting = {} /\ Ascending(replay)
    BY <1>1 DEF Waiting, Elements, Ascending
  <2>2. ListOK /\ ReplayOK
    BY <1>1, <2>1, Zenon DEF ListOK, ReplayOK
  <2> QED BY <1>1, <1>2, <1>4, <2>2, Zenon DEF CacheOK, CachedOK, WellKeyed, Untouched
<1>9. IndexOK
  BY <1>1, Zenon DEF IndexOK
<1>10. QueueOK
  BY <1>1, <1>3, <1>4 DEF QueueOK
<1>11. HandlersOK
  BY <1>1, <1>5, Zenon DEF HandlersOK, Injective, Registered
<1> QED BY <1>6, <1>7, <1>8, <1>9, <1>10, <1>11, Zenon DEF InformerInv

LEMMA InformerNext ==
    ASSUME InformerInv, [Next]_vars
    PROVE  InformerInv'
<1>1. /\ CacheOK' /\ IndexOK'
      /\ load' \in Load
      /\ truth' \in [Keys -> ObjectOrNone] /\ rv' \in Nat
      /\ phase' \in {"new", "fill", "watch", "down"} /\ items' \subseteq Object
      /\ cached' \in [Keys -> ObjectOrNone] /\ readded' \subseteq Keys
      /\ replay' \in Seq(StreamEvent) /\ skipped' \subseteq Keys
  BY CacheStep, DataTypeStep, Zenon
<1>2. indexed' \in BOOLEAN /\ index' \subseteq Specs \X Keys
  BY DataTypeStep, Zenon
<1>3. EventsOK' /\ ProcOK' /\ HandlerTypes' /\ HandlersOK'
  BY EventsStep, ProcStep, HandlersStep, Zenon
<1>4. QueueOK'
  BY <1>3, Zenon DEF QueueOK, EventsOK, ProcOK
<1>5. TypeOK'
  BY <1>1, <1>2, <1>3, Zenon DEF TypeOK, EventsOK, ProcOK, HandlerTypes, ObjectOrNone, StreamEvent
<1> QED BY <1>1, <1>3, <1>4, <1>5, Zenon DEF InformerInv

(* The informer's inductive invariant holds in every reachable state of    *)
(* storeInformer, whatever its selectors, transform, handlers and writers. *)
THEOREM InformerInvariant == Spec => []InformerInv
<1>1. Init => InformerInv
  BY InformerInit, Zenon
<1>2. InformerInv /\ [Next]_vars => InformerInv'
  BY InformerNext, Zenon
<1> QED BY <1>1, <1>2, PTL DEF Spec

(* Every variable of the informer keeps its type.                          *)
THEOREM InformerTypes == Spec => []TypeOK
<1>1. InformerInv => TypeOK
  BY Zenon DEF InformerInv
<1> QED BY <1>1, InformerInvariant, PTL

(* While the watch is up and the replay is done, the cache holds what the  *)
(* selectors let through of the store, after any mix of events, missed     *)
(* changes, replays and relists.  Excepted are objects the transform       *)
(* rejects and, until the next list or change of them, objects whose       *)
(* leaving the selector, or deletion after that, the replay left out (add, *)
(* update, delete, replaceAll, watchInformer).                             *)
THEOREM CacheMatchesStore == Spec => []CacheIsStore
<1>1. ASSUME InformerInv, phase = "watch", replay = <<>>, NEW key \in Keys
      PROVE  IF truth[key] = NoObject \/ ~matchesSelectors(truth[key])
             THEN cached[key] = NoObject \/ key \in skipped
             ELSE Transformable(truth[key]) => cached[key] = truth[key]
  <2>1. ~Pending(key) /\ items = {}
    BY <1>1, WaitingFacts, Zenon DEF Pending, InformerInv, CacheOK, ListOK
  <2>2. UpToDate(key)
    BY <1>1, Zenon DEF InformerInv, CacheOK
  <2> QED BY <2>1, <2>2, Zenon DEF UpToDate
<1>2. InformerInv => CacheIsStore
  BY <1>1, Zenon DEF CacheIsStore
<1> QED BY <1>2, InformerInvariant, PTL

(* Listing through the index gives what scanning all the objects gives,    *)
(* for every required set of values and every label selector (list,        *)
(* listFromIndex, rebuildIndicesForObject, addIndexer).                    *)
THEOREM IndexIsExact == Spec => []IndexExact
<1>1. ASSUME InformerInv, indexed, NEW values \in SUBSET Specs, NEW sel \in SUBSET Labels
      PROVE  list(values, sel) = {obj \in {cached[key] : key \in Keys} \ {NoObject} :
                                    values \subseteq {obj.spec} /\ sel \subseteq obj.labels}
  <2>1. index = buildIndex(cached) BY <1>1, Zenon DEF InformerInv, IndexOK
  <2>2. ASSUME NEW value, NEW key \in Keys
        PROVE  <<value, key>> \in index <=> cached[key] # NoObject /\ value = cached[key].spec
    BY <2>1, Zenon DEF buildIndex
  <2>3. ASSUME values # {}
        PROVE  \A key \in Keys : cached[key] # NoObject =>
                  ((\A value \in values : <<value, key>> \in index) <=> values \subseteq {cached[key].spec})
    BY <2>2, Zenon
  <2>4. ASSUME NEW obj
        PROVE  obj \in listFromIndex(values)
               <=> obj \in {cached[key] : key \in Keys} \ {NoObject} /\ values \subseteq {obj.spec}
    <3>1. CASE values = {}
      BY <3>1, Zenon DEF listFromIndex
    <3>2. CASE values # {}
      <4>1. listFromIndex(values)
            = {cached[key] : key \in {k \in Keys : \A value \in values : <<value, k>> \in index}} \ {NoObject}
        BY <3>2, Zenon DEF listFromIndex
      <4> QED BY <2>3, <3>2, <4>1, Zenon
    <3> QED BY <3>1, <3>2, Zenon
  <2> QED BY <2>4, Zenon DEF list
<1>2. InformerInv => IndexExact
  BY <1>1, Zenon DEF IndexExact
<1> QED BY <1>2, InformerInvariant, PTL
-----------------------------------------------------------------------------
(***************************************************************************)
(* Calls are coming: a registered handler that has not been called for a   *)
(* cached object since the object last changed is going to be, wherever    *)
(* the event is on its way, or from the snapshot taken when it was added.  *)
(***************************************************************************)
InBatch(h, key) ==
    \E i \in DOMAIN batch :
        /\ batch[i].obj.key = key
        /\ \/ proc = "copy"
           \/ proc = "call" /\ \E n \in DOMAIN targets : targets[n] = h /\ (i > 1 \/ n > called)

LEMMA ComingCases ==
    \A h, key : Coming(h, key) <=> \/ key \in DOMAIN outbox \/ queue.pending[key] # <<>>
                                   \/ InBatch(h, key) \/ \E obj \in snapshot[h] : obj.key = key
  BY Zenon DEF Coming, InBatch

LEMMA ComingCasesNext ==
    \A h, key : Coming(h, key)' <=> \/ key \in DOMAIN outbox' \/ queue'.pending[key] # <<>>
                                    \/ InBatch(h, key)' \/ \E obj \in snapshot'[h] : obj.key = key
  BY Zenon DEF Coming, InBatch

(* The processor's steps leave no call out.                                *)
LEMMA InBatchStep ==
    ASSUME InformerInv, CallHandler \/ NextEvent \/ CopyHandlers,
           NEW h \in Registered, NEW key \in due'[h], InBatch(h, key)
    PROVE  InBatch(h, key)'
<1>1. /\ batch \in Seq(cacheEvent) /\ targets \in Seq(Handlers) /\ handlers \in Seq(Handlers)
      /\ called \in 0..Len(targets) /\ Injective(targets)
  BY Zenon DEF InformerInv, TypeOK, HandlersOK
<1>2. /\ Len(batch) \in Nat /\ DOMAIN batch = 1..Len(batch)
      /\ Len(targets) \in Nat /\ DOMAIN targets = 1..Len(targets) /\ called \in Int
  BY <1>1, LenProperties
<1>3. PICK i \in DOMAIN batch :
         /\ batch[i].obj.key = key
         /\ \/ proc = "copy"
            \/ proc = "call" /\ \E n \in DOMAIN targets : targets[n] = h /\ (i > 1 \/ n > called)
  BY Zenon DEF InBatch
<1>4. CASE CopyHandlers
  <2>1. batch' = batch /\ targets' = handlers /\ called' = 0 /\ proc' = "call"
    BY <1>4, Zenon DEF CopyHandlers
  <2>2. PICK n \in DOMAIN handlers : handlers[n] = h BY Zenon DEF Registered
  <2>3. n > 0 BY <1>1, LenProperties
  <2>4. \E m \in DOMAIN targets' : targets'[m] = h /\ (i > 1 \/ m > called') BY <2>1, <2>2, <2>3, Zenon
  <2> QED BY <1>3, <2>1, <2>4, Zenon DEF InBatch
<1>5. CASE CallHandler
  <2>1. /\ proc = "call" /\ batch # <<>> /\ called' = called + 1 /\ UNCHANGED <<batch, targets, proc>>
    BY <1>5, Zenon DEF CallHandler
  <2>2. PICK n \in DOMAIN targets : targets[n] = h /\ (i > 1 \/ n > called) BY <1>3, <2>1, Zenon
  <2>3. CASE i > 1
    BY <1>3, <2>1, <2>2, <2>3, Zenon DEF InBatch
  <2>4. CASE i = 1 /\ n > called + 1
    BY <1>3, <2>1, <2>2, <2>4, Zenon DEF InBatch
  <2>5. CASE i = 1 /\ n = called + 1
    <3>1. Head(batch) = batch[1] BY <1>1, <2>1, HeadTailProperties
    <3>2. h = targets[called + 1] /\ Head(batch).obj.key = key BY <1>3, <2>2, <2>5, <3>1, Zenon
    <3>3. due'[h] = due[h] \ {key} BY <1>5, <3>2, CallFacts, ToldFacts, Zenon
    <3> QED BY <3>3, Zenon
  <2>6. i \in Int /\ i >= 1 /\ n \in Int BY <1>2
  <2> QED BY <1>2, <2>2, <2>3, <2>4, <2>5, <2>6
<1>6. CASE NextEvent
  <2>1. batch # <<>> BY <1>2
  <2>2. /\ proc = "call" /\ called = Len(targets) /\ batch' = Tail(batch) /\ called' = 0
        /\ proc' = proc /\ targets' = targets
    BY <1>6, <2>1, Zenon DEF NextEvent
  <2>3. PICK n \in DOMAIN targets : targets[n] = h /\ (i > 1 \/ n > called) BY <1>3, <2>2, Zenon
  <2>4. i > 1 /\ n > 0 BY <1>2, <2>2, <2>3
  <2>5. /\ Tail(batch) \in Seq(cacheEvent) /\ Len(Tail(batch)) = Len(batch) - 1
        /\ \A m \in 1..Len(Tail(batch)) : Tail(batch)[m] = batch[m + 1]
    BY <1>1, <2>1, HeadTailProperties, Zenon
  <2>6. i - 1 \in 1..(Len(batch) - 1) /\ i - 1 + 1 = i BY <1>2, <2>4
  <2>7. i - 1 \in DOMAIN batch' /\ batch'[i - 1] = batch[i] BY <2>2, <2>5, <2>6, LenProperties, Zenon
  <2>8. \E m \in DOMAIN targets' : targets'[m] = h /\ (i - 1 > 1 \/ m > called') BY <2>2, <2>3, <2>4, Zenon
  <2> QED BY <1>3, <2>2, <2>7, <2>8, Zenon DEF InBatch
<1> QED BY <1>4, <1>5, <1>6, Zenon

LEMMA CallsComingNext ==
    ASSUME InformerInv, CallsComing, [Next]_vars
    PROVE  CallsComing'
<1>0. HandlerTypes /\ HandlersOK /\ QueueOK /\ Registered \subseteq Handlers
  <2>1. HandlerTypes /\ HandlersOK /\ QueueOK BY Zenon DEF InformerInv, TypeOK, HandlerTypes, ObjectOrNone
  <2>2. \A n \in DOMAIN handlers : handlers[n] \in Handlers BY <2>1, ElementOfSeq, LenProperties, Zenon DEF HandlerTypes
  <2> QED BY <2>1, <2>2, Zenon DEF Registered
<1>1. SUFFICES ASSUME ~queue'.closed, NEW h \in Registered', NEW key \in due'[h], cached'[key] # NoObject
               PROVE  Coming(h, key)'
  BY Zenon DEF CallsComing
<1>2. ASSUME ~queue.closed, h \in Registered, key \in due[h], cached'[key] = cached[key] PROVE Coming(h, key)
  BY <1>1, <1>2, Zenon DEF CallsComing
<1>3. CASE UNCHANGED <<cached, outbox, queue, procVars, snapshot, handlers, due>>
  BY <1>2, <1>1, <1>3, Zenon DEF Coming, Registered, procVars
<1>4. CASE Quiet
  BY <1>3, <1>4, Zenon DEF Quiet, handlerVars
<1>5. CASE closeQueue \/ processExit
  <2>1. queue \in eventQueue BY Zenon DEF InformerInv, TypeOK
  <2> QED BY <1>1, <1>5, <2>1, Zenon DEF closeQueue, processExit, eventQueue
<1>6. CASE \E effect : Applied(effect)
  <2>1. PICK effect : Applied(effect) BY <1>6, Zenon
  <2>2. /\ DOMAIN outbox = {} /\ DOMAIN outbox' \subseteq Keys
        /\ \A k \in Keys \ DOMAIN outbox' : cached'[k] = cached[k]
        /\ due' \in [Handlers -> SUBSET Keys]
        /\ \A g \in Registered : due'[g] = due[g] \cup {k \in Keys : cached'[k] # cached[k]}
        /\ UNCHANGED <<queue, proc, batch, targets, called, handlers, snapshot>>
    BY <2>1, AppliedFacts, Zenon
  <2>3. CASE key \in DOMAIN outbox' BY <2>3, Zenon DEF Coming
  <2>4. CASE key \notin DOMAIN outbox'
    <3>1. Registered' = Registered BY <2>2, Zenon DEF Registered
    <3>2. key \in Keys BY <1>0, <2>2, <3>1, Zenon
    <3>3. cached'[key] = cached[key] /\ key \in due[h] BY <2>2, <2>4, <3>1, <3>2, Zenon
    <3>4. Coming(h, key) BY <1>1, <1>2, <2>2, <3>1, <3>3, Zenon
    <3> QED BY <2>2, <3>4, Zenon DEF Coming
  <2> QED BY <2>3, <2>4, Zenon
<1>7. CASE Enqueue
  <2>1. /\ cached' = cached /\ due' = due /\ UNCHANGED <<procVars, snapshot>> /\ Registered' = Registered
    BY <1>7, Zenon DEF Enqueue, cacheVars, handlerVars, Registered
  <2>2. PICK k \in DOMAIN outbox :
           /\ queue' = enqueue(queue, k, outbox[k]) /\ outbox' = [j \in DOMAIN outbox \ {k} |-> outbox[j]]
    BY <1>7, Zenon DEF Enqueue
  <2>3. ~queue.closed
    BY <1>1, <2>2, Zenon DEF enqueue
  <2>4. /\ k \in Keys /\ enqueue(queue, k, outbox[k]).pending
                           = [queue.pending EXCEPT ![k] = Push(queue.pending[k], outbox[k])]
        /\ outbox[k].type # "delete" => Push(queue.pending[k], outbox[k]) # <<>>
    BY <2>3, EnqueueFacts, Zenon
  <2>5. queue.pending \in [Keys -> Seq(cacheEvent)] /\ due \in [Handlers -> SUBSET Keys]
    BY Zenon DEF InformerInv, TypeOK, eventQueue
  <2>6. key \in Keys BY <1>0, <2>1, <2>5, Zenon
  <2>7. Coming(h, key) BY <1>2, <2>1, <2>3, Zenon
  <2>8. CASE key = k
    <3>1. After(outbox[k]) = cached[k] BY <1>0, Zenon DEF QueueOK
    <3>2. outbox[k].type # "delete" BY <1>1, <2>1, <2>8, <3>1, Zenon DEF After
    <3>3. queue'.pending[key] # <<>> BY <2>2, <2>4, <2>5, <2>8, <3>2, Zenon
    <3> QED BY <3>3, Zenon DEF Coming
  <2>9. CASE key # k
    <3>1. queue'.pending[key] = queue.pending[key] BY <2>2, <2>4, <2>5, <2>6, <2>9, Zenon
    <3>2. key \in DOMAIN outbox => key \in DOMAIN outbox' BY <2>2, <2>9, Zenon
    <3> QED BY <2>1, <2>7, <3>1, <3>2, Zenon DEF Coming, procVars
  <2> QED BY <2>8, <2>9, Zenon
<1>8. CASE drain
  <2>1. /\ cached' = cached /\ due' = due /\ UNCHANGED <<snapshot, outbox>> /\ Registered' = Registered
        /\ proc = "idle" /\ proc' = "copy" /\ batch' = drained(queue)
        /\ queue' = [newEventQueue EXCEPT !.closed = queue.closed]
    BY <1>8, Zenon DEF drain, cacheVars, handlerVars, Registered
  <2>2. ~queue.closed BY <1>1, <2>1, Zenon DEF newEventQueue
  <2>3. Coming(h, key) /\ batch = <<>> BY <1>0, <1>2, <2>1, <2>2, Zenon DEF QueueOK
  <2>4. key \in Keys BY <1>0, <2>1, Zenon DEF HandlerTypes
  <2>5. queue.pending[key] # <<>> => \E n \in DOMAIN batch' : batch'[n].obj.key = key
    <3>1. OwnEvents(queue) BY <1>0, Zenon DEF QueueOK, OwnEvents, InformerInv, TypeOK
    <3>2. queue.pending[key] # <<>> => \E i \in DOMAIN queue.order : queue.order[i] = key
      BY <1>0, <2>4, Zenon DEF QueueOK
    <3>3. queue.pending[key] # <<>> => \E n \in DOMAIN drained(queue) : drained(queue)[n].obj.key = key
      BY <2>4, <3>1, <3>2, DrainFacts, Zenon
    <3> QED BY <2>1, <3>3, Zenon
  <2> QED BY <2>1, <2>3, <2>5, Zenon DEF Coming
<1>9. CASE CopyHandlers \/ CallHandler \/ NextEvent
  <2>1. cached' = cached /\ UNCHANGED <<snapshot, outbox, queue>> /\ Registered' = Registered
    BY <1>9, Zenon DEF CopyHandlers, CallHandler, NextEvent, cacheVars, handlerVars, Registered
  <2>2. key \in due[h]
    <3>1. CASE CallHandler
      <4>1. targets[called + 1] = h => due'[h] \subseteq due[h] BY <2>1, <3>1, CallFacts, ToldFacts, Zenon
      <4>2. targets[called + 1] # h => due'[h] = due[h] BY <1>0, <2>1, <3>1, CallFacts, ToldFacts, Zenon
      <4> QED BY <4>1, <4>2, Zenon
    <3>2. CASE CopyHandlers \/ NextEvent
      BY <3>2, Zenon DEF CopyHandlers, NextEvent
    <3> QED BY <1>9, <3>1, <3>2, Zenon
  <2>3. Coming(h, key) BY <1>1, <1>2, <2>1, <2>2, Zenon
  <2>4. InBatch(h, key) => InBatch(h, key)' BY <1>9, <2>1, InBatchStep, Zenon
  <2> QED BY <2>1, <2>3, <2>4, ComingCases, ComingCasesNext, Zenon
<1>10. ASSUME NEW g \in Handlers, AddEventHandler(g) PROVE Coming(h, key)'
  <2>1. /\ Registered' = Registered \cup {g}
        /\ \A f \in Handlers \ {g} : due'[f] = due[f] /\ snapshot'[f] = snapshot[f]
        /\ due'[g] = {k \in Keys : cached[k] # NoObject}
        /\ snapshot'[g] = {cached[k] : k \in Keys} \ {NoObject}
    BY <1>10, AddHandlerStep, Zenon
  <2>2. cached' = cached /\ UNCHANGED <<outbox, queue, procVars>>
    BY <1>10, Zenon DEF AddEventHandler, cacheVars
  <2>3. CASE h = g
    <3>1. key \in Keys /\ cached[key] # NoObject /\ cached[key] \in snapshot'[h] BY <2>1, <2>3, Zenon
    <3>2. cached[key].key = key BY <3>1, Zenon DEF InformerInv, CacheOK, CachedOK, WellKeyed
    <3> QED BY <3>1, <3>2, Zenon DEF Coming
  <2>4. CASE h # g
    <3>1. h \in Registered /\ h \in Handlers /\ due'[h] = due[h] /\ snapshot'[h] = snapshot[h] BY <1>0, <2>1, <2>4, Zenon
    <3>2. Coming(h, key) BY <1>1, <1>2, <2>2, <3>1, Zenon
    <3> QED BY <2>2, <3>1, <3>2, Zenon DEF Coming, procVars
  <2> QED BY <2>3, <2>4, Zenon
<1>11. ASSUME NEW g \in Handlers, OnAddExisting(g) PROVE Coming(h, key)'
  <2>1. PICK obj \in snapshot[g] : snapshot' = [snapshot EXCEPT ![g] = @ \ {obj}] /\ Told(g, obj.key, obj)
    BY <1>11, Zenon DEF OnAddExisting
  <2>2. obj \in Object /\ obj.key \in Keys /\ obj \in ObjectOrNone
    BY <1>0, <2>1, ObjectParts, Zenon DEF HandlerTypes, ObjectOrNone
  <2>3. cached' = cached /\ UNCHANGED <<outbox, queue, procVars>> /\ Registered' = Registered
    BY <1>11, Zenon DEF OnAddExisting, cacheVars, Registered
  <2>4. CASE h = g
    <3>1. due'[h] = due[h] \ {obj.key} BY <2>1, <2>2, <2>3, <2>4, ToldFacts, Zenon
    <3>2. Coming(h, key) /\ key # obj.key BY <1>1, <1>2, <2>3, <3>1, Zenon
    <3>3. \A o \in snapshot[h] : o.key = key => o \in snapshot'[h] BY <1>0, <2>1, <2>4, <3>2, Zenon DEF HandlerTypes
    <3> QED BY <2>3, <3>2, <3>3, Zenon DEF Coming, procVars
  <2>5. CASE h # g
    <3>1. due'[h] = due[h] BY <1>0, <2>1, <2>2, <2>3, <2>5, ToldFacts, Zenon
    <3>2. Coming(h, key) BY <1>1, <1>2, <2>3, <3>1, Zenon
    <3>3. snapshot'[h] = snapshot[h] BY <1>0, <2>1, <2>3, <2>5, Zenon DEF HandlerTypes
    <3> QED BY <2>3, <3>2, <3>3, Zenon DEF Coming, procVars
  <2> QED BY <2>4, <2>5, Zenon
<1>12. ASSUME NEW g \in Handlers, RemoveEventHandler(g) PROVE Coming(h, key)'
  <2>1. h \in Registered /\ h # g /\ due'[h] = due[h] BY <1>0, <1>12, RemoveHandlerStep, Zenon
  <2>2. cached' = cached /\ UNCHANGED <<outbox, queue, procVars, snapshot>>
    BY <1>12, Zenon DEF RemoveEventHandler, cacheVars
  <2>3. Coming(h, key) BY <1>1, <1>2, <2>1, <2>2, Zenon
  <2> QED BY <2>2, <2>3, Zenon DEF Coming, procVars
<1> QED
  BY <1>4, <1>5, <1>6, <1>7, <1>8, <1>9, <1>10, <1>11, <1>12, StepKinds, Zenon DEF Moves

(* Every handler, whenever it was added, has been called for every cached  *)
(* object since the object last changed, once nothing is on its way to it  *)
(* (AddEventHandler, enqueue, drain, processEvents).                       *)
THEOREM HandlersMissNothing == Spec => []LiveObjectsAnnounced
<1>1. Init => InformerInv /\ CallsComing
  <2>1. ASSUME Init PROVE CallsComing
    <3>1. handlers = <<>> BY <2>1, Zenon DEF Init
    <3>2. Registered = {} BY <3>1 DEF Registered
    <3> QED BY <3>2, Zenon DEF CallsComing
  <2> QED BY <2>1, InformerInit, Zenon
<1>2. InformerInv /\ CallsComing /\ [Next]_vars => (InformerInv /\ CallsComing)'
  BY InformerNext, CallsComingNext, Zenon
<1>3. InformerInv /\ CallsComing => LiveObjectsAnnounced
  <2> SUFFICES ASSUME InformerInv, CallsComing, NEW h \in Handlers, AtRest(h), NEW key \in due[h], cached[key] # NoObject
               PROVE  FALSE
    BY Zenon DEF LiveObjectsAnnounced
  <2>1. /\ h \in Registered /\ snapshot[h] = {} /\ proc = "idle" /\ ~queue.closed
        /\ \A k \in Keys : queue.pending[k] = <<>>
        /\ outbox = NoEvents /\ DOMAIN outbox = {}
    BY Zenon DEF AtRest, Idle, NoEvents
  <2>2. key \in Keys /\ batch = <<>> BY <2>1, Zenon DEF InformerInv, TypeOK, QueueOK
  <2>3. Coming(h, key) BY <2>1, Zenon DEF CallsComing
  <2> QED BY <2>1, <2>2, <2>3, Zenon DEF Coming
<1> QED BY <1>1, <1>2, <1>3, PTL DEF Spec
-----------------------------------------------------------------------------
(***************************************************************************)
(* The events on their way to a handler added before Start lead from what  *)
(* it was last told to the cached object, for keys never added again.      *)
(***************************************************************************)
Follows(h, key) == Path(view[h][key], Stream(h, key), key, cached[key])

StreamOK ==
    \A h \in Registered : added[h] = "early" /\ ~queue.closed => \A key \in Keys \ readded : Follows(h, key)

OutOf(key) == IF key \in DOMAIN outbox THEN <<outbox[key]>> ELSE <<>>

Thread(x, rest, pend, out, key, c) == Path(x, rest \o pend \o out, key, c)

LEMMA FollowsIsThread ==
    ASSUME NEW h, NEW key
    PROVE  /\ Follows(h, key)
              <=> Thread(view[h][key], Rest(h), queue.pending[key], OutOf(key), key, cached[key])
           /\ Follows(h, key)'
              <=> Thread(view'[h][key], Rest(h)', queue'.pending[key], OutOf(key)', key, cached'[key])
  BY Zenon DEF Follows, Stream, Thread, OutOf

(* A thread of events in three parts.                                      *)
LEMMA ThreadParts ==
    ASSUME NEW rest \in Seq(cacheEvent), NEW pend \in Seq(cacheEvent), NEW out \in Seq(cacheEvent),
           NEW x, NEW key, NEW c
    PROVE  Thread(x, rest, pend, out, key, c) <=>
             \E y, z \in ObjectOrNone :
                Path(x, rest, key, y) /\ Path(y, pend, key, z) /\ Path(z, out, key, c)
<1> DEFINE front == rest \o pend
<1>1. front \in Seq(cacheEvent)
  BY ConcatProperties, Zenon
<1>2. ASSUME Thread(x, rest, pend, out, key, c)
      PROVE  \E y, z \in ObjectOrNone : Path(x, rest, key, y) /\ Path(y, pend, key, z) /\ Path(z, out, key, c)
  <2>1. PICK z \in ObjectOrNone : Path(x, front, key, z) /\ Path(z, out, key, c)
    <3>1. Path(x, front \o out, key, c) BY <1>2, Zenon DEF Thread
    <3> HIDE DEF front
    <3> QED BY <1>1, <3>1, PathSplit, Zenon
  <2>2. PICK y \in ObjectOrNone : Path(x, rest, key, y) /\ Path(y, pend, key, z)
    BY <2>1, PathSplit, Zenon
  <2> QED BY <2>1, <2>2, Zenon
<1>3. ASSUME NEW y \in ObjectOrNone, NEW z \in ObjectOrNone,
             Path(x, rest, key, y), Path(y, pend, key, z), Path(z, out, key, c)
      PROVE  Thread(x, rest, pend, out, key, c)
  <2>1. Path(x, front, key, z) BY <1>3, PathConcat, Zenon
  <2> HIDE DEF front
  <2>2. Path(x, front \o out, key, c) BY <1>1, <1>3, <2>1, PathConcat, Zenon
  <2> QED BY <2>2, Zenon DEF Thread, front
<1> QED BY <1>2, <1>3, Zenon

LEMMA ThreadTypes ==
    ASSUME InformerInv, NEW h \in Handlers, NEW key \in Keys
    PROVE  /\ Rest(h) \in Seq(cacheEvent) /\ queue.pending[key] \in Seq(cacheEvent)
           /\ OutOf(key) \in Seq(cacheEvent)
           /\ view[h][key] \in ObjectOrNone /\ cached[key] \in ObjectOrNone
<1>1. batch \in Seq(cacheEvent) /\ queue.pending[key] \in Seq(cacheEvent)
  BY Zenon DEF InformerInv, TypeOK, eventQueue
<1>2. Rest(h) \in Seq(cacheEvent)
  BY <1>1, HeadTailProperties, Zenon DEF Rest
<1>3. OutOf(key) \in Seq(cacheEvent)
  BY DEF InformerInv, TypeOK, OutOf
<1>4. view[h][key] \in ObjectOrNone /\ cached[key] \in ObjectOrNone
  BY Zenon DEF InformerInv, TypeOK, ObjectOrNone
<1> QED BY <1>1, <1>2, <1>3, <1>4, Zenon

(* The processor's steps: what is left for an early handler after a call   *)
(* is what was left, without the event it was called for.                  *)
LEMMA CallRest ==
    ASSUME InformerInv, CallHandler, NEW h \in Registered, NEW key \in Keys
    PROVE  \/ Rest(h)' = Rest(h) /\ view'[h][key] = view[h][key]
           \/ /\ Rest(h) = batch /\ batch # <<>> /\ Rest(h)' = Tail(batch)
              /\ view'[h][key] = IF Head(batch).obj.key = key THEN After(Head(batch)) ELSE view[h][key]
<1>1. /\ proc = "call" /\ batch # <<>> /\ called' = called + 1 /\ UNCHANGED <<batch, targets, proc>>
  BY Zenon DEF CallHandler
<1>2. /\ targets \in Seq(Handlers) /\ called \in 0..Len(targets) /\ Injective(targets)
      /\ view \in [Handlers -> [Keys -> ObjectOrNone]]
  BY Zenon DEF InformerInv, TypeOK, HandlersOK, ObjectOrNone
<1>3. called + 1 \in DOMAIN targets /\ DOMAIN targets = 1..Len(targets) /\ Len(targets) \in Nat /\ called \in Nat
  BY <1>2, CallFacts, LenProperties
<1>4. h \in Handlers
  <2>1. handlers \in Seq(Handlers) BY Zenon DEF InformerInv, TypeOK
  <2>2. \A n \in DOMAIN handlers : handlers[n] \in Handlers BY <2>1, ElementOfSeq, LenProperties, Zenon
  <2> QED BY <2>2, Zenon DEF Registered
<1>5. CASE targets[called + 1] = h
  <2>1. ~\E n \in 1..called : targets[n] = h
    <3>1. \A n \in 1..called : n \in DOMAIN targets /\ n # called + 1 BY <1>2, <1>3
    <3> QED BY <1>2, <1>3, <1>5, <3>1, Zenon DEF Injective
  <2>2. called + 1 \in 1..called' BY <1>1, <1>3
  <2>3. Rest(h) = batch BY <2>1, Zenon DEF Rest
  <2>4. Rest(h)' = Tail(batch) BY <1>1, <1>5, <2>2, Zenon DEF Rest
  <2>5. view'[h] = [view[h] EXCEPT ![Head(batch).obj.key] = After(Head(batch))]
    <3>1. /\ Head(batch).obj.key \in Keys /\ After(Head(batch)) \in ObjectOrNone
          /\ Told(h, Head(batch).obj.key, After(Head(batch)))
      BY <1>5, CallFacts, Zenon
    <3> QED BY <1>4, <3>1, ToldFacts
  <2>6. view[h] \in [Keys -> ObjectOrNone] BY <1>2, <1>4, Zenon
  <2> QED BY <1>1, <2>3, <2>4, <2>5, <2>6, Zenon
<1>6. CASE targets[called + 1] # h
  <2>1. (\E n \in 1..called : targets[n] = h) <=> \E n \in 1..called' : targets[n] = h
    <3>1. \A n \in 1..called' : n \in 1..called \/ n = called + 1 BY <1>1, <1>3
    <3>2. \A n \in 1..called : n \in 1..called' BY <1>1, <1>3
    <3> QED BY <1>6, <3>1, <3>2, Zenon
  <2>2. Rest(h)' = Rest(h) BY <1>1, <2>1, Zenon DEF Rest
  <2>3. view'[h] = view[h] BY <1>4, <1>6, CallFacts, ToldFacts, Zenon
  <2> QED BY <2>2, <2>3, Zenon
<1> QED BY <1>5, <1>6, Zenon

LEMMA OtherRest ==
    ASSUME InformerInv, CopyHandlers \/ NextEvent, NEW h \in Handlers, added[h] = "early"
    PROVE  Rest(h)' = Rest(h)
<1>1. /\ targets \in Seq(Handlers) /\ called \in 0..Len(targets) /\ batch \in Seq(cacheEvent)
      /\ Len(targets) \in Nat /\ DOMAIN targets = 1..Len(targets)
  BY LenProperties, Zenon DEF InformerInv, TypeOK
<1>2. CASE CopyHandlers
  BY <1>2 DEF CopyHandlers, Rest
<1>3. CASE NextEvent /\ batch = <<>>
  BY <1>3, Zenon DEF NextEvent, Rest
<1>4. CASE NextEvent /\ batch # <<>>
  <2>1. /\ proc = "call" /\ called = Len(targets) /\ batch' = Tail(batch) /\ called' = 0
    BY <1>4, Zenon DEF NextEvent
  <2>2. \E n \in 1..called : targets[n] = h
    BY <1>1, <2>1, Zenon DEF InformerInv, HandlersOK
  <2>3. Rest(h) = Tail(batch) BY <1>4, <2>1, <2>2, Zenon DEF Rest
  <2>4. ~\E n \in 1..called' : targets'[n] = h BY <2>1
  <2>5. Rest(h)' = Tail(batch) BY <2>1, <2>4, Zenon DEF Rest
  <2> QED BY <2>3, <2>5, Zenon
<1> QED BY <1>2, <1>3, <1>4, Zenon

LEMMA StreamNext ==
    ASSUME InformerInv, StreamOK, [Next]_vars
    PROVE  StreamOK'
<1>0. HandlerTypes /\ HandlersOK /\ QueueOK /\ Registered \subseteq Handlers
  <2>1. HandlerTypes /\ HandlersOK /\ QueueOK BY Zenon DEF InformerInv, TypeOK, HandlerTypes, ObjectOrNone
  <2>2. \A n \in DOMAIN handlers : handlers[n] \in Handlers BY <2>1, ElementOfSeq, LenProperties, ZenonT(30) DEF HandlerTypes
  <2> QED BY <2>1, <2>2, Zenon DEF Registered
<1>1. SUFFICES ASSUME ~queue'.closed, NEW h \in Registered', added'[h] = "early",
                      NEW key \in Keys, key \notin readded'
               PROVE  Follows(h, key)'
  BY Zenon DEF StreamOK
<1>r. key \notin readded
  <2>1. CASE Quiet \/ Moves BY <1>1, <2>1, MovesFacts, Zenon DEF Quiet, cacheVars
  <2>2. CASE \E effect : Applied(effect) BY <1>1, <2>2, AppliedFacts, Zenon
  <2> QED BY <2>1, <2>2, StepKinds, Zenon
<1> DEFINE x == view[h][key]
           rest == Rest(h)
           pend == queue.pending[key]
           out == OutOf(key)
           c == cached[key]
<1>2. ASSUME ~queue.closed, h \in Registered, added[h] = "early"
      PROVE  /\ h \in Handlers
             /\ rest \in Seq(cacheEvent) /\ pend \in Seq(cacheEvent) /\ out \in Seq(cacheEvent)
             /\ x \in ObjectOrNone /\ c \in ObjectOrNone
             /\ Thread(x, rest, pend, out, key, c)
             /\ \E y, z \in ObjectOrNone : Path(x, rest, key, y) /\ Path(y, pend, key, z) /\ Path(z, out, key, c)
  <2>1. h \in Handlers BY <1>0, <1>2, Zenon
  <2>2. /\ rest \in Seq(cacheEvent) /\ pend \in Seq(cacheEvent) /\ out \in Seq(cacheEvent)
        /\ x \in ObjectOrNone /\ c \in ObjectOrNone
    BY <2>1, ThreadTypes, Zenon
  <2>3. Follows(h, key) BY <1>2, <1>r, Zenon DEF StreamOK
  <2>4. Thread(x, rest, pend, out, key, c) BY <2>3, FollowsIsThread, Zenon
  <2> HIDE DEF x, rest, pend, out, c
  <2> QED BY <2>1, <2>2, <2>4, ThreadParts, Zenon
<1>3. SUFFICES Thread(view'[h][key], Rest(h)', queue'.pending[key], OutOf(key)', key, cached'[key])
  BY FollowsIsThread, Zenon
<1> HIDE DEF x, rest, pend, out, c
<1>4. ASSUME ~queue.closed, h \in Registered, added[h] = "early",
             view'[h][key] = x, Rest(h)' = rest, queue'.pending[key] = pend, OutOf(key)' = out, cached'[key] = c
      PROVE  Thread(view'[h][key], Rest(h)', queue'.pending[key], OutOf(key)', key, cached'[key])
  <2>1. Thread(x, rest, pend, out, key, c) BY <1>2, <1>4, Zenon
  <2> QED BY <1>4, <2>1, Zenon
<1>5. CASE Quiet
  <2>1. UNCHANGED <<cached, outbox, queue, proc, batch, targets, called, handlers, added, view>>
    BY <1>5, Zenon DEF Quiet, procVars, handlerVars
  <2>2. Rest(h)' = rest /\ OutOf(key)' = out BY <2>1, Zenon DEF Rest, OutOf, rest, out
  <2>3. h \in Registered BY <2>1, Zenon DEF Registered
  <2> QED BY <1>1, <1>4, <2>1, <2>2, <2>3, Zenon DEF x, pend, c
<1>6. CASE closeQueue \/ processExit
  <2>1. queue \in eventQueue BY Zenon DEF InformerInv, TypeOK
  <2> QED BY <1>1, <1>6, <2>1, Zenon DEF closeQueue, processExit, eventQueue
<1>7. CASE \E effect : Applied(effect)
  <2>1. PICK effect : Applied(effect) BY <1>7, Zenon
  <2>2. /\ DOMAIN outbox = {} /\ DOMAIN outbox' \subseteq Keys
        /\ \A k \in DOMAIN outbox' \ readded' : Leads(cached[k], outbox'[k], k, cached'[k])
        /\ \A k \in Keys \ DOMAIN outbox' : cached'[k] = cached[k]
        /\ UNCHANGED <<queue, proc, batch, targets, called, handlers, snapshot, added, view>>
    BY <2>1, AppliedFacts, Zenon
  <2>3. h \in Registered BY <2>2, Zenon DEF Registered
  <2>4. Rest(h)' = rest /\ out = <<>> BY <2>2, Zenon DEF Rest, OutOf, rest, out
  <2>5. CASE key \notin DOMAIN outbox'
    <3>1. OutOf(key)' = out /\ cached'[key] = c BY <2>2, <2>4, <2>5, Zenon DEF OutOf, c
    <3> QED BY <1>1, <1>4, <2>2, <2>3, <2>4, <3>1, Zenon DEF x, pend
  <2>6. CASE key \in DOMAIN outbox'
    <3>1. OutOf(key)' = <<outbox'[key]>> BY <2>6, Zenon DEF OutOf
    <3>2. outbox'[key] \in cacheEvent /\ PathStep(c, outbox'[key], key, cached'[key])
      BY <1>1, <2>2, <2>6, Zenon DEF Leads, PathStep, c
    <3>3. /\ rest \in Seq(cacheEvent) /\ pend \in Seq(cacheEvent) /\ c \in ObjectOrNone
          /\ \E y, z \in ObjectOrNone : Path(x, rest, key, y) /\ Path(y, pend, key, z) /\ Path(z, out, key, c)
      BY <1>1, <1>2, <2>2, <2>3, Zenon
    <3>4. PICK y, z \in ObjectOrNone : Path(x, rest, key, y) /\ Path(y, pend, key, z) /\ Path(z, out, key, c)
      BY <3>3, Zenon
    <3>5. z = c BY <2>4, <3>4, PathEmpty, Zenon
    <3>6. Path(z, <<outbox'[key]>>, key, cached'[key]) BY <3>2, <3>3, <3>5, PathOne, Zenon
    <3>7. <<outbox'[key]>> \in Seq(cacheEvent) BY <3>2, SMTT(30)
    <3>8. Thread(x, rest, pend, <<outbox'[key]>>, key, cached'[key]) BY <3>3, <3>4, <3>6, <3>7, ThreadParts, Zenon
    <3>9. view'[h][key] = x /\ queue'.pending[key] = pend BY <2>2, Zenon DEF x, pend
    <3> QED BY <2>4, <3>1, <3>8, <3>9, Zenon
  <2> QED BY <2>5, <2>6, Zenon
<1>8. CASE Enqueue
  <2>1. UNCHANGED <<cached, view, added, handlers, proc, batch, targets, called>>
    BY <1>8, Zenon DEF Enqueue, cacheVars, handlerVars, procVars
  <2>2. PICK k \in DOMAIN outbox :
           /\ queue' = enqueue(queue, k, outbox[k]) /\ outbox' = [j \in DOMAIN outbox \ {k} |-> outbox[j]]
    BY <1>8, Zenon DEF Enqueue
  <2>3. ~queue.closed /\ h \in Registered /\ added[h] = "early"
    BY <1>1, <2>1, <2>2, Zenon DEF enqueue, Registered
  <2>4. /\ k \in Keys /\ enqueue(queue, k, outbox[k]).pending
                           = [queue.pending EXCEPT ![k] = Push(queue.pending[k], outbox[k])]
        /\ Push(queue.pending[k], outbox[k]) \in Seq(cacheEvent)
    BY <2>3, EnqueueFacts, Zenon
  <2>5. queue.pending \in [Keys -> Seq(cacheEvent)]
    BY Zenon DEF InformerInv, TypeOK, eventQueue
  <2>6. view'[h][key] = x /\ cached'[key] = c /\ Rest(h)' = rest BY <2>1, Zenon DEF x, c, Rest, rest
  <2>7. CASE key # k
    <3>1. queue'.pending[key] = pend BY <2>2, <2>4, <2>5, <2>7, Zenon DEF pend
    <3>2. OutOf(key)' = out BY <2>2, <2>7, Zenon DEF OutOf, out
    <3> QED BY <1>4, <2>3, <2>6, <3>1, <3>2, Zenon
  <2>8. CASE key = k
    <3> DEFINE event == outbox[key]
    <3>1. queue'.pending[key] = Push(pend, event) BY <2>2, <2>4, <2>5, <2>8, Zenon DEF pend
    <3>2. OutOf(key)' = <<>> /\ out = <<event>> BY <2>2, <2>8, Zenon DEF OutOf, out
    <3>3. event \in cacheEvent /\ event.obj.key = key BY <1>0, <2>8, Zenon DEF InformerInv, TypeOK, QueueOK
    <3>4. \A n \in DOMAIN pend : pend[n].obj.key = key BY <1>0, Zenon DEF QueueOK, pend
    <3>5. Push(pend, event) \in Seq(cacheEvent) BY <2>4, <2>8, Zenon DEF pend
    <3> HIDE DEF event
    <3>6. /\ rest \in Seq(cacheEvent) /\ pend \in Seq(cacheEvent) /\ c \in ObjectOrNone
          /\ \E y, z \in ObjectOrNone : Path(x, rest, key, y) /\ Path(y, pend, key, z) /\ Path(z, out, key, c)
      BY <1>2, <2>3, Zenon
    <3>7. PICK y, z \in ObjectOrNone : Path(x, rest, key, y) /\ Path(y, pend, key, z) /\ Path(z, out, key, c)
      BY <3>6, Zenon
    <3>8. PathStep(z, event, key, c) BY <3>2, <3>3, <3>7, PathOne, Zenon
    <3>9. Fits(z, event) /\ c = After(event) BY <3>3, <3>8, Zenon DEF PathStep
    <3>10. Path(y, Push(pend, event), key, c) BY <3>3, <3>4, <3>6, <3>7, <3>9, PushPath, Zenon
    <3>11. Path(c, <<>>, key, c) BY <3>6, PathEmpty, Zenon
    <3>12. Thread(x, rest, Push(pend, event), <<>>, key, c)
      <4>1. <<>> \in Seq(cacheEvent) OBVIOUS
      <4> QED BY <3>5, <3>6, <3>7, <3>10, <3>11, <4>1, ThreadParts, Zenon
    <3> QED BY <2>6, <3>1, <3>2, <3>12, Zenon
  <2> QED BY <2>7, <2>8, Zenon
<1>9. CASE drain
  <2>1. /\ UNCHANGED <<cached, view, added, handlers, outbox>>
        /\ proc = "idle" /\ proc' = "copy" /\ batch' = drained(queue)
        /\ queue' = [newEventQueue EXCEPT !.closed = queue.closed]
    BY <1>9, Zenon DEF drain, cacheVars, handlerVars
  <2>2. ~queue.closed /\ h \in Registered /\ added[h] = "early"
    BY <1>1, <2>1, Zenon DEF newEventQueue, Registered
  <2>3. view'[h][key] = x /\ cached'[key] = c /\ OutOf(key)' = out /\ queue'.pending[key] = <<>>
    BY <2>1, Zenon DEF x, c, OutOf, out, newEventQueue
  <2>4. rest = <<>> /\ Rest(h)' = drained(queue)
    BY <1>0, <2>1, Zenon DEF Rest, rest, QueueOK
  <2>5. OwnEvents(queue) /\ (pend # <<>> => \E i \in DOMAIN queue.order : queue.order[i] = key)
    BY <1>0, Zenon DEF QueueOK, OwnEvents, InformerInv, TypeOK, pend
  <2>6. /\ drained(queue) \in Seq(cacheEvent)
        /\ \A y, z \in ObjectOrNone : Path(y, pend, key, z) => Path(y, drained(queue), key, z)
    BY <2>5, DrainFacts, Zenon DEF pend
  <2>7. /\ out \in Seq(cacheEvent) /\ x \in ObjectOrNone
        /\ \E y, z \in ObjectOrNone : Path(x, rest, key, y) /\ Path(y, pend, key, z) /\ Path(z, out, key, c)
    BY <1>2, <2>2, Zenon
  <2>8. PICK y, z \in ObjectOrNone : Path(x, rest, key, y) /\ Path(y, pend, key, z) /\ Path(z, out, key, c)
    BY <2>7, Zenon
  <2>9. x = y BY <2>4, <2>7, <2>8, PathEmpty, Zenon
  <2>10. Path(x, drained(queue), key, z) /\ Path(z, <<>>, key, z) BY <2>6, <2>8, <2>9, PathEmpty, Zenon
  <2>11. Thread(x, drained(queue), <<>>, out, key, c)
    <3>1. <<>> \in Seq(cacheEvent) OBVIOUS
    <3> QED BY <2>6, <2>7, <2>8, <2>10, <3>1, ThreadParts, Zenon
  <2> QED BY <2>3, <2>4, <2>11, Zenon
<1>10. CASE CallHandler
  <2>1. UNCHANGED <<cached, added, handlers, outbox, queue>>
    BY <1>10, Zenon DEF CallHandler, cacheVars, handlerVars
  <2>2. ~queue.closed /\ h \in Registered /\ added[h] = "early"
    BY <1>1, <2>1, Zenon DEF Registered
  <2>3. cached'[key] = c /\ OutOf(key)' = out /\ queue'.pending[key] = pend
    BY <2>1, Zenon DEF c, OutOf, out, pend
  <2>4. CASE Rest(h)' = Rest(h) /\ view'[h][key] = view[h][key]
    BY <1>4, <2>2, <2>3, <2>4, Zenon DEF rest, x
  <2>5. CASE /\ Rest(h) = batch /\ batch # <<>> /\ Rest(h)' = Tail(batch)
             /\ view'[h][key] = IF Head(batch).obj.key = key THEN After(Head(batch)) ELSE view[h][key]
    <3>1. batch \in Seq(cacheEvent) BY Zenon DEF InformerInv, TypeOK
    <3>2. /\ Head(batch) \in cacheEvent /\ Tail(batch) \in Seq(cacheEvent)
          /\ batch = <<Head(batch)>> \o Tail(batch)
      BY <2>5, <3>1, HeadTailProperties, HeadTailConcat, Zenon
    <3>3. /\ pend \in Seq(cacheEvent) /\ out \in Seq(cacheEvent) /\ x \in ObjectOrNone
          /\ \E y, z \in ObjectOrNone : Path(x, rest, key, y) /\ Path(y, pend, key, z) /\ Path(z, out, key, c)
      BY <1>2, <2>2, Zenon
    <3>4. PICK y, z \in ObjectOrNone : Path(x, rest, key, y) /\ Path(y, pend, key, z) /\ Path(z, out, key, c)
      BY <3>3, Zenon
    <3>5. Path(x, <<Head(batch)>> \o Tail(batch), key, y) BY <2>5, <3>2, <3>4, Zenon DEF rest
    <3>6. <<Head(batch)>> \in Seq(cacheEvent) BY <3>2
    <3>7. PICK w \in ObjectOrNone : Path(x, <<Head(batch)>>, key, w) /\ Path(w, Tail(batch), key, y)
      BY <3>2, <3>5, <3>6, PathSplit, Zenon
    <3>8. PathStep(x, Head(batch), key, w) BY <3>2, <3>3, <3>7, PathOne, Zenon
    <3>9. view'[h][key] = w BY <2>5, <3>8, Zenon DEF PathStep, x
    <3>10. Thread(w, Tail(batch), pend, out, key, c) BY <3>2, <3>3, <3>4, <3>7, ThreadParts, Zenon
    <3> QED BY <2>3, <2>5, <3>9, <3>10, Zenon
  <2> QED BY <1>10, <2>2, <2>4, <2>5, CallRest, Zenon
<1>11. CASE CopyHandlers \/ NextEvent
  <2>1. UNCHANGED <<cached, view, added, handlers, outbox, queue>>
    BY <1>11, Zenon DEF CopyHandlers, NextEvent, cacheVars, handlerVars
  <2>2. ~queue.closed /\ h \in Registered /\ added[h] = "early" BY <1>1, <2>1, Zenon DEF Registered
  <2>3. Rest(h)' = rest BY <1>0, <1>11, <2>2, OtherRest, Zenon DEF rest
  <2>4. view'[h][key] = x /\ cached'[key] = c /\ OutOf(key)' = out /\ queue'.pending[key] = pend
    BY <2>1, Zenon DEF x, c, OutOf, out, pend
  <2> QED BY <1>4, <2>2, <2>3, <2>4, Zenon
<1>12. ASSUME NEW g \in Handlers, AddEventHandler(g)
       PROVE Thread(view'[h][key], Rest(h)', queue'.pending[key], OutOf(key)', key, cached'[key])
  <2>1. UNCHANGED <<cached, view, outbox, queue, proc, batch, targets, called>>
    BY <1>12, Zenon DEF AddEventHandler, cacheVars, procVars
  <2>2. /\ Registered' = Registered \cup {g}
        /\ added'[g] = "early" => phase = "new" /\ view'[g] = NoObjects
        /\ \A f \in Handlers \ {g} : added'[f] = added[f]
    BY <1>12, AddHandlerStep, Zenon
  <2>3. Rest(h)' = Rest(h) /\ OutOf(key)' = OutOf(key) BY <2>1, Zenon DEF Rest, OutOf
  <2>4. CASE h # g
    <3>1. ~queue.closed /\ h \in Registered /\ added[h] = "early" BY <1>0, <1>1, <2>1, <2>2, <2>4, Zenon
    <3> QED BY <1>4, <2>1, <2>3, <3>1, Zenon DEF x, rest, pend, out, c
  <2>5. CASE h = g
    <3>1. phase = "new" /\ view'[h][key] = NoObject BY <1>1, <2>2, <2>5, Zenon DEF NoObjects
    <3>2. /\ cached = NoObjects /\ outbox = NoEvents /\ queue.pending[key] = <<>>
          /\ proc = "idle" /\ batch = <<>>
      BY <3>1, Zenon DEF InformerInv, CacheOK, Untouched
    <3>3. /\ Rest(h)' = <<>> /\ OutOf(key)' = <<>> /\ queue'.pending[key] = <<>> /\ cached'[key] = NoObject
      BY <2>1, <2>3, <3>2, Zenon DEF Rest, OutOf, NoEvents, NoObjects
    <3>4. NoObject \in ObjectOrNone /\ <<>> \in Seq(cacheEvent) BY DEF ObjectOrNone
    <3>5. Path(NoObject, <<>>, key, NoObject) BY <3>4, PathEmpty, Zenon
    <3>6. Thread(NoObject, <<>>, <<>>, <<>>, key, NoObject) BY <3>4, <3>5, ThreadParts, Zenon
    <3> QED BY <3>1, <3>3, <3>6, Zenon
  <2> QED BY <2>4, <2>5, Zenon
<1>13. ASSUME NEW g \in Handlers, OnAddExisting(g)
       PROVE Thread(view'[h][key], Rest(h)', queue'.pending[key], OutOf(key)', key, cached'[key])
  <2>1. UNCHANGED <<cached, added, handlers, outbox, queue, proc, batch, targets, called>>
    BY <1>13, Zenon DEF OnAddExisting, cacheVars, procVars
  <2>2. ~queue.closed /\ h \in Registered /\ added[h] = "early" /\ h \in Handlers BY <1>0, <1>1, <2>1, Zenon DEF Registered
  <2>3. PICK obj \in snapshot[g] : Told(g, obj.key, obj)
    BY <1>13, Zenon DEF OnAddExisting
  <2>4. g # h BY <1>0, <2>2, <2>3, Zenon DEF HandlersOK
  <2>5. obj \in Object /\ obj.key \in Keys /\ obj \in ObjectOrNone
    BY <1>0, <2>3, ObjectParts, Zenon DEF HandlerTypes, ObjectOrNone
  <2>6. view'[h] = view[h] BY <2>2, <2>3, <2>4, <2>5, ToldFacts, Zenon
  <2>7. Rest(h)' = Rest(h) /\ OutOf(key)' = OutOf(key) BY <2>1, Zenon DEF Rest, OutOf
  <2> QED BY <1>4, <2>1, <2>2, <2>6, <2>7, Zenon DEF x, rest, pend, out, c
<1>14. ASSUME NEW g \in Handlers, RemoveEventHandler(g)
       PROVE Thread(view'[h][key], Rest(h)', queue'.pending[key], OutOf(key)', key, cached'[key])
  <2>1. UNCHANGED <<cached, outbox, queue, proc, batch, targets, called>>
    BY <1>14, Zenon DEF RemoveEventHandler, cacheVars, procVars
  <2>2. h \in Registered /\ added'[h] = added[h] /\ view'[h] = view[h]
    BY <1>0, <1>14, RemoveHandlerStep, Zenon
  <2>3. Rest(h)' = Rest(h) /\ OutOf(key)' = OutOf(key) BY <2>1, Zenon DEF Rest, OutOf
  <2> QED BY <1>1, <1>4, <2>1, <2>2, <2>3, Zenon DEF x, rest, pend, out, c
<1> QED
  BY <1>5, <1>6, <1>7, <1>8, <1>9, <1>10, <1>11, <1>12, <1>13, <1>14, StepKinds, Zenon DEF Moves

(* Coalescing loses no transition a handler relies on: the events still to *)
(* be given to a handler added before Start lead from what it was last     *)
(* told to the cached object, each one fitting the one before, for every   *)
(* key that was not added over a cached object (enqueue, coalesceEvents,   *)
(* drain, processEvents).                                                  *)
THEOREM CoalescedStreamLeads == Spec => []StreamLeadsToCache
<1>1. Init => InformerInv /\ StreamOK
  <2>1. ASSUME Init PROVE StreamOK
    <3>1. handlers = <<>> BY <2>1, Zenon DEF Init
    <3>2. Registered = {} BY <3>1 DEF Registered
    <3> QED BY <3>2, Zenon DEF StreamOK
  <2> QED BY <2>1, InformerInit, Zenon
<1>2. InformerInv /\ StreamOK /\ [Next]_vars => (InformerInv /\ StreamOK)'
  BY InformerNext, StreamNext, Zenon
<1>3. InformerInv /\ StreamOK => StreamLeadsToCache
  <2>1. ASSUME InformerInv, StreamOK, NEW h \in Registered, added[h] = "early", ~queue.closed,
               NEW key \in Keys \ readded
        PROVE  /\ \A n \in DOMAIN Stream(h, key) : Stream(h, key)[n].obj.key = key =>
                     Fits(Reached(view[h][key], Stream(h, key), key)[n - 1], Stream(h, key)[n])
               /\ Reached(view[h][key], Stream(h, key), key)[Len(Stream(h, key))] = cached[key]
    <3>1. h \in Handlers
      <4>1. handlers \in Seq(Handlers) BY <2>1, Zenon DEF InformerInv, TypeOK
      <4>2. \A n \in DOMAIN handlers : handlers[n] \in Handlers BY <4>1, ElementOfSeq, LenProperties, Zenon
      <4> QED BY <4>2, Zenon DEF Registered
    <3>2. Stream(h, key) \in Seq(cacheEvent)
      <4> DEFINE a == Rest(h)
                 b == queue.pending[key]
                 c == OutOf(key)
      <4>1. a \in Seq(cacheEvent) /\ b \in Seq(cacheEvent) /\ c \in Seq(cacheEvent)
        BY <2>1, <3>1, ThreadTypes, Zenon
      <4>2. Stream(h, key) = a \o b \o c BY Zenon DEF Stream, OutOf
      <4> HIDE DEF a, b, c
      <4>3. (a \o b) \in Seq(cacheEvent) BY <4>1, ConcatProperties, Zenon
      <4> QED BY <4>1, <4>2, <4>3, ConcatProperties, Zenon
    <3>3. Path(view[h][key], Stream(h, key), key, cached[key])
      BY <2>1, Zenon DEF StreamOK, Follows
    <3> QED BY <3>2, <3>3, PathIsReached, Zenon
  <2> QED BY <2>1, Zenon DEF StreamLeadsToCache, Reached, AtStep
<1> QED BY <1>1, <1>2, <1>3, PTL DEF Spec
=============================================================================
