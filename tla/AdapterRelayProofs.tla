------------------------- MODULE AdapterRelayProofs -------------------------
(***************************************************************************)
(* The watch adapters of listerwatcher.go, first half: what is between the *)
(* store and the consumer, and the steps of the store's writers and of the *)
(* relay goroutine.  What the relay holds between the store's watch and    *)
(* the consumer is one sequence, the pipe; every step of either goroutine  *)
(* appends to it, takes its head or leaves it.                             *)
(***************************************************************************)
EXTENDS WatchAdapter, MemoryStoreProofs

viewMap == [Keys -> Object \cup {NoObject}]

adapterEvent == [type : {"ADDED", "MODIFIED", "DELETED", "BOOKMARK"},
                 obj : Object \cup {NoObject}, rv : Nat]

adapterList == [items : SUBSET Object, rv : Nat]

(* What the store held at a revision, and the events a watch from there is *)
(* due, as functions of the history h.                                     *)
At(h, key, rv) == StateIn(h, AdapterKind, key, rv)

DueIn(h, from) == {i \in DOMAIN h : i > from /\ h[i].gvk = AdapterKind}

Selected(sel, obj) == obj # NoObject /\ Matches(sel, obj)

ShowsIn(v, sel, h, rv) ==
    \A key \in Keys :
        IF Selected(sel, At(h, key, rv)) THEN v[key] = At(h, key, rv)
        ELSE sel = {} => v[key] = NoObject

(* The items of a list.                                                    *)
ItemsAt(h, sel, rv) == {obj \in {At(h, key, rv) : key \in Keys} : Selected(sel, obj)}

(* An event of the store's watch, as the relay passes it on.               *)
Live(h, sel, base, e) ==
    \E i \in DueIn(h, base) :
        e = watchEvent(h[i].event.type, h[i].event.obj, i) /\ Matches(sel, h[i].event.obj)

(* After position b the pipe p holds what matches of the events after      *)
(* `base' up to `cur', where the relay is in the store's watch.            *)
Piped(h, sel, base, p, b, cur) ==
    /\ \A n \in DOMAIN p : n > b => Live(h, sel, base, p[n]) /\ p[n].rv <= cur
    /\ \A m, n \in DOMAIN p : b < m /\ m < n => p[m].rv < p[n].rv
    /\ \A i \in DueIn(h, base) :
          i <= cur /\ Matches(sel, h[i].event.obj) => \E n \in DOMAIN p : n > b /\ p[n].rv = i

(* Before position b it holds items of the list at revision rv; what it    *)
(* lacks of them is in the view or still to be sent.                       *)
Filled(h, sel, rv, v, items, p, b) ==
    /\ items \subseteq ItemsAt(h, sel, rv)
    /\ \A n \in DOMAIN p : n < b => /\ p[n].obj \in ItemsAt(h, sel, rv)
                                    /\ p[n].type = "ADDED" /\ p[n].rv = p[n].obj.rv
    /\ \A key \in Keys :
          IF Selected(sel, At(h, key, rv))
          THEN \/ v[key] = At(h, key, rv)
               \/ /\ v[key] = NoObject
                  /\ \/ At(h, key, rv) \in items
                     \/ \E n \in DOMAIN p : n < b /\ p[n].obj = At(h, key, rv)
          ELSE v[key] = NoObject

(* Until the consumer has the bookmark, that is at position b, or is still *)
(* to be sent after the last of the items.                                 *)
Preloads(h, sel, list, v, p, b, pc) ==
    /\ b \in 1..(Len(p) + 1)
    /\ IF b = Len(p) + 1 THEN pc = "items"
       ELSE /\ pc # "items" /\ list.items = {}
            /\ p[b].type = "BOOKMARK" /\ p[b].rv = list.rv
    /\ Filled(h, sel, list.rv, v, list.items, p, b)

Base == IF synced THEN position ELSE initial.rv

Pipe == out \o inHand

Subscribed(v, sel, base) ==
    v.stage = "open" /\ v.gvk = AdapterKind /\ v.sel = sel /\ base <= v.cursor

Following(b) ==
    /\ ~stopCh
    /\ out \in Seq(adapterEvent) /\ inHand \in Seq(adapterEvent)
    /\ IF relayPC = "send" THEN Len(inHand) = 1 ELSE inHand = <<>>
    /\ Subscribed(watch[Watcher], selector, Base)
    /\ Piped(history, selector, Base, Pipe, b, watch[Watcher].cursor)
    /\ IF synced THEN b = 0 /\ relayPC # "items"
       ELSE /\ initial.rv \in 0..revision
            /\ Preloads(history, selector, initial, view, Pipe, b, relayPC)

AdapterOK ==
    /\ selector \in SUBSET Labels /\ position \in 0..revision /\ view \in viewMap
    /\ initial \in adapterList
    /\ synced => ShowsIn(view, selector, history, position)
    /\ reflector = "listed" => /\ ~synced /\ relayPC = "done" /\ initial.rv \in 0..revision
                               /\ initial.items = ItemsAt(history, selector, initial.rv)
    /\ reflector = "following" => \E b \in 0..(Len(Pipe) + 1) : Following(b)

AdapterInv == BackendInv /\ AdapterOK
-----------------------------------------------------------------------------
(* The history of a sound store numbers its entries by revision.           *)
LEMMA DueIsDueIn ==
    ASSUME StoreInv, NEW from
    PROVE  Due(AdapterKind, from) = DueIn(history, from)
  BY HistoryFacts, Zenon DEF Due, DueIn

(* The view shows the store at a revision in the sense of the invariant.   *)
LEMMA ShowsIsShowsIn ==
    ASSUME NEW rv
    PROVE  Shows(rv) <=> ShowsIn(view, selector, history, rv)
<1>1. \A key : StateAt(AdapterKind, key, rv) = At(history, key, rv)
  BY StateAtIsStateIn, Zenon DEF At
<1>2. Shows(rv) <=> \A key \in Keys :
                       LET obj == At(history, key, rv)
                       IN  IF obj # NoObject /\ Matches(selector, obj) THEN view[key] = obj
                           ELSE selector = {} => view[key] = NoObject
  BY <1>1 DEF Shows
<1> QED
  BY <1>2, Zenon DEF ShowsIn, Selected

(* What was in the store at a revision is an object under its key, and an  *)
(* item of the list if the selector matches it.                            *)
LEMMA AtFacts ==
    ASSUME StoreInv, NEW key \in Keys, NEW rv \in 0..revision
    PROVE  At(history, key, rv) # NoObject =>
              /\ At(history, key, rv) \in Object /\ At(history, key, rv).key = key
              /\ At(history, key, rv).rv \in Nat /\ At(history, key, rv).rv <= rv
  BY StateType, Zenon DEF At

(* Items of a list are objects, under different keys.                      *)
LEMMA ItemFacts ==
    ASSUME StoreInv, NEW sel, NEW rv \in 0..revision, NEW obj \in ItemsAt(history, sel, rv)
    PROVE  /\ obj \in Object /\ obj.key \in Keys /\ obj = At(history, obj.key, rv)
           /\ Selected(sel, obj) /\ obj.rv \in Nat /\ obj.rv <= rv
<1>1. PICK key \in Keys : obj = At(history, key, rv) /\ Selected(sel, obj)
  BY Zenon DEF ItemsAt
<1>2. obj # NoObject
  BY <1>1, Zenon DEF Selected
<1>3. obj \in Object /\ obj.key = key /\ obj.rv \in Nat /\ obj.rv <= rv
  BY <1>1, <1>2, AtFacts, Zenon
<1> QED
  BY <1>1, <1>3, Zenon

(* A list shows the store at its revision.                                 *)
LEMMA ListShows ==
    ASSUME StoreInv, NEW sel
    PROVE  /\ List(AdapterKind, sel).rv = revision
           /\ List(AdapterKind, sel).items = ItemsAt(history, sel, revision)
<1>1. \A key \in Keys : At(history, key, revision) = objects[AdapterKind][key]
  BY StateNow, AdapterAssumption, Zenon DEF At
<1>2. {At(history, key, revision) : key \in Keys} = {objects[AdapterKind][key] : key \in Keys}
  BY <1>1, Zenon
<1>3. ItemsAt(history, sel, revision)
        = {obj \in {objects[AdapterKind][key] : key \in Keys} \ {NoObject} : Matches(sel, obj)}
  BY <1>2, Zenon DEF ItemsAt, Selected
<1> QED
  BY <1>3, Zenon DEF List

(* The next event that matches takes the view to its revision: what was    *)
(* changed in between no longer matches.                                   *)
LEMMA ShowsNext ==
    ASSUME StoreInv, NEW sel, NEW from \in 0..revision, NEW v \in viewMap,
           ShowsIn(v, sel, history, from), NEW i \in DueIn(history, from),
           \A j \in DueIn(history, from) : j < i => ~Matches(sel, history[j].event.obj),
           NEW u, u = [v EXCEPT ![history[i].event.obj.key] = Outcome(history[i].event)],
           Matches(sel, history[i].event.obj)
    PROVE  ShowsIn(u, sel, history, i)
<1>1. /\ revision \in Nat /\ DOMAIN history = 1..revision /\ DOMAIN history \subseteq Nat
      /\ i \in 1..revision /\ from \in Nat /\ from < i /\ history[i].gvk = AdapterKind
      /\ history[i].event.obj \in Object
  BY HistoryFacts DEF DueIn
<1>2. history[i].event.obj # NoObject
  BY <1>1, NoObjectAssumption, Zenon DEF Object
<1> SUFFICES ASSUME NEW key \in Keys
             PROVE  IF Selected(sel, At(history, key, i)) THEN u[key] = At(history, key, i)
                    ELSE sel = {} => u[key] = NoObject
  BY Zenon DEF ShowsIn
<1>3. CASE key = history[i].event.obj.key
  <2>1. i \in WritesTo(history, AdapterKind, key, i)
    BY <1>1, <1>3 DEF WritesTo, WritesIn
  <2>2. \A q \in WritesTo(history, AdapterKind, key, i) : q <= i
    BY Zenon DEF WritesTo
  <2>3. At(history, key, i) = Outcome(history[i].event)
    BY <1>1, <2>1, <2>2, StateLast, Zenon DEF At
  <2>4. u[key] = Outcome(history[i].event)
    BY <1>3, Zenon DEF viewMap
  <2> QED
    BY <1>2, <2>3, <2>4, Zenon DEF Selected, Outcome
<1>4. CASE key # history[i].event.obj.key
  <2>1. u[key] = v[key]
    BY <1>4, Zenon DEF viewMap
  <2>2. CASE At(history, key, i) = At(history, key, from)
    BY <2>1, <2>2, Zenon DEF ShowsIn
  <2>3. CASE \E j \in DueIn(history, from) : j < i /\ At(history, key, i) = Outcome(history[j].event)
    <3>1. PICK j \in DueIn(history, from) : j < i /\ At(history, key, i) = Outcome(history[j].event)
      BY <2>3, Zenon
    <3>2. ~Matches(sel, history[j].event.obj)
      BY <3>1, Zenon
    <3>3. ~Selected(sel, At(history, key, i))
      BY <3>1, <3>2, Zenon DEF Selected, Outcome
    <3>4. sel # {}
      BY <3>2, Zenon DEF Matches
    <3> QED
      BY <3>3, <3>4, Zenon
  <2>4. \/ At(history, key, i) = At(history, key, from)
        \/ \E j \in DueIn(history, from) : j < i /\ At(history, key, i) = Outcome(history[j].event)
    <3>1. \A r \in WritesTo(history, AdapterKind, key, i) :
            /\ r \in DOMAIN history /\ r \in Nat /\ r < i
            /\ r > from => r \in DueIn(history, from)
            /\ r <= from => r \in WritesTo(history, AdapterKind, key, from)
      BY <1>1, <1>4 DEF WritesTo, WritesIn, DueIn
    <3>2. \A r \in WritesTo(history, AdapterKind, key, from) : r \in WritesTo(history, AdapterKind, key, i)
      BY <1>1 DEF WritesTo, WritesIn
    <3>3. CASE WritesTo(history, AdapterKind, key, i) = {} /\ At(history, key, i) = NoObject
      <4>1. WritesTo(history, AdapterKind, key, from) = {}
        BY <3>2, <3>3, Zenon
      <4> QED
        BY <3>3, <4>1, Zenon DEF At, StateIn
    <3>4. ASSUME NEW last \in WritesTo(history, AdapterKind, key, i),
                 \A q \in WritesTo(history, AdapterKind, key, i) : q <= last,
                 At(history, key, i) = Outcome(history[last].event)
          PROVE  \/ At(history, key, i) = At(history, key, from)
                 \/ \E j \in DueIn(history, from) :
                       j < i /\ At(history, key, i) = Outcome(history[j].event)
      <4>1. CASE last > from
        BY <3>1, <3>4, <4>1, Zenon
      <4>2. CASE last <= from
        <5>1. last \in WritesTo(history, AdapterKind, key, from)
          BY <3>1, <4>2, Zenon
        <5>2. At(history, key, from) = Outcome(history[last].event)
          BY <1>1, <3>2, <3>4, <5>1, StateLast DEF At
        <5> QED
          BY <3>4, <5>2, Zenon
      <4> QED
        BY <1>1, <3>1, <4>1, <4>2, SMTT(20)
    <3>5. i \in Nat
      BY <1>1, Zenon
    <3> QED
      BY <1>1, <3>3, <3>4, <3>5, StateCases, Zenon DEF At
  <2> QED
    BY <2>2, <2>3, <2>4, Zenon
<1> QED
  BY <1>3, <1>4, Zenon
-----------------------------------------------------------------------------
(* The parts of a sequence, by position.                                   *)
LEMMA SeqParts ==
    ASSUME NEW S, NEW p \in Seq(S)
    PROVE  /\ Len(p) \in Nat /\ DOMAIN p = 1..Len(p)
           /\ \A n \in DOMAIN p : p[n] \in S
           /\ p # <<>> => /\ 1 \in DOMAIN p /\ Tail(p) \in Seq(S) /\ Len(Tail(p)) = Len(p) - 1
                          /\ DOMAIN Tail(p) = 1..(Len(p) - 1)
                          /\ \A n \in 1..(Len(p) - 1) : Tail(p)[n] = p[n + 1] /\ n + 1 \in DOMAIN p
           /\ \A e \in S : /\ Append(p, e) \in Seq(S) /\ Len(Append(p, e)) = Len(p) + 1
                           /\ DOMAIN Append(p, e) = 1..(Len(p) + 1)
                           /\ \A n \in DOMAIN p : Append(p, e)[n] = p[n]
                           /\ Append(p, e)[Len(p) + 1] = e
  OBVIOUS

(* Taking the head of the pipe: an item or the bookmark.                   *)
LEMMA PipedTail ==
    ASSUME NEW h, NEW sel, NEW base, NEW p \in Seq(adapterEvent), NEW b \in Nat \ {0}, NEW cur,
           Piped(h, sel, base, p, b, cur), p # <<>>
    PROVE  Piped(h, sel, base, Tail(p), b - 1, cur)
<1> DEFINE t == Tail(p)
<1>1. /\ Len(p) \in Nat /\ DOMAIN p = 1..Len(p) /\ DOMAIN t = 1..(Len(p) - 1)
      /\ \A n \in DOMAIN t : t[n] = p[n + 1] /\ n + 1 \in DOMAIN p
  BY SeqParts, Zenon
<1> SUFFICES Piped(h, sel, base, t, b - 1, cur)
  BY Zenon
<1> HIDE DEF t
<1>2. \A n \in DOMAIN t : n > b - 1 => n + 1 > b
  BY <1>1
<1>3. \A n \in DOMAIN t : n > b - 1 => Live(h, sel, base, t[n]) /\ t[n].rv <= cur
  BY <1>1, <1>2, Zenon DEF Piped
<1>4. \A m, n \in DOMAIN t : b - 1 < m /\ m < n => t[m].rv < t[n].rv
  <2>1. \A m, n \in DOMAIN t : b - 1 < m /\ m < n => b < m + 1 /\ m + 1 < n + 1
    BY <1>1
  <2> QED
    BY <1>1, <2>1, Zenon DEF Piped
<1>5. ASSUME NEW i \in DueIn(h, base), i <= cur, Matches(sel, h[i].event.obj)
      PROVE  \E n \in DOMAIN t : n > b - 1 /\ t[n].rv = i
  <2>1. PICK m \in DOMAIN p : m > b /\ p[m].rv = i
    BY <1>5, Zenon DEF Piped
  <2>2. m - 1 \in DOMAIN t /\ m - 1 > b - 1 /\ (m - 1) + 1 = m
    BY <1>1, <2>1
  <2> QED
    BY <1>1, <2>1, <2>2, Zenon
<1> QED
  BY <1>3, <1>4, <1>5, Zenon DEF Piped

(* Taking a live event: it is the next that matches, and what follows is   *)
(* due from there.                                                         *)
LEMMA PipedNext ==
    ASSUME NEW h, DOMAIN h \subseteq Nat, NEW sel, NEW base \in Nat, NEW p \in Seq(adapterEvent),
           NEW cur \in Nat, Piped(h, sel, base, p, 0, cur), p # <<>>
    PROVE  /\ p[1].rv \in Nat /\ p[1].rv > base /\ p[1].rv <= cur
           /\ \E i \in DueIn(h, base) :
                 /\ p[1] = watchEvent(h[i].event.type, h[i].event.obj, i)
                 /\ Matches(sel, h[i].event.obj)
                 /\ \A j \in DueIn(h, base) : j < i => ~Matches(sel, h[j].event.obj)
           /\ Piped(h, sel, p[1].rv, Tail(p), 0, cur)
<1> DEFINE t == Tail(p)
<1>1. /\ Len(p) \in Nat /\ DOMAIN p = 1..Len(p) /\ DOMAIN t = 1..(Len(p) - 1) /\ 1 \in DOMAIN p
      /\ \A n \in DOMAIN t : t[n] = p[n + 1] /\ n + 1 \in DOMAIN p
  BY SeqParts, Zenon
<1> HIDE DEF t
<1>2. PICK i \in DueIn(h, base) :
        p[1] = watchEvent(h[i].event.type, h[i].event.obj, i) /\ Matches(sel, h[i].event.obj)
  BY <1>1 DEF Piped, Live
<1>3. p[1].rv = i /\ i \in Nat /\ i > base /\ i <= cur
  BY <1>1, <1>2 DEF watchEvent, DueIn, Piped
<1>4. \A n \in DOMAIN p : n # 1 => p[n].rv > i
  BY <1>1, <1>3 DEF Piped
<1>5. \A n \in DOMAIN p : p[n].rv \in Nat
  BY <1>1 DEF Piped, Live, watchEvent, DueIn
<1>6. ASSUME NEW j \in DueIn(h, base), j < i PROVE ~Matches(sel, h[j].event.obj)
  <2> SUFFICES ASSUME Matches(sel, h[j].event.obj) PROVE FALSE
    BY Zenon
  <2>1. j \in Nat /\ j <= cur
    BY <1>3, <1>6 DEF DueIn
  <2>2. PICK n \in DOMAIN p : p[n].rv = j
    BY <2>1, Zenon DEF Piped
  <2> QED
    BY <1>3, <1>4, <1>5, <1>6, <2>1, <2>2, SMTT(20)
<1>7. Piped(h, sel, i, t, 0, cur)
  <2>1. \A n \in DOMAIN t : t[n] = p[n + 1] /\ n + 1 \in DOMAIN p /\ n + 1 # 1 /\ n > 0
    BY <1>1
  <2>2. \A n \in DOMAIN p : n # 1 => Live(h, sel, i, p[n]) /\ p[n].rv <= cur
    <3> SUFFICES ASSUME NEW n \in DOMAIN p, n # 1 PROVE Live(h, sel, i, p[n]) /\ p[n].rv <= cur
      BY Zenon
    <3>1. n > 0
      BY <1>1
    <3>2. PICK k \in DueIn(h, base) :
            p[n] = watchEvent(h[k].event.type, h[k].event.obj, k) /\ Matches(sel, h[k].event.obj)
      BY <3>1, Zenon DEF Piped, Live
    <3>3. p[n].rv = k
      BY <3>2 DEF watchEvent
    <3>4. k \in DueIn(h, i)
      BY <1>4, <3>3, Zenon DEF DueIn
    <3> QED
      BY <3>1, <3>2, <3>4, Zenon DEF Live, Piped
  <2>3. \A m, n \in DOMAIN t : 0 < m /\ m < n => t[m].rv < t[n].rv
    <3>1. \A m, n \in DOMAIN t : 0 < m /\ m < n => 0 < m + 1 /\ m + 1 < n + 1
      BY <1>1
    <3> QED
      BY <2>1, <3>1, Zenon DEF Piped
  <2>4. ASSUME NEW k \in DueIn(h, i), k <= cur, Matches(sel, h[k].event.obj)
        PROVE  \E n \in DOMAIN t : n > 0 /\ t[n].rv = k
    <3>1. k \in DueIn(h, base) /\ k > i /\ k \in Nat
      BY <1>3 DEF DueIn
    <3>2. PICK m \in DOMAIN p : m > 0 /\ p[m].rv = k
      BY <2>4, <3>1, Zenon DEF Piped
    <3>3. m # 1
      BY <1>3, <3>1, <3>2, SMTT(20)
    <3>4. m - 1 \in DOMAIN t /\ (m - 1) + 1 = m
      BY <1>1, <3>3
    <3> QED
      BY <2>1, <3>2, <3>4, Zenon
  <2> QED
    BY <2>1, <2>2, <2>3, <2>4, Zenon DEF Piped
<1> QED
  BY <1>2, <1>3, <1>6, <1>7, Zenon DEF t

(* The relay takes the next event that matches into the pipe.              *)
LEMMA PipedAppend ==
    ASSUME NEW h, DOMAIN h \subseteq Nat, NEW sel, NEW base \in Nat, NEW p \in Seq(adapterEvent),
           NEW b \in Nat, b <= Len(p), NEW cur \in Nat, Piped(h, sel, base, p, b, cur),
           NEW i \in DueIn(h, cur), base <= cur, Matches(sel, h[i].event.obj),
           \A j \in DueIn(h, cur) : j < i => ~Matches(sel, h[j].event.obj),
           NEW e \in adapterEvent, e = watchEvent(h[i].event.type, h[i].event.obj, i)
    PROVE  Piped(h, sel, base, Append(p, e), b, i)
<1> DEFINE q == Append(p, e)
           N == Len(p) + 1
<1>1. /\ Len(p) \in Nat /\ DOMAIN p = 1..Len(p) /\ DOMAIN q = 1..N
      /\ \A n \in DOMAIN p : q[n] = p[n]
      /\ q[N] = e
  BY SeqParts
<1>2. \A n \in DOMAIN q : n \in DOMAIN p \/ n = N
  BY <1>1
<1>3. i \in Nat /\ i > cur /\ i > base /\ e.rv = i /\ b < N
  BY <1>1 DEF DueIn, watchEvent
<1> SUFFICES Piped(h, sel, base, q, b, i)
  BY Zenon
<1> HIDE DEF q, N
<1>4. \A n \in DOMAIN p : n > b => Live(h, sel, base, p[n]) /\ p[n].rv <= cur /\ p[n].rv \in Nat
  BY DEF Piped, Live, watchEvent, DueIn
<1>5. Live(h, sel, base, e)
  <2>1. i \in DueIn(h, base)
    BY <1>3, Zenon DEF DueIn
  <2> QED
    BY <2>1, Zenon DEF Live
<1>6. \A n \in DOMAIN q : n > b => Live(h, sel, base, q[n]) /\ q[n].rv <= i
  BY <1>1, <1>2, <1>3, <1>4, <1>5, SMTT(20)
<1>7. \A m, n \in DOMAIN q : b < m /\ m < n => q[m].rv < q[n].rv
  <2> SUFFICES ASSUME NEW m \in DOMAIN q, NEW n \in DOMAIN q, b < m, m < n PROVE q[m].rv < q[n].rv
    BY Zenon
  <2>1. m \in DOMAIN p
    BY <1>1 DEF N
  <2>2. CASE n \in DOMAIN p
    BY <1>1, <2>1, <2>2, Zenon DEF Piped
  <2>3. CASE n = N
    BY <1>1, <1>3, <1>4, <2>1, <2>3, SMTT(20)
  <2> QED
    BY <1>2, <2>2, <2>3, Zenon
<1>8. ASSUME NEW k \in DueIn(h, base), k <= i, Matches(sel, h[k].event.obj)
      PROVE  \E n \in DOMAIN q : n > b /\ q[n].rv = k
  <2>1. k \in Nat
    BY Zenon DEF DueIn
  <2>2. CASE k <= cur
    <3>1. PICK n \in DOMAIN p : n > b /\ p[n].rv = k
      BY <1>8, <2>2, Zenon DEF Piped
    <3>2. n \in DOMAIN q /\ q[n] = p[n]
      BY <1>1 DEF N
    <3> QED
      BY <3>1, <3>2, Zenon
  <2>3. CASE ~(k <= cur)
    <3>1. k \in DueIn(h, cur)
      BY <2>1, <2>3 DEF DueIn
    <3>2. k = i
      BY <1>3, <1>8, <2>1, <3>1, SMTT(20)
    <3>3. N \in DOMAIN q
      BY <1>1 DEF N
    <3> QED
      BY <1>1, <1>3, <3>2, <3>3, Zenon
  <2> QED
    BY <2>2, <2>3, Zenon
<1> QED
  BY <1>6, <1>7, <1>8, Zenon DEF Piped

(* It drops one that does not match.                                       *)
LEMMA PipedSkip ==
    ASSUME NEW h, DOMAIN h \subseteq Nat, NEW sel, NEW base, NEW p \in Seq(adapterEvent), NEW b,
           NEW cur \in Nat, Piped(h, sel, base, p, b, cur), NEW i \in DueIn(h, cur),
           \A j \in DueIn(h, cur) : j <= i => ~Matches(sel, h[j].event.obj)
    PROVE  Piped(h, sel, base, p, b, i)
<1>1. i \in Nat /\ i > cur
  BY Zenon DEF DueIn
<1>2. \A n \in DOMAIN p : n > b => Live(h, sel, base, p[n]) /\ p[n].rv <= i
  <2>1. \A n \in DOMAIN p : n > b => Live(h, sel, base, p[n]) /\ p[n].rv <= cur /\ p[n].rv \in Nat
    BY DEF Piped, Live, watchEvent, DueIn
  <2> QED
    BY <1>1, <2>1
<1>3. \A k \in DueIn(h, base) : k <= i /\ Matches(sel, h[k].event.obj) => k <= cur
  <2>1. \A k \in DueIn(h, base) : ~(k <= cur) => k \in DueIn(h, cur)
    BY DEF DueIn
  <2> QED
    BY <2>1, Zenon
<1> QED
  BY <1>2, <1>3, Zenon DEF Piped

(* Items and the bookmark go before the live events.                       *)
LEMMA PipedPreload ==
    ASSUME NEW h, NEW sel, NEW base, NEW p \in Seq(adapterEvent), NEW cur,
           Piped(h, sel, base, p, Len(p) + 1, cur), NEW e \in adapterEvent, NEW b \in {Len(p) + 1, Len(p) + 2}
    PROVE  Piped(h, sel, base, Append(p, e), b, cur)
<1> DEFINE q == Append(p, e)
<1>1. /\ Len(p) \in Nat /\ DOMAIN p = 1..Len(p) /\ DOMAIN q = 1..(Len(p) + 1)
  BY SeqParts
<1> SUFFICES Piped(h, sel, base, q, b, cur)
  BY Zenon
<1> HIDE DEF q
<1>2. \A n \in DOMAIN q : ~(n > b)
  BY <1>1
<1>3. \A n \in DOMAIN p : ~(n > Len(p) + 1)
  BY <1>1
<1>4. \A m, n \in DOMAIN q : ~(b < m /\ m < n)
  BY <1>1
<1> QED
  BY <1>2, <1>3, <1>4, Zenon DEF Piped

(* An empty pipe holds what is due from where the watch starts.            *)
LEMMA PipedEmpty ==
    ASSUME NEW h, DOMAIN h \subseteq Nat, NEW sel, NEW base \in Nat, NEW b
    PROVE  Piped(h, sel, base, <<>>, b, base)
<1>1. \A i \in DueIn(h, base) : ~(i <= base)
  BY DEF DueIn
<1>2. \A n \in DOMAIN <<>> : FALSE
  OBVIOUS
<1> QED
  BY <1>1, <1>2, Zenon DEF Piped

(* A longer history adds events the relay has not reached.                 *)
LEMMA PipedGrows ==
    ASSUME NEW r \in Nat, NEW h, DOMAIN h = 1..r, NEW g, DOMAIN g = 1..(r + 1),
           \A i \in 1..r : g[i] = h[i], NEW sel, NEW base, NEW p, NEW b, NEW cur \in Nat, cur <= r,
           Piped(h, sel, base, p, b, cur)
    PROVE  Piped(g, sel, base, p, b, cur)
<1>1. \A i \in DueIn(h, base) : i \in DueIn(g, base) /\ g[i] = h[i]
  BY DEF DueIn
<1>2. \A i \in DueIn(g, base) : i <= cur => i \in DueIn(h, base) /\ g[i] = h[i]
  BY DEF DueIn
<1>3. \A e : Live(h, sel, base, e) => Live(g, sel, base, e)
  <2> SUFFICES ASSUME NEW e, Live(h, sel, base, e) PROVE Live(g, sel, base, e)
    BY Zenon
  <2>1. PICK i \in DueIn(h, base) :
          e = watchEvent(h[i].event.type, h[i].event.obj, i) /\ Matches(sel, h[i].event.obj)
    BY Zenon DEF Live
  <2>2. i \in DueIn(g, base) /\ g[i] = h[i]
    BY <1>1, Zenon
  <2> QED
    BY <2>1, <2>2, Zenon DEF Live
<1> QED
  BY <1>2, <1>3, Zenon DEF Piped

(* Sending an item of the list.                                            *)
LEMMA PreloadItem ==
    ASSUME NEW h, NEW sel, NEW list, NEW v, NEW p \in Seq(adapterEvent), NEW b,
           Preloads(h, sel, list, v, p, b, "items"), NEW obj \in list.items,
           NEW rest, rest.items = list.items \ {obj}, rest.rv = list.rv,
           NEW e \in adapterEvent, e = watchEvent("ADDED", obj, obj.rv)
    PROVE  b = Len(p) + 1 /\ Preloads(h, sel, rest, v, Append(p, e), b + 1, "items")
<1> DEFINE q == Append(p, e)
           N == Len(p) + 1
<1>1. /\ Len(p) \in Nat /\ DOMAIN p = 1..Len(p) /\ DOMAIN q = 1..N /\ Len(q) = N
      /\ \A n \in DOMAIN p : q[n] = p[n]
      /\ q[N] = e
  BY SeqParts
<1>2. b = N /\ Filled(h, sel, list.rv, v, list.items, p, b)
  BY Zenon DEF Preloads
<1>3. e.obj = obj /\ e.type = "ADDED" /\ e.rv = obj.rv
  BY Zenon DEF watchEvent
<1> HIDE DEF q
<1>4. \A n \in DOMAIN p : n \in DOMAIN q /\ q[n] = p[n] /\ n < b /\ n < b + 1
  BY <1>1, <1>2
<1>5. \A n \in DOMAIN q : n \in DOMAIN p \/ n = N
  BY <1>1
<1>6. N \in DOMAIN q /\ N < b + 1
  BY <1>1, <1>2
<1> HIDE DEF N
<1>7. \A n \in DOMAIN q : n < b + 1 => /\ q[n].obj \in ItemsAt(h, sel, list.rv)
                                       /\ q[n].type = "ADDED" /\ q[n].rv = q[n].obj.rv
  BY <1>1, <1>2, <1>3, <1>4, <1>5, Zenon DEF Filled
<1>8. \A key \in Keys :
        IF Selected(sel, At(h, key, list.rv))
        THEN \/ v[key] = At(h, key, list.rv)
             \/ /\ v[key] = NoObject
                /\ \/ At(h, key, list.rv) \in rest.items
                   \/ \E n \in DOMAIN q : n < b + 1 /\ q[n].obj = At(h, key, list.rv)
        ELSE v[key] = NoObject
  BY <1>1, <1>2, <1>3, <1>4, <1>6, Zenon DEF Filled
<1>9. Filled(h, sel, rest.rv, v, rest.items, q, b + 1)
  BY <1>2, <1>7, <1>8, Zenon DEF Filled
<1>10. b + 1 \in 1..(Len(q) + 1) /\ b + 1 = Len(q) + 1
  BY <1>1, <1>2 DEF N
<1> QED
  BY <1>2, <1>9, <1>10, Zenon DEF Preloads, q, N

(* Sending what comes after the items: the bookmark, or a live event.      *)
LEMMA PreloadAppend ==
    ASSUME NEW h, NEW sel, NEW list, NEW v, NEW p \in Seq(adapterEvent), NEW b \in Nat, NEW pc,
           Preloads(h, sel, list, v, p, b, pc), NEW e \in adapterEvent, NEW next, next # "items",
           \/ b <= Len(p)
           \/ list.items = {} /\ e.type = "BOOKMARK" /\ e.rv = list.rv
    PROVE  Preloads(h, sel, list, v, Append(p, e), b, next)
<1> DEFINE q == Append(p, e)
           N == Len(p) + 1
<1>1. /\ Len(p) \in Nat /\ DOMAIN p = 1..Len(p) /\ DOMAIN q = 1..N /\ Len(q) = N
      /\ \A n \in DOMAIN p : q[n] = p[n]
      /\ q[N] = e
  BY SeqParts
<1>2. b \in 1..N /\ Filled(h, sel, list.rv, v, list.items, p, b)
  BY Zenon DEF Preloads
<1> HIDE DEF q
<1>3. b \in 1..(Len(q) + 1) /\ b # Len(q) + 1
  BY <1>1, <1>2
<1>4. list.items = {} /\ q[b].type = "BOOKMARK" /\ q[b].rv = list.rv
  <2>1. CASE b <= Len(p)
    <3>1. b \in DOMAIN p /\ b # Len(p) + 1
      BY <1>1, <1>2, <2>1
    <3> QED
      BY <1>1, <3>1, Zenon DEF Preloads
  <2>2. CASE ~(b <= Len(p))
    <3>1. b = N
      BY <1>1, <1>2, <2>2, SMTT(20)
    <3> QED
      BY <1>1, <2>2, <3>1, Zenon
  <2> QED
    BY <2>1, <2>2, Zenon
<1>5. \A n : n \in DOMAIN p /\ n < b <=> n \in DOMAIN q /\ n < b
  BY <1>1, <1>2, SMTT(20)
<1>6. Filled(h, sel, list.rv, v, list.items, q, b)
  BY <1>1, <1>2, <1>5 DEF Filled
<1>7. Preloads(h, sel, list, v, q, b, next)
  BY <1>3, <1>4, <1>6, Zenon DEF Preloads
<1> QED
  BY <1>7, Zenon DEF q

(* Another relay state after the bookmark.                                 *)
LEMMA PreloadMoves ==
    ASSUME NEW h, NEW sel, NEW list, NEW v, NEW p, NEW b, NEW pc, pc # "items",
           Preloads(h, sel, list, v, p, b, pc), NEW next, next # "items"
    PROVE  Preloads(h, sel, list, v, p, b, next)
  BY Zenon DEF Preloads

(* The consumer takes an item into its view.                               *)
LEMMA PreloadTake ==
    ASSUME StoreInv, NEW sel, NEW list, list.rv \in 0..revision, NEW v \in viewMap,
           NEW p \in Seq(adapterEvent), p # <<>>, NEW b \in Nat, b # 1, NEW pc,
           Preloads(history, sel, list, v, p, b, pc)
    PROVE  /\ p[1].type = "ADDED" /\ p[1].obj.key \in Keys /\ p[1].obj \in Object
           /\ Preloads(history, sel, list, [v EXCEPT ![p[1].obj.key] = p[1].obj], Tail(p), b - 1, pc)
<1> DEFINE t == Tail(p)
           obj == p[1].obj
           u == [v EXCEPT ![obj.key] = obj]
<1>1. /\ Len(p) \in Nat /\ DOMAIN p = 1..Len(p) /\ 1 \in DOMAIN p
      /\ DOMAIN t = 1..(Len(p) - 1) /\ Len(t) = Len(p) - 1
      /\ \A n \in DOMAIN t : t[n] = p[n + 1] /\ n + 1 \in DOMAIN p
  BY SeqParts, Zenon
<1>2. /\ b \in 1..(Len(p) + 1) /\ 1 < b
      /\ Filled(history, sel, list.rv, v, list.items, p, b)
  BY <1>1 DEF Preloads
<1>3. /\ p[1].type = "ADDED" /\ obj \in ItemsAt(history, sel, list.rv)
  BY <1>1, <1>2, Zenon DEF Filled
<1>4. obj \in Object /\ obj.key \in Keys /\ obj = At(history, obj.key, list.rv) /\ Selected(sel, obj)
  BY <1>3, ItemFacts, Zenon
<1>5. \A key \in Keys : u[key] = IF key = obj.key THEN obj ELSE v[key]
  BY Zenon DEF viewMap
<1> SUFFICES Preloads(history, sel, list, u, t, b - 1, pc)
  BY <1>3, <1>4, Zenon
<1> HIDE DEF t, obj, u
<1>6. \A n \in DOMAIN t : n < b - 1 => n + 1 \in DOMAIN p /\ n + 1 < b /\ t[n] = p[n + 1]
  BY <1>1, <1>2
<1>7. \A m \in DOMAIN p : m < b /\ m # 1 => m - 1 \in DOMAIN t /\ m - 1 < b - 1 /\ t[m - 1] = p[m]
  BY <1>1, <1>2, SMTT(20)
<1>8. \A n \in DOMAIN t : n < b - 1 => /\ t[n].obj \in ItemsAt(history, sel, list.rv)
                                       /\ t[n].type = "ADDED" /\ t[n].rv = t[n].obj.rv
  BY <1>2, <1>6 DEF Filled
<1>9. ASSUME NEW key \in Keys
      PROVE  IF Selected(sel, At(history, key, list.rv))
             THEN \/ u[key] = At(history, key, list.rv)
                  \/ /\ u[key] = NoObject
                     /\ \/ At(history, key, list.rv) \in list.items
                        \/ \E n \in DOMAIN t : n < b - 1 /\ t[n].obj = At(history, key, list.rv)
             ELSE u[key] = NoObject
  <2>1. CASE key = obj.key
    BY <1>4, <1>5, <2>1, Zenon
  <2>2. CASE key # obj.key
    <3> DEFINE st == At(history, key, list.rv)
    <3>1. u[key] = v[key]
      BY <1>5, <2>2, Zenon
    <3>2. IF Selected(sel, st)
          THEN \/ v[key] = st
               \/ /\ v[key] = NoObject
                  /\ st \in list.items \/ \E n \in DOMAIN p : n < b /\ p[n].obj = st
          ELSE v[key] = NoObject
      BY <1>2, Zenon DEF Filled
    <3>3. Selected(sel, st) => st.key = key
      BY AtFacts, Zenon DEF Selected
    <3> HIDE DEF st
    <3>4. ASSUME Selected(sel, st), NEW m \in DOMAIN p, m < b, p[m].obj = st
          PROVE  \E n \in DOMAIN t : n < b - 1 /\ t[n].obj = st
      <4>1. m # 1
        BY <2>2, <3>3, <3>4, Zenon DEF obj
      <4> QED
        BY <1>7, <3>4, <4>1, Zenon
    <3>5. IF Selected(sel, st)
          THEN \/ u[key] = st
               \/ /\ u[key] = NoObject
                  /\ st \in list.items \/ \E n \in DOMAIN t : n < b - 1 /\ t[n].obj = st
          ELSE u[key] = NoObject
      BY <3>1, <3>2, <3>4, Zenon
    <3> QED
      BY <3>5, Zenon DEF st
  <2> QED
    BY <2>1, <2>2, Zenon
<1>10. Filled(history, sel, list.rv, u, list.items, t, b - 1)
  BY <1>2, <1>8, <1>9, Zenon DEF Filled
<1>11. /\ b - 1 \in 1..(Len(t) + 1)
       /\ b - 1 = Len(t) + 1 <=> b = Len(p) + 1
  BY <1>1, <1>2
<1>12. b # Len(p) + 1 => t[b - 1] = p[b]
  BY <1>1, <1>2
<1> QED
  BY <1>10, <1>11, <1>12, Zenon DEF Preloads

(* With the bookmark its view shows the list.                              *)
LEMMA PreloadDone ==
    ASSUME NEW h, NEW sel, NEW list, NEW v, NEW p \in Seq(adapterEvent), p # <<>>, NEW pc,
           Preloads(h, sel, list, v, p, 1, pc)
    PROVE  /\ p[1].type = "BOOKMARK" /\ p[1].rv = list.rv /\ pc # "items"
           /\ ShowsIn(v, sel, h, list.rv)
<1>1. Len(p) \in Nat /\ DOMAIN p = 1..Len(p) /\ 1 \in DOMAIN p
  BY SeqParts, Zenon
<1>2. 1 # Len(p) + 1 /\ \A n \in DOMAIN p : ~(n < 1)
  BY <1>1
<1>3. p[1].type = "BOOKMARK" /\ p[1].rv = list.rv /\ pc # "items" /\ list.items = {}
  BY <1>2, Zenon DEF Preloads
<1>4. Filled(h, sel, list.rv, v, {}, p, 1)
  BY <1>3, Zenon DEF Preloads
<1> QED
  BY <1>2, <1>3, <1>4, Zenon DEF Filled, ShowsIn

(* The pipe as its two parts change.                                       *)
LEMMA PipeParts ==
    ASSUME NEW S, NEW o \in Seq(S), NEW in \in Seq(S)
    PROVE  /\ o \o in \in Seq(S) /\ Len(o \o in) = Len(o) + Len(in)
           /\ DOMAIN (o \o in) = 1..(Len(o) + Len(in))
           /\ \A n \in 1..Len(o) : (o \o in)[n] = o[n]
           /\ \A n \in 1..Len(in) : (o \o in)[Len(o) + n] = in[n]
           /\ o \o <<>> = o
  OBVIOUS

LEMMA PipeSend ==
    ASSUME NEW S, NEW o \in Seq(S), NEW in \in Seq(S), Len(in) = 1
    PROVE  in[1] \in S /\ Append(o, in[1]) \o <<>> = o \o in
<1>1. in[1] \in S
  OBVIOUS
<1>2. Append(o, in[1]) \o <<>> = o \o <<in[1]>>
  BY <1>1
<1>3. /\ <<in[1]>> \in Seq(S) /\ Len(<<in[1]>>) = Len(in)
      /\ \A i \in 1..Len(in) : in[i] = <<in[1]>>[i]
  BY <1>1
<1>4. in = <<in[1]>>
  BY <1>3
<1> QED
  BY <1>1, <1>2, <1>4, Zenon

LEMMA PipeAppend ==
    ASSUME NEW S, NEW o \in Seq(S), NEW e \in S
    PROVE  /\ Append(o, e) \in Seq(S) /\ Append(o, e) \o <<>> = Append(o \o <<>>, e)
           /\ <<e>> \in Seq(S) /\ Len(<<e>>) = 1 /\ o \o <<e>> = Append(o \o <<>>, e)
  OBVIOUS

LEMMA PipeTail ==
    ASSUME NEW S, NEW o \in Seq(S), NEW in \in Seq(S), o # <<>>
    PROVE  /\ Tail(o) \in Seq(S) /\ o \o in \in Seq(S) /\ o \o in # <<>>
           /\ Head(o) = (o \o in)[1] /\ Tail(o) \o in = Tail(o \o in)
  BY SMTT(20)

(* What a new entry of the history leaves as it was.                       *)
LEMMA PastKept ==
    ASSUME NEW n \in Nat, NEW h, DOMAIN h = 1..n, NEW g, DOMAIN g = 1..(n + 1),
           \A i \in 1..n : g[i] = h[i], NEW rv \in 0..n
    PROVE  /\ \A key : At(g, key, rv) = At(h, key, rv)
           /\ \A sel : ItemsAt(g, sel, rv) = ItemsAt(h, sel, rv)
           /\ \A v, sel : ShowsIn(v, sel, h, rv) => ShowsIn(v, sel, g, rv)
           /\ \A sel, list, v, p, b, pc :
                 list.rv = rv /\ Preloads(h, sel, list, v, p, b, pc) => Preloads(g, sel, list, v, p, b, pc)
<1>1. DOMAIN h \subseteq DOMAIN g /\ DOMAIN g \subseteq Nat \ {0}
  OBVIOUS
<1>2. \A key : At(g, key, rv) = At(h, key, rv)
  BY <1>1, StateFrozen DEF At
<1>3. \A sel : ItemsAt(g, sel, rv) = ItemsAt(h, sel, rv)
  BY <1>2, Zenon DEF ItemsAt
<1>4. \A v, sel : ShowsIn(v, sel, h, rv) => ShowsIn(v, sel, g, rv)
  BY <1>2, Zenon DEF ShowsIn
<1>5. \A sel, v, items, p, b : Filled(h, sel, rv, v, items, p, b) => Filled(g, sel, rv, v, items, p, b)
  BY <1>2, <1>3 DEF Filled
<1>6. \A sel, list, v, p, b, pc :
         list.rv = rv /\ Preloads(h, sel, list, v, p, b, pc) => Preloads(g, sel, list, v, p, b, pc)
  BY <1>5 DEF Preloads
<1> QED
  BY <1>2, <1>3, <1>4, <1>6, Zenon

(* A new adapter has everything still to send.                             *)
LEMMA PreloadStart ==
    ASSUME NEW h, NEW sel, NEW list, list.items = ItemsAt(h, sel, list.rv)
    PROVE  Preloads(h, sel, list, NothingKnown, <<>>, 1, "items")
<1>1. Len(<<>>) = 0 /\ DOMAIN <<>> = {}
  OBVIOUS
<1>2. ASSUME NEW key \in Keys
      PROVE  /\ NothingKnown[key] = NoObject
             /\ Selected(sel, At(h, key, list.rv)) => At(h, key, list.rv) \in list.items
  BY Zenon DEF NothingKnown, ItemsAt
<1>3. Filled(h, sel, list.rv, NothingKnown, list.items, <<>>, 1)
  BY <1>1, <1>2, Zenon DEF Filled
<1> QED
  BY <1>1, <1>3 DEF Preloads
-----------------------------------------------------------------------------
(* Every step is one of the store beneath.                                 *)
LEMMA AdapterIsStoreStep ==
    ASSUME AdapterInv, [AdapterNext]_allVars
    PROVE  [Next]_vars
<1>1. AdapterKind \in Kinds /\ Watcher \in Watchers
  BY AdapterAssumption, Zenon
<1>2. selector \in SUBSET Labels /\ position \in 0..revision /\ revision \in Nat
  BY Zenon DEF AdapterInv, AdapterOK, BackendInv, StoreInv, TypeOK, LogTypeOK
<1>3. CASE Writers
  <2>1. AcceptedWrites BY <1>3, Zenon DEF Writers
  <2>2. Mutate BY <1>2, <2>1 DEF AcceptedWrites, Mutate
  <2> QED BY <2>2, Zenon DEF Next
<1>4. CASE WatchWithContext
  BY <1>1, <1>2, <1>4, Zenon DEF WatchWithContext, Next, Consume
<1>5. CASE WatchInitialEvents
  <2>1. initial.rv \in 0..revision
    BY <1>5, Zenon DEF WatchInitialEvents, AdapterInv, AdapterOK
  <2> QED
    BY <1>1, <1>2, <1>5, <2>1, Zenon DEF WatchInitialEvents, Next, Consume
<1>6. CASE RelayRecv
  BY <1>1, <1>6, Zenon DEF RelayRecv, Next, Consume
<1>7. CASE StopInner
  BY <1>1, <1>7, Zenon DEF StopInner, Next, Consume
<1>8. CASE StopReturn
  BY <1>1, <1>8, Zenon DEF StopReturn, Next, Consume
<1>9. CASE SendItem \/ SendBookmark \/ RelaySend \/ RelayInnerClosed \/ RelayStopped
  BY <1>9, Zenon DEF SendItem, SendBookmark, RelaySend, RelayInnerClosed, RelayStopped
<1>10. CASE ListWithContext \/ WatchTooOld \/ ListInitialEvents \/ InitialTooOld
  BY <1>10, Zenon DEF ListWithContext, WatchTooOld, ListInitialEvents, InitialTooOld
<1>11. CASE ReflectorRecv \/ StopEnded \/ StopEarly \/ UNCHANGED allVars
  BY <1>11, Zenon DEF ReflectorRecv, StopEnded, StopEarly, StopSignal, allVars
<1> QED
  BY <1>3, <1>4, <1>5, <1>6, <1>7, <1>8, <1>9, <1>10, <1>11, Zenon DEF AdapterNext, Relay, Reflector

(* Facts of the invariant that every step uses.                            *)
LEMMA AdapterFacts ==
    ASSUME AdapterInv
    PROVE  /\ StoreInv /\ BackendInv /\ LogTypeOK /\ LogIsRecentHistory /\ WatchOK
           /\ AdapterKind \in Kinds /\ Watcher \in Watchers
           /\ selector \in SUBSET Labels /\ position \in 0..revision /\ view \in viewMap
           /\ initial \in adapterList /\ initial.rv \in Nat
           /\ revision \in Nat /\ DOMAIN history = 1..revision /\ DOMAIN history \subseteq Nat
           /\ watch \in [Watchers -> memoryWatcher] /\ watch[Watcher].cursor \in Nat
           /\ Base \in Nat
<1>1. /\ StoreInv /\ BackendInv /\ LogTypeOK /\ LogIsRecentHistory /\ WatchOK
  BY Zenon DEF AdapterInv, BackendInv, StoreInv, TypeOK
<1>2. /\ selector \in SUBSET Labels /\ position \in 0..revision /\ view \in viewMap
      /\ initial \in adapterList
  BY Zenon DEF AdapterInv, AdapterOK
<1>3. initial.rv \in Nat
  BY <1>2, Zenon DEF adapterList
<1>4. revision \in Nat /\ DOMAIN history = 1..revision /\ DOMAIN history \subseteq Nat
  BY <1>1, HistoryFacts
<1>5. AdapterKind \in Kinds /\ Watcher \in Watchers
  BY AdapterAssumption, Zenon
<1>6. watch \in [Watchers -> memoryWatcher] /\ watch[Watcher].cursor \in Nat
  BY <1>1, <1>5, Zenon DEF LogTypeOK, memoryWatcher
<1>7. Base \in Nat
  BY <1>2, <1>3, <1>4, SMTT(20) DEF Base
<1> QED
  BY <1>1, <1>2, <1>3, <1>4, <1>5, <1>6, <1>7, Zenon

(* What a relay that is followed holds.                                    *)
LEMMA FollowingFacts ==
    ASSUME AdapterInv, NEW b \in Nat, Following(b)
    PROVE  /\ Pipe \in Seq(adapterEvent) /\ Len(Pipe) \in Nat
           /\ relayPC # "items" => b <= Len(Pipe)
           /\ relayPC = "items" => ~synced /\ b = Len(Pipe) + 1
           /\ ~synced => b # 0
           /\ relayPC # "send" => Pipe = out \o <<>>
<1>1. out \in Seq(adapterEvent) /\ inHand \in Seq(adapterEvent)
  BY Zenon DEF Following
<1>2. Pipe \in Seq(adapterEvent) /\ Len(Pipe) \in Nat
  BY <1>1, PipeParts, LenProperties, Zenon DEF Pipe
<1>3. synced => b = 0 /\ relayPC # "items"
  BY Zenon DEF Following
<1>4. ~synced => /\ b \in 1..(Len(Pipe) + 1)
                 /\ IF b = Len(Pipe) + 1 THEN relayPC = "items" ELSE relayPC # "items"
  BY Zenon DEF Following, Preloads
<1>5. relayPC # "send" => inHand = <<>>
  BY Zenon DEF Following
<1> QED
  BY <1>2, <1>3, <1>4, <1>5, SMTT(20) DEF Pipe

(* A write changes nothing of the past and leaves the adapter's watch at   *)
(* its cursor.                                                             *)
LEMMA WritersStep ==
    ASSUME AdapterInv, Writers
    PROVE  AdapterOK'
<1>1. PICK gvk \in Kinds, key \in Keys : \E type, obj, call : Mutation(gvk, key, type, obj, call)
  <2>1. revision \in Nat BY AdapterFacts, Zenon
  <2>2. Mutate BY <2>1 DEF Writers, AcceptedWrites, Mutate
  <2> QED BY <2>2, MutateMutates, Zenon DEF AdapterInv, BackendInv, StoreInv
<1>2. PICK type, obj, call : Mutation(gvk, key, type, obj, call)
  BY <1>1, Zenon
<1>3. /\ revision \in Nat /\ revision' = revision + 1
      /\ DOMAIN history = 1..revision /\ DOMAIN history' = 1..(revision + 1)
      /\ \A i \in 1..revision : history'[i] = history[i]
  BY <1>2, MutationEffect, Zenon DEF AdapterInv, BackendInv
<1>4. UNCHANGED <<selector, relayPC, initial, inHand, out, stopCh, reflector, position, synced, view>>
  BY Zenon DEF Writers, adapterVars, reflectorVars
<1>5. /\ watch'[Watcher].stage = watch[Watcher].stage /\ watch'[Watcher].gvk = watch[Watcher].gvk
      /\ watch'[Watcher].sel = watch[Watcher].sel /\ watch'[Watcher].cursor = watch[Watcher].cursor
  <2>1. Emit(gvk, type, obj)
    BY <1>2, Zenon DEF Mutation, Commit
  <2> QED
    BY <2>1, AdapterFacts, EmitKeeps, Zenon
<1>6. /\ selector' \in SUBSET Labels /\ position' \in 0..revision' /\ view' \in viewMap
      /\ initial' \in adapterList
  <2>1. position \in 0..(revision + 1)
    BY <1>3, AdapterFacts
  <2> QED
    BY <1>3, <1>4, <2>1, AdapterFacts, Zenon
<1>7. synced' => ShowsIn(view', selector', history', position')
  BY <1>3, <1>4, AdapterFacts, PastKept, Zenon DEF AdapterInv, AdapterOK
<1>8. ASSUME reflector' = "listed"
      PROVE  /\ ~synced' /\ relayPC' = "done" /\ initial'.rv \in 0..revision'
             /\ initial'.items = ItemsAt(history', selector', initial'.rv)
  <2>1. /\ ~synced /\ relayPC = "done" /\ initial.rv \in 0..revision
        /\ initial.items = ItemsAt(history, selector, initial.rv)
    BY <1>4, <1>8, Zenon DEF AdapterInv, AdapterOK
  <2>2. initial.rv \in 0..(revision + 1)
    BY <1>3, <2>1, SMTT(20)
  <2>3. ItemsAt(history', selector, initial.rv) = ItemsAt(history, selector, initial.rv)
    BY <1>3, <2>1, PastKept, SMTT(20)
  <2> QED
    BY <1>3, <1>4, <2>1, <2>2, <2>3, Zenon
<1>9. ASSUME reflector' = "following"
      PROVE  \E b \in 0..(Len(Pipe') + 1) : Following(b)'
  <2>1. PICK b \in 0..(Len(Pipe) + 1) : Following(b)
    BY <1>4, <1>9, Zenon DEF AdapterInv, AdapterOK
  <2>2. Pipe' = Pipe /\ Base' = Base
    BY <1>4, Zenon DEF Pipe, Base
  <2>3. Piped(history', selector, Base, Pipe, b, watch[Watcher].cursor)
    <3>1. watch[Watcher].cursor <= revision
      BY AdapterFacts, Zenon DEF WatchOK, WatcherOK, Following, Subscribed
    <3>2. Piped(history, selector, Base, Pipe, b, watch[Watcher].cursor)
      BY <2>1, Zenon DEF Following
    <3> QED
      BY <1>3, <3>1, <3>2, AdapterFacts, PipedGrows, Zenon
  <2>4. ~synced => /\ initial.rv \in 0..(revision + 1)
                   /\ Preloads(history', selector, initial, view, Pipe, b, relayPC)
    <3>1. ~synced => initial.rv \in 0..revision /\ Preloads(history, selector, initial, view, Pipe, b, relayPC)
      BY <2>1, Zenon DEF Following
    <3>2. initial.rv \in 0..revision => initial.rv \in 0..(revision + 1)
      BY <1>3
    <3> QED
      BY <1>3, <3>1, <3>2, PastKept, Zenon
  <2>5. Following(b)'
    BY <1>3, <1>4, <1>5, <2>1, <2>2, <2>3, <2>4, Zenon DEF Following, Subscribed
  <2> QED
    BY <2>2, <2>5, Zenon
<1> QED
  BY <1>6, <1>7, <1>8, <1>9, Zenon DEF AdapterOK

(* A step that leaves the store and the consumer, and after which the      *)
(* relay is one that is followed.                                          *)
LEMMA StillFollowing ==
    ASSUME AdapterInv, UNCHANGED <<revision, history, selector, reflector, position, synced, view>>,
           initial' \in adapterList, reflector = "following",
           NEW b \in Nat, b <= Len(Pipe') + 1, Following(b)', Len(Pipe') \in Nat
    PROVE  AdapterOK'
<1>1. b \in 0..(Len(Pipe') + 1)
  OBVIOUS
<1>2. \E x \in 0..(Len(Pipe') + 1) : Following(x)'
  BY <1>1, Zenon
<1> QED
  BY <1>2, Zenon DEF AdapterInv, AdapterOK

(* A relay that nobody follows.                                            *)
LEMMA RelayOther ==
    ASSUME AdapterInv, Relay, reflector # "following"
    PROVE  AdapterOK'
<1>1. UNCHANGED <<revision, history, selector, reflector, position, synced, view>>
  BY Zenon DEF Relay, SendItem, SendBookmark, RelayRecv, RelaySend, RelayInnerClosed, RelayStopped, Recv,
         vars, dataVars, logVars, reflectorVars
<1>2. relayPC # "done"
  BY Zenon DEF Relay, SendItem, SendBookmark, RelayRecv, RelaySend, RelayInnerClosed, RelayStopped
<1>3. initial' \in adapterList
  <2>1. CASE SendItem
    <3>1. PICK obj \in initial.items : initial' = [initial EXCEPT !.items = @ \ {obj}]
      BY <2>1, Zenon DEF SendItem
    <3> QED
      BY <3>1, AdapterFacts, Zenon DEF adapterList
  <2>2. CASE ~SendItem
    <3>1. initial' = initial
      BY <2>2, Zenon DEF Relay, SendBookmark, RelayRecv, RelaySend, RelayInnerClosed, RelayStopped
    <3> QED
      BY <3>1, AdapterFacts, Zenon
  <2> QED
    BY <2>1, <2>2, Zenon
<1> QED
  BY <1>1, <1>2, <1>3, Zenon DEF AdapterInv, AdapterOK

(* The relay sends an item of the list.                                    *)
LEMMA SendItemStep ==
    ASSUME AdapterInv, SendItem, reflector = "following", NEW b \in Nat, Following(b)
    PROVE  AdapterOK'
<1>1. PICK obj \in initial.items :
        /\ out' = Append(out, watchEvent("ADDED", obj, obj.rv))
        /\ initial' = [initial EXCEPT !.items = @ \ {obj}]
  BY Zenon DEF SendItem, Send
<1>2. relayPC = "items" /\ relayPC' = relayPC /\ inHand' = inHand /\ stopCh' = stopCh
  BY Zenon DEF SendItem
<1>3. UNCHANGED <<revision, history, watch, selector, reflector, position, synced, view>>
  BY Zenon DEF SendItem, vars, logVars, watchVars, reflectorVars
<1>4. /\ Pipe \in Seq(adapterEvent) /\ Len(Pipe) \in Nat /\ ~synced /\ b = Len(Pipe) + 1
      /\ Pipe = out \o <<>>
  BY <1>2, FollowingFacts, Zenon
<1>5. /\ ~stopCh /\ out \in Seq(adapterEvent) /\ inHand = <<>>
      /\ Subscribed(watch[Watcher], selector, Base)
      /\ Piped(history, selector, Base, Pipe, b, watch[Watcher].cursor)
      /\ initial.rv \in 0..revision
      /\ Preloads(history, selector, initial, view, Pipe, b, "items")
  BY <1>2, <1>4, Zenon DEF Following
<1> DEFINE e == watchEvent("ADDED", obj, obj.rv)
<1>6. e \in adapterEvent
  <2>1. obj \in ItemsAt(history, selector, initial.rv)
    BY <1>1, <1>5, Zenon DEF Preloads, Filled
  <2>2. obj \in Object /\ obj.rv \in Nat
    BY <1>5, <2>1, AdapterFacts, ItemFacts, Zenon
  <2> QED
    BY <2>2, Zenon DEF watchEvent, adapterEvent
<1>7. /\ initial' \in adapterList /\ initial'.items = initial.items \ {obj}
      /\ initial'.rv = initial.rv
  BY <1>1, AdapterFacts, Zenon DEF adapterList
<1>8. /\ out' \in Seq(adapterEvent) /\ Pipe' = Append(Pipe, e)
  BY <1>1, <1>2, <1>4, <1>5, <1>6, PipeAppend, Zenon DEF Pipe
<1>9. Len(Pipe') = Len(Pipe) + 1
  BY <1>4, <1>6, <1>8, SeqParts, SMTT(20)
<1> HIDE DEF e
<1>10. Preloads(history, selector, initial', view, Pipe', b + 1, "items")
  BY <1>4, <1>5, <1>6, <1>7, <1>8, PreloadItem, SMTT(20) DEF e
<1>11. Piped(history, selector, Base, Pipe', b + 1, watch[Watcher].cursor)
  <2>1. b + 1 \in {Len(Pipe) + 1, Len(Pipe) + 2}
    BY <1>4
  <2> QED
    BY <1>4, <1>5, <1>6, <1>8, <2>1, PipedPreload, Zenon
<1>12. Base' = Base
  BY <1>3, <1>7, Zenon DEF Base
<1>13. Following(b + 1)'
  BY <1>2, <1>3, <1>4, <1>5, <1>7, <1>8, <1>10, <1>11, <1>12, Zenon DEF Following, Subscribed
<1>14. b + 1 \in Nat /\ b + 1 <= Len(Pipe') + 1 /\ Len(Pipe') \in Nat
  BY <1>4, <1>9
<1> QED
  BY <1>3, <1>7, <1>13, <1>14, StillFollowing, Zenon

(* ... and after the last one the bookmark.                                *)
LEMMA SendBookmarkStep ==
    ASSUME AdapterInv, SendBookmark, reflector = "following", NEW b \in Nat, Following(b)
    PROVE  AdapterOK'
<1> DEFINE e == watchEvent("BOOKMARK", NoObject, initial.rv)
<1>1. /\ relayPC = "items" /\ relayPC' = "select" /\ inHand' = inHand /\ stopCh' = stopCh
      /\ initial.items = {} /\ initial' = initial /\ out' = Append(out, e)
  BY Zenon DEF SendBookmark, Send
<1>2. UNCHANGED <<revision, history, watch, selector, reflector, position, synced, view>>
  BY Zenon DEF SendBookmark, vars, logVars, watchVars, reflectorVars
<1>3. /\ Pipe \in Seq(adapterEvent) /\ Len(Pipe) \in Nat /\ ~synced /\ b = Len(Pipe) + 1
      /\ Pipe = out \o <<>>
  BY <1>1, FollowingFacts, Zenon
<1>4. /\ ~stopCh /\ out \in Seq(adapterEvent) /\ inHand = <<>>
      /\ Subscribed(watch[Watcher], selector, Base)
      /\ Piped(history, selector, Base, Pipe, b, watch[Watcher].cursor)
      /\ initial.rv \in 0..revision
      /\ Preloads(history, selector, initial, view, Pipe, b, "items")
  BY <1>1, <1>3, Zenon DEF Following
<1>5. e \in adapterEvent /\ e.type = "BOOKMARK" /\ e.rv = initial.rv
  BY AdapterFacts, Zenon DEF watchEvent, adapterEvent
<1> HIDE DEF e
<1>6. /\ out' \in Seq(adapterEvent) /\ Pipe' = Append(Pipe, e)
  BY <1>1, <1>3, <1>4, <1>5, PipeAppend, Zenon DEF Pipe
<1>7. Len(Pipe') = Len(Pipe) + 1
  BY <1>3, <1>5, <1>6, SeqParts, SMTT(20)
<1>8. Preloads(history, selector, initial, view, Pipe', b, "select")
  BY <1>1, <1>3, <1>4, <1>5, <1>6, PreloadAppend, Zenon
<1>9. Piped(history, selector, Base, Pipe', b, watch[Watcher].cursor)
  <2>1. b \in {Len(Pipe) + 1, Len(Pipe) + 2}
    BY <1>3, Zenon
  <2> QED
    BY <1>3, <1>4, <1>5, <1>6, <2>1, PipedPreload, Zenon
<1>10. Base' = Base
  BY <1>1, <1>2, Zenon DEF Base
<1>11. Following(b)'
  BY <1>1, <1>2, <1>3, <1>4, <1>6, <1>8, <1>9, <1>10, Zenon DEF Following, Subscribed
<1>12. b <= Len(Pipe') + 1 /\ Len(Pipe') \in Nat
  BY <1>3, <1>7, SMTT(20)
<1> QED
  BY <1>1, <1>2, <1>11, <1>12, AdapterFacts, StillFollowing, Zenon

(* Handing over the event in hand, and the end of the store's watch, leave *)
(* the pipe as it is.                                                      *)
LEMMA RelayMovesStep ==
    ASSUME AdapterInv, RelaySend \/ RelayInnerClosed, reflector = "following", NEW b \in Nat, Following(b)
    PROVE  AdapterOK'
<1>1. UNCHANGED <<revision, history, watch, selector, reflector, position, synced, view, initial, stopCh>>
  BY Zenon DEF RelaySend, RelayInnerClosed, vars, logVars, watchVars, reflectorVars
<1>2. relayPC # "items" /\ relayPC' # "items" /\ relayPC' # "send"
  BY Zenon DEF RelaySend, RelayInnerClosed
<1>3. /\ ~stopCh /\ out \in Seq(adapterEvent) /\ inHand \in Seq(adapterEvent)
      /\ IF relayPC = "send" THEN Len(inHand) = 1 ELSE inHand = <<>>
      /\ Subscribed(watch[Watcher], selector, Base)
      /\ Piped(history, selector, Base, Pipe, b, watch[Watcher].cursor)
      /\ IF synced THEN b = 0 /\ relayPC # "items"
         ELSE /\ initial.rv \in 0..revision
              /\ Preloads(history, selector, initial, view, Pipe, b, relayPC)
  BY Zenon DEF Following
<1>4. out' \in Seq(adapterEvent) /\ inHand' = <<>> /\ Pipe' = Pipe
  <2>1. CASE RelaySend
    <3>1. Len(inHand) = 1 /\ out' = Append(out, inHand[1]) /\ inHand' = <<>>
      BY <1>3, <2>1, Zenon DEF RelaySend, Send
    <3> QED
      BY <1>3, <3>1, PipeSend, PipeAppend, Zenon DEF Pipe
  <2>2. CASE RelayInnerClosed
    BY <1>3, <2>2, Zenon DEF RelayInnerClosed, Pipe
  <2> QED
    BY <2>1, <2>2, Zenon
<1>5. ~synced => Preloads(history, selector, initial, view, Pipe, b, relayPC')
  BY <1>2, <1>3, PreloadMoves, Zenon
<1>6. Base' = Base
  BY <1>1, ZenonT(30) DEF Base
<1>7. Following(b)'
  BY <1>1, <1>2, <1>3, <1>4, <1>5, <1>6, SMTT(20) DEF Following, Subscribed
<1>8. Len(Pipe) \in Nat /\ b <= Len(Pipe) + 1
  BY <1>2, FollowingFacts, SMTT(20)
<1> QED
  BY <1>1, <1>4, <1>7, <1>8, AdapterFacts, StillFollowing, Zenon

(* What the relay takes from the store's watch is the next event that      *)
(* matches, or one before it that does not.                                *)
LEMMA TakesNext ==
    ASSUME AdapterInv, Recv(Watcher), Subscribed(watch[Watcher], selector, Base)
    PROVE  \E i \in DueIn(history, watch[Watcher].cursor) :
              /\ watch'[Watcher].cursor = i
              /\ Head(watch[Watcher].ch) = history[i].event
              /\ \A j \in DueIn(history, watch[Watcher].cursor) :
                    j < i => ~Matches(selector, history[j].event.obj)
              /\ Subscribed(watch'[Watcher], selector, Base)
<1> DEFINE v == watch[Watcher]
<1>1. v.stage = "open" /\ v.gvk = AdapterKind /\ v.sel = selector /\ Base <= v.cursor
  BY Zenon DEF Subscribed
<1>2. PICK i \in Due(v.gvk, v.cursor) :
        /\ watch'[Watcher].cursor = history[i].revision
        /\ \A j \in Due(v.gvk, v.cursor) : j < i => ~Matches(v.sel, history[j].event.obj)
        /\ watch'[Watcher].stage = v.stage /\ watch'[Watcher].gvk = v.gvk /\ watch'[Watcher].sel = v.sel
  BY AdapterFacts, RecvWatch, Zenon
<1>3. v \in memoryWatcher /\ v.ch # <<>> /\ Stream(v) /\ v.cursor \in Nat
  BY <1>1, AdapterFacts, Zenon DEF Recv, WatchOK, WatcherOK
<1>4. watch'[Watcher].cursor = Head(v.ch).obj.rv
  BY <1>3, AdapterFacts, Zenon DEF Recv, memoryWatcher
<1>5. Due(AdapterKind, v.cursor) = DueIn(history, v.cursor)
  BY AdapterFacts, DueIsDueIn, Zenon
<1> HIDE DEF v
<1>6. /\ i \in DueIn(history, v.cursor) /\ i \in DOMAIN history /\ i \in Nat /\ v.cursor < i
      /\ history[i].revision = i
  BY <1>1, <1>2, <1>5, <1>3, AdapterFacts, HistoryFacts, Zenon DEF DueIn
<1>7. Head(v.ch) = history[i].event
  <2>1. v.ch \in Seq(Event)
    BY <1>3, Zenon DEF memoryWatcher
  <2>2. 1 \in DOMAIN v.ch /\ Head(v.ch) = v.ch[1]
    BY <1>3, <2>1, SeqParts, HeadTailProperties, SMTT(20)
  <2>3. PICK k \in Due(v.gvk, v.cursor) : v.ch[1] = history[k].event
    BY <1>3, <2>2, Zenon DEF Stream
  <2>4. k \in DOMAIN history /\ history[k].event.obj.rv = k
    BY <2>3, AdapterFacts, HistoryFacts, Zenon DEF Due
  <2>5. k = i
    BY <1>2, <1>4, <1>6, <2>2, <2>3, <2>4, Zenon
  <2> QED
    BY <2>2, <2>3, <2>5, Zenon
<1>8. Base <= i
  BY <1>1, <1>3, <1>6, AdapterFacts, SMTT(20)
<1> QED
  BY <1>1, <1>2, <1>5, <1>6, <1>7, <1>8, Zenon DEF v, Subscribed

LEMMA RelayRecvStep ==
    ASSUME AdapterInv, RelayRecv, reflector = "following", NEW b \in Nat, Following(b)
    PROVE  AdapterOK'
<1> DEFINE event == Head(watch[Watcher].ch)
           e == watchEvent(event.type, event.obj, event.obj.rv)
           cur == watch[Watcher].cursor
<1>1. /\ relayPC = "select" /\ Recv(Watcher)
      /\ IF Matches(selector, event.obj) THEN inHand' = <<e>> /\ relayPC' = "send"
         ELSE UNCHANGED <<inHand, relayPC>>
      /\ UNCHANGED <<out, initial, stopCh>>
  BY Zenon DEF RelayRecv
<1>2. UNCHANGED <<revision, history, selector, reflector, position, synced, view>>
  BY Zenon DEF RelayRecv, Recv, logVars, reflectorVars
<1>3. Pipe \in Seq(adapterEvent) /\ Len(Pipe) \in Nat /\ Pipe = out \o <<>> /\ b <= Len(Pipe)
  BY <1>1, FollowingFacts, Zenon
<1>4. /\ ~stopCh /\ out \in Seq(adapterEvent) /\ inHand = <<>>
      /\ Subscribed(watch[Watcher], selector, Base)
      /\ Piped(history, selector, Base, Pipe, b, cur)
      /\ IF synced THEN b = 0 /\ relayPC # "items"
         ELSE /\ initial.rv \in 0..revision
              /\ Preloads(history, selector, initial, view, Pipe, b, relayPC)
  BY <1>1, Zenon DEF Following
<1>5. PICK i \in DueIn(history, cur) :
        /\ watch'[Watcher].cursor = i /\ event = history[i].event
        /\ \A j \in DueIn(history, cur) : j < i => ~Matches(selector, history[j].event.obj)
        /\ Subscribed(watch'[Watcher], selector, Base)
  BY <1>1, <1>4, TakesNext, Zenon
<1>6. /\ i \in Nat /\ event \in Event /\ event.obj.rv = i /\ e = watchEvent(event.type, event.obj, i)
      /\ cur \in Nat /\ Base \in Nat /\ Base <= cur
  BY <1>4, <1>5, AdapterFacts, HistoryFacts, Zenon DEF DueIn, Subscribed
<1>7. e \in adapterEvent
  BY <1>6, Zenon DEF watchEvent, adapterEvent, Event
<1>8. Base' = Base
  BY <1>1, <1>2, Zenon DEF Base
<1> HIDE DEF event, e, cur
<1>9. CASE Matches(selector, event.obj)
  <2>1. inHand' = <<e>> /\ relayPC' = "send"
    BY <1>1, <1>9, Zenon
  <2>2. inHand' \in Seq(adapterEvent) /\ Len(inHand') = 1 /\ Pipe' = Append(Pipe, e)
    BY <1>1, <1>3, <1>4, <1>7, <2>1, PipeAppend, Zenon DEF Pipe
  <2>3. Piped(history, selector, Base, Pipe', b, i)
    BY <1>3, <1>4, <1>5, <1>6, <1>7, <1>9, <2>2, AdapterFacts, PipedAppend, Zenon
  <2>4. ~synced => Preloads(history, selector, initial, view, Pipe', b, "send")
    BY <1>3, <1>4, <1>7, <2>2, PreloadAppend, Zenon
  <2>5. Following(b)'
    BY <1>1, <1>2, <1>4, <1>5, <1>8, <2>1, <2>2, <2>3, <2>4, Zenon DEF Following
  <2>6. Len(Pipe') = Len(Pipe) + 1
    BY <1>3, <1>7, <2>2, SeqParts, SMTT(20)
  <2>7. b <= Len(Pipe') + 1 /\ Len(Pipe') \in Nat
    BY <1>3, <2>6, SMTT(20)
  <2> QED
    BY <1>1, <1>2, <2>5, <2>7, AdapterFacts, StillFollowing, Zenon
<1>10. CASE ~Matches(selector, event.obj)
  <2>1. inHand' = inHand /\ relayPC' = relayPC
    BY <1>1, <1>10, Zenon
  <2>2. Pipe' = Pipe
    BY <1>1, <2>1, Zenon DEF Pipe
  <2>3. \A j \in DueIn(history, cur) : j <= i => ~Matches(selector, history[j].event.obj)
    <3>1. \A j \in DueIn(history, cur) : j \in Nat /\ (j <= i => j < i \/ j = i)
      BY <1>6, AdapterFacts, SMTT(20) DEF DueIn
    <3> QED
      BY <1>5, <1>10, <3>1, Zenon
  <2>4. Piped(history, selector, Base, Pipe, b, i)
    BY <1>3, <1>4, <1>5, <1>6, <2>3, AdapterFacts, PipedSkip, Zenon
  <2>5. Following(b)'
    BY <1>1, <1>2, <1>4, <1>5, <1>8, <2>1, <2>2, <2>4, Zenon DEF Following
  <2>6. b <= Len(Pipe') + 1 /\ Len(Pipe') \in Nat
    BY <1>3, <2>2, SMTT(20)
  <2> QED
    BY <1>1, <1>2, <2>5, <2>6, AdapterFacts, StillFollowing, Zenon
<1> QED
  BY <1>9, <1>10, Zenon

(* The relay's steps.                                                      *)
LEMMA RelayStep ==
    ASSUME AdapterInv, Relay
    PROVE  AdapterOK'
<1>1. CASE reflector # "following"
  BY <1>1, RelayOther, Zenon
<1>2. CASE reflector = "following"
  <2>1. PICK b \in 0..(Len(Pipe) + 1) : Following(b)
    BY <1>2, Zenon DEF AdapterInv, AdapterOK
  <2>2. b \in Nat
    OBVIOUS
  <2>3. ~RelayStopped
    BY <2>1, Zenon DEF Following, RelayStopped
  <2> QED
    BY <1>2, <2>1, <2>2, <2>3, SendItemStep, SendBookmarkStep, RelayMovesStep, RelayRecvStep, Zenon DEF Relay
<1> QED
  BY <1>1, <1>2, Zenon
=============================================================================
