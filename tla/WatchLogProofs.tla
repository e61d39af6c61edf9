--------------------------- MODULE WatchLogProofs ---------------------------
(***************************************************************************)
(* The event log and the watches, for every value of the constants: facts  *)
(* about the operators and actions of WatchLog, which the backends' proofs *)
(* cite, and then that no watch loses, repeats or reorders an event.  That *)
(* argument is about the stream of a watch: what is in its channel against *)
(* what the history still owes its consumer.                               *)
(***************************************************************************)
EXTENDS WatchLog, WellFoundedInduction, TLAPS

(***************************************************************************)
(* What the proofs use of sequences: their elements, length, head and      *)
(* tail, and what appending does.  These few facts keep the context of the *)
(* backends' proofs small.                                                 *)
(***************************************************************************)
LEMMA ElementOfSeq == ASSUME NEW S, NEW s \in Seq(S), NEW n \in 1..Len(s) PROVE s[n] \in S
  OBVIOUS

LEMMA EmptySeq ==
    ASSUME NEW S
    PROVE  <<>> \in Seq(S) /\ Len(<<>>) = 0 /\ \A s \in Seq(S) : s # <<>> => Len(s) \in Nat \ {0}
  OBVIOUS

LEMMA LenProperties ==
    ASSUME NEW S, NEW s \in Seq(S)
    PROVE  Len(s) \in Nat /\ s \in [1..Len(s) -> S] /\ DOMAIN s = 1..Len(s)
  OBVIOUS

LEMMA HeadTailProperties ==
    ASSUME NEW S, NEW s \in Seq(S), s # <<>>
    PROVE  /\ Head(s) \in S /\ Tail(s) \in Seq(S) /\ Len(Tail(s)) = Len(s) - 1
           /\ \A i \in 1..Len(Tail(s)) : Tail(s)[i] = s[i + 1]
  OBVIOUS

LEMMA AppendProperties ==
    ASSUME NEW S, NEW s \in Seq(S), NEW e \in S
    PROVE  /\ Append(s, e) \in Seq(S) /\ Append(s, e) # <<>> /\ Len(Append(s, e)) = Len(s) + 1
           /\ \A i \in 1..Len(s) : Append(s, e)[i] = s[i]
           /\ Append(s, e)[Len(s) + 1] = e
  OBVIOUS

(***************************************************************************)
(* Facts the proofs share: least and greatest elements of sets of          *)
(* naturals, and what Pick, the loop that filters a slice into a fresh     *)
(* one, computes: the elements at the kept positions, each once and in     *)
(* order.  Its recursion is resolved by the least counterexample.          *)
(***************************************************************************)
(* A nonempty set of naturals has a least element.                         *)
LEMMA LeastNat ==
    ASSUME NEW T \in SUBSET Nat, T # {}
    PROVE  \E m \in T : \A n \in T : m <= n
<1>1. IsWellFoundedOn(OpToRel(<, Nat), Nat)
  BY NatLessThanWellFounded, Zenon
<1>2. PICK m \in T : \A n \in T : ~(<<n, m>> \in OpToRel(<, Nat))
  BY <1>1, WFMin, Zenon
<1>3. \A n \in T : ~(n < m)
  BY <1>2, Zenon DEF OpToRel
<1> QED
  BY <1>3

(* A bounded one has a greatest.                                           *)
LEMMA HasGreatest ==
    ASSUME NEW W \in SUBSET Nat, W # {}, NEW b \in Nat, \A q \in W : q <= b
    PROVE  \E x \in W : \A y \in W : y <= x
<1> DEFINE T == {n \in Nat : \A q \in W : q <= n}
<1>1. T \in SUBSET Nat /\ b \in T
  BY Zenon
<1>2. PICK m \in T : \A n \in T : m <= n
  <2> HIDE DEF T
  <2> QED BY <1>1, LeastNat, Zenon
<1>3. CASE m \in W
  BY <1>3, Zenon
<1>4. CASE m \notin W
  <2>1. \A q \in W : q < m /\ q \in Nat
    BY <1>4
  <2>2. PICK q \in W : TRUE
    BY Zenon
  <2>3. m - 1 \in Nat
    BY <2>1, <2>2
  <2>4. \A p \in W : p <= m - 1
    BY <2>1
  <2>5. m <= m - 1
    BY <1>2, <2>3, <2>4, Zenon
  <2> QED BY <2>5
<1> QED BY <1>3, <1>4, Zenon

(* One step of Pick's loop: the slice after i elements.                    *)
PickStep(s, keep, f, i) ==
    IF i = 0 THEN <<>> ELSE IF i \in keep THEN Append(f[i - 1], s[i]) ELSE f[i - 1]

(* There is a function that satisfies the recursion of Pick's loop.        *)
LEMMA UpToExists ==
    ASSUME NEW S, NEW s \in Seq(S), NEW keep
    PROVE  \E f : f = [i \in 0..Len(s) |-> PickStep(s, keep, f, i)]
<1> DEFINE good(n) == \E f : f = [i \in 0..n |-> PickStep(s, keep, f, i)]
           bad == {n \in Nat : ~good(n)}
<1>1. good(0)
  <2> DEFINE f == [i \in 0..0 |-> <<>>]
  <2>1. f = [i \in 0..0 |-> PickStep(s, keep, f, i)]
    BY DEF PickStep
  <2> QED BY <2>1, Zenon
<1>2. ASSUME NEW n \in Nat, good(n) PROVE good(n + 1)
  <2>1. PICK f : f = [i \in 0..n |-> PickStep(s, keep, f, i)]
    BY <1>2, Zenon
  <2> DEFINE g == [i \in 0..(n + 1) |-> IF i <= n THEN f[i] ELSE PickStep(s, keep, f, i)]
  <2>2. ASSUME NEW i \in 0..(n + 1) PROVE g[i] = PickStep(s, keep, g, i)
    <3>1. CASE i = 0
      <4>1. f[0] = <<>> BY <2>1 DEF PickStep
      <4> QED BY <3>1, <4>1, Zenon DEF PickStep
    <3>2. CASE i # 0
      <4>1. i - 1 \in 0..n /\ i - 1 \in 0..(n + 1) BY <3>2
      <4>2. g[i - 1] = f[i - 1] BY <4>1
      <4>3. PickStep(s, keep, g, i) = PickStep(s, keep, f, i) BY <4>2 DEF PickStep
      <4>4. CASE i <= n
        <5>1. f[i] = PickStep(s, keep, f, i) BY <2>1, <4>4, SMTT(20)
        <5> QED BY <4>3, <4>4, <5>1, Zenon
      <4>5. CASE ~(i <= n) BY <4>3, <4>5, Zenon
      <4> QED BY <4>4, <4>5, Zenon
    <3> QED BY <3>1, <3>2, Zenon
  <2>3. g = [i \in 0..(n + 1) |-> PickStep(s, keep, g, i)]
    BY <2>2, Zenon
  <2> QED BY <2>3, Zenon
<1>3. bad = {}
  <2> SUFFICES ASSUME bad # {} PROVE FALSE BY Zenon
  <2>1. PICK m \in bad : \A n \in bad : m <= n BY LeastNat, Zenon
  <2>2. m # 0 BY <1>1, <2>1, Zenon
  <2>3. m - 1 \in Nat /\ m - 1 \notin bad BY <2>1, <2>2
  <2>4. good(m - 1) BY <2>3, Zenon
  <2>5. good(m - 1 + 1) BY <1>2, <2>3, <2>4, Zenon
  <2>6. m - 1 + 1 = m BY <2>1
  <2>7. good(m) BY <2>5, <2>6, Zenon
  <2> QED BY <2>1, <2>7, Zenon
<1>4. Len(s) \in Nat BY LenProperties, Zenon
<1> QED BY <1>3, <1>4, Zenon

(* Pick is the last value of such a function.                              *)
LEMMA PickIsUpTo ==
    ASSUME NEW S, NEW s \in Seq(S), NEW keep
    PROVE  \E f : /\ f = [i \in 0..Len(s) |-> PickStep(s, keep, f, i)]
                  /\ Pick(s, keep) = f[Len(s)]
<1> DEFINE f == CHOOSE f : f = [i \in 0..Len(s) |-> PickStep(s, keep, f, i)]
<1>1. f = [i \in 0..Len(s) |-> PickStep(s, keep, f, i)]
  BY UpToExists, Zenon
<1>2. Pick(s, keep) = f[Len(s)]
  BY Zenon DEF Pick, PickStep
<1> QED BY <1>1, <1>2, Zenon

(* p holds the elements of s at the positions of keep up to i, in order;   *)
(* at[n] is where the n-th comes from.                                     *)
Picked(S, s, keep, i, p, at) ==
    /\ p \in Seq(S)
    /\ at \in [1..Len(p) -> {k \in keep : k <= i}]
    /\ \A n \in 1..Len(p) : p[n] = s[at[n]]
    /\ \A m, n \in 1..Len(p) : m < n => at[m] < at[n]
    /\ \A k \in keep : k <= i => \E n \in 1..Len(p) : at[n] = k

(* Pick returns exactly the elements at the kept positions, in order.      *)
LEMMA PickFacts ==
    ASSUME NEW S, NEW s \in Seq(S), NEW keep \in SUBSET (1..Len(s))
    PROVE  \E at : Picked(S, s, keep, Len(s), Pick(s, keep), at)
<1>1. PICK f : /\ f = [i \in 0..Len(s) |-> PickStep(s, keep, f, i)]
               /\ Pick(s, keep) = f[Len(s)]
  BY PickIsUpTo, Zenon
<1>2. Len(s) \in Nat
  BY LenProperties, Zenon
<1> DEFINE good(i) == \E at : Picked(S, s, keep, i, f[i], at)
           bad == {i \in 0..Len(s) : ~good(i)}
<1>3. good(0)
  <2>1. f[0] = <<>>
    BY <1>1, <1>2 DEF PickStep
  <2> DEFINE at == [n \in 1..0 |-> 0]
  <2>2. <<>> \in Seq(S) /\ Len(<<>>) = 0
    BY EmptySeq, Zenon
  <2>3. \A k \in keep : ~(k <= 0)
    BY <1>2
  <2>4. 1..0 = {}
    OBVIOUS
  <2>5. Picked(S, s, keep, 0, f[0], at)
    BY <2>1, <2>2, <2>3, <2>4, Zenon DEF Picked
  <2> QED
    BY <2>5, Zenon
<1>4. ASSUME NEW i \in 1..Len(s), good(i - 1) PROVE good(i)
  <2>1. PICK at : Picked(S, s, keep, i - 1, f[i - 1], at)
    BY <1>4, Zenon
  <2> DEFINE p == f[i - 1]
  <2>2. p \in Seq(S) /\ Len(p) \in Nat
    BY <2>1, LenProperties, Zenon DEF Picked
  <2>3. i - 1 \in 0..Len(s) /\ i \in 0..Len(s) /\ i # 0
    BY <1>2
  <2>4. CASE i \in keep
    <3> DEFINE q == Append(p, s[i])
               bt == [n \in 1..(Len(p) + 1) |-> IF n = Len(p) + 1 THEN i ELSE at[n]]
    <3>1. f[i] = q
      BY <1>1, <2>3, <2>4, Zenon DEF PickStep
    <3>2. s[i] \in S
      BY ElementOfSeq, Zenon
    <3>3. /\ q \in Seq(S) /\ Len(q) = Len(p) + 1
          /\ \A n \in 1..Len(p) : q[n] = p[n]
          /\ q[Len(p) + 1] = s[i]
      BY <2>2, <3>2, AppendProperties
    <3>4. \A n \in 1..(Len(p) + 1) : n # Len(p) + 1 => n \in 1..Len(p)
      BY <2>2
    <3>5. \A n \in 1..Len(p) : at[n] \in keep /\ at[n] <= i - 1
      BY <2>1, Zenon DEF Picked
    <3>6. \A k \in keep : k \in Nat
      BY <1>2
    <3>7. bt \in [1..(Len(p) + 1) -> {k \in keep : k <= i}]
      <4> SUFFICES ASSUME NEW n \in 1..(Len(p) + 1)
                   PROVE  (IF n = Len(p) + 1 THEN i ELSE at[n]) \in {k \in keep : k <= i}
        BY Zenon
      <4>1. CASE n = Len(p) + 1
        BY <2>3, <2>4, <4>1
      <4>2. CASE n # Len(p) + 1
        <5>1. at[n] \in keep /\ at[n] <= i - 1 BY <3>4, <3>5, <4>2, Zenon
        <5>2. \A k \in Nat : k <= i - 1 => k <= i BY <1>2
        <5>3. at[n] \in Nat BY <3>6, <5>1, Zenon
        <5>4. at[n] <= i BY <5>1, <5>2, <5>3, Zenon
        <5> QED BY <4>2, <5>1, <5>4, Zenon
      <4> QED BY <4>1, <4>2, Zenon
    <3>8. \A n \in 1..(Len(p) + 1) : q[n] = s[bt[n]]
      <4> TAKE n \in 1..(Len(p) + 1)
      <4>1. CASE n = Len(p) + 1
        BY <3>3, <4>1, Zenon
      <4>2. CASE n # Len(p) + 1
        <5>1. n \in 1..Len(p) BY <3>4, <4>2, Zenon
        <5>2. p[n] = s[at[n]] BY <2>1, <5>1, Zenon DEF Picked
        <5> QED BY <3>3, <4>2, <5>1, <5>2, Zenon
      <4> QED BY <4>1, <4>2, Zenon
    <3>9. \A m, n \in 1..(Len(p) + 1) : m < n => bt[m] < bt[n]
      <4> TAKE m, n \in 1..(Len(p) + 1)
      <4> HAVE m < n
      <4>1. m \in 1..Len(p) /\ bt[m] = at[m] BY <2>2
      <4>2. at[m] \in Nat /\ at[m] <= i - 1 BY <3>5, <3>6, <4>1, Zenon
      <4>3. CASE n = Len(p) + 1
        <5>1. bt[n] = i BY <4>3, Zenon
        <5> QED BY <4>1, <4>2, <5>1
      <4>4. CASE n # Len(p) + 1
        <5>1. n \in 1..Len(p) /\ bt[n] = at[n] BY <3>4, <4>4, Zenon
        <5>2. at[m] < at[n] BY <2>1, <4>1, <5>1, Zenon DEF Picked
        <5> QED BY <4>1, <5>1, <5>2, Zenon
      <4> QED BY <4>3, <4>4, Zenon
    <3>10. \A k \in keep : k <= i => \E n \in 1..(Len(p) + 1) : bt[n] = k
      <4> TAKE k \in keep
      <4> HAVE k <= i
      <4>1. CASE k = i
        <5>1. Len(p) + 1 \in 1..(Len(p) + 1) /\ bt[Len(p) + 1] = i BY <2>2
        <5> QED BY <4>1, <5>1, Zenon
      <4>2. CASE k # i
        <5>1. k <= i - 1 BY <3>6, <4>2
        <5>2. PICK n \in 1..Len(p) : at[n] = k BY <2>1, <5>1, Zenon DEF Picked
        <5>3. n \in 1..(Len(p) + 1) /\ n # Len(p) + 1 BY <2>2
        <5> QED BY <5>2, <5>3, Zenon
      <4> QED BY <4>1, <4>2, Zenon
    <3> HIDE DEF q, bt
    <3>11. Picked(S, s, keep, i, q, bt)
      BY <3>3, <3>7, <3>8, <3>9, <3>10, Zenon DEF Picked
    <3> QED
      BY <3>1, <3>11, Zenon
  <2>5. CASE i \notin keep
    <3>1. f[i] = p
      BY <1>1, <2>3, <2>5, Zenon DEF PickStep
    <3>2. \A k \in keep : k <= i <=> k <= i - 1
      BY <1>2, <2>5
    <3>3. {k \in keep : k <= i} = {k \in keep : k <= i - 1}
      BY <3>2, Zenon
    <3>4. Picked(S, s, keep, i, p, at)
      BY <2>1, <3>2, <3>3, Zenon DEF Picked
    <3> QED
      BY <3>1, <3>4, Zenon
  <2> QED
    BY <2>4, <2>5, Zenon
<1>5. bad = {}
  <2> SUFFICES ASSUME bad # {} PROVE FALSE BY Zenon
  <2> HIDE DEF good
  <2>0. bad \in SUBSET Nat BY <1>2
  <2>1. PICK m \in bad : \A n \in bad : m <= n
    <3> HIDE DEF bad
    <3> QED BY <2>0, LeastNat, Zenon
  <2>2. m # 0 BY <1>3, <2>1, Zenon
  <2>3. m \in 1..Len(s) /\ m - 1 \in 0..Len(s) /\ ~(m <= m - 1) BY <1>2, <2>1, <2>2
  <2>4. good(m - 1) BY <2>1, <2>3, Zenon
  <2>5. good(m) BY <1>4, <2>3, <2>4, Zenon
  <2> QED BY <2>1, <2>5, Zenon
<1>6. good(Len(s))
  BY <1>2, <1>5
<1> QED
  BY <1>1, <1>6, Zenon
-----------------------------------------------------------------------------
(* Trimming keeps the newest EventLogMax entries, in order (logEvent).     *)
LEMMA TrimmedFacts ==
    ASSUME NEW S, NEW log \in Seq(S)
    PROVE  /\ Trimmed(log) \in Seq(S)
           /\ Len(Trimmed(log)) = IF Len(log) < EventLogMax THEN Len(log) ELSE EventLogMax
           /\ \A i \in 1..Len(Trimmed(log)) :
                 Trimmed(log)[i] = log[Len(log) - Len(Trimmed(log)) + i]
<1>1. Len(log) \in Nat /\ EventLogMax \in Nat
  BY WatchLogAssumption, LenProperties, Zenon
<1>2. CASE Len(log) > EventLogMax
  <2> DEFINE m == Len(log) - EventLogMax + 1
             t == SubSeq(log, m, Len(log))
  <2>1. m \in Int /\ Len(log) \in Int /\ m <= Len(log) + 1 /\ m >= 1
    BY <1>1, <1>2
  <2>2. \A i \in m..Len(log) : log[i] \in S
    BY <2>1, ElementOfSeq
  <2>3. /\ t \in Seq(S)
        /\ Len(t) = IF m <= Len(log) THEN Len(log) - m + 1 ELSE 0
        /\ \A i \in 1..(Len(log) - m + 1) : t[i] = log[m + i - 1]
    BY <2>1, <2>2
  <2>4. Len(t) = EventLogMax
    BY <1>1, <1>2, <2>1, <2>3
  <2>5. Trimmed(log) = t
    BY <1>2, Zenon DEF Trimmed
  <2>6. \A i \in 1..EventLogMax : t[i] = log[Len(log) - EventLogMax + i]
    BY <1>1, <2>3
  <2> HIDE DEF m, t
  <2>7. EventLogMax = IF Len(log) < EventLogMax THEN Len(log) ELSE EventLogMax
    BY <1>1, <1>2
  <2>8. \A i \in 1..Len(t) : t[i] = log[Len(log) - Len(t) + i]
    BY <2>4, <2>6, Zenon
  <2> QED
    BY <2>3, <2>4, <2>5, <2>7, <2>8, Zenon
<1>3. CASE ~(Len(log) > EventLogMax)
  BY <1>1, <1>3 DEF Trimmed
<1> QED
  BY <1>2, <1>3, Zenon

(* A watcher stays a watcher whatever is sent to it (send).                *)
LEMMA SendType ==
    ASSUME NEW w \in memoryWatcher, NEW event \in Event
    PROVE  send(w, event) \in memoryWatcher
<1>1. w.ch \in Seq(Event)
  BY Zenon DEF memoryWatcher
<1>2. Append(w.ch, event) \in Seq(Event)
  BY <1>1, AppendProperties, Zenon
<1> QED
  BY <1>2, Zenon DEF send, memoryWatcher

(* Emit keeps the log and the watchers well formed (logEvent,              *)
(* notifyWatchers).                                                        *)
LEMMA EmitType ==
    ASSUME LogTypeOK, NEW gvk \in Kinds, NEW type \in {"ADDED", "MODIFIED", "DELETED"},
           NEW obj \in Object, Emit(gvk, type, obj)
    PROVE  LogTypeOK'
<1> DEFINE event == [type |-> type, obj |-> obj]
           entry == [revision |-> revision + 1, gvk |-> gvk, event |-> event]
           active == {w \in watchers[gvk] : ~watch[w].closed}
<1>1. event \in Event
  BY Zenon DEF Event
<1>2. entry \in eventLogEntry
  BY <1>1 DEF eventLogEntry, LogTypeOK
<1>3. /\ revision' = revision + 1
      /\ eventLog' = Trimmed(Append(eventLog, entry))
      /\ history' = Append(history, entry)
      /\ watchers' = [watchers EXCEPT ![gvk] = active]
      /\ watch' = [w \in Watchers |-> IF w \in active THEN send(watch[w], event) ELSE watch[w]]
  BY Zenon DEF Emit, logEvent, notifyWatchers
<1> HIDE DEF event, entry
<1>4. revision' \in Nat
  BY <1>3 DEF LogTypeOK
<1>5. eventLog' \in Seq(eventLogEntry)
  BY <1>2, <1>3, AppendProperties, TrimmedFacts, Zenon DEF LogTypeOK
<1>6. history' \in Seq(eventLogEntry)
  BY <1>2, <1>3, AppendProperties, Zenon DEF LogTypeOK
<1>7. watchers' \in [Kinds -> SUBSET Watchers]
  BY <1>3, Zenon DEF LogTypeOK
<1>8. \A w \in Watchers : send(watch[w], event) \in memoryWatcher
  BY <1>1, SendType, Zenon DEF LogTypeOK
<1>9. watch' \in [Watchers -> memoryWatcher]
  BY <1>3, <1>8, Zenon DEF LogTypeOK
<1> QED
  BY <1>4, <1>5, <1>6, <1>7, <1>9, Zenon DEF LogTypeOK

(* What eventsSince returns is a list of events.                           *)
LEMMA EventsSinceType ==
    ASSUME LogTypeOK, NEW from, NEW gvk
    PROVE  eventsSince(from, gvk) \in Seq(Event)
<1> DEFINE keep == Since(from, gvk)
           entries == Pick(eventLog, keep)
           events == [i \in DOMAIN entries |-> entries[i].event]
<1>1. eventLog \in Seq(eventLogEntry)
  BY Zenon DEF LogTypeOK
<1>2. keep \in SUBSET (1..Len(eventLog))
  BY <1>1, LenProperties, Zenon DEF Since
<1>3. entries \in Seq(eventLogEntry)
  <2> HIDE DEF keep
  <2> QED BY <1>1, <1>2, PickFacts, Zenon DEF Picked
<1> HIDE DEF entries
<1>4. DOMAIN entries = 1..Len(entries) /\ Len(entries) \in Nat
  BY <1>3, LenProperties, Zenon
<1>5. \A i \in 1..Len(entries) : entries[i].event \in Event
  <2>1. \A i \in 1..Len(entries) : entries[i] \in eventLogEntry
    BY <1>3, ElementOfSeq, Zenon
  <2> QED BY <2>1, Zenon DEF eventLogEntry
<1>6. events \in Seq(Event)
  BY <1>4, <1>5
<1>7. <<>> \in Seq(Event)
  BY EmptySeq, Zenon
<1> QED
  BY <1>6, <1>7, Zenon DEF eventsSince, entries

(* So is what the selector leaves of it.                                   *)
LEMMA FilterReplayType ==
    ASSUME NEW replay \in Seq(Event), NEW sel
    PROVE  filterReplay(replay, sel) \in Seq(Event)
<1> DEFINE keep == {i \in DOMAIN replay : Matches(sel, replay[i].obj)}
<1>1. keep \in SUBSET (1..Len(replay))
  BY LenProperties, Zenon
<1> HIDE DEF keep
<1>2. Pick(replay, keep) \in Seq(Event)
  BY <1>1, PickFacts, Zenon DEF Picked
<1> QED
  BY <1>2, Zenon DEF filterReplay, keep

(* Opening a watch keeps the registry and the watchers well formed.        *)
LEMMA OpenWatchType ==
    ASSUME LogTypeOK, NEW w \in Watchers, NEW gvk \in Kinds, NEW sel \in SUBSET Labels,
           NEW replay \in Seq(Event), NEW cursor \in Nat, openWatch(w, gvk, sel, replay, cursor)
    PROVE  LogTypeOK'
<1>1. chanCap(replay) \in Nat
  BY LenProperties, WatchLogAssumption DEF chanCap
<1>2. [stage |-> "open", gvk |-> gvk, sel |-> sel, ch |-> replay,
       cap |-> chanCap(replay), closed |-> FALSE, cursor |-> cursor] \in memoryWatcher
  BY <1>1, Zenon DEF memoryWatcher
<1>3. watch' \in [Watchers -> memoryWatcher]
  BY <1>2, Zenon DEF openWatch, LogTypeOK
<1>4. watchers' \in [Kinds -> SUBSET Watchers]
  BY Zenon DEF openWatch, LogTypeOK
<1> QED
  BY <1>3, <1>4, Zenon DEF openWatch, logVars, LogTypeOK

(* Watching, receiving and stopping keep the types (Watch, Stop).          *)
LEMMA ConsumeType ==
    ASSUME LogTypeOK, Consume
    PROVE  LogTypeOK'
<1>1. PICK w \in Watchers :
        \/ \E gvk \in Kinds, from \in 0..revision, sel \in SUBSET Labels : WatchFrom(w, gvk, from, sel)
        \/ \E gvk \in Kinds : WatchLive(w, gvk)
        \/ Recv(w)
        \/ StopClose(w)
        \/ removeWatcher(w)
  BY Zenon DEF Consume
<1>2. ASSUME NEW gvk \in Kinds, NEW from \in 0..revision, NEW sel \in SUBSET Labels,
             WatchFrom(w, gvk, from, sel)
      PROVE  LogTypeOK'
  <2>1. filterReplay(eventsSince(from, gvk), sel) \in Seq(Event)
    BY EventsSinceType, FilterReplayType, Zenon
  <2>2. from \in Nat
    BY DEF LogTypeOK
  <2> QED
    BY <1>2, <2>1, <2>2, OpenWatchType, Zenon DEF WatchFrom
<1>3. ASSUME NEW gvk \in Kinds, WatchLive(w, gvk)
      PROVE  LogTypeOK'
  <2>1. <<>> \in Seq(Event) /\ {} \in SUBSET Labels /\ revision \in Nat
    BY EmptySeq, Zenon DEF LogTypeOK
  <2> QED
    BY <1>3, <2>1, OpenWatchType, Zenon DEF WatchLive
<1>4. CASE Recv(w)
  <2>1. watch[w] \in memoryWatcher /\ watch[w].ch \in Seq(Event) /\ watch[w].ch # <<>>
    BY <1>4, Zenon DEF Recv, LogTypeOK, memoryWatcher
  <2>2. Tail(watch[w].ch) \in Seq(Event) /\ Head(watch[w].ch) \in Event
    BY <2>1, HeadTailProperties, Zenon
  <2>3. Head(watch[w].ch).obj.rv \in Nat
    BY <2>2, Zenon DEF Event, Object
  <2>4. watch' \in [Watchers -> memoryWatcher]
    BY <1>4, <2>1, <2>2, <2>3, Zenon DEF Recv, LogTypeOK, memoryWatcher
  <2> QED
    BY <1>4, <2>4, Zenon DEF Recv, LogTypeOK, logVars
<1>5. CASE StopClose(w)
  <2> DEFINE new == [watch[w] EXCEPT !.stage = "stopping", !.closed = TRUE]
  <2>1a. watch \in [Watchers -> memoryWatcher] /\ watch[w] \in memoryWatcher
    BY Zenon DEF LogTypeOK
  <2>1b. new \in memoryWatcher
    BY <2>1a, Zenon DEF memoryWatcher
  <2>1c. watch' = [watch EXCEPT ![w] = new]
    BY <1>5, <2>1a, Zenon DEF StopClose
  <2> HIDE DEF new
  <2>1. watch' \in [Watchers -> memoryWatcher]
    BY <2>1a, <2>1b, <2>1c, Zenon
  <2> QED
    BY <1>5, <2>1, Zenon DEF StopClose, LogTypeOK, logVars
<1>6. CASE removeWatcher(w)
  <2>1. watch' \in [Watchers -> memoryWatcher] /\ watch[w].gvk \in Kinds
    BY <1>6, ZenonT(30) DEF removeWatcher, LogTypeOK, memoryWatcher
  <2>2. watchers' \in [Kinds -> SUBSET Watchers]
    BY <1>6, <2>1, Zenon DEF removeWatcher, LogTypeOK
  <2> QED
    BY <1>6, <2>1, <2>2, Zenon DEF removeWatcher, LogTypeOK, logVars
<1> QED
  BY <1>1, <1>2, <1>3, <1>4, <1>5, <1>6, Zenon

(* A new store is well formed.                                             *)
LEMMA NewLogType ==
    ASSUME NewLog
    PROVE  LogTypeOK
<1>1. (CHOOSE gvk \in Kinds : TRUE) \in Kinds
  BY KindsAssumption, Zenon
<1>2. <<>> \in Seq(Event) /\ <<>> \in Seq(eventLogEntry)
  BY EmptySeq, Zenon
<1>3. watch \in [Watchers -> memoryWatcher]
  BY <1>1, <1>2, Zenon DEF NewLog, NoWatch, memoryWatcher
<1> QED
  BY <1>2, <1>3, Zenon DEF NewLog, NewWatchers, LogTypeOK

(* Logging an event under a new, larger revision leaves the log the recent *)
(* part of the history (logEvent).                                         *)
LEMMA LogEventRecent ==
    ASSUME LogTypeOK, LogIsRecentHistory, NEW entry \in eventLogEntry, logEvent(entry),
           revision < entry.revision, revision' = entry.revision,
           entry.event.obj.rv = entry.revision
    PROVE  LogIsRecentHistory'
<1> DEFINE H == Len(history)
           L == Len(eventLog)
           log == Append(eventLog, entry)
           M == Len(Trimmed(log))
<1>1. /\ history \in Seq(eventLogEntry) /\ eventLog \in Seq(eventLogEntry)
      /\ H \in Nat /\ L \in Nat /\ revision \in Nat /\ EventLogMax \in Nat
      /\ DOMAIN history = 1..H /\ DOMAIN eventLog = 1..L
  BY WatchLogAssumption, LenProperties, Zenon DEF LogTypeOK
<1>2. /\ history' \in Seq(eventLogEntry) /\ Len(history') = H + 1
      /\ \A i \in 1..H : history'[i] = history[i]
      /\ history'[H + 1] = entry
  BY <1>1, AppendProperties DEF logEvent
<1>3. DOMAIN history' = 1..(H + 1)
  BY <1>2, LenProperties, Zenon
<1>4. /\ log \in Seq(eventLogEntry) /\ Len(log) = L + 1
      /\ \A i \in 1..L : log[i] = eventLog[i]
      /\ log[L + 1] = entry
  BY <1>1, AppendProperties
<1>5. eventLog' = Trimmed(log)
  BY Zenon DEF logEvent
<1> HIDE DEF log
<1>6. /\ Trimmed(log) \in Seq(eventLogEntry)
      /\ M = IF L + 1 < EventLogMax THEN L + 1 ELSE EventLogMax
      /\ \A i \in 1..M : Trimmed(log)[i] = log[L + 1 - M + i]
  <2>1. /\ Trimmed(log) \in Seq(eventLogEntry)
        /\ M = IF Len(log) < EventLogMax THEN Len(log) ELSE EventLogMax
        /\ \A i \in 1..M : Trimmed(log)[i] = log[Len(log) - M + i]
    BY <1>4, TrimmedFacts, Zenon
  <2>2. M \in Nat
    BY <2>1, LenProperties, Zenon
  <2>3. Len(log) = L + 1 /\ L \in Nat
    BY <1>1, <1>4, Zenon
  <2> HIDE DEF M, L
  <2>4. \A i \in 1..M : Trimmed(log)[i] = log[L + 1 - M + i]
    <3> TAKE i \in 1..M
    <3>1. Len(log) - M + i = L + 1 - M + i BY <2>2, <2>3
    <3> QED BY <2>1, <3>1, Zenon
  <2>5. M = IF L + 1 < EventLogMax THEN L + 1 ELSE EventLogMax
    BY <2>1, <2>3, Zenon
  <2> QED BY <2>1, <2>4, <2>5, Zenon
<1>7. /\ L = IF H < EventLogMax THEN H ELSE EventLogMax
      /\ \A i \in 1..L : eventLog[i] = history[H - L + i]
  BY <1>1, Zenon DEF LogIsRecentHistory
<1>8. M \in Nat /\ M <= L + 1 /\ L <= H
  BY <1>1, <1>6, <1>7
<1>9. Len(eventLog') = (IF Len(history') < EventLogMax THEN Len(history') ELSE EventLogMax)
  BY <1>1, <1>2, <1>5, <1>6, <1>7
<1>10. \A i \in DOMAIN eventLog' : eventLog'[i] = history'[Len(history') - Len(eventLog') + i]
  <2>1. DOMAIN eventLog' = 1..M /\ Len(eventLog') = M
    BY <1>5, <1>6, LenProperties, Zenon
  <2> HIDE DEF M
  <2> SUFFICES \A i \in 1..M : eventLog'[i] = history'[H + 1 - M + i]
    <3>1. H \in Nat /\ M \in Nat
      BY <1>1, <1>8, Zenon
    <3> HIDE DEF H
    <3> QED BY <1>2, <2>1, <3>1
  <2> TAKE n \in 1..M
  <2> DEFINE j == L + 1 - M + n
             k == H + 1 - M + n
  <2>2. j \in 1..(L + 1) /\ k \in 1..(H + 1) /\ H - L + j = k
    BY <1>1, <1>8
  <2>3. eventLog'[n] = log[j]
    BY <1>5, <1>6, Zenon
  <2> HIDE DEF j, k
  <2>4. CASE j = L + 1
    <3>1. k = H + 1 BY <1>1, <2>2, <2>4
    <3> QED BY <1>2, <1>4, <2>3, <2>4, <3>1, Zenon DEF k
  <2>5. CASE j # L + 1
    <3>1. j \in 1..L /\ k \in 1..H BY <1>1, <1>8, <2>2, <2>5
    <3>2. log[j] = history[k] BY <1>4, <1>7, <2>2, <3>1, Zenon
    <3> QED BY <1>2, <2>3, <3>1, <3>2, Zenon DEF k
  <2> QED BY <2>4, <2>5, Zenon
<1>11. /\ \A i \in 1..H : history[i].revision \in Nat /\ history[i].revision <= revision
       /\ \A i \in 1..H : history[i].event.obj.rv = history[i].revision
       /\ \A i, j \in 1..H : i < j => history[i].revision < history[j].revision
  <2>1. \A i \in 1..H : history[i] \in eventLogEntry BY <1>1, ElementOfSeq, Zenon
  <2>2. \A i \in 1..H : history[i].revision \in Nat BY <2>1, Zenon DEF eventLogEntry
  <2> QED BY <1>1, <2>2, Zenon DEF LogIsRecentHistory
<1>12. entry.revision \in Nat
  BY Zenon DEF eventLogEntry
<1>13. \A i, j \in DOMAIN history' : i < j => history'[i].revision < history'[j].revision
  <2> SUFFICES ASSUME NEW i \in 1..(H + 1), NEW j \in 1..(H + 1), i < j
               PROVE  history'[i].revision < history'[j].revision
    BY <1>3, Zenon
  <2>1. i \in 1..H BY <1>1
  <2>2. CASE j = H + 1
    BY <1>1, <1>2, <1>11, <1>12, <2>1, <2>2
  <2>3. CASE j # H + 1
    <3>1. j \in 1..H BY <1>1, <2>3
    <3> QED BY <1>2, <1>11, <2>1, <3>1, Zenon
  <2> QED BY <2>2, <2>3, Zenon
<1>14. \A i \in DOMAIN history' : history'[i].revision <= revision' /\ history'[i].event.obj.rv = history'[i].revision
  <2> SUFFICES ASSUME NEW i \in 1..(H + 1)
               PROVE  history'[i].revision <= revision' /\ history'[i].event.obj.rv = history'[i].revision
    BY <1>3, Zenon
  <2>1. CASE i = H + 1
    BY <1>2, <1>12, <2>1
  <2>2. CASE i # H + 1
    <3>1. i \in 1..H BY <1>1, <2>2
    <3> QED BY <1>1, <1>2, <1>11, <1>12, <3>1
  <2> QED BY <2>1, <2>2, Zenon
<1> QED
  BY <1>9, <1>10, <1>13, <1>14, Zenon DEF LogIsRecentHistory

(* No step of a watcher's consumer touches the log.                        *)
LEMMA ConsumeKeepsLog ==
    ASSUME Consume
    PROVE  UNCHANGED logVars
  BY Zenon DEF Consume, WatchFrom, WatchLive, openWatch, Recv, StopClose, removeWatcher
-----------------------------------------------------------------------------
(* The part of LogIsRecentHistory that is about the history.               *)
HistoryOK ==
    /\ history \in Seq(eventLogEntry) /\ revision \in Nat
    /\ \A i, j \in DOMAIN history : i < j => history[i].revision < history[j].revision
    /\ \A i \in DOMAIN history :
          history[i].revision <= revision /\ history[i].event.obj.rv = history[i].revision

(* An event that a watch owes its consumer is in the channel, or was left  *)
(* out of the replay by the selector, or comes after the channel's end.    *)
Covered(v, i) ==
    \/ \E n \in DOMAIN v.ch : v.ch[n].obj.rv = history[i].revision
    \/ ~Matches(v.sel, history[i].event.obj)
    \/ v.closed /\ \A n \in DOMAIN v.ch : v.ch[n].obj.rv < history[i].revision

Stream(v) ==
    /\ \A n \in DOMAIN v.ch : \E i \in Due(v.gvk, v.cursor) : v.ch[n] = history[i].event
    /\ InOrder(v.ch)
    /\ \A i \in Due(v.gvk, v.cursor) : Covered(v, i)

(* Entries have natural revisions.                                         *)
LEMMA HistoryNat ==
    ASSUME HistoryOK
    PROVE  /\ DOMAIN history = 1..Len(history) /\ Len(history) \in Nat
           /\ \A i \in DOMAIN history : history[i] \in eventLogEntry /\ history[i].revision \in Nat
<1>1. DOMAIN history = 1..Len(history) /\ Len(history) \in Nat
  BY LenProperties, Zenon DEF HistoryOK
<1>2. \A i \in DOMAIN history : history[i] \in eventLogEntry
  BY <1>1, ElementOfSeq, Zenon DEF HistoryOK
<1> QED
  BY <1>1, <1>2, Zenon DEF eventLogEntry

(* Events in the channel of a sound stream have natural revisions, newer   *)
(* than the cursor and not newer than the store.                           *)
LEMMA StreamNat ==
    ASSUME HistoryOK, NEW v \in memoryWatcher, Stream(v)
    PROVE  /\ DOMAIN v.ch = 1..Len(v.ch) /\ Len(v.ch) \in Nat
           /\ \A n \in DOMAIN v.ch : /\ v.ch[n] \in Event /\ v.ch[n].obj.rv \in Nat
                                     /\ v.ch[n].obj.rv > v.cursor /\ v.ch[n].obj.rv <= revision
<1>1. v.ch \in Seq(Event) /\ v.cursor \in Nat
  BY Zenon DEF memoryWatcher
<1>2. DOMAIN v.ch = 1..Len(v.ch) /\ Len(v.ch) \in Nat
  BY <1>1, LenProperties, Zenon
<1>3. ASSUME NEW n \in DOMAIN v.ch
      PROVE  /\ v.ch[n] \in Event /\ v.ch[n].obj.rv \in Nat
             /\ v.ch[n].obj.rv > v.cursor /\ v.ch[n].obj.rv <= revision
  <2>1. PICK i \in Due(v.gvk, v.cursor) : v.ch[n] = history[i].event
    BY <1>3, Zenon DEF Stream
  <2>2. i \in DOMAIN history /\ history[i].revision > v.cursor
    BY <2>1, Zenon DEF Due
  <2>3. v.ch[n].obj.rv = history[i].revision /\ history[i].revision <= revision
    BY <2>1, <2>2, Zenon DEF HistoryOK
  <2>4. v.ch[n] \in Event
    BY <1>1, <1>2, ElementOfSeq, Zenon
  <2> QED BY <2>2, <2>3, <2>4, HistoryNat, Zenon
<1> QED
  BY <1>2, <1>3, Zenon

(* An entry is appended to the history under a new, larger revision.       *)
Grows(entry) ==
    /\ entry \in eventLogEntry /\ history' = Append(history, entry)
    /\ revision < entry.revision /\ entry.event.obj.rv = entry.revision

(* Then what was due is due, the new entry for its kind too, and no more.  *)
LEMMA GrowsDue ==
    ASSUME HistoryOK, NEW entry, Grows(entry), NEW gvk, NEW from
    PROVE  LET H == Len(history)
           IN  /\ history'[H + 1] = entry /\ entry.revision \in Nat
               /\ \A i \in DOMAIN history : history'[i] = history[i] /\ i # H + 1
               /\ \A i \in Due(gvk, from) : i \in Due(gvk, from)' /\ i \in DOMAIN history
               /\ \A i \in Due(gvk, from)' : i \in Due(gvk, from) \/ (i = H + 1 /\ entry.gvk = gvk)
               /\ entry.gvk = gvk /\ entry.revision > from => H + 1 \in Due(gvk, from)'
<1> DEFINE H == Len(history)
<1>1. DOMAIN history = 1..H /\ H \in Nat /\ history \in Seq(eventLogEntry)
  BY HistoryNat, Zenon DEF HistoryOK
<1>2. /\ history' \in Seq(eventLogEntry) /\ Len(history') = H + 1
      /\ \A i \in 1..H : history'[i] = history[i]
      /\ history'[H + 1] = entry
  BY <1>1, AppendProperties DEF Grows
<1>3. DOMAIN history' = 1..(H + 1)
  BY <1>2, LenProperties, Zenon
<1>4. entry.revision \in Nat
  BY Zenon DEF Grows, eventLogEntry
<1> HIDE DEF H
<1>5. \A i \in 1..(H + 1) : i = H + 1 \/ i \in 1..H
  BY <1>1
<1>6. H + 1 \in 1..(H + 1) /\ \A i \in 1..H : i \in 1..(H + 1) /\ i # H + 1
  BY <1>1
<1>7. \A i \in Due(gvk, from) : i \in Due(gvk, from)' /\ i \in DOMAIN history
  BY <1>1, <1>2, <1>3, <1>6, Zenon DEF Due
<1>8. \A i \in Due(gvk, from)' : i \in Due(gvk, from) \/ (i = H + 1 /\ entry.gvk = gvk)
  BY <1>1, <1>2, <1>3, <1>5, Zenon DEF Due
<1>9. entry.gvk = gvk /\ entry.revision > from => H + 1 \in Due(gvk, from)'
  BY <1>2, <1>3, <1>6, Zenon DEF Due
<1> QED
  BY <1>1, <1>2, <1>4, <1>6, <1>7, <1>8, <1>9, Zenon DEF H

(* A new event leaves a stream sound that is closed or of another kind.    *)
LEMMA StreamKept ==
    ASSUME HistoryOK, NEW entry, Grows(entry), NEW v \in memoryWatcher, Stream(v),
           v.closed \/ entry.gvk # v.gvk
    PROVE  Stream(v)'
<1> DEFINE H == Len(history)
<1>1. /\ history'[H + 1] = entry /\ entry.revision \in Nat
      /\ \A i \in DOMAIN history : history'[i] = history[i]
      /\ \A i \in Due(v.gvk, v.cursor) : i \in Due(v.gvk, v.cursor)' /\ i \in DOMAIN history
      /\ \A i \in Due(v.gvk, v.cursor)' : i \in Due(v.gvk, v.cursor) \/ (i = H + 1 /\ entry.gvk = v.gvk)
  BY GrowsDue, Zenon
<1>2. \A n \in DOMAIN v.ch : v.ch[n].obj.rv \in Nat /\ v.ch[n].obj.rv < entry.revision
  <2>1. \A n \in DOMAIN v.ch : v.ch[n].obj.rv \in Nat /\ v.ch[n].obj.rv <= revision BY StreamNat, Zenon
  <2>2. revision \in Nat /\ revision < entry.revision BY Zenon DEF HistoryOK, Grows
  <2> QED BY <1>1, <2>1, <2>2
<1> HIDE DEF H
<1>3. \A n \in DOMAIN v.ch : \E i \in Due(v.gvk, v.cursor)' : v.ch[n] = history'[i].event
  BY <1>1, Zenon DEF Stream
<1>4. ASSUME NEW i \in Due(v.gvk, v.cursor)' PROVE Covered(v, i)'
  <2>1. CASE i \in Due(v.gvk, v.cursor)
    BY <1>1, <2>1, Zenon DEF Stream, Covered
  <2>2. CASE i = H + 1 /\ entry.gvk = v.gvk
    BY <1>1, <1>2, <2>2, Zenon DEF Covered
  <2> QED BY <1>1, <2>1, <2>2, Zenon
<1> QED
  BY <1>3, <1>4, Zenon DEF Stream, InOrder

(* Sending an event of its kind to an open watch extends the stream, or    *)
(* ends it before the event if the channel is full (send).                 *)
LEMMA StreamSend ==
    ASSUME HistoryOK, NEW entry, Grows(entry), NEW v \in memoryWatcher, Stream(v),
           ~v.closed, entry.gvk = v.gvk, v.cursor <= revision,
           NEW u, u.gvk = v.gvk, u.sel = v.sel, u.cursor = v.cursor,
           \/ u.ch = v.ch /\ u.closed
           \/ u.ch = Append(v.ch, entry.event) /\ ~u.closed
    PROVE  Stream(u)'
<1> DEFINE H == Len(history)
           L == Len(v.ch)
<1>1. revision \in Nat /\ revision < entry.revision /\ v.cursor \in Nat /\ entry.event \in Event
  BY Zenon DEF HistoryOK, Grows, memoryWatcher, eventLogEntry
<1>2. /\ history'[H + 1] = entry /\ entry.revision \in Nat
      /\ \A i \in DOMAIN history : history'[i] = history[i]
      /\ \A i \in Due(v.gvk, v.cursor) : i \in Due(v.gvk, v.cursor)' /\ i \in DOMAIN history
      /\ \A i \in Due(v.gvk, v.cursor)' : i \in Due(v.gvk, v.cursor) \/ i = H + 1
      /\ entry.revision > v.cursor => H + 1 \in Due(v.gvk, v.cursor)'
  BY GrowsDue
<1>3. H + 1 \in Due(v.gvk, v.cursor)' /\ entry.event.obj.rv = entry.revision
  BY <1>1, <1>2 DEF Grows
<1>4. /\ DOMAIN v.ch = 1..L /\ L \in Nat
      /\ \A n \in 1..L : v.ch[n].obj.rv \in Nat /\ v.ch[n].obj.rv < entry.revision
  <2>1. /\ DOMAIN v.ch = 1..L /\ L \in Nat
        /\ \A n \in DOMAIN v.ch : v.ch[n].obj.rv \in Nat /\ v.ch[n].obj.rv <= revision
    BY StreamNat, Zenon
  <2> HIDE DEF L
  <2> QED BY <1>1, <1>2, <2>1
<1> HIDE DEF H
<1>5. CASE u.ch = v.ch /\ u.closed
  <2>1. \A n \in DOMAIN u.ch : \E i \in Due(u.gvk, u.cursor)' : u.ch[n] = history'[i].event
    BY <1>2, <1>5 DEF Stream
  <2>2. ASSUME NEW i \in Due(u.gvk, u.cursor)' PROVE Covered(u, i)'
    <3>1. CASE i \in Due(v.gvk, v.cursor)
      BY <1>2, <1>5, <3>1 DEF Stream, Covered
    <3>2. CASE i = H + 1
      BY <1>2, <1>4, <1>5, <3>2, Zenon DEF Covered
    <3> QED BY <1>2, <3>1, <3>2, Zenon
  <2> QED BY <1>5, <2>1, <2>2, Zenon DEF Stream, InOrder
<1>6. CASE u.ch = Append(v.ch, entry.event) /\ ~u.closed
  <2>1. /\ u.ch \in Seq(Event) /\ Len(u.ch) = L + 1
        /\ \A n \in 1..L : u.ch[n] = v.ch[n]
        /\ u.ch[L + 1] = entry.event
    <3>1. v.ch \in Seq(Event) BY Zenon DEF memoryWatcher
    <3> QED BY <1>1, <1>6, <3>1, AppendProperties
  <2>2. DOMAIN u.ch = 1..(L + 1)
    BY <2>1, LenProperties, Zenon
  <2> HIDE DEF L
  <2>3. \A n \in 1..(L + 1) : n = L + 1 \/ n \in 1..L
    BY <1>4
  <2>4. L + 1 \in 1..(L + 1) /\ \A n \in 1..L : n \in 1..(L + 1)
    BY <1>4
  <2>5. \A n \in DOMAIN u.ch : \E i \in Due(u.gvk, u.cursor)' : u.ch[n] = history'[i].event
    <3>1. \A n \in 1..L : \E i \in Due(v.gvk, v.cursor)' : u.ch[n] = history'[i].event
      <4> TAKE n \in 1..L
      <4>1. PICK i \in Due(v.gvk, v.cursor) : v.ch[n] = history[i].event BY <1>4, Zenon DEF Stream
      <4>2. i \in Due(v.gvk, v.cursor)' /\ history'[i] = history[i] BY <1>2, <4>1, Zenon
      <4> QED BY <2>1, <4>1, <4>2, Zenon
    <3>2. u.ch[L + 1] = history'[H + 1].event
      BY <1>2, <2>1, Zenon
    <3> QED BY <1>3, <2>2, <2>3, <3>1, <3>2, Zenon
  <2>6. ASSUME NEW m \in DOMAIN u.ch, NEW n \in DOMAIN u.ch, m < n
        PROVE  u.ch[m].obj.rv < u.ch[n].obj.rv
    <3>1. m \in 1..L BY <1>4, <2>2, <2>6
    <3>2. CASE n = L + 1
      BY <1>3, <1>4, <2>1, <3>1, <3>2, Zenon
    <3>3. CASE n \in 1..L
      BY <1>4, <2>1, <2>6, <3>1, <3>3, Zenon DEF Stream, InOrder
    <3> QED BY <2>2, <2>3, <3>2, <3>3, Zenon
  <2>7. ASSUME NEW i \in Due(u.gvk, u.cursor)' PROVE Covered(u, i)'
    <3>1. CASE i \in Due(v.gvk, v.cursor)
      <4>1. Covered(v, i) /\ history'[i] = history[i] BY <1>2, <3>1, Zenon DEF Stream
      <4> QED BY <1>4, <2>1, <2>2, <2>4, <4>1, Zenon DEF Covered
    <3>2. CASE i = H + 1
      BY <1>2, <1>3, <2>1, <2>2, <2>4, <3>2, Zenon DEF Covered
    <3> QED BY <1>2, <3>1, <3>2, Zenon
  <2> QED BY <2>5, <2>6, <2>7, Zenon DEF Stream, InOrder
<1> QED
  BY <1>5, <1>6, Zenon

(* Closing a stream, by Stop, leaves it sound.                             *)
LEMMA StreamClose ==
    ASSUME NEW v, Stream(v), NEW u, u.gvk = v.gvk, u.sel = v.sel, u.cursor = v.cursor,
           u.ch = v.ch, v.closed => u.closed
    PROVE  Stream(u)
  BY DEF Stream, Covered, InOrder

(* Receiving the first event of a stream: it is the next one the consumer  *)
(* is due, and the rest is the stream from there (Recv).                   *)
LEMMA StreamRecv ==
    ASSUME HistoryOK, NEW v \in memoryWatcher, Stream(v), v.ch # <<>>,
           NEW u, u.gvk = v.gvk, u.sel = v.sel, u.closed = v.closed,
           u.ch = Tail(v.ch), u.cursor = Head(v.ch).obj.rv
    PROVE  /\ Stream(u) /\ u.cursor <= revision
           /\ \E i \in Due(v.gvk, v.cursor) :
                 /\ u.cursor = history[i].revision
                 /\ \A j \in Due(v.gvk, v.cursor) : j < i => ~Matches(v.sel, history[j].event.obj)
<1> DEFINE L == Len(v.ch)
<1>1. /\ DOMAIN v.ch = 1..L /\ L \in Nat
      /\ \A n \in DOMAIN v.ch : v.ch[n].obj.rv \in Nat /\ v.ch[n].obj.rv <= revision
  BY StreamNat, Zenon
<1>2. v.ch \in Seq(Event)
  BY Zenon DEF memoryWatcher
<1>3. L # 0 /\ Head(v.ch) = v.ch[1]
  BY <1>2, EmptySeq, HeadTailProperties
<1>4. Tail(v.ch) \in Seq(Event) /\ Len(Tail(v.ch)) = L - 1 /\ \A n \in 1..(L - 1) : Tail(v.ch)[n] = v.ch[n + 1]
  BY <1>2, <1>3, HeadTailProperties
<1>5. DOMAIN u.ch = 1..(L - 1)
  BY <1>4, LenProperties, Zenon
<1> HIDE DEF L
<1>6. \A n \in 1..(L - 1) : n + 1 \in 1..L /\ u.ch[n] = v.ch[n + 1] /\ 1 < n + 1
  BY <1>1, <1>4
<1>7. \A n \in 1..L : n = 1 \/ (n - 1 \in 1..(L - 1) /\ (n - 1) + 1 = n /\ u.ch[n - 1] = v.ch[n])
  BY <1>1, <1>4
<1>8. 1 \in 1..L
  BY <1>1, <1>3
<1>9. PICK k \in Due(v.gvk, v.cursor) : v.ch[1] = history[k].event
  BY <1>1, <1>8, Zenon DEF Stream
<1>10. /\ k \in DOMAIN history /\ history[k].revision > v.cursor /\ history[k].gvk = v.gvk
       /\ u.cursor = history[k].revision /\ u.cursor <= revision
       /\ u.cursor \in Nat /\ v.cursor \in Nat
  BY <1>3, <1>9, HistoryNat DEF Due, HistoryOK, memoryWatcher
<1>11. ASSUME NEW i \in Due(u.gvk, u.cursor)
       PROVE  i \in Due(v.gvk, v.cursor) /\ i \in DOMAIN history /\ history[i].revision > u.cursor
  BY <1>10, <1>11, HistoryNat DEF Due
<1>12. ASSUME NEW n \in DOMAIN u.ch PROVE \E i \in Due(u.gvk, u.cursor) : u.ch[n] = history[i].event
  <2>1. n + 1 \in 1..L /\ u.ch[n] = v.ch[n + 1] /\ 1 < n + 1
    BY <1>5, <1>6, <1>12, Zenon
  <2>2. v.ch[1].obj.rv < v.ch[n + 1].obj.rv
    BY <1>1, <1>8, <2>1, Zenon DEF Stream, InOrder
  <2>3. PICK i \in Due(v.gvk, v.cursor) : v.ch[n + 1] = history[i].event
    BY <1>1, <2>1, Zenon DEF Stream
  <2>4. history[i].revision > u.cursor /\ i \in DOMAIN history
    BY <1>3, <2>2, <2>3, Zenon DEF Due, HistoryOK
  <2> QED BY <2>1, <2>3, <2>4, Zenon DEF Due
<1>13. InOrder(u.ch)
  <2> SUFFICES ASSUME NEW m \in 1..(L - 1), NEW n \in 1..(L - 1), m < n
               PROVE  u.ch[m].obj.rv < u.ch[n].obj.rv
    BY <1>5, Zenon DEF InOrder
  <2>1. m + 1 \in 1..L /\ n + 1 \in 1..L /\ m + 1 < n + 1 BY <1>1
  <2>2. v.ch[m + 1].obj.rv < v.ch[n + 1].obj.rv BY <1>1, <2>1, Zenon DEF Stream, InOrder
  <2> QED BY <1>6, <2>2, Zenon
<1>14. ASSUME NEW i \in Due(u.gvk, u.cursor) PROVE Covered(u, i)
  <2>1. Covered(v, i) /\ i \in DOMAIN history /\ history[i].revision > u.cursor
    BY <1>11, <1>14, Zenon DEF Stream
  <2>2. CASE \E n \in DOMAIN v.ch : v.ch[n].obj.rv = history[i].revision
    <3>1. PICK n \in 1..L : v.ch[n].obj.rv = history[i].revision
      BY <1>1, <2>2, Zenon
    <3>2. n # 1
      BY <1>3, <1>10, <2>1, <3>1, HistoryNat
    <3> QED BY <1>5, <1>7, <3>1, <3>2, Zenon DEF Covered
  <2>3. CASE ~Matches(v.sel, history[i].event.obj)
    BY <2>3, Zenon DEF Covered
  <2>4. CASE v.closed /\ \A n \in DOMAIN v.ch : v.ch[n].obj.rv < history[i].revision
    BY <1>1, <1>5, <1>6, <2>4, Zenon DEF Covered
  <2> QED BY <2>1, <2>2, <2>3, <2>4, Zenon DEF Covered
<1>15. ASSUME NEW j \in Due(v.gvk, v.cursor), j < k PROVE ~Matches(v.sel, history[j].event.obj)
  <2>1. j \in DOMAIN history /\ history[j].revision < u.cursor /\ history[j].revision \in Nat
    BY <1>10, <1>15, HistoryNat, Zenon DEF Due, HistoryOK
  <2>2. \A n \in 1..L : v.ch[n].obj.rv \in Nat /\ u.cursor <= v.ch[n].obj.rv
    <3> SUFFICES ASSUME NEW n \in 1..L PROVE v.ch[n].obj.rv \in Nat /\ u.cursor <= v.ch[n].obj.rv
      BY Zenon
    <3>1. v.ch[n].obj.rv \in Nat BY <1>1, Zenon
    <3>2. n = 1 \/ 1 < n BY <1>1
    <3>3. 1 < n => v.ch[1].obj.rv < v.ch[n].obj.rv
      BY <1>1, <1>8, Zenon DEF Stream, InOrder
    <3> QED BY <1>3, <1>10, <3>1, <3>2, <3>3
  <2>3. \A n \in 1..L : v.ch[n].obj.rv # history[j].revision /\ ~(v.ch[n].obj.rv < history[j].revision)
    BY <1>10, <2>1, <2>2
  <2> QED BY <1>1, <1>8, <1>15, <2>3, Zenon DEF Stream, Covered
<1> QED
  BY <1>9, <1>10, <1>12, <1>13, <1>14, <1>15, Zenon DEF Stream
-----------------------------------------------------------------------------
(* The log holds every entry from its first on, and its place in the       *)
(* history is that of its first.                                           *)
LEMMA LogPlace ==
    ASSUME LogTypeOK, LogIsRecentHistory
    PROVE  LET H == Len(history)  L == Len(eventLog)
           IN  /\ HistoryOK
               /\ H \in Nat /\ L \in Nat /\ L <= H
               /\ DOMAIN history = 1..H /\ DOMAIN eventLog = 1..L
               /\ \A k \in 1..L : H - L + k \in 1..H /\ eventLog[k] = history[H - L + k]
<1> DEFINE H == Len(history)
           L == Len(eventLog)
<1>1. /\ H \in Nat /\ L \in Nat /\ DOMAIN history = 1..H /\ DOMAIN eventLog = 1..L
  BY LenProperties, Zenon DEF LogTypeOK
<1>2. L <= H /\ \A k \in 1..L : eventLog[k] = history[H - L + k]
  <2>1. L = (IF H < EventLogMax THEN H ELSE EventLogMax) /\ EventLogMax \in Nat
    BY WatchLogAssumption, Zenon DEF LogIsRecentHistory
  <2>2. \A k \in 1..L : eventLog[k] = history[H - L + k]
    BY <1>1, Zenon DEF LogIsRecentHistory
  <2> HIDE DEF H, L
  <2> QED BY <1>1, <2>1, <2>2
<1>3. HistoryOK
  BY Zenon DEF HistoryOK, LogIsRecentHistory, LogTypeOK
<1> HIDE DEF H, L
<1>4. \A k \in 1..L : H - L + k \in 1..H
  BY <1>1, <1>2
<1> QED
  BY <1>1, <1>2, <1>3, <1>4, Zenon DEF H, L

(* What eventsSince returns for a revision that is not too old: every      *)
(* event due, and no other, in order.                                      *)
LEMMA EventsSinceFacts ==
    ASSUME LogTypeOK, LogIsRecentHistory, NEW gvk \in Kinds, NEW from \in 0..revision, ~TooOld(from)
    PROVE  LET events == eventsSince(from, gvk)
           IN  /\ events \in Seq(Event)
               /\ \A n \in DOMAIN events : \E i \in Due(gvk, from) : events[n] = history[i].event
               /\ \A i \in Due(gvk, from) : \E n \in DOMAIN events : events[n] = history[i].event
               /\ InOrder(events)
<1> DEFINE H == Len(history)
           L == Len(eventLog)
           events == eventsSince(from, gvk)
<1>1. /\ HistoryOK
      /\ H \in Nat /\ L \in Nat /\ L <= H
      /\ DOMAIN history = 1..H /\ DOMAIN eventLog = 1..L
      /\ \A k \in 1..L : H - L + k \in 1..H /\ eventLog[k] = history[H - L + k]
  BY LogPlace, Zenon
<1>2. events \in Seq(Event)
  BY EventsSinceType, Zenon
<1>3. revision \in Nat /\ from \in Nat /\ \A i \in 1..H : history[i].revision \in Nat
  BY <1>1, HistoryNat, SMTT(20) DEF HistoryOK
<1>4. CASE from >= revision
  <2>1. events = <<>> BY <1>4, Zenon DEF eventsSince
  <2>2. DOMAIN events = {} BY <2>1, EmptySeq
  <2>3. Due(gvk, from) = {}
    <3>1. \A i \in 1..H : history[i].revision <= revision BY <1>1, Zenon DEF HistoryOK
    <3>2. \A n \in Nat : n <= revision => ~(n > from) BY <1>3, <1>4
    <3> QED BY <1>1, <1>3, <3>1, <3>2, Zenon DEF Due
  <2> HIDE DEF events
  <2>4. InOrder(events) BY <2>2, Zenon DEF InOrder
  <2> QED BY <1>2, <2>2, <2>3, <2>4, Zenon DEF events
<1>5. CASE ~(from >= revision)
  <2> DEFINE keep == Since(from, gvk)
             entries == Pick(eventLog, keep)
  <2>1. eventLog \in Seq(eventLogEntry) BY Zenon DEF LogTypeOK
  <2>2. keep \in SUBSET (1..L) BY <1>1, Zenon DEF Since
  <2>3. PICK at : Picked(eventLogEntry, eventLog, keep, L, entries, at)
    <3> HIDE DEF keep
    <3> QED BY <2>1, <2>2, PickFacts, Zenon
  <2> DEFINE P == Len(entries)
  <2>4. events = [n \in DOMAIN entries |-> entries[n].event]
    BY <1>5, Zenon DEF eventsSince
  <2> HIDE DEF entries, events
  <2>5. /\ entries \in Seq(eventLogEntry)
        /\ \A n \in 1..P : at[n] \in keep /\ entries[n] = eventLog[at[n]]
        /\ \A m, n \in 1..P : m < n => at[m] < at[n]
        /\ \A k \in keep : \E n \in 1..P : at[n] = k
    <3>1. \A k \in keep : k <= L
      <4> HIDE DEF keep, L
      <4> QED BY <1>1, <2>2
    <3> HIDE DEF keep
    <3> QED BY <2>3, <3>1, Zenon DEF Picked
  <2>6. DOMAIN entries = 1..P BY <2>5, LenProperties, Zenon
  <2>7. DOMAIN events = 1..P /\ \A n \in 1..P : events[n] = eventLog[at[n]].event
    BY <2>4, <2>5, <2>6, Zenon
  <2> HIDE DEF P
  <2> DEFINE place(n) == H - L + at[n]
  <2>8. \A n \in 1..P : place(n) \in Due(gvk, from) /\ events[n] = history[place(n)].event
    <3> TAKE n \in 1..P
    <3>1. at[n] \in 1..L /\ eventLog[at[n]].revision > from /\ eventLog[at[n]].gvk = gvk
      BY <1>1, <2>5, Zenon DEF Since
    <3>2. place(n) \in 1..H /\ eventLog[at[n]] = history[place(n)] BY <1>1, <3>1, Zenon
    <3> QED BY <1>1, <2>7, <3>1, <3>2, Zenon DEF Due
  <2>9. ASSUME NEW i \in Due(gvk, from) PROVE \E n \in 1..P : events[n] = history[i].event
    <3>1. i \in 1..H /\ history[i].revision > from /\ history[i].gvk = gvk /\ history[i].revision \in Nat
      BY <1>1, <1>3, <2>9, Zenon DEF Due
    <3>2. eventLog # <<>> /\ ~(from + 1 < eventLog[1].revision)
      BY <1>3, <1>5 DEF TooOld
    <3>3. L # 0 BY <2>1, <3>2, EmptySeq, Zenon
    <3>4. 1 \in 1..L /\ H - L + 1 \in 1..H BY <1>1, <3>3
    <3>5. history[H - L + 1].revision \in Nat /\ history[H - L + 1].revision <= from + 1
      BY <1>1, <1>3, <3>2, <3>4
    <3>6. ~(i < H - L + 1)
      <4>1. i < H - L + 1 => history[i].revision < history[H - L + 1].revision
        BY <1>1, <3>1, <3>4, Zenon DEF HistoryOK
      <4> QED BY <1>3, <3>1, <3>5, <4>1
    <3> DEFINE k == i - (H - L)
    <3>7. k \in 1..L /\ H - L + k = i BY <1>1, <3>1, <3>6
    <3>8. eventLog[k] = history[i] BY <1>1, <3>7, Zenon
    <3>9. k \in keep BY <1>1, <3>1, <3>7, <3>8, Zenon DEF Since
    <3> HIDE DEF k
    <3>10. PICK n \in 1..P : at[n] = k BY <2>5, <3>9, Zenon
    <3> QED BY <2>7, <3>8, <3>10, Zenon
  <2>10. InOrder(events)
    <3> SUFFICES ASSUME NEW m \in 1..P, NEW n \in 1..P, m < n
                 PROVE  events[m].obj.rv < events[n].obj.rv
      BY <2>7, Zenon DEF InOrder
    <3>1. at[m] \in 1..L /\ at[n] \in 1..L /\ at[m] < at[n]
      <4> HIDE DEF keep, L
      <4> QED BY <2>2, <2>5, Zenon
    <3>2. place(m) \in 1..H /\ place(n) \in 1..H /\ place(m) < place(n)
      <4> HIDE DEF H, L
      <4> QED BY <1>1, <3>1, SMTT(20)
    <3> HIDE DEF place
    <3> QED BY <1>1, <2>8, <3>2, SMTT(20) DEF HistoryOK
  <2> HIDE DEF place
  <2> QED BY <1>2, <2>7, <2>8, <2>9, <2>10, Zenon DEF events
<1> QED
  BY <1>4, <1>5, Zenon

(* What the selector leaves of a replay.                                   *)
LEMMA FilterFacts ==
    ASSUME NEW events \in Seq(Event), InOrder(events), NEW sel
    PROVE  LET replay == filterReplay(events, sel)
           IN  /\ replay \in Seq(Event)
               /\ \A n \in DOMAIN replay : \E m \in DOMAIN events : replay[n] = events[m]
               /\ \A m \in DOMAIN events :
                     Matches(sel, events[m].obj) => \E n \in DOMAIN replay : replay[n] = events[m]
               /\ InOrder(replay)
<1> DEFINE keep == {i \in DOMAIN events : Matches(sel, events[i].obj)}
           replay == Pick(events, keep)
           L == Len(events)
           P == Len(replay)
<1>1. DOMAIN events = 1..L /\ L \in Nat
  BY LenProperties, Zenon
<1>2. filterReplay(events, sel) = replay /\ keep \in SUBSET (1..L)
  BY <1>1, Zenon DEF filterReplay
<1>3. \A m \in DOMAIN events : Matches(sel, events[m].obj) <=> m \in keep
  BY Zenon
<1> HIDE DEF keep
<1>4. PICK at : Picked(Event, events, keep, L, replay, at)
  BY <1>2, PickFacts, Zenon
<1> HIDE DEF replay
<1>5. \A k \in keep : k <= L /\ k \in DOMAIN events
  BY <1>1, <1>2
<1>6. /\ replay \in Seq(Event)
      /\ \A n \in 1..P : at[n] \in keep /\ replay[n] = events[at[n]]
      /\ \A m, n \in 1..P : m < n => at[m] < at[n]
      /\ \A k \in keep : \E n \in 1..P : at[n] = k
  BY <1>4, <1>5, Zenon DEF Picked
<1>7. DOMAIN replay = 1..P
  BY <1>6, LenProperties, Zenon
<1> HIDE DEF P, L
<1>8. \A n \in DOMAIN replay : \E m \in DOMAIN events : replay[n] = events[m]
  BY <1>5, <1>6, <1>7, Zenon
<1>9. \A m \in keep : \E n \in DOMAIN replay : replay[n] = events[m]
  BY <1>6, <1>7
<1>10. InOrder(replay)
  BY <1>5, <1>6, <1>7 DEF InOrder
<1> QED
  BY <1>2, <1>3, <1>6, <1>8, <1>9, <1>10, Zenon

(* A watch opened with the replay is a sound stream from its revision.     *)
LEMMA StreamOpen ==
    ASSUME LogTypeOK, LogIsRecentHistory, NEW gvk \in Kinds, NEW from \in 0..revision, ~TooOld(from),
           NEW sel, NEW v, v.gvk = gvk, v.sel = sel, v.cursor = from,
           v.ch = filterReplay(eventsSince(from, gvk), sel)
    PROVE  Stream(v)
<1> DEFINE events == eventsSince(from, gvk)
<1>1. /\ events \in Seq(Event)
      /\ \A n \in DOMAIN events : \E i \in Due(gvk, from) : events[n] = history[i].event
      /\ \A i \in Due(gvk, from) : \E n \in DOMAIN events : events[n] = history[i].event
      /\ InOrder(events)
  BY EventsSinceFacts, Zenon
<1> HIDE DEF events
<1>2. /\ \A n \in DOMAIN v.ch : \E m \in DOMAIN events : v.ch[n] = events[m]
      /\ \A m \in DOMAIN events :
            Matches(sel, events[m].obj) => \E n \in DOMAIN v.ch : v.ch[n] = events[m]
      /\ InOrder(v.ch)
  <2>1. v.ch = filterReplay(events, sel) BY Zenon DEF events
  <2> QED BY <1>1, <2>1, FilterFacts
<1>3. \A i \in Due(gvk, from) : history[i].event.obj.rv = history[i].revision
  BY LogPlace, Zenon DEF HistoryOK, Due
<1>4. ASSUME NEW i \in Due(gvk, from) PROVE Covered(v, i)
  <2>1. PICK n \in DOMAIN events : events[n] = history[i].event BY <1>1, Zenon
  <2> QED BY <1>2, <1>3, <2>1 DEF Covered
<1> QED
  BY <1>1, <1>2, <1>4 DEF Stream

(* So is a watch of live events only: nothing is due yet.                  *)
LEMMA StreamLive ==
    ASSUME HistoryOK, NEW v, v.ch = <<>>, v.cursor = revision
    PROVE  Stream(v)
<1>1. DOMAIN v.ch = {}
  BY EmptySeq
<1>2. Due(v.gvk, v.cursor) = {}
  <2>1. \A i \in DOMAIN history : ~(history[i].revision > revision) BY HistoryNat DEF HistoryOK
  <2> QED BY <2>1, Zenon DEF Due
<1> QED
  BY <1>1, <1>2, Zenon DEF Stream, InOrder

(* Resumption is exact in every state whose log is the recent history.     *)
LEMMA ExactFromLog ==
    ASSUME LogTypeOK, LogIsRecentHistory
    PROVE  EventsSinceExact
<1> SUFFICES ASSUME NEW from \in 0..revision
             PROVE  /\ TooOld(from) => \E r \in (from + 1)..revision :
                                          \A i \in DOMAIN eventLog : eventLog[i].revision # r
                    /\ ~TooOld(from) =>
                         \A gvk \in Kinds :
                            LET events == eventsSince(from, gvk)
                            IN  /\ {events[i] : i \in DOMAIN events} = {history[i].event : i \in Due(gvk, from)}
                                /\ InOrder(events)
  BY Zenon DEF EventsSinceExact
<1> DEFINE H == Len(history)
           L == Len(eventLog)
<1>1. /\ HistoryOK
      /\ H \in Nat /\ L \in Nat /\ L <= H
      /\ DOMAIN history = 1..H /\ DOMAIN eventLog = 1..L
      /\ \A k \in 1..L : H - L + k \in 1..H /\ eventLog[k] = history[H - L + k]
  BY LogPlace, Zenon
<1>2. revision \in Nat /\ \A i \in 1..H : history[i].revision \in Nat
  BY <1>1, HistoryNat, Zenon DEF HistoryOK
<1> HIDE DEF H, L
<1>3. ASSUME TooOld(from) PROVE \A i \in 1..L : eventLog[i].revision # from + 1
  <2> SUFFICES ASSUME NEW i \in 1..L PROVE eventLog[i].revision # from + 1
    BY Zenon
  <2>1. 1 \in 1..L /\ eventLog # <<>> BY <1>1, EmptySeq
  <2>2. from + 1 < eventLog[1].revision BY <1>3, <2>1, Zenon DEF TooOld
  <2>3. H - L + 1 \in 1..H /\ H - L + i \in 1..H /\ (i = 1 \/ H - L + 1 < H - L + i)
    BY <1>1, <2>1
  <2>4. i = 1 \/ eventLog[1].revision < eventLog[i].revision
    BY <1>1, <2>1, <2>3 DEF HistoryOK
  <2>5. eventLog[1].revision \in Nat /\ eventLog[i].revision \in Nat
    BY <1>1, <1>2, <2>1, Zenon
  <2> QED BY <1>2, <2>2, <2>4, <2>5
<1>4. ASSUME TooOld(from) PROVE from + 1 \in (from + 1)..revision
  BY <1>2, <1>4 DEF TooOld
<1>5. ASSUME ~TooOld(from), NEW gvk \in Kinds
      PROVE  LET events == eventsSince(from, gvk)
             IN  /\ {events[i] : i \in DOMAIN events} = {history[i].event : i \in Due(gvk, from)}
                 /\ InOrder(events)
  <2> DEFINE events == eventsSince(from, gvk)
  <2>1. /\ \A n \in DOMAIN events : \E i \in Due(gvk, from) : events[n] = history[i].event
        /\ \A i \in Due(gvk, from) : \E n \in DOMAIN events : events[n] = history[i].event
        /\ InOrder(events)
    BY <1>5, EventsSinceFacts, Zenon
  <2> HIDE DEF events
  <2>2. {events[i] : i \in DOMAIN events} = {history[i].event : i \in Due(gvk, from)}
    BY <2>1
  <2> QED BY <2>1, <2>2, Zenon DEF events
<1> QED
  BY <1>1, <1>3, <1>4, <1>5, Zenon
-----------------------------------------------------------------------------
(***************************************************************************)
(* The inductive invariant of the watches.  A watch that is registered is  *)
(* registered under its own kind only and has not been removed; one that   *)
(* is open and unclosed is registered, so that notifyWatchers finds it;    *)
(* Stop closes before it removes.  Together they say that an event of its  *)
(* kind passes a watch by only if the watch is closed.                     *)
(***************************************************************************)
WatcherOK(w) ==
    /\ \A gvk \in Kinds :
          w \in watchers[gvk] => gvk = watch[w].gvk /\ watch[w].stage \in {"open", "stopping"}
    /\ watch[w].stage = "open" /\ ~watch[w].closed => w \in watchers[watch[w].gvk]
    /\ watch[w].stage \in {"stopping", "stopped"} => watch[w].closed
    /\ watch[w].cursor <= revision
    /\ watch[w].stage # "free" => Stream(watch[w])

WatchOK == \A w \in Watchers : WatcherOK(w)

(* send changes only the channel and closed.                               *)
LEMMA SendFacts ==
    ASSUME NEW v \in memoryWatcher, NEW event, ~v.closed
    PROVE  LET u == send(v, event)
           IN  /\ u.stage = v.stage /\ u.gvk = v.gvk /\ u.sel = v.sel /\ u.cursor = v.cursor
               /\ \/ u.ch = v.ch /\ u.closed
                  \/ u.ch = Append(v.ch, event) /\ ~u.closed
<1>1. CASE Len(v.ch) < v.cap
  <2>1. send(v, event) = [v EXCEPT !.ch = Append(v.ch, event)] BY <1>1, Zenon DEF send
  <2>2. \A ch : LET u == [v EXCEPT !.ch = ch]
                IN  /\ u.stage = v.stage /\ u.gvk = v.gvk /\ u.sel = v.sel /\ u.cursor = v.cursor
                    /\ u.ch = ch /\ u.closed = v.closed
    BY Zenon DEF memoryWatcher
  <2> QED BY <2>1, <2>2
<1>2. CASE ~(Len(v.ch) < v.cap)
  <2>1. send(v, event) = [v EXCEPT !.closed = TRUE] BY <1>2, Zenon DEF send
  <2>2. LET u == [v EXCEPT !.closed = TRUE]
        IN  /\ u.stage = v.stage /\ u.gvk = v.gvk /\ u.sel = v.sel /\ u.cursor = v.cursor
            /\ u.ch = v.ch /\ u.closed
    BY Zenon DEF memoryWatcher
  <2> QED BY <2>1, <2>2, Zenon
<1> QED
  BY <1>1, <1>2, Zenon

(* An event sent to the watchers keeps every watch sound (Emit).           *)
LEMMA EmitWatch ==
    ASSUME LogTypeOK, LogIsRecentHistory, WatchOK, NEW gvk \in Kinds,
           NEW type \in {"ADDED", "MODIFIED", "DELETED"}, NEW obj \in Object, obj.rv = revision + 1,
           Emit(gvk, type, obj)
    PROVE  WatchOK'
<1> DEFINE event == [type |-> type, obj |-> obj]
           entry == [revision |-> revision + 1, gvk |-> gvk, event |-> event]
           active == {w \in watchers[gvk] : ~watch[w].closed}
<1>1. /\ revision' = revision + 1 /\ history' = Append(history, entry)
      /\ watchers' = [watchers EXCEPT ![gvk] = active]
      /\ watch' = [w \in Watchers |-> IF w \in active THEN send(watch[w], event) ELSE watch[w]]
  BY Zenon DEF Emit, logEvent, notifyWatchers
<1>2. event \in Event /\ entry \in eventLogEntry
  BY DEF Event, eventLogEntry, LogTypeOK
<1>3. entry.revision = revision + 1 /\ entry.gvk = gvk /\ entry.event = event /\ event.obj.rv = revision + 1
  BY Zenon
<1> HIDE DEF event, entry
<1>4. revision \in Nat /\ HistoryOK
  BY LogPlace, Zenon DEF LogTypeOK
<1>5. Grows(entry)
  BY <1>1, <1>2, <1>3, <1>4 DEF Grows
<1>6. /\ watchers \in [Kinds -> SUBSET Watchers] /\ watch \in [Watchers -> memoryWatcher]
  BY Zenon DEF LogTypeOK
<1>7. /\ \A w \in active : w \in watchers[gvk] /\ ~watch[w].closed
      /\ \A w \in watchers[gvk] : ~watch[w].closed => w \in active
  BY Zenon
<1>8. /\ watchers'[gvk] = active
      /\ \A g \in Kinds : g # gvk => watchers'[g] = watchers[g]
  BY <1>1, <1>6, Zenon
<1> HIDE DEF active
<1> SUFFICES ASSUME NEW w \in Watchers PROVE WatcherOK(w)'
  BY Zenon DEF WatchOK
<1>9. watch[w] \in memoryWatcher /\ WatcherOK(w) /\ watch[w].cursor \in Nat
  BY <1>6, Zenon DEF WatchOK, memoryWatcher
<1>10. CASE w \in active
  <2>1. watch'[w] = send(watch[w], event) /\ ~watch[w].closed
    BY <1>1, <1>7, <1>10, Zenon
  <2>2. /\ watch'[w].stage = watch[w].stage /\ watch'[w].gvk = watch[w].gvk
        /\ watch'[w].sel = watch[w].sel /\ watch'[w].cursor = watch[w].cursor
        /\ \/ watch'[w].ch = watch[w].ch /\ watch'[w].closed
           \/ watch'[w].ch = Append(watch[w].ch, event) /\ ~watch'[w].closed
    BY <1>9, <2>1, SendFacts
  <2>3. gvk = watch[w].gvk /\ watch[w].stage = "open"
    BY <1>7, <1>9, <1>10, <2>1, Zenon DEF WatcherOK
  <2>4. Stream(watch[w]) /\ watch[w].cursor <= revision
    BY <1>9, <2>3, Zenon DEF WatcherOK
  <2>5. \A u : /\ u.gvk = watch[w].gvk /\ u.sel = watch[w].sel /\ u.cursor = watch[w].cursor
               /\ \/ u.ch = watch[w].ch /\ u.closed
                  \/ u.ch = Append(watch[w].ch, event) /\ ~u.closed
               => Stream(u)'
    <3> DEFINE v == watch[w]
    <3>1. v \in memoryWatcher /\ Stream(v) /\ ~v.closed /\ entry.gvk = v.gvk /\ v.cursor <= revision
      BY <1>3, <1>9, <2>1, <2>3, <2>4, Zenon
    <3> QED BY <1>3, <1>4, <1>5, <3>1, StreamSend, Zenon
  <2>6. Stream(watch[w])'
    BY <2>2, <2>5, Zenon
  <2>7. \A g \in Kinds : w \in watchers'[g] => g = watch[w].gvk
    BY <1>8, <1>9, <2>3, Zenon DEF WatcherOK
  <2>8. watch'[w].cursor <= revision'
    BY <1>1, <1>4, <1>9, <2>2, <2>4
  <2> QED BY <1>8, <1>10, <2>2, <2>3, <2>6, <2>7, <2>8, Zenon DEF WatcherOK
<1>11. CASE w \notin active
  <2>1. watch'[w] = watch[w]
    BY <1>1, <1>11, Zenon
  <2>2. w \notin watchers'[gvk] /\ \A g \in Kinds : w \in watchers'[g] => w \in watchers[g]
    BY <1>8, <1>11, Zenon
  <2>3. watch[w].stage # "free" => watch[w].closed \/ entry.gvk # watch[w].gvk
    BY <1>3, <1>7, <1>9, <1>11, Zenon DEF WatcherOK, memoryWatcher
  <2>4. watch[w].stage # "free" => Stream(watch[w])'
    <3>1. \A v \in memoryWatcher : Stream(v) /\ (v.closed \/ entry.gvk # v.gvk) => Stream(v)'
      BY <1>4, <1>5, StreamKept, Zenon
    <3>2. watch[w].stage # "free" => \A v : v = watch[w] => Stream(v)'
      BY <1>9, <2>3, <3>1, Zenon DEF WatcherOK
    <3> QED BY <2>1, <3>2, Zenon
  <2>5. watch[w].cursor <= revision'
    BY <1>1, <1>4, <1>9 DEF WatcherOK
  <2>6. watch[w].stage = "open" /\ ~watch[w].closed => w \in watchers'[watch[w].gvk]
    BY <1>7, <1>8, <1>9, <1>11, Zenon DEF WatcherOK, memoryWatcher
  <2> QED BY <1>9, <2>1, <2>2, <2>4, <2>5, <2>6, Zenon DEF WatcherOK
<1> QED
  BY <1>10, <1>11, Zenon

(* Opening a watch on a sound stream keeps the watches sound (Watch).      *)
LEMMA OpenWatchOK ==
    ASSUME LogTypeOK, WatchOK, NEW w \in Watchers, NEW gvk \in Kinds, NEW sel, NEW replay,
           NEW cursor, cursor <= revision, openWatch(w, gvk, sel, replay, cursor),
           \A v : v.gvk = gvk /\ v.sel = sel /\ v.ch = replay /\ v.cursor = cursor => Stream(v)
    PROVE  WatchOK'
<1> DEFINE new == [stage |-> "open", gvk |-> gvk, sel |-> sel, ch |-> replay,
                   cap |-> chanCap(replay), closed |-> FALSE, cursor |-> cursor]
<1>1. /\ watch[w].stage \in {"free", "stopped"}
      /\ watch' = [watch EXCEPT ![w] = new]
      /\ watchers' = [watchers EXCEPT ![gvk] = watchers[gvk] \cup {w}]
      /\ UNCHANGED <<revision, eventLog, history>>
  BY Zenon DEF openWatch, logVars
<1>2. /\ watchers \in [Kinds -> SUBSET Watchers] /\ watch \in [Watchers -> memoryWatcher]
  BY Zenon DEF LogTypeOK
<1>3. /\ new.stage = "open" /\ new.gvk = gvk /\ ~new.closed /\ new.cursor = cursor
      /\ new.sel = sel /\ new.ch = replay
  BY Zenon
<1>4. Stream(new)
  BY <1>3, Zenon
<1> HIDE DEF new
<1>5. \A v : Stream(v)' <=> Stream(v)
  BY <1>1 DEF Stream, Covered, Due
<1>6. ASSUME NEW x \in Watchers PROVE WatcherOK(x)'
  <2>1. WatcherOK(x) BY Zenon DEF WatchOK
  <2>2. CASE x = w
    <3>1. watch'[x] = new BY <1>1, <1>2, <2>2, Zenon
    <3>2. \A g \in Kinds : w \notin watchers[g] BY <1>1, <2>1, <2>2, Zenon DEF WatcherOK
    <3>3. \A g \in Kinds : w \in watchers'[g] <=> g = gvk BY <1>1, <1>2, <3>2, Zenon
    <3>4. Stream(watch[x])' BY <1>4, <1>5, <3>1, Zenon
    <3> QED BY <1>1, <1>3, <2>2, <3>1, <3>3, <3>4, Zenon DEF WatcherOK
  <2>3. CASE x # w
    <3>1. watch'[x] = watch[x] BY <1>1, <1>2, <2>3, Zenon
    <3>2. \A g \in Kinds : x \in watchers'[g] <=> x \in watchers[g] BY <1>1, <1>2, <2>3, Zenon
    <3>3. Stream(watch[x])' <=> Stream(watch[x]) BY <1>5, <3>1, Zenon
    <3>4. watch[x].gvk \in Kinds BY <1>2, Zenon DEF memoryWatcher
    <3> QED BY <1>1, <2>1, <3>1, <3>2, <3>3, <3>4, Zenon DEF WatcherOK
  <2> QED BY <2>2, <2>3, Zenon
<1> QED
  BY <1>6, Zenon DEF WatchOK

(* A step of one watch keeps them all sound if it keeps that one.          *)
LEMMA OneWatch ==
    ASSUME LogTypeOK, WatchOK, NEW w \in Watchers, UNCHANGED <<revision, eventLog, history>>,
           \A x \in Watchers : x # w =>
              /\ watch'[x] = watch[x]
              /\ \A g \in Kinds : x \in watchers'[g] <=> x \in watchers[g],
           WatcherOK(w)'
    PROVE  WatchOK'
<1>1. \A v : Stream(v)' <=> Stream(v)
  BY DEF Stream, Covered, Due
<1>2. ASSUME NEW x \in Watchers, x # w PROVE WatcherOK(x)'
  <2>1. WatcherOK(x) /\ watch[x].gvk \in Kinds BY Zenon DEF WatchOK, LogTypeOK, memoryWatcher
  <2>2. watch'[x] = watch[x] /\ \A g \in Kinds : x \in watchers'[g] <=> x \in watchers[g] BY <1>2, Zenon
  <2>3. Stream(watch[x])' <=> Stream(watch[x]) BY <1>1, <2>2, Zenon
  <2> QED BY <2>1, <2>2, <2>3, Zenon DEF WatcherOK
<1> QED
  BY <1>2, Zenon DEF WatchOK

(* Receiving moves the consumer to the next event it is due (Recv).        *)
LEMMA RecvWatch ==
    ASSUME LogTypeOK, LogIsRecentHistory, WatchOK, NEW w \in Watchers, Recv(w)
    PROVE  /\ WatchOK'
           /\ \E i \in Due(watch[w].gvk, watch[w].cursor) :
                 /\ watch'[w].cursor = history[i].revision
                 /\ \A j \in Due(watch[w].gvk, watch[w].cursor) :
                       j < i => ~Matches(watch[w].sel, history[j].event.obj)
           /\ watch' = [watch EXCEPT ![w] = watch'[w]]
           /\ watch'[w].stage = watch[w].stage /\ watch'[w].gvk = watch[w].gvk
           /\ watch'[w].sel = watch[w].sel
<1> DEFINE v == watch[w]
<1>1. /\ v.stage # "free" /\ v.ch # <<>>
      /\ watch' = [watch EXCEPT ![w].ch = Tail(@), ![w].cursor = Head(watch[w].ch).obj.rv]
      /\ UNCHANGED <<revision, eventLog, history, watchers>>
  BY Zenon DEF Recv, logVars
<1>2. watch \in [Watchers -> memoryWatcher] /\ v \in memoryWatcher
  BY Zenon DEF LogTypeOK
<1>3. HistoryOK
  BY LogPlace, Zenon
<1>4. WatcherOK(w)
  BY Zenon DEF WatchOK
<1>5. /\ watch'[w].stage = v.stage /\ watch'[w].gvk = v.gvk /\ watch'[w].sel = v.sel
      /\ watch'[w].closed = v.closed /\ watch'[w].ch = Tail(v.ch)
      /\ watch'[w].cursor = Head(v.ch).obj.rv
  BY <1>1, <1>2, Zenon DEF memoryWatcher
<1>6. \A x \in Watchers : x # w => watch'[x] = watch[x]
  BY <1>1, <1>2, Zenon
<1>7. watch' = [watch EXCEPT ![w] = watch'[w]]
  BY <1>1, <1>2, Zenon DEF memoryWatcher
<1>8. Stream(v)
  BY <1>1, <1>4, Zenon DEF WatcherOK
<1> HIDE DEF v
<1>9. \A u : /\ u.gvk = v.gvk /\ u.sel = v.sel /\ u.closed = v.closed
             /\ u.ch = Tail(v.ch) /\ u.cursor = Head(v.ch).obj.rv
             => /\ Stream(u) /\ u.cursor <= revision
                /\ \E i \in Due(v.gvk, v.cursor) :
                      /\ u.cursor = history[i].revision
                      /\ \A j \in Due(v.gvk, v.cursor) : j < i => ~Matches(v.sel, history[j].event.obj)
  BY <1>1, <1>2, <1>3, <1>8, StreamRecv, Zenon
<1>10. /\ Stream(watch'[w]) /\ watch'[w].cursor <= revision
       /\ \E i \in Due(v.gvk, v.cursor) :
             /\ watch'[w].cursor = history[i].revision
             /\ \A j \in Due(v.gvk, v.cursor) : j < i => ~Matches(v.sel, history[j].event.obj)
  BY <1>5, <1>9, Zenon
<1>11. \A u : Stream(u)' <=> Stream(u)
  BY <1>1 DEF Stream, Covered, Due
<1>12. Stream(watch[w])'
  BY <1>10, <1>11, Zenon
<1>13. WatcherOK(w)'
  BY <1>1, <1>4, <1>5, <1>10, <1>12, Zenon DEF WatcherOK, v
<1>14. WatchOK'
  BY <1>1, <1>6, <1>13, OneWatch, Zenon
<1> QED
  BY <1>5, <1>7, <1>10, <1>14, Zenon DEF v

(* The first half of Stop ends the stream where it is.                     *)
LEMMA StopCloseWatch ==
    ASSUME LogTypeOK, WatchOK, NEW w \in Watchers, StopClose(w)
    PROVE  WatchOK'
<1>1. /\ watch[w].stage = "open"
      /\ watch' = [watch EXCEPT ![w].stage = "stopping", ![w].closed = TRUE]
      /\ UNCHANGED <<revision, eventLog, history, watchers>>
  BY Zenon DEF StopClose, logVars
<1>2. watch \in [Watchers -> memoryWatcher] /\ WatcherOK(w)
  BY Zenon DEF LogTypeOK, WatchOK
<1>3. /\ watch'[w].stage = "stopping" /\ watch'[w].closed /\ watch'[w].gvk = watch[w].gvk
      /\ watch'[w].sel = watch[w].sel /\ watch'[w].ch = watch[w].ch
      /\ watch'[w].cursor = watch[w].cursor
  BY <1>1, <1>2, Zenon DEF memoryWatcher
<1>4. \A x \in Watchers : x # w => watch'[x] = watch[x]
  BY <1>1, <1>2, Zenon
<1>5. Stream(watch'[w])
  BY <1>1, <1>2, <1>3, StreamClose, Zenon DEF WatcherOK
<1>6. \A u : Stream(u)' <=> Stream(u)
  BY <1>1 DEF Stream, Covered, Due
<1>7. Stream(watch[w])'
  BY <1>5, <1>6, Zenon
<1>8. WatcherOK(w)'
  BY <1>1, <1>2, <1>3, <1>7, Zenon DEF WatcherOK
<1> QED
  BY <1>1, <1>4, <1>8, OneWatch, Zenon

(* The second half takes the watch off the list of its kind, the only one  *)
(* that can hold it.                                                       *)
LEMMA RemoveWatch ==
    ASSUME LogTypeOK, WatchOK, NEW w \in Watchers, removeWatcher(w)
    PROVE  WatchOK'
<1>1. /\ watch[w].stage = "stopping"
      /\ watch' = [watch EXCEPT ![w].stage = "stopped"]
      /\ watchers' = [watchers EXCEPT ![watch[w].gvk] = @ \ {w}]
      /\ UNCHANGED <<revision, eventLog, history>>
  BY Zenon DEF removeWatcher, logVars
<1>2. /\ watch \in [Watchers -> memoryWatcher] /\ WatcherOK(w) /\ watch[w].gvk \in Kinds
      /\ watchers \in [Kinds -> SUBSET Watchers]
  BY Zenon DEF LogTypeOK, WatchOK, memoryWatcher
<1>3. /\ watch'[w].stage = "stopped" /\ watch'[w].closed = watch[w].closed /\ watch'[w].gvk = watch[w].gvk
      /\ watch'[w].sel = watch[w].sel /\ watch'[w].ch = watch[w].ch
      /\ watch'[w].cursor = watch[w].cursor
  BY <1>1, <1>2, Zenon DEF memoryWatcher
<1>4. \A x \in Watchers : x # w =>
         /\ watch'[x] = watch[x]
         /\ \A g \in Kinds : x \in watchers'[g] <=> x \in watchers[g]
  BY <1>1, <1>2, Zenon
<1>5. \A g \in Kinds : w \notin watchers'[g]
  BY <1>1, <1>2, Zenon DEF WatcherOK
<1>6. Stream(watch'[w])
  BY <1>1, <1>2, <1>3, StreamClose, Zenon DEF WatcherOK
<1>7. \A u : Stream(u)' <=> Stream(u)
  BY <1>1 DEF Stream, Covered, Due
<1>8. Stream(watch[w])'
  BY <1>6, <1>7, Zenon
<1>9. WatcherOK(w)'
  BY <1>1, <1>2, <1>3, <1>5, <1>8, Zenon DEF WatcherOK
<1> QED
  BY <1>1, <1>4, <1>9, OneWatch, Zenon

(* Watching, receiving and stopping keep every watch sound.                *)
LEMMA ConsumeWatch ==
    ASSUME LogTypeOK, LogIsRecentHistory, WatchOK, Consume
    PROVE  WatchOK'
<1>1. PICK w \in Watchers :
        \/ \E gvk \in Kinds, from \in 0..revision, sel \in SUBSET Labels : WatchFrom(w, gvk, from, sel)
        \/ \E gvk \in Kinds : WatchLive(w, gvk)
        \/ Recv(w)
        \/ StopClose(w)
        \/ removeWatcher(w)
  BY Zenon DEF Consume
<1>2. revision \in Nat /\ HistoryOK
  BY LogPlace, Zenon DEF LogTypeOK
<1>3. ASSUME NEW gvk \in Kinds, NEW from \in 0..revision, NEW sel \in SUBSET Labels,
             WatchFrom(w, gvk, from, sel)
      PROVE  WatchOK'
  <2> DEFINE replay == filterReplay(eventsSince(from, gvk), sel)
  <2>1. ~TooOld(from) /\ openWatch(w, gvk, sel, replay, from) BY <1>3, Zenon DEF WatchFrom
  <2>2. from <= revision BY <1>2
  <2>3. \A v : v.gvk = gvk /\ v.sel = sel /\ v.ch = replay /\ v.cursor = from => Stream(v)
    BY <2>1, StreamOpen, Zenon
  <2> HIDE DEF replay
  <2> QED BY <2>1, <2>2, <2>3, OpenWatchOK, Zenon
<1>4. ASSUME NEW gvk \in Kinds, WatchLive(w, gvk) PROVE WatchOK'
  <2>1. openWatch(w, gvk, {}, <<>>, revision) BY <1>4, Zenon DEF WatchLive
  <2>2. revision <= revision BY <1>2
  <2>3. \A v : v.gvk = gvk /\ v.sel = {} /\ v.ch = <<>> /\ v.cursor = revision => Stream(v)
    BY <1>2, StreamLive, Zenon
  <2>4. \A cursor : cursor = revision => WatchOK'
    BY <2>1, <2>2, <2>3, OpenWatchOK, Zenon
  <2> QED BY <2>4, Zenon
<1> QED
  BY <1>1, <1>3, <1>4, RecvWatch, StopCloseWatch, RemoveWatch, Zenon

(* A new store has no watches.                                             *)
LEMMA NewLogWatch ==
    ASSUME NewLog
    PROVE  WatchOK
  BY DEF NewLog, NewWatchers, NoWatch, WatchOK, WatcherOK

(* What a sound watch promises its consumer, and the registry.             *)
LEMMA WatchPromise ==
    ASSUME LogTypeOK, WatchOK
    PROVE  WatchOrdered /\ WatchNoGap /\ RegistryMatches
<1>1. WatchOrdered
  BY Zenon DEF WatchOK, WatcherOK, WatchOrdered, Stream
<1>2. WatchNoGap
  <2> SUFFICES ASSUME NEW w \in Watchers, watch[w].stage # "free", watch[w].sel = {},
                      NEW i \in Due(watch[w].gvk, watch[w].cursor)
               PROVE  \/ history[i].revision \in Buffered(w)
                      \/ watch[w].closed /\ \A b \in Buffered(w) : b < history[i].revision
    BY Zenon DEF WatchNoGap
  <2>1. Covered(watch[w], i)
    BY Zenon DEF WatchOK, WatcherOK, Stream
  <2>2. Matches(watch[w].sel, history[i].event.obj)
    BY Zenon DEF Matches
  <2> QED BY <2>1, <2>2, Zenon DEF Covered, Buffered
<1>3. RegistryMatches
  BY Zenon DEF WatchOK, WatcherOK, RegistryMatches
<1> QED
  BY <1>1, <1>2, <1>3, Zenon
-----------------------------------------------------------------------------
(* Mutations never make a channel longer than its capacity (send).         *)
LEMMA EmitFits ==
    ASSUME LogTypeOK, NeverBlocksOnPreload, NEW gvk, NEW type, NEW obj, Emit(gvk, type, obj)
    PROVE  NeverBlocksOnPreload'
<1> DEFINE event == [type |-> type, obj |-> obj]
           active == {w \in watchers[gvk] : ~watch[w].closed}
<1>1. watch' = [w \in Watchers |-> IF w \in active THEN send(watch[w], event) ELSE watch[w]]
  BY Zenon DEF Emit, notifyWatchers
<1> HIDE DEF event, active
<1>2. ASSUME NEW v \in memoryWatcher, Len(v.ch) <= v.cap
      PROVE  Len(send(v, event).ch) <= send(v, event).cap
  <2>1. v.ch \in Seq(Event) /\ Len(v.ch) \in Nat /\ v.cap \in Nat
    BY LenProperties, Zenon DEF memoryWatcher
  <2>2. CASE ~v.closed /\ Len(v.ch) < v.cap
    <3>1. send(v, event).ch = Append(v.ch, event) /\ send(v, event).cap = v.cap
      BY <2>2, Zenon DEF send, memoryWatcher
    <3>2. Len(Append(v.ch, event)) = Len(v.ch) + 1
      BY <2>1
    <3> QED BY <2>1, <2>2, <3>1, <3>2
  <2>3. CASE v.closed \/ ~(Len(v.ch) < v.cap)
    <3>1. send(v, event).ch = v.ch /\ send(v, event).cap = v.cap
      BY <2>3, Zenon DEF send, memoryWatcher
    <3> QED BY <1>2, <3>1, Zenon
  <2> QED BY <2>2, <2>3, Zenon
<1> QED
  BY <1>1, <1>2, Zenon DEF NeverBlocksOnPreload, LogTypeOK

(* Nor do the consumers, and the capacity Watch chooses has room for the   *)
(* whole replay (chanCap).                                                 *)
LEMMA ConsumeFits ==
    ASSUME LogTypeOK, NeverBlocksOnPreload, Consume
    PROVE  NeverBlocksOnPreload'
<1>1. PICK w \in Watchers :
        \/ \E gvk \in Kinds, from \in 0..revision, sel \in SUBSET Labels : WatchFrom(w, gvk, from, sel)
        \/ \E gvk \in Kinds : WatchLive(w, gvk)
        \/ Recv(w)
        \/ StopClose(w)
        \/ removeWatcher(w)
  BY Zenon DEF Consume
<1>2. watch \in [Watchers -> memoryWatcher] /\ watch[w] \in memoryWatcher /\ Len(watch[w].ch) <= watch[w].cap
  BY Zenon DEF LogTypeOK, NeverBlocksOnPreload
<1>3. ASSUME NEW gvk, NEW sel, NEW replay \in Seq(Event), NEW cursor, openWatch(w, gvk, sel, replay, cursor)
      PROVE  NeverBlocksOnPreload'
  <2>1. Len(replay) <= chanCap(replay)
    BY LenProperties, WatchLogAssumption DEF chanCap
  <2>2. /\ watch'[w].ch = replay /\ watch'[w].cap = chanCap(replay)
        /\ \A x \in Watchers : x # w => watch'[x] = watch[x]
    BY <1>2, <1>3, Zenon DEF openWatch
  <2> QED BY <2>1, <2>2, Zenon DEF NeverBlocksOnPreload
<1>4. ASSUME NEW gvk \in Kinds, NEW from \in 0..revision, NEW sel \in SUBSET Labels,
             WatchFrom(w, gvk, from, sel)
      PROVE  NeverBlocksOnPreload'
  BY <1>3, <1>4, EventsSinceType, FilterReplayType, Zenon DEF WatchFrom
<1>5. ASSUME NEW gvk \in Kinds, WatchLive(w, gvk) PROVE NeverBlocksOnPreload'
  <2>1. <<>> \in Seq(Event) BY EmptySeq, Zenon
  <2>2. \A cursor : openWatch(w, gvk, {}, <<>>, cursor) => NeverBlocksOnPreload' BY <1>3, <2>1, Zenon
  <2> QED BY <1>5, <2>2, Zenon DEF WatchLive
<1>6. CASE Recv(w)
  <2>1. watch[w].ch # <<>> /\ watch'[w].ch = Tail(watch[w].ch) /\ watch'[w].cap = watch[w].cap
        /\ \A x \in Watchers : x # w => watch'[x] = watch[x]
    BY <1>2, <1>6, Zenon DEF Recv, memoryWatcher
  <2>2. watch[w].ch \in Seq(Event) /\ watch[w].cap \in Nat BY <1>2, Zenon DEF memoryWatcher
  <2>3. Len(Tail(watch[w].ch)) = Len(watch[w].ch) - 1 /\ Len(watch[w].ch) \in Nat
    BY <2>1, <2>2, HeadTailProperties, LenProperties, Zenon
  <2>4. Len(watch'[w].ch) <= watch'[w].cap BY <1>2, <2>1, <2>2, <2>3
  <2> QED BY <2>1, <2>4, Zenon DEF NeverBlocksOnPreload
<1>7. CASE StopClose(w) \/ removeWatcher(w)
  <2>1. \A x \in Watchers : watch'[x].ch = watch[x].ch /\ watch'[x].cap = watch[x].cap
    <3>1. CASE StopClose(w) BY <1>2, <3>1, Zenon DEF StopClose, memoryWatcher
    <3>2. CASE removeWatcher(w) BY <1>2, <3>2, Zenon DEF removeWatcher, memoryWatcher
    <3> QED BY <1>7, <3>1, <3>2, Zenon
  <2> QED BY <2>1, Zenon DEF NeverBlocksOnPreload
<1> QED
  BY <1>1, <1>4, <1>5, <1>6, <1>7, Zenon
==============================================================================
