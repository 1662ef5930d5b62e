---------------------- MODULE ManagementQueriesProofs -----------------------
(***************************************************************************)
(* The management queries for every state, filter and limit, and what they *)
(* rest on: the invariants of the consolidator that hold whatever becomes  *)
(* of the snapshot loader's group.                                         *)
(***************************************************************************)
EXTENDS ManagementQueries, ConsolidatorProofs, FiniteSetTheorems, WellFoundedInduction

(* Only an append changes the log. *)
LEMMA StepOfTheLog ==
    ASSUME [Next]_vars
    PROVE  (\E e \in Event : AppendRecord(e)) \/ UNCHANGED <<log, canon>>
<1>1. CASE AppendByReplayingHub
  BY <1>1 DEF AppendByReplayingHub
<1>2. CASE UNCHANGED vars
  BY <1>2 DEF vars
<1>3. CASE LoadSnapshot \/ LoadInterrupted \/ PublishInitial
  BY <1>3 DEF LoadSnapshot, LoadInterrupted, PublishInitial
<1>4. CASE TailConsume \/ CheckCaughtUp \/ BackgroundFetch \/ Receive
  BY <1>4, Zenon DEF TailConsume, CheckCaughtUp, BackgroundFetch, Receive
<1>5. CASE ReduceRejected \/ ReduceUnchanged \/ SaveAndInstall \/ SaveFails
  BY <1>5 DEF ReduceRejected, ReduceUnchanged, SaveAndInstall, SaveFails
<1>6. CASE Ack \/ AckFails \/ ConsumerError \/ ContextOver
  BY <1>6 DEF Ack, AckFails, ConsumerError, ContextOver
<1>7. CASE \E c \in Clients : Request(c) \/ Refresh(c) \/ Answer(c)
  BY <1>7 DEF Request, Refresh, Answer
<1>8. CASE Exit \/ Crash
  BY <1>8 DEF Exit, Crash, Terminate
<1>9. QED
  BY <1>1, <1>2, <1>3, <1>4, <1>5, <1>6, <1>7, <1>8, Zenon DEF Next

LEMMA StepKeepsEntries ==
    ASSUME ConsolidatorInv, CanonKeepsEntries, [Next]_vars
    PROVE  CanonKeepsEntries'
<1>1. CASE \E e \in Event : AppendRecord(e)
  BY <1>1, Facts, AppendKeepsEntries
<1>2. CASE UNCHANGED <<log, canon>>
  BY <1>2 DEF CanonKeepsEntries, Index, Reduction
<1>3. QED
  BY <1>1, <1>2, StepOfTheLog

(* An answer is read from a saved snapshot that is at least as new as any  *)
(* answer before it, so it shows at least what that one showed.            *)
LEMMA AnswersKeepEntries ==
    ASSUME ConsolidatorInv, CanonKeepsEntries, NEW c \in Clients, request[c] = "reading",
           NEW earlier \in snapshots, earlier.revision <= served
    PROVE  KeepsEntries(earlier, snapshot)
<1>1. snapshot \in snapshots /\ served <= snapshot.revision
  BY Facts DEF ConsumeInv, MemoryInv
<1>2. PICK m \in 0..Index : earlier = Reduction(m)
  BY Facts DEF DurableInv, SavedSnapshotsAreReductions
<1>3. PICK n \in 0..Index : snapshot = Reduction(n)
  BY <1>1, Facts DEF DurableInv, SavedSnapshotsAreReductions
<1>4. CASE m <= n
  BY <1>2, <1>3, <1>4 DEF CanonKeepsEntries
<1>5. CASE n <= m
  <2>1. earlier.revision \in Nat /\ snapshot.revision \in Nat /\ served \in Nat
    BY <1>2, <1>3, Facts, Zenon
  <2>2. /\ snapshot.revision <= earlier.revision
        /\ snapshot.revision = earlier.revision => snapshot = earlier
    BY <1>2, <1>3, <1>5, Facts, Zenon DEF LogInv, CanonIsOrdered
  <2>3. snapshot = earlier /\ earlier \in Snapshot
    BY <1>1, <1>2, <2>1, <2>2, Facts
  <2>4. QED
    BY <2>3, KeepsReflexive
<1>6. QED
  BY <1>4, <1>5, Facts

(* ADR 0017: what a management query has returned is found by every later  *)
(* one, in a state that is not older, and a removed subscription stays     *)
(* removed; the queries read a snapshot behind a barrier                   *)
(* (management/query.go:139-205).                                          *)
THEOREM InspectionIsMonotonic ==
    ASSUME ~InterruptedLoads
    PROVE  Spec => []QueriesNeverGoBack
<1>1. Init => CanonKeepsEntries
  BY CanonKeepsInit DEF Init
<1>2. ConsolidatorInv /\ CanonKeepsEntries /\ [Next]_vars => CanonKeepsEntries'
  BY StepKeepsEntries
<1>3. ConsolidatorInv /\ CanonKeepsEntries => QueriesNeverGoBack
  <2> SUFFICES ASSUME ConsolidatorInv, CanonKeepsEntries, NEW c \in Clients,
                      NEW earlier \in snapshots,
                      request[c] = "reading", earlier.revision <= served
               PROVE  /\ \A s \in Subscriptions : GetSubscription(earlier, s) # NotFound =>
                            LET was == GetSubscription(earlier, s).view.entry
                                is == GetSubscription(snapshot, s)
                            IN  /\ is # NotFound /\ was.revision <= is.view.entry.revision
                                /\ was.status = "removed" => is.view.entry = was
                      /\ \A t \in Topics : GetTopic(earlier, t) # NotFound =>
                            /\ GetTopic(snapshot, t) # NotFound
                            /\ GetTopic(earlier, t).view.entry.revision <=
                                  GetTopic(snapshot, t).view.entry.revision
    BY Zenon DEF QueriesNeverGoBack
  <2>1. KeepsEntries(earlier, snapshot)
    BY AnswersKeepEntries
  <2>2. ASSUME NEW x, NEW s
        PROVE  /\ x.subscriptions[s].status # "absent" =>
                     /\ GetSubscription(x, s) # NotFound
                     /\ GetSubscription(x, s).view.entry = x.subscriptions[s]
               /\ x.subscriptions[s].status = "absent" => GetSubscription(x, s) = NotFound
    BY SMTT(30) DEF GetSubscription, NotFound, Found, subscriptionView
  <2>3. ASSUME NEW x, NEW t
        PROVE  /\ x.topics[t].status # "absent" =>
                     /\ GetTopic(x, t) # NotFound
                     /\ GetTopic(x, t).view.entry = x.topics[t]
               /\ x.topics[t].status = "absent" => GetTopic(x, t) = NotFound
    BY SMTT(30) DEF GetTopic, NotFound, Found, topicView
  <2>4. ASSUME NEW s \in Subscriptions, GetSubscription(earlier, s) # NotFound
        PROVE  /\ GetSubscription(snapshot, s) # NotFound
               /\ GetSubscription(earlier, s).view.entry.revision <=
                     GetSubscription(snapshot, s).view.entry.revision
               /\ GetSubscription(earlier, s).view.entry.status = "removed" =>
                     GetSubscription(snapshot, s).view.entry = GetSubscription(earlier, s).view.entry
    <3>1. KeepsSubscription(earlier, snapshot, s)
      BY <2>1 DEF KeepsEntries
    <3>2. earlier.subscriptions[s].status # "absent"
      BY <2>2, <2>4
    <3>3. snapshot.subscriptions[s].status # "absent"
      BY <3>1, <3>2 DEF KeepsSubscription
    <3>4. QED
      BY <2>2, <3>1, <3>2, <3>3, Zenon DEF KeepsSubscription
  <2>5. ASSUME NEW t \in Topics, GetTopic(earlier, t) # NotFound
        PROVE  /\ GetTopic(snapshot, t) # NotFound
               /\ GetTopic(earlier, t).view.entry.revision <=
                     GetTopic(snapshot, t).view.entry.revision
    <3>1. KeepsTopic(earlier, snapshot, t)
      BY <2>1 DEF KeepsEntries
    <3>2. earlier.topics[t].status # "absent"
      BY <2>3, <2>5
    <3>3. snapshot.topics[t].status # "absent"
      BY <3>1, <3>2 DEF KeepsTopic
    <3>4. QED
      BY <2>3, <3>1, <3>2, <3>3, Zenon DEF KeepsTopic
  <2>6. QED
    BY <2>4, <2>5, Zenon
<1>4. QED
  BY <1>1, <1>2, <1>3, Invariance, PTL DEF Spec

-----------------------------------------------------------------------------
(* The least-number principle: a set of numbers has a least one.  It is    *)
(* the induction of the proofs about loops below.                          *)
LEMMA LeastNumber ==
    ASSUME NEW T \in SUBSET Nat, T # {}
    PROVE  \E x \in T : \A y \in T : x <= y
<1> DEFINE R == {ss \in Nat \X Nat : ss[1] < ss[2]}
<1>1. IsWellFoundedOn(R, Nat)
  BY NatLessThanWellFounded DEF OpToRel
<1>2. \A x, y \in Nat : y < x => <<y, x>> \in R
  OBVIOUS
<1> HIDE DEF R
<1>3. PICK x \in T : \A y \in T : ~(<<y, x>> \in R)
  BY <1>1, WFMin, Zenon
<1>4. x \in Nat /\ \A y \in T : y \in Nat
  OBVIOUS
<1>5. \A y \in T : ~(y < x)
  BY <1>2, <1>3, <1>4, Zenon
<1>6. \A y \in T : x <= y
  BY <1>4, <1>5
<1>7. QED
  BY <1>6

-----------------------------------------------------------------------------
(* The loop of a list: g[i] is the page after i of its first n turns. *)
IsLoop(g, n, ids, wanted, limit) ==
    g = [i \in 0..n |-> IF i = 0 THEN <<>> ELSE Turn(g[i - 1], ids[i], wanted, limit)]

LEMMA LoopExists ==
    ASSUME NEW K, NEW ids \in Seq(K), NEW wanted, NEW limit
    PROVE  \E g : IsLoop(g, Len(ids), ids, wanted, limit)
<1> DEFINE T == {n \in 0..Len(ids) : ~ \E g : IsLoop(g, n, ids, wanted, limit)}
<1>1. Len(ids) \in Nat /\ T \in SUBSET Nat
  OBVIOUS
<1>2. SUFFICES ASSUME T # {} PROVE FALSE
  BY <1>1
<1>3. PICK n \in T : \A m \in T : n <= m
  <2> HIDE DEF T
  <2> QED
    BY <1>1, <1>2, LeastNumber
<1>4. n \in 0..Len(ids) /\ ~ \E g : IsLoop(g, n, ids, wanted, limit)
  OBVIOUS
<1>5. CASE n = 0
  <2>1. IsLoop([i \in 0..0 |-> <<>>], 0, ids, wanted, limit)
    BY DEF IsLoop
  <2>2. QED
    BY <1>4, <1>5, <2>1
<1>6. CASE n # 0
  <2>1. n - 1 \in 0..Len(ids) /\ n - 1 \notin T
    BY <1>1, <1>3, <1>4, <1>6
  <2>2. PICK g : IsLoop(g, n - 1, ids, wanted, limit)
    BY <2>1
  <2> DEFINE h == [i \in 0..n |-> IF i < n THEN g[i] ELSE Turn(g[n - 1], ids[n], wanted, limit)]
  <2>3. ASSUME NEW i \in 0..n
        PROVE  h[i] = IF i = 0 THEN <<>> ELSE Turn(h[i - 1], ids[i], wanted, limit)
    <3>1. CASE i < n
      <4>1. /\ i \in 0..(n - 1) /\ h[i] = g[i]
            /\ i # 0 => i - 1 \in 0..n /\ i - 1 < n /\ h[i - 1] = g[i - 1]
        BY <1>4, <3>1
      <4>2. g[i] = IF i = 0 THEN <<>> ELSE Turn(g[i - 1], ids[i], wanted, limit)
        BY <2>2, <4>1, Zenon DEF IsLoop
      <4>3. QED
        BY <4>1, <4>2, Zenon
    <3>2. CASE i = n
      <4>1. n \in 0..n /\ n - 1 \in 0..n /\ n - 1 < n /\ ~(n < n)
        BY <1>4, <1>6
      <4>2. h[n] = Turn(g[n - 1], ids[n], wanted, limit) /\ h[n - 1] = g[n - 1]
        BY <4>1
      <4> HIDE DEF h
      <4>3. QED
        BY <1>6, <3>2, <4>2, Zenon
    <3>3. i < n \/ i = n
      BY <1>4
    <3>4. QED
      BY <3>1, <3>2, <3>3, Zenon
  <2>4. IsLoop(h, n, ids, wanted, limit)
    BY <2>3, Zenon DEF IsLoop
  <2>5. QED
    BY <1>4, <2>4
<1>7. QED
  BY <1>5, <1>6

LEMMA ListedIsLoop ==
    ASSUME NEW K, NEW ids \in Seq(K), NEW wanted, NEW limit
    PROVE  IsLoop(Listed(ids, wanted, limit), Len(ids), ids, wanted, limit)
<1>1. PICK g : IsLoop(g, Len(ids), ids, wanted, limit)
  BY LoopExists
<1>2. QED
  BY <1>1, Zenon DEF Listed, IsLoop

(* The places of what is wanted among the first n keys. *)
Places(ids, wanted, n) == {k \in 1..n : ids[k] \in wanted}

(* The invariant of the loop: the page after n turns. *)
LoopInv(page, n, ids, wanted, limit) ==
    LET places == Places(ids, wanted, n) IN
    /\ page \in Seq(wanted)
    /\ Len(page) <= limit
    /\ Len(page) < limit => Len(page) = Cardinality(places)
    /\ \A i \in 1..Len(page) : \E k \in places :
          ids[k] = page[i] /\ Cardinality({j \in places : j <= k}) = i

LEMMA PlacesAreFinite ==
    ASSUME NEW ids, NEW wanted, NEW n \in Nat
    PROVE  /\ IsFiniteSet(Places(ids, wanted, n))
           /\ Cardinality(Places(ids, wanted, n)) \in Nat
<1>1. IsFiniteSet(1..n)
  BY FS_Interval
<1>2. Places(ids, wanted, n) \subseteq 1..n
  BY DEF Places
<1>3. QED
  BY <1>1, <1>2, FS_Subset, FS_CardinalityType

LEMMA LoopStep ==
    ASSUME NEW K, NEW ids \in Seq(K), NEW wanted, NEW limit \in Nat, NEW n \in 1..Len(ids),
           NEW page, LoopInv(page, n - 1, ids, wanted, limit)
    PROVE  LoopInv(Turn(page, ids[n], wanted, limit), n, ids, wanted, limit)
<1> DEFINE next == Turn(page, ids[n], wanted, limit)
           before == Places(ids, wanted, n - 1)
           after == Places(ids, wanted, n)
<1>1. n \in Nat /\ n - 1 \in Nat /\ n \notin before
  BY DEF Places
<1>2. IsFiniteSet(before) /\ Cardinality(before) \in Nat
  BY <1>1, PlacesAreFinite
<1>3. /\ page \in Seq(wanted) /\ Len(page) \in Nat /\ Len(page) <= limit
      /\ Len(page) < limit => Len(page) = Cardinality(before)
  BY DEF LoopInv
<1>4. \A k \in before : {j \in after : j <= k} = {j \in before : j <= k}
  BY <1>1 DEF Places
<1>5. before \subseteq after
  BY <1>1 DEF Places
<1>6. \A i \in 1..Len(page) : \E k \in after :
         ids[k] = page[i] /\ Cardinality({j \in after : j <= k}) = i
  <2> HIDE DEF before, after
  <2> SUFFICES ASSUME NEW i \in 1..Len(page)
               PROVE  \E k \in after :
                         ids[k] = page[i] /\ Cardinality({j \in after : j <= k}) = i
    BY Zenon
  <2>1. PICK k \in before : ids[k] = page[i] /\ Cardinality({j \in before : j <= k}) = i
    BY Zenon DEF LoopInv, before
  <2>2. {j \in after : j <= k} = {j \in before : j <= k}
    BY <1>4, Zenon
  <2>3. QED
    BY <1>5, <2>1, <2>2, Zenon
<1>7. CASE ids[n] \notin wanted
  <2>1. after = before /\ next = page
    BY <1>1, <1>7 DEF Places, Turn
  <2>2. QED
    BY <2>1, Zenon DEF LoopInv
<1>8. CASE ids[n] \in wanted /\ Len(page) < limit
  <2>1. after = before \cup {n}
    BY <1>1, <1>8 DEF Places
  <2>2. {j \in after : j <= n} = after /\ n \in after
    BY <1>1, <2>1 DEF Places
  <2>3. next = Append(page, ids[n])
    BY <1>8 DEF Turn
  <2>4. /\ next \in Seq(wanted) /\ Len(next) = Len(page) + 1 /\ next[Len(page) + 1] = ids[n]
        /\ \A i \in 1..Len(page) : next[i] = page[i]
    <3> HIDE DEF next, before, after
    <3>1. next = Append(page, ids[n]) /\ page \in Seq(wanted) /\ ids[n] \in wanted
      BY <1>3, <1>8, <2>3
    <3>2. QED
      BY <3>1
  <2> HIDE DEF next, before, after
  <2>5. Cardinality(after) = Cardinality(before) + 1
    BY <1>1, <1>2, <2>1, FS_AddElement, Zenon
  <2>6. Len(next) <= limit /\ Len(next) = Cardinality(after)
    BY <1>2, <1>3, <1>8, <2>4, <2>5
  <2>7. \A i \in 1..Len(next) : \E k \in after :
           ids[k] = next[i] /\ Cardinality({j \in after : j <= k}) = i
    <3> SUFFICES ASSUME NEW i \in 1..Len(next)
                 PROVE  \E k \in after :
                           ids[k] = next[i] /\ Cardinality({j \in after : j <= k}) = i
      BY Zenon
    <3>1. CASE i \in 1..Len(page)
      BY <1>6, <2>4, <3>1, Zenon
    <3>2. CASE i = Len(page) + 1
      <4>1. ids[n] = next[i] /\ Cardinality({j \in after : j <= n}) = i
        BY <2>2, <2>4, <2>6, <3>2, Zenon
      <4>2. QED
        BY <2>2, <4>1, Zenon
    <3>3. i \in 1..Len(page) \/ i = Len(page) + 1
      BY <1>3, <2>4
    <3>4. QED
      BY <3>1, <3>2, <3>3, Zenon
  <2>8. QED
    BY <2>4, <2>6, <2>7, Zenon DEF LoopInv, next, after
<1>9. CASE ids[n] \in wanted /\ ~(Len(page) < limit)
  <2>1. next = page
    BY <1>9 DEF Turn
  <2>2. QED
    BY <1>3, <1>6, <1>9, <2>1, Zenon DEF LoopInv
<1>10. QED
  BY <1>7, <1>8, <1>9

(* Whatever the keys, the filter and the limit: the loop lists the first   *)
(* of what is wanted.                                                      *)
LEMMA ListedIsPage ==
    ASSUME NEW K, NEW ids \in Seq(K), NEW wanted, NEW limit \in Nat
    PROVE  LoopInv(Listed(ids, wanted, limit)[Len(ids)], Len(ids), ids, wanted, limit)
<1> DEFINE page == Listed(ids, wanted, limit)
           T == {n \in 0..Len(ids) : ~LoopInv(page[n], n, ids, wanted, limit)}
<1>1. Len(ids) \in Nat /\ T \in SUBSET Nat
  OBVIOUS
<1>2. SUFFICES ASSUME T # {} PROVE FALSE
  BY <1>1
<1>3. PICK n \in T : \A m \in T : n <= m
  <2> HIDE DEF T
  <2> QED
    BY <1>1, <1>2, LeastNumber
<1>4. page = [i \in 0..Len(ids) |-> IF i = 0 THEN <<>>
                                    ELSE Turn(page[i - 1], ids[i], wanted, limit)]
  BY ListedIsLoop DEF IsLoop
<1> HIDE DEF page
<1>5. n \in 0..Len(ids) /\ ~LoopInv(page[n], n, ids, wanted, limit)
  OBVIOUS
<1>6. CASE n = 0
  <2>1. page[0] = <<>> /\ Places(ids, wanted, 0) = {}
    BY <1>1, <1>4 DEF Places
  <2>2. Cardinality({}) = 0 /\ Len(<<>>) = 0 /\ <<>> \in Seq(wanted) /\ 1..0 = {}
    BY FS_EmptySet
  <2>3. LoopInv(<<>>, 0, ids, wanted, limit)
    <3>1. Cardinality(Places(ids, wanted, 0)) = 0
      BY <2>1, <2>2, Zenon
    <3>2. \A i \in 1..Len(<<>>) : FALSE
      BY <2>2
    <3>3. Len(<<>>) <= limit
      BY <2>2
    <3>4. QED
      BY <2>2, <3>1, <3>2, <3>3, Zenon DEF LoopInv
  <2>4. QED
    BY <1>5, <1>6, <2>1, <2>3, Zenon
<1>7. CASE n # 0
  <2>1. n \in 1..Len(ids) /\ n - 1 \in 0..Len(ids) /\ n - 1 \notin T
    BY <1>1, <1>3, <1>5, <1>7
  <2>2. LoopInv(page[n - 1], n - 1, ids, wanted, limit)
    BY <2>1
  <2>3. page[n] = Turn(page[n - 1], ids[n], wanted, limit)
    BY <1>4, <1>5, <1>7, Zenon
  <2>4. QED
    BY <1>5, <2>1, <2>2, <2>3, LoopStep
<1>8. QED
  BY <1>6, <1>7

(* The keys of a map are listed in a sequence. *)
LEMMA KeysAreSequence ==
    ASSUME NEW entries, IsFiniteSet(Keys(entries)), NEW ids \in sortedKeys(entries)
    PROVE  ids \in Seq(Keys(entries)) /\ DOMAIN ids = 1..Len(ids)
<1>1. Cardinality(Keys(entries)) \in Nat
  BY FS_CardinalityType
<1>2. ids \in [1..Cardinality(Keys(entries)) -> Keys(entries)]
  BY DEF sortedKeys
<1>3. QED
  BY <1>1, <1>2

(* The items are the views of a page that lists the keys of a map, and     *)
(* what is wanted matches.                                                 *)
ShowsKeys(items, page, entries, ids, wanted, matches, limit) ==
    /\ IsFiniteSet(Keys(entries)) /\ ids \in sortedKeys(entries) /\ limit \in Nat
    /\ page = Listed(ids, wanted, limit)[Len(ids)]
    /\ \A id \in Keys(entries) : id \in matches <=> id \in wanted
    /\ Len(items) = Len(page) /\ DOMAIN items = 1..Len(page)
    /\ \A i \in DOMAIN items : items[i].id = page[i]

LEMMA PageOfKeys ==
    ASSUME NEW items, NEW page, NEW entries, NEW ids, NEW wanted, NEW matches, NEW limit,
           ShowsKeys(items, page, entries, ids, wanted, matches, limit)
    PROVE  /\ IsPage(items, matches, limit, ids)
           /\ \A i \in DOMAIN items : page[i] \in Keys(entries)
<1> USE DEF ShowsKeys
<1> DEFINE K == Keys(entries)
<1>1. ids \in Seq(K) /\ DOMAIN ids = 1..Len(ids)
  BY KeysAreSequence, Zenon
<1> HIDE DEF K
<1>2. LoopInv(page, Len(ids), ids, wanted, limit)
  BY <1>1, ListedIsPage, Zenon
<1>3. \A k \in DOMAIN ids : ids[k] \in K
  BY <1>1
<1>4. {k \in DOMAIN ids : ids[k] \in matches} = Places(ids, wanted, Len(ids))
  BY <1>1, <1>3, Zenon DEF Places, K
<1>5. \A i \in DOMAIN items : \E k \in Places(ids, wanted, Len(ids)) :
         /\ ids[k] = items[i].id
         /\ Cardinality({j \in Places(ids, wanted, Len(ids)) : j <= k}) = i
  BY <1>2, Zenon DEF LoopInv
<1>6. /\ Len(items) <= limit
      /\ Len(items) < limit => Len(items) = Cardinality(Places(ids, wanted, Len(ids)))
  BY <1>2, Zenon DEF LoopInv
<1>7. IsPage(items, matches, limit, ids)
  BY <1>4, <1>5, <1>6, Zenon DEF IsPage
<1>8. ASSUME NEW i \in DOMAIN items PROVE page[i] \in K
  <2>1. PICK k \in Places(ids, wanted, Len(ids)) : ids[k] = items[i].id
    BY <1>5, Zenon
  <2>2. QED
    BY <1>1, <1>3, <2>1, Zenon DEF Places
<1>9. QED
  BY <1>7, <1>8, Zenon DEF K

-----------------------------------------------------------------------------
(* What holds whatever happens to the snapshot loader's group: the state   *)
(* of the service may be the reduction of no prefix of the log, yet every  *)
(* snapshot is the result of accepted events.                              *)

(* A Go map has finitely many keys. *)
FiniteKeys(s) == IsFiniteSet(Keys(s.topics)) /\ IsFiniteSet(Keys(s.subscriptions))

WellFormed(s) ==
    s \in Snapshot /\ ValidSnapshot(s) /\ AtMostOneCurrent(s) /\ FiniteKeys(s)

LEMMA EmptyIsWellFormed == WellFormed(EmptySnapshot)
<1>1. Keys(EmptySnapshot.topics) = {} /\ Keys(EmptySnapshot.subscriptions) = {}
  BY Zenon DEF EmptySnapshot, Keys, Found
<1>2. QED
  BY <1>1, EmptySnapshotFacts, FS_EmptySet, Zenon DEF WellFormed, FiniteKeys

(* An event adds at most the one key it is about. *)
LEMMA ApplyAddsOneKey ==
    ASSUME NEW s \in Snapshot, NEW e \in Event
    PROVE  \E t, o : /\ Keys(Apply(s, e).topics) \subseteq Keys(s.topics) \cup {t}
                     /\ Keys(Apply(s, e).subscriptions) \subseteq Keys(s.subscriptions) \cup {o}
<1>1. s.topics = [t \in Topics |-> s.topics[t]]
      /\ s.subscriptions = [o \in Subscriptions |-> s.subscriptions[o]]
  BY DEF Snapshot
<1>2. CASE Unchanged(s, e)
  BY <1>2, Zenon DEF Apply
<1>3. CASE ~Unchanged(s, e) /\ e.type \in TopicTypes
  <2>1. /\ Apply(s, e).topics =
              [s.topics EXCEPT ![e.topic] = TopicAfter(s.topics[e.topic], e, s.revision + 1)]
        /\ Apply(s, e).subscriptions = s.subscriptions
    BY <1>3, Zenon DEF Apply, Effect, TopicTypes
  <2>2. Keys(Apply(s, e).topics) \subseteq Keys(s.topics) \cup {e.topic}
    BY <1>1, <2>1, Zenon DEF Keys, Found
  <2>3. QED
    BY <2>1, <2>2, Zenon
<1>4. CASE ~Unchanged(s, e) /\ e.type \notin TopicTypes
  <2>1. /\ Apply(s, e).subscriptions =
              [s.subscriptions EXCEPT ![e.subscription] = SubscriptionAfter(e, s.revision + 1)]
        /\ Apply(s, e).topics = s.topics
    BY <1>4, Zenon DEF Apply, Effect, TopicTypes
  <2>2. Keys(Apply(s, e).subscriptions) \subseteq Keys(s.subscriptions) \cup {e.subscription}
    BY <1>1, <2>1, Zenon DEF Keys, Found
  <2>3. QED
    BY <2>1, <2>2, Zenon
<1>5. QED
  BY <1>2, <1>3, <1>4, Zenon

LEMMA ApplyKeepsWellFormed ==
    ASSUME NEW s, WellFormed(s), NEW e \in Event, ~Rejects(s, e)
    PROVE  WellFormed(Apply(s, e))
<1>1. s \in Snapshot /\ ValidSnapshot(s) /\ AtMostOneCurrent(s) /\ FiniteKeys(s)
  BY DEF WellFormed
<1>2. PICK t, o : /\ Keys(Apply(s, e).topics) \subseteq Keys(s.topics) \cup {t}
                  /\ Keys(Apply(s, e).subscriptions) \subseteq Keys(s.subscriptions) \cup {o}
  BY <1>1, ApplyAddsOneKey, Zenon
<1>3. IsFiniteSet(Keys(s.topics) \cup {t}) /\ IsFiniteSet(Keys(s.subscriptions) \cup {o})
  BY <1>1, FS_AddElement, Zenon DEF FiniteKeys
<1>4. FiniteKeys(Apply(s, e))
  BY <1>2, <1>3, FS_Subset, Zenon DEF FiniteKeys
<1>5. QED
  BY <1>1, <1>4, ApplyType, ApplyKeepsValid, ApplyKeepsOneCurrent, Zenon DEF WellFormed

HasGreatest(S) == S # {} => \E g \in S : \A t \in S : t.revision <= g.revision

LEMMA AddKeepsGreatest ==
    ASSUME NEW S, HasGreatest(S), \A t \in S : t.revision \in Nat, NEW n, n.revision \in Nat
    PROVE  HasGreatest(S \cup {n})
<1>1. CASE S = {}
  BY <1>1 DEF HasGreatest
<1>2. CASE S # {}
  <2>1. PICK g \in S : \A t \in S : t.revision <= g.revision
    BY <1>2, Zenon DEF HasGreatest
  <2>2. CASE n.revision <= g.revision
    BY <2>1, <2>2, Zenon DEF HasGreatest
  <2>3. CASE g.revision < n.revision
    <3>1. \A t \in S \cup {n} : t.revision <= n.revision
      BY <2>1, <2>3
    <3>2. QED
      BY <3>1 DEF HasGreatest
  <2>4. QED
    BY <2>1, <2>2, <2>3
<1>3. QED
  BY <1>1, <1>2

(* The stored snapshots and the one in memory. *)
StoreInv ==
    /\ \A s \in snapshots : WellFormed(s)
    /\ WellFormed(snapshot)
    /\ HasGreatest(snapshots)

(* The positions in the log. *)
PositionInv ==
    /\ committed <= Len(log) /\ received <= Len(log) /\ fetched <= Len(log)
    /\ done <= received
    /\ pc \in {"reduce", "ack"} => done < received

RobustInv == LogInv /\ ConsolidatorTypeOK /\ StoreInv /\ PositionInv

(* A step that adds to the topic only what is installed, or would be. *)
LEMMA SaveKeepsStore ==
    ASSUME StoreInv, NEW n, WellFormed(n),
           snapshots' \in {snapshots, snapshots \cup {n}},
           snapshot' \in {snapshot, n, EmptySnapshot}
    PROVE  StoreInv' /\ snapshots' \in SUBSET Snapshot /\ snapshot' \in Snapshot
<1>1. \A s \in snapshots \cup {n} : WellFormed(s) /\ s \in Snapshot /\ s.revision \in Nat
  BY Zenon DEF StoreInv, WellFormed, Snapshot
<1>2. HasGreatest(snapshots')
  BY <1>1, AddKeepsGreatest, Zenon DEF StoreInv
<1>3. WellFormed(snapshot') /\ snapshot' \in Snapshot
  BY EmptyIsWellFormed, Zenon DEF StoreInv, WellFormed
<1>4. QED
  BY <1>1, <1>2, <1>3, Zenon DEF StoreInv, HasGreatest

(* The record a consumer reduces. *)
LEMMA RecordIsEvent ==
    ASSUME RobustInv, pc = "reduce"
    PROVE  Record \in Event
<1>1. log \in Seq(Event) /\ done \in Nat /\ received \in Nat /\ done < received /\ received <= Len(log)
  BY Zenon DEF RobustInv, ConsolidatorTypeOK, LogTypeOK, PositionInv
<1>2. done + 1 \in 1..Len(log)
  BY <1>1
<1>3. QED
  BY <1>1, <1>2 DEF Record

(* The log of a step that leaves it alone, with what depends on it. *)
LEMMA RobustSameLog ==
    ASSUME RobustInv, UNCHANGED <<log, canon>>
    PROVE  LogInv' /\ LogTypeOK'
BY SameLog DEF RobustInv

LEMMA RobustAppend ==
    ASSUME RobustInv, AppendByReplayingHub,
           UNCHANGED <<durable, process, requests, faults>>
    PROVE  RobustInv'
<1>1. PICK e \in Event : AppendRecord(e)
  BY DEF AppendByReplayingHub
<1>2. LogInv' /\ Len(log') = Len(log) + 1 /\ Len(log) \in Nat
  BY <1>1, AppendInv, AppendFacts, LogFacts, Zenon DEF RobustInv, LogInv
<1>3. StoreInv'
  BY DEF RobustInv, StoreInv, durable, process
<1>4. PositionInv'
  BY <1>2, SMTT(30) DEF RobustInv, PositionInv, ConsolidatorTypeOK, durable, process, consumer
<1>5. ConsolidatorTypeOK'
  BY <1>2, SMTT(30) DEF RobustInv, LogInv, ConsolidatorTypeOK, durable, process, consumer, requests
<1>6. QED
  BY <1>2, <1>3, <1>4, <1>5 DEF RobustInv

(* A step that touches neither the log nor the snapshots. *)
LEMMA RobustKeeps ==
    ASSUME RobustInv, UNCHANGED <<log, canon, snapshots, snapshot>>,
           PositionInv', LogTypeOK' => ConsolidatorTypeOK'
    PROVE  RobustInv'
<1>1. StoreInv'
  BY DEF RobustInv, StoreInv, HasGreatest
<1>2. QED
  BY <1>1, RobustSameLog DEF RobustInv

LEMMA RobustStart ==
    ASSUME RobustInv, SavedInv, LoadSnapshot \/ LoadInterrupted \/ PublishInitial
    PROVE  RobustInv'
<1>1. CASE LoadSnapshot
  <2>1. snapshots # {} => Greatest(snapshots) \in snapshots
    BY DEF RobustInv, StoreInv, HasGreatest, Greatest
  <2>2. WellFormed(snapshot')
    BY <1>1, <2>1, EmptyIsWellFormed, Zenon DEF LoadSnapshot, RobustInv, StoreInv
  <2>3. StoreInv'
    BY <1>1, <2>2, Zenon DEF LoadSnapshot, RobustInv, StoreInv, HasGreatest
  <2>4. PositionInv'
    <3>1. pc' = "idle"
      BY <1>1, Zenon DEF LoadSnapshot, SavedInv, Up
    <3>2. QED
      BY <1>1, <3>1, SMTT(30)
      DEF LoadSnapshot, RobustInv, PositionInv, ConsolidatorTypeOK, ResumeOffset
  <2>5. ConsolidatorTypeOK'
    BY <1>1, <2>2, RobustSameLog, Zenon
    DEF LoadSnapshot, RobustInv, ConsolidatorTypeOK, WellFormed, ResumeOffset, requests
  <2>6. QED
    BY <1>1, <2>3, <2>4, <2>5, RobustSameLog, Zenon DEF LoadSnapshot, RobustInv
<1>2. CASE LoadInterrupted
  <2>1. UNCHANGED <<log, canon, snapshots, snapshot>> /\ PositionInv'
    BY <1>2, Zenon DEF LoadInterrupted, RobustInv, PositionInv, process, consumer
  <2>2. LogTypeOK' => ConsolidatorTypeOK'
    BY <1>2, FaultType, Zenon
    DEF LoadInterrupted, RobustInv, ConsolidatorTypeOK, process, consumer, requests
  <2>3. QED
    BY <2>1, <2>2, RobustKeeps
<1>3. CASE PublishInitial
  <2>1. StoreInv' /\ snapshots' \in SUBSET Snapshot /\ snapshot' \in Snapshot
    BY <1>3, SaveKeepsStore, Zenon DEF PublishInitial, RobustInv, StoreInv
  <2>2. PositionInv'
    BY <1>3, Zenon DEF PublishInitial, RobustInv, PositionInv, consumer
  <2>3. ConsolidatorTypeOK'
    BY <1>3, <2>1, RobustSameLog, SMTT(30)
    DEF PublishInitial, RobustInv, ConsolidatorTypeOK, consumer, requests
  <2>4. QED
    BY <1>3, <2>1, <2>2, <2>3, RobustSameLog, Zenon DEF PublishInitial, RobustInv
<1>4. QED
  BY <1>1, <1>2, <1>3

LEMMA ReturnType ==
    ASSUME ConsolidatorTypeOK, NEW b, ConsumeReturns(b)
    PROVE  /\ holder' \in Clients \cup {"tail", Nobody}
           /\ pc' \in {"idle", "check"}
           /\ mode' \in {"down", "loaded", "starting", "running"}
           /\ request' \in [Clients -> {"none", "waiting", "reading"}]
BY Zenon DEF ConsolidatorTypeOK, ConsumeReturns, Release

LEMMA FailType ==
    ASSUME ConsolidatorTypeOK, Fail
    PROVE  /\ active' = FALSE /\ caughtUp' = FALSE /\ holder' = Nobody /\ pc' = "idle"
           /\ request' \in [Clients -> {"none", "waiting", "reading"}]
           /\ asked' \in [Clients -> Nat] /\ owed' \in [Clients -> Nat]
BY EndRequestsType, Zenon DEF Fail, Release

LEMMA RobustConsume ==
    ASSUME RobustInv, TailConsume \/ CheckCaughtUp \/ BackgroundFetch \/ Receive
    PROVE  RobustInv'
<1>1. ConsolidatorTypeOK /\ Len(log) \in Nat
  BY LogFacts DEF RobustInv, LogInv
<1>2. UNCHANGED <<log, canon, snapshots, snapshot>>
  BY Zenon DEF TailConsume, CheckCaughtUp, BackgroundFetch, Receive, durable
<1>3. CASE TailConsume
  <2>1. PositionInv'
    BY <1>3, Zenon DEF TailConsume, RobustInv, PositionInv, consumer, durable
  <2>2. LogTypeOK' => ConsolidatorTypeOK'
    BY <1>1, <1>3, Zenon DEF TailConsume, ConsolidatorTypeOK, consumer, durable, requests
  <2>3. QED
    BY <1>2, <2>1, <2>2, RobustKeeps
<1>4. CASE CheckCaughtUp
  <2>1. /\ holder' \in Clients \cup {"tail", Nobody}
        /\ pc' \in {"idle", "check", "receive"} /\ caughtUp' \in BOOLEAN
        /\ mode' \in {"down", "loaded", "starting", "running"}
        /\ request' \in [Clients -> {"none", "waiting", "reading"}]
    BY <1>1, <1>4, ReturnType, Zenon DEF CheckCaughtUp, ConsolidatorTypeOK
  <2>2. UNCHANGED <<committed, loaderAtEnd, active, consumer, asked, owed, answered, served,
                    faults>>
    BY <1>4, Zenon DEF CheckCaughtUp, durable
  <2>3. PositionInv'
    BY <1>2, <2>1, <2>2, Zenon DEF RobustInv, PositionInv, consumer
  <2>4. LogTypeOK' => ConsolidatorTypeOK'
    BY <1>1, <1>2, <2>1, <2>2, Zenon DEF ConsolidatorTypeOK, consumer
  <2>5. QED
    BY <1>2, <2>3, <2>4, RobustKeeps
<1>5. CASE BackgroundFetch
  <2>1. PositionInv'
    BY <1>1, <1>5, SMTT(30) DEF BackgroundFetch, RobustInv, PositionInv, durable
  <2>2. LogTypeOK' => ConsolidatorTypeOK'
    BY <1>1, <1>5, Zenon DEF BackgroundFetch, ConsolidatorTypeOK, durable, requests
  <2>3. QED
    BY <1>2, <2>1, <2>2, RobustKeeps
<1>6. CASE Receive
  <2> DEFINE end == IF fetched > received THEN fetched ELSE Len(log)
  <2>1. end \in Nat /\ end <= Len(log) /\ received \in Nat /\ done \in Nat
    BY <1>1, SMTT(30) DEF RobustInv, PositionInv, ConsolidatorTypeOK
  <2>2. /\ received' \in received + 1 .. end /\ atEnd' \in BOOLEAN
        /\ fetched' \in {end, received'}
    BY <1>6, SMTT(30) DEF Receive
  <2>3. UNCHANGED <<durable, mode, active, caughtUp, holder, done, requests, faults>> /\ pc' = "reduce"
    BY <1>6, Zenon DEF Receive
  <2>4. done <= received
    BY <1>6 DEF RobustInv, PositionInv
  <2>5. PositionInv'
    BY <1>2, <2>1, <2>2, <2>3, <2>4, SMTT(30) DEF RobustInv, PositionInv, durable
  <2>6. LogTypeOK' => ConsolidatorTypeOK'
    BY <1>1, <1>2, <2>1, <2>2, <2>3, SMTT(30) DEF ConsolidatorTypeOK, durable, requests
  <2>7. QED
    BY <1>2, <2>5, <2>6, RobustKeeps
<1>7. QED
  BY <1>3, <1>4, <1>5, <1>6

LEMMA RobustReduce ==
    ASSUME RobustInv, ReduceUnchanged \/ SaveAndInstall
    PROVE  RobustInv'
<1>1. CASE ReduceUnchanged
  <2>1. UNCHANGED <<log, canon, snapshots, snapshot>>
    BY <1>1, Zenon DEF ReduceUnchanged, durable
  <2>2. PositionInv'
    BY <1>1, Zenon DEF ReduceUnchanged, RobustInv, PositionInv, consumer, durable
  <2>3. LogTypeOK' => ConsolidatorTypeOK'
    BY <1>1, Zenon DEF ReduceUnchanged, RobustInv, ConsolidatorTypeOK, consumer, durable, requests
  <2>4. QED
    BY <2>1, <2>2, <2>3, RobustKeeps, Zenon
<1>2. CASE SaveAndInstall
  <2>1. WellFormed(Apply(snapshot, Record))
    BY <1>2, RecordIsEvent, ApplyKeepsWellFormed, Zenon
    DEF SaveAndInstall, Effective, RobustInv, StoreInv
  <2>2. StoreInv' /\ snapshots' \in SUBSET Snapshot /\ snapshot' \in Snapshot
    BY <1>2, <2>1, SaveKeepsStore, Zenon DEF SaveAndInstall, RobustInv
  <2>3. PositionInv'
    BY <1>2, Zenon DEF SaveAndInstall, RobustInv, PositionInv, consumer
  <2>4. ConsolidatorTypeOK'
    <3>1. LogTypeOK' /\ pc' = "ack"
      BY <1>2, RobustSameLog, Zenon DEF SaveAndInstall
    <3>2. QED
      BY <1>2, <2>2, <3>1, Zenon
      DEF SaveAndInstall, RobustInv, ConsolidatorTypeOK, consumer, requests
  <2>5. QED
    BY <1>2, <2>2, <2>3, <2>4, RobustSameLog, Zenon DEF SaveAndInstall, RobustInv
<1>3. QED
  BY <1>1, <1>2

LEMMA RobustFail ==
    ASSUME RobustInv, ReduceRejected \/ SaveFails \/ AckFails \/ ConsumerError \/ ContextOver
    PROVE  RobustInv'
<1>1. ConsolidatorTypeOK /\ Len(log) \in Nat
  BY LogFacts DEF RobustInv, LogInv
<1>2. /\ active' \in BOOLEAN /\ caughtUp' \in BOOLEAN /\ holder' = Nobody /\ pc' = "idle"
      /\ request' \in [Clients -> {"none", "waiting", "reading"}]
      /\ asked' \in [Clients -> Nat] /\ owed' \in [Clients -> Nat]
  BY <1>1, FailType, EndRequestsType, Zenon
  DEF ReduceRejected, SaveFails, AckFails, ConsumerError, ContextOver, Release, ConsolidatorTypeOK
<1>3. faults' \in 0..MaxFaults
  BY <1>1, FaultType, Zenon
  DEF ReduceRejected, SaveFails, AckFails, ConsumerError, ContextOver, ConsolidatorTypeOK
<1>4. UNCHANGED <<log, canon, loaderAtEnd, mode, snapshot, consumer, answered, served>>
  BY Zenon DEF ReduceRejected, SaveFails, AckFails, ConsumerError, ContextOver, durable
<1>5. committed' \in Nat /\ committed' <= Len(log)
  <2>1. committed' = committed \/ (committed' = done + 1 /\ done < received)
    BY Zenon
    DEF ReduceRejected, SaveFails, AckFails, ConsumerError, ContextOver, durable, RobustInv,
        PositionInv
  <2>2. /\ committed \in Nat /\ done \in Nat /\ received \in Nat
        /\ committed <= Len(log) /\ received <= Len(log)
    BY <1>1, Zenon DEF RobustInv, PositionInv, ConsolidatorTypeOK
  <2>3. QED
    BY <1>1, <2>1, <2>2
<1>6. StoreInv' /\ snapshots' \in SUBSET Snapshot /\ snapshot' \in Snapshot
  <2>1. CASE SaveFails
    <3>1. WellFormed(Apply(snapshot, Record))
      BY <2>1, RecordIsEvent, ApplyKeepsWellFormed, Zenon DEF SaveFails, Effective, RobustInv, StoreInv
    <3>2. QED
      BY <1>4, <2>1, <3>1, SaveKeepsStore, Zenon DEF SaveFails, RobustInv
  <2>2. CASE ~SaveFails
    <3>1. snapshots' = snapshots
      BY <2>2, Zenon DEF ReduceRejected, AckFails, ConsumerError, ContextOver, durable
    <3>2. QED
      BY <1>4, <3>1, SaveKeepsStore, Zenon DEF RobustInv, StoreInv
  <2>3. QED
    BY <2>1, <2>2
<1>7. PositionInv'
  BY <1>2, <1>4, <1>5, Zenon DEF RobustInv, PositionInv, consumer
<1>8. ConsolidatorTypeOK'
  BY <1>1, <1>2, <1>3, <1>4, <1>5, <1>6, RobustSameLog, Zenon DEF ConsolidatorTypeOK, consumer
<1>9. QED
  BY <1>4, <1>6, <1>7, <1>8, RobustSameLog, Zenon DEF RobustInv

LEMMA RobustAck ==
    ASSUME RobustInv, Ack
    PROVE  RobustInv'
<1>1. ConsolidatorTypeOK /\ Len(log) \in Nat /\ done \in Nat /\ received \in Nat
  BY LogFacts, Zenon DEF RobustInv, LogInv, ConsolidatorTypeOK
<1>2. UNCHANGED <<log, canon, snapshots, loaderAtEnd, snapshot, active, received,
                  fetched, atEnd, asked, owed, answered, served, faults>>
  BY Zenon DEF Ack
<1>3. committed' = done + 1 /\ done' = done + 1 /\ done + 1 <= received /\ received <= Len(log)
  BY <1>1, SMTT(30) DEF Ack, RobustInv, PositionInv
<1>4. /\ holder' \in Clients \cup {"tail", Nobody}
      /\ pc' \in {"idle", "check"} \/ (pc' = "reduce" /\ done' < received)
      /\ caughtUp' \in BOOLEAN
      /\ mode' \in {"down", "loaded", "starting", "running"}
      /\ request' \in [Clients -> {"none", "waiting", "reading"}]
  <2>1. CASE done' < received
    BY <1>1, <2>1, Zenon DEF Ack, ConsolidatorTypeOK
  <2>2. CASE ~(done' < received)
    <3>1. ConsumeReturns(atEnd) /\ caughtUp' = (caughtUp \/ atEnd)
      BY <2>2, Zenon DEF Ack
    <3>2. caughtUp' \in BOOLEAN
      BY <1>1, <3>1, Zenon DEF ConsolidatorTypeOK
    <3>3. /\ holder' \in Clients \cup {"tail", Nobody}
          /\ pc' \in {"idle", "check"}
          /\ mode' \in {"down", "loaded", "starting", "running"}
          /\ request' \in [Clients -> {"none", "waiting", "reading"}]
      BY <1>1, <3>1, ReturnType, Zenon
    <3>4. QED
      BY <3>2, <3>3, Zenon
  <2>3. QED
    BY <2>1, <2>2, Zenon
<1>5. PositionInv'
  BY <1>1, <1>2, <1>3, <1>4, SMTT(30) DEF RobustInv, PositionInv
<1>6. LogTypeOK' => ConsolidatorTypeOK'
  BY <1>1, <1>2, <1>3, <1>4, SMTT(30) DEF ConsolidatorTypeOK
<1>7. QED
  BY <1>2, <1>5, <1>6, RobustKeeps, Zenon

LEMMA RobustServe ==
    ASSUME RobustInv, NEW c \in Clients, Request(c) \/ Refresh(c) \/ Answer(c)
    PROVE  RobustInv'
<1>1. ConsolidatorTypeOK /\ Len(log) \in Nat /\ snapshot.revision \in Nat
  BY LogFacts, Zenon DEF RobustInv, LogInv, ConsolidatorTypeOK, Snapshot
<1>2. UNCHANGED <<log, canon, durable, mode, snapshot, active, caughtUp, consumer, faults>>
  BY Zenon DEF Request, Refresh, Answer, process
<1>3. /\ request' \in [Clients -> {"none", "waiting", "reading"}]
      /\ asked' \in [Clients -> Nat] /\ owed' \in [Clients -> Nat]
      /\ served' \in Nat /\ answered' \in Nat
  BY <1>1, EndRequestsType, Zenon DEF Request, Refresh, Answer, ConsolidatorTypeOK
<1>4. /\ holder' \in Clients \cup {"tail", Nobody}
      /\ pc' \in {pc, "check"}
  BY <1>1, Zenon DEF Request, Refresh, Answer, ConsolidatorTypeOK, process
<1>5. PositionInv'
  BY <1>2, <1>4, Zenon DEF RobustInv, PositionInv, consumer, durable
<1>6. LogTypeOK' => ConsolidatorTypeOK'
  BY <1>1, <1>2, <1>3, <1>4, Zenon DEF ConsolidatorTypeOK, consumer, durable
<1>7. QED
  BY <1>2, <1>5, <1>6, RobustKeeps, Zenon DEF durable

LEMMA RobustEnd ==
    ASSUME RobustInv, Exit \/ Crash
    PROVE  RobustInv'
<1>1. ConsolidatorTypeOK /\ Len(log) \in Nat
  BY LogFacts, Zenon DEF RobustInv, LogInv
<1>2. Terminate /\ faults' \in 0..MaxFaults
  BY <1>1, FaultType, Zenon DEF Exit, Crash, ConsolidatorTypeOK
<1>3. UNCHANGED <<log, canon, durable, answered, served>> /\ snapshot' = EmptySnapshot
  BY <1>2, Zenon DEF Terminate
<1>4. StoreInv' /\ snapshot' \in Snapshot
  BY <1>3, SaveKeepsStore, Zenon DEF RobustInv, StoreInv, durable
<1>5. PositionInv'
  BY <1>1, <1>2, SMTT(30) DEF Terminate, Release, RobustInv, PositionInv, durable
<1>6. ConsolidatorTypeOK'
  BY <1>1, <1>2, <1>4, EndRequestsType, RobustSameLog, Zenon
  DEF Terminate, Release, ConsolidatorTypeOK, durable
<1>7. QED
  BY <1>3, <1>4, <1>5, <1>6, RobustSameLog, Zenon DEF RobustInv

LEMMA RobustStep == RobustInv /\ SavedInv /\ [Next]_vars => RobustInv'
<1> SUFFICES ASSUME RobustInv, SavedInv, [Next]_vars PROVE RobustInv'
  OBVIOUS
<1>1. CASE UNCHANGED vars
  <2>1. UNCHANGED <<log, canon, snapshots, snapshot>> /\ PositionInv'
    BY <1>1, Zenon DEF vars, durable, process, consumer, RobustInv, PositionInv
  <2>2. LogTypeOK' => ConsolidatorTypeOK'
    BY <1>1, Zenon DEF vars, durable, process, consumer, requests, RobustInv, ConsolidatorTypeOK
  <2>3. QED
    BY <2>1, <2>2, RobustKeeps, Zenon
<1>2. QED
  BY <1>1, RobustAppend, RobustStart, RobustConsume, RobustReduce, RobustFail, RobustAck,
     RobustServe, RobustEnd, Zenon DEF Next

LEMMA RobustInit == Init => RobustInv
<1> SUFFICES ASSUME Init PROVE RobustInv
  OBVIOUS
<1>1. LogInv /\ LogTypeOK /\ Len(log) = 0
  BY LogInitInv, Zenon DEF Init, LogInit, LogInv
<1>2. StoreInv
  BY EmptyIsWellFormed, Zenon DEF Init, StoreInv, HasGreatest
<1>3. PositionInv
  BY <1>1, SMTT(30) DEF Init, PositionInv
<1>4. ConsolidatorTypeOK
  <2>1. /\ request \in [Clients -> {"none", "waiting", "reading"}]
        /\ asked \in [Clients -> Nat] /\ owed \in [Clients -> Nat]
    BY Zenon DEF Init
  <2>2. faults \in 0..MaxFaults /\ snapshot \in Snapshot
    BY EmptySnapshotFacts, ConsolidatorConstants, SMTT(30) DEF Init
  <2>3. QED
    BY <1>1, <2>1, <2>2, Zenon DEF Init, ConsolidatorTypeOK
<1>5. QED
  BY <1>1, <1>2, <1>3, <1>4 DEF RobustInv

LEMMA RobustInvariance == Spec => [](RobustInv /\ SavedInv)
<1>1. Init => SavedInv
  BY Zenon DEF Init, SavedInv, Up
<1>2. QED
  BY <1>1, RobustInit, RobustStep, StepKeepsSaved, PTL DEF Spec

(* The variables keep their types, whatever the loader and the fetches do. *)
THEOREM TypeCorrectness == Spec => []ConsolidatorTypeOK
<1>1. RobustInv => ConsolidatorTypeOK
  BY DEF RobustInv
<1>2. QED
  BY <1>1, RobustInvariance, PTL

(* validateSnapshot accepts everything on the snapshots topic              *)
(* (snapshot.go:81-118), also after a start from the wrong snapshot:       *)
(* LoadSnapshot never fails on what the service saved                      *)
(* (statestore/messagestore.go:156).                                       *)
THEOREM SavedSnapshotsLoad == Spec => []SavedSnapshotsCanBeLoaded
<1>1. RobustInv => SavedSnapshotsCanBeLoaded
  BY Zenon DEF RobustInv, StoreInv, WellFormed, SavedSnapshotsCanBeLoaded
<1>2. QED
  BY <1>1, RobustInvariance, PTL

(* No saved snapshot has two live subscriptions for one topic and callback *)
(* (reducer.go:109-115), whatever order renewals, verifications and        *)
(* removals from stale hubs arrive in and whatever snapshot the service    *)
(* was started from.                                                       *)
THEOREM OneSubscription == Spec => []OneSubscriptionPerEndpoint
<1>1. RobustInv => OneSubscriptionPerEndpoint
  BY Zenon DEF RobustInv, StoreInv, WellFormed, OneSubscriptionPerEndpoint
<1>2. QED
  BY <1>1, RobustInvariance, PTL

(* The limit a list is called with. *)
LEMMA PageLimits ==
    ASSUME NEW limit \in Limits
    PROVE  /\ limit \in Limits \ {0, MaximumPageSize + 1} <=> pageLimit(limit) \in 1..MaximumPageSize
           /\ pageLimit(limit) \in 1..MaximumPageSize =>
                 /\ pageLimit(limit) \in Nat /\ ValidLimit(pageLimit(limit))
                 /\ validatedLimit(pageLimit(limit)) = pageLimit(limit)
<1>1. CASE limit = NoValue
  BY <1>1, PageSizes, SMTT(30) DEF Limits, pageLimit, ValidLimit, validatedLimit
<1>2. CASE limit # NoValue
  <2>1. limit \in 0..MaximumPageSize + 1 /\ pageLimit(limit) = limit
    BY <1>2, Zenon DEF Limits, pageLimit
  <2>2. QED
    BY <2>1, PageSizes, SMTT(30) DEF Limits, ValidLimit, validatedLimit
<1>3. QED
  BY <1>1, <1>2, Zenon

LEMMA SubscriptionPages ==
    ASSUME WellFormed(snapshot), NEW ids \in sortedKeys(snapshot.subscriptions),
           NEW q \in SubscriptionQuery
    PROVE  LET answer == subscriptions(snapshot, q, ids)
               matches == {s \in Subscriptions : /\ Found(snapshot.subscriptions, s)
                                                 /\ MatchesSubscription(snapshot, q, s)}
           IN  IF q.limit \in Limits \ {0, MaximumPageSize + 1} /\ q.status # "unknown"
               THEN /\ IsPage(answer.items, matches, pageLimit(q.limit), ids)
                    /\ \A i \in DOMAIN answer.items :
                          GetSubscription(snapshot, answer.items[i].id) =
                             [http |-> 200, revision |-> answer.revision, view |-> answer.items[i]]
               ELSE answer = BadRequest
<1> DEFINE limit == pageLimit(q.limit)
           p == [q EXCEPT !.limit = limit]
           answer == subscriptions(snapshot, q, ids)
           matches == {s \in Subscriptions : /\ Found(snapshot.subscriptions, s)
                                             /\ MatchesSubscription(snapshot, q, s)}
           wanted == {s \in Subscriptions : MatchesSubscription(snapshot, p, s)}
           page == Listed(ids, wanted, limit)[Len(ids)]
<1>1. p.limit = limit /\ p.status = q.status /\ p.topic = q.topic /\ q.limit \in Limits
  BY DEF SubscriptionQuery
<1>2. q.limit \in Limits \ {0, MaximumPageSize + 1} <=> limit \in 1..MaximumPageSize
  BY <1>1, PageLimits, Zenon
<1>3. CASE limit \notin 1..MaximumPageSize
  BY <1>2, <1>3, Zenon DEF subscriptions
<1>4. CASE limit \in 1..MaximumPageSize
  <2>1. limit \in Nat /\ ValidLimit(limit) /\ validatedLimit(limit) = limit
    BY <1>1, <1>4, PageLimits, Zenon
  <2>2. answer = ListSubscriptions(snapshot, p, ids)
    BY <1>4 DEF subscriptions
  <2>3. CASE q.status = "unknown"
    BY <1>1, <2>2, <2>3 DEF ListSubscriptions
  <2>4. CASE q.status # "unknown"
    <3>1. answer = [http |-> 200, revision |-> snapshot.revision,
                    items |-> [i \in DOMAIN page |-> subscriptionView(snapshot, page[i])]]
      <4>1. ValidLimit(p.limit) /\ p.status # "unknown" /\ validatedLimit(p.limit) = limit
        BY <1>1, <2>1, <2>4, Zenon
      <4> HIDE DEF p, limit, answer
      <4>2. QED
        BY <2>2, <4>1, Zenon DEF ListSubscriptions
    <3>2. IsFiniteSet(Keys(snapshot.subscriptions)) /\ DOMAIN snapshot.subscriptions = Subscriptions
      BY Zenon DEF WellFormed, FiniteKeys, Snapshot
    <3>3. \A id \in Keys(snapshot.subscriptions) : id \in matches <=> id \in wanted
      BY <1>1, <3>2, Zenon DEF Keys, MatchesSubscription
    <3>4. DOMAIN page = 1..Len(page) /\ Len(page) \in Nat
      BY <2>1, <3>2, KeysAreSequence, ListedIsPage DEF LoopInv
    <3> DEFINE items == [i \in DOMAIN page |-> subscriptionView(snapshot, page[i])]
    <3>5. /\ DOMAIN items = 1..Len(page) /\ Len(items) = Len(page)
          /\ \A i \in DOMAIN items : items[i] = subscriptionView(snapshot, page[i])
      <4> HIDE DEF page
      <4> QED
        BY <3>4, SMTT(30)
    <3>6. \A i \in DOMAIN items : items[i].id = page[i]
      BY <3>5, Zenon DEF subscriptionView
    <3>7. /\ IsPage(items, matches, limit, ids)
          /\ \A i \in DOMAIN items : page[i] \in Keys(snapshot.subscriptions)
      <4>1. page = Listed(ids, wanted, limit)[Len(ids)]
        OBVIOUS
      <4>2. Len(items) = Len(page) /\ DOMAIN items = 1..Len(page) /\ limit \in Nat
        BY <2>1, <3>5, Zenon
      <4> HIDE DEF items, matches, limit, wanted, page
      <4>3. ShowsKeys(items, page, snapshot.subscriptions, ids, wanted, matches, limit)
        BY <3>2, <3>3, <3>6, <4>1, <4>2, Zenon DEF ShowsKeys
      <4>4. QED
        BY <4>3, PageOfKeys, Zenon
    <3>8. answer.items = items /\ answer.revision = snapshot.revision
      BY <3>1
    <3> HIDE DEF items, page
    <3>9. \A i \in DOMAIN items :
             GetSubscription(snapshot, items[i].id) =
                [http |-> 200, revision |-> snapshot.revision, view |-> items[i]]
      BY <3>5, <3>6, <3>7, Zenon DEF GetSubscription, Keys
    <3>10. QED
      BY <1>2, <1>4, <2>4, <3>7, <3>8, <3>9, ZenonT(40)
  <2>5. QED
    BY <2>3, <2>4, Zenon
<1>5. QED
  BY <1>3, <1>4, Zenon

LEMMA TopicPages ==
    ASSUME WellFormed(snapshot), NEW ids \in sortedKeys(snapshot.topics), NEW q \in TopicQuery
    PROVE  LET answer == topics(snapshot, q, ids)
               matches == {t \in Topics : Found(snapshot.topics, t) /\ MatchesTopic(snapshot, q, t)}
           IN  IF q.limit \in Limits \ {0, MaximumPageSize + 1} /\ q.status # "unknown"
               THEN IsPage(answer.items, matches, pageLimit(q.limit), ids)
               ELSE answer = BadRequest
<1> DEFINE limit == pageLimit(q.limit)
           p == [q EXCEPT !.limit = limit]
           answer == topics(snapshot, q, ids)
           matches == {t \in Topics : Found(snapshot.topics, t) /\ MatchesTopic(snapshot, q, t)}
           wanted == {t \in Topics : MatchesTopic(snapshot, p, t)}
           page == Listed(ids, wanted, limit)[Len(ids)]
<1>1. p.limit = limit /\ p.status = q.status /\ q.limit \in Limits
  BY DEF TopicQuery
<1>2. q.limit \in Limits \ {0, MaximumPageSize + 1} <=> limit \in 1..MaximumPageSize
  BY <1>1, PageLimits
<1>3. CASE limit \notin 1..MaximumPageSize
  BY <1>2, <1>3 DEF topics
<1>4. CASE limit \in 1..MaximumPageSize
  <2>1. limit \in Nat /\ ValidLimit(limit) /\ validatedLimit(limit) = limit
    BY <1>1, <1>4, PageLimits, Zenon
  <2>2. answer = ListTopics(snapshot, p, ids)
    BY <1>4 DEF topics
  <2>3. CASE q.status = "unknown"
    BY <1>1, <2>2, <2>3 DEF ListTopics
  <2>4. CASE q.status # "unknown"
    <3> DEFINE items == [i \in DOMAIN page |-> topicView(snapshot, page[i])]
    <3>1. answer = [http |-> 200, revision |-> snapshot.revision, items |-> items]
      <4>1. ValidLimit(p.limit) /\ p.status # "unknown" /\ validatedLimit(p.limit) = limit
        BY <1>1, <2>1, <2>4
      <4> HIDE DEF p, limit, answer
      <4>2. QED
        BY <2>2, <4>1, Zenon DEF ListTopics
    <3>2. IsFiniteSet(Keys(snapshot.topics)) /\ DOMAIN snapshot.topics = Topics
      BY Zenon DEF WellFormed, FiniteKeys, Snapshot
    <3>3. \A id \in Keys(snapshot.topics) : id \in matches <=> id \in wanted
      BY <1>1, <3>2, Zenon DEF Keys, MatchesTopic
    <3>4. DOMAIN page = 1..Len(page) /\ Len(page) \in Nat
      BY <2>1, <3>2, KeysAreSequence, ListedIsPage DEF LoopInv
    <3>5. /\ DOMAIN items = 1..Len(page) /\ Len(items) = Len(page)
          /\ \A i \in DOMAIN items : items[i] = topicView(snapshot, page[i])
      <4> HIDE DEF page
      <4> QED
        BY <3>4, SMTT(30)
    <3>6. \A i \in DOMAIN items : items[i].id = page[i]
      BY <3>5, Zenon DEF topicView
    <3>7. IsPage(items, matches, limit, ids)
      <4>1. page = Listed(ids, wanted, limit)[Len(ids)]
        OBVIOUS
      <4>2. Len(items) = Len(page) /\ DOMAIN items = 1..Len(page) /\ limit \in Nat
        BY <2>1, <3>5
      <4> HIDE DEF items, matches, limit, wanted, page
      <4>3. ShowsKeys(items, page, snapshot.topics, ids, wanted, matches, limit)
        BY <3>2, <3>3, <3>6, <4>1, <4>2, Zenon DEF ShowsKeys
      <4>4. QED
        BY <4>3, PageOfKeys, Zenon
    <3> HIDE DEF items, page
    <3>8. QED
      BY <1>2, <1>4, <2>4, <3>1, <3>7, SMTT(30)
  <2>5. QED
    BY <2>3, <2>4, Zenon
<1>5. QED
  BY <1>3, <1>4, Zenon

(* The lists of the management API (query.go:112-138, 154-182): whatever   *)
(* the number of entries, the filter, the limit and the order of the IDs,  *)
(* a page is the beginning of what matches in the state that answers, it   *)
(* ends early only when it is full, and each item is what the query for    *)
(* its ID returns.                                                         *)
THEOREM ListsAreExact == Spec => []PagesAreExact
<1>1. RobustInv => PagesAreExact
  <2> SUFFICES ASSUME RobustInv PROVE PagesAreExact
    OBVIOUS
  <2>1. WellFormed(snapshot)
    BY DEF RobustInv, StoreInv
  <2>2. QED
    BY <2>1, SubscriptionPages, TopicPages, Zenon DEF PagesAreExact
<1>2. QED
  BY <1>1, RobustInvariance, PTL

=============================================================================
