--------------------------- MODULE StateLogProofs ---------------------------
(***************************************************************************)
(* Facts about the reducer that hold for every snapshot and every event,   *)
(* and about the log: appending an event, whoever appends it and on        *)
(* whatever view it was admitted, keeps canon the sequence of reductions   *)
(* of the prefixes of the log.                                             *)
(***************************************************************************)
EXTENDS StateLog, TLAPS

TopicTypes == {"TopicRegistered", "TopicDeregistered"}

(* The fields an event carries, by its type. *)
LEMMA EventFields ==
    ASSUME NEW e \in Event
    PROVE  /\ e.type \in TopicTypes => e.topic \in Topics
           /\ e.type = "TopicRegistered" =>
                 e.contentType \in ContentTypes /\ e.registeredAt \in Registrations
           /\ e.type \notin TopicTypes => e.subscription \in Subscriptions
           /\ e.type = "SubscriptionStale" => e.reason \in Reasons
           /\ e.type \in TopicTypes \cup RemovalTypes \cup
                  {"SubscriptionVerified", "SubscriptionReactivated", "SubscriptionStale"}
BY DEF Event, TopicEvent, SubscriptionEvent, RemovalTypes, TopicTypes

(* The reducer maps snapshots to snapshots. *)
LEMMA EffectType ==
    ASSUME NEW s \in Snapshot, NEW e \in Event
    PROVE  Effect(s, e) \in Snapshot
<1>1. CASE e.type \in TopicTypes
  <2>1. e.topic \in Topics
    BY <1>1, EventFields
  <2>2. TopicAfter(s.topics[e.topic], e, s.revision + 1) \in TopicEntry
    <3>1. s.topics[e.topic] \in TopicEntry /\ s.revision + 1 \in Nat
      BY <2>1 DEF Snapshot
    <3>2. CASE e.type = "TopicRegistered"
      BY <3>1, <3>2, EventFields DEF TopicAfter, TopicEntry
    <3>3. CASE e.type # "TopicRegistered"
      BY <3>1, <3>3, Zenon DEF TopicAfter, TopicEntry
    <3>4. QED
      BY <3>2, <3>3
  <2>3. QED
    BY <1>1, <2>1, <2>2 DEF Effect, Snapshot, TopicTypes
<1>2. CASE e.type \notin TopicTypes
  <2>1. e.subscription \in Subscriptions
    BY <1>2, EventFields
  <2>2. SubscriptionAfter(e, s.revision + 1) \in SubscriptionEntry
    BY <1>2, EventFields DEF SubscriptionAfter, SubscriptionEntry, Snapshot, RemovalTypes, TopicTypes
  <2>3. QED
    BY <1>2, <2>1, <2>2 DEF Effect, Snapshot, TopicTypes
<1>3. QED
  BY <1>1, <1>2

LEMMA ApplyType ==
    ASSUME NEW s \in Snapshot, NEW e \in Event
    PROVE  Apply(s, e) \in Snapshot
BY EffectType DEF Apply

(* An event that changes the snapshot advances its revision by one, and    *)
(* one that does not leaves the whole snapshot alone.                      *)
LEMMA ApplyRevision ==
    ASSUME NEW s \in Snapshot, NEW e \in Event
    PROVE  \/ Apply(s, e) = s
           \/ Apply(s, e).revision = s.revision + 1
BY DEF Apply, Effect

(* ADR 0004: an exact duplicate is a no-op.  An event that was accepted is *)
(* accepted again right after itself and changes nothing (reducer.go:51).  *)
THEOREM DuplicateIsNoOp ==
    ASSUME NEW s \in Snapshot, NEW e \in Event, ~Rejects(s, e)
    PROVE  /\ ~Rejects(Apply(s, e), e)
           /\ Unchanged(Apply(s, e), e)
<1>1. CASE Unchanged(s, e)
  BY <1>1 DEF Apply
<1>2. CASE ~Unchanged(s, e) /\ e.type \in TopicTypes
  <2> DEFINE n == Apply(s, e)
  <2>1. e.topic \in Topics
    BY <1>2, EventFields
  <2>2. n.topics[e.topic] = TopicAfter(s.topics[e.topic], e, s.revision + 1)
    BY <1>2, <2>1 DEF Apply, Effect, Snapshot, TopicTypes
  <2>3. CASE e.type = "TopicRegistered"
    <3>1. /\ n.topics[e.topic].status = "active"
          /\ n.topics[e.topic].contentType = e.contentType
          /\ n.topics[e.topic].registeredAt = e.registeredAt
      BY <2>2, <2>3 DEF TopicAfter
    <3>2. QED
      BY <2>3, <3>1 DEF Rejects, Unchanged, SameTopic, RemovalTypes
  <2>4. CASE e.type = "TopicDeregistered"
    <3>1. n.topics[e.topic].status = "inactive"
      BY <2>1, <2>2, <2>4 DEF TopicAfter, Snapshot, TopicEntry
    <3>2. QED
      BY <2>4, <3>1 DEF Rejects, Unchanged, RemovalTypes
  <2>5. QED
    BY <1>2, <2>3, <2>4 DEF TopicTypes
<1>3. CASE ~Unchanged(s, e) /\ e.type \notin TopicTypes
  <2> DEFINE n == Apply(s, e)
  <2>1. e.subscription \in Subscriptions
    BY <1>3, EventFields
  <2>2. /\ n.subscriptions[e.subscription] = SubscriptionAfter(e, s.revision + 1)
        /\ n.topics = s.topics
    BY <1>3, <2>1 DEF Apply, Effect, Snapshot, TopicTypes
  <2>3. CASE e.type = "SubscriptionVerified"
    <3>1. n.subscriptions[e.subscription].status = "active"
      BY <2>2, <2>3 DEF SubscriptionAfter, RemovalTypes
    <3>2. SameEndpoint(e.subscription, e.subscription) /\ Current(n, e.subscription)
      BY <3>1 DEF SameEndpoint, Current
    <3>3. QED
      BY <2>1, <2>2, <2>3, <3>1, <3>2 DEF Rejects, Unchanged, Coalesces, RemovalTypes
  <2>4. CASE e.type \in RemovalTypes
    <3>1. n.subscriptions[e.subscription].status = "removed"
      BY <2>2, <2>4 DEF SubscriptionAfter, RemovalTypes
    <3>2. QED
      BY <2>4, <3>1 DEF Rejects, Unchanged, RemovalTypes
  <2>5. CASE e.type = "SubscriptionStale"
    <3>1. /\ n.subscriptions[e.subscription].status = "stale"
          /\ n.subscriptions[e.subscription].staleReason = e.reason
      BY <2>2, <2>5 DEF SubscriptionAfter, RemovalTypes
    <3>2. QED
      BY <2>5, <3>1 DEF Rejects, Unchanged, RemovalTypes
  <2>6. CASE e.type = "SubscriptionReactivated"
    <3>1. n.subscriptions[e.subscription].status = "active"
      BY <2>2, <2>6 DEF SubscriptionAfter, RemovalTypes
    <3>2. QED
      BY <2>6, <3>1 DEF Rejects, Unchanged, RemovalTypes
  <2>7. QED
    BY <1>3, <2>3, <2>4, <2>5, <2>6, EventFields DEF TopicTypes
<1>4. QED
  BY <1>1, <1>2, <1>3

(* No accepted event makes a second subscription stand for a topic and a   *)
(* callback: a verification is coalesced with the one that stands, and a   *)
(* removed subscription never comes back (reducer.go:109-115, 136).        *)
THEOREM ApplyKeepsOneCurrent ==
    ASSUME NEW s \in Snapshot, NEW e \in Event, ~Rejects(s, e), AtMostOneCurrent(s)
    PROVE  AtMostOneCurrent(Apply(s, e))
<1>1. CASE Unchanged(s, e)
  BY <1>1 DEF Apply
<1>2. CASE ~Unchanged(s, e) /\ e.type \in TopicTypes
  BY <1>2 DEF Apply, Effect, TopicTypes, AtMostOneCurrent, Current
<1>3. CASE ~Unchanged(s, e) /\ e.type \notin TopicTypes
  <2>1. e.subscription \in Subscriptions
    BY <1>3, EventFields
  <2> DEFINE n == Apply(s, e)
  <2>2. /\ n.subscriptions[e.subscription] = SubscriptionAfter(e, s.revision + 1)
        /\ \A o \in Subscriptions : o # e.subscription =>
               n.subscriptions[o] = s.subscriptions[o]
    BY <1>3, <2>1 DEF Apply, Effect, Snapshot, TopicTypes
  <2>3. CASE e.type = "SubscriptionVerified"
    <3>1. \A o \in Subscriptions : SameEndpoint(e.subscription, o) => ~Current(s, o)
      BY <1>3, <2>3 DEF Unchanged, Coalesces
    <3>2. QED
      BY <2>1, <2>2, <3>1 DEF AtMostOneCurrent, Current, SameEndpoint
  <2>4. CASE e.type # "SubscriptionVerified"
    <3>1. Current(n, e.subscription) => Current(s, e.subscription)
      <4>1. CASE e.type \in RemovalTypes
        BY <2>2, <4>1 DEF Current, SubscriptionAfter, RemovalTypes
      <4>2. CASE e.type \in {"SubscriptionStale", "SubscriptionReactivated"}
        <5>1. s.subscriptions[e.subscription].status \in {"absent", "active", "stale", "removed"}
          BY <2>1 DEF Snapshot, SubscriptionEntry
        <5>2. s.subscriptions[e.subscription].status \notin {"absent", "removed"}
          BY <4>2 DEF Rejects
        <5>3. QED
          BY <5>1, <5>2 DEF Current
      <4>3. QED
        BY <1>3, <2>4, <4>1, <4>2, EventFields DEF TopicTypes
    <3>2. \A o \in Subscriptions : Current(n, o) => Current(s, o)
      BY <2>2, <3>1 DEF Current
    <3>3. QED
      BY <3>2 DEF AtMostOneCurrent
  <2>5. QED
    BY <2>3, <2>4
<1>4. QED
  BY <1>1, <1>2, <1>3

(* The reducer never makes a snapshot that EncodeSnapshot, DecodeSnapshot  *)
(* or the next Apply would refuse (snapshot.go:81-118, reducer.go:46-47).  *)
THEOREM ApplyKeepsValid ==
    ASSUME NEW s \in Snapshot, NEW e \in Event, ~Rejects(s, e), ValidSnapshot(s)
    PROVE  ValidSnapshot(Apply(s, e))
<1>1. CASE Unchanged(s, e)
  BY <1>1 DEF Apply
<1>2. CASE ~Unchanged(s, e) /\ e.type \in TopicTypes
  <2> DEFINE n == Apply(s, e)
  <2>1. e.topic \in Topics
    BY <1>2, EventFields
  <2>2. /\ n.revision = s.revision + 1 /\ s.revision \in Nat
        /\ n.subscriptions = s.subscriptions
        /\ n.topics[e.topic] = TopicAfter(s.topics[e.topic], e, s.revision + 1)
        /\ \A t \in Topics : t # e.topic => n.topics[t] = s.topics[t]
    BY <1>2, <2>1 DEF Apply, Effect, Snapshot, TopicTypes
  <2>3. n.topics[e.topic].revision = s.revision + 1
    BY <2>1, <2>2 DEF TopicAfter, Snapshot, TopicEntry
  <2>4. n.topics[e.topic].contentType \in ContentTypes
    <3>1. CASE e.type = "TopicRegistered"
      BY <2>2, <3>1, EventFields DEF TopicAfter
    <3>2. CASE e.type = "TopicDeregistered"
      BY <2>1, <2>2, <3>2 DEF TopicAfter, Rejects, ValidSnapshot, Snapshot, TopicEntry
    <3>3. QED
      BY <1>2, <3>1, <3>2 DEF TopicTypes
  <2>5. \A x \in Nat : x <= s.revision => x <= s.revision + 1
    BY <2>2
  <2>6. \A t \in Topics : s.topics[t].revision \in Nat
    BY DEF Snapshot, TopicEntry
  <2>7. \A o \in Subscriptions : s.subscriptions[o].revision \in Nat
    BY DEF Snapshot, SubscriptionEntry
  <2>8. QED
    BY <2>2, <2>3, <2>4, <2>5, <2>6, <2>7 DEF ValidSnapshot
<1>3. CASE ~Unchanged(s, e) /\ e.type \notin TopicTypes
  <2> DEFINE n == Apply(s, e)
  <2>1. e.subscription \in Subscriptions
    BY <1>3, EventFields
  <2>2. /\ n.revision = s.revision + 1 /\ s.revision \in Nat
        /\ n.topics = s.topics
        /\ n.subscriptions[e.subscription].revision = s.revision + 1
        /\ \A o \in Subscriptions : o # e.subscription =>
               n.subscriptions[o] = s.subscriptions[o]
    BY <1>3, <2>1 DEF Apply, Effect, Snapshot, TopicTypes, SubscriptionAfter
  <2>3. \A t \in Topics : s.topics[t].revision \in Nat
    BY DEF Snapshot, TopicEntry
  <2>4. \A o \in Subscriptions : s.subscriptions[o].revision \in Nat
    BY DEF Snapshot, SubscriptionEntry
  <2>5. QED
    BY <2>2, <2>3, <2>4 DEF ValidSnapshot
<1>4. QED
  BY <1>1, <1>2, <1>3

(* What an earlier snapshot m shows, a later one n shows too: an entry     *)
(* stays, its revision does not go back, a removed subscription is final.  *)
KeepsSubscription(m, n, o) ==
    m.subscriptions[o].status # "absent" =>
        /\ n.subscriptions[o].status # "absent"
        /\ m.subscriptions[o].revision <= n.subscriptions[o].revision
        /\ m.subscriptions[o].status = "removed" => n.subscriptions[o] = m.subscriptions[o]

KeepsTopic(m, n, t) ==
    m.topics[t].status # "absent" =>
        n.topics[t].status # "absent" /\ m.topics[t].revision <= n.topics[t].revision

KeepsEntries(m, n) ==
    /\ \A o \in Subscriptions : KeepsSubscription(m, n, o)
    /\ \A t \in Topics : KeepsTopic(m, n, t)

LEMMA KeepsReflexive ==
    ASSUME NEW s \in Snapshot PROVE KeepsEntries(s, s)
BY DEF KeepsEntries, KeepsSubscription, KeepsTopic, Snapshot, SubscriptionEntry, TopicEntry

LEMMA KeepsTransitive ==
    ASSUME NEW a \in Snapshot, NEW b \in Snapshot, NEW c \in Snapshot,
           KeepsEntries(a, b), KeepsEntries(b, c)
    PROVE  KeepsEntries(a, c)
<1>1. \A s \in Snapshot : /\ \A o \in Subscriptions : s.subscriptions[o].revision \in Nat
                         /\ \A t \in Topics : s.topics[t].revision \in Nat
  BY DEF Snapshot, SubscriptionEntry, TopicEntry
<1>2. ASSUME NEW o \in Subscriptions PROVE KeepsSubscription(a, c, o)
  BY <1>1 DEF KeepsEntries, KeepsSubscription
<1>3. ASSUME NEW t \in Topics PROVE KeepsTopic(a, c, t)
  BY <1>1 DEF KeepsEntries, KeepsTopic
<1>4. QED
  BY <1>2, <1>3 DEF KeepsEntries

(* No accepted event deletes an entry or dates it back, and none touches a *)
(* removed subscription: every case of apply that changes an entry stamps  *)
(* it with the new revision (reducer.go:51-196).                           *)
THEOREM ApplyKeepsEntries ==
    ASSUME NEW s \in Snapshot, NEW e \in Event, ~Rejects(s, e), ValidSnapshot(s)
    PROVE  KeepsEntries(s, Apply(s, e))
<1> DEFINE n == Apply(s, e)
<1>1. CASE Unchanged(s, e)
  BY <1>1, KeepsReflexive DEF Apply
<1>2. /\ s.revision \in Nat
      /\ \A o \in Subscriptions : /\ s.subscriptions[o].revision \in Nat
                                  /\ s.subscriptions[o].revision <= s.revision
      /\ \A t \in Topics : /\ s.topics[t].revision \in Nat
                           /\ s.topics[t].status # "absent" => s.topics[t].revision <= s.revision
  BY DEF ValidSnapshot, Snapshot, SubscriptionEntry, TopicEntry
<1>3. CASE ~Unchanged(s, e) /\ e.type \in TopicTypes
  <2>1. e.topic \in Topics
    BY <1>3, EventFields
  <2>2. /\ n.subscriptions = s.subscriptions
        /\ n.topics[e.topic] = TopicAfter(s.topics[e.topic], e, s.revision + 1)
        /\ \A t \in Topics : t # e.topic => n.topics[t] = s.topics[t]
    BY <1>3, <2>1 DEF Apply, Effect, Snapshot, TopicTypes
  <2>3. n.topics[e.topic].status # "absent" /\ n.topics[e.topic].revision = s.revision + 1
    BY <2>1, <2>2 DEF TopicAfter, Snapshot, TopicEntry
  <2>4. ASSUME NEW t \in Topics PROVE KeepsTopic(s, n, t)
    BY <1>2, <2>1, <2>2, <2>3 DEF KeepsTopic
  <2>5. ASSUME NEW o \in Subscriptions PROVE KeepsSubscription(s, n, o)
    BY <1>2, <2>2 DEF KeepsSubscription
  <2>6. QED
    BY <2>4, <2>5 DEF KeepsEntries
<1>4. CASE ~Unchanged(s, e) /\ e.type \notin TopicTypes
  <2>1. e.subscription \in Subscriptions
    BY <1>4, EventFields
  <2>2. /\ n.topics = s.topics
        /\ n.subscriptions[e.subscription] = SubscriptionAfter(e, s.revision + 1)
        /\ \A o \in Subscriptions : o # e.subscription => n.subscriptions[o] = s.subscriptions[o]
    BY <1>4, <2>1 DEF Apply, Effect, Snapshot, TopicTypes
  <2>3. /\ n.subscriptions[e.subscription].status # "absent"
        /\ n.subscriptions[e.subscription].revision = s.revision + 1
    BY <2>2 DEF SubscriptionAfter
  <2>4. s.subscriptions[e.subscription].status # "removed"
    BY <1>4, EventFields DEF Rejects, Unchanged, TopicTypes
  <2>5. ASSUME NEW t \in Topics PROVE KeepsTopic(s, n, t)
    BY <1>2, <2>2 DEF KeepsTopic
  <2>6. ASSUME NEW o \in Subscriptions PROVE KeepsSubscription(s, n, o)
    BY <1>2, <2>1, <2>2, <2>3, <2>4 DEF KeepsSubscription
  <2>7. QED
    BY <2>5, <2>6 DEF KeepsEntries
<1>5. QED
  BY <1>1, <1>3, <1>4

(* EmptySnapshot is a valid snapshot without subscriptions. *)
LEMMA EmptySnapshotFacts ==
    /\ EmptySnapshot \in Snapshot /\ EmptySnapshot.revision = 0
    /\ AtMostOneCurrent(EmptySnapshot) /\ ValidSnapshot(EmptySnapshot)
BY DEF EmptySnapshot, Snapshot, TopicEntry, SubscriptionEntry, AtMostOneCurrent, Current,
       ValidSnapshot

-----------------------------------------------------------------------------
(* The log *)

LEMMA LogInitInv == LogInit => LogInv
<1> SUFFICES ASSUME LogInit PROVE LogInv
  OBVIOUS
<1>1. Len(canon) = 1 /\ Index = 0 /\ Reduction(0) = EmptySnapshot /\ Len(log) = 0
  BY DEF LogInit, Index, Reduction
<1>2. LogTypeOK
  BY EmptySnapshotFacts DEF LogInit, LogTypeOK
<1>3. CanonReducesTheLog
  BY <1>1 DEF CanonReducesTheLog
<1>4. CanonIsOrdered
  BY <1>1, EmptySnapshotFacts DEF CanonIsOrdered
<1>5. CanonHasOneCurrent
  BY <1>1, EmptySnapshotFacts DEF CanonHasOneCurrent
<1>6. CanonIsValid
  BY <1>1, EmptySnapshotFacts DEF CanonIsValid
<1>7. QED
  BY <1>2, <1>3, <1>4, <1>5, <1>6 DEF LogInv

(* The range of the indices and the types behind them. *)
LEMMA LogFacts ==
    ASSUME LogTypeOK
    PROVE  /\ Index \in 0..Len(log)
           /\ Len(log) \in Nat
           /\ \A n \in 0..Index : Reduction(n) \in Snapshot
           /\ \A n \in 1..Len(log) : log[n] \in Event
BY DEF LogTypeOK, Index, Reduction

(* What an append does to the log and to canon: the old entries stay. *)
LEMMA AppendFacts ==
    ASSUME LogInv, NEW e \in Event, AppendRecord(e)
    PROVE  /\ Len(log') = Len(log) + 1
           /\ log'[Len(log) + 1] = e
           /\ \A n \in 1..Len(log) : log'[n] = log[n]
           /\ \A n \in 0..Index : Reduction(n)' = Reduction(n)
           /\ \/ Index' = Index /\ canon' = canon
                 /\ (Index < Len(log) \/ Rejects(Reduction(Index), e))
              \/ /\ Index' = Index + 1 /\ Index = Len(log)
                 /\ ~Rejects(Reduction(Index), e)
                 /\ canon'[Index + 2] = Apply(Reduction(Index), e)
                 /\ canon' = Append(canon, Apply(Reduction(Index), e))
<1> USE DEF LogInv
<1>1. /\ log \in Seq(Event) /\ canon \in Seq(Snapshot)
      /\ Len(canon) \in Nat /\ Len(log) \in Nat
      /\ Index \in 0..Len(log) /\ Index = Len(canon) - 1
      /\ log' = Append(log, e)
  BY DEF LogTypeOK, AppendRecord, Index
<1>2. /\ Len(log') = Len(log) + 1
      /\ log'[Len(log) + 1] = e
      /\ \A n \in 1..Len(log) : log'[n] = log[n]
  BY <1>1
<1>3. CASE Index = Len(log) /\ ~Rejects(Reduction(Index), e)
  <2>1. canon' = Append(canon, Apply(Reduction(Index), e))
    BY <1>3 DEF AppendRecord
  <2>2. Apply(Reduction(Index), e) \in Snapshot
    BY LogFacts, ApplyType
  <2>3. /\ Len(canon') = Len(canon) + 1
        /\ canon'[Len(canon) + 1] = Apply(Reduction(Index), e)
        /\ \A n \in 1..Len(canon) : canon'[n] = canon[n]
    BY <2>1
  <2>4. /\ Index' = Index + 1
        /\ canon'[Index + 2] = Apply(Reduction(Index), e)
        /\ \A n \in 0..Index : Reduction(n)' = Reduction(n)
    BY <2>3 DEF Index, Reduction
  <2>5. QED
    BY <1>2, <1>3, <2>1, <2>4
<1>4. CASE ~(Index = Len(log) /\ ~Rejects(Reduction(Index), e))
  <2>1. canon' = canon
    BY <1>4 DEF AppendRecord
  <2>2. Index' = Index /\ \A n \in 0..Index : Reduction(n)' = Reduction(n)
    BY <2>1 DEF Index, Reduction
  <2>3. QED
    BY <1>1, <1>4, <2>1, <2>2
<1>5. QED
  BY <1>3, <1>4

(* An append preserves the invariant of the log. *)
LEMMA AppendInv ==
    ASSUME LogInv, NEW e \in Event, AppendRecord(e)
    PROVE  LogInv'
<1>1. /\ log \in Seq(Event) /\ canon \in Seq(Snapshot)
      /\ Len(canon) \in Nat /\ Len(log) \in Nat
      /\ Index \in 0..Len(log) /\ Index = Len(canon) - 1
      /\ log' = Append(log, e)
      /\ \A n \in 0..Index : Reduction(n) \in Snapshot
  BY LogFacts DEF LogInv, LogTypeOK, AppendRecord, Index
<1>2. LogTypeOK'
  <2>1. Apply(Reduction(Index), e) \in Snapshot
    BY <1>1, ApplyType
  <2>2. canon' \in Seq(Snapshot) /\ log' \in Seq(Event)
    <3>1. canon' = canon \/ canon' = Append(canon, Apply(Reduction(Index), e))
      BY AppendFacts
    <3>2. Append(canon, Apply(Reduction(Index), e)) \in Seq(Snapshot)
      BY <1>1, <2>1
    <3>3. Append(log, e) \in Seq(Event)
      BY <1>1
    <3>4. QED
      BY <1>1, <3>1, <3>2, <3>3, Zenon
  <2>3. Index' \in 0..Len(log') /\ Index' = Len(canon') - 1 /\ Len(canon') \in Nat /\ Len(log') \in Nat
    BY <1>1, AppendFacts
  <2>4. QED
    BY <2>2, <2>3 DEF LogTypeOK
<1>3. CanonReducesTheLog'
  <2>1. (Reduction(0) = EmptySnapshot)'
    BY <1>1, AppendFacts DEF LogInv, CanonReducesTheLog
  <2>2. ASSUME NEW n \in 1..Index'
        PROVE  /\ ~Rejects(Reduction(n - 1)', log'[n])
               /\ Reduction(n)' = Apply(Reduction(n - 1)', log'[n])
    <3>1. CASE n <= Index
      <4>1. /\ n \in 1..Index /\ n \in 1..Len(log) /\ n \in 0..Index /\ n - 1 \in 0..Index
        BY <1>1, <3>1
      <4>2. /\ Reduction(n)' = Reduction(n) /\ Reduction(n - 1)' = Reduction(n - 1)
            /\ log'[n] = log[n]
        BY <4>1, AppendFacts
      <4>3. /\ ~Rejects(Reduction(n - 1), log[n])
            /\ Reduction(n) = Apply(Reduction(n - 1), log[n])
        BY <4>1 DEF LogInv, CanonReducesTheLog
      <4>4. QED
        BY <4>2, <4>3
    <3>2. CASE n > Index
      <4>1. /\ n = Index + 1 /\ Index = Len(log) /\ n - 1 = Index
            /\ ~Rejects(Reduction(Index), e)
            /\ canon'[Index + 2] = Apply(Reduction(Index), e)
        BY <1>1, <3>2, AppendFacts
      <4>2. Reduction(n - 1)' = Reduction(Index) /\ log'[n] = e
        BY <4>1, AppendFacts
      <4>3. Reduction(n)' = Apply(Reduction(Index), e)
        BY <4>1 DEF Reduction
      <4>4. QED
        BY <4>1, <4>2, <4>3
    <3>3. QED
      BY <3>1, <3>2 DEF LogTypeOK, Index
  <2>3. ASSUME (Index < Len(log))'
        PROVE  Rejects(Reduction(Index)', log'[Index' + 1])
    <3>1. Index' = Index /\ (Index < Len(log) \/ Rejects(Reduction(Index), e))
      BY <2>3, AppendFacts
    <3>2. Reduction(Index)' = Reduction(Index)
      BY <1>1, <3>1, AppendFacts
    <3>3. CASE Index < Len(log)
      <4>1. Rejects(Reduction(Index), log[Index + 1])
        BY <3>3 DEF LogInv, CanonReducesTheLog
      <4>2. log'[Index + 1] = log[Index + 1]
        BY <1>1, <3>3
      <4>3. QED
        BY <3>1, <3>2, <4>1, <4>2
    <3>4. CASE ~(Index < Len(log))
      <4>1. Index = Len(log)
        BY <1>1, <3>4
      <4>2. QED
        BY <3>1, <4>1, AppendFacts
    <3>5. QED
      BY <3>3, <3>4
  <2>4. QED
    BY <2>1, <2>2, <2>3 DEF CanonReducesTheLog
<1>4. CanonIsOrdered'
  <2> SUFFICES ASSUME NEW m \in 0..Index', NEW n \in 0..Index', m <= n
               PROVE  /\ Reduction(m)'.revision <= Reduction(n)'.revision
                      /\ Reduction(m)'.revision = Reduction(n)'.revision =>
                             Reduction(m)' = Reduction(n)'
    BY DEF CanonIsOrdered
  <2>1. Index' \in Nat
    BY <1>1, AppendFacts
  <2>2. CASE n <= Index
    <3>1. m \in 0..Index /\ n \in 0..Index
      BY <1>1, <2>2
    <3>2. Reduction(m)' = Reduction(m) /\ Reduction(n)' = Reduction(n)
      BY <3>1, AppendFacts
    <3>3. QED
      BY <3>1, <3>2 DEF LogInv, CanonIsOrdered
  <2>3. CASE n > Index
    <3>1. /\ n = Index + 1
          /\ canon'[Index + 2] = Apply(Reduction(Index), e)
      BY <2>1, <2>3, AppendFacts
    <3>0. Reduction(n)' = Apply(Reduction(Index), e) /\ Reduction(Index) \in Snapshot
      BY <1>1, <3>1 DEF Reduction
    <3>2. \/ Reduction(n)' = Reduction(Index)
          \/ Reduction(n)'.revision = Reduction(Index).revision + 1
      BY <3>0, ApplyRevision
    <3>3. CASE m = n
      <4>1. Reduction(n)' \in Snapshot
        BY <3>0, ApplyType
      <4>2. QED
        BY <3>3, <4>1 DEF Snapshot
    <3>4. CASE m # n
      <4>1. m \in 0..Index /\ Index \in 0..Index /\ m <= Index
        BY <1>1, <3>1, <3>4
      <4>2. Reduction(m)' = Reduction(m)
        BY <4>1, AppendFacts
      <4>3. /\ Reduction(m).revision <= Reduction(Index).revision
            /\ Reduction(m).revision = Reduction(Index).revision => Reduction(m) = Reduction(Index)
        BY <4>1 DEF LogInv, CanonIsOrdered
      <4>4. Reduction(m).revision \in Nat /\ Reduction(Index).revision \in Nat
        BY <1>1, <4>1, Zenon DEF Snapshot
      <4>5. QED
        BY <3>2, <4>2, <4>3, <4>4
    <3>5. QED
      BY <3>3, <3>4
  <2>4. QED
    BY <1>1, <2>2, <2>3
<1>5. CanonHasOneCurrent'
  <2> SUFFICES ASSUME NEW n \in 0..Index' PROVE AtMostOneCurrent(Reduction(n)')
    BY DEF CanonHasOneCurrent
  <2>1. CASE n <= Index
    <3>1. n \in 0..Index
      BY <2>1
    <3>2. QED
      BY <3>1, AppendFacts DEF LogInv, CanonHasOneCurrent
  <2>2. CASE n > Index
    <3>1. /\ n = Index + 1 /\ ~Rejects(Reduction(Index), e)
          /\ canon'[Index + 2] = Apply(Reduction(Index), e)
      BY <1>1, <2>2, AppendFacts
    <3>2. Reduction(n)' = Apply(Reduction(Index), e)
      BY <1>1, <3>1 DEF Reduction
    <3>3. Reduction(Index) \in Snapshot /\ AtMostOneCurrent(Reduction(Index))
      BY <1>1 DEF LogInv, CanonHasOneCurrent
    <3>4. QED
      BY <3>1, <3>2, <3>3, ApplyKeepsOneCurrent
  <2>3. QED
    BY <2>1, <2>2, AppendFacts
<1>6. CanonIsValid'
  <2> SUFFICES ASSUME NEW n \in 0..Index' PROVE ValidSnapshot(Reduction(n)')
    BY DEF CanonIsValid
  <2>1. CASE n <= Index
    <3>1. n \in 0..Index
      BY <2>1
    <3>2. QED
      BY <3>1, AppendFacts DEF LogInv, CanonIsValid
  <2>2. CASE n > Index
    <3>1. /\ n = Index + 1 /\ ~Rejects(Reduction(Index), e)
          /\ canon'[Index + 2] = Apply(Reduction(Index), e)
      BY <1>1, <2>2, AppendFacts
    <3>2. Reduction(n)' = Apply(Reduction(Index), e)
      BY <1>1, <3>1 DEF Reduction
    <3>3. Reduction(Index) \in Snapshot /\ ValidSnapshot(Reduction(Index))
      BY <1>1 DEF LogInv, CanonIsValid
    <3>4. QED
      BY <3>1, <3>2, <3>3, ApplyKeepsValid
  <2>3. QED
    BY <2>1, <2>2, AppendFacts
<1>7. QED
  BY <1>2, <1>3, <1>4, <1>5, <1>6 DEF LogInv

(* A step that leaves the log alone. *)
LEMMA SameLog ==
    ASSUME LogInv, UNCHANGED <<log, canon>>
    PROVE  LogInv' /\ LogTypeOK'
BY
DEF LogInv, LogTypeOK, CanonReducesTheLog, CanonIsOrdered, CanonHasOneCurrent,
    CanonIsValid, Index, Reduction

(* Along the log nothing that a snapshot shows is lost. *)
CanonKeepsEntries ==
    \A m, n \in 0..Index : m <= n => KeepsEntries(Reduction(m), Reduction(n))

LEMMA CanonKeepsInit == LogInit => CanonKeepsEntries
<1> SUFFICES ASSUME LogInit PROVE CanonKeepsEntries
  OBVIOUS
<1>1. Index = 0 /\ Reduction(0) = EmptySnapshot
  BY DEF LogInit, Index, Reduction
<1>2. QED
  BY <1>1, EmptySnapshotFacts, KeepsReflexive DEF CanonKeepsEntries

LEMMA AppendKeepsEntries ==
    ASSUME LogInv, CanonKeepsEntries, NEW e \in Event, AppendRecord(e)
    PROVE  CanonKeepsEntries'
<1>1. Index \in Nat /\ \A n \in 0..Index : Reduction(n) \in Snapshot
  BY LogFacts DEF LogInv
<1> SUFFICES ASSUME NEW m \in 0..Index', NEW n \in 0..Index', m <= n
             PROVE  KeepsEntries(Reduction(m)', Reduction(n)')
  BY DEF CanonKeepsEntries
<1>2. CASE n <= Index
  <2>1. m \in 0..Index /\ n \in 0..Index
    BY <1>1, <1>2
  <2>2. Reduction(m)' = Reduction(m) /\ Reduction(n)' = Reduction(n)
    BY <2>1, AppendFacts
  <2>3. QED
    BY <2>1, <2>2 DEF CanonKeepsEntries
<1>3. CASE n > Index
  <2>1. /\ n = Index + 1 /\ ~Rejects(Reduction(Index), e)
        /\ canon'[Index + 2] = Apply(Reduction(Index), e)
    BY <1>1, <1>3, AppendFacts
  <2>2. /\ Reduction(n)' = Apply(Reduction(Index), e)
        /\ Reduction(Index) \in Snapshot /\ ValidSnapshot(Reduction(Index))
    BY <1>1, <2>1 DEF Reduction, LogInv, CanonIsValid
  <2>3. Reduction(n)' \in Snapshot /\ KeepsEntries(Reduction(Index), Reduction(n)')
    BY <2>1, <2>2, ApplyType, ApplyKeepsEntries
  <2>4. CASE m = n
    BY <2>3, <2>4, KeepsReflexive
  <2>5. CASE m # n
    <3>1. m \in 0..Index /\ Index \in 0..Index /\ m <= Index
      BY <1>1, <2>1, <2>5
    <3>2. /\ Reduction(m)' = Reduction(m) /\ Reduction(m) \in Snapshot
          /\ KeepsEntries(Reduction(m), Reduction(Index))
      BY <1>1, <3>1, AppendFacts DEF CanonKeepsEntries
    <3>3. QED
      BY <2>2, <2>3, <3>2, KeepsTransitive
  <2>6. QED
    BY <2>4, <2>5
<1>4. QED
  BY <1>1, <1>2, <1>3

=============================================================================
