------------------------- MODULE HubProjectionProofs ------------------------
(***************************************************************************)
(* The hubs' projections for every log, every number of hubs and every     *)
(* buffer: no gap between the barrier snapshot and the events, one live    *)
(* subscription per endpoint and only there where the log has one, and     *)
(* revisions that reveal every change.                                     *)
(***************************************************************************)
EXTENDS HubProjection, StateLogProofs

(* What an accepted event does to a topic. *)
LEMMA TopicEffect ==
    ASSUME NEW s \in Snapshot, NEW e \in Event, ~Rejects(s, e), NEW t \in Topics
    PROVE  LET x == s.topics[t]
               y == Apply(s, e).topics[t]
           IN  IF e.type = "TopicRegistered" /\ e.topic = t
               THEN /\ y.status = "active"
                    /\ y.contentType = e.contentType
                    /\ y.registeredAt = e.registeredAt
               ELSE /\ y.contentType = x.contentType
                    /\ y.registeredAt = x.registeredAt
                    /\ y.status = IF e.type = "TopicDeregistered" /\ e.topic = t
                                  THEN "inactive" ELSE x.status
<1>1. s.topics \in [Topics -> TopicEntry]
  BY DEF Snapshot
<1>2. CASE Unchanged(s, e)
  BY <1>2, Zenon DEF Apply, Unchanged, SameTopic, RemovalTypes
<1>3. CASE ~Unchanged(s, e)
  BY <1>1, <1>3 DEF Apply, Effect, TopicAfter
<1>4. QED
  BY <1>2, <1>3, Zenon

(* Reducing the next event keeps a snapshot on the track of the log. *)
LEMMA TracksStep ==
    ASSUME LogInv, NEW s \in Snapshot, NEW c \in Nat, NEW b \in 0..Index, c < Len(log),
           Tracks(canon, s, c, b), ~Rejects(s, log[c + 1])
    PROVE  Tracks(canon, Apply(s, log[c + 1]), c + 1, b)
<1> DEFINE e == log[c + 1]
<1>1. Index \in Nat /\ Len(log) \in Nat /\ Len(canon) = Index + 1
  BY DEF Index
<1> SUFFICES ASSUME c + 1 <= Index, NEW t \in Topics,
                    NEW f \in {"status", "contentType", "registeredAt"}
             PROVE  \/ Apply(s, e).topics[t][f] = Reduction(c + 1).topics[t][f]
                    \/ c + 1 < b /\ Apply(s, e).topics[t][f] = Reduction(b).topics[t][f]
  <2>1. c + 1 < Len(canon) <=> c + 1 <= Index
    BY <1>1
  <2>2. QED
    BY <2>1, Zenon DEF Tracks, Reduction
<1>2. c + 1 \in 1..Index /\ (c + 1) - 1 = c /\ c \in 0..Index
  BY <1>1
<1>3. /\ Reduction(c) \in Snapshot /\ e \in Event
      /\ ~Rejects(Reduction(c), e) /\ Reduction(c + 1) = Apply(Reduction(c), e)
  BY LogFacts DEF LogInv, CanonReducesTheLog
<1>4. \/ s.topics[t][f] = Reduction(c).topics[t][f]
      \/ c < b /\ s.topics[t][f] = Reduction(b).topics[t][f]
  BY <1>1 DEF Tracks, Reduction
<1>5. \/ Apply(s, e).topics[t][f] = Reduction(c + 1).topics[t][f]
      \/ c < b /\ Apply(s, e).topics[t][f] = Reduction(b).topics[t][f]
  <2>1. CASE f = "status"
    BY <1>3, <1>4, <2>1, TopicEffect
  <2>2. CASE f = "contentType"
    BY <1>3, <1>4, <2>2, TopicEffect
  <2>3. CASE f = "registeredAt"
    BY <1>3, <1>4, <2>3, TopicEffect
  <2>4. QED
    BY <2>1, <2>2, <2>3, Zenon
<1>6. CASE c + 1 = b
  BY <1>5
<1>7. CASE c + 1 # b
  BY <1>5
<1>8. QED
  BY <1>6, <1>7

(* Appending an event takes nothing off the track. *)
LEMMA TracksAppend ==
    ASSUME LogInv, NEW e \in Event, AppendRecord(e), NEW s, NEW c \in Nat, c <= Len(log),
           NEW b \in 0..Index, Tracks(canon, s, c, b)
    PROVE  Tracks(canon', s, c, b)
<1>1. Index \in Nat /\ Len(log) \in Nat /\ Len(canon) = Index + 1
  BY DEF Index
<1>2. CASE canon' = canon
  BY <1>2
<1>3. CASE canon' # canon
  <2>1. c \in 0..Index
    BY <1>3, AppendFacts
  <2>2. canon'[c + 1] = canon[c + 1] /\ canon'[b + 1] = canon[b + 1]
    <3>1. Reduction(c)' = Reduction(c) /\ Reduction(b)' = Reduction(b)
      BY <2>1, AppendFacts, Zenon
    <3>2. QED
      BY <3>1, Zenon DEF Reduction
  <2>3. QED
    <3>1. c < Len(canon)
      BY <1>1, <2>1
    <3>2. QED
      BY <2>2, <3>1, Zenon DEF Tracks
<1>4. QED
  BY <1>3

(* A change of the view increases its revision. *)
LEMMA RevisionStep ==
    ASSUME NEW v \in Snapshot, NEW s \in Snapshot, NEW e \in Event,
           s = v \/ v.revision < s.revision
    PROVE  Apply(s, e) = v \/ v.revision < Apply(s, e).revision
BY ApplyRevision DEF Snapshot

(* The barrier snapshot is the empty one or has a positive revision. *)
LEMMA ReductionRevision ==
    ASSUME LogInv, NEW n \in 0..Index
    PROVE  Reduction(n) = EmptySnapshot \/ EmptySnapshot.revision < Reduction(n).revision
<1>1. Reduction(n) \in Snapshot /\ Index \in Nat /\ Reduction(n).revision \in Nat
  BY LogFacts DEF LogInv, Snapshot
<1>2. Reduction(0) = EmptySnapshot /\ EmptySnapshot.revision = 0
  BY EmptySnapshotFacts DEF LogInv, CanonReducesTheLog
<1>3. /\ Reduction(0).revision <= Reduction(n).revision
      /\ Reduction(0).revision = Reduction(n).revision => Reduction(0) = Reduction(n)
  BY <1>1 DEF LogInv, CanonIsOrdered
<1>4. QED
  BY <1>1, <1>2, <1>3

-----------------------------------------------------------------------------
(* Arithmetic on offsets. *)
LEMMA Offsets ==
    \A a, b, c \in Nat :
        /\ a <= b => a <= b + 1
        /\ a < b => a + 1 <= b /\ a + 1 \in 1..b
        /\ a <= b /\ b <= c => a <= c
        /\ a <= b /\ b < c => a <= c
        /\ a < b /\ b <= c => a < c
OBVIOUS

(* What the invariant says of one hub and of the log. *)
Numbers(h) ==
    /\ Index \in Nat /\ Len(log) \in Nat /\ Index <= Len(log)
    /\ acked[h] \in Nat /\ position[h] \in Nat /\ cursor[h] \in Nat /\ barrier[h] \in Nat
    /\ acked[h] <= cursor[h] /\ cursor[h] <= position[h] /\ position[h] <= Len(log)
    /\ cursor[h] <= Len(log) /\ barrier[h] \in 0..Index

Known(h) ==
    /\ LogInv /\ LogTypeOK /\ HubTypeOK /\ ConsumerInv(h) /\ ViewInv(h) /\ TopicInv(h)
    /\ Index \in Nat /\ Len(log) \in Nat /\ Index <= Len(log)
    /\ acked[h] \in Nat /\ position[h] \in Nat /\ cursor[h] \in Nat /\ barrier[h] \in Nat
    /\ next[h] \in Snapshot /\ view[h] \in Snapshot

LEMMA HubFacts ==
    ASSUME HubInv, NEW h \in Clients
    PROVE  Known(h) /\ Numbers(h)
<1>1. Known(h)
  BY LogFacts, SMTT(30) DEF Known, HubInv, HubTypeOK, LogInv
<1>2. Numbers(h)
  BY <1>1 DEF Known, Numbers, ConsumerInv
<1>3. QED
  BY <1>1, <1>2

(* What the invariant of one hub depends on. *)
SameHub(o) ==
    /\ group'[o] = group[o] /\ stage'[o] = stage[o] /\ pending'[o] = pending[o]
    /\ acked'[o] = acked[o] /\ position'[o] = position[o] /\ cursor'[o] = cursor[o]
    /\ next'[o] = next[o] /\ view'[o] = view[o] /\ barrier'[o] = barrier[o]
    /\ joined'[o] = joined[o]

LEMMA OtherHub ==
    ASSUME HubInv, NEW o \in Clients, UNCHANGED <<log, canon>>, SameHub(o)
    PROVE  ConsumerInv(o)' /\ ViewInv(o)' /\ TopicInv(o)'
<1>1. ConsumerInv(o) /\ ViewInv(o) /\ TopicInv(o)
  BY DEF HubInv
<1>2. ConsumerInv(o)' /\ ViewInv(o)'
  BY <1>1, Zenon DEF SameHub, ConsumerInv, ViewInv, Index
<1>3. TopicInv(o)'
  BY <1>1, Zenon DEF SameHub, TopicInv
<1>4. QED
  BY <1>2, <1>3

LEMMA HubInitInv == HubInit => HubInv
<1> SUFFICES ASSUME HubInit PROVE HubInv
  OBVIOUS
<1>1. LogInv /\ LogTypeOK /\ Index \in Nat /\ Len(log) \in Nat
  BY LogInitInv, LogFacts DEF HubInit, ServiceInit, LogInv
<1>2. HubTypeOK
  BY <1>1, EmptySnapshotFacts, HubConstants
  DEF HubInit, ServiceInit, HubTypeOK, ServiceTypeOK, Stages
<1>3. ASSUME NEW h \in Clients PROVE ConsumerInv(h) /\ ViewInv(h) /\ TopicInv(h)
  BY <1>1, EmptySnapshotFacts DEF HubInit, ConsumerInv, ViewInv, TopicInv
<1>4. QED
  BY <1>1, <1>2, <1>3 DEF HubInv

(* The end of a process forgets everything but the group. *)
LEMMA DownInv ==
    ASSUME HubInv, NEW h \in Clients, Known(h), Numbers(h), Down(h), UNCHANGED <<log, canon>>,
           group' \in [Clients -> Nat \cup {Unset}], served' \in Nat, faults' \in 0..MaxFaults,
           group'[h] # Unset => group'[h] <= Len(log),
           pending' \in [Clients -> Nat \cup {NotAsked}],
           \A o \in Clients \ {h} : group'[o] = group[o] /\ pending'[o] = pending[o]
    PROVE  HubInv'
<1>1. LogInv' /\ LogTypeOK'
  BY SameLog, Zenon DEF Known
<1>2. HubTypeOK'
  BY <1>1, EmptySnapshotFacts, Zenon DEF Known, HubTypeOK, ServiceTypeOK, Down, Goto, Stages
<1>3. ASSUME NEW o \in Clients PROVE ConsumerInv(o)' /\ ViewInv(o)' /\ TopicInv(o)'
  <2>1. CASE o = h
    <3>1. Index' = Index
      BY DEF Index
    <3>2. QED
      BY <2>1, <3>1, EmptySnapshotFacts DEF Known, Down, Goto, ConsumerInv, ViewInv, TopicInv,
         HubTypeOK
  <2>2. CASE o # h
    <3>1. SameHub(o) /\ UNCHANGED <<log, canon>>
      BY <2>2 DEF SameHub, Known, HubTypeOK, ServiceTypeOK, Down, Goto
    <3>2. QED
      BY <3>1, OtherHub, Zenon
  <2>3. QED
    BY <2>1, <2>2
<1>4. QED
  BY <1>1, <1>2, <1>3, Zenon DEF HubInv

-----------------------------------------------------------------------------
LEMMA OpenInv ==
    ASSUME HubInv, NEW h \in Clients, Known(h), Numbers(h), Open(h)
    PROVE  HubInv'
<1>1. LogInv' /\ LogTypeOK'
  BY SameLog DEF Known, Open, serviceVars
<1>2. HubTypeOK'
  BY <1>1, Zenon DEF Known, HubTypeOK, ServiceTypeOK, Stages, Open, StartOffset, Goto, serviceVars,
     projections
<1>3. ASSUME NEW o \in Clients PROVE ConsumerInv(o)' /\ ViewInv(o)' /\ TopicInv(o)'
  <2>1. CASE o = h
    <3>1. ConsumerInv(h)'
      <4>1. /\ StartOffset(h) \in Nat /\ StartOffset(h) <= Len(log)
            /\ group[h] # Unset => group[h] <= Len(log)
            /\ barrier[h] <= Index
        BY DEF Known, ConsumerInv, StartOffset, HubTypeOK
      <4>2. /\ acked'[h] = StartOffset(h) /\ position'[h] = StartOffset(h)
            /\ cursor'[h] = StartOffset(h) /\ stage'[h] \in {"opened", "buffered"}
            /\ group'[h] = group[h] /\ barrier'[h] = barrier[h]
            /\ Len(log') = Len(log) /\ Index' = Index
        BY DEF Known, Open, Goto, HubTypeOK, serviceVars, projections, Index
      <4>3. QED
        BY <4>1, <4>2 DEF ConsumerInv, Startup
    <3>2. ViewInv(h)'
      BY SMTT(30) DEF Known, ViewInv, Open, Goto, projections
    <3>3. TopicInv(h)'
      BY DEF TopicInv, Open, Goto
    <3>4. QED
      BY <2>1, <3>1, <3>2, <3>3
  <2>2. CASE o # h
    <3>1. SameHub(o) /\ UNCHANGED <<log, canon>>
      BY <2>2 DEF SameHub, Known, HubTypeOK, ServiceTypeOK, Open, Goto, serviceVars, projections
    <3>2. QED
      BY <3>1, OtherHub
  <2>3. QED
    BY <2>1, <2>2
<1>4. QED
  BY <1>1, <1>2, <1>3 DEF HubInv

LEMMA BufferInv ==
    ASSUME HubInv, NEW h \in Clients, Known(h), Numbers(h), Buffer(h)
    PROVE  HubInv'
<1>1. LogInv' /\ LogTypeOK'
  BY SameLog, Zenon DEF Known, Buffer, serviceVars
<1>2. /\ position'[h] \in Nat /\ position'[h] <= Len(log)
      /\ position[h] < position'[h] /\ cursor[h] <= position'[h]
  <2>1. position'[h] \in Nat /\ position[h] < position'[h] /\ position'[h] <= Len(log)
    BY HubConstants, SMTT(30) DEF Known, Buffer, ReceiveUpTo, HubTypeOK
  <2>2. QED
    BY <2>1, Offsets, Zenon DEF Numbers
<1>3. HubTypeOK'
  <2>1. PICK p \in 1..MaxEvents : position' = [position EXCEPT ![h] = p]
    BY Zenon DEF Buffer, ReceiveUpTo
  <2>2. position' \in [Clients -> Nat]
    BY <2>1 DEF Known, HubTypeOK
  <2>3. stage' \in [Clients -> Stages]
    BY DEF Known, Buffer, Goto, HubTypeOK, Stages
  <2>4. QED
    BY <1>1, <2>2, <2>3, Zenon DEF Known, HubTypeOK, ServiceTypeOK, Buffer, serviceVars, projections
<1>4. ASSUME NEW o \in Clients PROVE ConsumerInv(o)' /\ ViewInv(o)' /\ TopicInv(o)'
  <2>1. CASE o = h
    <3>1. ConsumerInv(h)'
      <4>1. /\ acked'[h] = acked[h] /\ cursor'[h] = cursor[h] /\ group'[h] = group[h]
            /\ barrier'[h] = barrier[h] /\ Len(log') = Len(log) /\ Index' = Index
            /\ stage[h] = "opened" /\ stage'[h] = "buffering"
        BY DEF Known, HubTypeOK, Buffer, Goto, serviceVars, projections, Index
      <4>2. QED
        BY <1>2, <4>1, Zenon DEF Known, ConsumerInv, Startup
    <3>2. ViewInv(h)'
      <4>1. /\ next'[h] = next[h] /\ view'[h] = view[h]
            /\ stage[h] = "opened" /\ stage'[h] = "buffering"
        BY DEF Known, HubTypeOK, Buffer, Goto, projections
      <4>2. QED
        BY <4>1, Zenon DEF Known, ViewInv, Startup
    <3>3. TopicInv(h)'
      BY SMTT(30) DEF TopicInv, Buffer, Goto
    <3>4. QED
      BY <2>1, <3>1, <3>2, <3>3
  <2>2. CASE o # h
    <3>1. SameHub(o) /\ UNCHANGED <<log, canon>>
      BY <2>2 DEF SameHub, Known, HubTypeOK, ServiceTypeOK, Buffer, Goto, serviceVars,
         projections, ReceiveUpTo
    <3>2. QED
      BY <3>1, OtherHub
  <2>3. QED
    BY <2>1, <2>2
<1>5. QED
  BY <1>1, <1>3, <1>4 DEF HubInv

LEMMA RequestSnapshotInv ==
    ASSUME HubInv, NEW h \in Clients, Known(h), Numbers(h), RequestSnapshot(h)
    PROVE  HubInv'
<1>1. LogInv' /\ LogTypeOK'
  BY SameLog DEF Known, RequestSnapshot, Ask
<1>2. HubTypeOK'
  BY <1>1, Zenon DEF Known, HubTypeOK, ServiceTypeOK, Stages, RequestSnapshot, Goto, consumers,
     projections, Ask
<1>3. ASSUME NEW o \in Clients PROVE ConsumerInv(o)' /\ ViewInv(o)' /\ TopicInv(o)'
  <2>1. CASE o = h
    <3>1. ConsumerInv(h)'
      BY NotAskedAssumption, SMTT(30) DEF Known, ConsumerInv, Startup, HubTypeOK, ServiceTypeOK, Index,
         RequestSnapshot, Goto, consumers, projections, Ask
    <3>2. ViewInv(h)'
      BY DEF Known, ViewInv, Startup, RequestSnapshot, Goto, projections
    <3>3. TopicInv(h)'
      BY SMTT(30) DEF TopicInv, RequestSnapshot, Goto
    <3>4. QED
      BY <2>1, <3>1, <3>2, <3>3
  <2>2. CASE o # h
    <3>1. SameHub(o) /\ UNCHANGED <<log, canon>>
      BY <2>2 DEF SameHub, Known, HubTypeOK, ServiceTypeOK, RequestSnapshot, Goto, consumers,
         projections, Ask
    <3>2. QED
      BY <3>1, OtherHub
  <2>3. QED
    BY <2>1, <2>2
<1>4. QED
  BY <1>1, <1>2, <1>3 DEF HubInv

LEMMA SnapshotAnsweredInv ==
    ASSUME HubInv, NEW h \in Clients, Known(h), Numbers(h), SnapshotAnswered(h)
    PROVE  HubInv'
<1>1. LogInv' /\ LogTypeOK'
  BY SameLog, Zenon DEF Known, SnapshotAnswered, AnswerWith
<1>2. PICK n \in 0..Index :
         /\ pending[h] # NotAsked /\ pending[h] \in Nat
         /\ served' = Reduction(n).revision
         /\ pending' = [pending EXCEPT ![h] = NotAsked]
         /\ next' = [next EXCEPT ![h] = Reduction(n)]
         /\ barrier' = [barrier EXCEPT ![h] = n]
         /\ joined' = [joined EXCEPT ![h] = pending[h] <= n \/ acked[h] <= n]
  BY Zenon DEF Known, SnapshotAnswered, AnswerWith, HubTypeOK, ServiceTypeOK
<1>3. Reduction(n) \in Snapshot /\ Reduction(n).revision \in Nat /\ n \in Nat /\ n <= Index
  <2>1. n \in Nat /\ n <= Index
    BY <1>2, SMTT(30) DEF Numbers
  <2>2. Reduction(n) \in Snapshot
    BY <1>2, LogFacts, Zenon DEF Known
  <2>3. QED
    BY <2>1, <2>2 DEF Snapshot
<1>4. HubTypeOK'
  BY <1>1, <1>2, <1>3, Zenon DEF Known, HubTypeOK, ServiceTypeOK, Stages, SnapshotAnswered, Goto,
     consumers
<1>5. ASSUME NEW o \in Clients PROVE ConsumerInv(o)' /\ ViewInv(o)' /\ TopicInv(o)'
  <2>1. CASE o = h
    <3>1. ConsumerInv(h)'
      BY SMTT(30) DEF Known, ConsumerInv, Startup, HubTypeOK, Index, SnapshotAnswered, Goto, AnswerWith,
         consumers
    <3>2. ViewInv(h)'
      <4>1. AtMostOneCurrent(Reduction(n))
        BY Zenon DEF Known, LogInv, CanonHasOneCurrent
      <4>2. view[h] = EmptySnapshot
        BY Zenon DEF Known, ViewInv, Startup, SnapshotAnswered
      <4>3. QED
        BY <1>2, <4>1, <4>2, ReductionRevision, Zenon DEF Known, ViewInv, HubTypeOK, SnapshotAnswered
    <3>3. TopicInv(h)'
      <4> SUFFICES ASSUME joined'[h] PROVE TopicInv(h)'
        BY Zenon DEF TopicInv
      <4>1. acked[h] <= n /\ cursor[h] = acked[h]
        <5>1. stage[h] = "asked" /\ stage[h] \in Startup
          BY DEF SnapshotAnswered, Startup
        <5>2. acked[h] <= pending[h] /\ cursor[h] = acked[h]
          BY <5>1, Zenon DEF Known, ConsumerInv
        <5>3. pending[h] <= n \/ acked[h] <= n
          BY <1>2, Zenon DEF Known, HubTypeOK
        <5>4. QED
          BY <1>2, <1>3, <5>2, <5>3, Offsets, Zenon DEF Numbers
      <4>2. Tracks(canon, Reduction(n), cursor[h], n)
        BY <4>1, SMTT(30) DEF Known, Tracks, Reduction
      <4>3. QED
        BY <1>2, <4>2, Zenon DEF Known, TopicInv, HubTypeOK, SnapshotAnswered, Goto, AnswerWith,
           consumers
    <3>4. QED
      BY <2>1, <3>1, <3>2, <3>3
  <2>2. CASE o # h
    <3>1. SameHub(o) /\ UNCHANGED <<log, canon>>
      BY <2>2, Zenon DEF SameHub, Known, HubTypeOK, ServiceTypeOK, SnapshotAnswered, Goto, consumers,
         AnswerWith
    <3>2. QED
      BY <3>1, OtherHub
  <2>3. QED
    BY <2>1, <2>2
<1>6. QED
  BY <1>1, <1>4, <1>5 DEF HubInv

LEMMA ReceiveSnapshotInv ==
    ASSUME HubInv, NEW h \in Clients, Known(h), Numbers(h), ReceiveSnapshot(h)
    PROVE  HubInv'
<1>1. UNCHANGED <<log, canon, pending, served, group, faults>>
  BY Zenon DEF ReceiveSnapshot, serviceVars
<1>2. LogInv' /\ LogTypeOK'
  BY <1>1, SameLog, Zenon DEF Known
<1>3. HubTypeOK'
  BY <1>1, <1>2, Zenon DEF Known, HubTypeOK, ServiceTypeOK, Stages, ReceiveSnapshot, Goto, consumers,
     projections
<1>4. ASSUME NEW o \in Clients PROVE ConsumerInv(o)' /\ ViewInv(o)' /\ TopicInv(o)'
  <2>1. CASE o = h
    <3>1. /\ acked' = acked /\ position' = position /\ cursor' = cursor /\ next' = next
          /\ view' = view /\ barrier' = barrier /\ joined' = joined
          /\ Len(log') = Len(log) /\ Index' = Index
          /\ stage[h] = "answered" /\ stage'[h] = "reducing"
      BY <1>1, Zenon DEF Known, HubTypeOK, ReceiveSnapshot, Goto, consumers, projections, Index
    <3>2. ConsumerInv(h)'
      BY <1>1, <3>1, Zenon DEF Known, ConsumerInv, Startup
    <3>3. ViewInv(h)' /\ TopicInv(h)'
      BY <1>1, <3>1, Zenon DEF Known, ViewInv, TopicInv, Startup
    <3>4. QED
      BY <2>1, <3>2, <3>3
  <2>2. CASE o # h
    <3>1. SameHub(o) /\ UNCHANGED <<log, canon>>
      BY <1>1, <2>2, Zenon DEF SameHub, Known, HubTypeOK, ServiceTypeOK, ReceiveSnapshot, Goto,
         consumers, projections
    <3>2. QED
      BY <3>1, OtherHub
  <2>3. QED
    BY <2>1, <2>2
<1>5. QED
  BY <1>2, <1>3, <1>4 DEF HubInv

LEMMA ReceiveInv ==
    ASSUME HubInv, NEW h \in Clients, Known(h), Numbers(h), Receive(h)
    PROVE  HubInv'
<1>1. LogInv' /\ LogTypeOK'
  BY SameLog, Zenon DEF Known, Receive, serviceVars
<1>2. /\ position'[h] \in Nat /\ position'[h] <= Len(log)
      /\ position[h] < position'[h] /\ cursor[h] <= position'[h]
  <2>1. position'[h] \in Nat /\ position[h] < position'[h] /\ position'[h] <= Len(log)
    BY HubConstants, SMTT(30) DEF Known, Receive, ReceiveUpTo, HubTypeOK
  <2>2. QED
    BY <2>1, Offsets DEF Numbers
<1>3. HubTypeOK'
  <2>1. PICK p \in 1..MaxEvents : position' = [position EXCEPT ![h] = p]
    BY Zenon DEF Receive, ReceiveUpTo
  <2>2. position' \in [Clients -> Nat]
    BY <2>1 DEF Known, HubTypeOK
  <2>3. stage' \in [Clients -> Stages]
    BY Zenon DEF Known, Receive, Goto, HubTypeOK, Stages
  <2>4. next' \in [Clients -> Snapshot]
    BY Zenon DEF Known, Receive, HubTypeOK
  <2>5. QED
    BY <1>1, <2>2, <2>3, <2>4, Zenon DEF Known, HubTypeOK, ServiceTypeOK, Receive, serviceVars
<1>4. ASSUME NEW o \in Clients PROVE ConsumerInv(o)' /\ ViewInv(o)' /\ TopicInv(o)'
  <2>1. CASE o = h
    <3>1. ConsumerInv(h)'
      <4>1. /\ acked'[h] = acked[h] /\ cursor'[h] = cursor[h] /\ group'[h] = group[h]
            /\ barrier'[h] = barrier[h] /\ Len(log') = Len(log) /\ Index' = Index
            /\ stage'[h] = "reducing"
        BY Zenon DEF Known, HubTypeOK, Receive, Goto, serviceVars, Index
      <4>2. QED
        BY <1>2, <4>1, Zenon DEF Known, ConsumerInv, Startup
    <3>2. ViewInv(h)'
      BY Zenon DEF Known, ViewInv, Startup, HubTypeOK, Receive, Goto
    <3>3. TopicInv(h)'
      BY Zenon DEF Known, TopicInv, ConsumerInv, HubTypeOK, Receive, Goto, serviceVars
    <3>4. QED
      BY <2>1, <3>1, <3>2, <3>3
  <2>2. CASE o # h
    <3>1. SameHub(o) /\ UNCHANGED <<log, canon>>
      BY <2>2, Zenon DEF SameHub, Known, HubTypeOK, ServiceTypeOK, Receive, Goto, serviceVars,
         ReceiveUpTo
    <3>2. QED
      BY <3>1, OtherHub
  <2>3. QED
    BY <2>1, <2>2
<1>5. QED
  BY <1>1, <1>3, <1>4 DEF HubInv

LEMMA ReducedInv ==
    ASSUME HubInv, NEW h \in Clients, Known(h), Numbers(h), Reduced(h)
    PROVE  HubInv'
<1>1. LogInv' /\ LogTypeOK'
  BY SameLog, Zenon DEF Known, Reduced, serviceVars
<1>2. HubTypeOK'
  BY <1>1, Zenon DEF Known, HubTypeOK, ServiceTypeOK, Stages, Reduced, Goto, serviceVars, projections
<1>3. ASSUME NEW o \in Clients PROVE ConsumerInv(o)' /\ ViewInv(o)' /\ TopicInv(o)'
  <2>1. CASE o = h
    <3>1. ConsumerInv(h)'
      BY SMTT(30) DEF Known, ConsumerInv, HubTypeOK, Index, Reduced, Goto, serviceVars, projections
    <3>2. ViewInv(h)'
      <4>1. /\ next'[h] = next[h] /\ view'[h] = view[h]
            /\ stage[h] = "reducing" /\ stage'[h] = "acking"
        BY Zenon DEF Known, HubTypeOK, Reduced, Goto, projections
      <4>2. QED
        BY <4>1, Zenon DEF Known, ViewInv, Startup
    <3>3. TopicInv(h)'
      BY Zenon DEF Known, TopicInv, HubTypeOK, Reduced, Goto, serviceVars, projections
    <3>4. QED
      BY <2>1, <3>1, <3>2, <3>3
  <2>2. CASE o # h
    <3>1. SameHub(o) /\ UNCHANGED <<log, canon>>
      BY <2>2, Zenon DEF SameHub, Known, HubTypeOK, ServiceTypeOK, Reduced, Goto, serviceVars,
         projections
    <3>2. QED
      BY <3>1, OtherHub
  <2>3. QED
    BY <2>1, <2>2
<1>4. QED
  BY <1>1, <1>2, <1>3 DEF HubInv

LEMMA AckInv ==
    ASSUME HubInv, NEW h \in Clients, Known(h), Numbers(h), Ack(h)
    PROVE  HubInv'
<1>1. LogInv' /\ LogTypeOK'
  BY SameLog, Zenon DEF Known, Ack, serviceVars
<1>2. group' \in [Clients -> Nat \cup {Unset}] /\ cursor' \in [Clients -> Nat]
  <2>1. /\ cursor[h] + 1 \in Nat /\ cursor \in [Clients -> Nat]
        /\ group \in [Clients -> Nat \cup {Unset}]
    BY DEF Known, HubTypeOK
  <2>2. QED
    BY <2>1 DEF Ack
<1>3. HubTypeOK'
  BY <1>1, <1>2, Zenon DEF Known, HubTypeOK, ServiceTypeOK, Ack, serviceVars, projections
<1>4. /\ group'[h] = cursor[h] + 1 /\ cursor'[h] = cursor[h] + 1
      /\ acked'[h] = acked[h] /\ position'[h] = position[h] /\ barrier'[h] = barrier[h]
      /\ stage'[h] = "acking" /\ Len(log') = Len(log) /\ Index' = Index
  BY Zenon DEF Known, Ack, HubTypeOK, serviceVars, projections, Index
<1>5. ASSUME NEW o \in Clients PROVE ConsumerInv(o)' /\ ViewInv(o)' /\ TopicInv(o)'
  <2>1. CASE o = h
    <3>1. ConsumerInv(h)'
      <4>1. /\ acked[h] <= cursor[h] + 1 /\ cursor[h] + 1 <= position[h]
            /\ cursor[h] < Len(log)
        BY Offsets, Zenon DEF Numbers, Ack
      <4>2. cursor[h] + 1 <= Len(log)
        BY <4>1, Offsets, Zenon DEF Numbers
      <4>3. QED
        BY <1>4, <4>1, <4>2, Zenon DEF Known, ConsumerInv, Startup
    <3>2. ViewInv(h)'
      BY Zenon DEF Known, ViewInv, Ack, projections
    <3>3. TopicInv(h)'
      BY Zenon DEF Known, TopicInv, Ack, serviceVars, projections
    <3>4. QED
      BY <2>1, <3>1, <3>2, <3>3
  <2>2. CASE o # h
    <3>1. SameHub(o) /\ UNCHANGED <<log, canon>>
      BY <2>2, Zenon DEF SameHub, Known, HubTypeOK, ServiceTypeOK, Ack, serviceVars, projections
    <3>2. QED
      BY <3>1, OtherHub
  <2>3. QED
    BY <2>1, <2>2
<1>6. QED
  BY <1>1, <1>3, <1>5 DEF HubInv

LEMMA InstallInv ==
    ASSUME HubInv, NEW h \in Clients, Known(h), Numbers(h), Install(h)
    PROVE  HubInv'
<1>1. LogInv' /\ LogTypeOK'
  BY SameLog, Zenon DEF Known, Install, serviceVars
<1>2. HubTypeOK'
  BY <1>1, Zenon DEF Known, HubTypeOK, ServiceTypeOK, Stages, Install, Goto, serviceVars
<1>3. ASSUME NEW o \in Clients PROVE ConsumerInv(o)' /\ ViewInv(o)' /\ TopicInv(o)'
  <2>1. CASE o = h
    <3>1. ConsumerInv(h)'
      BY Zenon DEF Known, ConsumerInv, HubTypeOK, Index, Install, Goto, serviceVars
    <3>2. ViewInv(h)'
      <4>1. next'[h] = next[h] /\ view'[h] = next[h] /\ stage'[h] = "ready"
        BY DEF Known, HubTypeOK, Install, Goto
      <4>2. QED
        BY <4>1, Zenon DEF Known, ViewInv, Startup
    <3>3. TopicInv(h)'
      BY Zenon DEF Known, TopicInv, HubTypeOK, Install, serviceVars
    <3>4. QED
      BY <2>1, <3>1, <3>2, <3>3
  <2>2. CASE o # h
    <3>1. SameHub(o) /\ UNCHANGED <<log, canon>>
      BY <2>2, Zenon DEF SameHub, Known, HubTypeOK, ServiceTypeOK, Install, Goto, serviceVars
    <3>2. QED
      BY <3>1, OtherHub
  <2>3. QED
    BY <2>1, <2>2
<1>4. QED
  BY <1>1, <1>2, <1>3 DEF HubInv

LEMMA CheckBufferInv ==
    ASSUME HubInv, NEW h \in Clients, Known(h), Numbers(h), CheckBuffer(h)
    PROVE  HubInv'
<1>1. UNCHANGED <<log, canon, pending, served, group, faults>>
  BY Zenon DEF CheckBuffer, serviceVars
<1>2. LogInv' /\ LogTypeOK'
  BY <1>1, SameLog, Zenon DEF Known
<1>3. CASE Down(h)
  BY <1>1, <1>3, DownInv, Zenon DEF Known, HubTypeOK, ServiceTypeOK, ConsumerInv
<1>4. CASE Goto(h, "buffered") /\ UNCHANGED <<consumers, projections>>
  <2>1. HubTypeOK'
    BY <1>1, <1>2, <1>4, Zenon DEF Known, HubTypeOK, ServiceTypeOK, Stages, Goto, consumers,
       projections
  <2>2. ASSUME NEW o \in Clients PROVE ConsumerInv(o)' /\ ViewInv(o)' /\ TopicInv(o)'
    <3>1. CASE o = h
      <4>1. /\ acked' = acked /\ position' = position /\ cursor' = cursor /\ next' = next
            /\ view' = view /\ barrier' = barrier /\ Len(log') = Len(log) /\ Index' = Index
            /\ stage[h] = "buffering" /\ stage'[h] = "buffered"
        BY <1>1, <1>4, Zenon DEF Known, HubTypeOK, CheckBuffer, Goto, consumers, projections, Index
      <4>2. ConsumerInv(h)'
        BY <1>1, <4>1, Zenon DEF Known, ConsumerInv, Startup
      <4>3. ViewInv(h)' /\ TopicInv(h)'
        BY <1>1, <4>1, Zenon DEF Known, ViewInv, TopicInv, Startup
      <4>4. QED
        BY <3>1, <4>2, <4>3
    <3>2. CASE o # h
      <4>1. SameHub(o) /\ UNCHANGED <<log, canon>>
        BY <1>1, <1>4, <3>2, Zenon DEF SameHub, Known, HubTypeOK, ServiceTypeOK, Goto, consumers,
           projections
      <4>2. QED
        BY <4>1, OtherHub
    <3>3. QED
      BY <3>1, <3>2
  <2>3. QED
    BY <1>2, <2>1, <2>2 DEF HubInv
<1>5. QED
  BY <1>3, <1>4, Zenon DEF CheckBuffer

(* Facts about numbers, apart from what else is known where they are used. *)
LEMMA NextOffset ==
    ASSUME NEW a \in Nat, NEW b \in Nat, NEW c \in Nat, a < b, b <= c
    PROVE  a + 1 \in Nat /\ a + 1 <= c
OBVIOUS

LEMMA LessOrEqual ==
    ASSUME NEW a \in Nat, NEW b \in Nat, a <= b
    PROVE  a < b \/ a = b
OBVIOUS

LEMMA RefusedInv ==
    ASSUME HubInv, NEW h \in Clients, Known(h), Numbers(h), Refused(h)
    PROVE  HubInv'
BY DownInv, Zenon DEF Known, Refused, Refuse, HubTypeOK, ServiceTypeOK, ConsumerInv

LEMMA FailsInv ==
    ASSUME HubInv, NEW h \in Clients, Known(h), Numbers(h), Fails(h)
    PROVE  HubInv'
<1>1. /\ Down(h) /\ UNCHANGED <<log, canon, served>>
      /\ pending' \in [Clients -> Nat \cup {NotAsked}]
      /\ \A o \in Clients \ {h} : pending'[o] = pending[o]
  BY Zenon DEF Known, Fails, Refuse, HubTypeOK, ServiceTypeOK
<1>2. faults' \in 0..MaxFaults
  BY HubConstants DEF Known, Fails, Fault, HubTypeOK
<1>3. /\ group' \in [Clients -> Nat \cup {Unset}]
      /\ group'[h] # Unset => group'[h] <= Len(log)
      /\ \A o \in Clients \ {h} : group'[o] = group[o]
  <2>1. CASE UNCHANGED group
    BY <2>1, Zenon DEF Known, HubTypeOK, ConsumerInv
  <2>2. CASE /\ cursor[h] < position[h]
             /\ group' = [group EXCEPT ![h] = cursor[h] + 1]
    <3>1. cursor[h] + 1 \in Nat /\ cursor[h] + 1 <= Len(log)
      BY <2>2, NextOffset, Zenon DEF Numbers
    <3>2. QED
      BY <2>2, <3>1, Zenon DEF Known, HubTypeOK
  <2>3. QED
    BY <2>1, <2>2, Zenon DEF Fails
<1>4. QED
  BY <1>1, <1>2, <1>3, DownInv, Zenon DEF Known, HubTypeOK, ServiceTypeOK

(* One event is reduced on top of the snapshot. *)
LEMMA ReduceInv ==
    ASSUME HubInv, NEW h \in Clients, Known(h), Numbers(h), Reduce(h)
    PROVE  HubInv'
<1>1. UNCHANGED <<log, canon, pending, served, group, faults>>
  BY Zenon DEF Reduce, serviceVars
<1>2. LogInv' /\ LogTypeOK'
  BY <1>1, SameLog DEF Known
<1>3. /\ cursor[h] < Len(log) /\ cursor[h] + 1 <= position[h]
      /\ log[cursor[h] + 1] \in Event /\ stage[h] = "reducing"
  <2>1. cursor[h] < Len(log) /\ cursor[h] + 1 <= position[h] /\ stage[h] = "reducing"
    BY Offsets, Zenon DEF Numbers, Reduce
  <2>2. cursor[h] + 1 \in 1..Len(log)
    BY <2>1, Offsets, Zenon DEF Numbers
  <2>3. QED
    BY <2>1, <2>2, LogFacts, Zenon DEF Known
<1>4. CASE Rejects(next[h], log[cursor[h] + 1])
  BY <1>1, <1>4, DownInv, Zenon DEF Known, Reduce, HubTypeOK, ServiceTypeOK, ConsumerInv
<1>5. CASE ~Rejects(next[h], log[cursor[h] + 1])
  <2> DEFINE s == Apply(next[h], log[cursor[h] + 1])
  <2>1. /\ next' = [next EXCEPT ![h] = s]
        /\ cursor' = [cursor EXCEPT ![h] = cursor[h] + 1]
        /\ UNCHANGED <<stage, acked, position, view, barrier, joined>>
    BY <1>5, Zenon DEF Reduce
  <2>2. s \in Snapshot
    BY <1>3, ApplyType, Zenon DEF Known
  <2>3. AtMostOneCurrent(s)
    BY <1>3, <1>5, ApplyKeepsOneCurrent, Zenon DEF Known, ViewInv
  <2>4. s = view[h] \/ view[h].revision < s.revision
    BY <1>3, RevisionStep, Zenon DEF Known, ViewInv
  <2>5. ASSUME joined[h] PROVE Tracks(canon, s, cursor[h] + 1, barrier[h])
    <3>1. Tracks(canon, next[h], cursor[h], barrier[h]) /\ barrier[h] \in 0..Index
      <4>1. Tracks(canon, next[h], cursor[h], barrier[h])
        BY <1>3, <2>5, Zenon DEF Known, TopicInv
      <4>2. barrier[h] \in 0..Index
        BY Zenon DEF Numbers
      <4>3. QED
        BY <4>1, <4>2, Zenon
    <3>2. QED
      BY <1>3, <1>5, <3>1, TracksStep, Zenon DEF Known
  <2> HIDE DEF s
  <2>6. next'[h] = s /\ cursor'[h] = cursor[h] + 1
    BY <2>1, Zenon DEF Known, HubTypeOK
  <2>7. HubTypeOK'
    BY <1>1, <1>2, <2>1, <2>2, SMTT(30) DEF Known, HubTypeOK, ServiceTypeOK
  <2>8. ASSUME NEW o \in Clients PROVE ConsumerInv(o)' /\ ViewInv(o)' /\ TopicInv(o)'
    <3>1. CASE o = h
      <4>1. ConsumerInv(h)'
        <5>1. Len(log') = Len(log) /\ Index' = Index
          BY <1>1 DEF Index
        <5>2. QED
          <6>1. acked[h] <= cursor[h] + 1
            BY Offsets, Zenon DEF Numbers
          <6>2. QED
            BY <1>1, <1>3, <2>1, <2>6, <5>1, <6>1, Zenon DEF Known, ConsumerInv, Startup
      <4>2. ViewInv(h)'
        BY <1>3, <2>1, <2>3, <2>4, <2>6, Zenon DEF Known, ViewInv, Startup
      <4>3. TopicInv(h)'
        BY <1>1, <1>3, <2>1, <2>5, <2>6, Zenon DEF TopicInv
      <4>4. QED
        BY <3>1, <4>1, <4>2, <4>3
    <3>2. CASE o # h
      <4>1. SameHub(o) /\ UNCHANGED <<log, canon>>
        BY <1>1, <2>1, <3>2, Zenon DEF SameHub, Known, HubTypeOK
      <4>2. QED
        BY <4>1, OtherHub
    <3>3. QED
      BY <3>1, <3>2
  <2>9. QED
    BY <1>2, <2>7, <2>8 DEF HubInv
<1>6. QED
  BY <1>4, <1>5, Zenon

LEMMA HubAppendInv ==
    ASSUME HubInv, AppendByReplayingHub,
           UNCHANGED <<pending, served, group, stage, consumers, projections, faults>>
    PROVE  HubInv'
<1>1. PICK e \in Event : AppendRecord(e)
  BY Zenon DEF AppendByReplayingHub
<1>2. LogInv /\ LogTypeOK /\ LogInv' /\ LogTypeOK'
  BY <1>1, AppendInv, Zenon DEF HubInv, LogInv
<1>3. /\ Index \in Nat /\ Index' \in Nat /\ Index <= Index'
      /\ Len(log) \in Nat /\ Len(log') = Len(log) + 1
  BY <1>1, <1>2, AppendFacts, LogFacts, SMTT(30)
<1>4. HubTypeOK'
  BY <1>2, Zenon DEF HubInv, HubTypeOK, ServiceTypeOK, consumers, projections
<1>5. ASSUME NEW h \in Clients PROVE ConsumerInv(h)' /\ ViewInv(h)' /\ TopicInv(h)'
  <2>1. Known(h) /\ Numbers(h)
    BY HubFacts
  <2>2. ConsumerInv(h)'
    BY <1>3, <2>1, SMTT(30) DEF Known, ConsumerInv, consumers, projections, HubTypeOK
  <2>3. ViewInv(h)'
    BY <2>1, Zenon DEF Known, ViewInv, projections
  <2>4. barrier[h] \in 0..Index /\ cursor[h] <= Len(log) /\ position[h] <= Len(log)
    BY <2>1, Zenon DEF Numbers
  <2>5. TopicInv(h)'
    BY <1>1, <2>1, <2>4, TracksAppend, Zenon DEF Known, TopicInv, consumers, projections
  <2>6. QED
    BY <2>2, <2>3, <2>5
<1>6. QED
  BY <1>2, <1>4, <1>5 DEF HubInv

-----------------------------------------------------------------------------
LEMMA HubStepInv ==
    ASSUME HubInv, [HubNext]_hubVars
    PROVE  HubInv'
<1>1. CASE UNCHANGED hubVars
  <2>1. UNCHANGED <<log, canon, pending, served, group, stage, acked, position, cursor, next,
                    view, barrier, joined, faults>>
    BY <1>1 DEF hubVars, serviceVars, consumers, projections
  <2>2. LogInv' /\ LogTypeOK'
    BY <2>1, SameLog DEF HubInv
  <2>3. HubTypeOK'
    BY <2>1, <2>2, Zenon DEF HubInv, HubTypeOK, ServiceTypeOK
  <2>4. \A h \in Clients : ConsumerInv(h)' /\ ViewInv(h)' /\ TopicInv(h)'
    BY <2>1, OtherHub, Zenon DEF SameHub
  <2>5. QED
    BY <2>2, <2>3, <2>4 DEF HubInv
<1>2. CASE /\ AppendByReplayingHub
           /\ UNCHANGED <<pending, served, group, stage, consumers, projections, faults>>
  BY <1>2, HubAppendInv
<1>3. ASSUME NEW h \in Clients,
             \/ Open(h) \/ Buffer(h) \/ CheckBuffer(h) \/ RequestSnapshot(h) \/ SnapshotAnswered(h)
             \/ ReceiveSnapshot(h) \/ Refused(h) \/ Receive(h) \/ Reduce(h) \/ Reduced(h)
             \/ Ack(h) \/ Install(h) \/ Fails(h)
      PROVE  HubInv'
  BY <1>3, HubFacts, OpenInv, BufferInv, CheckBufferInv, RequestSnapshotInv, SnapshotAnsweredInv,
     ReceiveSnapshotInv, RefusedInv, ReceiveInv, ReduceInv, ReducedInv, AckInv, InstallInv, FailsInv, Zenon
<1>4. CASE \E h \in Clients : Idle(h)
  BY <1>1, <1>4, Zenon DEF Idle
<1>5. QED
  BY <1>1, <1>2, <1>3, <1>4, Zenon DEF HubNext

(* The invariant of every behaviour of the hubs (projection.go:58-171). *)
THEOREM HubInvariance == HubSpec => []HubInv
<1>1. HubInit => HubInv
  BY HubInitInv
<1>2. HubInv /\ [HubNext]_hubVars => HubInv'
  BY HubStepInv
<1>3. QED
  BY <1>1, <1>2, PTL DEF HubSpec

(* Every variable of the hubs keeps its type. *)
THEOREM HubTypeCorrectness == HubSpec => []HubTypeOK
<1>1. HubInv => HubTypeOK
  BY DEF HubInv
<1>2. QED
  BY <1>1, HubInvariance, PTL

(* No gap and no lasting distortion: for any history of starts, crashes    *)
(* and half acknowledged buffers, a settled hub has the topics of the log  *)
(* up to its position (projection.go:72-116).                              *)
THEOREM NoStartupGap == HubSpec => []TopicsConverge
<1>1. HubInv => TopicsConverge
  <2> SUFFICES ASSUME HubInv, NEW h \in Clients, NEW t \in Topics, Settled(h)
               PROVE  TopicContent(view[h], t) = TopicContent(Reduction(position[h]), t)
    BY Zenon DEF TopicsConverge
  <2>1. Known(h) /\ Numbers(h)
    BY HubFacts
  <2>2. Tracks(canon, view[h], position[h], barrier[h])
    BY <2>1, Zenon DEF Known, Settled, TopicInv
  <2>3. position[h] < Len(canon) /\ ~(position[h] < barrier[h])
    <3>1. Len(canon) = Index + 1 /\ Index \in Nat
      BY <2>1, SMTT(30) DEF Numbers, Index
    <3>2. QED
      BY <2>1, <3>1, SMTT(30) DEF Numbers, Settled
  <2>4. \A f \in {"status", "contentType", "registeredAt"} :
            view[h].topics[t][f] = Reduction(position[h]).topics[t][f]
    BY <2>2, <2>3, Zenon DEF Tracks, Reduction
  <2>5. /\ view[h].topics[t]["status"] = Reduction(position[h]).topics[t]["status"]
        /\ view[h].topics[t]["contentType"] = Reduction(position[h]).topics[t]["contentType"]
        /\ view[h].topics[t]["registeredAt"] = Reduction(position[h]).topics[t]["registeredAt"]
    BY <2>4, Zenon
  <2>6. QED
    BY <2>5, Zenon DEF TopicContent
<1>2. QED
  BY <1>1, HubInvariance, PTL

(* What a hub serves has one live subscription for a topic and a callback  *)
(* (reducer.go:109-115), although it may be no reduction of the log.       *)
THEOREM HubOneSubscription == HubSpec => []ViewsHaveOneSubscription
<1>1. HubInv => ViewsHaveOneSubscription
  BY Zenon DEF HubInv, ViewInv, ViewsHaveOneSubscription
<1>2. QED
  BY <1>1, HubInvariance, PTL

(* The revision test of consumeHub (hub.go:227) misses no change of the    *)
(* view.                                                                   *)
THEOREM RevisionsRevealChanges == HubSpec => ReconcileSeesEveryChange
<1> DEFINE Revealed == \A h \in Clients : stage'[h] # "down" /\ view'[h] # view[h] =>
                          view'[h].revision > view[h].revision
<1>1. HubInv /\ [HubNext]_hubVars => [Revealed]_hubVars
  <2> SUFFICES ASSUME HubInv, HubNext, NEW o \in Clients, stage'[o] # "down", view'[o] # view[o]
               PROVE  view'[o].revision > view[o].revision
    OBVIOUS
  <2>1. PICK h \in Clients : Down(h) \/ Install(h)
    BY Zenon
    DEF HubNext, Open, Buffer, CheckBuffer, RequestSnapshot, SnapshotAnswered, ReceiveSnapshot,
        Refused, Idle, Receive, Reduce, Reduced, Ack, Fails, projections, hubVars
  <2>2. Known(o)
    BY HubFacts
  <2>3. CASE Down(h)
    BY <2>2, <2>3, Zenon DEF Known, Down, Goto, HubTypeOK
  <2>4. CASE Install(h)
    <3>1. o = h /\ view'[o] = next[o]
      BY <2>2, <2>4, Zenon DEF Known, Install, HubTypeOK
    <3>2. view[o].revision < next[o].revision
      BY <2>2, <2>4, <3>1, Zenon DEF Known, Install, ViewInv
    <3>3. QED
      BY <2>2, <3>1, <3>2, Zenon DEF Known, Snapshot
  <2>5. QED
    BY <2>1, <2>3, <2>4
<1>2. QED
  BY <1>1, HubInvariance, PTL DEF HubSpec, ReconcileSeesEveryChange

-----------------------------------------------------------------------------
(* Subscriptions of hubs that reduce events a second time. *)

(* What an accepted event does to the status of a subscription. *)
StatusAfter(v, e, s) ==
    IF e.type \in {"TopicRegistered", "TopicDeregistered"} \/ e.subscription # s
    THEN v.subscriptions[s].status
    ELSE CASE e.type \in RemovalTypes -> "removed"
           [] e.type = "SubscriptionStale" -> "stale"
           [] e.type = "SubscriptionReactivated" -> "active"
           [] OTHER -> IF Coalesces(v, s) THEN v.subscriptions[s].status ELSE "active"

LEMMA EventTypes ==
    ASSUME NEW e \in Event
    PROVE  \/ e.type \in {"TopicRegistered", "TopicDeregistered"}
           \/ /\ e.subscription \in Subscriptions
              /\ e.type \in {"SubscriptionVerified", "SubscriptionReactivated",
                             "SubscriptionUnsubscribed", "SubscriptionRemoved",
                             "SubscriptionStale"}
BY DEF Event, TopicEvent, SubscriptionEvent, RemovalTypes

LEMMA SubscriptionEffect ==
    ASSUME NEW v \in Snapshot, NEW e \in Event, ~Rejects(v, e), NEW s \in Subscriptions
    PROVE  Apply(v, e).subscriptions[s].status = StatusAfter(v, e, s)
<1>1. v.subscriptions \in [Subscriptions -> SubscriptionEntry]
  BY DEF Snapshot
<1>2. CASE Unchanged(v, e)
  <2>1. Apply(v, e) = v
    BY <1>2, Zenon DEF Apply
  <2>2. CASE e.type \in {"TopicRegistered", "TopicDeregistered"} \/ e.subscription # s
    BY <2>1, <2>2, Zenon DEF StatusAfter
  <2>3. CASE e.subscription = s /\ e.type = "SubscriptionVerified"
    BY <1>2, <2>1, <2>3 DEF StatusAfter, Unchanged, RemovalTypes
  <2>4. CASE e.subscription = s /\ e.type = "SubscriptionReactivated"
    BY <1>2, <2>1, <2>4 DEF StatusAfter, Unchanged, RemovalTypes
  <2>5. CASE e.subscription = s /\ e.type = "SubscriptionStale"
    BY <1>2, <2>1, <2>5 DEF StatusAfter, Unchanged, RemovalTypes
  <2>6. CASE e.subscription = s /\ e.type \in RemovalTypes
    BY <1>2, <2>1, <2>6 DEF StatusAfter, Unchanged, RemovalTypes
  <2>7. QED
    BY <2>2, <2>3, <2>4, <2>5, <2>6, EventTypes, Zenon DEF RemovalTypes
<1>3. CASE ~Unchanged(v, e)
  <2>1. Apply(v, e) = Effect(v, e)
    BY <1>3, Zenon DEF Apply
  <2>2. CASE e.type \in {"TopicRegistered", "TopicDeregistered"}
    BY <2>1, <2>2 DEF StatusAfter, Effect
  <2>3. CASE e.type \notin {"TopicRegistered", "TopicDeregistered"} /\ e.subscription # s
    BY <1>1, <2>1, <2>3 DEF StatusAfter, Effect
  <2>4. CASE e.type \notin {"TopicRegistered", "TopicDeregistered"} /\ e.subscription = s
    <3>1. Apply(v, e).subscriptions[s] = SubscriptionAfter(e, v.revision + 1)
      BY <1>1, <2>1, <2>4, SMTT(30) DEF Effect
    <3>2. e.type = "SubscriptionVerified" => ~Coalesces(v, s)
      BY <1>3, <2>4, Zenon DEF Unchanged
    <3>3. QED
      BY <2>4, <3>1, <3>2, EventTypes DEF StatusAfter, SubscriptionAfter, RemovalTypes
  <2>5. QED
    BY <2>2, <2>3, <2>4, Zenon
<1>4. QED
  BY <1>2, <1>3

(* Statuses of v and k under one event that neither rejects. *)
LEMMA AgreesStep ==
    ASSUME NEW v \in Snapshot, NEW k \in Snapshot, Agrees(v, k), AtMostOneCurrent(k),
           NEW e \in Event, e.type # "SubscriptionReactivated", ~Rejects(v, e), ~Rejects(k, e)
    PROVE  Agrees(Apply(v, e), Apply(k, e))
<1> DEFINE V(s) == v.subscriptions[s].status
           K(s) == k.subscriptions[s].status
           W(s) == Apply(v, e).subscriptions[s].status
           L(s) == Apply(k, e).subscriptions[s].status
           live == {"active", "stale"}
<1>1. \A s \in Subscriptions : W(s) = StatusAfter(v, e, s) /\ L(s) = StatusAfter(k, e, s)
  BY SubscriptionEffect, Zenon
<1>2. \A s \in Subscriptions :
         /\ K(s) \in {"stale", "removed"} => V(s) = K(s)
         /\ K(s) \notin {"stale", "removed"} => V(s) \in {"absent", "active"}
         /\ K(s) \in live => \E o \in Subscriptions : SameEndpoint(s, o) /\ V(o) \in live
  BY Zenon DEF Agrees, Current, Coalesces
<1>3. \A s, u \in Subscriptions : SameEndpoint(u, s) /\ K(s) \in live /\ K(u) \in live => u = s
  BY Zenon DEF AtMostOneCurrent, Current
<1>4. \A s \in Subscriptions : K(s) \in {"absent", "active", "stale", "removed"}
  BY DEF Snapshot, SubscriptionEntry
<1>5. SUFFICES ASSUME NEW s \in Subscriptions
               PROVE  /\ L(s) \in {"stale", "removed"} => W(s) = L(s)
                      /\ L(s) \notin {"stale", "removed"} => W(s) \in {"absent", "active"}
                      /\ L(s) \in live => \E o \in Subscriptions : SameEndpoint(s, o) /\ W(o) \in live
  BY Zenon DEF Agrees, Current, Coalesces
<1> HIDE DEF V, K, W, L
<1>6. ASSUME W(s) = V(s), L(s) = K(s),
             K(s) \in live => \E o \in Subscriptions : SameEndpoint(s, o) /\ W(o) \in live
      PROVE  /\ L(s) \in {"stale", "removed"} => W(s) = L(s)
             /\ L(s) \notin {"stale", "removed"} => W(s) \in {"absent", "active"}
             /\ L(s) \in live => \E o \in Subscriptions : SameEndpoint(s, o) /\ W(o) \in live
  <2>1. /\ K(s) \in {"stale", "removed"} => V(s) = K(s)
        /\ K(s) \notin {"stale", "removed"} => V(s) \in {"absent", "active"}
    BY <1>2, Zenon
  <2>2. QED
    BY <1>6, <2>1
<1>7. CASE e.type \in {"TopicRegistered", "TopicDeregistered"}
  <2>1. \A u \in Subscriptions : W(u) = V(u) /\ L(u) = K(u)
    BY <1>1, <1>7, Zenon DEF StatusAfter, V, K
  <2>2. \A u \in Subscriptions : V(u) \in live => W(u) \in live
    BY <2>1
  <2>3. K(s) \in live => \E o \in Subscriptions : SameEndpoint(s, o) /\ W(o) \in live
    BY <1>2, <2>2, Zenon
  <2>4. QED
    BY <1>6, <2>1, <2>3, Zenon
<1>8. CASE e.type = "SubscriptionVerified"
  <2> DEFINE x == e.subscription
  <2>1. /\ x \in Subscriptions
        /\ K(x) \notin {"stale", "removed"} /\ V(x) \notin {"stale", "removed"}
    BY <1>8, EventTypes, Zenon DEF Rejects, V, K
  <2>2. \A u \in Subscriptions :
           /\ u # x => W(u) = V(u) /\ L(u) = K(u)
           /\ W(x) = IF Coalesces(v, x) THEN V(x) ELSE "active"
           /\ L(x) = IF Coalesces(k, x) THEN K(x) ELSE "active"
    BY <1>1, <1>8, <2>1 DEF StatusAfter, V, K, RemovalTypes
  <2> HIDE DEF x
  <2>3. /\ Coalesces(v, x) <=> \E o \in Subscriptions : SameEndpoint(x, o) /\ V(o) \in live
        /\ SameEndpoint(x, x)
    BY Zenon DEF Coalesces, Current, SameEndpoint, V
  <2>4. \A u \in Subscriptions : V(u) \in live => W(u) \in live
    BY <2>2, Zenon
  <2>5. CASE s # x
    <3>1. K(s) \in live => \E o \in Subscriptions : SameEndpoint(s, o) /\ W(o) \in live
      BY <1>2, <2>4, Zenon
    <3>2. QED
      BY <1>6, <2>2, <2>5, <3>1, Zenon
  <2>6. CASE s = x
    <3>1. L(x) \notin {"stale", "removed"} /\ W(x) \in {"absent", "active"}
      BY <1>2, <2>1, <2>2, Zenon
    <3>2. CASE Coalesces(v, x)
      BY <2>3, <2>4, <2>6, <3>1, <3>2, Zenon
    <3>3. CASE ~Coalesces(v, x)
      BY <2>1, <2>2, <2>3, <2>6, <3>1, <3>3, Zenon
    <3>4. QED
      BY <3>2, <3>3
  <2>7. QED
    BY <2>5, <2>6
<1>9. CASE e.type = "SubscriptionStale"
  <2> DEFINE x == e.subscription
  <2>1. /\ x \in Subscriptions
        /\ K(x) \notin {"absent", "removed"} /\ V(x) \notin {"absent", "removed"}
    BY <1>9, EventTypes, Zenon DEF Rejects, V, K
  <2>2. \A u \in Subscriptions :
           /\ u # x => W(u) = V(u) /\ L(u) = K(u)
           /\ W(x) = "stale" /\ L(x) = "stale"
    BY <1>1, <1>9, <2>1 DEF StatusAfter, V, K, RemovalTypes
  <2> HIDE DEF x
  <2>3. \A u \in Subscriptions : V(u) \in live => W(u) \in live
    BY <2>2, Zenon
  <2>4. K(s) \in live => \E o \in Subscriptions : SameEndpoint(s, o) /\ W(o) \in live
    BY <1>2, <2>3, Zenon
  <2>5. CASE s # x
    BY <1>6, <2>2, <2>4, <2>5, Zenon
  <2>6. CASE s = x
    <3>1. K(s) \in live
      BY <1>4, <2>1, <2>6, Zenon
    <3>2. QED
      BY <2>2, <2>4, <2>6, <3>1, Zenon
  <2>7. QED
    BY <2>5, <2>6
<1>10. CASE e.type \in RemovalTypes
  <2> DEFINE x == e.subscription
  <2>1. x \in Subscriptions /\ K(x) # "absent"
    BY <1>10, EventTypes, Zenon DEF Rejects, K, RemovalTypes
  <2>2. \A u \in Subscriptions :
           /\ u # x => W(u) = V(u) /\ L(u) = K(u)
           /\ W(x) = "removed" /\ L(x) = "removed"
    BY <1>1, <1>10, <2>1 DEF StatusAfter, V, K, RemovalTypes
  <2> HIDE DEF x
  <2>3. CASE s = x
    BY <2>2, <2>3, Zenon
  <2>4. CASE s # x
    <3>1. ASSUME K(s) \in live
          PROVE  \E o \in Subscriptions : SameEndpoint(s, o) /\ W(o) \in live
      <4>1. PICK o \in Subscriptions : SameEndpoint(s, o) /\ V(o) \in live
        BY <1>2, <3>1, Zenon
      <4>2. o # x
        <5>1. SUFFICES ASSUME o = x PROVE FALSE
          OBVIOUS
        <5>2. K(x) \in live
          BY <1>2, <1>4, <2>1, <4>1, <5>1, Zenon
        <5>3. QED
          BY <1>3, <2>1, <2>4, <3>1, <4>1, <5>1, <5>2, Zenon
      <4>3. QED
        BY <2>2, <4>1, <4>2, Zenon
    <3>2. QED
      BY <1>6, <2>2, <2>4, <3>1, Zenon
  <2>5. QED
    BY <2>3, <2>4
<1>11. QED
  BY <1>7, <1>8, <1>9, <1>10, EventTypes, Zenon DEF RemovalTypes

(* Reducing again, up to the barrier. *)
LEMMA ReplayStep ==
    ASSUME NEW v \in Snapshot, NEW b \in Snapshot, NEW k \in Snapshot, NEW e \in Event,
           e.type # "SubscriptionReactivated", ~Rejects(v, e), ~Rejects(k, e),
           NEW s \in Subscriptions,
           Advances(Apply(k, e).subscriptions[s].status, b.subscriptions[s].status),
           Retains(v.subscriptions[s].status, b.subscriptions[s].status)
    PROVE  Retains(Apply(v, e).subscriptions[s].status, b.subscriptions[s].status)
<1> DEFINE V == v.subscriptions[s].status
           B == b.subscriptions[s].status
           K == Apply(k, e).subscriptions[s].status
           W == Apply(v, e).subscriptions[s].status
<1>1. W = StatusAfter(v, e, s) /\ K = StatusAfter(k, e, s)
  BY SubscriptionEffect, Zenon
<1>2. CASE e.type \in {"TopicRegistered", "TopicDeregistered"} \/ e.subscription # s
  <2>1. W = V
    BY <1>1, <1>2, Zenon DEF StatusAfter
  <2>2. QED
    BY <2>1, Zenon
<1>3. CASE e.type = "SubscriptionVerified" /\ e.subscription = s
  <2>1. V \notin {"stale", "removed"}
    BY <1>3, Zenon DEF Rejects
  <2>2. W = V \/ W = "active"
    BY <1>1, <1>3 DEF StatusAfter, RemovalTypes
  <2>3. V \in {"absent", "active", "stale", "removed"}
    BY DEF Snapshot, SubscriptionEntry
  <2>4. QED
    BY <2>1, <2>2, <2>3 DEF Retains
<1>4. CASE e.type = "SubscriptionStale" /\ e.subscription = s
  <2>1. V \notin {"absent", "removed"}
    BY <1>4, Zenon DEF Rejects
  <2>2. K = "stale" /\ W = "stale"
    BY <1>1, <1>4 DEF StatusAfter, RemovalTypes
  <2>3. B \in {"stale", "removed"}
    BY <2>2, Zenon DEF Advances
  <2>4. QED
    BY <2>1, <2>2, <2>3 DEF Retains
<1>5. CASE e.type \in RemovalTypes /\ e.subscription = s
  <2>1. K = "removed" /\ W = "removed"
    BY <1>1, <1>5 DEF StatusAfter, RemovalTypes
  <2>2. B = "removed"
    BY <2>1 DEF Advances
  <2>3. QED
    BY <2>1, <2>2 DEF Retains
<1>6. QED
  BY <1>2, <1>3, <1>4, <1>5, EventTypes, Zenon DEF RemovalTypes

(* One event of the log takes no subscription back. *)
LEMMA ApplyAdvances ==
    ASSUME NEW k \in Snapshot, NEW e \in Event, e.type # "SubscriptionReactivated",
           ~Rejects(k, e), NEW s \in Subscriptions
    PROVE  Advances(k.subscriptions[s].status, Apply(k, e).subscriptions[s].status)
<1>1. Apply(k, e).subscriptions[s].status = StatusAfter(k, e, s)
  BY SubscriptionEffect, Zenon
<1>2. k.subscriptions[s].status \in {"absent", "active", "stale", "removed"}
  BY DEF Snapshot, SubscriptionEntry
<1>3. CASE e.type \in {"TopicRegistered", "TopicDeregistered"} \/ e.subscription # s
  BY <1>1, <1>3, Zenon DEF StatusAfter, Advances
<1>4. CASE e.type = "SubscriptionVerified" /\ e.subscription = s
  <2>1. k.subscriptions[s].status \notin {"stale", "removed"}
    BY <1>4, Zenon DEF Rejects
  <2>2. \/ StatusAfter(k, e, s) = k.subscriptions[s].status
        \/ StatusAfter(k, e, s) = "active"
    BY <1>4 DEF StatusAfter, RemovalTypes
  <2>3. QED
    BY <1>1, <1>2, <2>1, <2>2 DEF Advances
<1>5. CASE e.type = "SubscriptionStale" /\ e.subscription = s
  <2>1. k.subscriptions[s].status \notin {"absent", "removed"}
    BY <1>5, Zenon DEF Rejects
  <2>2. StatusAfter(k, e, s) = "stale"
    BY <1>5 DEF StatusAfter, RemovalTypes
  <2>3. QED
    BY <1>1, <1>2, <2>1, <2>2 DEF Advances
<1>6. CASE e.type \in RemovalTypes /\ e.subscription = s
  <2>1. StatusAfter(k, e, s) = "removed"
    BY <1>6 DEF StatusAfter, RemovalTypes
  <2>2. QED
    BY <1>1, <1>2, <2>1 DEF Advances
<1>7. QED
  BY <1>3, <1>4, <1>5, <1>6, EventTypes, Zenon DEF RemovalTypes

(* At the barrier, a snapshot with the statuses of k agrees with it. *)
LEMMA BarrierAgrees ==
    ASSUME NEW v, NEW k \in Snapshot,
           \A s \in Subscriptions :
               Retains(v.subscriptions[s].status, k.subscriptions[s].status)
    PROVE  Agrees(v, k)
<1> SUFFICES ASSUME NEW s \in Subscriptions
             PROVE  /\ IF k.subscriptions[s].status \in {"stale", "removed"}
                       THEN v.subscriptions[s].status = k.subscriptions[s].status
                       ELSE v.subscriptions[s].status \in {"absent", "active"}
                    /\ Current(k, s) => Coalesces(v, s)
  BY Zenon DEF Agrees
<1>1. k.subscriptions[s].status \in {"absent", "active", "stale", "removed"}
  BY DEF Snapshot, SubscriptionEntry
<1>2. SameEndpoint(s, s)
  BY Zenon DEF SameEndpoint
<1>3. Current(k, s) => Current(v, s)
  BY DEF Current, Retains
<1>4. Current(k, s) => Coalesces(v, s)
  BY <1>2, <1>3, Zenon DEF Coalesces
<1>5. QED
  BY <1>1, <1>4 DEF Retains

(* Reducing the next event keeps a snapshot with the log. *)
LEMMA FollowsStep ==
    ASSUME LogInv, LifecyclesAdvance, NEW v \in Snapshot, NEW c \in Nat, NEW b \in 0..Index,
           c < Len(log), Follows(canon, v, c, b), ~Rejects(v, log[c + 1])
    PROVE  Follows(canon, Apply(v, log[c + 1]), c + 1, b)
<1> DEFINE e == log[c + 1]
           B(s) == Reduction(b).subscriptions[s].status
           At(w) == \A s \in Subscriptions : Retains(w.subscriptions[s].status, B(s))
<1>1. Index \in Nat /\ Len(log) \in Nat /\ Len(canon) = Index + 1
  BY DEF Index
<1> SUFFICES ASSUME c + 1 <= Index
             PROVE  IF c + 1 < b THEN At(Apply(v, e)) ELSE Agrees(Apply(v, e), Reduction(c + 1))
  <2>1. c + 1 < Len(canon) <=> c + 1 <= Index
    BY <1>1
  <2>2. QED
    BY <2>1, Zenon DEF Follows, Reduction
<1>2. c + 1 \in 1..Index /\ (c + 1) - 1 = c /\ c \in 0..Index /\ c + 1 \in 0..Index
      /\ c + 1 \in 1..Len(log) /\ c < Len(canon)
  BY <1>1
<1>3. /\ Reduction(c) \in Snapshot /\ e \in Event /\ Reduction(b) \in Snapshot
      /\ ~Rejects(Reduction(c), e) /\ Reduction(c + 1) = Apply(Reduction(c), e)
      /\ AtMostOneCurrent(Reduction(c))
  <2>1. Reduction(c) \in Snapshot /\ e \in Event /\ Reduction(b) \in Snapshot
    BY <1>2, LogFacts, Zenon DEF LogInv
  <2>2. ~Rejects(Reduction(c), e) /\ Reduction(c + 1) = Apply(Reduction(c), e)
    BY <1>2 DEF LogInv, CanonReducesTheLog
  <2>3. AtMostOneCurrent(Reduction(c))
    BY <1>2, Zenon DEF LogInv, CanonHasOneCurrent
  <2>4. QED
    BY <2>1, <2>2, <2>3, Zenon
<1>4. e.type # "SubscriptionReactivated"
  BY <1>2, Zenon DEF LifecyclesAdvance
<1>5. CASE c < b
  <2>1. c + 1 <= b
    BY <1>5
  <2>2. At(v)
    BY <1>2, <1>5, Zenon DEF Follows, Reduction
  <2>3. \A s \in Subscriptions : Advances(Reduction(c + 1).subscriptions[s].status, B(s))
    BY <1>2, <2>1, Zenon DEF LifecyclesAdvance
  <2>4. At(Apply(v, e))
    <3> SUFFICES ASSUME NEW s \in Subscriptions
                 PROVE  Retains(Apply(v, e).subscriptions[s].status, B(s))
      BY Zenon
    <3>1. /\ Advances(Apply(Reduction(c), e).subscriptions[s].status, B(s))
          /\ Retains(v.subscriptions[s].status, B(s))
      BY <1>3, <2>2, <2>3, Zenon
    <3>2. QED
      BY <1>3, <1>4, <3>1, ReplayStep, Zenon
  <2>5. CASE c + 1 < b
    BY <2>4, <2>5, Zenon
  <2>6. CASE ~(c + 1 < b)
    <3>1. c + 1 = b
      BY <2>1, <2>6
    <3>2. Agrees(Apply(v, e), Reduction(b))
      BY <1>3, <2>4, BarrierAgrees, Zenon
    <3>3. QED
      BY <2>6, <3>1, <3>2, Zenon
  <2>7. QED
    BY <2>5, <2>6, Zenon
<1>6. CASE ~(c < b)
  <2>1. ~(c + 1 < b)
    BY <1>6
  <2>2. Agrees(v, Reduction(c))
    BY <1>2, <1>6, Zenon DEF Follows, Reduction
  <2>3. Agrees(Apply(v, e), Apply(Reduction(c), e))
    BY <1>3, <1>4, <2>2, AgreesStep, Zenon
  <2>4. QED
    BY <1>3, <2>1, <2>3, Zenon
<1>7. QED
  BY <1>5, <1>6, Zenon

(* Appending an event leaves a snapshot with the log. *)
LEMMA FollowsAppend ==
    ASSUME LogInv, NEW e \in Event, AppendRecord(e), NEW v, NEW c \in Nat, c <= Len(log),
           NEW b \in 0..Index, Follows(canon, v, c, b)
    PROVE  Follows(canon', v, c, b)
<1>1. Index \in Nat /\ Len(log) \in Nat /\ Len(canon) = Index + 1
  BY DEF Index
<1>2. CASE canon' = canon
  BY <1>2
<1>3. CASE canon' # canon
  <2>1. c \in 0..Index
    BY <1>3, AppendFacts
  <2>2. canon'[c + 1] = canon[c + 1] /\ canon'[b + 1] = canon[b + 1]
    <3>1. Reduction(c)' = Reduction(c) /\ Reduction(b)' = Reduction(b)
      BY <2>1, AppendFacts, Zenon
    <3>2. QED
      BY <3>1, Zenon DEF Reduction
  <2>3. QED
    <3>1. c < Len(canon)
      BY <1>1, <2>1
    <3>2. QED
      BY <2>2, <3>1, Zenon DEF Follows
<1>4. QED
  BY <1>2, <1>3

LEMMA AdvancesTransitive ==
    \A x, y, z : Advances(x, y) /\ Advances(y, z) => Advances(x, z)
BY DEF Advances

(* The producers append no reactivation, and the reducer accepts nothing   *)
(* that takes a subscription back.                                         *)
LEMMA LifecyclesAppend ==
    ASSUME LogInv, LifecyclesAdvance, NEW e \in Event, AppendRecord(e),
           e.type # "SubscriptionReactivated"
    PROVE  LifecyclesAdvance'
<1>1. Index \in Nat /\ Len(log) \in Nat /\ Index \in 0..Index
  BY LogFacts DEF LogInv
<1>2. \A i \in 1..Len(log') : log'[i].type # "SubscriptionReactivated"
  <2> SUFFICES ASSUME NEW i \in 1..Len(log') PROVE log'[i].type # "SubscriptionReactivated"
    OBVIOUS
  <2>1. i \in 1..Len(log) \/ i = Len(log) + 1
    <3>1. Len(log') = Len(log) + 1
      BY AppendFacts, Zenon
    <3>2. QED
      BY <1>1, <3>1
  <2>2. QED
    BY <2>1, AppendFacts, Zenon DEF LifecyclesAdvance
<1>3. ASSUME NEW m \in 0..Index', NEW n \in 0..Index', m <= n, NEW s \in Subscriptions
      PROVE  Advances(Reduction(m)'.subscriptions[s].status, Reduction(n)'.subscriptions[s].status)
  <2>1. CASE n \in 0..Index
    <3>1. m \in 0..Index
      BY <1>1, <1>3, <2>1, AppendFacts
    <3>2. Reduction(m)' = Reduction(m) /\ Reduction(n)' = Reduction(n)
      BY <2>1, <3>1, AppendFacts, Zenon
    <3>3. QED
      BY <1>3, <2>1, <3>1, <3>2, Zenon DEF LifecyclesAdvance
  <2>2. CASE n \notin 0..Index
    <3>1. /\ n = Index + 1 /\ ~Rejects(Reduction(Index), e)
          /\ canon'[Index + 2] = Apply(Reduction(Index), e)
      <4>1. \/ Index' = Index
            \/ /\ Index' = Index + 1 /\ ~Rejects(Reduction(Index), e)
               /\ canon'[Index + 2] = Apply(Reduction(Index), e)
        BY AppendFacts, Zenon
      <4>2. Index' = Index + 1 => n = Index + 1
        BY <1>1, <2>2
      <4>3. QED
        BY <2>2, <4>1, <4>2, Zenon
    <3>2. Reduction(n)' = Apply(Reduction(Index), e)
      BY <1>1, <3>1 DEF Reduction
    <3>3. m \in 0..Index \/ m = n
      BY <1>1, <1>3, <3>1
    <3>4. CASE m = n
      BY <3>4, Zenon DEF Advances
    <3>5. CASE m \in 0..Index
      <4>1. Reduction(m)' = Reduction(m) /\ m <= Index
        BY <1>1, <3>5, AppendFacts
      <4>2. Advances(Reduction(m).subscriptions[s].status,
                     Reduction(Index).subscriptions[s].status)
        BY <1>1, <3>5, <4>1, Zenon DEF LifecyclesAdvance
      <4>3. Reduction(Index) \in Snapshot
        BY <1>1, LogFacts, Zenon DEF LogInv
      <4>4. Advances(Reduction(Index).subscriptions[s].status,
                     Apply(Reduction(Index), e).subscriptions[s].status)
        BY <3>1, <4>3, ApplyAdvances, Zenon
      <4>5. QED
        BY <3>2, <4>1, <4>2, <4>4, AdvancesTransitive, Zenon
    <3>6. QED
      BY <3>3, <3>4, <3>5, Zenon
  <2>3. QED
    BY <2>1, <2>2, Zenon
<1>4. QED
  BY <1>2, <1>3, Zenon DEF LifecyclesAdvance

(* The log and every hub but h keep what the invariant says of them. *)
LEMMA AgreementOfOne ==
    ASSUME HubInv, AgreementInv, NEW h \in Clients, UNCHANGED <<log, canon>>,
           \A o \in Clients \ {h} : SameHub(o), SubscriptionInv(h)'
    PROVE  AgreementInv'
<1>1. LifecyclesAdvance'
  BY Zenon DEF AgreementInv, LifecyclesAdvance, Reduction, Index
<1>2. ASSUME NEW o \in Clients PROVE SubscriptionInv(o)'
  <2>1. CASE o = h
    BY <2>1, Zenon
  <2>2. CASE o # h
    BY <2>2, Zenon DEF AgreementInv, SubscriptionInv, SameHub
  <2>3. QED
    BY <2>1, <2>2, Zenon
<1>3. QED
  BY <1>1, <1>2, Zenon DEF AgreementInv

(* The end of a process leaves the other hubs alone. *)
LEMMA OthersStay ==
    ASSUME NEW h \in Clients, Known(h), Down(h), NEW o \in Clients, o # h
    PROVE  /\ stage'[o] = stage[o] /\ acked'[o] = acked[o] /\ position'[o] = position[o]
           /\ cursor'[o] = cursor[o] /\ next'[o] = next[o] /\ view'[o] = view[o]
           /\ barrier'[o] = barrier[o] /\ joined'[o] = joined[o]
BY Zenon DEF Known, HubTypeOK, Down, Goto

(* Steps after which the hub h is at a stage that has no snapshot to       *)
(* compare.                                                                *)
LEMMA StartupAgreement ==
    ASSUME HubInv, AgreementInv, NEW h \in Clients, Known(h),
           \/ Open(h) \/ Buffer(h) \/ CheckBuffer(h) \/ RequestSnapshot(h)
           \/ Refused(h) \/ Fails(h)
    PROVE  AgreementInv'
<1>1. UNCHANGED <<log, canon>>
  BY Zenon DEF Open, Buffer, CheckBuffer, RequestSnapshot, Refused, Fails, Ask, Refuse, serviceVars
<1>2. stage'[h] \in {"opened", "buffering", "buffered", "asked", "down"}
  BY Zenon DEF Known, HubTypeOK, Open, Buffer, CheckBuffer, RequestSnapshot, Refused, Fails, Down,
     Goto
<1>3. ASSUME NEW o \in Clients \ {h} PROVE SameHub(o)
  <2>0. o \in Clients /\ o # h
    BY Zenon
  <2>1. CASE Open(h) \/ Buffer(h)
    BY <2>1, Zenon DEF Known, HubTypeOK, SameHub, Open, Buffer, Goto, ReceiveUpTo, serviceVars,
       projections
  <2>2. CASE CheckBuffer(h)
    <3>1. group'[o] = group[o] /\ pending'[o] = pending[o]
      BY <2>2, Zenon DEF CheckBuffer, serviceVars
    <3>2. CASE Down(h)
      BY <2>0, <3>1, <3>2, OthersStay, Zenon DEF SameHub
    <3>3. CASE Goto(h, "buffered") /\ UNCHANGED <<consumers, projections>>
      BY <2>0, <3>1, <3>3, Zenon DEF Known, HubTypeOK, SameHub, Goto, consumers, projections
    <3>4. QED
      BY <2>2, <3>2, <3>3, Zenon DEF CheckBuffer
  <2>3. CASE RequestSnapshot(h)
    BY <2>3, Zenon DEF Known, HubTypeOK, ServiceTypeOK, SameHub, RequestSnapshot, Goto, Ask,
       consumers, projections
  <2>4. CASE Refused(h) \/ Fails(h)
    <3>1. Down(h) /\ pending'[o] = pending[o]
      BY <2>0, <2>4, Zenon DEF Known, HubTypeOK, ServiceTypeOK, Refused, Fails, Refuse
    <3>2. group'[o] = group[o]
      BY <2>0, <2>4, Zenon DEF Known, HubTypeOK, Refused, Fails
    <3>3. QED
      BY <2>0, <3>1, <3>2, OthersStay, Zenon DEF SameHub
  <2>5. QED
    BY <2>1, <2>2, <2>3, <2>4, Zenon
<1>4. SubscriptionInv(h)'
  BY <1>2 DEF SubscriptionInv
<1>5. QED
  BY <1>1, <1>3, <1>4, AgreementOfOne, Zenon

(* The barrier snapshot, before the buffered events. *)
LEMMA SnapshotAnsweredAgreement ==
    ASSUME HubInv, AgreementInv, NEW h \in Clients, Known(h), Numbers(h), SnapshotAnswered(h)
    PROVE  AgreementInv'
<1>1. UNCHANGED <<log, canon>>
  BY Zenon DEF SnapshotAnswered, AnswerWith
<1>2. PICK n \in 0..Index :
         /\ pending[h] \in Nat
         /\ next' = [next EXCEPT ![h] = Reduction(n)]
         /\ barrier' = [barrier EXCEPT ![h] = n]
         /\ joined' = [joined EXCEPT ![h] = pending[h] <= n \/ acked[h] <= n]
  BY Zenon DEF Known, SnapshotAnswered, AnswerWith, HubTypeOK, ServiceTypeOK
<1>3. Reduction(n) \in Snapshot /\ n \in Nat /\ n <= Index
  <2>1. n \in Nat /\ n <= Index
    <3>1. Index \in Nat
      BY Zenon DEF Numbers
    <3>2. QED
      BY <1>2, <3>1, SMTT(30)
  <2>2. QED
    BY <1>2, <2>1, LogFacts, Zenon DEF Known
<1>4. joined'[h] => cursor[h] <= n
  <2>1. stage[h] = "asked" /\ stage[h] \in Startup
    BY DEF SnapshotAnswered, Startup
  <2>2. acked[h] <= pending[h] /\ cursor[h] = acked[h]
    BY <2>1, Zenon DEF Known, ConsumerInv
  <2>3. joined'[h] => pending[h] <= n \/ acked[h] <= n
    BY <1>2, Zenon DEF Known, HubTypeOK
  <2>4. QED
    BY <1>2, <1>3, <2>2, <2>3, Offsets, Zenon DEF Numbers
<1>5. ASSUME joined'[h] PROVE Follows(canon, Reduction(n), cursor[h], n)
  <2>1. \A s \in Subscriptions :
           Retains(Reduction(n).subscriptions[s].status, Reduction(n).subscriptions[s].status)
    BY DEF Retains
  <2>2. Agrees(Reduction(n), Reduction(n))
    BY <1>3, <2>1, BarrierAgrees, Zenon
  <2>3. cursor[h] < n \/ cursor[h] = n
    BY <1>3, <1>4, <1>5, LessOrEqual, Zenon DEF Numbers
  <2>4. QED
    BY <2>1, <2>2, <2>3, Zenon DEF Follows, Reduction
<1>6. SubscriptionInv(h)'
  <2>1. /\ stage'[h] = "answered" /\ next'[h] = Reduction(n) /\ barrier'[h] = n
        /\ cursor'[h] = cursor[h]
    BY <1>2, Zenon DEF Known, HubTypeOK, SnapshotAnswered, Goto, consumers
  <2>2. QED
    BY <1>1, <1>5, <2>1, Zenon DEF SubscriptionInv
<1>7. \A o \in Clients \ {h} : SameHub(o)
  BY Zenon DEF SameHub, Known, HubTypeOK, ServiceTypeOK, SnapshotAnswered, Goto, consumers, AnswerWith
<1>8. QED
  BY <1>1, <1>6, <1>7, AgreementOfOne, Zenon

(* Steps that pass a snapshot on from one stage to the next. *)
LEMMA PassAgreement ==
    ASSUME HubInv, AgreementInv, NEW h \in Clients, Known(h),
           ReceiveSnapshot(h) \/ Receive(h) \/ Reduced(h) \/ Ack(h) \/ Install(h)
    PROVE  AgreementInv'
<1>1. UNCHANGED <<log, canon>>
  BY Zenon DEF ReceiveSnapshot, Receive, Reduced, Ack, Install, serviceVars
<1>2. \A o \in Clients \ {h} : SameHub(o)
  BY Zenon DEF SameHub, Known, HubTypeOK, ServiceTypeOK, ReceiveSnapshot, Receive, Reduced, Ack,
     Install, Goto, ReceiveUpTo, serviceVars, consumers, projections
<1>3. SubscriptionInv(h)
  BY Zenon DEF AgreementInv
<1>4. SubscriptionInv(h)'
  <2>1. CASE Receive(h)
    BY <1>1, <1>3, <2>1, Zenon DEF Known, SubscriptionInv, ConsumerInv, HubTypeOK, Receive, Goto
  <2>2. CASE Reduced(h)
    BY <1>1, <1>3, <2>2, Zenon DEF Known, SubscriptionInv, HubTypeOK, Reduced, Goto, projections
  <2>3. CASE Ack(h)
    BY <1>1, <1>3, <2>3, Zenon DEF Known, SubscriptionInv, Ack, projections
  <2>4. CASE Install(h)
    BY <1>1, <1>3, <2>4, Zenon DEF Known, SubscriptionInv, HubTypeOK, Install, Goto
  <2>5. CASE ReceiveSnapshot(h)
    BY <1>1, <1>3, <2>5, Zenon DEF Known, SubscriptionInv, HubTypeOK, ReceiveSnapshot, Goto,
       consumers, projections
  <2>6. QED
    BY <2>1, <2>2, <2>3, <2>4, <2>5, Zenon
<1>5. QED
  BY <1>1, <1>2, <1>4, AgreementOfOne, Zenon

LEMMA ReduceAgreement ==
    ASSUME HubInv, AgreementInv, NEW h \in Clients, Known(h), Numbers(h), Reduce(h)
    PROVE  AgreementInv'
<1>1. UNCHANGED <<log, canon, pending, group>>
  BY Zenon DEF Reduce, serviceVars
<1>2. CASE Rejects(next[h], log[cursor[h] + 1])
  <2>1. Down(h)
    BY <1>2, Zenon DEF Reduce
  <2>2. \A o \in Clients \ {h} : SameHub(o)
    BY <1>1, <2>1, Zenon DEF SameHub, Known, HubTypeOK, ServiceTypeOK, Down, Goto
  <2>3. stage'[h] = "down"
    BY <2>1, Zenon DEF Known, HubTypeOK, Down, Goto
  <2>4. SubscriptionInv(h)'
    BY <2>3 DEF SubscriptionInv
  <2>5. QED
    BY <1>1, <2>2, <2>4, AgreementOfOne, Zenon
<1>3. CASE ~Rejects(next[h], log[cursor[h] + 1])
  <2> DEFINE s == Apply(next[h], log[cursor[h] + 1])
  <2>1. /\ next' = [next EXCEPT ![h] = s]
        /\ cursor' = [cursor EXCEPT ![h] = cursor[h] + 1]
        /\ UNCHANGED <<stage, acked, position, view, barrier, joined>>
        /\ stage[h] = "reducing"
    BY <1>3, Zenon DEF Reduce
  <2>2. cursor[h] < Len(log)
    BY Offsets, Zenon DEF Numbers, Reduce
  <2>3. /\ joined[h] => Follows(canon, next[h], cursor[h], barrier[h])
        /\ LifecyclesAdvance
    BY <2>1, Zenon DEF AgreementInv, SubscriptionInv
  <2>4. barrier[h] \in 0..Index
    BY Zenon DEF Numbers
  <2>5. ASSUME joined[h] PROVE Follows(canon, s, cursor[h] + 1, barrier[h])
    BY <1>3, <2>2, <2>3, <2>4, <2>5, FollowsStep, Zenon DEF Known
  <2> HIDE DEF s
  <2>6. next'[h] = s /\ cursor'[h] = cursor[h] + 1
    BY <2>1, Zenon DEF Known, HubTypeOK
  <2>7. SubscriptionInv(h)'
    BY <1>1, <2>1, <2>5, <2>6, Zenon DEF SubscriptionInv
  <2>8. \A o \in Clients \ {h} : SameHub(o)
    BY <1>1, <2>1, Zenon DEF SameHub, Known, HubTypeOK
  <2>9. QED
    BY <1>1, <2>7, <2>8, AgreementOfOne, Zenon
<1>4. QED
  BY <1>2, <1>3, Zenon

(* The handlers and the workers write every event but reactivations.       *)
LEMMA AppendAgreement ==
    ASSUME HubInv, AgreementInv, AppendByReplayingHub,
           UNCHANGED <<pending, served, group, stage, consumers, projections, faults>>
    PROVE  AgreementInv'
<1>1. PICK e \in Event : (\E v : Admits(v, e)) /\ AppendRecord(e)
  BY Zenon DEF AppendByReplayingHub
<1>2. e.type # "SubscriptionReactivated"
  BY <1>1 DEF Admits, registerTopic, deregisterTopic, subscriptionVerified,
     unsubscriptionVerified, workerReports
<1>3. LifecyclesAdvance'
  BY <1>1, <1>2, LifecyclesAppend, Zenon DEF HubInv, AgreementInv
<1>4. ASSUME NEW h \in Clients PROVE SubscriptionInv(h)'
  <2>1. Known(h) /\ Numbers(h) /\ SubscriptionInv(h)
    BY HubFacts, Zenon DEF AgreementInv
  <2>2. barrier[h] \in 0..Index /\ cursor[h] <= Len(log) /\ position[h] <= Len(log)
    BY <2>1, Zenon DEF Numbers
  <2>3. QED
    BY <1>1, <2>1, <2>2, FollowsAppend, Zenon
    DEF Known, SubscriptionInv, consumers, projections
<1>5. QED
  BY <1>3, <1>4, Zenon DEF AgreementInv

LEMMA AgreementInit == HubInit => AgreementInv
<1> SUFFICES ASSUME HubInit PROVE AgreementInv
  OBVIOUS
<1>1. log = << >> /\ canon = <<EmptySnapshot>>
  BY DEF HubInit, ServiceInit, LogInit
<1>2. LifecyclesAdvance
  <2>1. Len(log) = 0 /\ Index = 0
    BY <1>1 DEF Index
  <2>2. \A m, n \in 0..Index : m = n
    BY <2>1
  <2>3. \A i \in 1..Len(log) : FALSE
    BY <2>1
  <2>4. QED
    BY <2>2, <2>3, Zenon DEF LifecyclesAdvance, Advances
<1>3. \A h \in Clients : SubscriptionInv(h)
  BY DEF HubInit, SubscriptionInv
<1>4. QED
  BY <1>2, <1>3, Zenon DEF AgreementInv

LEMMA AgreementStep ==
    ASSUME HubInv, AgreementInv, [HubNext]_hubVars
    PROVE  AgreementInv'
<1>1. CASE UNCHANGED hubVars
  <2>1. UNCHANGED <<log, canon, stage, position, cursor, next, view, barrier,
                    joined>>
    BY <1>1, Zenon DEF hubVars, serviceVars, consumers, projections
  <2>2. LifecyclesAdvance'
    BY <2>1, Zenon DEF AgreementInv, LifecyclesAdvance, Reduction, Index
  <2>3. QED
    BY <2>1, <2>2, Zenon DEF AgreementInv, SubscriptionInv
<1>2. CASE /\ AppendByReplayingHub
           /\ UNCHANGED <<pending, served, group, stage, consumers, projections, faults>>
  BY <1>2, AppendAgreement, Zenon
<1>3. ASSUME NEW h \in Clients,
             \/ Open(h) \/ Buffer(h) \/ CheckBuffer(h) \/ RequestSnapshot(h) \/ SnapshotAnswered(h)
             \/ ReceiveSnapshot(h) \/ Refused(h) \/ Receive(h) \/ Reduce(h) \/ Reduced(h)
             \/ Ack(h) \/ Install(h) \/ Fails(h)
      PROVE  AgreementInv'
  BY <1>3, HubFacts, StartupAgreement, SnapshotAnsweredAgreement, PassAgreement, ReduceAgreement,
     Zenon
<1>4. CASE \E h \in Clients : Idle(h)
  BY <1>1, <1>4, Zenon DEF Idle
<1>5. QED
  BY <1>1, <1>2, <1>3, <1>4, Zenon DEF HubNext

(* For any history of starts, crashes and half acknowledged buffers, a     *)
(* settled hub agrees with the log about every subscription that has ended *)
(* or is stale, and has a live one wherever the log has (projection.go:    *)
(* 72-116): reducing events twice changes only which of the subscriptions  *)
(* verified for a topic and a callback stands for them (reducer.go:        *)
(* 109-115).                                                               *)
THEOREM SubscriptionAgreement == HubSpec => []SubscriptionsAgree
<1>1. HubInit => AgreementInv
  BY AgreementInit
<1>2. HubInv /\ AgreementInv /\ [HubNext]_hubVars => AgreementInv'
  BY AgreementStep
<1>3. HubInv /\ AgreementInv => SubscriptionsAgree
  <2> SUFFICES ASSUME HubInv, AgreementInv, NEW h \in Clients, Settled(h)
               PROVE  Agrees(view[h], Reduction(position[h]))
    BY Zenon DEF SubscriptionsAgree
  <2>1. Numbers(h)
    BY HubFacts
  <2>2. Follows(canon, view[h], position[h], barrier[h])
    BY Zenon DEF AgreementInv, SubscriptionInv, Settled
  <2>3. position[h] < Len(canon) /\ ~(position[h] < barrier[h])
    <3>1. Len(canon) = Index + 1 /\ Index \in Nat
      BY <2>1, SMTT(30) DEF Numbers, Index
    <3>2. QED
      BY <2>1, <3>1, SMTT(30) DEF Numbers, Settled
  <2>4. QED
    BY <2>2, <2>3, Zenon DEF Follows, Reduction
<1>4. QED
  BY <1>1, <1>2, <1>3, HubInvariance, PTL DEF HubSpec
=============================================================================
