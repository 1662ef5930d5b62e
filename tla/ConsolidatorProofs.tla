------------------------- MODULE ConsolidatorProofs -------------------------
(***************************************************************************)
(* The consolidator's durable state for every log, every batch size, every *)
(* number of faults and requests: what is saved is the reduction of a      *)
(* prefix of the log, at most one event ahead of the committed offset.     *)
(*                                                                         *)
(* The one idea the proof needs: a snapshot that is one event ahead of the *)
(* next event to reduce is the result of that event, so reducing it again  *)
(* is the no-op of DuplicateIsNoOp.                                        *)
(*                                                                         *)
(* And Consolidator implements SnapshotBarrier: a request is pending from  *)
(* the moment it comes in until it is answered, refused or lost with the   *)
(* process, and everything between is a stuttering step.  The client may   *)
(* fetch ahead: what it holds and has not handed out was fetched after     *)
(* every request answered so far came in, so an answer contains what those *)
(* requests had to contain.                                                *)
(***************************************************************************)
EXTENDS Consolidator, StateLogProofs

(* The snapshot s is the state after n events, or already after n + 1. *)
AtMostOneAhead(s, n) ==
    \/ s = Reduction(n)
    \/ n + 1 <= Index /\ s = Reduction(n + 1)

(* Reducing event n + 1 on a snapshot that may already contain it. *)
LEMMA ReduceStep ==
    ASSUME LogInv, NEW n \in Nat, n <= Index, n < Len(log),
           NEW s, AtMostOneAhead(s, n), ~Rejects(s, log[n + 1])
    PROVE  /\ n + 1 <= Index
           /\ Apply(s, log[n + 1]) = Reduction(n + 1)
           /\ Unchanged(s, log[n + 1]) => s = Reduction(n + 1)
<1>1. Index \in Nat /\ Len(log) \in Nat /\ Index <= Len(log)
  BY LogFacts DEF LogInv
<1>2. CASE s = Reduction(n)
  <2>1. n + 1 <= Index
    BY <1>1, <1>2 DEF LogInv, CanonReducesTheLog
  <2>2. n + 1 \in 1..Index /\ (n + 1) - 1 = n
    BY <2>1
  <2>3. Reduction(n + 1) = Apply(Reduction(n), log[n + 1])
    BY <2>2 DEF LogInv, CanonReducesTheLog
  <2>4. QED
    BY <1>2, <2>1, <2>3 DEF Apply
<1>3. CASE n + 1 <= Index /\ s = Reduction(n + 1)
  <2>1. n + 1 \in 1..Index /\ (n + 1) - 1 = n
    BY <1>3
  <2>2. /\ ~Rejects(Reduction(n), log[n + 1])
        /\ Reduction(n + 1) = Apply(Reduction(n), log[n + 1])
    BY <2>1 DEF LogInv, CanonReducesTheLog
  <2>3. Reduction(n) \in Snapshot /\ log[n + 1] \in Event
    BY LogFacts DEF LogInv
  <2>4. Unchanged(s, log[n + 1])
    BY <1>3, <2>2, <2>3, DuplicateIsNoOp
  <2>5. QED
    BY <1>3, <2>4 DEF Apply
<1>4. QED
  BY <1>2, <1>3 DEF AtMostOneAhead

(* The greatest saved snapshot contains every committed event and at most  *)
(* one more.                                                               *)
LEMMA GreatestSaved ==
    ASSUME LogInv, DurableInv, committed \in Nat, snapshots # {}
    PROVE  /\ Greatest(snapshots) \in snapshots
           /\ \A t \in snapshots : t.revision <= Greatest(snapshots).revision
           /\ AtMostOneAhead(Greatest(snapshots), committed)
<1>1. /\ Index \in Nat /\ committed \in 0..Index
      /\ \A n \in 0..Index : Reduction(n) \in Snapshot
  BY LogFacts DEF LogInv, DurableInv
<1>2. PICK w \in snapshots : Reduction(committed).revision <= w.revision
  BY DEF DurableInv
<1>3. \A s \in snapshots : s.revision \in Nat
  BY <1>1 DEF DurableInv, SavedSnapshotsAreReductions, Snapshot
<1>4. \E s \in snapshots : \A t \in snapshots : t.revision <= s.revision
  <2>1. CASE committed + 1 <= Index /\ Reduction(committed + 1) \in snapshots
    <3>1. \A t \in snapshots : t.revision <= Reduction(committed + 1).revision
      <4> TAKE t \in snapshots
      <4>1. PICK n \in 0..Index : n <= committed + 1 /\ t = Reduction(n)
        BY DEF DurableInv, SavedSnapshotsAreReductions
      <4>2. QED
        BY <2>1, <4>1 DEF LogInv, CanonIsOrdered
    <3>2. QED
      BY <2>1, <3>1
  <2>2. CASE ~(committed + 1 <= Index /\ Reduction(committed + 1) \in snapshots)
    <3>1. \A t \in snapshots : t.revision <= w.revision
      <4> TAKE t \in snapshots
      <4>1. PICK n \in 0..Index : n <= committed + 1 /\ t = Reduction(n)
        BY DEF DurableInv, SavedSnapshotsAreReductions
      <4>2. n <= committed
        BY <2>2, <4>1
      <4>3. t.revision <= Reduction(committed).revision
        BY <1>1, <4>1, <4>2 DEF LogInv, CanonIsOrdered
      <4>4. QED
        BY <1>1, <1>2, <1>3, <4>3 DEF Snapshot
    <3>2. QED
      BY <3>1
  <2>3. QED
    BY <2>1, <2>2
<1> DEFINE g == Greatest(snapshots)
<1>5. g \in snapshots /\ \A t \in snapshots : t.revision <= g.revision
  BY <1>4 DEF Greatest
<1>6. PICK n \in 0..Index : n <= committed + 1 /\ g = Reduction(n)
  BY <1>5 DEF DurableInv, SavedSnapshotsAreReductions
<1>7. Reduction(committed).revision <= g.revision
  BY <1>1, <1>2, <1>3, <1>5 DEF Snapshot
<1>8. CASE n = committed + 1
  BY <1>5, <1>6, <1>8 DEF AtMostOneAhead
<1>9. CASE n <= committed
  <2>1. /\ Reduction(n).revision <= Reduction(committed).revision
        /\ Reduction(n).revision = Reduction(committed).revision => Reduction(n) = Reduction(committed)
    BY <1>1, <1>9 DEF LogInv, CanonIsOrdered
  <2>2. Reduction(n).revision = Reduction(committed).revision
    BY <1>1, <1>6, <1>7, <2>1 DEF Snapshot
  <2>3. QED
    BY <1>5, <1>6, <2>1, <2>2 DEF AtMostOneAhead
<1>10. QED
  BY <1>6, <1>8, <1>9

-----------------------------------------------------------------------------
(* The initial state. *)
LEMMA InitInv == Init => ConsolidatorInv
<1> SUFFICES ASSUME Init PROVE ConsolidatorInv
  OBVIOUS
<1>1. LogInv /\ LogTypeOK /\ Index \in Nat
  BY LogInitInv, LogFacts DEF Init, LogInv
<1>2. ConsolidatorTypeOK
  <2>1. /\ active \in BOOLEAN /\ caughtUp \in BOOLEAN /\ atEnd \in BOOLEAN
        /\ loaderAtEnd \in BOOLEAN
    BY Zenon DEF Init
  <2>2. /\ snapshot \in Snapshot /\ snapshots \in SUBSET Snapshot
        /\ holder \in Clients \cup {"tail", Nobody}
        /\ request \in [Clients -> {"none", "waiting", "reading"}]
        /\ asked \in [Clients -> Nat] /\ owed \in [Clients -> Nat]
    BY EmptySnapshotFacts DEF Init
  <2>3. faults \in 0..MaxFaults
    BY ConsolidatorConstants DEF Init
  <2>4. QED
    BY <1>1, <2>2, <2>3, Zenon DEF Init, ConsolidatorTypeOK
<1>3. DurableInv /\ MemoryInv /\ ConsumeInv
  BY <1>1, ConsolidatorConstants
  DEF Init, DurableInv, SavedSnapshotsAreReductions, MemoryInv, ConsumeInv
<1>4. QED
  BY <1>1, <1>2, <1>3 DEF ConsolidatorInv

(* An event is appended: canon only grows, so every index keeps its state. *)
LEMMA AppendEventInv ==
    ASSUME ConsolidatorInv, NEW e \in Event, AppendRecord(e),
           UNCHANGED <<durable, process, requests, faults>>
    PROVE  ConsolidatorInv'
<1>1. LogInv /\ LogInv'
  BY AppendInv DEF ConsolidatorInv
<1>2. /\ Index \in Nat /\ Index' \in Nat /\ Index <= Index'
      /\ Len(log) \in Nat /\ Len(log') = Len(log) + 1
      /\ \A n \in 0..Index : Reduction(n)' = Reduction(n)
  BY <1>1, AppendFacts, LogFacts DEF LogInv
<1>3. ConsolidatorTypeOK'
  BY <1>1
  DEF ConsolidatorInv, ConsolidatorTypeOK, LogInv, durable, process, requests, consumer
<1>4. committed \in Nat /\ done \in Nat /\ received \in Nat /\ fetched \in Nat
  BY DEF ConsolidatorInv, ConsolidatorTypeOK
<1>5. DurableInv'
  <2>1. /\ UNCHANGED <<committed, snapshots, loaderAtEnd, served>>
        /\ committed \in 0..Index /\ canon'[committed + 1] = Reduction(committed)
    BY <1>2, <1>4 DEF durable, requests, ConsolidatorInv, DurableInv, Reduction
  <2>2. \A s \in snapshots : \E n \in 0..Index' : n <= committed + 1 /\ s = Reduction(n)'
    <3> TAKE s \in snapshots
    <3>1. PICK n \in 0..Index : n <= committed + 1 /\ s = Reduction(n)
      BY DEF ConsolidatorInv, DurableInv, SavedSnapshotsAreReductions
    <3>2. n \in 0..Index' /\ s = Reduction(n)'
      BY <1>2, <3>1
    <3>3. QED
      BY <3>1, <3>2
  <2>3. SavedSnapshotsAreReductions'
    BY <2>1, <2>2 DEF SavedSnapshotsAreReductions
  <2>4. Reduction(committed)' = Reduction(committed)
    BY <2>1 DEF Reduction
  <2>5. QED
    BY <1>2, <2>1, <2>3 DEF ConsolidatorInv, DurableInv
<1>6. MemoryInv' /\ ConsumeInv'
  <2>1. UNCHANGED <<committed, snapshots, mode, snapshot, active, holder, pc, done,
                    received, fetched, request, served>>
    BY DEF durable, process, consumer, requests
  <2>2. done <= Index => Reduction(done)' = Reduction(done)
    BY <1>2, <1>4, <2>1
  <2>3. done + 1 <= Index => Reduction(done + 1)' = Reduction(done + 1)
    BY <1>2, <1>4, <2>1
  <2>4. committed <= Index
    BY DEF ConsolidatorInv, DurableInv
  <2>5. MemoryInv'
    BY <1>2, <1>4, <2>1, <2>4 DEF ConsolidatorInv, MemoryInv
  <2>6. ConsumeInv'
    BY <1>2, <1>4, <2>1 DEF ConsolidatorInv, ConsumeInv
  <2>7. QED
    BY <2>5, <2>6
<1>7. QED
  BY <1>1, <1>3, <1>5, <1>6 DEF ConsolidatorInv

-----------------------------------------------------------------------------
(* The types of what EndRequests and Fault assign. *)
LEMMA EndRequestsType ==
    ASSUME ConsolidatorTypeOK, NEW S, EndRequests(S)
    PROVE  /\ request' \in [Clients -> {"none", "waiting", "reading"}]
           /\ asked' \in [Clients -> Nat] /\ owed' \in [Clients -> Nat]
BY DEF ConsolidatorTypeOK, EndRequests

LEMMA FaultType ==
    ASSUME ConsolidatorTypeOK, Fault
    PROVE  faults' \in 0..MaxFaults
BY ConsolidatorConstants DEF ConsolidatorTypeOK, Fault

(* What the invariant says about the numbers and the states they select. *)
LEMMA Facts ==
    ASSUME ConsolidatorInv
    PROVE  /\ LogInv /\ LogTypeOK /\ DurableInv /\ MemoryInv /\ ConsumeInv /\ ConsolidatorTypeOK
           /\ committed \in 0..Index /\ Index \in Nat /\ Len(log) \in Nat /\ Index <= Len(log)
           /\ done \in Nat /\ received \in Nat /\ served \in Nat
           /\ \A n \in 0..Index : Reduction(n) \in Snapshot /\ Reduction(n).revision \in Nat
<1>1. LogInv /\ LogTypeOK /\ DurableInv /\ MemoryInv /\ ConsumeInv /\ ConsolidatorTypeOK
  BY DEF ConsolidatorInv, LogInv
<1>2. Index \in Nat /\ Len(log) \in Nat /\ Index <= Len(log)
  BY <1>1, LogFacts
<1>3. committed \in 0..Index /\ done \in Nat /\ received \in Nat /\ served \in Nat
  BY <1>1, <1>2 DEF DurableInv, ConsolidatorTypeOK
<1>4. \A n \in 0..Index : Reduction(n) \in Snapshot /\ Reduction(n).revision \in Nat
  BY <1>1, LogFacts DEF Snapshot
<1>5. QED
  BY <1>1, <1>2, <1>3, <1>4

(* Saving the state after n events, when nothing was saved beyond it. *)
LEMMA SaveKeepsDurable ==
    ASSUME ConsolidatorInv, NEW n \in 0..Index, n = committed \/ n = committed + 1,
           served <= Reduction(n).revision,
           snapshots' = snapshots \cup {Reduction(n)},
           UNCHANGED <<log, canon, committed, loaderAtEnd, served>>
    PROVE  DurableInv' /\ snapshots' \in SUBSET Snapshot
<1>1. /\ Index' = Index /\ Reduction(n)' = Reduction(n)
      /\ Reduction(committed)' = Reduction(committed)
  BY DEF Index, Reduction
<1>2. SavedSnapshotsAreReductions'
  <2>1. SavedSnapshotsAreReductions /\ committed \in Nat /\ n \in Nat /\ n <= committed + 1
    BY Facts DEF DurableInv
  <2>2. \A m \in 0..Index : Reduction(m)' = Reduction(m)
    BY DEF Reduction
  <2>3. ASSUME NEW s \in snapshots'
        PROVE  \E m \in 0..Index : m <= committed + 1 /\ s = Reduction(m)
    BY <2>1 DEF SavedSnapshotsAreReductions
  <2>4. QED
    BY <1>1, <2>2, <2>3 DEF SavedSnapshotsAreReductions
<1>3. Reduction(committed).revision <= Reduction(n).revision
  BY Facts DEF LogInv, CanonIsOrdered
<1>4. snapshots' \in SUBSET Snapshot
  BY Facts DEF ConsolidatorTypeOK
<1>5. QED
  BY <1>1, <1>2, <1>3, <1>4, Facts DEF DurableInv

(* Committing one more event, whose result is saved. *)
LEMMA CommitKeepsDurable ==
    ASSUME ConsolidatorInv, committed + 1 <= Index, Reduction(committed + 1) \in snapshots,
           committed' = committed + 1,
           UNCHANGED <<log, canon, snapshots, loaderAtEnd, served>>
    PROVE  DurableInv'
<1>1. Index' = Index /\ Reduction(committed)' = Reduction(committed + 1)
  BY DEF Index, Reduction
<1>2. SavedSnapshotsAreReductions'
  BY Facts, SMTT(30) DEF DurableInv, SavedSnapshotsAreReductions, Index, Reduction
<1>3. Reduction(committed + 1).revision <= Reduction(committed + 1).revision
  BY Facts
<1>4. QED
  BY <1>1, <1>2, Facts DEF DurableInv

-----------------------------------------------------------------------------
(* Start *)
LEMMA LoadSnapshotInv ==
    ASSUME ConsolidatorInv, LoadSnapshot
    PROVE  ConsolidatorInv'
<1>1. LogInv' /\ LogTypeOK'
  BY Facts, SameLog DEF LoadSnapshot
<1>2. /\ snapshot' \in Snapshot
      /\ served <= snapshot'.revision
      /\ AtMostOneAhead(snapshot', committed)
  <2>1. CASE snapshots = {}
    <3>1. snapshot' = EmptySnapshot /\ committed = 0 /\ served = 0
      BY <2>1, Facts DEF LoadSnapshot, DurableInv
    <3>2. Reduction(0) = EmptySnapshot
      BY Facts DEF LogInv, CanonReducesTheLog
    <3>3. QED
      BY <3>1, <3>2, EmptySnapshotFacts DEF AtMostOneAhead
  <2>2. CASE snapshots # {}
    <3>1. snapshot' = Greatest(snapshots)
      BY <2>2, Facts DEF LoadSnapshot, DurableInv
    <3>2. /\ snapshot' \in snapshots
          /\ \A t \in snapshots : t.revision <= snapshot'.revision
          /\ AtMostOneAhead(snapshot', committed)
      BY <2>2, <3>1, GreatestSaved, Facts
    <3>3. PICK w \in snapshots : served <= w.revision
      BY <2>2, Facts DEF DurableInv
    <3>4. \A t \in snapshots : t \in Snapshot /\ t.revision \in Nat
      BY Facts, Zenon DEF ConsolidatorTypeOK, Snapshot
    <3>5. served <= snapshot'.revision
      BY <3>2, <3>3, <3>4, Facts
    <3>6. QED
      BY <3>2, <3>4, <3>5
  <2>3. QED
    BY <2>1, <2>2
<1>3. ConsolidatorTypeOK'
  <2>1. loaderAtEnd' \in BOOLEAN /\ active' \in BOOLEAN /\ caughtUp' \in BOOLEAN /\ atEnd' \in BOOLEAN
    BY Zenon DEF LoadSnapshot
  <2>2. QED
    BY <1>1, <1>2, Facts, Zenon DEF ConsolidatorTypeOK, LoadSnapshot, ResumeOffset, requests
<1>4. DurableInv'
  BY Facts, Zenon
  DEF DurableInv, SavedSnapshotsAreReductions, Index, Reduction, LoadSnapshot, requests
<1>5. MemoryInv'
  BY <1>2, Facts, SMTT(30)
  DEF MemoryInv, AtMostOneAhead, Index, Reduction, LoadSnapshot, ResumeOffset, requests
<1>6. ConsumeInv'
  BY Facts DEF ConsumeInv, LoadSnapshot, requests
<1>7. QED
  BY <1>1, <1>3, <1>4, <1>5, <1>6 DEF ConsolidatorInv

LEMMA PublishInitialInv ==
    ASSUME ConsolidatorInv, PublishInitial
    PROVE  ConsolidatorInv'
<1>1. LogInv' /\ LogTypeOK'
  BY Facts, SameLog DEF PublishInitial
<1>2. PICK n \in 0..Index : /\ n = committed \/ n = committed + 1
                            /\ snapshot = Reduction(n) /\ served <= snapshot.revision
  BY Facts DEF PublishInitial, MemoryInv
<1>3. DurableInv' /\ snapshots' \in SUBSET Snapshot
  BY <1>2, SaveKeepsDurable DEF PublishInitial, requests
<1>4. ConsolidatorTypeOK'
  BY <1>1, Facts, Zenon DEF ConsolidatorTypeOK, PublishInitial, requests, consumer
<1>5. MemoryInv' /\ ConsumeInv'
  BY Facts, Zenon DEF MemoryInv, ConsumeInv, Index, Reduction, PublishInitial, requests, consumer
<1>6. QED
  BY <1>1, <1>3, <1>4, <1>5 DEF ConsolidatorInv

-----------------------------------------------------------------------------
(* consume() *)
LEMMA TailConsumeInv ==
    ASSUME ConsolidatorInv, TailConsume
    PROVE  ConsolidatorInv'
<1>1. LogInv' /\ LogTypeOK'
  BY Facts, SameLog DEF TailConsume
<1>3. ConsolidatorTypeOK'
  BY <1>1, Facts, Zenon DEF ConsolidatorTypeOK, TailConsume, durable, requests, consumer
<1>4. DurableInv'
  BY Facts, Zenon
  DEF DurableInv, SavedSnapshotsAreReductions, Index, Reduction, TailConsume, durable,
      requests
<1>5. MemoryInv'
  BY Facts, Zenon DEF MemoryInv, Index, Reduction, TailConsume, durable, requests, consumer
<1>6. ConsumeInv'
  BY Facts, ConsolidatorConstants, Zenon DEF ConsumeInv, TailConsume, Up, consumer
<1>7. QED
  BY <1>1, <1>3, <1>4, <1>5, <1>6 DEF ConsolidatorInv

LEMMA CheckCaughtUpInv ==
    ASSUME ConsolidatorInv, CheckCaughtUp
    PROVE  ConsolidatorInv'
<1>1. LogInv' /\ LogTypeOK'
  BY Facts, SameLog DEF CheckCaughtUp
<1>3. ConsolidatorTypeOK'
  BY <1>1, Facts, Zenon
  DEF ConsolidatorTypeOK, CheckCaughtUp, ConsumeReturns, Release, durable, consumer
<1>4. DurableInv'
  BY Facts, Zenon
  DEF DurableInv, SavedSnapshotsAreReductions, Index, Reduction, CheckCaughtUp, durable
<1>5. MemoryInv'
  BY Facts, Zenon DEF MemoryInv, ConsumeInv, Index, Reduction, CheckCaughtUp, durable, consumer
<1>6. ConsumeInv'
  BY Facts, ConsolidatorConstants, SMTT(30)
  DEF ConsumeInv, CheckCaughtUp, ConsumeReturns, Release, consumer
<1>7. QED
  BY <1>1, <1>3, <1>4, <1>5, <1>6 DEF ConsolidatorInv

LEMMA BackgroundFetchInv ==
    ASSUME ConsolidatorInv, BackgroundFetch
    PROVE  ConsolidatorInv'
<1>1. LogInv' /\ LogTypeOK'
  BY Facts, SameLog DEF BackgroundFetch
<1>3. ConsolidatorTypeOK'
  BY <1>1, Facts, SMTT(30) DEF ConsolidatorTypeOK, BackgroundFetch, durable, requests
<1>4. DurableInv'
  BY Facts, Zenon
  DEF DurableInv, SavedSnapshotsAreReductions, Index, Reduction, BackgroundFetch, durable,
      requests
<1>5. MemoryInv'
  BY Facts, SMTT(30) DEF MemoryInv, Index, Reduction, BackgroundFetch, durable, requests
<1>6. ConsumeInv'
  BY Facts, Zenon DEF ConsumeInv, Index, Reduction, BackgroundFetch, requests
<1>7. QED
  BY <1>1, <1>3, <1>4, <1>5, <1>6 DEF ConsolidatorInv

LEMMA ReceiveInv ==
    ASSUME ConsolidatorInv, Receive
    PROVE  ConsolidatorInv'
<1>1. LogInv' /\ LogTypeOK'
  BY Facts, SameLog DEF Receive
<1>2. /\ received' \in Nat /\ received < received' /\ received' <= Len(log)
      /\ atEnd' \in BOOLEAN /\ fetched' \in Nat /\ fetched' <= Len(log)
      /\ done = received
  <2>1. done = received
    BY Facts, Zenon DEF Receive, ConsumeInv
  <2>2. received < Len(log) /\ fetched <= Len(log) /\ fetched \in Nat
    BY Facts, Zenon DEF Receive, ConsumeInv, MemoryInv, ConsolidatorTypeOK
  <2>3. QED
    BY <2>1, <2>2, Facts DEF Receive
<1>3. ConsolidatorTypeOK'
  BY <1>1, <1>2, Facts, Zenon DEF ConsolidatorTypeOK, Receive, durable, requests
<1>4. DurableInv'
  BY Facts, Zenon
  DEF DurableInv, SavedSnapshotsAreReductions, Index, Reduction, Receive, durable, requests
<1>5. MemoryInv'
  BY <1>2, Facts, SMTT(30) DEF MemoryInv, Index, Reduction, Receive, durable, requests
<1>6. ConsumeInv'
  BY Facts, SMTT(30) DEF ConsumeInv, Receive, requests
<1>7. QED
  BY <1>1, <1>3, <1>4, <1>5, <1>6 DEF ConsolidatorInv

LEMMA ReduceRejectedInv ==
    ASSUME ConsolidatorInv, ReduceRejected
    PROVE  ConsolidatorInv'
<1>1. LogInv' /\ LogTypeOK'
  BY Facts, SameLog DEF ReduceRejected
<1>3. ConsolidatorTypeOK'
  BY <1>1, Facts, Zenon
  DEF ConsolidatorTypeOK, ReduceRejected, Fail, Release, EndRequests, durable, consumer
<1>4. DurableInv'
  BY Facts, Zenon
  DEF DurableInv, SavedSnapshotsAreReductions, Index, Reduction, ReduceRejected, durable
<1>5. MemoryInv'
  BY Facts, Zenon DEF MemoryInv, Index, Reduction, ReduceRejected, Fail, durable, consumer
<1>6. ConsumeInv'
  BY Facts, ConsolidatorConstants, Zenon DEF ConsumeInv, ReduceRejected, Fail, Release
<1>7. QED
  BY <1>1, <1>3, <1>4, <1>5, <1>6 DEF ConsolidatorInv

LEMMA ReduceUnchangedInv ==
    ASSUME ConsolidatorInv, ReduceUnchanged
    PROVE  ConsolidatorInv'
<1>1. LogInv' /\ LogTypeOK'
  BY Facts, SameLog DEF ReduceUnchanged
<1>2. /\ done + 1 <= Index /\ committed = done
      /\ Apply(snapshot, Record) = Reduction(done + 1)
      /\ Unchanged(snapshot, Record) => snapshot = Reduction(done + 1)
  <2>1. done <= Index /\ done < Len(log) /\ AtMostOneAhead(snapshot, done) /\ committed = done
    BY Facts, SMTT(30) DEF ReduceUnchanged, ConsumeInv, MemoryInv, AtMostOneAhead
  <2>2. QED
    BY <2>1, Facts, ReduceStep, Zenon DEF ReduceUnchanged, Record
<1>3. ConsolidatorTypeOK'
  BY <1>1, Facts, Zenon DEF ConsolidatorTypeOK, ReduceUnchanged, durable, requests, consumer
<1>4. DurableInv'
  BY Facts, Zenon
  DEF DurableInv, SavedSnapshotsAreReductions, Index, Reduction, ReduceUnchanged, durable,
      requests
<1>5. MemoryInv'
  BY Facts, Zenon DEF MemoryInv, Index, Reduction, ReduceUnchanged, durable, requests, consumer
<1>6. ConsumeInv'
  BY <1>2, Facts, Zenon DEF ConsumeInv, Index, Reduction, ReduceUnchanged, requests, consumer
<1>7. QED
  BY <1>1, <1>3, <1>4, <1>5, <1>6 DEF ConsolidatorInv

(* An effective event is the next one, and its result is saved before it is *)
(* installed.                                                               *)
LEMMA SaveAndInstallInv ==
    ASSUME ConsolidatorInv, SaveAndInstall
    PROVE  ConsolidatorInv'
<1>1. LogInv' /\ LogTypeOK'
  BY Facts, SameLog DEF SaveAndInstall
<1>2. /\ done + 1 <= Index /\ committed = done
      /\ Apply(snapshot, Record) = Reduction(done + 1)
      /\ Unchanged(snapshot, Record) => snapshot = Reduction(done + 1)
  <2>1. done <= Index /\ done < Len(log) /\ AtMostOneAhead(snapshot, done) /\ committed = done
    BY Facts, SMTT(30) DEF SaveAndInstall, ConsumeInv, MemoryInv, AtMostOneAhead
  <2>2. QED
    BY <2>1, Facts, ReduceStep, Zenon DEF SaveAndInstall, Record, Effective
<1>3. served <= snapshot.revision /\ snapshot.revision <= Reduction(done + 1).revision
  <2>1. served <= snapshot.revision /\ AtMostOneAhead(snapshot, done)
    BY Facts, Zenon DEF SaveAndInstall, ConsumeInv, MemoryInv, AtMostOneAhead
  <2>2. done \in 0..Index /\ done + 1 \in 0..Index
    BY <1>2, Facts
  <2>3. QED
    BY <2>1, <2>2, Facts DEF LogInv, CanonIsOrdered, AtMostOneAhead
<1>4. served <= Reduction(done + 1).revision
  BY <1>2, <1>3, Facts, SMTT(30) DEF ConsolidatorTypeOK, Snapshot
<1>5. /\ snapshot' = Reduction(done + 1) /\ Reduction(done + 1) \in Snapshot
      /\ snapshots' = snapshots \cup {Reduction(done + 1)}
  BY <1>2, Facts DEF SaveAndInstall
<1>6. DurableInv' /\ snapshots' \in SUBSET Snapshot
  BY <1>2, <1>4, SaveKeepsDurable, Facts, SMTT(30) DEF SaveAndInstall, requests
<1>7. ConsolidatorTypeOK'
  BY <1>1, <1>6, Facts, Zenon DEF ConsolidatorTypeOK, SaveAndInstall, requests, consumer
<1>8. DurableInv'
  BY <1>6
<1>9. MemoryInv'
  BY <1>2, <1>4, Facts, Zenon DEF MemoryInv, Index, Reduction, SaveAndInstall, requests, consumer
<1>10. ConsumeInv'
  BY <1>2, Facts, Zenon DEF ConsumeInv, Index, Reduction, SaveAndInstall, requests, consumer
<1>11. QED
  BY <1>1, <1>7, <1>8, <1>9, <1>10 DEF ConsolidatorInv

LEMMA SaveFailsInv ==
    ASSUME ConsolidatorInv, SaveFails
    PROVE  ConsolidatorInv'
<1>1. LogInv' /\ LogTypeOK'
  BY Facts, SameLog DEF SaveFails
<1>2. /\ done + 1 <= Index /\ committed = done
      /\ Apply(snapshot, Record) = Reduction(done + 1)
      /\ Unchanged(snapshot, Record) => snapshot = Reduction(done + 1)
  <2>1. done <= Index /\ done < Len(log) /\ AtMostOneAhead(snapshot, done) /\ committed = done
    BY Facts, SMTT(30) DEF SaveFails, ConsumeInv, MemoryInv, AtMostOneAhead
  <2>2. QED
    BY <2>1, Facts, ReduceStep, Zenon DEF SaveFails, Record, Effective
<1>3. served <= snapshot.revision /\ snapshot.revision <= Reduction(done + 1).revision
  <2>1. served <= snapshot.revision /\ AtMostOneAhead(snapshot, done)
    BY Facts, Zenon DEF SaveFails, ConsumeInv, MemoryInv, AtMostOneAhead
  <2>2. done \in 0..Index /\ done + 1 \in 0..Index
    BY <1>2, Facts
  <2>3. QED
    BY <2>1, <2>2, Facts DEF LogInv, CanonIsOrdered, AtMostOneAhead
<1>4. served <= Reduction(done + 1).revision
  <2>1. served \in Nat /\ snapshot.revision \in Nat
    BY Facts, Zenon DEF ConsolidatorTypeOK, Snapshot
  <2>2. done + 1 \in 0..Index
    BY <1>2, Facts
  <2>3. Reduction(done + 1).revision \in Nat
    BY <2>2, Facts, Zenon
  <2>4. QED
    BY <1>3, <2>1, <2>3
<1>5. DurableInv' /\ snapshots' \in SUBSET Snapshot
  <2>1. CASE snapshots' = snapshots
    BY <2>1, Facts, Zenon DEF SaveFails, DurableInv, SavedSnapshotsAreReductions, Index, Reduction
  <2>2. CASE snapshots' # snapshots
    <3>1. snapshots' = snapshots \cup {Reduction(done + 1)}
      BY <1>2, <2>2, Zenon DEF SaveFails
    <3>2. QED
      BY <1>2, <1>4, <3>1, SaveKeepsDurable, Facts, SMTT(30) DEF SaveFails
  <2>3. QED
    BY <2>1, <2>2
<1>6. ConsolidatorTypeOK'
  <2>1. active' \in BOOLEAN /\ caughtUp' \in BOOLEAN
    BY Zenon DEF SaveFails, Fail
  <2>2. EndRequests({holder}) /\ Fault
    BY DEF SaveFails, Fail
  <2>3. holder' \in Clients \cup {"tail", Nobody} /\ pc' = "idle"
    BY DEF SaveFails, Fail, Release
  <2>4. QED
    BY <1>1, <1>5, <2>1, <2>2, <2>3, EndRequestsType, FaultType, Facts, Zenon
    DEF ConsolidatorTypeOK, SaveFails, consumer
<1>7. DurableInv'
  BY <1>5
<1>8. MemoryInv'
  BY <1>2, Facts, Zenon DEF MemoryInv, Index, Reduction, SaveFails, consumer
<1>9. ConsumeInv'
  BY Facts, ConsolidatorConstants, Zenon DEF ConsumeInv, SaveFails, Fail, Release
<1>10. QED
  BY <1>1, <1>6, <1>7, <1>8, <1>9 DEF ConsolidatorInv

(* The acknowledged event is the one whose result is in memory and saved. *)
LEMMA AckInv ==
    ASSUME ConsolidatorInv, Ack
    PROVE  ConsolidatorInv'
<1>1. LogInv' /\ LogTypeOK'
  BY Facts, SameLog DEF Ack
<1>2. /\ committed = done /\ done + 1 <= Index /\ snapshot = Reduction(done + 1)
      /\ Reduction(done + 1) \in snapshots /\ done < received
  BY Facts, Zenon DEF Ack, ConsumeInv, MemoryInv
<1>3. /\ holder' \in {holder, Nobody} /\ pc' \in {"idle", "check", "reduce"}
      /\ pc' = "idle" <=> holder' = Nobody
      /\ pc' # "reduce" => done' = received
      /\ pc' = "reduce" => done' < received
      /\ mode' \in {mode, "running"}
      /\ caughtUp' \in BOOLEAN
  <2>1. done \in Nat /\ received \in Nat /\ holder # Nobody /\ atEnd \in BOOLEAN
        /\ caughtUp \in BOOLEAN
    BY Facts, Zenon DEF Ack, ConsumeInv, ConsolidatorTypeOK
  <2>2. CASE done' < received
    BY <2>1, <2>2, Zenon DEF Ack
  <2>3. CASE ~(done' < received)
    <3>1. done' = received /\ caughtUp' = (caughtUp \/ atEnd) /\ ConsumeReturns(atEnd)
      BY <1>2, <2>1, <2>3 DEF Ack
    <3>2. QED
      BY <2>1, <3>1 DEF ConsumeReturns, Release
  <2>4. QED
    BY <2>2, <2>3, Zenon
<1>4. /\ request' \in [Clients -> {"none", "waiting", "reading"}]
      /\ holder' \in Clients => request' = request
  BY Facts, ConsolidatorConstants, Zenon DEF Ack, ConsumeReturns, Release, ConsolidatorTypeOK
<1>5. ConsolidatorTypeOK'
  <2>1. committed' \in Nat /\ done' \in Nat
    BY Facts, SMTT(30) DEF Ack
  <2>2. holder' \in Clients \cup {"tail", Nobody} /\ mode' \in {"down", "loaded", "starting", "running"}
    BY <1>3, Facts, Zenon DEF ConsolidatorTypeOK
  <2>3. QED
    BY <1>1, <1>3, <1>4, Facts, SMTT(30) DEF ConsolidatorTypeOK, Ack
<1>6. DurableInv'
  BY <1>2, CommitKeepsDurable, Zenon DEF Ack
<1>7. mode \in {"starting", "running"} /\ active
  BY Facts, Zenon DEF Ack, ConsumeInv
<1>8. MemoryInv'
  <2>1. /\ received <= Len(log) /\ fetched <= Len(log)
        /\ snapshot \in snapshots /\ served <= snapshot.revision
    BY <1>7, Facts, Zenon DEF MemoryInv
  <2>2. Reduction(done)' = Reduction(done + 1) /\ Index' = Index
    BY Zenon DEF Ack, Reduction, Index
  <2>3. snapshot' = Reduction(done)' /\ done' = done + 1 /\ committed' = done'
    BY <1>2, <2>2, Zenon DEF Ack
  <2>4. QED
    BY <1>2, <2>1, <2>2, Facts, SMTT(30) DEF MemoryInv, Ack
<1>9. ConsumeInv'
  <2>1. mode' \in {"starting", "running"} /\ active' = active
    BY <1>3, <1>7, Zenon DEF Ack
  <2>2. holder' \in Clients => request'[holder'] = "waiting"
    BY <1>3, <1>4, Facts, ConsolidatorConstants, Zenon DEF ConsumeInv
  <2>3. received' = received
    BY Zenon DEF Ack
  <2>4. QED
    BY <1>3, <1>7, <2>1, <2>2, <2>3, Zenon DEF ConsumeInv
<1>10. QED
  BY <1>1, <1>5, <1>6, <1>8, <1>9 DEF ConsolidatorInv

LEMMA AckFailsInv ==
    ASSUME ConsolidatorInv, AckFails
    PROVE  ConsolidatorInv'
<1>1. LogInv' /\ LogTypeOK'
  BY Facts, SameLog, Zenon DEF AckFails
<1>2. /\ committed = done /\ done + 1 <= Index /\ snapshot = Reduction(done + 1)
      /\ Reduction(done + 1) \in snapshots /\ done < received
  BY Facts, Zenon DEF AckFails, ConsumeInv, MemoryInv
<1>3. ConsolidatorTypeOK'
  <2>1. active' \in BOOLEAN /\ caughtUp' \in BOOLEAN
    BY Zenon DEF AckFails, Fail
  <2>2. EndRequests({holder}) /\ Fault
    BY DEF AckFails, Fail
  <2>3. holder' \in Clients \cup {"tail", Nobody} /\ pc' = "idle" /\ committed' \in Nat
    BY Facts DEF AckFails, Fail, Release
  <2>4. QED
    BY <1>1, <2>1, <2>2, <2>3, EndRequestsType, FaultType, Facts, Zenon
    DEF ConsolidatorTypeOK, AckFails, consumer
<1>4. DurableInv'
  <2>1. CASE committed' = committed
    BY <2>1, Facts, Zenon DEF AckFails, DurableInv, SavedSnapshotsAreReductions, Index, Reduction
  <2>2. CASE committed' = committed + 1
    BY <1>2, <2>2, CommitKeepsDurable, Zenon DEF AckFails
  <2>3. QED
    BY <1>2, <2>1, <2>2 DEF AckFails
<1>5. MemoryInv'
  BY <1>2, Facts, Zenon DEF MemoryInv, Index, Reduction, AckFails, Fail, consumer
<1>6. ConsumeInv'
  BY Facts, ConsolidatorConstants, Zenon DEF ConsumeInv, AckFails, Fail, Release
<1>7. QED
  BY <1>1, <1>3, <1>4, <1>5, <1>6 DEF ConsolidatorInv

LEMMA ConsumerErrorInv ==
    ASSUME ConsolidatorInv, ConsumerError
    PROVE  ConsolidatorInv'
<1>1. LogInv' /\ LogTypeOK'
  BY Facts, SameLog, Zenon DEF ConsumerError
<1>3. ConsolidatorTypeOK'
  <2>1. active' \in BOOLEAN /\ caughtUp' \in BOOLEAN
    BY Zenon DEF ConsumerError, Fail
  <2>2. EndRequests({holder}) /\ Fault
    BY DEF ConsumerError, Fail
  <2>3. holder' \in Clients \cup {"tail", Nobody} /\ pc' = "idle"
    BY DEF ConsumerError, Fail, Release
  <2>4. QED
    BY <1>1, <2>1, <2>2, <2>3, EndRequestsType, FaultType, Facts, Zenon
    DEF ConsolidatorTypeOK, ConsumerError, consumer, durable
<1>4. DurableInv'
  BY Facts, Zenon
  DEF DurableInv, SavedSnapshotsAreReductions, Index, Reduction, ConsumerError, durable
<1>5. MemoryInv'
  BY Facts, Zenon DEF MemoryInv, Index, Reduction, ConsumerError, Fail, durable, consumer
<1>6. ConsumeInv'
  BY Facts, ConsolidatorConstants, Zenon DEF ConsumeInv, ConsumerError, Fail, Release
<1>7. QED
  BY <1>1, <1>3, <1>4, <1>5, <1>6 DEF ConsolidatorInv

LEMMA ContextOverInv ==
    ASSUME ConsolidatorInv, ContextOver
    PROVE  ConsolidatorInv'
<1>1. LogInv' /\ LogTypeOK'
  BY Facts, SameLog, Zenon DEF ContextOver
<1>3. ConsolidatorTypeOK'
  <2>1. active' \in BOOLEAN /\ caughtUp' \in BOOLEAN
    BY Facts, Zenon DEF ContextOver, ConsolidatorTypeOK
  <2>2. EndRequests({holder}) /\ Fault
    BY DEF ContextOver
  <2>3. holder' \in Clients \cup {"tail", Nobody} /\ pc' = "idle"
    BY DEF ContextOver, Release
  <2>4. QED
    BY <1>1, <2>3, EndRequestsType, FaultType, Facts, Zenon
    DEF ConsolidatorTypeOK, ContextOver, consumer, durable
<1>4. DurableInv'
  BY Facts, Zenon
  DEF DurableInv, SavedSnapshotsAreReductions, Index, Reduction, ContextOver, durable
<1>5. MemoryInv'
  BY Facts, Zenon DEF MemoryInv, Index, Reduction, ContextOver, durable, consumer
<1>6. ConsumeInv'
  BY Facts, ConsolidatorConstants, Zenon DEF ConsumeInv, ContextOver, Release, consumer
<1>7. QED
  BY <1>1, <1>3, <1>4, <1>5, <1>6 DEF ConsolidatorInv

-----------------------------------------------------------------------------
(* serveSnapshot *)
LEMMA RequestInv ==
    ASSUME ConsolidatorInv, NEW c \in Clients, Request(c)
    PROVE  ConsolidatorInv'
<1>1. LogInv' /\ LogTypeOK'
  BY Facts, SameLog, Zenon DEF Request
<1>3. ConsolidatorTypeOK'
  BY <1>1, Facts, Zenon DEF ConsolidatorTypeOK, Request, durable, process, consumer
<1>4. DurableInv'
  BY Facts, Zenon DEF DurableInv, SavedSnapshotsAreReductions, Index, Reduction, Request, durable
<1>5. MemoryInv'
  BY Facts, Zenon DEF MemoryInv, Index, Reduction, Request, durable, process, consumer
<1>6. ConsumeInv'
  BY Facts, SMTT(30) DEF ConsumeInv, Index, Reduction, Request, process, consumer
<1>7. QED
  BY <1>1, <1>3, <1>4, <1>5, <1>6 DEF ConsolidatorInv

LEMMA RefreshInv ==
    ASSUME ConsolidatorInv, NEW c \in Clients, Refresh(c)
    PROVE  ConsolidatorInv'
<1>1. LogInv' /\ LogTypeOK'
  BY Facts, SameLog, Zenon DEF Refresh
<1>2. /\ request' \in [Clients -> {"none", "waiting", "reading"}]
      /\ asked' \in [Clients -> Nat] /\ owed' \in [Clients -> Nat]
  BY EndRequestsType, Facts, Zenon DEF ConsolidatorTypeOK, Refresh
<1>3. ConsolidatorTypeOK'
  <2>1. /\ holder' \in Clients \cup {"tail", Nobody}
        /\ pc' \in {"idle", "check", "receive", "reduce", "ack"}
    BY Facts, Zenon DEF ConsolidatorTypeOK, Refresh
  <2>2. QED
    BY <1>1, <1>2, Facts, Zenon DEF ConsolidatorTypeOK, Refresh, durable, consumer
<1>4. DurableInv'
  BY Facts, Zenon DEF DurableInv, SavedSnapshotsAreReductions, Index, Reduction, Refresh, durable
<1>5. MemoryInv'
  BY Facts, Zenon DEF MemoryInv, Index, Reduction, Refresh, durable, consumer
<1>6. ConsumeInv'
  BY Facts, ConsolidatorConstants, Zenon DEF ConsolidatorTypeOK, ConsumeInv, Refresh, consumer
<1>7. QED
  BY <1>1, <1>3, <1>4, <1>5, <1>6 DEF ConsolidatorInv

LEMMA AnswerInv ==
    ASSUME ConsolidatorInv, NEW c \in Clients, Answer(c)
    PROVE  ConsolidatorInv'
<1>1. LogInv' /\ LogTypeOK'
  BY Facts, SameLog, Zenon DEF Answer
<1>2. /\ served' \in Nat /\ served' = snapshot.revision
      /\ snapshot \in snapshots /\ mode # "down"
  <2>1. mode # "down" /\ mode # "loaded"
    BY Facts, Zenon DEF Answer, ConsumeInv
  <2>2. served <= snapshot.revision /\ snapshot \in snapshots /\ snapshot.revision \in Nat
    BY <2>1, Facts, SMTT(30) DEF MemoryInv
  <2>3. QED
    BY <2>1, <2>2, Facts, SMTT(30) DEF Answer
<1>3. ConsolidatorTypeOK'
  <2>1. EndRequests({c})
    BY DEF Answer
  <2>2. QED
    BY <1>1, <1>2, EndRequestsType, Facts, ZenonT(40)
    DEF ConsolidatorTypeOK, Answer, durable, process, consumer
<1>4. DurableInv'
  <2>1. snapshot.revision <= snapshot.revision
    BY <1>2
  <2>2. QED
    BY <1>2, <2>1, Facts, Zenon
    DEF DurableInv, SavedSnapshotsAreReductions, Index, Reduction, Answer, durable
<1>5. MemoryInv'
  <2>1. snapshot.revision <= snapshot.revision
    BY <1>2
  <2>2. QED
    BY <2>1, Facts, Zenon DEF MemoryInv, Index, Reduction, Answer, durable, process, consumer
<1>6. ConsumeInv'
  BY Facts, Zenon DEF ConsumeInv, Index, Reduction, Answer, EndRequests, process, consumer
<1>7. QED
  BY <1>1, <1>3, <1>4, <1>5, <1>6 DEF ConsolidatorInv

-----------------------------------------------------------------------------
(* The end of the process keeps what is durable. *)
LEMMA TerminateInv ==
    ASSUME ConsolidatorInv, Terminate, faults' \in 0..MaxFaults
    PROVE  ConsolidatorInv'
<1>1. LogInv' /\ LogTypeOK'
  BY Facts, SameLog, Zenon DEF Terminate
<1>3. ConsolidatorTypeOK'
  <2>1. /\ active' \in BOOLEAN /\ caughtUp' \in BOOLEAN /\ atEnd' \in BOOLEAN
        /\ snapshot' \in Snapshot
    BY EmptySnapshotFacts, Zenon DEF Terminate
  <2>2. EndRequests(Clients)
    BY DEF Terminate
  <2>3. QED
    BY <1>1, <2>1, EndRequestsType, Facts, Zenon
    DEF ConsolidatorTypeOK, Terminate, Release, durable
<1>4. DurableInv'
  BY Facts, Zenon DEF DurableInv, SavedSnapshotsAreReductions, Index, Reduction, Terminate, durable
<1>5. MemoryInv'
  BY Zenon DEF MemoryInv, Terminate
<1>6. ConsumeInv'
  BY ConsolidatorConstants, Zenon DEF ConsumeInv, Terminate, Release, EndRequests
<1>7. QED
  BY <1>1, <1>3, <1>4, <1>5, <1>6 DEF ConsolidatorInv

-----------------------------------------------------------------------------
(* The invariant is inductive: one lemma per action. *)
LEMMA StepInv ==
    ASSUME ~InterruptedLoads, ConsolidatorInv, [Next]_vars
    PROVE  ConsolidatorInv'
<1>1. CASE UNCHANGED vars
  <2>1. UNCHANGED <<log, canon>> /\ UNCHANGED durable /\ UNCHANGED process /\ UNCHANGED requests
    BY <1>1 DEF vars
  <2>2. LogInv' /\ LogTypeOK'
    BY <2>1, Facts, SameLog, Zenon
  <2>3. ConsolidatorTypeOK'
    BY <1>1, <2>2, Facts, SMTT(30) DEF vars, ConsolidatorTypeOK, durable, process, requests, consumer
  <2>4. DurableInv'
    BY <2>1, Facts, Zenon
    DEF DurableInv, SavedSnapshotsAreReductions, Index, Reduction, durable, requests
  <2>5. MemoryInv' /\ ConsumeInv'
    BY <2>1, Facts, Zenon
    DEF MemoryInv, ConsumeInv, Index, Reduction, durable, process, requests, consumer
  <2>6. QED
    BY <2>2, <2>3, <2>4, <2>5 DEF ConsolidatorInv
<1>2. CASE AppendByReplayingHub /\ UNCHANGED <<durable, process, requests, faults>>
  <2>1. PICK e \in Event : AppendRecord(e)
    BY <1>2, Zenon DEF AppendByReplayingHub
  <2>2. QED
    BY <1>2, <2>1, AppendEventInv
<1>3. CASE LoadSnapshot \/ PublishInitial
  BY <1>3, LoadSnapshotInv, PublishInitialInv
<1>4. CASE LoadInterrupted
  BY <1>4 DEF LoadInterrupted
<1>5. CASE TailConsume \/ CheckCaughtUp \/ BackgroundFetch \/ Receive
  BY <1>5, TailConsumeInv, CheckCaughtUpInv, BackgroundFetchInv, ReceiveInv
<1>6. CASE ReduceRejected \/ ReduceUnchanged \/ SaveAndInstall \/ SaveFails
  BY <1>6, ReduceRejectedInv, ReduceUnchangedInv, SaveAndInstallInv, SaveFailsInv
<1>7. CASE Ack \/ AckFails \/ ConsumerError \/ ContextOver
  BY <1>7, AckInv, AckFailsInv, ConsumerErrorInv, ContextOverInv
<1>8. CASE \E c \in Clients : Request(c) \/ Refresh(c) \/ Answer(c)
  BY <1>8, RequestInv, RefreshInv, AnswerInv
<1>9. CASE Exit
  <2>1. Terminate /\ faults' \in 0..MaxFaults
    BY <1>9, Facts, Zenon DEF Exit, ConsolidatorTypeOK
  <2>2. QED
    BY <2>1, TerminateInv
<1>10. CASE Crash
  <2>1. Terminate /\ faults' \in 0..MaxFaults
    BY <1>10, Facts, FaultType, Zenon DEF Crash
  <2>2. QED
    BY <2>1, TerminateInv
<1>11. QED
  BY <1>1, <1>2, <1>3, <1>4, <1>5, <1>6, <1>7, <1>8, <1>9, <1>10, Zenon DEF Next

-----------------------------------------------------------------------------
(* The invariant of every behaviour whose snapshot loads finish what they  *)
(* begin: the saved snapshots are reductions at most one event ahead of    *)
(* the committed offset, and what is in memory is one of them              *)
(* (service.go:56-163).                                                    *)
THEOREM Invariance ==
    ASSUME ~InterruptedLoads
    PROVE  Spec => []ConsolidatorInv
<1>1. Init => ConsolidatorInv
  BY InitInv
<1>2. ConsolidatorInv /\ [Next]_vars => ConsolidatorInv'
  BY StepInv
<1>3. QED
  BY <1>1, <1>2, PTL DEF Spec

(* Saving before acknowledging, one event at a time (service.go:135-156),  *)
(* keeps every saved snapshot the reduction of a prefix of the log, at     *)
(* most one event beyond the committed offset.                             *)
THEOREM SavedSnapshots ==
    ASSUME ~InterruptedLoads
    PROVE  Spec => []SavedSnapshotsAreReductions
<1>1. ConsolidatorInv => SavedSnapshotsAreReductions
  BY Zenon DEF ConsolidatorInv, DurableInv
<1>2. QED
  BY <1>1, Invariance, PTL

(* The greatest saved snapshot contains what is committed. *)
LEMMA CommittedIsSaved == ConsolidatorInv => CommittedEventsAreSaved
<1> SUFFICES ASSUME ConsolidatorInv, committed > 0
             PROVE  \E s \in snapshots, n \in committed..Index : s = Reduction(n)
  BY DEF CommittedEventsAreSaved
<1>1. snapshots # {}
  BY Facts, SMTT(30) DEF DurableInv
<1>2. /\ Greatest(snapshots) \in snapshots
      /\ AtMostOneAhead(Greatest(snapshots), committed)
  BY <1>1, Facts, GreatestSaved, SMTT(30)
<1>3. QED
  BY <1>2, Facts, SMTT(30) DEF AtMostOneAhead

(* No crash and no lost answer between SaveSnapshot and Ack                *)
(* (service.go:142-152) loses a committed event.                           *)
THEOREM NoCommittedEventIsLost ==
    ASSUME ~InterruptedLoads
    PROVE  Spec => []CommittedEventsAreSaved
BY CommittedIsSaved, Invariance, PTL

(* Writing a revision key again (service.go:81-83) writes what is there:   *)
(* the revision identifies the state.                                      *)
THEOREM RevisionIdentifiesSnapshot ==
    ASSUME ~InterruptedLoads
    PROVE  Spec => []RevisionKeyIsIdempotent
<1>1. ConsolidatorInv => RevisionKeyIsIdempotent
  <2> SUFFICES ASSUME ConsolidatorInv, NEW s \in snapshots, NEW t \in snapshots,
                      s.revision = t.revision
               PROVE  s = t
    BY DEF RevisionKeyIsIdempotent
  <2>1. PICK m \in 0..Index : s = Reduction(m)
    BY Facts, Zenon DEF DurableInv, SavedSnapshotsAreReductions
  <2>2. PICK n \in 0..Index : t = Reduction(n)
    BY Facts, Zenon DEF DurableInv, SavedSnapshotsAreReductions
  <2>3. m <= n \/ n <= m
    BY Facts
  <2>4. QED
    BY <2>1, <2>2, Facts, SMTT(30) DEF LogInv, CanonIsOrdered
<1>2. QED
  BY <1>1, Invariance, PTL

(* Answers never go back to a smaller revision, across restarts: the       *)
(* greatest saved snapshot is loaded (statestore/messagestore.go:160) and  *)
(* an installed snapshot was saved.                                        *)
THEOREM MonotonicAnswers ==
    ASSUME ~InterruptedLoads
    PROVE  Spec => []AnswersNeverRegress
<1>1. ConsolidatorInv => AnswersNeverRegress
  BY Facts, Zenon DEF AnswersNeverRegress, ConsumeInv, MemoryInv
<1>2. QED
  BY <1>1, Invariance, PTL

-----------------------------------------------------------------------------
(* Also when loads are interrupted: a process that may answer has the      *)
(* snapshot in memory saved, and one that may not has no requests.         *)
SavedInv ==
    /\ request \in [Clients -> {"none", "waiting", "reading"}]
    /\ mode \in {"down", "loaded", "starting", "running"}
    /\ Up => snapshot \in snapshots
    /\ ~Up => /\ pc = "idle" /\ holder = Nobody
              /\ \A c \in Clients : request[c] = "none"

(* A step of a process that is up, stays up, and keeps or saves what it    *)
(* has in memory.                                                          *)
LEMMA UpKeepsSaved ==
    ASSUME SavedInv, Up, mode' \in {mode, "running"}, snapshot' \in snapshots',
           request' \in [Clients -> {"none", "waiting", "reading"}]
    PROVE  SavedInv'
BY Zenon DEF SavedInv, Up

LEMMA EndKeepsRequests ==
    ASSUME SavedInv, NEW S, EndRequests(S)
    PROVE  request' \in [Clients -> {"none", "waiting", "reading"}]
BY DEF SavedInv, EndRequests

LEMMA ReturnKeepsRequests ==
    ASSUME SavedInv, NEW b, ConsumeReturns(b)
    PROVE  /\ request' \in [Clients -> {"none", "waiting", "reading"}]
           /\ mode' \in {mode, "running"}
BY Zenon DEF SavedInv, ConsumeReturns

LEMMA StepKeepsSaved ==
    ASSUME SavedInv, [Next]_vars PROVE SavedInv'
<1> DEFINE Types == request' \in [Clients -> {"none", "waiting", "reading"}]
<1>1. CASE UNCHANGED <<process, requests, snapshots>>
  BY <1>1, Zenon DEF SavedInv, Up, process, requests
<1>2. CASE UNCHANGED <<durable, process, requests, faults>>
  BY <1>1, <1>2 DEF durable
<1>3. CASE LoadSnapshot \/ PublishInitial
  BY <1>3, Zenon DEF LoadSnapshot, PublishInitial, SavedInv, Up, requests
<1>4. CASE LoadInterrupted
  BY <1>1, <1>4 DEF LoadInterrupted
<1>5. pc # "idle" => Up /\ snapshot \in snapshots
  BY DEF SavedInv
<1>6. Up => snapshot \in snapshots
  BY DEF SavedInv
<1>7. request \in [Clients -> {"none", "waiting", "reading"}]
  BY DEF SavedInv
<1>8. CASE TailConsume \/ BackgroundFetch \/ Receive \/ ReduceUnchanged \/ SaveAndInstall
  <2>1. Up /\ mode' = mode /\ request' = request
    BY <1>5, <1>8, Zenon
    DEF TailConsume, BackgroundFetch, Receive, ReduceUnchanged, SaveAndInstall, requests
  <2>2. snapshot' \in snapshots'
    <3>1. CASE SaveAndInstall
      BY <3>1, Zenon DEF SaveAndInstall
    <3>2. CASE TailConsume \/ BackgroundFetch \/ Receive \/ ReduceUnchanged
      <4>1. UNCHANGED <<snapshot, snapshots>>
        BY <3>2, Zenon DEF TailConsume, BackgroundFetch, Receive, ReduceUnchanged, durable
      <4>2. QED
        BY <1>6, <2>1, <4>1
    <3>3. QED
      BY <1>8, <3>1, <3>2
  <2>3. QED
    BY <1>7, <2>1, <2>2, UpKeepsSaved
<1>9. CASE ReduceRejected \/ SaveFails \/ AckFails \/ ConsumerError \/ ContextOver
  <2>1. Up /\ mode' = mode /\ EndRequests({holder})
    BY <1>5, <1>9, Zenon DEF ReduceRejected, SaveFails, AckFails, ConsumerError, ContextOver, Fail
  <2>2. snapshot' \in snapshots'
    <3>1. snapshot' = snapshot /\ snapshots \subseteq snapshots'
      BY <1>9, Zenon DEF ReduceRejected, SaveFails, AckFails, ConsumerError, ContextOver, durable
    <3>2. snapshot \in snapshots
      BY <1>6, <2>1, Zenon
    <3>3. QED
      BY <3>1, <3>2
  <2>3. QED
    BY <2>1, <2>2, EndKeepsRequests, UpKeepsSaved
<1>10. CASE CheckCaughtUp \/ Ack
  <2>1. Up /\ snapshot' \in snapshots'
    BY <1>5, <1>10, Zenon DEF CheckCaughtUp, Ack, durable
  <2>2. mode' \in {mode, "running"} /\ Types
    BY <1>7, <1>10, ReturnKeepsRequests, Zenon DEF CheckCaughtUp, Ack
  <2>3. QED
    BY <2>1, <2>2, UpKeepsSaved
<1>11. ASSUME NEW c \in Clients, Request(c) \/ Refresh(c) \/ Answer(c) PROVE SavedInv'
  <2>1. Up /\ mode' = mode
    BY <1>11, Zenon DEF Request, Refresh, Answer, SavedInv, Up, process
  <2>2. snapshot' \in snapshots'
    BY <1>6, <1>11, <2>1, SMTT(30) DEF Request, Refresh, Answer, process, durable
  <2>3. Types
    BY <1>7, <1>11, EndKeepsRequests, Zenon DEF Request, Refresh, Answer
  <2>4. QED
    BY <2>1, <2>2, <2>3, UpKeepsSaved
<1>12. CASE Exit \/ Crash
  <2>1. Terminate
    BY <1>12 DEF Exit, Crash
  <2>2. mode' = "down" /\ pc' = "idle" /\ holder' = Nobody
        /\ request' = [c \in Clients |-> "none"]
    BY <2>1, Zenon DEF Terminate, Release, EndRequests
  <2>3. QED
    BY <2>2, Zenon DEF SavedInv, Up
<1>13. CASE UNCHANGED vars
  BY <1>1, <1>13, Zenon DEF vars, durable
<1>14. QED
  BY <1>2, <1>3, <1>4, <1>8, <1>9, <1>10, <1>11, <1>12, <1>13, Zenon DEF Next

(* Whatever happens to the loader's group, an answer is a snapshot on the  *)
(* snapshots topic: SaveSnapshot comes before the installation             *)
(* (service.go:142-150).  Needs no assumption on loads or fetches.         *)
THEOREM AnswersComeFromTheTopic == Spec => []AnswersAreSaved
<1>1. Init => SavedInv
  BY Zenon DEF Init, SavedInv, Up
<1>2. SavedInv /\ [Next]_vars => SavedInv'
  BY StepKeepsSaved
<1>3. SavedInv => AnswersAreSaved
  BY DEF SavedInv, AnswersAreSaved
<1>4. QED
  BY <1>1, <1>2, <1>3, PTL DEF Spec

-----------------------------------------------------------------------------
(* What BarrierInv says of one client, and of the fetch that is held. *)
Covered(c) ==
    /\ asked[c] <= Len(log)
    /\ owed[c] <= answered
    /\ fetched > received /\ Refreshed(c) => asked[c] <= fetched
    /\ Refreshed(c) => owed[c] <= received
    /\ request[c] = "reading" => owed[c] <= done

HeldInv ==
    /\ answered <= Len(log)
    /\ fetched > received => answered <= fetched

LEMMA BarrierParts == BarrierInv <=> HeldInv /\ \A c \in Clients : Covered(c)
BY Zenon DEF BarrierInv, HeldInv, Covered

(* A client whose request neither ends nor makes progress. *)
LEMMA KeepsCovered ==
    ASSUME NEW c \in Clients, Covered(c),
           UNCHANGED <<log, done, received, fetched, answered>>,
           asked'[c] = asked[c], owed'[c] = owed[c],
           request'[c] = "reading" => request[c] = "reading",
           Refreshed(c)' => Refreshed(c)
    PROVE  Covered(c)'
BY Zenon DEF Covered

(* A client whose request ends, or that has none. *)
LEMMA EndsCovered ==
    ASSUME NEW c \in Clients, asked'[c] <= Len(log)', owed'[c] <= answered',
           request'[c] # "reading", ~Refreshed(c)'
    PROVE  Covered(c)'
BY Zenon DEF Covered

LEMMA SameHeld ==
    ASSUME HeldInv, UNCHANGED <<log, received, fetched, answered>>
    PROVE  HeldInv'
BY Zenon DEF HeldInv

(* An event appended after a request came in is none it must contain. *)
LEMMA BarrierAppend ==
    ASSUME ConsolidatorInv, HeldInv, \A c \in Clients : Covered(c),
           NEW e \in Event, AppendRecord(e), UNCHANGED <<durable, process, requests, faults>>
    PROVE  HeldInv' /\ \A c \in Clients : Covered(c)'
<1>1. Len(log') = Len(log) + 1 /\ Len(log) \in Nat /\ asked \in [Clients -> Nat] /\ answered \in Nat
  BY AppendFacts, Facts, Zenon DEF ConsolidatorTypeOK
<1>2. UNCHANGED <<pc, holder, atEnd, done, received, fetched, request, asked, owed, answered>>
  BY Zenon DEF process, requests, consumer
<1>3. HeldInv'
  BY <1>1, <1>2, SMTT(30) DEF HeldInv
<1>4. ASSUME NEW c \in Clients PROVE Covered(c)'
  <2>1. asked[c] <= Len(log) /\ asked[c] \in Nat
    BY <1>1, Zenon DEF Covered
  <2>2. asked[c] <= Len(log')
    BY <1>1, <2>1
  <2>3. QED
    BY <1>2, <2>2, Zenon DEF Covered, Refreshed
<1>5. QED
  BY <1>3, <1>4

(* The barrier: a fetch that is held was answered after the last refresh   *)
(* ended, since the client fetches only what it has not handed out.        *)
LEMMA BarrierStep ==
    ASSUME ConsolidatorInv, BarrierInv, [Next]_vars
    PROVE  BarrierInv'
<1>1. /\ Len(log) \in Nat /\ done \in Nat /\ received \in Nat /\ fetched \in Nat
      /\ committed \in Nat /\ atEnd \in BOOLEAN /\ active \in BOOLEAN /\ answered \in Nat
      /\ request \in [Clients -> {"none", "waiting", "reading"}]
      /\ asked \in [Clients -> Nat] /\ owed \in [Clients -> Nat]
  BY Facts, Zenon DEF ConsolidatorTypeOK
<1>2. Nobody \notin Clients /\ "tail" \notin Clients /\ Nobody # "tail"
  BY ConsolidatorConstants, Zenon
<1>3. /\ pc = "idle" <=> holder = Nobody
      /\ pc # "idle" => mode \in {"starting", "running"}
      /\ pc \in {"check", "receive"} => done = received
      /\ pc \in {"reduce", "ack"} => done < received
      /\ mode # "down" => fetched <= Len(log) /\ received <= Len(log)
  BY Facts, Zenon DEF ConsumeInv, MemoryInv
<1>4. HeldInv
  BY BarrierParts, Zenon
<1>5. \A c \in Clients :
         /\ Covered(c)
         /\ mode \in {"down", "loaded"} => request[c] = "none"
         /\ holder = c => request[c] = "waiting"
  BY BarrierParts, Facts, Zenon DEF ConsumeInv
<1> SUFFICES HeldInv' /\ \A c \in Clients : Covered(c)'
  BY Zenon DEF BarrierInv, HeldInv, Covered
<1> USE <1>1, <1>2, <1>3, <1>4, <1>5
<1>6. CASE UNCHANGED vars
  BY <1>6, Zenon DEF vars, process, requests, consumer, Covered, HeldInv, Refreshed
<1>7. CASE AppendByReplayingHub /\ UNCHANGED <<durable, process, requests, faults>>
  <2>1. PICK e \in Event : AppendRecord(e)
    BY <1>7, Zenon DEF AppendByReplayingHub
  <2>2. QED
    BY <1>7, <2>1, BarrierAppend, Zenon
<1>8. CASE LoadSnapshot
  <2>1. /\ UNCHANGED <<log, holder, request, asked, owed, answered>>
        /\ fetched' = received' /\ received' \in Nat /\ mode = "down"
    BY <1>8, Zenon DEF LoadSnapshot, ResumeOffset, requests
  <2>2. HeldInv'
    BY <2>1 DEF HeldInv
  <2>3. ASSUME NEW c \in Clients PROVE Covered(c)'
    BY <2>1, <2>3, EndsCovered, Zenon DEF Covered, Refreshed
  <2>4. QED
    BY <2>2, <2>3
<1>9. CASE LoadInterrupted \/ PublishInitial
  BY <1>9, Zenon
  DEF LoadInterrupted, PublishInitial, process, requests, consumer, Covered, HeldInv, Refreshed
<1>10. CASE TailConsume
  <2>1. /\ UNCHANGED <<log, done, received, fetched, request, asked, owed, answered>>
        /\ holder' = "tail"
    BY <1>10, Zenon DEF TailConsume, requests, consumer
  <2>2. ASSUME NEW c \in Clients PROVE Covered(c)'
    BY <2>1, <2>2, KeepsCovered, Zenon DEF Refreshed
  <2>3. QED
    BY <2>1, <2>2, SameHeld
<1>11. CASE CheckCaughtUp
  <2>1. /\ UNCHANGED <<log, done, received, fetched, atEnd, asked, owed, answered>>
        /\ pc = "check"
    BY <1>11, Zenon DEF CheckCaughtUp, consumer
  <2>2. ASSUME NEW c \in Clients PROVE Covered(c)'
    <3>1. CASE received >= Len(log) /\ c = holder
      <4>1. owed[c] <= done /\ owed[c] <= received /\ ~(fetched > received)
        <5>1. /\ owed[c] <= answered /\ answered <= Len(log) /\ done = received
              /\ owed[c] \in Nat /\ fetched <= Len(log)
          BY <2>1, <2>2, Zenon DEF Covered, HeldInv
        <5>2. QED
          BY <3>1, <5>1
      <4>2. QED
        BY <2>1, <2>2, <4>1, Zenon DEF Covered
    <3>2. CASE ~(received >= Len(log) /\ c = holder)
      <4>1. /\ request'[c] = "reading" => request[c] = "reading"
            /\ Refreshed(c)' => Refreshed(c)
        BY <1>11, <2>1, <2>2, <3>2, Zenon DEF CheckCaughtUp, ConsumeReturns, Release, Refreshed
      <4>2. QED
        BY <2>1, <2>2, <4>1, KeepsCovered, Zenon
    <3>3. QED
      BY <3>1, <3>2
  <2>3. QED
    BY <2>1, <2>2, SameHeld
<1>12. CASE BackgroundFetch
  <2>1. /\ UNCHANGED <<log, holder, pc, done, received, atEnd, request, asked, owed, answered>>
        /\ fetched' = Len(log)
    BY <1>12, Zenon DEF BackgroundFetch, requests
  <2>2. QED
    BY <2>1, Zenon DEF Covered, HeldInv, Refreshed
<1>13. CASE Receive
  <2>1. PICK p \in received + 1 .. (IF fetched > received THEN fetched ELSE Len(log)) :
           /\ received' = p
           /\ atEnd' = (p >= IF fetched > received THEN fetched ELSE Len(log))
           /\ fetched' = IF Prefetch THEN IF fetched > received THEN fetched ELSE Len(log)
                                     ELSE p
    BY <1>13, Zenon DEF Receive
  <2>2. /\ UNCHANGED <<log, holder, done, request, asked, owed, answered>>
        /\ pc = "receive" /\ pc' = "reduce"
    BY <1>13, Zenon DEF Receive, requests
  <2>3. CASE fetched > received
    <3>1. HeldInv'
      BY <2>1, <2>2, <2>3, SMTT(30) DEF HeldInv
    <3>2. ASSUME NEW c \in Clients PROVE Covered(c)'
      <4>1. owed[c] <= answered /\ answered <= fetched /\ owed[c] \in Nat /\ asked[c] \in Nat
        BY <2>3, Zenon DEF HeldInv, Covered
      <4>2. atEnd' => received' >= fetched
        BY <2>1, <2>3, Zenon
      <4>3. received' > received
        BY <2>1, <2>3, SMTT(30)
      <4>4. fetched' > received' => fetched' = fetched /\ ~atEnd'
        BY <2>1, <2>3, <4>2, SMTT(30)
      <4>5. Refreshed(c)' => (Refreshed(c) /\ request[c] = "reading") \/ atEnd'
        BY <2>2, Zenon DEF Refreshed
      <4>6. Refreshed(c)' => owed[c] <= received'
        <5>1. Refreshed(c) => owed[c] <= received
          BY <3>2, Zenon DEF Covered
        <5>2. received' \in Nat
          BY <2>1
        <5>3. QED
          BY <4>1, <4>2, <4>3, <4>5, <5>1, <5>2
      <4>7. fetched' > received' /\ Refreshed(c)' => asked[c] <= fetched'
        BY <2>3, <4>4, <4>5, SMTT(30) DEF Covered
      <4>8. QED
        BY <2>2, <4>6, <4>7, Zenon DEF Covered
    <3>3. QED
      BY <3>1, <3>2
  <2>4. CASE ~(fetched > received)
    <3>1. HeldInv'
      BY <2>1, <2>2, <2>4, SMTT(30) DEF HeldInv
    <3>2. ASSUME NEW c \in Clients PROVE Covered(c)'
      <4>1. owed[c] <= answered /\ answered <= Len(log) /\ owed[c] \in Nat /\ asked[c] \in Nat
        BY Zenon DEF HeldInv, Covered
      <4>2. atEnd' => received' >= Len(log)
        BY <2>1, <2>4, Zenon
      <4>3. received' > received
        BY <2>1, <2>4, SMTT(30)
      <4>4. fetched' > received' => fetched' = Len(log)
        BY <2>1, <2>4, SMTT(30)
      <4>5. Refreshed(c)' => (Refreshed(c) /\ request[c] = "reading") \/ atEnd'
        BY <2>2, Zenon DEF Refreshed
      <4>6. Refreshed(c)' => owed[c] <= received'
        <5>1. Refreshed(c) => owed[c] <= received
          BY <3>2, Zenon DEF Covered
        <5>2. received' \in Nat
          BY <2>1
        <5>3. QED
          BY <4>1, <4>2, <4>3, <4>5, <5>1, <5>2
      <4>7. fetched' > received' => asked[c] <= fetched'
        BY <4>4, Zenon DEF Covered
      <4>8. QED
        BY <2>2, <4>6, <4>7, Zenon DEF Covered
    <3>3. QED
      BY <3>1, <3>2
  <2>5. QED
    BY <2>3, <2>4
<1>14. CASE ReduceUnchanged \/ SaveAndInstall
  <2>1. /\ UNCHANGED <<log, holder, done, received, fetched, atEnd, request, asked, owed, answered>>
        /\ pc = "reduce"
    BY <1>14, Zenon DEF ReduceUnchanged, SaveAndInstall, requests, consumer
  <2>2. ASSUME NEW c \in Clients PROVE Covered(c)'
    BY <2>1, <2>2, KeepsCovered, Zenon DEF Refreshed
  <2>3. QED
    BY <2>1, <2>2, SameHeld
<1>15. CASE ReduceRejected \/ SaveFails \/ AckFails \/ ConsumerError \/ ContextOver
  <2>1. /\ Release /\ EndRequests({holder})
        /\ UNCHANGED <<log, done, received, fetched, atEnd, answered>>
    BY <1>15, Zenon DEF ReduceRejected, SaveFails, AckFails, ConsumerError, ContextOver, Fail, consumer
  <2>2. ASSUME NEW c \in Clients PROVE Covered(c)'
    <3>1. CASE c = holder
      <4>1. asked'[c] = 0 /\ owed'[c] = 0 /\ request'[c] = "none"
        BY <2>1, <2>2, <3>1, Zenon DEF EndRequests
      <4>2. asked'[c] <= Len(log)' /\ owed'[c] <= answered'
        BY <2>1, <4>1
      <4>3. QED
        BY <2>1, <2>2, <4>1, <4>2, EndsCovered, Zenon DEF Release, Refreshed
    <3>2. CASE c # holder
      <4>1. asked'[c] = asked[c] /\ owed'[c] = owed[c] /\ request'[c] = request[c]
        BY <2>1, <2>2, <3>2, Zenon DEF EndRequests
      <4>2. QED
        BY <2>1, <2>2, <4>1, KeepsCovered, Zenon DEF Release, Refreshed
    <3>3. QED
      BY <3>1, <3>2
  <2>3. QED
    BY <2>1, <2>2, SameHeld
<1>16. CASE Ack
  <2>1. /\ UNCHANGED <<log, received, fetched, atEnd, asked, owed, answered>>
        /\ pc = "ack" /\ done' = done + 1
    BY <1>16, Zenon DEF Ack
  <2>2. ASSUME NEW c \in Clients PROVE Covered(c)'
    <3>1. Refreshed(c)' => Refreshed(c)
      <4>1. CASE UNCHANGED <<holder, request>>
        BY <2>1, <4>1, Zenon DEF Refreshed
      <4>2. CASE Release /\ UNCHANGED request
        BY <2>2, <4>2, Zenon DEF Release, Refreshed
      <4>3. CASE Release /\ request' = [request EXCEPT ![holder] = "reading"] /\ atEnd
        BY <2>1, <2>2, <4>3, Zenon DEF Release, Refreshed
      <4>4. QED
        BY <1>16, <4>1, <4>2, <4>3, Zenon DEF Ack, ConsumeReturns
    <3>2. CASE request'[c] = "reading" /\ request[c] # "reading"
      <4>1. holder = c /\ atEnd /\ ~(done' < received)
        BY <1>16, <2>2, <3>2, Zenon DEF Ack, ConsumeReturns
      <4>2. owed[c] <= received /\ owed[c] \in Nat
        BY <2>1, <2>2, <4>1, Zenon DEF Covered, Refreshed
      <4>3. owed[c] <= done'
        BY <2>1, <4>1, <4>2
      <4>4. QED
        BY <2>1, <2>2, <3>1, <4>3, Zenon DEF Covered
    <3>3. CASE ~(request'[c] = "reading" /\ request[c] # "reading")
      <4>1. request[c] = "reading" => owed[c] <= done'
        BY <2>1, <2>2 DEF Covered
      <4>2. QED
        BY <2>1, <2>2, <3>1, <3>3, <4>1, Zenon DEF Covered
    <3>4. QED
      BY <3>2, <3>3
  <2>3. QED
    BY <2>1, <2>2, SameHeld
<1>17. CASE \E d \in Clients : Request(d) \/ Refresh(d) \/ Answer(d)
  <2>1. PICK d \in Clients : Request(d) \/ Refresh(d) \/ Answer(d)
    BY <1>17, Zenon
  <2>2. UNCHANGED <<log, done, received, fetched, atEnd>>
    BY <2>1, Zenon DEF Request, Refresh, Answer, process, consumer
  <2>3. CASE Request(d)
    <3>1. UNCHANGED <<holder, pc, answered>> /\ request[d] = "none"
      BY <2>3, Zenon DEF Request, process
    <3>2. ASSUME NEW c \in Clients PROVE Covered(c)'
      <4>1. CASE c = d
        <5>1. asked'[c] = Len(log) /\ owed'[c] = answered /\ request'[c] = "waiting"
          BY <2>3, <3>2, <4>1, Zenon DEF Request
        <5>2. asked'[c] <= Len(log)' /\ owed'[c] <= answered'
          BY <2>2, <3>1, <5>1
        <5>3. QED
          BY <3>1, <3>2, <4>1, <5>1, <5>2, EndsCovered, Zenon DEF Refreshed
      <4>2. CASE c # d
        <5>1. asked'[c] = asked[c] /\ owed'[c] = owed[c] /\ request'[c] = request[c]
          BY <2>3, <3>2, <4>2, Zenon DEF Request
        <5>2. QED
          BY <2>2, <3>1, <3>2, <5>1, KeepsCovered, Zenon DEF Refreshed
      <4>3. QED
        BY <4>1, <4>2
    <3>3. QED
      BY <2>2, <3>1, <3>2, SameHeld
  <2>4. CASE Refresh(d)
    <3>1. UNCHANGED answered /\ request[d] = "waiting" /\ holder = Nobody /\ pc = "idle"
      BY <2>4, Zenon DEF Refresh
    <3>2. ASSUME NEW c \in Clients PROVE Covered(c)'
      <4>1. CASE c = d /\ ~active
        <5>1. asked'[c] = 0 /\ owed'[c] = 0 /\ request'[c] = "none" /\ UNCHANGED <<holder, pc>>
          BY <2>4, <3>2, <4>1, Zenon DEF Refresh, EndRequests
        <5>2. asked'[c] <= Len(log)' /\ owed'[c] <= answered'
          BY <2>2, <3>1, <5>1
        <5>3. QED
          BY <3>1, <3>2, <5>1, <5>2, EndsCovered, Zenon DEF Refreshed
      <4>2. CASE ~(c = d /\ ~active)
        <5>1. asked'[c] = asked[c] /\ owed'[c] = owed[c] /\ request'[c] = request[c]
          BY <2>4, <3>2, <4>2, Zenon DEF Refresh, EndRequests
        <5>2. Refreshed(c)' => Refreshed(c)
          BY <2>4, <3>1, <5>1, Zenon DEF Refresh, Refreshed
        <5>3. QED
          BY <2>2, <3>1, <3>2, <5>1, <5>2, KeepsCovered, Zenon
      <4>3. QED
        BY <4>1, <4>2
    <3>3. QED
      BY <2>2, <3>1, <3>2, SameHeld
  <2>5. CASE Answer(d)
    <3>1. /\ UNCHANGED <<holder, pc>> /\ Refreshed(d) /\ request[d] = "reading"
          /\ answered' = IF answered < asked[d] THEN asked[d] ELSE answered
      BY <2>5, Zenon DEF Answer, process, Refreshed
    <3>2. /\ answered <= answered' /\ answered' <= Len(log)
          /\ fetched > received => answered' <= fetched
      <4>1. /\ asked[d] <= Len(log) /\ asked[d] \in Nat
            /\ fetched > received => asked[d] <= fetched
        BY <2>1, <3>1, Zenon DEF Covered
      <4>2. QED
        BY <3>1, <4>1 DEF HeldInv
    <3>3. answered' \in Nat
      BY <2>1, <3>1
    <3>4. ASSUME NEW c \in Clients PROVE Covered(c)'
      <4>1. CASE c = d
        <5>1. asked'[c] = 0 /\ owed'[c] = 0 /\ request'[c] = "none"
          BY <2>5, <3>4, <4>1, Zenon DEF Answer, EndRequests
        <5>2. asked'[c] <= Len(log)' /\ owed'[c] <= answered'
          BY <2>2, <3>3, <5>1
        <5>3. QED
          BY <3>1, <3>4, <4>1, <5>1, <5>2, EndsCovered, Zenon DEF Refreshed
      <4>2. CASE c # d
        <5>1. asked'[c] = asked[c] /\ owed'[c] = owed[c] /\ request'[c] = request[c]
          BY <2>5, <3>4, <4>2, Zenon DEF Answer, EndRequests
        <5>2. owed[c] <= answered'
          <6>1. owed[c] <= answered /\ owed[c] \in Nat
            BY <3>4, Zenon DEF Covered
          <6>2. QED
            BY <3>2, <3>3, <6>1
        <5>3. QED
          BY <2>2, <3>1, <3>4, <5>1, <5>2, Zenon DEF Covered, Refreshed
      <4>3. QED
        BY <4>1, <4>2
    <3>5. QED
      BY <2>2, <3>2, <3>4, Zenon DEF HeldInv
  <2>6. QED
    BY <2>1, <2>3, <2>4, <2>5, Zenon
<1>18. CASE Exit \/ Crash
  <2>1. /\ Release /\ EndRequests(Clients) /\ UNCHANGED <<log, answered>>
        /\ received' = 0 /\ fetched' = 0
    BY <1>18, Zenon DEF Exit, Crash, Terminate
  <2>2. ASSUME NEW c \in Clients PROVE Covered(c)'
    <3>1. asked'[c] = 0 /\ owed'[c] = 0 /\ request'[c] = "none"
      BY <2>1, <2>2, Zenon DEF EndRequests
    <3>2. asked'[c] <= Len(log)' /\ owed'[c] <= answered'
      BY <2>1, <3>1
    <3>3. QED
      BY <2>1, <2>2, <3>1, <3>2, EndsCovered, Zenon DEF Release, Refreshed
  <2>3. QED
    BY <2>1, <2>2 DEF HeldInv
<1>19. QED
  BY <1>6, <1>7, <1>8, <1>9, <1>10, <1>11, <1>12, <1>13, <1>14, <1>15, <1>16, <1>17, <1>18, Zenon DEF Next

LEMMA BarrierInit == Init => BarrierInv
BY ConsolidatorConstants, SMTT(30) DEF Init, BarrierInv, Refreshed, LogInit

(* The state that a request reads contains what it has to. *)
LEMMA ReadState ==
    ASSUME ConsolidatorInv, BarrierInv, NEW c \in Clients, request[c] = "reading"
    PROVE  /\ owed[c] \in Nat /\ asked[c] \in Nat /\ served <= snapshot.revision
           /\ \E n \in 0..Index : owed[c] <= n /\ snapshot = Reduction(n)
<1>1. /\ owed[c] \in Nat /\ asked[c] \in Nat /\ owed[c] <= done
      /\ done <= Index /\ AtMostOneAhead(snapshot, done) /\ served <= snapshot.revision
  BY Facts, Zenon DEF ConsolidatorTypeOK, BarrierInv, ConsumeInv, MemoryInv, AtMostOneAhead
<1>2. done \in Nat /\ Index \in Nat
  BY Facts, Zenon
<1>3. CASE snapshot = Reduction(done)
  BY <1>1, <1>2, <1>3, SMTT(30)
<1>4. CASE done + 1 <= Index /\ snapshot = Reduction(done + 1)
  BY <1>1, <1>2, <1>4, SMTT(30)
<1>5. QED
  BY <1>1, <1>3, <1>4, Zenon DEF AtMostOneAhead

(* Asking twice is a barrier (service.go:227-252), also with a Kafka       *)
(* client that fetches ahead: an answer contains every event that was on   *)
(* the log when an earlier request came in, if that request was answered   *)
(* before this one came in.                                                *)
THEOREM Barrier ==
    ASSUME ~InterruptedLoads
    PROVE  Spec => []AnswersContainEarlierRequests
<1>1. ConsolidatorInv /\ BarrierInv /\ [Next]_vars => BarrierInv'
  BY BarrierStep
<1>2. ConsolidatorInv /\ BarrierInv => AnswersContainEarlierRequests
  <2> SUFFICES ASSUME ConsolidatorInv, BarrierInv, NEW c \in Clients, request[c] = "reading"
               PROVE  \E n \in owed[c]..Index : snapshot = Reduction(n)
    BY Zenon DEF AnswersContainEarlierRequests
  <2>1. PICK n \in 0..Index : owed[c] <= n /\ snapshot = Reduction(n)
    BY ReadState
  <2>2. n \in owed[c]..Index
    BY <2>1, ReadState, Facts
  <2>3. QED
    BY <2>1, <2>2
<1>3. QED
  BY <1>1, <1>2, BarrierInit, Invariance, PTL DEF Spec

-----------------------------------------------------------------------------
Pending == [c \in Clients |-> IF request[c] = "none" THEN Nobody ELSE asked[c]]

(* A step that neither changes the log nor what is pending or answered. *)
LEMMA Stutters ==
    ASSUME UNCHANGED <<log, canon, owed, answered, served>>, Pending' = Pending
    PROVE  UNCHANGED Service!barrierVars
BY Zenon DEF Service!barrierVars, Service!serviceVars, Pending

(* Requests that end without an answer are refused. *)
LEMMA Refuses ==
    ASSUME ConsolidatorTypeOK, NEW S, EndRequests(S), UNCHANGED <<log, canon, answered, served>>
    PROVE  Service!BarrierNext
<1>1. Pending' = [c \in Clients |-> IF c \in S \cap Clients THEN Nobody ELSE Pending[c]]
  BY Zenon DEF Pending, EndRequests, ConsolidatorTypeOK
<1>2. owed' = [c \in Clients |-> IF c \in S \cap Clients THEN 0 ELSE owed[c]]
  BY Zenon DEF EndRequests
<1>3. Service!RefuseAll(S \cap Clients)
  BY <1>1, <1>2, Zenon DEF Service!RefuseAll, Service!Refuse, Pending
<1>4. QED
  BY <1>3, Zenon DEF Service!BarrierNext

LEMMA RequestAsks ==
    ASSUME ConsolidatorTypeOK, NEW c \in Clients, Request(c)
    PROVE  Service!BarrierNext
<1>1. Pending[c] = Nobody /\ Pending' = [Pending EXCEPT ![c] = Len(log)]
  BY Zenon DEF Pending, Request, ConsolidatorTypeOK
<1>2. Service!AskBehind(c)
  BY <1>1, Zenon DEF Service!AskBehind, Service!Ask, Pending, Request
<1>3. QED
  BY <1>2, Zenon DEF Service!BarrierNext

(* The answer is canonical, contains what it has to and does not regress. *)
LEMMA AnswerAnswers ==
    ASSUME ConsolidatorInv, BarrierInv, NEW c \in Clients, Answer(c)
    PROVE  Service!BarrierNext
<1>1. request[c] = "reading"
  BY DEF Answer
<1>2. PICK n \in 0..Index : owed[c] <= n /\ snapshot = Reduction(n)
  BY <1>1, ReadState
<1>3. Pending[c] = asked[c] /\ Pending[c] # Nobody
  BY <1>1, ReadState, ConsolidatorConstants, Zenon DEF Pending
<1>4. Pending' = [Pending EXCEPT ![c] = Nobody]
  BY Facts, Zenon DEF Pending, Answer, EndRequests, ConsolidatorTypeOK
<1>5. served' = Reduction(n).revision /\ Reduction(n).revision >= served
  <2>1. served' = IF served < Reduction(n).revision THEN Reduction(n).revision ELSE served
    BY <1>2, Zenon DEF Answer
  <2>2. Reduction(n).revision \in Nat /\ served \in Nat /\ served <= Reduction(n).revision
    BY <1>1, <1>2, ReadState, Facts, Zenon
  <2>3. QED
    BY <2>1, <2>2
<1>6. Service!Index = Index /\ Service!Reduction(n) = Reduction(n)
  BY DEF Service!Index, Service!Reduction, Index, Reduction
<1>7. Service!AnswerWith(c, n)
  <2>1. UNCHANGED <<log, canon>>
    BY DEF Answer
  <2>2. QED
    BY <1>2, <1>3, <1>4, <1>5, <1>6, <2>1, Zenon DEF Service!AnswerWith, Pending
<1>8. /\ answered' = IF answered < Pending[c] THEN Pending[c] ELSE answered
      /\ owed' = [owed EXCEPT ![c] = 0]
  <2>1. answered' = IF answered < Pending[c] THEN Pending[c] ELSE answered
    BY <1>3, Zenon DEF Answer
  <2>2. owed' = [owed EXCEPT ![c] = 0]
    BY Facts, Zenon DEF Answer, EndRequests, ConsolidatorTypeOK
  <2>3. QED
    BY <2>1, <2>2, Zenon
<1>9. Service!AnswerFully(c, n)
  BY <1>2, <1>7, <1>8, Zenon DEF Service!AnswerFully, Pending
<1>10. QED
  BY <1>6, <1>9, Zenon DEF Service!BarrierNext

(* The definitions about the log are the same on both sides. *)
LEMMA SameEvents == Service!Event = Event
BY Zenon DEF Service!Event, Service!TopicEvent, Service!SubscriptionEvent, Service!RemovalTypes,
       Event, TopicEvent, SubscriptionEvent, RemovalTypes

LEMMA SameReducer ==
    ASSUME NEW s, NEW e
    PROVE  /\ Service!Rejects(s, e) <=> Rejects(s, e)
           /\ Service!Apply(s, e) = Apply(s, e)
<1>1. Service!Unchanged(s, e) <=> Unchanged(s, e)
  BY Zenon DEF Service!Unchanged, Service!Coalesces, Service!SameTopic, Service!SameEndpoint, Service!Current,
         Service!RemovalTypes, Unchanged, Coalesces, SameTopic, SameEndpoint, Current, RemovalTypes
<1>2. \A r : Service!SubscriptionAfter(e, r) = SubscriptionAfter(e, r)
  BY DEF Service!SubscriptionAfter, Service!RemovalTypes, SubscriptionAfter, RemovalTypes
<1>3. \A t, r : Service!TopicAfter(t, e, r) = TopicAfter(t, e, r)
  BY DEF Service!TopicAfter, TopicAfter
<1>4. Service!Effect(s, e) = Effect(s, e)
  BY <1>2, <1>3, Zenon DEF Service!Effect, Effect
<1>5. Service!Rejects(s, e) <=> Rejects(s, e)
  BY Zenon DEF Service!Rejects, Service!RemovalTypes, Rejects, RemovalTypes
<1>6. QED
  BY <1>1, <1>4, <1>5, Zenon DEF Service!Apply, Apply

(* Whatever a hub appends, the service admits. *)
LEMMA AppendAppends ==
    ASSUME AppendByReplayingHub, UNCHANGED requests
    PROVE  Service!BarrierNext
<1>1. Pending' = Pending /\ UNCHANGED <<owed, answered, served>>
  BY Zenon DEF requests, Pending
<1>2. PICK e \in Event : AppendRecord(e)
  BY Zenon DEF AppendByReplayingHub
<1>3. Service!Index = Index /\ \A m : Service!Reduction(m) = Reduction(m)
  BY DEF Service!Index, Service!Reduction, Index, Reduction
<1>4. Service!AppendRecord(e)
  BY <1>2, <1>3, SameReducer, Zenon DEF Service!AppendRecord, Service!Fresh, AppendRecord, Fresh
<1>5. QED
  BY <1>1, <1>2, <1>4, SameEvents, Zenon DEF Service!BarrierNext, Pending

-----------------------------------------------------------------------------
LEMMA StepRefines ==
    ASSUME ConsolidatorInv, BarrierInv, [Next]_vars
    PROVE  [Service!BarrierNext]_(Service!barrierVars)
<1> USE Facts
<1>1. CASE UNCHANGED vars
  BY <1>1, Stutters, Zenon DEF vars, requests, Pending
<1>2. CASE AppendByReplayingHub /\ UNCHANGED <<durable, process, requests, faults>>
  BY <1>2, AppendAppends, Zenon
<1>3. CASE \/ LoadSnapshot \/ LoadInterrupted \/ PublishInitial \/ TailConsume
           \/ BackgroundFetch \/ Receive \/ ReduceUnchanged \/ SaveAndInstall
  <2>1. UNCHANGED <<log, canon, requests>>
    BY <1>3, Zenon DEF LoadSnapshot, LoadInterrupted, PublishInitial, TailConsume, BackgroundFetch,
                Receive, ReduceUnchanged, SaveAndInstall
  <2>2. QED
    BY <2>1, Stutters, Zenon DEF requests, Pending
<1>4. CASE CheckCaughtUp \/ Ack
  <2>1. UNCHANGED <<log, canon, asked, owed, answered, served>>
    BY <1>4, Zenon DEF CheckCaughtUp, Ack
  <2>2. UNCHANGED request \/ /\ holder \in Clients
                             /\ request' = [request EXCEPT ![holder] = "reading"]
    BY <1>4, Zenon DEF CheckCaughtUp, Ack, ConsumeReturns
  <2>3. holder \in Clients => request[holder] = "waiting"
    BY Zenon DEF ConsumeInv
  <2>4. Pending' = Pending
    BY <2>1, <2>2, <2>3, Zenon DEF Pending, ConsolidatorTypeOK
  <2>5. QED
    BY <2>1, <2>4, Stutters, Zenon
<1>5. CASE ReduceRejected \/ SaveFails \/ AckFails \/ ConsumerError \/ ContextOver
  <2>1. EndRequests({holder}) /\ UNCHANGED <<log, canon, answered, served>>
    BY <1>5, Zenon DEF ReduceRejected, SaveFails, AckFails, ConsumerError, ContextOver, Fail
  <2>2. QED
    BY <2>1, Refuses, Zenon
<1>6. ASSUME NEW c \in Clients, Request(c) \/ Refresh(c) \/ Answer(c)
      PROVE  [Service!BarrierNext]_(Service!barrierVars)
  <2>1. CASE Request(c)
    BY <2>1, RequestAsks, Zenon
  <2>2. CASE Refresh(c)
    <3>1. CASE active
      BY <2>2, <3>1, Stutters, Zenon DEF Refresh, Pending
    <3>2. CASE ~active
      BY <2>2, <3>2, Refuses, Zenon DEF Refresh
    <3>3. QED
      BY <3>1, <3>2, Zenon
  <2>3. CASE Answer(c)
    BY <2>3, AnswerAnswers, Zenon
  <2>4. QED
    BY <1>6, <2>1, <2>2, <2>3, Zenon
<1>7. CASE Exit \/ Crash
  <2>1. EndRequests(Clients) /\ UNCHANGED <<log, canon, answered, served>>
    BY <1>7, Zenon DEF Exit, Crash, Terminate
  <2>2. QED
    BY <2>1, Refuses, Zenon
<1>8. QED
  BY <1>1, <1>2, <1>3, <1>4, <1>5, <1>6, <1>7, Zenon DEF Next

(* serveSnapshot, Refresh and the consume loop (service.go:98-177,         *)
(* 227-252) keep the promise of SnapshotBarrier, whether or not the Kafka  *)
(* client fetches ahead: canonical answers, revisions that never regress,  *)
(* and a barrier that may be one request late, across crashes and          *)
(* restarts.                                                               *)
THEOREM Refinement ==
    ASSUME ~InterruptedLoads
    PROVE  Spec => ImplementsService
<1>1. Init => Service!BarrierInit
  BY Zenon
  DEF Init, Service!BarrierInit, Service!ServiceInit, Service!LogInit, LogInit,
      Service!EmptySnapshot, EmptySnapshot
<1>2. ConsolidatorInv /\ BarrierInv /\ [Next]_vars => BarrierInv'
  BY BarrierStep
<1>3. ConsolidatorInv /\ BarrierInv /\ [Next]_vars => [Service!BarrierNext]_(Service!barrierVars)
  BY StepRefines
<1>4. QED
  BY <1>1, <1>2, <1>3, BarrierInit, Invariance, PTL
  DEF Spec, ImplementsService, Service!BarrierSpec

=============================================================================
