---------------------------- MODULE Consolidator ----------------------------
(***************************************************************************)
(* The consolidator: internal/consolidator/service.go, the state store of  *)
(* persistence/statestore, and the loop of app/runtime/consolidator.go.    *)
(*                                                                         *)
(* Durable: the event log, the offset committed by the consolidator's      *)
(* consumer group, the snapshots topic (keyed by revision) and the         *)
(* progress of the snapshot loader's group.  The rest is process memory.   *)
(*                                                                         *)
(* One consume() is several steps, because events are appended, requests   *)
(* arrive and the process may die between them: the end-offset check, the  *)
(* receive, and for each record the save and the acknowledgement.  The     *)
(* mutex consumeMu is held from the check on.                              *)
(*                                                                         *)
(* Faults (a crash, a call whose outcome is lost, an expired context) are  *)
(* counted and bounded by MaxFaults.                                       *)
(***************************************************************************)
EXTENDS StateLog

CONSTANTS
    Clients,          \* hubs that request a snapshot
    MaxBatch,         \* records one receive returns at most
    MaxFaults,        \* bound: faults in one behaviour
    Prefetch,         \* the Kafka client holds a fetch answered before the poll
    InterruptedLoads, \* the loader's last step, deleting its group, may not happen
    Nobody            \* nobody holds consumeMu

ASSUME ConsolidatorConstants ==
    /\ MaxBatch \in Nat \ {0}
    /\ MaxFaults \in Nat
    /\ Prefetch \in BOOLEAN
    /\ InterruptedLoads \in BOOLEAN
    /\ "tail" \notin Clients
    /\ Nobody \notin Clients \cup {"tail"} \cup Nat

VARIABLES
    committed,   \* events the group has committed
    snapshots,   \* the snapshots topic
    loaderAtEnd, \* the loader group survives, with every snapshot acknowledged
    mode,        \* "down", "loaded", "starting" or "running"
    snapshot,    \* Service.snapshot
    active,      \* Service.consumerActive
    caughtUp,    \* Service.caughtUp
    holder,      \* who holds consumeMu
    pc,          \* the next step of the holder's consume()
    done,        \* events acknowledged through this consumer
    received,    \* events polled by this consumer
    fetched,     \* events the client has fetched, polled or not
    atEnd,       \* ReceiveBatch.CaughtUp of the current batch
    request,     \* each client's request: "none", "waiting", "reading"
    asked,       \* history: length of the log when a pending request came in
    owed,        \* history: answered, when a pending request came in
    answered,    \* history: the greatest asked of a request that was answered
    served,      \* history: greatest revision ever answered
    faults

durable == <<committed, snapshots, loaderAtEnd>>
consumer == <<done, received, fetched, atEnd>>
requests == <<request, asked, owed, answered, served>>
process == <<mode, snapshot, active, caughtUp, holder, pc, consumer>>
vars == <<log, canon, durable, process, requests, faults>>

ConsolidatorTypeOK ==
    /\ LogTypeOK
    /\ committed \in Nat
    /\ snapshots \in SUBSET Snapshot
    /\ loaderAtEnd \in BOOLEAN
    /\ mode \in {"down", "loaded", "starting", "running"}
    /\ snapshot \in Snapshot
    /\ active \in BOOLEAN
    /\ caughtUp \in BOOLEAN
    /\ holder \in Clients \cup {"tail", Nobody}
    /\ pc \in {"idle", "check", "receive", "reduce", "ack"}
    /\ done \in Nat
    /\ received \in Nat
    /\ fetched \in Nat
    /\ atEnd \in BOOLEAN
    /\ request \in [Clients -> {"none", "waiting", "reading"}]
    /\ asked \in [Clients -> Nat] /\ owed \in [Clients -> Nat] /\ answered \in Nat
    /\ served \in Nat
    /\ faults \in 0..MaxFaults

Init ==
    /\ LogInit
    /\ committed = 0 /\ snapshots = {} /\ loaderAtEnd = FALSE
    /\ mode = "down" /\ snapshot = EmptySnapshot
    /\ active = FALSE /\ caughtUp = FALSE
    /\ holder = Nobody /\ pc = "idle"
    /\ done = 0 /\ received = 0 /\ fetched = 0 /\ atEnd = FALSE
    /\ request = [c \in Clients |-> "none"]
    /\ asked = [c \in Clients |-> 0] /\ owed = [c \in Clients |-> 0] /\ answered = 0
    /\ served = 0 /\ faults = 0

Up == mode \in {"starting", "running"}

Fault == faults < MaxFaults /\ faults' = faults + 1

-----------------------------------------------------------------------------
(* Start *)

(* Mutant of Greatest: the comparison is the wrong way round. *)
Least(S) == CHOOSE s \in S : \A t \in S : s.revision <= t.revision

Greatest(S) == CHOOSE s \in S : \A t \in S : t.revision <= s.revision

(* Mutant of ResumeOffset: the last committed event is read again. *)
ResumeAtLastCommitted == committed - 1

(* OpenEvents resumes at the committed offset, the earliest one when there *)
(* is none.                                                                *)
ResumeOffset == committed

(* LoadSnapshot reads what its group has not acknowledged, keeps the       *)
(* greatest revision and deletes the group; then the consumer is opened.   *)
LoadSnapshot ==
    /\ mode = "down"
    /\ mode' = "loaded"
    /\ snapshot' = IF loaderAtEnd \/ snapshots = {}
                   THEN EmptySnapshot ELSE Greatest(snapshots)
    /\ loaderAtEnd' = FALSE
    /\ active' = TRUE /\ caughtUp' = FALSE
    /\ done' = ResumeOffset /\ received' = ResumeOffset /\ fetched' = ResumeOffset
    /\ atEnd' = FALSE
    /\ UNCHANGED <<log, canon, committed, snapshots, holder, pc, requests, faults>>

(* Every snapshot is acknowledged, and the process dies or DeleteGroup     *)
(* fails before the group is gone.  (A load that stops earlier leaves the  *)
(* newest snapshot unacknowledged.)                                        *)
LoadInterrupted ==
    /\ InterruptedLoads
    /\ mode = "down" /\ snapshots # {}
    /\ loaderAtEnd' = TRUE
    /\ Fault
    /\ UNCHANGED <<log, canon, committed, snapshots, process, requests>>

PublishInitial ==
    /\ mode = "loaded"
    /\ snapshots' = snapshots \cup {snapshot}
    /\ mode' = "starting"
    /\ UNCHANGED <<log, canon, committed, loaderAtEnd, snapshot, active, caughtUp,
                   holder, pc, consumer, requests, faults>>

-----------------------------------------------------------------------------
(* consume() *)

Release == holder' = Nobody /\ pc' = "idle"

EndRequests(S) ==
    /\ request' = [c \in Clients |-> IF c \in S THEN "none" ELSE request[c]]
    /\ asked' = [c \in Clients |-> IF c \in S THEN 0 ELSE asked[c]]
    /\ owed' = [c \in Clients |-> IF c \in S THEN 0 ELSE owed[c]]

(* fail(): the service stops consuming and is not ready any more; a        *)
(* request that was refreshing is answered 503.                            *)
Fail ==
    /\ active' = FALSE /\ caughtUp' = FALSE
    /\ Release
    /\ EndRequests({holder})

(* Mutant of ConsumeReturns: Refresh never stops to call consume(). *)
RefreshConsumesForEver(result) ==
    IF holder = "tail"
    THEN Release /\ mode' = (IF result THEN "running" ELSE mode) /\ UNCHANGED request
    ELSE pc' = "check" /\ UNCHANGED <<holder, mode, request>>

(* consume() returns its boolean.  Start's loop ends and the listener      *)
(* opens on TRUE, the tail loop starts over in any case; Refresh calls     *)
(* consume() until it returns TRUE.                                        *)
ConsumeReturns(result) ==
    \/ /\ holder = "tail"
       /\ Release
       /\ mode' = IF result THEN "running" ELSE mode
       /\ UNCHANGED request
    \/ /\ holder \in Clients /\ result
       /\ Release
       /\ request' = [request EXCEPT ![holder] = "reading"]
       /\ UNCHANGED mode
    \/ /\ holder \in Clients /\ ~result
       /\ pc' = "check"
       /\ UNCHANGED <<holder, mode, request>>

(* Start's loop or the tail loop enters Consume. *)
TailConsume ==
    /\ Up /\ active /\ holder = Nobody
    /\ holder' = "tail" /\ pc' = "check"
    /\ UNCHANGED <<log, canon, durable, mode, snapshot, active, caughtUp,
                   consumer, requests, faults>>

(* Consumer.CaughtUp: the polled position against the end of the log. *)
CheckCaughtUp ==
    /\ pc = "check"
    /\ IF received >= Len(log)
       THEN caughtUp' = TRUE /\ ConsumeReturns(TRUE)
       ELSE pc' = "receive" /\ UNCHANGED <<caughtUp, holder, mode, request>>
    /\ UNCHANGED <<log, canon, durable, snapshot, active, consumer, asked, owed, answered,
                   served, faults>>

(* The Kafka client fetches in the background what it has not delivered. *)
BackgroundFetch ==
    /\ Prefetch /\ Up
    /\ fetched = received /\ fetched < Len(log)
    /\ fetched' = Len(log)
    /\ UNCHANGED <<log, canon, durable, mode, snapshot, active, caughtUp, holder,
                   pc, done, received, atEnd, requests, faults>>

(* Consumer.Receive: poll the buffered fetch, or fetch now; the batch may  *)
(* be shorter than both bounds.  Its CaughtUp compares the position with   *)
(* the fetch's high watermark, the end of the log when the fetch was       *)
(* answered.                                                               *)
Receive ==
    /\ pc = "receive"
    /\ LET highWatermark == IF fetched > received THEN fetched ELSE Len(log) IN
       \E position \in received + 1 .. highWatermark :
          /\ position <= received + MaxBatch
          /\ received' = position
          /\ atEnd' = (position >= highWatermark)
          /\ fetched' = IF Prefetch THEN highWatermark ELSE position
    /\ pc' = "reduce"
    /\ UNCHANGED <<log, canon, durable, mode, snapshot, active, caughtUp, holder,
                   done, requests, faults>>

Record == log[done + 1]

ReduceRejected ==
    /\ pc = "reduce" /\ Rejects(snapshot, Record)
    /\ Fail
    /\ UNCHANGED <<log, canon, durable, mode, snapshot, consumer, answered, served, faults>>

ReduceUnchanged ==
    /\ pc = "reduce" /\ ~Rejects(snapshot, Record) /\ Unchanged(snapshot, Record)
    /\ pc' = "ack"
    /\ UNCHANGED <<log, canon, durable, mode, snapshot, active, caughtUp, holder,
                   consumer, requests, faults>>

Effective == ~Rejects(snapshot, Record) /\ ~Unchanged(snapshot, Record)

(* Mutant of SaveAndInstall: the saved snapshot is not installed. *)
SaveOnly ==
    /\ pc = "reduce" /\ Effective
    /\ snapshots' = snapshots \cup {Apply(snapshot, Record)}
    /\ pc' = "ack"
    /\ UNCHANGED <<log, canon, committed, loaderAtEnd, mode, snapshot, active, caughtUp, holder,
                   consumer, requests, faults>>

(* SaveSnapshot succeeds, then the snapshot is installed. *)
SaveAndInstall ==
    /\ pc = "reduce" /\ Effective
    /\ snapshots' = snapshots \cup {Apply(snapshot, Record)}
    /\ snapshot' = Apply(snapshot, Record)
    /\ pc' = "ack"
    /\ UNCHANGED <<log, canon, committed, loaderAtEnd, mode, active, caughtUp, holder,
                   consumer, requests, faults>>

(* Mutant of SaveFails: the error is ignored. *)
InstallUnsaved ==
    /\ pc = "reduce" /\ Effective
    /\ snapshot' = Apply(snapshot, Record)
    /\ pc' = "ack"
    /\ Fault
    /\ UNCHANGED <<log, canon, durable, mode, active, caughtUp, holder, consumer, requests>>

(* SaveSnapshot reports an error; the record may have been written. *)
SaveFails ==
    /\ pc = "reduce" /\ Effective
    /\ snapshots' \in {snapshots, snapshots \cup {Apply(snapshot, Record)}}
    /\ Fail /\ Fault
    /\ UNCHANGED <<log, canon, committed, loaderAtEnd, mode, snapshot, consumer,
                   answered, served>>

Ack ==
    /\ pc = "ack"
    /\ committed' = done + 1 /\ done' = done + 1
    /\ IF done' < received
       THEN pc' = "reduce" /\ UNCHANGED <<caughtUp, holder, mode, request>>
       ELSE caughtUp' = (caughtUp \/ atEnd) /\ ConsumeReturns(atEnd)
    /\ UNCHANGED <<log, canon, snapshots, loaderAtEnd, snapshot, active, received,
                   fetched, atEnd, asked, owed, answered, served, faults>>

(* Ack reports an error; the commit may have happened. *)
AckFails ==
    /\ pc = "ack"
    /\ committed' \in {committed, done + 1}
    /\ Fail /\ Fault
    /\ UNCHANGED <<log, canon, snapshots, loaderAtEnd, mode, snapshot, consumer,
                   answered, served>>

(* CaughtUp or Receive reports an error of the consumer. *)
ConsumerError ==
    /\ pc \in {"check", "receive"}
    /\ Fail /\ Fault
    /\ UNCHANGED <<log, canon, durable, mode, snapshot, consumer, answered, served>>

(* CaughtUp or Receive stops because the caller's context is over (the     *)
(* tail loop's poll interval, a request's client): no failure.             *)
ContextOver ==
    /\ pc \in {"check", "receive"} /\ mode = "running"
    /\ Release /\ Fault
    /\ EndRequests({holder})
    /\ UNCHANGED <<log, canon, durable, mode, snapshot, active, caughtUp, consumer,
                   answered, served>>

-----------------------------------------------------------------------------
(* serveSnapshot *)

Ready == active /\ caughtUp

Request(c) ==
    /\ mode = "running" /\ Ready /\ request[c] = "none"
    /\ request' = [request EXCEPT ![c] = "waiting"]
    /\ asked' = [asked EXCEPT ![c] = Len(log)]
    /\ owed' = [owed EXCEPT ![c] = answered]
    /\ UNCHANGED <<log, canon, durable, process, answered, served, faults>>

(* Mutant of Refresh: the snapshot is read without consuming. *)
ReadWithoutRefresh(c) ==
    /\ request[c] = "waiting" /\ holder = Nobody
    /\ request' = [request EXCEPT ![c] = "reading"]
    /\ UNCHANGED <<log, canon, durable, process, asked, owed, answered, served, faults>>

Refresh(c) ==
    /\ request[c] = "waiting" /\ holder = Nobody
    /\ IF active
       THEN holder' = c /\ pc' = "check" /\ UNCHANGED <<request, asked, owed>>
       ELSE EndRequests({c}) /\ UNCHANGED <<holder, pc>>
    /\ UNCHANGED <<log, canon, durable, mode, snapshot, active, caughtUp, consumer,
                   answered, served, faults>>

(* Snapshot() is read after consumeMu is released. *)
Answer(c) ==
    /\ request[c] = "reading"
    /\ EndRequests({c})
    /\ served' = IF served < snapshot.revision THEN snapshot.revision ELSE served
    /\ answered' = IF answered < asked[c] THEN asked[c] ELSE answered
    /\ UNCHANGED <<log, canon, durable, process, faults>>

-----------------------------------------------------------------------------
(* The end of the process *)

Terminate ==
    /\ mode' = "down" /\ snapshot' = EmptySnapshot
    /\ active' = FALSE /\ caughtUp' = FALSE
    /\ Release
    /\ done' = 0 /\ received' = 0 /\ fetched' = 0 /\ atEnd' = FALSE
    /\ EndRequests(Clients)
    /\ UNCHANGED <<log, canon, durable, answered, served>>

(* Mutant of Exit: the tail loop goes on after an error. *)
IgnoreFailure == Up /\ ~active /\ holder = Nobody /\ UNCHANGED vars

(* The next Consume of Start or of the tail loop finds the consumer        *)
(* inactive and its error ends the process.                                *)
Exit ==
    /\ Up /\ ~active /\ holder = Nobody
    /\ Terminate
    /\ UNCHANGED faults

(* A crash or shutdown, and the errors of Start before its loop. *)
Crash ==
    /\ mode # "down"
    /\ Terminate
    /\ Fault

-----------------------------------------------------------------------------
Next ==
    \/ AppendByReplayingHub /\ UNCHANGED <<durable, process, requests, faults>>
    \/ LoadSnapshot \/ LoadInterrupted \/ PublishInitial
    \/ TailConsume \/ CheckCaughtUp \/ BackgroundFetch \/ Receive
    \/ ReduceRejected \/ ReduceUnchanged \/ SaveAndInstall \/ SaveFails
    \/ Ack \/ AckFails \/ ConsumerError \/ ContextOver
    \/ \E c \in Clients : Request(c) \/ Refresh(c) \/ Answer(c)
    \/ Exit \/ Crash

Spec == Init /\ [][Next]_vars

(* The process is restarted by its supervisor and its goroutines run; a    *)
(* Go mutex hands itself to a goroutine that has waited for it.            *)
Fairness ==
    /\ WF_vars(LoadSnapshot) /\ WF_vars(PublishInitial)
    /\ WF_vars(TailConsume) /\ WF_vars(CheckCaughtUp) /\ WF_vars(Receive)
    /\ WF_vars(ReduceRejected) /\ WF_vars(ReduceUnchanged) /\ WF_vars(SaveAndInstall)
    /\ WF_vars(Ack) /\ WF_vars(Exit)
    /\ \A c \in Clients : SF_vars(Refresh(c)) /\ WF_vars(Answer(c))

FairSpec == Spec /\ Fairness

-----------------------------------------------------------------------------
(* Properties *)

(* Every snapshot on the snapshots topic is exactly the reduction of a     *)
(* prefix of the log, and of a prefix at most one event longer than what   *)
(* the group has committed: consume() saves before it acknowledges, and    *)
(* one event at a time (service.go:135-156).                               *)
SavedSnapshotsAreReductions ==
    \A s \in snapshots : \E n \in 0..Index : n <= committed + 1 /\ s = Reduction(n)

(* A committed offset never runs ahead of the saved state: whatever crash  *)
(* or lost answer falls between SaveSnapshot and Ack, the events up to the *)
(* committed offset are contained in a saved snapshot, so a restart loses  *)
(* none of them (service.go:142-152).  Nor is an event committed, and so   *)
(* skipped, that the reducer rejects at its place in the log, whatever it  *)
(* was reduced on after a restart (service.go:136-140).                    *)
CommittedEventsAreSaved ==
    committed > 0 => \E s \in snapshots, n \in committed..Index : s = Reduction(n)

(* The comment at service.go:81: publishing a snapshot again under the key *)
(* of its revision writes what is already there, because two saved         *)
(* snapshots of one revision are equal.                                    *)
RevisionKeyIsIdempotent ==
    \A s, t \in snapshots : s.revision = t.revision => s = t

(* Every saved snapshot passes validateSnapshot, so no restart is stopped  *)
(* by a snapshot the service saved itself (snapshot.go:81-118; an invalid  *)
(* one would end every LoadSnapshot at statestore/messagestore.go:156).    *)
SavedSnapshotsCanBeLoaded == \A s \in snapshots : ValidSnapshot(s)

(* Renewals and unsubscriptions through different hubs race on stale       *)
(* projections; still no saved snapshot has two live subscriptions for one *)
(* topic and callback (the coalescing at reducer.go:109-115).              *)
OneSubscriptionPerEndpoint == \A s \in snapshots : AtMostOneCurrent(s)

(* The barrier of serveSnapshot: an answer contains every event that was   *)
(* on the log when the request came in (service.go:237, Refresh).          *)
AnswersContainTheBarrier ==
    \A c \in Clients : request[c] = "reading" =>
        \E n \in asked[c]..Index : snapshot = Reduction(n)

(* No request is answered with a revision smaller than one answered        *)
(* before, across crashes and restarts (a snapshot is saved before it is   *)
(* installed, and the greatest saved one is loaded).                       *)
AnswersNeverRegress ==
    \A c \in Clients : request[c] = "reading" => served <= snapshot.revision

(* Whatever happens to the snapshot loader's group, no request is answered *)
(* with a state that is not on the snapshots topic: SaveSnapshot comes     *)
(* before the installation that Snapshot() reads (service.go:142-150).     *)
AnswersAreSaved == \A c \in Clients : request[c] = "reading" => snapshot \in snapshots

(* ADR 0010: a start selects the persisted snapshot with the greatest      *)
(* revision, so snapshot revisions remain monotonic.                       *)
LoadsGreatestRevision ==
    mode = "loaded" => \A s \in snapshots : s.revision <= snapshot.revision

(* What is left of the barrier when the Kafka client fetches ahead, as it  *)
(* does: an answer contains every event that was on the log when an        *)
(* earlier request came in, if that one was answered before this one came  *)
(* in.  Asking twice is a barrier (service.go:157, consumer.go:193-201).   *)
AnswersContainEarlierRequests ==
    \A c \in Clients : request[c] = "reading" =>
        \E n \in owed[c]..Index : snapshot = Reduction(n)

(* The consolidator, whether or not its Kafka client fetches ahead, keeps  *)
(* the promise that SnapshotBarrier states: canonical answers, revisions   *)
(* that never regress, and a barrier that may be one request late.         *)
Service == INSTANCE SnapshotBarrier WITH
    NotAsked <- Nobody,
    pending <- [c \in Clients |-> IF request[c] = "none" THEN Nobody ELSE asked[c]]

ImplementsService == Service!BarrierSpec

(* The process works on a snapshot older than what its group has committed, *)
(* which only an interrupted load can lead to (LoadsGreatestRevision).     *)
Behind == mode # "down" /\ committed <= Index /\ snapshot.revision < Reduction(committed).revision

(* Every event that reduces is eventually consolidated and committed, once *)
(* faults stop, unless a start has lost state.                             *)
EventsAreConsolidated ==
    \A n \in 1..MaxEvents : n <= Index ~> (n <= committed \/ Behind)

(* Every snapshot request ends: with an answer, a 503, or the end of the   *)
(* process, even when other requests and the tail loop compete for         *)
(* consumeMu.                                                              *)
RequestsEnd == \A c \in Clients : request[c] # "none" ~> request[c] = "none"

-----------------------------------------------------------------------------
(* The inductive invariant (without interrupted loads).  A saved snapshot  *)
(* may be one event ahead of the committed offset; the snapshot in memory  *)
(* may be one event ahead of the acknowledged one, and then reducing that  *)
(* event again changes nothing.                                            *)

DurableInv ==
    /\ ~loaderAtEnd
    /\ committed <= Index
    /\ SavedSnapshotsAreReductions
    /\ snapshots = {} => committed = 0 /\ served = 0
    /\ snapshots # {} => \E s \in snapshots : Reduction(committed).revision <= s.revision
    /\ snapshots # {} => \E s \in snapshots : served <= s.revision

MemoryInv ==
    mode # "down" =>
        /\ done <= Index /\ done <= received
        /\ received <= Len(log) /\ fetched <= Len(log)
        /\ \/ snapshot = Reduction(done)
           \/ done + 1 <= Index /\ snapshot = Reduction(done + 1)
        /\ \/ committed = done
           \/ ~active /\ committed = done + 1 /\ snapshot = Reduction(done + 1)
        /\ mode # "loaded" => snapshot \in snapshots
        /\ served <= snapshot.revision

ConsumeInv ==
    /\ mode = "down" => ~active
    /\ mode \in {"down", "loaded"} => \A c \in Clients : request[c] = "none"
    /\ pc = "idle" <=> holder = Nobody
    /\ pc # "idle" => active /\ mode \in {"starting", "running"}
    /\ active /\ pc \in {"idle", "check", "receive"} => done = received
    /\ pc = "receive" => received < Len(log)
    /\ pc \in {"reduce", "ack"} => done < received
    /\ pc = "ack" => done + 1 <= Index /\ snapshot = Reduction(done + 1)
    /\ holder \in Clients => request[holder] = "waiting"

(* c has been answered or is about to be: its last batch reached the end   *)
(* that came with it.                                                      *)
Refreshed(c) ==
    \/ request[c] = "reading"
    \/ holder = c /\ pc \in {"reduce", "ack"} /\ atEnd

(* What the client holds and has not handed out was fetched after every    *)
(* batch that ended a refresh, so it is as long as the log was when those  *)
(* requests came in.                                                       *)
BarrierInv ==
    /\ answered <= Len(log)
    /\ \A c \in Clients : asked[c] <= Len(log) /\ owed[c] <= answered
    /\ fetched > received =>
          answered <= fetched /\ \A c \in Clients : Refreshed(c) => asked[c] <= fetched
    /\ \A c \in Clients : Refreshed(c) => owed[c] <= received
    /\ \A c \in Clients : request[c] = "reading" => owed[c] <= done

ConsolidatorInv == ConsolidatorTypeOK /\ LogInv /\ DurableInv /\ MemoryInv /\ ConsumeInv

=============================================================================
