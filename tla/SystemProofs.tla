---------------------------- MODULE SystemProofs ----------------------------
(***************************************************************************)
(* The system of the consolidator and its hubs implements HubProjection,   *)
(* and has the properties proved of it, for every value of the constants.  *)
(***************************************************************************)
EXTENDS System, ConsolidatorProofs

HubPending == [h \in Hubs |-> IF stage[h] = "asked" THEN since[h] ELSE Nobody]

(* What the consolidator does leaves the log to the hubs. *)
LEMMA ConsolidatesSteps ==
    ASSUME Consolidates
    PROVE  Next /\ UNCHANGED <<log, canon, hub, stage, connections>>
<1>1. Next
  BY DEF Consolidates, Next
<1>2. UNCHANGED <<log, canon>>
  BY Zenon DEF Consolidates, LoadSnapshot, LoadInterrupted, PublishInitial, TailConsume, CheckCaughtUp,
      BackgroundFetch, Receive, ReduceRejected, ReduceUnchanged, SaveAndInstall, SaveFails, Ack,
      AckFails, ConsumerError, ContextOver, Request, Refresh, Answer, Exit, Crash, Terminate
<1>3. QED
  BY <1>1, <1>2, Zenon DEF Consolidates

(* Answers never regress, so what is served only grows. *)
LEMMA ServedGrows ==
    ASSUME ConsolidatorInv, [Next]_vars
    PROVE  served <= served'
<1> USE Facts
<1>1. served \in Nat /\ snapshot.revision \in Nat
  BY DEF ConsolidatorTypeOK, Snapshot
<1>2. CASE \E c \in Clients : Answer(c)
  BY <1>1, <1>2 DEF Answer
<1>3. CASE ~\E c \in Clients : Answer(c)
  <2>1. UNCHANGED served
    BY <1>3, Zenon DEF Next, vars, requests, LoadSnapshot, LoadInterrupted, PublishInitial, TailConsume, CheckCaughtUp,
      BackgroundFetch, Receive, ReduceRejected, ReduceUnchanged, SaveAndInstall, SaveFails, Ack,
      AckFails, ConsumerError, ContextOver, Request, Refresh, Exit, Crash, Terminate
  <2>2. QED
    BY <1>1, <2>1
<1>4. QED
  BY <1>2, <1>3

(* The definitions about the log are the same for the hubs. *)
LEMMA HubEvents == Hub!Event = Event /\ Hub!EmptySnapshot = EmptySnapshot
BY Zenon DEF Hub!Event, Hub!TopicEvent, Hub!SubscriptionEvent, Hub!RemovalTypes,
       Event, TopicEvent, SubscriptionEvent, RemovalTypes, Hub!EmptySnapshot, EmptySnapshot

LEMMA HubReducer ==
    ASSUME NEW s, NEW e
    PROVE  /\ Hub!Rejects(s, e) <=> Rejects(s, e)
           /\ Hub!Apply(s, e) = Apply(s, e)
<1>1. Hub!Unchanged(s, e) <=> Unchanged(s, e)
  BY Zenon DEF Hub!Unchanged, Hub!Coalesces, Hub!SameTopic, Hub!SameEndpoint, Hub!Current,
         Hub!RemovalTypes, Unchanged, Coalesces, SameTopic, SameEndpoint, Current, RemovalTypes
<1>2. \A r : Hub!SubscriptionAfter(e, r) = SubscriptionAfter(e, r)
  BY DEF Hub!SubscriptionAfter, Hub!RemovalTypes, SubscriptionAfter, RemovalTypes
<1>3. \A t, r : Hub!TopicAfter(t, e, r) = TopicAfter(t, e, r)
  BY DEF Hub!TopicAfter, TopicAfter
<1>4. Hub!Effect(s, e) = Effect(s, e)
  BY <1>2, <1>3, Zenon DEF Hub!Effect, Effect
<1>5. Hub!Rejects(s, e) <=> Rejects(s, e)
  BY Zenon DEF Hub!Rejects, Hub!RemovalTypes, Rejects, RemovalTypes
<1>6. QED
  BY <1>1, <1>4, <1>5, Zenon DEF Hub!Apply, Apply

LEMMA HubLog == Hub!Index = Index /\ \A n : Hub!Reduction(n) = Reduction(n)
BY DEF Hub!Index, Hub!Reduction, Index, Reduction

(* A hub appends one event that its view admits. *)
LEMMA HubAppend ==
    Hub!AppendByReplayingHub => \E e \in Event : AppendRecord(e)
<1> SUFFICES ASSUME NEW e \in Hub!Event, Hub!AppendRecord(e)
             PROVE  \E d \in Event : AppendRecord(d)
  BY Zenon DEF Hub!AppendByReplayingHub
<1>1. AppendRecord(e)
  BY HubLog, HubReducer, Zenon DEF Hub!AppendRecord, Hub!Fresh, AppendRecord, Fresh
<1>2. QED
  BY <1>1, HubEvents, Zenon

-----------------------------------------------------------------------------
(* The invariant of the whole. *)

(* The consolidator's part of a step is a step of its own, or an append. *)
LEMMA SystemStepInv ==
    ASSUME ~InterruptedLoads, ConsolidatorInv, BarrierInv, [SystemNext]_systemVars
    PROVE  ConsolidatorInv' /\ BarrierInv' /\ served <= served'
<1>1. CASE [Next]_vars
  BY <1>1, StepInv, BarrierStep, ServedGrows
<1>2. CASE HubAppends
  <2>1. PICK e \in Event : AppendRecord(e)
    BY <1>2, HubAppend, Zenon DEF HubAppends
  <2>2. served' = served /\ served \in Nat
    BY <1>2, Facts, Zenon DEF HubAppends, requests, ConsolidatorTypeOK
  <2>3. served <= served'
    BY <2>2
  <2>4. HeldInv /\ \A c \in Clients : Covered(c)
    BY BarrierParts, Zenon
  <2>5. HeldInv' /\ \A c \in Clients : Covered(c)'
    BY <1>2, <2>1, <2>4, BarrierAppend, Zenon DEF HubAppends
  <2>6. BarrierInv'
    BY <2>5, Zenon DEF BarrierInv, HeldInv, Covered
  <2>7. ConsolidatorInv'
    BY <1>2, <2>1, AppendEventInv, Zenon DEF HubAppends
  <2>8. QED
    BY <2>3, <2>6, <2>7, Zenon
<1>3. CASE UNCHANGED systemVars
  BY <1>1, <1>3, Zenon DEF systemVars
<1>4. CASE Consolidates
  BY <1>1, <1>4, ConsolidatesSteps, Zenon
<1>5. ASSUME NEW h \in Hubs, Asks(h) \/ Obtains(h) \/ GivesUp(h) \/ HubFails(h) \/ HubRuns(h)
      PROVE  [Next]_vars
  <2>1. CASE \E c \in Clients : Request(c) \/ Answer(c)
    BY <2>1, Zenon DEF Next
  <2>2. QED
    BY <1>5, <2>1, Zenon DEF Asks, Obtains, GivesUp, HubFails, HubRuns
<1>6. QED
  BY <1>1, <1>2, <1>3, <1>4, <1>5, Zenon DEF SystemNext

(* A hub that stops waiting has no connection any more. *)
LEMMA LeaveInv ==
    ASSUME LinkInv, NEW h \in Hubs, UNCHANGED requests, UNCHANGED <<since, taken>>,
           connection' = [connection EXCEPT ![h] = Nobody],
           NEW s \in Hub!Stages, stage' = [stage EXCEPT ![h] = s]
    PROVE  LinkInv'
BY ConsolidatorConstants, Zenon DEF LinkInv, requests

(* A hub that does not wait, and goes on. *)
LEMMA GoOnInv ==
    ASSUME LinkInv, NEW h \in Hubs, UNCHANGED <<requests, connections>>, stage[h] # "asked",
           NEW s \in Hub!Stages, stage' = [stage EXCEPT ![h] = s]
    PROVE  LinkInv'
BY Zenon DEF LinkInv, requests, connections

LEMMA HubRunsInv ==
    ASSUME LinkInv, NEW h \in Hubs, HubRuns(h)
    PROVE  LinkInv'
<1>1. UNCHANGED <<requests, connections>>
  BY Zenon DEF HubRuns, vars
<1>2. stage[h] # "asked" /\ (UNCHANGED stage \/ \E s \in Hub!Stages : stage' = [stage EXCEPT ![h] = s])
  BY Zenon DEF HubRuns, Hub!Open, Hub!Buffer, Hub!CheckBuffer, Hub!ReceiveSnapshot, Hub!Receive,
         Hub!Reduce, Hub!Reduced, Hub!Ack, Hub!Install, Hub!Goto, Hub!Down, Hub!Stages
<1>3. CASE UNCHANGED stage
  BY <1>1, <1>3, Zenon DEF LinkInv, requests, connections
<1>4. QED
  BY <1>1, <1>2, <1>3, GoOnInv, Zenon

LEMMA AsksInv ==
    ASSUME ConsolidatorInv, LinkInv, NEW h \in Hubs, Asks(h)
    PROVE  LinkInv'
<1>1. /\ stage' = [stage EXCEPT ![h] = "asked"] /\ "asked" \in Hub!Stages
      /\ since' = [since EXCEPT ![h] = Len(log)] /\ Len(log) \in Nat
      /\ taken' = taken /\ served' = served
  BY Facts, Zenon DEF Asks, Hub!Stages, Request, vars, requests
<1>2. connection[h] \notin Clients
  BY Zenon DEF LinkInv, Asks
<1>3. CASE UNCHANGED <<vars, connection>>
  BY <1>1, <1>2, <1>3, Zenon DEF LinkInv, vars, requests
<1>4. ASSUME NEW c \in Clients, Free(c), Request(c), connection' = [connection EXCEPT ![h] = c]
      PROVE  LinkInv'
  <2>1. \A g \in Hubs : connection[g] # c
    BY <1>4, Zenon DEF Free
  <2>2. ASSUME NEW g \in Hubs, connection'[g] \in Clients
        PROVE  /\ stage'[g] = "asked"
               /\ \A k \in Hubs : connection'[k] = connection'[g] => k = g
    <3>1. CASE g = h
      BY <1>1, <1>4, <2>1, <3>1, Zenon DEF LinkInv
    <3>2. CASE g # h
      BY <1>1, <1>4, <2>1, <2>2, <3>2, Zenon DEF LinkInv
    <3>3. QED
      BY <3>1, <3>2, Zenon
  <2>3. QED
    BY <1>1, <1>4, <2>2, Zenon DEF LinkInv
<1>5. QED
  BY <1>3, <1>4, Zenon DEF Asks

LEMMA ObtainsInv ==
    ASSUME ConsolidatorInv, LinkInv, NEW h \in Hubs, Obtains(h)
    PROVE  LinkInv'
<1> DEFINE c == connection[h]
<1>1. /\ stage' = [stage EXCEPT ![h] = "answered"] /\ "answered" \in Hub!Stages
      /\ connection' = [connection EXCEPT ![h] = Nobody] /\ Nobody \notin Clients
      /\ UNCHANGED since /\ c \in Clients
  BY ConsolidatorConstants, Zenon DEF Obtains, Hub!Stages
<1>2. taken' \in Nat /\ taken' <= served'
  <2>1. snapshot.revision \in Nat /\ served \in Nat
    BY Facts, Zenon DEF ConsolidatorTypeOK, Snapshot
  <2>2. taken \in Nat /\ taken <= served
    BY Zenon DEF LinkInv
  <2>3. /\ taken' = IF taken < snapshot.revision THEN snapshot.revision ELSE taken
        /\ served' = IF served < snapshot.revision THEN snapshot.revision ELSE served
    BY Zenon DEF Obtains, Answer
  <2>4. QED
    BY <2>1, <2>2, <2>3
<1>3. ASSUME NEW g \in Hubs, connection'[g] \in Clients
      PROVE  /\ stage'[g] = "asked"
             /\ \A k \in Hubs : connection'[k] = connection'[g] => k = g
  BY <1>1, <1>3, Zenon DEF LinkInv
<1>4. QED
  BY <1>1, <1>2, <1>3, Zenon DEF LinkInv

LEMMA ConsolidatesLinkInv ==
    ASSUME ConsolidatorInv, LinkInv, Consolidates, served <= served', served' \in Nat
    PROVE  LinkInv'
<1>1. UNCHANGED <<stage, connection, since, taken>>
  BY ConsolidatesSteps, Zenon DEF connections
<1>2. served \in Nat
  BY Facts, Zenon DEF ConsolidatorTypeOK
<1>3. taken <= served'
  BY <1>2 DEF LinkInv
<1>4. QED
  BY <1>1, <1>3, Zenon DEF LinkInv

LEMMA SystemInvStep ==
    ASSUME ~InterruptedLoads, SystemInv, [SystemNext]_systemVars
    PROVE  SystemInv'
<1>1. ConsolidatorInv /\ BarrierInv /\ LinkInv
  BY DEF SystemInv
<1>2. ConsolidatorInv' /\ BarrierInv' /\ served <= served'
  BY <1>1, SystemStepInv
<1> SUFFICES LinkInv'
  BY <1>2 DEF SystemInv
<1>3. CASE UNCHANGED systemVars
  BY <1>1, <1>3, Zenon DEF systemVars, connections, vars, requests, LinkInv
<1>4. CASE HubAppends
  BY <1>1, <1>4, Zenon DEF HubAppends, connections, requests, LinkInv
<1>5. CASE Consolidates
  <2>1. served' \in Nat
    BY <1>2, Zenon DEF ConsolidatorInv, ConsolidatorTypeOK
  <2>2. QED
    BY <1>1, <1>2, <1>5, <2>1, ConsolidatesLinkInv
<1>6. ASSUME NEW h \in Hubs, Asks(h) \/ Obtains(h) \/ GivesUp(h) \/ HubFails(h) \/ HubRuns(h)
      PROVE  LinkInv'
  <2>1. CASE Asks(h) \/ Obtains(h) \/ HubRuns(h)
    BY <1>1, <2>1, AsksInv, ObtainsInv, HubRunsInv, Zenon
  <2>2. CASE GivesUp(h) \/ HubFails(h)
    <3>1. /\ connection' = [connection EXCEPT ![h] = Nobody]
          /\ stage' = [stage EXCEPT ![h] = "down"] /\ "down" \in Hub!Stages
          /\ UNCHANGED <<since, taken>> /\ UNCHANGED requests
      BY <2>2, Zenon DEF GivesUp, HubFails, Hub!Down, Hub!Goto, Hub!Stages, vars
    <3>2. QED
      BY <1>1, <3>1, LeaveInv, Zenon
  <2>3. QED
    BY <1>6, <2>1, <2>2, Zenon
<1>7. QED
  BY <1>3, <1>4, <1>5, <1>6, Zenon DEF SystemNext

-----------------------------------------------------------------------------
(* The steps of the whole are steps of the hubs. *)

(* What a hub waits for changes only with its stage and its request. *)
LEMMA HubStutters ==
    ASSUME UNCHANGED <<log, canon, hub, stage, connections>>
    PROVE  UNCHANGED Hub!hubVars
BY Zenon DEF Hub!hubVars, Hub!serviceVars, Hub!consumers, Hub!projections, hub, connections

(* A hub that is not waiting has nothing pending. *)
LEMMA AsksRefines ==
    ASSUME ConsolidatorInv, LinkInv, NEW h \in Hubs, Asks(h)
    PROVE  Hub!RequestSnapshot(h)
<1>1. UNCHANGED <<log, canon, hub, taken>> /\ stage[h] = "buffered"
  BY Zenon DEF Asks, Request, vars
<1>2. HubPending[h] = Nobody /\ HubPending' = [HubPending EXCEPT ![h] = Len(log)]
  BY Zenon DEF HubPending, Asks, LinkInv
<1>3. Hub!Ask(h)
  BY <1>1, <1>2, Zenon DEF Hub!Ask, HubPending
<1>4. QED
  BY <1>1, <1>3, Zenon DEF Hub!RequestSnapshot, Hub!Goto, Hub!consumers, Hub!projections, hub, Asks

(* The answer is the state after as many events as possible. *)
LEMMA ObtainedState ==
    ASSUME ConsolidatorInv, BarrierInv, LinkInv, NEW h \in Hubs, Obtains(h)
    PROVE  \E n \in 0..Index :
              /\ snapshot = Reduction(n) /\ owed[connection[h]] <= n
              /\ barrier' = [barrier EXCEPT ![h] = n]
              /\ joined' = [joined EXCEPT ![h] = since[h] <= n \/ acked[h] <= n]
<1> DEFINE c == connection[h]
<1>1. c \in Clients /\ request[c] = "reading" /\ Index \in Nat
  BY Facts, Zenon DEF Obtains, Answer
<1>2. PICK m \in Contained : owed[c] <= m /\ owed[c] \in Nat
  BY <1>1, ReadState, Zenon DEF Contained
<1>3. PICK n \in Contained \cup {0} :
         /\ \A k \in Contained : k <= n
         /\ barrier' = [barrier EXCEPT ![h] = n]
         /\ joined' = [joined EXCEPT ![h] = since[h] <= n \/ acked[h] <= n]
  BY Zenon DEF Obtains
<1>4. m \in Nat /\ n \in Nat /\ m <= n
  BY <1>1, <1>2, <1>3, SMTT(30) DEF Contained
<1>5. owed[c] <= n
  BY <1>2, <1>4
<1>6. n \in Contained
  <2>1. CASE n = 0
    <3>1. m = n
      BY <1>4, <2>1
    <3>2. QED
      BY <1>2, <3>1, Zenon
  <2>2. QED
    BY <1>3, <2>1, Zenon
<1>7. n \in 0..Index /\ snapshot = Reduction(n)
  BY <1>6, Zenon DEF Contained
<1>8. QED
  BY <1>3, <1>5, <1>7, Zenon

(* It is one that the hub relies on. *)
LEMMA ObtainsRefines ==
    ASSUME ConsolidatorInv, BarrierInv, LinkInv, NEW h \in Hubs, Obtains(h)
    PROVE  Hub!SnapshotAnswered(h)
<1>1. /\ stage[h] = "asked" /\ since[h] \in Nat /\ connection[h] \in Clients
      /\ request[connection[h]] = "reading"
  BY Zenon DEF Obtains, Answer, LinkInv
<1>2. PICK n \in 0..Index :
         /\ snapshot = Reduction(n)
         /\ barrier' = [barrier EXCEPT ![h] = n]
         /\ joined' = [joined EXCEPT ![h] = since[h] <= n \/ acked[h] <= n]
  BY ObtainedState, Zenon
<1>3. served <= snapshot.revision
  BY <1>1, ReadState, Zenon
<1>4. Reduction(n).revision >= taken /\ taken' = Reduction(n).revision
  <2>1. snapshot.revision \in Nat /\ served \in Nat /\ taken \in Nat /\ taken <= served
    BY Facts, Zenon DEF ConsolidatorTypeOK, Snapshot, LinkInv
  <2>2. taken' = IF taken < snapshot.revision THEN snapshot.revision ELSE taken
    BY Zenon DEF Obtains
  <2>3. QED
    BY <1>2, <1>3, <2>1, <2>2
<1>5. HubPending[h] = since[h] /\ since[h] # Nobody
  BY <1>1, ConsolidatorConstants, Zenon DEF HubPending
<1>6. HubPending' = [HubPending EXCEPT ![h] = Nobody]
  BY Zenon DEF HubPending, Obtains, LinkInv
<1>7. UNCHANGED <<log, canon>>
  BY Zenon DEF Obtains, Answer
<1>8. Hub!AnswerWith(h, n)
  BY <1>2, <1>4, <1>5, <1>6, <1>7, HubLog, Zenon DEF Hub!AnswerWith, HubPending
<1>9. next' = [next EXCEPT ![h] = Hub!Reduction(n)]
  BY <1>2, HubLog, Zenon DEF Obtains
<1>10. joined' = [joined EXCEPT ![h] = HubPending[h] <= n \/ acked[h] <= n]
  BY <1>2, <1>5, Zenon
<1>11. \E m \in 0..Hub!Index :
          /\ Hub!AnswerWith(h, m)
          /\ next' = [next EXCEPT ![h] = Hub!Reduction(m)]
          /\ barrier' = [barrier EXCEPT ![h] = m]
          /\ joined' = [joined EXCEPT ![h] = HubPending[h] <= m \/ acked[h] <= m]
  BY <1>2, <1>8, <1>9, <1>10, HubLog, Zenon
<1>12. QED
  BY <1>1, <1>11, Zenon DEF Hub!SnapshotAnswered, Hub!Goto, Hub!consumers, HubPending, Obtains

(* One that stops waiting withdraws its request. *)
LEMMA GivesUpRefines ==
    ASSUME LinkInv, NEW h \in Hubs, GivesUp(h)
    PROVE  Hub!Refused(h)
<1>1. HubPending' = [g \in Hubs |-> IF g \in {h} THEN Nobody ELSE HubPending[g]]
  BY Zenon DEF HubPending, GivesUp, Hub!Down, Hub!Goto, LinkInv
<1>2. Hub!Refuse({h})
  BY <1>1, Zenon DEF Hub!Refuse, HubPending, GivesUp, vars
<1>3. QED
  BY <1>2, Zenon DEF Hub!Refused, GivesUp

LEMMA HubAppendsRefines ==
    ASSUME HubAppends
    PROVE  Hub!HubNext
<1>1. Hub!AppendByReplayingHub
  BY Zenon DEF HubAppends
<1>2. UNCHANGED <<HubPending, taken, group, stage, Hub!consumers, Hub!projections, hubFaults>>
  BY Zenon DEF HubAppends, hub, connections, HubPending, Hub!consumers, Hub!projections
<1>3. QED
  BY <1>1, <1>2, Zenon DEF Hub!HubNext, HubPending

LEMMA SystemStepRefines ==
    ASSUME SystemInv, [SystemNext]_systemVars
    PROVE  [Hub!HubNext]_(Hub!hubVars)
<1>1. ConsolidatorInv /\ BarrierInv /\ LinkInv
  BY DEF SystemInv
<1>2. CASE UNCHANGED systemVars
  BY <1>2, HubStutters, Zenon DEF systemVars, vars
<1>3. CASE HubAppends
  BY <1>3, HubAppendsRefines, Zenon
<1>4. CASE Consolidates
  BY <1>4, ConsolidatesSteps, HubStutters, Zenon
<1>5. ASSUME NEW h \in Hubs, Asks(h) \/ Obtains(h) \/ GivesUp(h) \/ HubFails(h) \/ HubRuns(h)
      PROVE  Hub!HubNext
  <2>1. CASE Asks(h)
    BY <1>1, <2>1, AsksRefines, Zenon DEF Hub!HubNext
  <2>2. CASE Obtains(h)
    BY <1>1, <2>2, ObtainsRefines, Zenon DEF Hub!HubNext
  <2>3. CASE GivesUp(h)
    BY <1>1, <2>3, GivesUpRefines, Zenon DEF Hub!HubNext
  <2>4. CASE HubFails(h)
    BY <2>4, Zenon DEF HubFails, Hub!HubNext
  <2>5. CASE HubRuns(h)
    BY <2>5, Zenon DEF HubRuns, Hub!HubNext
  <2>6. QED
    BY <1>5, <2>1, <2>2, <2>3, <2>4, <2>5, Zenon
<1>6. QED
  BY <1>2, <1>3, <1>4, <1>5, Zenon DEF SystemNext

LEMMA SystemInitInv == SystemInit => SystemInv /\ Hub!HubInit
<1> SUFFICES ASSUME SystemInit PROVE SystemInv /\ Hub!HubInit
  OBVIOUS
<1>1. ConsolidatorInv
  BY InitInv, Zenon DEF SystemInit
<1>2. BarrierInv
  BY BarrierInit, Zenon DEF SystemInit
<1>3. LinkInv
  BY ConsolidatorConstants, SMTT(30) DEF SystemInit, Init, LinkInv, Hub!Stages
<1>4. QED
  BY <1>1, <1>2, <1>3 DEF SystemInv, SystemInit

(* The hubs and the consolidator together (app/runtime/hub.go,             *)
(* hubstate/projection.go:33-110 and consolidator/service.go:56-252): what *)
(* the hubs see of a consolidator that crashes, restarts, fetches ahead    *)
(* and loses or delays answers is the service that HubProjection takes for *)
(* granted, although the hubs append what their own, possibly older or     *)
(* replayed, views admit.                                                  *)
THEOREM Composition ==
    ASSUME ~InterruptedLoads
    PROVE  SystemSpec => []SystemInv /\ Hub!HubSpec
<1>1. SystemInit => SystemInv /\ Hub!HubInit
  BY SystemInitInv, Zenon
<1>2. SystemInv /\ [SystemNext]_systemVars => SystemInv'
  BY SystemInvStep, Zenon
<1>3. SystemInv /\ [SystemNext]_systemVars => [Hub!HubNext]_(Hub!hubVars)
  BY SystemStepRefines, Zenon
<1>4. QED
  BY <1>1, <1>2, <1>3, PTL DEF SystemSpec, Hub!HubSpec

(* The constants are those HubProjection asks for. *)
LEMMA HubAssumptions ==
    ASSUME SystemConstants
    PROVE  /\ BufferMax \in Nat \ {0} /\ ShortFetches \in BOOLEAN
           /\ MaxHubFaults \in Nat /\ Unset \notin Nat
           /\ Nobody \notin Nat /\ MaxEvents \in Nat
           /\ TopicOf \in [Subscriptions -> Topics] /\ CallbackOf \in [Subscriptions -> Callbacks]
BY ConsolidatorConstants, MaxEventsAssumption, StaticFields, Zenon DEF SystemConstants

(* A hub that starts behind an answered request starts without a gap: the  *)
(* first refresh after a fetch that was behind uses the fetch up           *)
(* (service.go:118-166, consumer.go:193-201).                              *)
THEOREM SystemClosesGaps ==
    ASSUME SystemConstants, ~InterruptedLoads
    PROVE  SystemSpec => EarlierAnswersCloseTheGap
<1> DEFINE Closed == \A h \in Hubs :
                        /\ stage[h] = "asked" /\ stage'[h] = "answered"
                        /\ acked[h] <= owed[connection[h]]
                        => joined'[h]
<1>1. SystemInv /\ Hub!HubInv /\ [SystemNext]_systemVars => [Closed]_systemVars
  <2> SUFFICES ASSUME SystemInv, Hub!HubInv, SystemNext, NEW h \in Hubs,
                      stage[h] = "asked", stage'[h] = "answered",
                      acked[h] <= owed[connection[h]]
               PROVE  joined'[h]
    BY Zenon
  <2>1. ConsolidatorInv /\ BarrierInv /\ LinkInv
    BY Zenon DEF SystemInv
  <2>2. Obtains(h)
    <3>1. ASSUME NEW g \in Hubs, Asks(g) \/ GivesUp(g) \/ HubFails(g) \/ HubRuns(g)
          PROVE  FALSE
      BY <2>1, <3>1, Zenon DEF LinkInv, Asks, GivesUp, HubFails, HubRuns, Hub!Down, Hub!Goto,
         Hub!Open, Hub!Buffer, Hub!CheckBuffer, Hub!ReceiveSnapshot, Hub!Receive, Hub!Reduce,
         Hub!Reduced, Hub!Ack, Hub!Install
    <3>2. ASSUME NEW g \in Hubs, Obtains(g), g # h
          PROVE  FALSE
      BY <2>1, <3>2, Zenon DEF LinkInv, Obtains
    <3>3. ~(HubAppends \/ Consolidates)
      BY ConsolidatesSteps, Zenon DEF HubAppends
    <3>4. QED
      BY <3>1, <3>2, <3>3, Zenon DEF SystemNext
  <2>3. PICK n \in 0..Index :
           /\ owed[connection[h]] <= n
           /\ joined' = [joined EXCEPT ![h] = since[h] <= n \/ acked[h] <= n]
    BY <2>1, <2>2, ObtainedState, Zenon
  <2>4. owed[connection[h]] \in Nat /\ Index \in Nat
    BY <2>1, <2>2, Facts, Zenon DEF ConsolidatorTypeOK, Obtains
  <2>5. acked[h] \in Nat /\ joined \in [Hubs -> BOOLEAN]
    BY Zenon DEF Hub!HubInv, Hub!HubTypeOK
  <2>6. acked[h] <= n
    BY <2>3, <2>4, <2>5
  <2>7. QED
    BY <2>3, <2>5, <2>6, Zenon
<1>2. Hub!HubSpec => []Hub!HubInv
  BY HubAssumptions, Hub!HubInvariance, Zenon
<1>3. QED
  BY <1>1, <1>2, Composition, PTL DEF SystemSpec, EarlierAnswersCloseTheGap

(* No gap between the snapshot that the consolidator really answers and    *)
(* the events of a hub (hubstate/projection.go:33-110).                    *)
THEOREM SystemNoStartupGap ==
    ASSUME SystemConstants, ~InterruptedLoads
    PROVE  SystemSpec => []Hub!TopicsConverge
<1>1. Hub!HubSpec => []Hub!TopicsConverge
  BY HubAssumptions, Hub!NoStartupGap, Zenon
<1>2. QED
  BY <1>1, Composition, PTL

(* No hub delivers twice to one endpoint of a topic, whatever snapshot it  *)
(* has obtained and whatever it has reduced again (reducer.go:109-115).    *)
THEOREM SystemOneSubscription ==
    ASSUME SystemConstants, ~InterruptedLoads
    PROVE  SystemSpec => []Hub!ViewsHaveOneSubscription
<1>1. Hub!HubSpec => []Hub!ViewsHaveOneSubscription
  BY HubAssumptions, Hub!HubOneSubscription
<1>2. QED
  BY <1>1, Composition, PTL

(* In the composed system a settled hub has ended and suspended the        *)
(* subscriptions that the log has, and serves an endpoint wherever the log *)
(* has one live (projection.go:72-116, reducer.go:109-115).                *)
THEOREM SystemSubscriptions ==
    ASSUME SystemConstants, ~InterruptedLoads
    PROVE  SystemSpec => []Hub!SubscriptionsAgree
<1>1. Hub!HubSpec => []Hub!SubscriptionsAgree
  BY HubAssumptions, Hub!SubscriptionAgreement, Zenon
<1>2. QED
  BY <1>1, Composition, PTL

(* A hub's view never changes without its revision growing, so a manager   *)
(* that compares revisions misses no change (delivery/manager.go).         *)
THEOREM SystemRevisions ==
    ASSUME SystemConstants, ~InterruptedLoads
    PROVE  SystemSpec => Hub!ReconcileSeesEveryChange
<1>1. Hub!HubSpec => Hub!ReconcileSeesEveryChange
  BY HubAssumptions, Hub!RevisionsRevealChanges, Zenon
<1>2. QED
  BY <1>1, Composition, PTL

(* Also with the hubs that are really there, and the events their views    *)
(* admit, no committed event is lost (service.go:142-152), and no hub has  *)
(* obtained a state that a restart of the consolidator forgets.            *)
THEOREM SystemLosesNothing ==
    ASSUME ~InterruptedLoads
    PROVE  SystemSpec => [](CommittedEventsAreSaved /\ ObtainedStateIsSaved)
<1>1. SystemInv => CommittedEventsAreSaved
  BY CommittedIsSaved, Zenon DEF SystemInv
<1>2. SystemInv => ObtainedStateIsSaved
  <2> SUFFICES ASSUME SystemInv, taken > 0
               PROVE  \E s \in snapshots : taken <= s.revision
    BY Zenon DEF ObtainedStateIsSaved
  <2>1. taken \in Nat /\ taken <= served /\ ConsolidatorInv
    BY Zenon DEF SystemInv, LinkInv
  <2>2. served \in Nat /\ served # 0
    BY <2>1, Facts, SMTT(30)
  <2>3. PICK s \in snapshots : served <= s.revision
    BY <2>1, <2>2, Facts, Zenon DEF DurableInv
  <2>4. s.revision \in Nat
    BY <2>1, Facts, Zenon DEF ConsolidatorTypeOK, Snapshot
  <2>5. QED
    BY <2>1, <2>2, <2>3, <2>4, SMTT(30)
<1>3. QED
  BY <1>1, <1>2, Composition, PTL

=============================================================================
