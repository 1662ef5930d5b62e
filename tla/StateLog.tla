------------------------------ MODULE StateLog ------------------------------
(***************************************************************************)
(* The state event log (one Kafka partition, so totally ordered) and the   *)
(* requests of the hubs that append to it.                                 *)
(*                                                                         *)
(* The handlers of app/resourcehub and the delivery workers decide on a    *)
(* projection that may lag behind the log, and the verification of a       *)
(* callback lies between the decision and the append.  So an event may be  *)
(* appended when it is admissible on any reduced prefix of the log, or on  *)
(* the view of a hub that reduced events a second time (HubProjection).    *)
(*                                                                         *)
(* canon is a history variable: canon[n + 1] is the snapshot that the      *)
(* first n events reduce to.  It stops growing at the first event the      *)
(* reducer rejects; nothing in the program reads it.                       *)
(***************************************************************************)
EXTENDS StateReducer, Sequences

CONSTANT MaxEvents  \* bound: events appended in one behaviour

ASSUME MaxEventsAssumption == MaxEvents \in Nat

VARIABLES log, canon

Index == Len(canon) - 1      \* events of the log that reduce
Reduction(n) == canon[n + 1] \* the state after the first n events

LogTypeOK ==
    /\ log \in Seq(Event)
    /\ canon \in Seq(Snapshot)
    /\ Len(canon) \in 1..(Len(log) + 1)

LogInit == log = <<>> /\ canon = <<EmptySnapshot>>

-----------------------------------------------------------------------------
(* What each producer of state events checks on its view. *)
registerTopic(view, e) ==
    /\ e.type = "TopicRegistered"
    /\ LET topic == view.topics[e.topic] IN
       \/ topic.status = "absent"
       \/ topic.status = "inactive" /\ topic.contentType = e.contentType

deregisterTopic(view, e) ==
    /\ e.type = "TopicDeregistered"
    /\ view.topics[e.topic].status = "active"

(* admitSubscription and validateSubscription; subscriptionVerified itself *)
(* appends without looking at the projection again.                        *)
subscriptionVerified(view, e) ==
    /\ e.type = "SubscriptionVerified"
    /\ view.topics[TopicOf[e.subscription]].status = "active"
    /\ \A o \in Subscriptions : SameEndpoint(e.subscription, o) => ~Current(view, o)

unsubscriptionVerified(view, e) ==
    /\ e.type = "SubscriptionUnsubscribed"
    /\ Current(view, e.subscription)

(* A delivery worker runs for an active subscription of an active topic    *)
(* and reports that it became stale or that the callback is gone.          *)
workerReports(view, e) ==
    /\ e.type \in {"SubscriptionStale", "SubscriptionRemoved"}
    /\ view.subscriptions[e.subscription].status = "active"
    /\ view.topics[TopicOf[e.subscription]].status = "active"

Admits(view, e) ==
    \/ registerTopic(view, e)
    \/ deregisterTopic(view, e)
    \/ subscriptionVerified(view, e)
    \/ unsubscriptionVerified(view, e)
    \/ workerReports(view, e)

(* RegisteredAt and the lease start in a subscription ID are clock values, *)
(* so no two registrations and no two verifications share one.             *)
Fresh(e) ==
    \A i \in 1..Len(log) :
        /\ e.type = "TopicRegistered" /\ log[i].type = "TopicRegistered"
               => log[i].registeredAt # e.registeredAt
        /\ e.type = "SubscriptionVerified" => log[i] # e

(* MessageStore.Append. *)
AppendRecord(e) ==
    /\ Len(log) < MaxEvents
    /\ Fresh(e)
    /\ log' = Append(log, e)
    /\ canon' = IF Index = Len(log) /\ ~Rejects(Reduction(Index), e)
                THEN Append(canon, Apply(Reduction(Index), e))
                ELSE canon

(* The views that hubs have or have had, of which views[j] are those after *)
(* receiving record j: a start takes the state after some m events,        *)
(* whatever its consumer has received, and reduces every record it then    *)
(* receives, also those the state contains.  A hub that rejects one goes   *)
(* down.                                                                   *)
HubViews ==
    LET views[j \in 0..Len(log)] ==
            {Reduction(m) : m \in 0..Index}
                \cup IF j = 0 THEN {}
                     ELSE {Apply(v, log[j]) : v \in {v \in views[j - 1] : ~Rejects(v, log[j])}}
    IN  UNION {views[j] : j \in 0..Len(log)}

(* A hub decides on its view, or on what was its view, and appends.  The   *)
(* bound of AppendRecord comes first, so that TLC does not look for events *)
(* when there is no room for one.                                          *)
AppendByReplayingHub ==
    /\ Len(log) < MaxEvents
    /\ LET all == HubViews IN
       \E e \in {e \in Event : \E v \in all : Admits(v, e)} : AppendRecord(e)

-----------------------------------------------------------------------------
(* What canon is. *)

CanonReducesTheLog ==
    /\ Reduction(0) = EmptySnapshot
    /\ \A n \in 1..Index :
          /\ ~Rejects(Reduction(n - 1), log[n])
          /\ Reduction(n) = Apply(Reduction(n - 1), log[n])
    /\ Index < Len(log) => Rejects(Reduction(Index), log[Index + 1])

(* Revisions grow along the log and identify the state. *)
CanonIsOrdered ==
    \A m, n \in 0..Index : m <= n =>
        /\ Reduction(m).revision <= Reduction(n).revision
        /\ Reduction(m).revision = Reduction(n).revision => Reduction(m) = Reduction(n)

CanonHasOneCurrent == \A n \in 0..Index : AtMostOneCurrent(Reduction(n))

CanonIsValid == \A n \in 0..Index : ValidSnapshot(Reduction(n))

LogInv ==
    LogTypeOK /\ CanonReducesTheLog /\ CanonIsOrdered /\ CanonHasOneCurrent /\ CanonIsValid

=============================================================================
