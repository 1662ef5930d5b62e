---------------------------- MODULE HubProjection ---------------------------
(***************************************************************************)
(* The hubs' projections of the state: app/hubstate/projection.go and the  *)
(* loop of app/runtime/hub.go that drives it, on top of the service the    *)
(* consolidator provides (SnapshotService, which Consolidator implements). *)
(* An answer need not contain what was on the log when it was asked for,   *)
(* so what a start guarantees is said of the hubs whose answer does        *)
(* (joined).                                                               *)
(*                                                                         *)
(* A start establishes the position of the hub's consumer group, buffers   *)
(* what it has not acknowledged, asks for a barrier snapshot, reduces the  *)
(* buffer on top of it, acknowledges and only then serves.  A running hub  *)
(* repeats receive, reduce, acknowledge, install.  Events are appended,    *)
(* other hubs start and processes die between any two of these steps.      *)
(***************************************************************************)
EXTENDS SnapshotService

CONSTANTS
    BufferMax,    \* records one receive returns at most, at startup or later
    ShortFetches, \* a fetch may end before the log does
    MaxFaults,    \* bound: faults in one behaviour
    Unset         \* a group without a committed offset

ASSUME HubConstants ==
    /\ BufferMax \in Nat \ {0}
    /\ ShortFetches \in BOOLEAN
    /\ MaxFaults \in Nat
    /\ Unset \notin Nat

VARIABLES
    group,    \* the offset each hub's group has committed
    stage,    \* what each hub does next
    acked,    \* events acknowledged by, or before the start of, this consumer
    position, \* events received by this consumer
    cursor,   \* events of the batch that are reduced or, later, acknowledged
    next,     \* the snapshot that was answered, or that is being reduced
    view,     \* Projection.snapshot
    barrier,  \* history: events contained in the barrier snapshot
    joined,   \* history: the snapshot reaches the consumer's first event
    faults

consumers == <<acked, position, cursor>>
projections == <<next, view, barrier, joined>>
hubVars == <<serviceVars, group, stage, consumers, projections, faults>>

Stages == {"down", "opened", "buffering", "buffered", "asked", "answered",
           "reducing", "acking", "ready"}

HubTypeOK ==
    /\ ServiceTypeOK
    /\ group \in [Clients -> Nat \cup {Unset}]
    /\ stage \in [Clients -> Stages]
    /\ acked \in [Clients -> Nat] /\ position \in [Clients -> Nat]
    /\ cursor \in [Clients -> Nat]
    /\ next \in [Clients -> Snapshot] /\ view \in [Clients -> Snapshot]
    /\ barrier \in [Clients -> Nat] /\ joined \in [Clients -> BOOLEAN]
    /\ faults \in 0..MaxFaults

HubInit ==
    /\ ServiceInit
    /\ group = [h \in Clients |-> Unset]
    /\ stage = [h \in Clients |-> "down"]
    /\ acked = [h \in Clients |-> 0] /\ position = [h \in Clients |-> 0]
    /\ cursor = [h \in Clients |-> 0]
    /\ next = [h \in Clients |-> EmptySnapshot] /\ view = [h \in Clients |-> EmptySnapshot]
    /\ barrier = [h \in Clients |-> 0] /\ joined = [h \in Clients |-> FALSE]
    /\ faults = 0

Fault == faults < MaxFaults /\ faults' = faults + 1

Goto(h, s) == stage' = [stage EXCEPT ![h] = s]

(* The process ends: an error of Start or of the consume loop, or a crash. *)
Down(h) ==
    /\ Goto(h, "down")
    /\ acked' = [acked EXCEPT ![h] = 0] /\ position' = [position EXCEPT ![h] = 0]
    /\ cursor' = [cursor EXCEPT ![h] = 0]
    /\ next' = [next EXCEPT ![h] = EmptySnapshot]
    /\ view' = [view EXCEPT ![h] = EmptySnapshot]
    /\ barrier' = [barrier EXCEPT ![h] = 0] /\ joined' = [joined EXCEPT ![h] = FALSE]

(* Receive returns records up to some later position. *)
ReceiveUpTo(h, p) ==
    LET last == IF position[h] + BufferMax < Len(log) THEN position[h] + BufferMax ELSE Len(log)
    IN /\ p \in position[h] + 1 .. last
       /\ ShortFetches \/ p = last
       /\ position' = [position EXCEPT ![h] = p]

-----------------------------------------------------------------------------
(* Start *)

(* Mutant of StartOffset: the latest offset is taken for the last record. *)
StartAtLastRecord(h) == IF group[h] = Unset THEN Len(log) - 1 ELSE group[h]

(* The group resumes at its committed offset; without one, CaughtUp makes  *)
(* the end it observes the position.                                       *)
StartOffset(h) == IF group[h] = Unset THEN Len(log) ELSE group[h]

(* OpenEvents and the first CaughtUp. *)
Open(h) ==
    /\ stage[h] = "down"
    /\ LET start == StartOffset(h) IN
       /\ acked' = [acked EXCEPT ![h] = start]
       /\ position' = [position EXCEPT ![h] = start]
       /\ cursor' = [cursor EXCEPT ![h] = start]
       /\ Goto(h, IF start >= Len(log) THEN "buffered" ELSE "opened")
    /\ UNCHANGED <<serviceVars, group, projections, faults>>

Buffer(h) ==
    /\ stage[h] = "opened"
    /\ \E p \in 1..MaxEvents : ReceiveUpTo(h, p)
    /\ Goto(h, "buffering")
    /\ UNCHANGED <<serviceVars, group, acked, cursor, projections, faults>>

(* Mutant of CheckBuffer: a buffer that reaches the end is an error too. *)
CheckBufferStrictly(h) ==
    /\ stage[h] = "buffering"
    /\ IF position[h] > Len(log)
       THEN Goto(h, "buffered") /\ UNCHANGED <<consumers, projections>>
       ELSE Down(h)
    /\ UNCHANGED <<serviceVars, group, faults>>

(* The second CaughtUp: a buffer that does not reach the end is an error. *)
CheckBuffer(h) ==
    /\ stage[h] = "buffering"
    /\ IF position[h] >= Len(log)
       THEN Goto(h, "buffered") /\ UNCHANGED <<consumers, projections>>
       ELSE Down(h)
    /\ UNCHANGED <<serviceVars, group, faults>>

RequestSnapshot(h) ==
    /\ stage[h] = "buffered"
    /\ Ask(h)
    /\ Goto(h, "asked")
    /\ UNCHANGED <<group, consumers, projections, faults>>

(* The consolidator answers; the response is on its way. *)
SnapshotAnswered(h) ==
    /\ stage[h] = "asked"
    /\ \E n \in 0..Index :
          /\ AnswerWith(h, n)
          /\ next' = [next EXCEPT ![h] = Reduction(n)]
          /\ barrier' = [barrier EXCEPT ![h] = n]
          /\ joined' = [joined EXCEPT ![h] = pending[h] <= n \/ acked[h] <= n]
    /\ Goto(h, "answered")
    /\ UNCHANGED <<group, consumers, view, faults>>

(* Mutant of ReceiveSnapshot: a new group gets its position only now. *)
PositionAfterSnapshot(h) ==
    /\ stage[h] = "answered"
    /\ LET start == IF group[h] = Unset THEN Len(log) ELSE position[h] IN
       /\ acked' = [acked EXCEPT ![h] = IF group[h] = Unset THEN start ELSE @]
       /\ position' = [position EXCEPT ![h] = start]
       /\ cursor' = [cursor EXCEPT ![h] = IF group[h] = Unset THEN start ELSE @]
    /\ Goto(h, "reducing")
    /\ UNCHANGED <<serviceVars, group, projections, faults>>

(* Mutant of ReceiveSnapshot: the buffer is acknowledged, not reduced. *)
DropBuffer(h) ==
    /\ stage[h] = "answered"
    /\ cursor' = [cursor EXCEPT ![h] = position[h]]
    /\ Goto(h, "reducing")
    /\ UNCHANGED <<serviceVars, group, acked, position, projections, faults>>

(* Client.Snapshot returns it, which may be long after. *)
ReceiveSnapshot(h) ==
    /\ stage[h] = "answered"
    /\ Goto(h, "reducing")
    /\ UNCHANGED <<serviceVars, group, consumers, projections, faults>>

(* The consolidator is not ready, fails to refresh or is not there, or the *)
(* answer does not arrive in time.                                         *)
Refused(h) ==
    /\ stage[h] \in {"asked", "answered"}
    /\ Refuse({h})
    /\ Down(h)
    /\ UNCHANGED <<group, faults>>

-----------------------------------------------------------------------------
(* Start and Consume *)

(* Consume: CaughtUp finds nothing to receive. *)
Idle(h) ==
    /\ stage[h] = "ready" /\ position[h] >= Len(log)
    /\ UNCHANGED hubVars

(* Consume: there is something to receive. *)
Receive(h) ==
    /\ stage[h] = "ready"
    /\ \E p \in 1..MaxEvents : ReceiveUpTo(h, p)
    /\ next' = [next EXCEPT ![h] = view[h]]
    /\ Goto(h, "reducing")
    /\ UNCHANGED <<serviceVars, group, acked, cursor, view, barrier, joined, faults>>

(* One round of the loop of reduce; after the last record, acknowledge. *)
Reduce(h) ==
    /\ stage[h] = "reducing" /\ cursor[h] < position[h]
    /\ LET record == log[cursor[h] + 1] IN
       IF Rejects(next[h], record)
       THEN Down(h)
       ELSE /\ next' = [next EXCEPT ![h] = Apply(next[h], record)]
            /\ cursor' = [cursor EXCEPT ![h] = @ + 1]
            /\ UNCHANGED <<stage, acked, position, view, barrier, joined>>
    /\ UNCHANGED <<serviceVars, group, faults>>

Reduced(h) ==
    /\ stage[h] = "reducing" /\ cursor[h] = position[h]
    /\ cursor' = [cursor EXCEPT ![h] = acked[h]]
    /\ Goto(h, "acking")
    /\ UNCHANGED <<serviceVars, group, acked, position, projections, faults>>

(* One round of the loop of acknowledge. *)
Ack(h) ==
    /\ stage[h] = "acking" /\ cursor[h] < position[h]
    /\ group' = [group EXCEPT ![h] = cursor[h] + 1]
    /\ cursor' = [cursor EXCEPT ![h] = @ + 1]
    /\ UNCHANGED <<stage, serviceVars, acked, position, projections, faults>>

Install(h) ==
    /\ stage[h] = "acking" /\ cursor[h] = position[h]
    /\ acked' = [acked EXCEPT ![h] = position[h]]
    /\ view' = [view EXCEPT ![h] = next[h]]
    /\ Goto(h, "ready")
    /\ UNCHANGED <<serviceVars, group, position, cursor, next, barrier, joined, faults>>

-----------------------------------------------------------------------------
(* A crash, a shutdown, an error of the consumer.  A commit whose answer   *)
(* is lost may have happened.                                              *)
Fails(h) ==
    /\ stage[h] # "down"
    /\ \/ UNCHANGED group
       \/ /\ stage[h] = "acking" /\ cursor[h] < position[h]
          /\ group' = [group EXCEPT ![h] = cursor[h] + 1]
    /\ Refuse({h})
    /\ Down(h)
    /\ Fault

HubNext ==
    \/ /\ AppendByReplayingHub
       /\ UNCHANGED <<pending, served, group, stage, consumers, projections, faults>>
    \/ \E h \in Clients :
          \/ Open(h) \/ Buffer(h) \/ CheckBuffer(h) \/ RequestSnapshot(h) \/ SnapshotAnswered(h)
          \/ ReceiveSnapshot(h) \/ Refused(h) \/ Idle(h) \/ Receive(h) \/ Reduce(h) \/ Reduced(h)
          \/ Ack(h) \/ Install(h) \/ Fails(h)

HubSpec == HubInit /\ [][HubNext]_hubVars

(* Processes are restarted and run.  Every request ends (RequestsEnd in    *)
(* Consolidator), a consolidator that can answer does not refuse for ever, *)
(* and its answers do not stay behind for ever: each contains what was on  *)
(* the log when an earlier answered request came in (SnapshotBarrier).     *)
HubFairness ==
    \A h \in Clients :
        /\ WF_hubVars(\/ Open(h) \/ Buffer(h) \/ CheckBuffer(h) \/ RequestSnapshot(h)
                      \/ Refused(h) \/ Receive(h) \/ Reduce(h) \/ Reduced(h)
                      \/ Ack(h) \/ Install(h))
        /\ SF_hubVars(SnapshotAnswered(h) /\ joined'[h]) /\ SF_hubVars(ReceiveSnapshot(h))

HubFairSpec == HubSpec /\ HubFairness

-----------------------------------------------------------------------------
(* Properties *)

(* A hub that serves, whose snapshot left no gap before its first event,   *)
(* and that has received everything this snapshot contains.                *)
Settled(h) ==
    stage[h] = "ready" /\ joined[h] /\ barrier[h] <= position[h] /\ position[h] <= Index

TopicContent(snapshot, t) ==
    <<snapshot.topics[t].status, snapshot.topics[t].contentType,
      snapshot.topics[t].registeredAt>>

(* The start leaves no gap between the barrier snapshot and the events     *)
(* (README: "startup without a snapshot/event gap"), whatever is appended, *)
(* crashes or is half acknowledged in between: a settled hub has exactly   *)
(* the topics that the log up to its position reduces to, although it      *)
(* reduced some events twice (projection.go:72-116).                       *)
TopicsConverge ==
    \A h \in Clients, t \in Topics :
        Settled(h) => TopicContent(view[h], t) = TopicContent(Reduction(position[h]), t)

(* What a hub serves has one live subscription for a topic and a callback, *)
(* although its view may not be the reduction of any prefix of the log     *)
(* (reducer.go:109-115 on re-reduced events).                              *)
ViewsHaveOneSubscription == \A h \in Clients : AtMostOneCurrent(view[h])

(* consumeHub reconciles the delivery workers only when the revision has   *)
(* changed (hub.go:227): no installation changes the view and keeps its    *)
(* revision, or goes back to an earlier one.                               *)
ReconcileSeesEveryChange ==
    [][\A h \in Clients :
          stage'[h] # "down" /\ view'[h] # view[h] =>
              view'[h].revision > view[h].revision]_hubVars

(* ADR 0011: events visible both through the barrier snapshot and through  *)
(* the consumer are semantic duplicates; here, the reducer accepts them    *)
(* when a start reduces its buffer (only then is the view empty although   *)
(* the snapshot is not).                                                   *)
DuplicatesAreAccepted ==
    \A h \in Clients :
        /\ stage[h] = "reducing" /\ view[h] = EmptySnapshot
        /\ cursor[h] < position[h] /\ cursor[h] < barrier[h]
        =>
            ~Rejects(next[h], log[cursor[h] + 1])

(* ADR 0011: such events do not advance the reducer's revision twice. *)
DuplicatesKeepTheRevision ==
    \A h \in Clients :
        stage[h] = "reducing" /\ cursor[h] <= barrier[h] =>
            next[h].revision = Reduction(barrier[h]).revision

(* ADR 0006: concurrent equivalent events converge; here, a settled hub    *)
(* has the subscriptions that the log up to its position reduces to.       *)
SubscriptionsConverge ==
    \A h \in Clients, s \in Subscriptions :
        Settled(h) => view[h].subscriptions[s].status
                          = Reduction(position[h]).subscriptions[s].status

(* What reducing events twice may change.  Where v has a subscription that *)
(* k does not have, or the other way round, the two differ in which of     *)
(* several verified subscriptions stands for a topic and a callback.       *)
Agrees(v, k) ==
    \A s \in Subscriptions :
        /\ IF k.subscriptions[s].status \in {"stale", "removed"}
           THEN v.subscriptions[s].status = k.subscriptions[s].status
           ELSE v.subscriptions[s].status \in {"absent", "active"}
        /\ Current(k, s) => Coalesces(v, s)

(* A settled hub does not deliver to a subscription that the log has ended *)
(* or made stale, and has a live subscription wherever the log has one,    *)
(* although it need not be the same (projection.go:72-116 on the           *)
(* verifications of reducer.go:100-115, which coalesce).                   *)
SubscriptionsAgree ==
    \A h \in Clients : Settled(h) => Agrees(view[h], Reduction(position[h]))

(* Once faults stop, every hub serves and has received the whole log, and  *)
(* its topics are those of the whole log if its snapshot left no gap.      *)
HubsCatchUp ==
    \A h \in Clients :
        <>[](/\ stage[h] = "ready" /\ position[h] = Len(log)
             /\ joined[h] => \A t \in Topics :
                   TopicContent(view[h], t) = TopicContent(Reduction(Index), t))

-----------------------------------------------------------------------------
(* The inductive invariant.  Reducing again the events up to the barrier   *)
(* takes each topic back through its history, but field by field it is     *)
(* always either the field after c events or the field at the barrier b;   *)
(* when c reaches b the two are the same.                                  *)

Tracks(states, s, c, b) ==
    c < Len(states) =>
        \A t \in Topics : \A f \in {"status", "contentType", "registeredAt"} :
            \/ s.topics[t][f] = states[c + 1].topics[t][f]
            \/ c < b /\ s.topics[t][f] = states[b + 1].topics[t][f]

Startup == {"opened", "buffering", "buffered", "asked", "answered"}

ConsumerInv(h) ==
    /\ group[h] # Unset => group[h] <= Len(log)
    /\ acked[h] <= cursor[h] /\ cursor[h] <= position[h] /\ position[h] <= Len(log)
    /\ stage[h] \in Startup => cursor[h] = acked[h]
    /\ stage[h] = "ready" => cursor[h] = position[h]
    /\ stage[h] = "asked" => pending[h] # NotAsked /\ acked[h] <= pending[h]
    /\ barrier[h] <= Index

ViewInv(h) ==
    /\ AtMostOneCurrent(next[h]) /\ AtMostOneCurrent(view[h])
    /\ stage[h] \in Startup \cup {"down"} => view[h] = EmptySnapshot
    /\ stage[h] \in {"answered", "reducing", "acking"} =>
          next[h] = view[h] \/ view[h].revision < next[h].revision

TopicInv(h) == joined[h] =>
    /\ stage[h] \in {"answered", "reducing"} => Tracks(canon, next[h], cursor[h], barrier[h])
    /\ stage[h] = "acking" => Tracks(canon, next[h], position[h], barrier[h])
    /\ stage[h] = "ready" => Tracks(canon, view[h], position[h], barrier[h])

(* Reducing again the events up to the barrier b changes no subscription   *)
(* that exists at b; it can only bring up one that was coalesced.  From    *)
(* there on snapshot and log are compared at c.                            *)
Retains(x, y) == IF y = "absent" THEN x \in {"absent", "active"} ELSE x = y

Follows(states, v, c, b) ==
    c < Len(states) =>
        IF c < b
        THEN \A s \in Subscriptions :
                Retains(v.subscriptions[s].status, states[b + 1].subscriptions[s].status)
        ELSE Agrees(v, states[c + 1])

(* A subscription is verified, becomes stale, ends; none of the producers  *)
(* takes one back.                                                         *)
Advances(x, y) ==
    \/ x = y \/ x = "absent"
    \/ x = "active" /\ y \in {"stale", "removed"}
    \/ x = "stale" /\ y = "removed"

LifecyclesAdvance ==
    /\ \A i \in 1..Len(log) : log[i].type # "SubscriptionReactivated"
    /\ \A m, n \in 0..Index : m <= n =>
          \A s \in Subscriptions :
              Advances(Reduction(m).subscriptions[s].status, Reduction(n).subscriptions[s].status)

SubscriptionInv(h) == joined[h] =>
    /\ stage[h] \in {"answered", "reducing"} => Follows(canon, next[h], cursor[h], barrier[h])
    /\ stage[h] = "acking" => Follows(canon, next[h], position[h], barrier[h])
    /\ stage[h] = "ready" => Follows(canon, view[h], position[h], barrier[h])

AgreementInv == LifecyclesAdvance /\ \A h \in Clients : SubscriptionInv(h)

HubInv ==
    /\ HubTypeOK /\ LogInv
    /\ \A h \in Clients : ConsumerInv(h) /\ ViewInv(h) /\ TopicInv(h)

=============================================================================
