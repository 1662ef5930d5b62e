------------------------------ MODULE Delivery ------------------------------
(***************************************************************************)
(* The delivery of a hub as a whole: the manager (DeliveryManager), the    *)
(* Kafka consumers of its workers (kafka/consumer.go), the consumer groups *)
(* of the broker and the content that is published meanwhile.              *)
(*                                                                         *)
(* A subscription reads through a group of its own, through a group that   *)
(* its parameters name and that other subscriptions may share, or directly *)
(* from partitions that its parameters list, with progress under a group   *)
(* of its own.  A content destination has one partition (hub.go:259), so   *)
(* one member of a group at a time is assigned to it.  A member that has   *)
(* polled records blocks rebalances until it has acknowledged them; when   *)
(* that takes too long, the broker takes the partition from it and refuses *)
(* its commits.                                                            *)
(*                                                                         *)
(* What a worker does with a record (attempts, backoff, the dead-letter    *)
(* queue) is in DeliveryWorker.  Here a record is settled, or the Run ends.*)
(***************************************************************************)
EXTENDS DeliveryManager

CONSTANTS
    Layouts,       \* the parameters of the subscriptions, in [Subs -> Options]
    GroupNames,    \* the names that parameters give to groups
    NoOne,         \* not a subscription: nobody is assigned to the partition
    Unset,         \* not a number: no offset
    MaxMessages,   \* bound: messages of the content destination
    MaxFaults      \* bound: rebalances, failing polls and failing deletions

(* The values of kafka.consumer_group and the items of                     *)
(* kafka.topic_partitions; a parameter that is absent has none.            *)
Options == [group : Seq(GroupNames), partitions : Seq(Int)]

(* Content destinations are created and required with one partition. *)
Partitions == {0}

ASSUME DeliveryConstants ==
    /\ Layouts \subseteq [Subs -> Options]
    /\ GroupNames \cap Subs = {} /\ NoOne \notin Subs /\ Unset \notin Nat
    /\ MaxMessages \in Nat /\ MaxFaults \in Nat

VARIABLES
    options,   \* Subscription.parameters
    end,       \* content messages 1..end
    offset,    \* committed offset of a group, as the last message it passes
    holder,    \* the member of a group the partition is assigned to
    position,  \* the message before Consumer.pending; Unset: not consuming
    polled,    \* the last message in Consumer.pending
    resolved,  \* the first pending message is delivered or dead-lettered
    settled,   \* history: the messages some member of the group resolved
    base,      \* history: the end at which a group without offset began
    faults

groupVars == <<options, end, offset, holder, position, polled, resolved, settled, base, faults>>
deliveryVars == <<vars, groupVars>>

Groups == Subs \cup GroupNames

DeliveryTypeOK ==
    /\ ManagerTypeOK
    /\ options \in Layouts
    /\ end \in 0..MaxMessages
    /\ offset \in [Groups -> 0..MaxMessages \cup {Unset}]
    /\ holder \in [Groups -> Subs \cup {NoOne}]
    /\ position \in [Subs -> 0..MaxMessages \cup {Unset}]
    /\ polled \in [Subs -> 0..MaxMessages]
    /\ resolved \in [Subs -> BOOLEAN]
    /\ settled \in [Groups -> SUBSET (1..MaxMessages)]
    /\ base \in [Groups -> 0..MaxMessages]
    /\ faults \in 0..MaxFaults

DeliveryInit ==
    /\ Init
    /\ options \in Layouts
    /\ end = 0 /\ faults = 0
    /\ offset = [g \in Groups |-> Unset] /\ holder = [g \in Groups |-> NoOne]
    /\ position = [s \in Subs |-> Unset] /\ polled = [s \in Subs |-> 0]
    /\ resolved = [s \in Subs |-> FALSE]
    /\ settled = [g \in Groups |-> {}] /\ base = [g \in Groups |-> 0]

Shared(s) == options[s].group # <<>>
Direct(s) == options[s].partitions # <<>>
GroupOf(s) == IF Shared(s) THEN options[s].group[1] ELSE s

(* parseSubscriptionOptions and validatePartitionMembership *)
ValidSubscription(o) ==
    /\ o.group = <<>> \/ o.partitions = <<>>
    /\ Len(o.group) <= 1
    /\ \A i \in DOMAIN o.partitions :
          /\ o.partitions[i] \in Partitions
          /\ \A j \in DOMAIN o.partitions : o.partitions[i] = o.partitions[j] => i = j

(* The client of s is open. *)
HasConsumer(s) == worker[s] \in {"open", "returning", "leaving", "deleting"}

(* The broker accepts the commits of s. *)
Holds(s) == position[s] # Unset /\ (Direct(s) \/ holder[GroupOf(s)] = s)

Pending(s) == position[s] # Unset /\ position[s] < polled[s]

Fault == faults < MaxFaults /\ faults' = faults + 1

-----------------------------------------------------------------------------
(* Events of other origin *)

(* Ingestor.Persist of this hub, whose projection contains at least the    *)
(* view it has reconciled.                                                 *)
Publish ==
    /\ end < MaxMessages
    /\ \E i \in 1..Len(views) : i >= seen /\ views[i].topic = "active"
    /\ end' = end + 1
    /\ UNCHANGED <<vars, options, offset, holder, position, polled, resolved, settled, base, faults>>

(* A subscription is admitted only with parameters the broker accepts. *)
Subscribe(s) == ValidSubscription(options[s]) /\ Verify(s) /\ UNCHANGED groupVars

-----------------------------------------------------------------------------
(* The consumer of a worker *)

(* Consumption begins at the committed offset, or at the end. *)
Establish(s) ==
    LET g == GroupOf(s)
        from == IF offset[g] = Unset THEN end ELSE offset[g]
    IN  /\ position' = [position EXCEPT ![s] = from]
        /\ polled' = [polled EXCEPT ![s] = from]
        /\ base' = [base EXCEPT ![g] = IF offset[g] = Unset THEN end ELSE @]

(* OpenConsumer: a direct consumer fetches its offset, any other one joins *)
(* its group in the background.                                            *)
OpenConsumer(s) ==
    /\ Opens(s)
    /\ ValidSubscription(options[s])
    /\ IF Direct(s) THEN Establish(s) ELSE UNCHANGED <<position, polled, base>>
    /\ UNCHANGED <<options, end, offset, holder, resolved, settled, faults>>

(* The group assigns its free partition to a member, which may be about to *)
(* leave.                                                                  *)
Assign(s) ==
    /\ HasConsumer(s) /\ ~Direct(s) /\ position[s] = Unset
    /\ holder[GroupOf(s)] = NoOne
    /\ holder' = [holder EXCEPT ![GroupOf(s)] = s]
    /\ Establish(s)
    /\ UNCHANGED <<vars, options, end, offset, resolved, settled, faults>>

(* The group takes its partition back: from a member without polled        *)
(* records at once, and from one that blocks the rebalance by expelling it.*)
Rebalance(g) ==
    LET s == holder[g]
    IN  /\ s # NoOne /\ Fault
        /\ holder' = [holder EXCEPT ![g] = NoOne]
        /\ IF Pending(s) THEN UNCHANGED <<position, polled>>
           ELSE /\ position' = [position EXCEPT ![s] = Unset]
                /\ polled' = [polled EXCEPT ![s] = 0]
        /\ UNCHANGED <<vars, options, end, offset, resolved, settled, base>>

(* Receive, with records *)
Poll(s) ==
    /\ worker[s] = "open" /\ Holds(s) /\ ~Pending(s)
    /\ polled' \in {[polled EXCEPT ![s] = m] : m \in polled[s] + 1 .. end}
    /\ UNCHANGED <<vars, options, end, offset, holder, position, resolved, settled, base, faults>>

(* Mutant: the worker goes on with the client whose poll failed, behind    *)
(* the records that came with the error.                                   *)
ReconnectGoesOn(s) ==
    /\ worker[s] = "open" /\ Holds(s) /\ ~Pending(s) /\ Fault
    /\ position' = [position EXCEPT ![s] = end]
    /\ polled' = [polled EXCEPT ![s] = end]
    /\ UNCHANGED <<vars, options, end, offset, holder, resolved, settled, base>>

(* A poll fails, with or without records, and the worker reconnects: the   *)
(* client leaves its group and a new one begins where the group stands.    *)
Reconnect(s) ==
    /\ worker[s] = "open" /\ Holds(s) /\ ~Pending(s) /\ Fault
    /\ IF Direct(s) THEN Establish(s) /\ UNCHANGED holder
       ELSE /\ position' = [position EXCEPT ![s] = Unset]
            /\ polled' = [polled EXCEPT ![s] = 0]
            /\ holder' = [holder EXCEPT ![GroupOf(s)] = NoOne]
            /\ UNCHANGED base
    /\ UNCHANGED <<vars, options, end, offset, resolved, settled>>

(* The first pending message is delivered or dead-lettered. *)
Settle(s) ==
    /\ worker[s] = "open" /\ Pending(s) /\ ~resolved[s]
    /\ resolved' = [resolved EXCEPT ![s] = TRUE]
    /\ settled' = [settled EXCEPT ![GroupOf(s)] = @ \cup {position[s] + 1}]
    /\ UNCHANGED <<vars, options, end, offset, holder, position, polled, base, faults>>

(* Mutant: an acknowledgement commits all that was polled. *)
CommitsPolled(s) ==
    /\ resolved[s] /\ Holds(s)
    /\ offset' = [offset EXCEPT ![GroupOf(s)] = polled[s]]
    /\ position' = [position EXCEPT ![s] = polled[s]]
    /\ resolved' = [resolved EXCEPT ![s] = FALSE]
    /\ UNCHANGED <<options, end, holder, polled, settled, base, faults>>

(* The broker accepts the commit of the first pending message. *)
Commits(s) ==
    /\ resolved[s] /\ Holds(s)
    /\ offset' = [offset EXCEPT ![GroupOf(s)] = position[s] + 1]
    /\ position' = [position EXCEPT ![s] = @ + 1]
    /\ resolved' = [resolved EXCEPT ![s] = FALSE]
    /\ UNCHANGED <<options, end, holder, polled, settled, base, faults>>

Ack(s) == worker[s] = "open" /\ Commits(s) /\ UNCHANGED vars

-----------------------------------------------------------------------------
(* The end of a Run *)

(* Mutant: the client is dropped without leaving its group. *)
LeaveStays(s) ==
    /\ position' = [position EXCEPT ![s] = Unset] /\ polled' = [polled EXCEPT ![s] = 0]
    /\ resolved' = [resolved EXCEPT ![s] = FALSE]
    /\ UNCHANGED holder

(* The client releases its poll and leaves the group. *)
Leave(s) ==
    /\ position' = [position EXCEPT ![s] = Unset] /\ polled' = [polled EXCEPT ![s] = 0]
    /\ resolved' = [resolved EXCEPT ![s] = FALSE]
    /\ holder' = [g \in Groups |-> IF holder[g] = s THEN NoOne ELSE holder[g]]

(* Mutant: a permanent closure deletes any group. *)
DeletesAny(s) == worker[s] = "deleting"

(* A permanent closure deletes the group of the subscription, but not one  *)
(* that parameters name.                                                   *)
Deletes(s) == worker[s] = "deleting" /\ ~Shared(s)

(* Close, with the intent that was read; its error is dropped. *)
CloseConsumer(s) ==
    /\ Closes(s) /\ Leave(s)
    /\ \/ /\ offset' = [offset EXCEPT ![GroupOf(s)] = IF Deletes(s) THEN Unset ELSE @]
          /\ UNCHANGED faults
       \/ Deletes(s) /\ Fault /\ UNCHANGED offset
    /\ UNCHANGED <<options, end, settled, base>>

(* The commit of a member that was expelled is refused, and Run ends with  *)
(* the error.                                                              *)
AckRefused(s) ==
    /\ resolved[s] /\ ~Holds(s)
    /\ EndsWithError(s) /\ UNCHANGED groupVars

(* Run ends with another error; a commit that failed may have reached the  *)
(* broker.                                                                 *)
Failed(s) ==
    /\ EndsWithError(s)
    /\ UNCHANGED groupVars \/ Commits(s)

(* The other steps to the end of a Run leave the consumer alone. *)
Ended(s) ==
    /\ \/ EndsStale(s) \/ EndsGone(s) \/ EndsStopped(s)
       \/ ReadsIntent(s) \/ Finishes(s)
    /\ UNCHANGED groupVars

(* The clients of a process that ends are gone without closing. *)
RestartHub ==
    /\ Restart
    /\ holder' = [g \in Groups |-> NoOne]
    /\ position' = [s \in Subs |-> Unset] /\ polled' = [s \in Subs |-> 0]
    /\ resolved' = [s \in Subs |-> FALSE]
    /\ UNCHANGED <<options, end, offset, settled, base, faults>>

-----------------------------------------------------------------------------
DeliveryNext ==
    \/ Publish \/ RestartHub
    \/ ((SwitchTopic \/ Reconcile) /\ UNCHANGED groupVars)
    \/ \E g \in Groups : Rebalance(g)
    \/ \E s \in Subs :
          \/ Subscribe(s) \/ (Unsubscribe(s) /\ UNCHANGED groupVars)
          \/ OpenConsumer(s) \/ Assign(s) \/ Poll(s) \/ Settle(s) \/ Ack(s) \/ AckRefused(s)
          \/ Reconnect(s) \/ Failed(s) \/ Ended(s) \/ CloseConsumer(s)

DeliverySpec == DeliveryInit /\ [][DeliveryNext]_deliveryVars

(* As for the manager; the broker accepts consumers, assigns partitions    *)
(* and answers, and a worker does not keep a record for ever               *)
(* (MessagesAreSettled of DeliveryWorker).  At most one disjunct of Works  *)
(* is enabled at a time.                                                   *)
Works(s) ==
    OpenConsumer(s) \/ Assign(s) \/ Poll(s) \/ Settle(s) \/ Ack(s) \/ AckRefused(s)

FairDelivery ==
    /\ DeliverySpec
    /\ WF_deliveryVars(Reconcile /\ UNCHANGED groupVars)
    /\ \A s \in Subs :
          /\ WF_deliveryVars(EndsStopped(s) /\ UNCHANGED groupVars)
          /\ WF_deliveryVars(\/ CloseConsumer(s)
                             \/ (ReadsIntent(s) \/ Finishes(s)) /\ UNCHANGED groupVars)
          /\ WF_deliveryVars(Works(s))

-----------------------------------------------------------------------------
(* Properties *)

(* Ack commits one record, after its outcome, and a member that was        *)
(* expelled commits nothing: whichever members share a group, it never     *)
(* passes a message that none of them has delivered or dead-lettered.      *)
GroupProgressFollowsOutcomes ==
    \A g \in Groups : offset[g] # Unset => base[g] + 1 .. offset[g] \subseteq settled[g]

(* No member gets ahead of a record that no member has settled, also when  *)
(* the partition moves while records are pending or dropped with an error. *)
GroupOutcomesAreInOrder ==
    [][\A g \in Groups : \A m \in settled'[g] \ settled[g] :
          base[g] + 1 .. m - 1 \subseteq settled[g]]_deliveryVars

(* Whichever members share a group, join it, are expelled from it, crash   *)
(* or commit late, the consumers keep what ContentGroups promises of every *)
(* group, and those that parameters name are never deleted.                *)
Content == INSTANCE ContentGroups WITH Kept <- GroupNames

ImplementsContent == Content!ContentSpec

(* "A shared custom group must not be deleted when one member              *)
(* unsubscribes" (ADR 0019): whichever members end, are expelled or commit *)
(* late, the progress the others rely on is kept and only grows.           *)
SharedProgressIsKept ==
    [][\A g \in GroupNames :
          offset[g] # Unset => offset'[g] # Unset /\ offset'[g] >= offset[g]]_deliveryVars

(* A group whose member ends, is stopped or is expelled with records in    *)
(* hand goes on with another member: when publishing and failures stop, it *)
(* has passed everything, unless no member has a Run any more.             *)
GroupsMakeProgress ==
    <>[](\A g \in Groups : \/ offset[g] \in {Unset, end}
                          \/ \A s \in Subs : GroupOf(s) = g => alive[s] = 0)

(* The group of s is to be deleted: stopIntent is permanent and not read   *)
(* yet, or was when it was read.                                           *)
Due(s) ==
    /\ ~Shared(s)
    /\ \/ worker[s] \in {"open", "returning"} /\ intent[s] = "permanent"
       \/ worker[s] = "deleting"

(* "Permanent intent wins concurrent stop requests" (worker.go:187): a     *)
(* consumer that Stop or HTTP 410 closes for good before the deferred      *)
(* function of Run reads stopIntent is not closed without the deletion of  *)
(* its group, whatever views are reconciled, members assigned and records  *)
(* committed in the meantime, unless the hub ends or the broker fails.  A  *)
(* Stop between the reading and done is too late (worker.go:138).          *)
PermanentStopDeletes ==
    [][\A s \in Subs : Due(s) =>
          \/ Due(s)'
          \/ offset'[GroupOf(s)] = Unset
          \/ <<restarts, faults>>' # <<restarts, faults>>]_deliveryVars

(* ADR 0015: "Unsubscription and HTTP 410 close permanently, while stale   *)
(* subscriptions close temporarily": in the end a removed subscription     *)
(* leaves no group behind.  It does when its Run has ended before, as      *)
(* Stop of a worker that is done closes nothing, or when its Run has read  *)
(* the intent and not yet closed the consumer (worker.go:138-142).         *)
RemovedLeavesNoProgress ==
    \A s \in Subs :
        []((Last.status[s] = "removed" /\ ~Shared(s)) => <>(offset[GroupOf(s)] = Unset))

=============================================================================
