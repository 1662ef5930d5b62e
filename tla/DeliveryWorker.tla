--------------------------- MODULE DeliveryWorker ---------------------------
(***************************************************************************)
(* The delivery worker of one subscription: internal/delivery/worker.go    *)
(* over its durable Kafka consumer (persistence/messagestore/kafka) and    *)
(* the content destination the ingestor writes to.                         *)
(*                                                                         *)
(* A message is its offset, 1..end.  The consumer's pending records are    *)
(* acked + 1 .. position; Receive has handed out those up to handed.  The  *)
(* worker handles them one by one, so the current one is acked + 1.        *)
(*                                                                         *)
(* What a response of the callback means (the status lists of the retry    *)
(* configuration) is the outcome of the attempt.  An attempt and the       *)
(* acknowledgement of its message are two steps: a crash, a stop or an     *)
(* error may come between them.  A stop cancels the context of the calls   *)
(* the worker makes; a call in flight may still succeed, but an attempt    *)
(* that begins after the stop is a transport failure.                      *)
(***************************************************************************)
EXTENDS Naturals

CONSTANTS
    MaxMessages,    \* bound: messages published in one behaviour
    MaxFaults,      \* bound: faults in one behaviour
    BatchSize,      \* records one receive returns at most
    MaxAttempts,    \* attempts of HTTP-managed retry
    Malformed,      \* stored messages that cannot be decoded
    Unset           \* a group without a committed offset

ASSUME WorkerConstants ==
    /\ MaxMessages \in Nat /\ MaxFaults \in Nat
    /\ BatchSize \in Nat \ {0} /\ MaxAttempts \in Nat \ {0}
    /\ Malformed \subseteq Nat
    /\ Unset \notin Nat

VARIABLES
    policy,    \* the delivery.retry section of the configuration
    end,       \* messages on the content destination
    group,     \* the offset the consumer group has committed
    status,    \* the subscription's status on the state log
    stage,     \* what the worker does next
    acked,     \* the record before the first pending one
    handed,    \* the last pending record handed out
    position,  \* the last record polled
    attempts,  \* attempts of the current cycle
    stopped,   \* Worker.stopRequested
    intent,    \* Worker.stopIntent
    delivered, \* history: messages the callback has accepted
    dlq,       \* messages on the dead-letter destination
    base,      \* history: where the group was last established without an offset
    first,     \* history: where the consumer identity was first established
    faults

consumerVars == <<acked, handed, position>>
stopVars == <<stopped, intent>>
history == <<base, first>>
vars == <<policy, end, group, status, stage, consumerVars, attempts, stopVars, delivered, dlq,
          history, faults>>

(* Only the policy of the selected strategy is in use: whether exhausted   *)
(* attempts begin another cycle, or what a transport failure calls for and *)
(* whether redelivery waits.                                               *)
Policy ==
    [strategy : {"http"}, reset : BOOLEAN]
        \cup [strategy : {"message_store"}, network : {"redeliver", "dead_letter", "fail"},
              delayed : BOOLEAN]

Stages == {"down", "opening", "preparing", "receiving", "reconnecting", "attempting",
           "interrupted", "acking", "closing", "leaving", "deleting", "ended"}

WorkerTypeOK ==
    /\ policy \in Policy
    /\ end \in Nat
    /\ group \in Nat \cup {Unset}
    /\ status \in {"active", "stale", "removed"}
    /\ stage \in Stages
    /\ acked \in Nat /\ handed \in Nat /\ position \in Nat
    /\ attempts \in 0 .. MaxAttempts - 1
    /\ stopped \in BOOLEAN
    /\ intent \in {"temporary", "permanent"}
    /\ delivered \subseteq Nat /\ dlq \subseteq Nat
    /\ base \in Nat /\ first \in Nat \cup {Unset}
    /\ faults \in 0..MaxFaults

Init ==
    /\ policy \in Policy
    /\ end = 0 /\ group = Unset /\ status = "active" /\ stage = "down"
    /\ acked = 0 /\ handed = 0 /\ position = 0 /\ attempts = 0
    /\ stopped = FALSE /\ intent = "temporary"
    /\ delivered = {} /\ dlq = {}
    /\ base = 0 /\ first = Unset /\ faults = 0

Fault == faults < MaxFaults /\ faults' = faults + 1

Current == acked + 1

-----------------------------------------------------------------------------
(* Ingestor.Persist *)
Publish ==
    /\ end < MaxMessages
    /\ end' = end + 1
    /\ UNCHANGED <<policy, group, status, stage, consumerVars, attempts, stopVars, delivered,
                   dlq, history, faults>>

(* The manager starts a new worker for the active subscription, in a new   *)
(* process or in place of one it has stopped.                              *)
Start ==
    /\ stage = "down" \/ (stage = "ended" /\ stopped)
    /\ status = "active"
    /\ stage' = "opening"
    /\ stopped' = FALSE /\ intent' = "temporary"
    /\ UNCHANGED <<policy, end, group, status, consumerVars, attempts, delivered, dlq,
                   history, faults>>

(* openClient: the group resumes at its committed offset; without one, at  *)
(* the end.                                                                *)
Establish ==
    LET start == IF group = Unset THEN end ELSE group IN
    /\ acked' = start /\ handed' = start /\ position' = start
    /\ base' = IF group = Unset THEN end ELSE base
    /\ first' = IF first = Unset THEN start ELSE first

OpenConsumer ==
    /\ stage = "opening"
    /\ Establish
    /\ stage' = "preparing"
    /\ UNCHANGED <<policy, end, group, status, attempts, stopVars, delivered, dlq, faults>>

(* The stale transition on the state log: of a removed subscription it is  *)
(* rejected by the reducer.                                                *)
AppendStale == status' = IF status = "removed" THEN status ELSE "stale"

(* The subscription options are rejected for good, before there is a       *)
(* consumer to close.                                                      *)
OptionsInvalid ==
    /\ stage = "opening" /\ ~stopped
    /\ AppendStale
    /\ stage' = "ended"
    /\ UNCHANGED <<policy, end, group, consumerVars, attempts, stopVars, delivered, dlq,
                   history, faults>>

(* The secret is opened and the delivery client built, or the subscription *)
(* becomes stale.                                                          *)
Prepare ==
    /\ stage = "preparing"
    /\ \/ stage' = "receiving" /\ UNCHANGED status
       \/ stage' = "closing" /\ ~stopped /\ AppendStale
    /\ UNCHANGED <<policy, end, group, consumerVars, attempts, stopVars, delivered, dlq,
                   history, faults>>

(* The stale transition of a subscription with invalid options, without    *)
(* its secret or without a client is reported as not appended; it may have *)
(* been.  Run returns the error.                                           *)
StaleFails ==
    /\ \/ stage = "opening" /\ stage' = "ended"
       \/ stage = "preparing" /\ stage' = "closing"
    /\ UNCHANGED status \/ AppendStale
    /\ Fault
    /\ UNCHANGED <<policy, end, group, consumerVars, attempts, stopVars, delivered, dlq, history>>

(* The next record is attempted, with a context that may be cancelled. *)
Begin == stage' = IF stopped THEN "interrupted" ELSE "attempting"

(* Mutant: the redelivery delay does not watch the context. *)
ReceiveAtOnce ==
    /\ stage = "receiving"
    /\ \/ /\ handed < position
          /\ handed' = IF handed + BatchSize < position THEN handed + BatchSize ELSE position
          /\ UNCHANGED position
       \/ /\ handed = position
          /\ \E p \in position + 1 .. end :
                p <= position + BatchSize /\ position' = p /\ handed' = p
    /\ Begin /\ attempts' = 0
    /\ UNCHANGED <<policy, end, group, status, acked, stopVars, delivered, dlq, history,
                   faults>>

(* Pending records are handed out again after a wait. *)
Delayed == policy.strategy = "message_store" /\ policy.delayed

(* Receive hands out what is pending, which it is after a Nack, without    *)
(* looking at the context unless it has to wait; otherwise it polls.       *)
Receive ==
    /\ stage = "receiving"
    /\ \/ /\ handed < position /\ (stopped => ~Delayed)
          /\ handed' = IF handed + BatchSize < position THEN handed + BatchSize ELSE position
          /\ UNCHANGED position
       \/ /\ handed = position
          /\ \E p \in position + 1 .. end :
                p <= position + BatchSize /\ position' = p /\ handed' = p
    /\ Begin /\ attempts' = 0
    /\ UNCHANGED <<policy, end, group, status, acked, stopVars, delivered, dlq, history,
                   faults>>

(* A poll fails; what it fetched is dropped. *)
ReceiveFails ==
    /\ stage = "receiving" /\ handed = position /\ ~stopped
    /\ stage' = "reconnecting"
    /\ Fault
    /\ UNCHANGED <<policy, end, group, status, consumerVars, attempts, stopVars,
                   delivered, dlq, history>>

(* A new client, without pending records. *)
Reconnect ==
    /\ stage = "reconnecting"
    /\ Establish
    /\ stage' = "receiving"
    /\ UNCHANGED <<policy, end, group, status, attempts, stopVars, delivered, dlq, faults>>

-----------------------------------------------------------------------------
(* deliver *)

Attempting == stage = "attempting" /\ Current \notin Malformed

(* The attempt fails without a status, and the policy calls for action a.  *)
Interrupted(a) ==
    /\ stage = "interrupted" /\ Current \notin Malformed
    /\ policy.strategy = "message_store" /\ policy.network = a

(* What is dead-lettered: a malformed record, and what the policy says. *)
Unwanted ==
    \/ stage \in {"attempting", "interrupted"} /\ Current \in Malformed
    \/ stage = "attempting" /\ policy.strategy = "message_store"
    \/ Interrupted("dead_letter")

(* Consumer.DeadLetter publishes first; its commit is Ack. *)
DeadLetter ==
    /\ Unwanted
    /\ dlq' = dlq \cup {Current}
    /\ stage' = "acking"
    /\ UNCHANGED <<policy, end, group, status, consumerVars, attempts, stopVars,
                   delivered, history, faults>>

(* The callback accepts the message. *)
Accepted ==
    /\ Attempting
    /\ delivered' = delivered \cup {Current}
    /\ stage' = "acking"
    /\ UNCHANGED <<policy, end, group, status, consumerVars, attempts, stopVars, dlq,
                   history, faults>>

(* Mutant: attempts are not counted and waits do not watch the context. *)
RetryForEver ==
    /\ Attempting /\ policy.strategy = "http"
    /\ \/ attempts + 1 < MaxAttempts /\ attempts' = attempts + 1
       \/ attempts + 1 >= MaxAttempts /\ attempts' = 0
    /\ UNCHANGED <<policy, end, group, status, stage, consumerVars, stopVars, delivered,
                   dlq, history, faults>>

(* Mutant: one attempt too many. *)
RetryOnceMore ==
    /\ Attempting /\ policy.strategy = "http" /\ ~stopped
    /\ \/ attempts < MaxAttempts /\ attempts' = attempts + 1
       \/ attempts + 1 >= MaxAttempts /\ policy.reset /\ attempts' = 0
    /\ UNCHANGED <<policy, end, group, status, stage, consumerVars, stopVars, delivered,
                   dlq, history, faults>>

(* A retryable failure of HTTP-managed delivery, with attempts left or     *)
(* with another cycle to begin.                                            *)
Retry ==
    /\ Attempting /\ policy.strategy = "http" /\ ~stopped
    /\ \/ attempts + 1 < MaxAttempts /\ attempts' = attempts + 1
       \/ attempts + 1 >= MaxAttempts /\ policy.reset /\ attempts' = 0
    /\ UNCHANGED <<policy, end, group, status, stage, consumerVars, stopVars, delivered,
                   dlq, history, faults>>

(* Mutant: the record is passed over. *)
NackSkips ==
    /\ (Attempting /\ policy.strategy = "message_store") \/ Interrupted("redeliver")
    /\ handed' = Current /\ acked' = Current
    /\ stage' = "receiving"
    /\ UNCHANGED <<policy, end, group, status, position, attempts, stopVars, delivered,
                   dlq, history, faults>>

(* Consumer.Nack: the rest of the batch is abandoned. *)
Nack ==
    /\ (Attempting /\ policy.strategy = "message_store") \/ Interrupted("redeliver")
    /\ handed' = acked
    /\ stage' = "receiving"
    /\ UNCHANGED <<policy, end, group, status, acked, position, attempts, stopVars,
                   delivered, dlq, history, faults>>

(* A failure that is exhausted, not retryable or mapped to failure. *)
BecomesStale ==
    /\ \/ Attempting \/ Interrupted("fail")
       \/ /\ stage = "interrupted" /\ Current \notin Malformed
          /\ policy.strategy = "http" /\ ~policy.reset /\ attempts + 1 >= MaxAttempts
    /\ AppendStale
    /\ stage' = "closing"
    /\ UNCHANGED <<policy, end, group, consumerVars, attempts, stopVars, delivered, dlq,
                   history, faults>>

(* HTTP 410. *)
Gone ==
    /\ Attempting
    /\ status' = "removed"
    /\ intent' = "permanent"
    /\ stage' = "closing"
    /\ UNCHANGED <<policy, end, group, consumerVars, attempts, stopped, delivered, dlq,
                   history, faults>>

(* The dead letter or the transition is reported as not published; it may  *)
(* have been.  Run returns the error.                                      *)
PublishFails ==
    /\ stage \in {"attempting", "interrupted"}
    /\ \/ UNCHANGED <<status, dlq>>
       \/ Attempting /\ (AppendStale \/ status' = "removed") /\ UNCHANGED dlq
       \/ Interrupted("fail") /\ AppendStale /\ UNCHANGED dlq
       \/ /\ Unwanted
          /\ dlq' = dlq \cup {Current} /\ UNCHANGED status
    /\ stage' = "closing"
    /\ Fault
    /\ UNCHANGED <<policy, end, group, consumerVars, attempts, stopVars, delivered, history>>

(* Mutant: the whole batch is committed. *)
AckBatch ==
    /\ stage = "acking"
    /\ group' = handed
    /\ acked' = Current
    /\ IF Current < handed THEN Begin ELSE stage' = "receiving"
    /\ attempts' = 0
    /\ UNCHANGED <<policy, end, status, handed, position, stopVars, delivered, dlq,
                   history, faults>>

(* commitRecord; then the record is no longer pending. *)
Ack ==
    /\ stage = "acking"
    /\ group' = Current
    /\ acked' = Current
    /\ IF Current < handed THEN Begin ELSE stage' = "receiving"
    /\ attempts' = 0
    /\ UNCHANGED <<policy, end, status, handed, position, stopVars, delivered, dlq,
                   history, faults>>

(* The commit reports an error, but may have happened; Run returns it. *)
AckFails ==
    /\ stage = "acking"
    /\ group' \in {group, Current}
    /\ stage' = "closing"
    /\ Fault
    /\ UNCHANGED <<policy, end, status, consumerVars, attempts, stopVars, delivered, dlq,
                   history>>

-----------------------------------------------------------------------------
(* The end of a worker *)

(* Worker.Stop, by the manager; on a worker that has ended it only sets    *)
(* the two fields.                                                         *)
Stop ==
    /\ stage # "down"
    /\ stopped' = TRUE
    /\ intent' \in {intent, "permanent"}
    /\ UNCHANGED <<policy, end, group, status, stage, consumerVars, attempts, delivered,
                   dlq, history, faults>>

(* The subscription is removed by an event of another origin. *)
Unsubscribe ==
    /\ status # "removed"
    /\ status' = "removed"
    /\ UNCHANGED <<policy, end, group, stage, consumerVars, attempts, stopVars,
                   delivered, dlq, history, faults>>

(* The attempt a stop interrupts is a transport failure. *)
InterruptedAttemptIsNacked ==
    /\ stage \in {"attempting", "interrupted"} /\ Current \notin Malformed
    /\ policy.strategy = "message_store" /\ policy.network = "redeliver"

(* A call fails because the context is cancelled, and Run returns.  An     *)
(* interrupted commit may have happened.                                   *)
Cancelled ==
    /\ stopped
    /\ \/ stage = "opening" /\ stage' = "ended" /\ UNCHANGED group
       \/ /\ \/ stage \in {"preparing", "reconnecting"}
             \/ stage = "receiving" /\ (handed = position \/ Delayed)
             \/ stage \in {"attempting", "interrupted"} /\ ~InterruptedAttemptIsNacked
          /\ stage' = "closing" /\ UNCHANGED group
       \/ stage = "acking" /\ stage' = "closing" /\ group' \in {group, Current}
    /\ UNCHANGED <<policy, end, status, consumerVars, attempts, stopVars, delivered, dlq,
                   history, faults>>

(* The deferred function of Run reads stopIntent and unlocks; a Stop that  *)
(* comes later has no effect on the closure.                               *)
ReadIntent ==
    /\ stage = "closing"
    /\ stage' = IF intent = "permanent" THEN "deleting" ELSE "leaving"
    /\ UNCHANGED <<policy, end, group, status, consumerVars, attempts, stopVars, delivered,
                   dlq, history, faults>>

(* Mutant: a temporary close deletes the group. *)
CloseAlwaysDeletes ==
    /\ \/ /\ stage = "deleting"
          /\ group' = Unset /\ first' = Unset /\ UNCHANGED faults
       \/ stage = "deleting" /\ Fault /\ UNCHANGED <<group, first>>
       \/ stage = "leaving" /\ group' = Unset /\ UNCHANGED <<first, faults>>
    /\ stage' = "ended"
    /\ UNCHANGED <<policy, end, status, consumerVars, attempts, stopVars, delivered, dlq, base>>

(* Consumer.Close: a permanent close deletes the group, and with it the    *)
(* identity; the error of a failed deletion is dropped.                    *)
Close ==
    /\ \/ /\ stage = "deleting"
          /\ group' = Unset /\ first' = Unset /\ UNCHANGED faults
       \/ stage = "deleting" /\ Fault /\ UNCHANGED <<group, first>>
       \/ stage = "leaving" /\ UNCHANGED <<group, first, faults>>
    /\ stage' = "ended"
    /\ UNCHANGED <<policy, end, status, consumerVars, attempts, stopVars, delivered, dlq, base>>

(* The hub process ends without closing. *)
Crash ==
    /\ stage # "down"
    /\ stage' = "down"
    /\ Fault
    /\ UNCHANGED <<policy, end, group, status, consumerVars, attempts, stopVars,
                   delivered, dlq, history>>

-----------------------------------------------------------------------------
WorkerStep ==
    \/ OpenConsumer \/ OptionsInvalid \/ Prepare \/ Receive \/ Reconnect
    \/ DeadLetter \/ Accepted \/ Retry \/ Nack \/ BecomesStale \/ Gone
    \/ Ack \/ Cancelled \/ ReadIntent \/ Close

Next ==
    \/ WorkerStep \/ Publish \/ Start \/ Stop \/ Unsubscribe
    \/ StaleFails \/ ReceiveFails \/ PublishFails \/ AckFails \/ Crash

Spec == Init /\ [][Next]_vars

(* The worker's goroutine and the manager's reconciliation keep running.   *)
FairSpec == Spec /\ WF_vars(WorkerStep) /\ WF_vars(Start)

-----------------------------------------------------------------------------
(* Properties *)

Settled == delivered \cup dlq

(* Consumer.Ack commits a record only after deliver has had it accepted or *)
(* dead-lettered: whatever crashes, stops, redeliveries and reconnects     *)
(* came before, the committed offset has no unresolved message behind it,  *)
(* down to where the group was established.                                *)
ProgressFollowsOutcomes ==
    group # Unset => \A m \in 1..group : m > base => m \in Settled

(* The worker handles records one by one: the callback never accepts a     *)
(* message before every earlier one of this identity is resolved.          *)
DeliveriesAreInOrder ==
    [][\A m \in delivered' \ delivered :
          \A k \in 1 .. m - 1 : k > base => k \in Settled]_vars

(* The worker with its consumer keeps what ContentGroups promises of a     *)
(* group: it begins at the end of the destination (openClient), messages   *)
(* come to an outcome in order (deliver), and Ack, DeadLetter or an        *)
(* interrupted commit move the offset by one message that has its outcome. *)
Content == INSTANCE ContentGroups WITH
    Groups <- {"own"}, Kept <- {}, offset <- [g \in {"own"} |-> group],
    base <- [g \in {"own"} |-> base], settled <- [g \in {"own"} |-> Settled]

ImplementsContent == Content!ContentSpec

(* Receive and Reconnect resume behind the committed offset: a message     *)
(* whose acknowledgement is durable is never attempted again.              *)
CommittedIsNotAttempted ==
    stage \in {"attempting", "interrupted"} /\ group # Unset => group < Current

(* Only a permanent close takes durable progress back; Nack, Reconnect,    *)
(* a temporary close and a restart keep it.                                *)
ProgressIsKept ==
    [][group # Unset =>
          \/ group' # Unset /\ group' >= group
          \/ group' = Unset /\ intent = "permanent" /\ stage = "deleting"]_vars

(* ADR 0015: "reopening an existing identity resumes its durable           *)
(* progress", and receive failures "reconnect without advancing progress": *)
(* no message after the first opening is passed over unresolved.           *)
NothingIsSkipped ==
    first # Unset /\ stage \in {"receiving", "attempting", "interrupted", "acking"} =>
        \A m \in 1..acked : m > first => m \in Settled

(* "Stop interrupts the worker" (worker.go:186): Run returns, wherever the *)
(* stop meets it.                                                          *)
StopInterruptsTheWorker == stopped ~> stage \in {"ended", "down"}

(* The same, except where an interrupted attempt is redelivered at once.   *)
StopEndsTheWorker ==
    (stopped /\ ~(policy.strategy = "message_store" /\ policy.network = "redeliver"
                                                  /\ ~policy.delayed))
        ~> stage \in {"ended", "down"}

(* Bounded HTTP retry: a message behind an established offset is resolved, *)
(* or the subscription leaves the active state, or the worker ends.        *)
MessagesAreSettled ==
    \A m \in 1..MaxMessages :
        (/\ policy.strategy = "http" /\ ~policy.reset
         /\ group # Unset /\ group < m /\ m <= end)
            ~> (m \in Settled \/ status # "active" \/ stage = "ended" \/ group = Unset)

=============================================================================
