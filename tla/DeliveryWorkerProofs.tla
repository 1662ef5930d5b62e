------------------------ MODULE DeliveryWorkerProofs ------------------------
(***************************************************************************)
(* The safety of the delivery worker for any number of messages, faults,   *)
(* attempts and any batch size, under either retry strategy.               *)
(***************************************************************************)
EXTENDS DeliveryWorker, TLAPS

(* Where a working consumer stands: at the committed offset, or where the  *)
(* group was established when nothing is committed.                        *)
Established == acked = IF group = Unset THEN base ELSE group

Working == {"preparing", "receiving", "reconnecting", "attempting", "interrupted", "acking"}

WorkerInv ==
    /\ WorkerTypeOK
    /\ ProgressFollowsOutcomes
    /\ stage \in Working => Established
    /\ stage = "acking" => Current \in Settled
    /\ stage = "deleting" => intent = "permanent"

LEMMA WorkerInitially == Init => WorkerInv
  <1> SUFFICES ASSUME Init PROVE WorkerInv
    OBVIOUS
  <1>1. 0 \in 0 .. MaxAttempts - 1 /\ 0 \in 0..MaxFaults
    BY WorkerConstants
  <1>2. WorkerTypeOK
    BY <1>1, Zenon DEF Init, WorkerTypeOK, Stages
  <1>3. ProgressFollowsOutcomes /\ stage \notin Working \cup {"acking", "deleting"}
    BY DEF Init, ProgressFollowsOutcomes, Working
  <1> QED BY <1>2, <1>3 DEF WorkerInv

(* Resolving the current message and committing it keeps what is behind    *)
(* the committed offset resolved.                                          *)
LEMMA CommitCurrent ==
  ASSUME WorkerInv, stage = "acking", group' \in {group, Current},
         UNCHANGED <<base, delivered, dlq>>
  PROVE  ProgressFollowsOutcomes'
  <1>1. /\ group \in Nat \cup {Unset} /\ acked \in Nat /\ base \in Nat /\ Unset \notin Nat
        /\ Established /\ Current \in Settled /\ Settled' = Settled
        /\ ProgressFollowsOutcomes
    BY WorkerConstants DEF WorkerInv, WorkerTypeOK, Working, Settled
  <1>2. CASE group' = group
    BY <1>1, <1>2 DEF ProgressFollowsOutcomes
  <1>3. CASE group' = Current
    <2>1. SUFFICES ASSUME NEW m \in 1..Current, m > base PROVE m \in Settled
      BY <1>1, <1>3 DEF ProgressFollowsOutcomes
    <2>2. m = Current \/ m \in 1..acked
      BY <1>1 DEF Current
    <2>3. CASE m \in 1..acked
      BY <1>1, <2>1, <2>3 DEF Established, ProgressFollowsOutcomes
    <2> QED BY <1>1, <2>2, <2>3
  <1> QED BY <1>2, <1>3

LEMMA WorkerStepKeepsInv == WorkerInv /\ [Next]_vars => WorkerInv'
  <1> SUFFICES ASSUME WorkerInv, [Next]_vars PROVE WorkerInv'
    OBVIOUS
  <1> USE WorkerConstants
  <1> USE DEF WorkerInv, WorkerTypeOK, Stages, Working, Established, Settled, Current,
              consumerVars, stopVars, history, Fault
  <1>1. CASE UNCHANGED vars
    BY <1>1 DEF vars, ProgressFollowsOutcomes
  <1>2. CASE Publish
    BY <1>2 DEF Publish, ProgressFollowsOutcomes
  <1>3. CASE Start
    BY <1>3, Zenon DEF Start, ProgressFollowsOutcomes
  <1>4. CASE OpenConsumer
    BY <1>4 DEF OpenConsumer, Establish, ProgressFollowsOutcomes
  <1>5. CASE OptionsInvalid
    BY <1>5 DEF OptionsInvalid, AppendStale, ProgressFollowsOutcomes
  <1>6. CASE Prepare
    BY <1>6 DEF Prepare, AppendStale, ProgressFollowsOutcomes
  <1>7. CASE Receive
    BY <1>7 DEF Receive, Begin, ProgressFollowsOutcomes
  <1>8. CASE ReceiveFails
    BY <1>8 DEF ReceiveFails, ProgressFollowsOutcomes
  <1>9. CASE Reconnect
    BY <1>9 DEF Reconnect, Establish, ProgressFollowsOutcomes
  <1>10. CASE DeadLetter
    BY <1>10 DEF DeadLetter, Unwanted, Interrupted, ProgressFollowsOutcomes
  <1>11. CASE Accepted
    BY <1>11 DEF Accepted, Attempting, ProgressFollowsOutcomes
  <1>12. CASE Retry
    BY <1>12 DEF Retry, Attempting, ProgressFollowsOutcomes
  <1>13. CASE Nack
    BY <1>13 DEF Nack, Attempting, Interrupted, ProgressFollowsOutcomes
  <1>14. CASE BecomesStale
    BY <1>14 DEF BecomesStale, Attempting, Interrupted, AppendStale, ProgressFollowsOutcomes
  <1>15. CASE Gone
    BY <1>15 DEF Gone, Attempting, ProgressFollowsOutcomes
  <1>16. CASE PublishFails
    <2>1. status' \in {"active", "stale", "removed"} /\ dlq \subseteq dlq' /\ dlq' \subseteq Nat
      <3>1. status' \in {status, "stale", "removed"}
        BY <1>16 DEF PublishFails, AppendStale
      <3>2. dlq' = dlq \/ dlq' = dlq \cup {acked + 1}
        BY <1>16 DEF PublishFails
      <3>3. acked + 1 \in Nat /\ dlq \subseteq Nat /\ status \in {"active", "stale", "removed"}
        OBVIOUS
      <3>4. dlq \subseteq dlq' /\ dlq' \subseteq Nat
        BY <3>2, <3>3, Zenon
      <3> QED BY <3>1, <3>3, <3>4
    <2>2. /\ stage' = "closing" /\ faults' \in 0..MaxFaults
          /\ UNCHANGED <<policy, end, group, consumerVars, attempts, stopVars, delivered, history>>
      BY <1>16 DEF PublishFails
    <2>3. ProgressFollowsOutcomes'
      BY <2>1, <2>2 DEF ProgressFollowsOutcomes
    <2> QED BY <2>1, <2>2, <2>3
  <1>17. CASE Ack
    <2>1. ProgressFollowsOutcomes'
      BY <1>17, CommitCurrent DEF Ack
    <2> QED BY <1>17, <2>1 DEF Ack, Begin
  <1>18. CASE AckFails
    <2>1. ProgressFollowsOutcomes'
      BY <1>18, CommitCurrent DEF AckFails
    <2> QED BY <1>18, <2>1 DEF AckFails
  <1>19. CASE Stop
    BY <1>19 DEF Stop, ProgressFollowsOutcomes
  <1>20. CASE Unsubscribe
    BY <1>20 DEF Unsubscribe, ProgressFollowsOutcomes
  <1>21. CASE Cancelled
    <2>1. CASE stage = "acking"
      <3>1. ProgressFollowsOutcomes'
        BY <1>21, <2>1, CommitCurrent DEF Cancelled
      <3> QED BY <1>21, <2>1, <3>1 DEF Cancelled
    <2>2. CASE stage # "acking"
      BY <1>21, <2>2 DEF Cancelled, ProgressFollowsOutcomes
    <2> QED BY <2>1, <2>2
  <1>22. CASE Close
    BY <1>22 DEF Close, ProgressFollowsOutcomes
  <1>23. CASE Crash
    BY <1>23 DEF Crash, ProgressFollowsOutcomes
  <1>24. CASE ReadIntent
    BY <1>24 DEF ReadIntent, ProgressFollowsOutcomes
  <1>25. CASE StaleFails
    BY <1>25 DEF StaleFails, AppendStale, ProgressFollowsOutcomes
  <1> QED
    BY <1>1, <1>2, <1>3, <1>4, <1>5, <1>6, <1>7, <1>8, <1>9, <1>10, <1>11, <1>12, <1>13,
       <1>14, <1>15, <1>16, <1>17, <1>18, <1>19, <1>20, <1>21, <1>22, <1>23, <1>24, <1>25,
       Zenon
    DEF Next, WorkerStep

(* The inductive invariant of the worker and its consumer.                 *)
THEOREM WorkerInvariance == Spec => []WorkerInv
  BY WorkerInitially, WorkerStepKeepsInv, PTL DEF Spec

(* The fields of Worker and Consumer keep their types, and the attempts of *)
(* deliverHTTP their bound.                                                *)
THEOREM WorkerTypes == Spec => []WorkerTypeOK
  <1>1. WorkerInv => WorkerTypeOK
    BY DEF WorkerInv
  <1> QED BY <1>1, WorkerInvariance, PTL

(* Consumer.Ack and Consumer.DeadLetter never commit past a message that   *)
(* is neither accepted nor dead-lettered.                                  *)
THEOREM AtLeastOnce == Spec => []ProgressFollowsOutcomes
  <1>1. WorkerInv => ProgressFollowsOutcomes
    BY DEF WorkerInv
  <1> QED BY <1>1, WorkerInvariance, PTL

(* Receive, Nack and Reconnect never bring back a message whose            *)
(* acknowledgement is durable.                                             *)
THEOREM NoAttemptOfCommitted == Spec => []CommittedIsNotAttempted
  <1>1. WorkerInv => CommittedIsNotAttempted
    BY DEF WorkerInv, WorkerTypeOK, CommittedIsNotAttempted, Working, Established, Current
  <1> QED BY <1>1, WorkerInvariance, PTL

(* The callback accepts messages in the order of the content destination,  *)
(* as deliver handles one record at a time.                                *)
THEOREM InOrderDelivery == Spec => DeliveriesAreInOrder
  <1>1. WorkerInv /\ [Next]_vars =>
            [\A m \in delivered' \ delivered :
                \A k \in 1 .. m - 1 : k > base => k \in Settled]_vars
    <2> SUFFICES ASSUME WorkerInv, Next, NEW m \in delivered' \ delivered,
                        NEW k \in 1 .. m - 1, k > base
                 PROVE  k \in Settled
      BY DEF vars
    <2>1. Accepted
      BY Zenon DEF Next, WorkerStep, Publish, Start, OpenConsumer, OptionsInvalid, Prepare, Receive,
             ReceiveFails, Reconnect, DeadLetter, Retry, Nack, BecomesStale, Gone, PublishFails,
             Ack, AckFails, Stop, Unsubscribe, Cancelled, ReadIntent, Close, Crash, StaleFails
    <2>2. /\ m = Current /\ Established /\ acked \in Nat /\ base \in Nat
          /\ ProgressFollowsOutcomes
      BY <2>1 DEF Accepted, Attempting, WorkerInv, WorkerTypeOK, Working
    <2>3. k \in 1..acked
      BY <2>2 DEF Current
    <2> QED BY <2>2, <2>3 DEF Established, ProgressFollowsOutcomes
  <1> QED BY <1>1, WorkerInvariance, PTL DEF Spec, DeliveriesAreInOrder

(* Only a permanent Consumer.Close takes committed progress back.          *)
THEOREM DurableProgress == Spec => ProgressIsKept
  <1>1. WorkerInv /\ [Next]_vars =>
            [group # Unset =>
                \/ group' # Unset /\ group' >= group
                \/ group' = Unset /\ intent = "permanent" /\ stage = "deleting"]_vars
    <2> SUFFICES ASSUME WorkerInv, Next, group # Unset
                 PROVE  \/ group' # Unset /\ group' >= group
                        \/ group' = Unset /\ intent = "permanent" /\ stage = "deleting"
      BY DEF vars
    <2>1. group \in Nat /\ acked \in Nat /\ Unset \notin Nat
          /\ (stage = "acking" => Current = group + 1)
      BY WorkerConstants DEF WorkerInv, WorkerTypeOK, Working, Established, Current
    <2>2. CASE group' = group
      BY <2>1, <2>2
    <2>3. CASE Close
      BY <2>1, <2>3 DEF Close, WorkerInv
    <2>4. CASE Ack \/ AckFails \/ Cancelled
      <3>1. group' = group \/ (stage = "acking" /\ group' = Current)
        BY <2>4 DEF Ack, AckFails, Cancelled
      <3> QED BY <2>1, <3>1
    <2> QED
      BY <2>2, <2>3, <2>4, Zenon
      DEF Next, WorkerStep, Publish, Start, OpenConsumer, OptionsInvalid, Prepare, Receive,
          ReceiveFails, Reconnect, DeadLetter, Accepted, Retry, Nack, BecomesStale, Gone,
          PublishFails, StaleFails, Stop, Unsubscribe, ReadIntent, Crash
  <1> QED BY <1>1, WorkerInvariance, PTL DEF Spec, ProgressIsKept

-----------------------------------------------------------------------------
(* The worker implements ContentGroups *)

(* The consumer hands out no more than it polled, polls no more than there *)
(* is, and a message is current only when it was handed out.               *)
Polled ==
    /\ base <= end /\ (group # Unset => group <= end)
    /\ stage \in Working => acked <= handed /\ handed <= position /\ position <= end
    /\ stage \in {"attempting", "interrupted", "acking"} => acked < handed

LEMMA StepKeepsPolled == WorkerInv /\ Polled /\ [Next]_vars => Polled'
  <1> SUFFICES ASSUME WorkerInv, Polled, [Next]_vars PROVE Polled'
    OBVIOUS
  <1>1. /\ end \in Nat /\ group \in Nat \cup {Unset} /\ Unset \notin Nat /\ acked \in Nat
        /\ handed \in Nat /\ position \in Nat /\ base \in Nat /\ BatchSize \in Nat \ {0}
    BY WorkerConstants DEF WorkerInv, WorkerTypeOK
  <1> USE DEF Polled, Working, Current, consumerVars, history
  <1>2. CASE UNCHANGED <<end, group, base, stage, consumerVars>>
    BY <1>2
  <1>3. CASE Publish
    BY <1>1, <1>3 DEF Publish
  <1>4. CASE UNCHANGED <<end, group, base, consumerVars>>
             /\ (stage' \notin Working \/ (stage' = "receiving" /\ stage \in Working)
                 \/ (stage' = "reconnecting" /\ stage \in Working)
                 \/ (stage' = "acking" /\ stage \in {"attempting", "interrupted"}))
    BY <1>4
  <1>5. CASE OpenConsumer \/ Reconnect
    BY <1>1, <1>5 DEF OpenConsumer, Reconnect, Establish
  <1>6. CASE Receive
    <2>1. /\ UNCHANGED <<end, group, base, acked>> /\ stage = "receiving"
          /\ handed < handed' /\ handed' <= position' /\ position' <= end
      <3>1. CASE handed < position /\ position' = position /\
                 handed' = IF handed + BatchSize < position THEN handed + BatchSize ELSE position
        BY <1>1, <1>6, <3>1 DEF Receive
      <3>2. CASE handed = position /\ \E p \in position + 1 .. end : position' = p /\ handed' = p
        BY <1>1, <1>6, <3>2 DEF Receive
      <3> QED BY <1>6, <3>1, <3>2 DEF Receive
    <2>2. handed' \in Nat /\ position' \in Nat
      BY <1>1, <1>6 DEF Receive
    <2>3. acked < handed'
      BY <1>1, <2>1, <2>2
    <2>4. acked <= handed' /\ base <= end
      BY <1>1, <2>2, <2>3
    <2> QED BY <2>1, <2>3, <2>4
  <1>7. CASE Nack
    <2>1. /\ UNCHANGED <<end, group, base, acked, position>> /\ stage \in Working
          /\ handed' = acked /\ stage' = "receiving"
      BY <1>7 DEF Nack, Attempting, Interrupted
    <2>2. acked <= acked /\ acked <= position
      BY <1>1, <2>1
    <2> QED BY <2>1, <2>2
  <1>8. CASE Ack
    <2>1. /\ UNCHANGED <<end, base, handed, position>> /\ stage = "acking"
          /\ group' = acked + 1 /\ acked' = acked + 1
          /\ (stage' = "receiving" \/ acked + 1 < handed)
      BY <1>8 DEF Ack
    <2>2. acked + 1 <= handed /\ acked + 1 <= end
      BY <1>1, <2>1
    <2>3. stage' \in {"attempting", "interrupted", "receiving"}
      BY <1>8 DEF Ack, Begin
    <2> QED BY <2>1, <2>2, <2>3
  <1>9. CASE (AckFails \/ Cancelled) /\ group' # group
    <2>1. /\ UNCHANGED <<end, base, consumerVars>> /\ stage = "acking"
          /\ group' = acked + 1 /\ stage' = "closing"
      BY <1>9 DEF AckFails, Cancelled
    <2>2. acked + 1 <= end
      BY <1>1, <2>1
    <2> QED BY <2>1, <2>2
  <1>10. CASE (AckFails \/ Cancelled) /\ group' = group
    <2>1. UNCHANGED <<end, base, consumerVars>> /\ stage' \in {"closing", "ended"}
      BY <1>10 DEF AckFails, Cancelled
    <2> QED BY <1>10, <2>1
  <1>11. CASE Close
    <2>1. UNCHANGED <<end, base, consumerVars>> /\ stage' = "ended" /\ group' \in {group, Unset}
      BY <1>11 DEF Close
    <2> QED BY <2>1
  <1>11a. CASE ReadIntent \/ StaleFails
    <2>1. /\ UNCHANGED <<end, group, base, consumerVars>>
          /\ stage' \in {"closing", "leaving", "deleting", "ended"}
      BY <1>11a DEF ReadIntent, StaleFails
    <2> QED BY <1>4, <2>1
  <1>12. CASE Prepare
    <2>1. /\ UNCHANGED <<end, group, base, consumerVars>> /\ stage = "preparing"
          /\ stage' \in {"receiving", "closing"}
      BY <1>12 DEF Prepare
    <2> QED BY <1>4, <2>1
  <1>13. CASE DeadLetter \/ Accepted \/ Retry \/ BecomesStale \/ Gone \/ PublishFails
    <2>1. /\ UNCHANGED <<end, group, base, consumerVars>> /\ stage \in {"attempting", "interrupted"}
          /\ stage' \in {"acking", "closing", stage}
      BY <1>13 DEF DeadLetter, Unwanted, Accepted, Attempting, Retry, Interrupted, BecomesStale,
                   Gone, PublishFails
    <2> QED BY <1>2, <1>4, <2>1
  <1> QED
    BY <1>2, <1>3, <1>4, <1>5, <1>6, <1>7, <1>8, <1>9, <1>10, <1>11, <1>11a, <1>12,
       <1>13, Zenon
    DEF Next, vars, WorkerStep, Start, OptionsInvalid, ReceiveFails, Stop, Unsubscribe, Crash

(* A step that neither publishes nor begins, settles or commits. *)
LEMMA ContentStutters ==
  ASSUME UNCHANGED <<end, group, base, delivered, dlq>> PROVE UNCHANGED Content!contentVars
  BY DEF Content!contentVars, Settled

(* A consumer is established. *)
LEMMA EstablishRefines ==
  ASSUME Establish, UNCHANGED <<end, group, delivered, dlq>>
  PROVE  [Content!ContentNext]_(Content!contentVars)
  <1>1. Settled' = Settled
    BY DEF Settled
  <1>2. CASE group = Unset
    <2>1. base' = end
      BY <1>2 DEF Establish
    <2>2. Content!Begin("own")
      BY <1>1, <1>2, <2>1 DEF Content!Begin
    <2> QED BY <2>2 DEF Content!ContentNext
  <1>3. CASE group # Unset
    BY <1>3, ContentStutters DEF Establish
  <1> QED BY <1>2, <1>3

(* The current message comes to an outcome. *)
LEMMA OutcomeRefines ==
  ASSUME WorkerInv, Polled, stage \in {"attempting", "interrupted"},
         Settled' = Settled \cup {Current}, UNCHANGED <<end, group, base>>
  PROVE  Content!ContentNext
  <1>1. /\ acked \in Nat /\ base \in Nat /\ end \in Nat /\ handed \in Nat /\ position \in Nat
        /\ Unset \notin Nat /\ group \in Nat \cup {Unset} /\ Established /\ ProgressFollowsOutcomes
    BY WorkerConstants DEF WorkerInv, WorkerTypeOK, Working
  <1>2. Current \in 1..end
    <2>1. acked < handed /\ handed <= position /\ position <= end
      BY DEF Polled, Working
    <2> QED BY <1>1, <2>1 DEF Current
  <1>3. base + 1 .. Current - 1 \subseteq Settled
    <2> SUFFICES ASSUME NEW m \in base + 1 .. Current - 1 PROVE m \in Settled
      OBVIOUS
    <2>1. m \in 1..acked /\ m > base
      BY <1>1 DEF Current
    <2>2. group # Unset /\ acked = group
      BY <1>1, <2>1 DEF Established
    <2> QED BY <2>1, <2>2, <1>1 DEF ProgressFollowsOutcomes
  <1>4. Content!Outcome("own", Current)
    BY <1>3, Zenon DEF Content!Outcome
  <1> QED BY <1>2, <1>4 DEF Content!ContentNext

(* The current message, settled, is committed. *)
LEMMA CommitRefines ==
  ASSUME WorkerInv, stage = "acking", group' = Current, UNCHANGED <<end, base, delivered, dlq>>
  PROVE  Content!ContentNext
  <1>1. /\ Established /\ Current \in Settled /\ Settled' = Settled /\ acked \in Nat
    BY DEF WorkerInv, WorkerTypeOK, Working, Settled
  <1>2. Current = 1 + (IF group = Unset THEN base ELSE group)
    <2>1. acked + 1 = 1 + acked
      BY <1>1
    <2> QED BY <1>1, <2>1 DEF Established, Current
  <1>3. Content!Commit("own")
    BY <1>1, <1>2 DEF Content!Commit
  <1> QED BY <1>3 DEF Content!ContentNext

LEMMA WorkerStepRefines ==
  WorkerInv /\ Polled /\ [Next]_vars => [Content!ContentNext]_(Content!contentVars)
  <1> SUFFICES ASSUME WorkerInv, Polled, [Next]_vars
               PROVE  [Content!ContentNext]_(Content!contentVars)
    OBVIOUS
  <1>1. CASE UNCHANGED <<end, group, base, delivered, dlq>>
    BY <1>1, ContentStutters
  <1>2. CASE Publish
    <2>1. Content!Append
      BY <1>2 DEF Publish, history, Settled, Content!Append
    <2> QED BY <2>1 DEF Content!ContentNext
  <1>3. CASE OpenConsumer \/ Reconnect
    BY <1>3, EstablishRefines DEF OpenConsumer, Reconnect
  <1>4. CASE DeadLetter \/ Accepted \/ PublishFails
    <2>1. stage \in {"attempting", "interrupted"} /\ UNCHANGED <<end, group, base>>
      BY <1>4 DEF DeadLetter, Unwanted, Interrupted, Accepted, Attempting, PublishFails, history
    <2>2. \/ UNCHANGED <<delivered, dlq>> \/ Settled' = Settled \cup {Current}
      BY <1>4 DEF DeadLetter, Accepted, PublishFails, Settled
    <2> QED BY <1>1, <2>1, <2>2, OutcomeRefines
  <1>5. CASE Ack \/ AckFails \/ Cancelled
    <2>1. /\ UNCHANGED <<end, base, delivered, dlq>>
          /\ group' = group \/ (stage = "acking" /\ group' = Current)
      BY <1>5 DEF Ack, AckFails, Cancelled, history
    <2> QED BY <1>1, <2>1, CommitRefines
  <1>6. CASE Close
    <2>1. UNCHANGED <<end, base, delivered, dlq>> /\ group' \in {group, Unset}
      BY <1>6 DEF Close
    <2>2. CASE group' = Unset
      <3>1. Content!Delete("own")
        BY <2>1, <2>2 DEF Content!Delete, Settled
      <3> QED BY <3>1 DEF Content!ContentNext
    <2> QED BY <1>1, <2>1, <2>2
  <1> QED
    BY <1>1, <1>2, <1>3, <1>4, <1>5, <1>6, Zenon
    DEF Next, vars, history, WorkerStep, Start, OptionsInvalid, Prepare, Receive, ReceiveFails,
        Retry, Nack, BecomesStale, Gone, Stop, Unsubscribe, ReadIntent, StaleFails, Crash

(* Retries, redeliveries, dead letters, stops, interrupted commits,        *)
(* reconnects and crashes of a worker and its consumer never show in its   *)
(* group as anything but the steps ContentGroups allows.                   *)
THEOREM WorkerImplementsContent == Spec => ImplementsContent
  <1>1. Init => Polled
    BY DEF Init, Polled, Working
  <1>2. Init => Content!ContentInit
    BY DEF Init, Settled, Content!ContentInit
  <1> QED
    BY <1>1, <1>2, StepKeepsPolled, WorkerInvariance, WorkerStepRefines, PTL
    DEF Spec, ImplementsContent, Content!ContentSpec

=============================================================================
