---------------------------- MODULE ContentGroups ---------------------------
(***************************************************************************)
(* What delivery promises of the consumer groups of a content destination, *)
(* without workers, consumers, retries, rebalances and restarts.  A group  *)
(* begins at the end of the destination.  From there its messages come to  *)
(* an outcome (accepted by a callback or dead-lettered) none ahead of an   *)
(* earlier one, some of them several times.  The group commits one message *)
(* at a time, each after its outcome.  A group may be deleted with its     *)
(* progress, except one that is kept.                                      *)
(*                                                                         *)
(* DeliveryWorker implements this for the group of one subscription, and   *)
(* Delivery for all groups of a hub, with the shared ones kept.            *)
(***************************************************************************)
EXTENDS Naturals

CONSTANTS
    Groups,  \* the consumer groups of the destination
    Kept,    \* those that closing a consumer does not delete
    Unset    \* not a number: no offset

VARIABLES
    end,     \* content messages 1..end
    offset,  \* committed offset of a group, as the last message it passes
    base,    \* the end at which a group without offset began
    settled  \* the messages of a group that came to an outcome

contentVars == <<end, offset, base, settled>>

ContentInit ==
    /\ end = 0
    /\ offset = [g \in Groups |-> Unset] /\ base = [g \in Groups |-> 0]
    /\ settled = [g \in Groups |-> {}]

Append == end' = end + 1 /\ UNCHANGED <<offset, base, settled>>

(* Consumption of a group without progress begins at the end. *)
Begin(g) ==
    /\ offset[g] = Unset
    /\ base' = [base EXCEPT ![g] = end]
    /\ UNCHANGED <<end, offset, settled>>

Outcome(g, m) ==
    /\ base[g] + 1 .. m - 1 \subseteq settled[g]
    /\ settled' = [settled EXCEPT ![g] = @ \cup {m}]
    /\ UNCHANGED <<end, offset, base>>

Commit(g) ==
    LET next == 1 + (IF offset[g] = Unset THEN base[g] ELSE offset[g])
    IN  /\ next \in settled[g]
        /\ offset' = [offset EXCEPT ![g] = next]
        /\ UNCHANGED <<end, base, settled>>

Delete(g) ==
    /\ g \notin Kept
    /\ offset' = [offset EXCEPT ![g] = Unset]
    /\ UNCHANGED <<end, base, settled>>

ContentNext ==
    \/ Append
    \/ \E g \in Groups :
          Begin(g) \/ Commit(g) \/ Delete(g) \/ \E m \in 1..end : Outcome(g, m)

ContentSpec == ContentInit /\ [][ContentNext]_contentVars

=============================================================================
