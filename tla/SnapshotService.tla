--------------------------- MODULE SnapshotService --------------------------
(***************************************************************************)
(* What the consolidator promises to the hubs, without how it does it:     *)
(* answers are reductions of prefixes of the log, and no answer has a      *)
(* smaller revision than an earlier one.  A request may always be refused. *)
(* The promise holds whatever events the hubs append.                      *)
(*                                                                         *)
(* It is not a promise that an answer contains every event that was on the *)
(* log when its request came in: the code aims at that and does not keep   *)
(* it (AnswersContainTheBarrier of Consolidator).  What it does keep is in *)
(* SnapshotBarrier, which Consolidator implements; HubProjection relies on *)
(* this module only.                                                       *)
(***************************************************************************)
EXTENDS StateLog

CONSTANTS
    Clients,  \* the hubs
    NotAsked  \* no request is pending

ASSUME NotAskedAssumption == NotAsked \notin Nat

VARIABLES
    pending, \* the length of the log when the client's request came in
    served   \* the greatest revision answered so far

serviceVars == <<log, canon, pending, served>>

ServiceTypeOK ==
    /\ LogTypeOK
    /\ pending \in [Clients -> Nat \cup {NotAsked}]
    /\ served \in Nat

ServiceInit ==
    /\ LogInit
    /\ pending = [c \in Clients |-> NotAsked]
    /\ served = 0

Ask(c) ==
    /\ pending[c] = NotAsked
    /\ pending' = [pending EXCEPT ![c] = Len(log)]
    /\ UNCHANGED <<log, canon, served>>

(* The answer to c is the state after n events. *)
AnswerWith(c, n) ==
    /\ pending[c] # NotAsked
    /\ n \in 0..Index
    /\ Reduction(n).revision >= served
    /\ served' = Reduction(n).revision
    /\ pending' = [pending EXCEPT ![c] = NotAsked]
    /\ UNCHANGED <<log, canon>>

Refuse(S) ==
    /\ pending' = [c \in Clients |-> IF c \in S THEN NotAsked ELSE pending[c]]
    /\ UNCHANGED <<log, canon, served>>

ServiceNext ==
    \/ \E e \in Event : AppendRecord(e) /\ UNCHANGED <<pending, served>>
    \/ \E c \in Clients : Ask(c) \/ \E n \in 0..Index : AnswerWith(c, n)
    \/ \E S \in SUBSET Clients : Refuse(S)

ServiceSpec == ServiceInit /\ [][ServiceNext]_serviceVars

=============================================================================
