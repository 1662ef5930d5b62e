--------------------------- MODULE SnapshotBarrier --------------------------
(***************************************************************************)
(* How far a snapshot request is a barrier.  An answer contains every      *)
(* event that was on the log when an earlier request came in, if that one  *)
(* had been answered before this one came in.  It may miss events that     *)
(* were appended later, also before its own request: the Kafka client of   *)
(* the consolidator may hold records fetched before that, and takes the    *)
(* end of the log that came with them for the end.  But it fetches again   *)
(* only behind what it has handed out.                                     *)
(***************************************************************************)
EXTENDS SnapshotService

VARIABLES
    owed,    \* the events that the answer to the client contains at least
    answered \* the log had this length when some answered request came in

barrierVars == <<serviceVars, owed, answered>>

BarrierInit ==
    /\ ServiceInit
    /\ owed = [c \in Clients |-> 0]
    /\ answered = 0

AskBehind(c) ==
    /\ Ask(c)
    /\ owed' = [owed EXCEPT ![c] = answered]
    /\ UNCHANGED answered

AnswerFully(c, n) ==
    /\ AnswerWith(c, n)
    /\ owed[c] <= n
    /\ answered' = IF answered < pending[c] THEN pending[c] ELSE answered
    /\ owed' = [owed EXCEPT ![c] = 0]

RefuseAll(S) ==
    /\ Refuse(S)
    /\ owed' = [c \in Clients |-> IF c \in S THEN 0 ELSE owed[c]]
    /\ UNCHANGED answered

BarrierNext ==
    \/ \E e \in Event : AppendRecord(e) /\ UNCHANGED <<pending, served, owed, answered>>
    \/ \E c \in Clients : AskBehind(c) \/ \E n \in 0..Index : AnswerFully(c, n)
    \/ \E S \in SUBSET Clients : RefuseAll(S)

BarrierSpec == BarrierInit /\ [][BarrierNext]_barrierVars

=============================================================================
