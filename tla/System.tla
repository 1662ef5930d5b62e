------------------------------- MODULE System -------------------------------
(***************************************************************************)
(* The hubs of HubProjection connected to the consolidator, in place of    *)
(* the promise that SnapshotService makes.                                 *)
(*                                                                         *)
(* A hub's request is an HTTP request over a connection (a client of       *)
(* Consolidator).  It may not get through, its answer may be lost or take  *)
(* its time, and a hub that gives up leaves it behind: the consolidator    *)
(* goes on with it, and the hub that starts again uses another connection. *)
(* The remaining connections are those of management queries.              *)
(***************************************************************************)
EXTENDS Consolidator

CONSTANTS
    Hubs,
    BufferMax,    \* as in HubProjection
    ShortFetches,
    MaxHubFaults, \* bound: faults of hubs in one behaviour
    Unset

VARIABLES
    group, stage, acked, position, cursor, next, view, barrier, joined, \* of HubProjection
    hubFaults,
    connection, \* the connection of each hub's request
    since,      \* history: length of the log when the hub asked
    taken       \* history: greatest revision answered to a hub

hub == <<group, acked, position, cursor, next, view, barrier, joined, hubFaults>>
connections == <<connection, since, taken>>
systemVars == <<vars, hub, stage, connections>>

(* What the hubs see of it: a request is pending while its hub waits. *)
Hub == INSTANCE HubProjectionProofs WITH
    Clients <- Hubs,
    MaxFaults <- MaxHubFaults,
    NotAsked <- Nobody,
    faults <- hubFaults,
    pending <- [h \in Hubs |-> IF stage[h] = "asked" THEN since[h] ELSE Nobody],
    served <- taken

SystemInit ==
    /\ Init
    /\ stage = [h \in Hubs |-> "down"]
    /\ connection = [h \in Hubs |-> Nobody]
    /\ since = [h \in Hubs |-> 0]
    /\ taken = 0
    /\ Hub!HubInit

Free(c) == \A h \in Hubs : connection[h] # c

-----------------------------------------------------------------------------
(* The request of a hub reaches serveSnapshot, or it does not: the         *)
(* consolidator is down, not ready or not reachable.                       *)
Asks(h) ==
    /\ stage[h] = "buffered"
    /\ \/ \E c \in Clients :
             /\ Free(c) /\ Request(c)
             /\ connection' = [connection EXCEPT ![h] = c]
       \/ UNCHANGED <<vars, connection>>
    /\ since' = [since EXCEPT ![h] = Len(log)]
    /\ stage' = [stage EXCEPT ![h] = "asked"]
    /\ UNCHANGED <<hub, taken>>

(* How many events the snapshot in memory may contain. *)
Contained == {n \in 0..Index : snapshot = Reduction(n)}

(* serveSnapshot answers; the hub receives the response later, in HubRuns. *)
Obtains(h) ==
    /\ stage[h] = "asked" /\ connection[h] \in Clients
    /\ Answer(connection[h])
    /\ next' = [next EXCEPT ![h] = snapshot]
    /\ \E n \in Contained \cup {0} :
          /\ \A m \in Contained : m <= n
          /\ barrier' = [barrier EXCEPT ![h] = n]
          /\ joined' = [joined EXCEPT ![h] = since[h] <= n \/ acked[h] <= n]
    /\ stage' = [stage EXCEPT ![h] = "answered"]
    /\ connection' = [connection EXCEPT ![h] = Nobody]
    /\ taken' = IF taken < snapshot.revision THEN snapshot.revision ELSE taken
    /\ UNCHANGED <<group, acked, position, cursor, view, hubFaults, since>>

(* The hub gets an error or no answer in time, and its start fails. *)
GivesUp(h) ==
    /\ stage[h] \in {"asked", "answered"}
    /\ Hub!Down(h)
    /\ connection' = [connection EXCEPT ![h] = Nobody]
    /\ UNCHANGED <<vars, group, hubFaults, since, taken>>

(* A crash of the hub, an error of its consumer.  (Down is a part of Fails *)
(* and comes first because what is pending follows from it.)               *)
HubFails(h) ==
    /\ UNCHANGED <<vars, since, taken>>
    /\ Hub!Down(h) /\ Hub!Fails(h)
    /\ connection' = [connection EXCEPT ![h] = Nobody]

(* What a hub does by itself (Idle changes nothing). *)
HubRuns(h) ==
    /\ UNCHANGED <<vars, connections>>
    /\ \/ Hub!Open(h) \/ Hub!Buffer(h) \/ Hub!CheckBuffer(h) \/ Hub!ReceiveSnapshot(h)
       \/ Hub!Receive(h) \/ Hub!Reduce(h) \/ Hub!Reduced(h) \/ Hub!Ack(h) \/ Hub!Install(h)

HubAppends ==
    /\ Hub!AppendByReplayingHub
    /\ UNCHANGED <<durable, process, requests, faults, hub, stage, connections>>

(* What the consolidator does without the hubs.  An answer that no hub     *)
(* obtains is lost, or belongs to a query or to a hub that has given up.   *)
Consolidates ==
    /\ \/ LoadSnapshot \/ LoadInterrupted \/ PublishInitial
       \/ TailConsume \/ CheckCaughtUp \/ BackgroundFetch \/ Receive
       \/ ReduceRejected \/ ReduceUnchanged \/ SaveAndInstall \/ SaveFails
       \/ Ack \/ AckFails \/ ConsumerError \/ ContextOver
       \/ \E c \in Clients : (Free(c) /\ Request(c)) \/ Refresh(c) \/ Answer(c)
       \/ Exit \/ Crash
    /\ UNCHANGED <<hub, stage, connections>>

SystemNext ==
    \/ HubAppends \/ Consolidates
    \/ \E h \in Hubs : Asks(h) \/ Obtains(h) \/ GivesUp(h) \/ HubFails(h) \/ HubRuns(h)

SystemSpec == SystemInit /\ [][SystemNext]_systemVars

-----------------------------------------------------------------------------
(* What HubProjection assumes of its constants. *)
SystemConstants ==
    /\ BufferMax \in Nat \ {0}
    /\ ShortFetches \in BOOLEAN
    /\ MaxHubFaults \in Nat
    /\ Unset \notin Nat

(* A hub has a connection only while it waits, and none that another hub   *)
(* has.                                                                    *)
LinkInv ==
    /\ stage \in [Hubs -> Hub!Stages]
    /\ connection \in [Hubs -> Clients \cup {Nobody}]
    /\ since \in [Hubs -> Nat]
    /\ taken \in Nat /\ taken <= served
    /\ \A h \in Hubs : connection[h] \in Clients =>
          /\ stage[h] = "asked"
          /\ \A g \in Hubs : connection[g] = connection[h] => g = h

(* What a hub has obtained survives the consolidator that answered it: a   *)
(* snapshot of that revision or a greater one is saved                     *)
(* (service.go:142-150, messagestore.go:160).                              *)
ObtainedStateIsSaved == taken > 0 => \E s \in snapshots : taken <= s.revision

(* A hub whose group stands at a record that was on the log when a request *)
(* came in that was answered before the hub's own, of this hub or of any   *)
(* other client, gets a snapshot that leaves no gap (service.go:118-166).  *)
(* A first request has no such promise: its refresh may find the consumer  *)
(* caught up on a fetch that is behind (consumer.go:193-201).              *)
EarlierAnswersCloseTheGap ==
    [][\A h \in Hubs :
          /\ stage[h] = "asked" /\ stage'[h] = "answered"
          /\ acked[h] <= owed[connection[h]]
          => joined'[h]]_systemVars

SystemInv == ConsolidatorInv /\ BarrierInv /\ LinkInv

=============================================================================
