--------------------------- MODULE DeliveryManager ---------------------------
(***************************************************************************)
(* The delivery manager of a hub (internal/delivery/manager.go) driven by  *)
(* the loop that consumes state events (consumeHub of app/runtime/hub.go). *)
(*                                                                         *)
(* The state log is the sequence of views its events lead to: the status   *)
(* of one topic and of the subscriptions to it that this server owns.  The *)
(* hub reconciles against a view that may lag behind the last one.  Of a   *)
(* worker (DeliveryWorker) this module has where its Run is, the stop      *)
(* requests and the transition it leaves on the log.  Delivery adds the    *)
(* consumers.                                                              *)
(*                                                                         *)
(* A stale transition of a removed subscription is rejected by the reducer *)
(* and ends the hub that consumes it; HubProjection and Consolidator model *)
(* rejected events, this module only logs without them.                    *)
(***************************************************************************)
EXTENDS Integers, Sequences

CONSTANTS
    Subs,         \* the subscriptions this server owns
    MaxViews,     \* bound: views of the state log
    MaxRestarts   \* bound: restarts of the hub

ASSUME ManagerConstants == MaxViews \in Nat \ {0} /\ MaxRestarts \in Nat

VARIABLES
    views,     \* the views of the state log
    seen,      \* the view reconciled last (consumeHub.lastRevision)
    worker,    \* Manager.workers: none, or where the Run of the entry is
    alive,     \* the goroutines that run a worker of a subscription
    intent,    \* Worker.stopIntent
    stopped,   \* Worker.stopRequested
    reported,  \* history: the view of the last transition a worker appended
    restarts

vars == <<views, seen, worker, alive, intent, stopped, reported, restarts>>

(* A Run opens its consumer and works with it.  On its way out it reads    *)
(* stopIntent, closes the consumer, for the time being (leaving) or for    *)
(* good (deleting), and returns; then the manager closes done.             *)
WorkerStates ==
    {"none", "opening", "open", "returning", "leaving", "deleting", "closed", "done"}

Statuses == {"absent", "active", "stale", "removed"}
View == [topic : {"active", "inactive"}, status : [Subs -> Statuses]]

ManagerTypeOK ==
    /\ views \in Seq(View) /\ Len(views) \in 1..MaxViews
    /\ seen \in 0..Len(views)
    /\ worker \in [Subs -> WorkerStates]
    /\ alive \in [Subs -> Nat]
    /\ intent \in [Subs -> {"temporary", "permanent"}]
    /\ stopped \in [Subs -> BOOLEAN]
    /\ reported \in [Subs -> 0..Len(views)]
    /\ restarts \in 0..MaxRestarts

Init ==
    /\ views = <<[topic |-> "active", status |-> [s \in Subs |-> "absent"]]>>
    /\ seen = 0
    /\ worker = [s \in Subs |-> "none"] /\ alive = [s \in Subs |-> 0]
    /\ intent = [s \in Subs |-> "temporary"]
    /\ stopped = [s \in Subs |-> FALSE]
    /\ reported = [s \in Subs |-> 0]
    /\ restarts = 0

Last == views[Len(views)]

Desired(view, s) == view.topic = "active" /\ view.status[s] = "active"

-----------------------------------------------------------------------------
(* Events of other origin *)

AppendView(view) ==
    /\ Len(views) < MaxViews /\ view # Last
    /\ views' = Append(views, view)

Verify(s) ==
    /\ Last.topic = "active" /\ Last.status[s] = "absent"
    /\ AppendView([Last EXCEPT !.status[s] = "active"])
    /\ UNCHANGED <<seen, worker, alive, intent, stopped, reported, restarts>>

Unsubscribe(s) ==
    /\ Last.status[s] \in {"active", "stale"}
    /\ AppendView([Last EXCEPT !.status[s] = "removed"])
    /\ UNCHANGED <<seen, worker, alive, intent, stopped, reported, restarts>>

SwitchTopic ==
    /\ \/ Last.topic = "active" /\ AppendView([Last EXCEPT !.topic = "inactive"])
       \/ Last.topic = "inactive" /\ AppendView([Last EXCEPT !.topic = "active"])
    /\ UNCHANGED <<seen, worker, alive, intent, stopped, reported, restarts>>

-----------------------------------------------------------------------------
(* The manager *)

(* Mutant: the entry of a stopped worker is deleted at once. *)
ForgetAtOnce(s) == TRUE

(* An entry that is not wanted any more is deleted only once its Run has   *)
(* returned.                                                               *)
Forget(s) == worker[s] = "done"

StopIntent(view, s) ==
    IF view.status[s] \in {"absent", "removed"} \/ view.topic = "inactive"
    THEN "permanent" ELSE "temporary"

(* Mutant: only removed subscriptions lose their worker. *)
StopsRemoved(view, s) == view.status[s] = "removed" /\ worker[s] # "none"

Stops(view, s) == ~Desired(view, s) /\ worker[s] # "none"

(* Reconcile with a view that consumeHub has not reconciled yet. *)
Reconcile ==
    \E i \in seen + 1 .. Len(views) :
        LET starts(s) == Desired(views[i], s) /\ worker[s] = "none"
            stops(s) == Stops(views[i], s)
            forgets(s) == stops(s) /\ Forget(s)
        IN  /\ seen' = i
            /\ worker' = [s \in Subs |-> IF starts(s) THEN "opening"
                                         ELSE IF forgets(s) THEN "none"
                                         ELSE worker[s]]
            /\ alive' = [s \in Subs |-> IF starts(s) THEN alive[s] + 1 ELSE alive[s]]
            /\ stopped' = [s \in Subs |-> ~forgets(s) /\ (stops(s) \/ stopped[s])]
            /\ intent' = [s \in Subs |->
                  IF forgets(s) THEN "temporary"
                  ELSE IF stops(s) /\ StopIntent(views[i], s) = "permanent" THEN "permanent"
                  ELSE intent[s]]
            /\ UNCHANGED <<views, reported, restarts>>

(* The hub ends and starts again, from a snapshot that contains the log    *)
(* up to its start, and reconciles it as its first step.                   *)
Restart ==
    /\ restarts < MaxRestarts
    /\ restarts' = restarts + 1
    /\ seen' = Len(views) - 1
    /\ worker' = [s \in Subs |-> "none"] /\ alive' = [s \in Subs |-> 0]
    /\ intent' = [s \in Subs |-> "temporary"] /\ stopped' = [s \in Subs |-> FALSE]
    /\ UNCHANGED <<views, reported>>

-----------------------------------------------------------------------------
(* Worker.Run *)

Opens(s) ==
    /\ worker[s] = "opening"
    /\ worker' = [worker EXCEPT ![s] = "open"]
    /\ UNCHANGED <<views, seen, alive, intent, stopped, reported, restarts>>

(* Run comes to its end with the intent i: it returns at once while it has *)
(* no consumer, and else through the deferred close of its consumer.       *)
Ends(s, i) ==
    /\ worker' = [worker EXCEPT ![s] = IF @ = "open" THEN "returning" ELSE "closed"]
    /\ intent' = [intent EXCEPT ![s] = i]
    /\ UNCHANGED <<seen, alive, stopped, restarts>>

(* Mutant: a Run that has returned ends again. *)
RegisteredIsRunning(s) == worker[s] # "none"

Running(s) == worker[s] \in {"opening", "open"}

(* Run ends with its transition appended: stale, or removed by HTTP 410.   *)
(* Of a subscription already there it changes no view.  An append that is  *)
(* reported as failed may have happened; then 410 does not set the intent. *)
EndsStale(s) ==
    /\ Running(s)
    /\ \/ /\ Last.status[s] = "active"
          /\ AppendView([Last EXCEPT !.status[s] = "stale"])
          /\ reported' = [reported EXCEPT ![s] = Len(views')]
       \/ Last.status[s] = "stale" /\ UNCHANGED <<views, reported>>
    /\ Ends(s, intent[s])

EndsGone(s) ==
    /\ worker[s] = "open"
    /\ \/ /\ Last.status[s] # "removed"
          /\ AppendView([Last EXCEPT !.status[s] = "removed"])
          /\ reported' = [reported EXCEPT ![s] = Len(views')]
       \/ Last.status[s] = "removed" /\ UNCHANGED <<views, reported>>
    /\ Ends(s, "permanent") \/ Ends(s, intent[s])

(* Run ends because it was stopped. *)
EndsStopped(s) ==
    /\ Running(s) /\ stopped[s]
    /\ Ends(s, intent[s])
    /\ UNCHANGED <<views, reported>>

(* Run ends with an error of the store, without a transition. *)
EndsWithError(s) ==
    /\ Running(s)
    /\ Ends(s, intent[s])
    /\ UNCHANGED <<views, reported>>

(* Mutant: the consumer is always closed for the time being. *)
ReadsNoIntent(s) ==
    /\ worker[s] = "returning"
    /\ worker' = [worker EXCEPT ![s] = "leaving"]
    /\ UNCHANGED <<views, seen, alive, intent, stopped, reported, restarts>>

(* The deferred function reads stopIntent and unlocks: a Stop that comes   *)
(* later has no effect on the closure.                                     *)
ReadsIntent(s) ==
    /\ worker[s] = "returning"
    /\ worker' = [worker EXCEPT ![s] = IF intent[s] = "permanent" THEN "deleting" ELSE "leaving"]
    /\ UNCHANGED <<views, seen, alive, intent, stopped, reported, restarts>>

(* The consumer is closed and Run returns. *)
Closes(s) ==
    /\ worker[s] \in {"leaving", "deleting"}
    /\ worker' = [worker EXCEPT ![s] = "closed"]
    /\ UNCHANGED <<views, seen, alive, intent, stopped, reported, restarts>>

(* Mutant: the entry is deleted when Run has returned. *)
FinishesAndForgets(s) ==
    /\ worker[s] = "closed"
    /\ worker' = [worker EXCEPT ![s] = "none"]
    /\ alive' = [alive EXCEPT ![s] = @ - 1]
    /\ UNCHANGED <<views, seen, intent, stopped, reported, restarts>>

(* The manager closes done, and the goroutine ends. *)
Finishes(s) ==
    /\ worker[s] = "closed"
    /\ worker' = [worker EXCEPT ![s] = "done"]
    /\ alive' = [alive EXCEPT ![s] = @ - 1]
    /\ UNCHANGED <<views, seen, intent, stopped, reported, restarts>>

-----------------------------------------------------------------------------
Next ==
    \/ SwitchTopic \/ Reconcile \/ Restart
    \/ \E s \in Subs :
          \/ Verify(s) \/ Unsubscribe(s) \/ Opens(s)
          \/ EndsStale(s) \/ EndsGone(s) \/ EndsStopped(s) \/ EndsWithError(s)
          \/ ReadsIntent(s) \/ Closes(s) \/ Finishes(s)

Spec == Init /\ [][Next]_vars

(* consumeHub keeps consuming, a stopped Run comes to its end, and one     *)
(* that has come to its end returns.                                       *)
FairSpec ==
    /\ Spec /\ WF_vars(Reconcile)
    /\ \A s \in Subs :
          WF_vars(EndsStopped(s)) /\ WF_vars(ReadsIntent(s) \/ Closes(s) \/ Finishes(s))

-----------------------------------------------------------------------------
(* Properties *)

(* Reconcile and run: whatever stops, restarts and lagging views come      *)
(* together, two Runs never share the consumer identity of a subscription. *)
OneRunPerSubscription == \A s \in Subs : alive[s] <= 1

(* "Keep terminal workers registered until reconciliation observes the     *)
(* state transition they emitted" (manager.go:113): a worker is started    *)
(* only from a view that contains what earlier workers have reported,      *)
(* unless the topic had gone, which deletes the entry too early.           *)
StartsAfterReports ==
    [][\A s \in Subs : alive'[s] > alive[s] =>
          seen' >= reported[s] \/ \E i \in 1..seen' : views[i].topic = "inactive"]_vars

(* Reconcile stops what is not wanted: when the log comes to rest, a       *)
(* subscription that is stale, removed or without its topic is not served  *)
(* any more.                                                               *)
UnwantedRunsEnd == <>[](\A s \in Subs : ~Desired(Last, s) => alive[s] = 0)

(* "Reconcile maintains exactly one worker for every active subscription   *)
(* owned by this server" (manager.go:66).                                  *)
ActiveIsServed ==
    \A s \in Subs : Desired(Last, s) ~> (alive[s] = 1 \/ ~Desired(Last, s))

=============================================================================
