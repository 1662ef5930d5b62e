--------------------------- MODULE DeliveryProofs ---------------------------
(***************************************************************************)
(* The safety of delivery for any subscriptions, parameters, groups,       *)
(* messages, faults and restarts, and any length of the state log: first   *)
(* of the manager alone, then of the manager with its consumers, which     *)
(* implements it.                                                          *)
(***************************************************************************)
EXTENDS Delivery, TLAPS

-----------------------------------------------------------------------------
(* The manager: one Run per subscription *)

(* The entries of Manager.workers account for every goroutine: one is      *)
(* alive exactly while its entry is registered and not done.               *)
Accounted ==
    /\ worker \in [Subs -> WorkerStates]
    /\ alive \in [Subs -> Nat]
    /\ \A s \in Subs : alive[s] = IF worker[s] \in {"none", "done"} THEN 0 ELSE 1

LEMMA ManagerInitially == Init => Accounted
  BY DEF Init, Accounted, WorkerStates

(* Run comes to its end, and what follows until done is closed. *)
RunEnds(s) == EndsStale(s) \/ EndsGone(s) \/ EndsStopped(s) \/ EndsWithError(s)
RunReturns(s) == ReadsIntent(s) \/ Closes(s) \/ Finishes(s)

LEMMA EndsKeepsAccounted ==
  ASSUME Accounted, NEW s \in Subs, NEW i, Running(s), Ends(s, i)
  PROVE  Accounted'
  BY DEF Accounted, Running, Ends, WorkerStates

LEMMA ManagerStepKeepsAccounted == Accounted /\ [Next]_vars => Accounted'
  <1> SUFFICES ASSUME Accounted, [Next]_vars PROVE Accounted'
    OBVIOUS
  <1>1. CASE UNCHANGED <<worker, alive>>
    BY <1>1 DEF Accounted
  <1>2. CASE Reconcile
    BY <1>2 DEF Reconcile, Accounted, WorkerStates, Forget, Stops
  <1>3. CASE Restart
    BY <1>3 DEF Restart, Accounted, WorkerStates
  <1>4. ASSUME NEW s \in Subs, Opens(s) \/ RunReturns(s) PROVE Accounted'
    BY <1>4 DEF Opens, RunReturns, ReadsIntent, Closes, Finishes, Accounted, WorkerStates
  <1>5. ASSUME NEW s \in Subs, RunEnds(s) PROVE Accounted'
    <2>1. Running(s) /\ \E i : Ends(s, i)
      BY <1>5 DEF RunEnds, EndsStale, EndsGone, EndsStopped, EndsWithError, Running
    <2> QED BY <2>1, EndsKeepsAccounted
  <1> QED
    BY <1>1, <1>2, <1>3, <1>4, <1>5, Zenon
    DEF Next, RunEnds, RunReturns, vars, SwitchTopic, Verify, Unsubscribe

(* Reconcile registers a worker before its goroutine starts and deletes it *)
(* only when done is closed, so two Runs never share a consumer identity.  *)
THEOREM OneRun == Spec => []OneRunPerSubscription
  <1>1. Accounted => OneRunPerSubscription
    <2> SUFFICES ASSUME Accounted, NEW s \in Subs PROVE alive[s] <= 1
      BY DEF OneRunPerSubscription
    <2>1. alive[s] = 1 \/ alive[s] = 0
      BY DEF Accounted
    <2> QED BY <2>1
  <1> QED
    BY <1>1, ManagerInitially, ManagerStepKeepsAccounted, PTL DEF Spec

-----------------------------------------------------------------------------
(* The manager: types *)

ManagerInv == ManagerTypeOK /\ Accounted

LEMMA LastIsView == ASSUME ManagerTypeOK PROVE Last \in View
  BY DEF ManagerTypeOK, Last

(* A status is put into a view. *)
LEMMA WithStatus ==
  ASSUME NEW v \in View, NEW s \in Subs, NEW st \in Statuses
  PROVE  [v EXCEPT !.status[s] = st] \in View
  <1> DEFINE w == [v EXCEPT !.status[s] = st]
  <1>1. v.status \in [Subs -> Statuses] /\ v.topic \in {"active", "inactive"}
    BY DEF View
  <1>2. w = [topic |-> v.topic, status |-> [v.status EXCEPT ![s] = st]]
    BY <1>1 DEF View
  <1>3. [v.status EXCEPT ![s] = st] \in [Subs -> Statuses]
    BY <1>1
  <1> QED BY <1>1, <1>2, <1>3 DEF View

LEMMA AppendKeepsTypes ==
  ASSUME ManagerTypeOK, NEW v \in View, AppendView(v)
  PROVE  /\ views' \in Seq(View) /\ Len(views') = Len(views) + 1
         /\ Len(views') \in 1..MaxViews
         /\ \A i \in 1..Len(views) : views'[i] = views[i]
         /\ views'[Len(views')] = v
  BY ManagerConstants DEF ManagerTypeOK, AppendView

(* What a step does to the log: it appends at most one view, in which no   *)
(* subscription is absent again, and none is active again.                 *)
Follows(v, w) ==
    \A s \in Subs : /\ v.status[s] # "absent" => w.status[s] # "absent"
                    /\ v.status[s] \in {"stale", "removed"} =>
                          w.status[s] \in {"stale", "removed"}

Grows ==
    \/ views' = views
    \/ \E v \in View : AppendView(v) /\ Follows(Last, v)

LEMMA ChangeFollows ==
  ASSUME ManagerTypeOK, NEW s \in Subs, NEW st \in {"active", "stale", "removed"},
         st = "active" => Last.status[s] = "absent"
  PROVE  /\ [Last EXCEPT !.status[s] = st] \in View
         /\ Follows(Last, [Last EXCEPT !.status[s] = st])
  <1>1. Last \in View
    BY LastIsView
  <1>2. [Last EXCEPT !.status[s] = st] \in View
    BY <1>1, WithStatus, Zenon DEF Statuses
  <1>3. \A t \in Subs : [Last EXCEPT !.status[s] = st].status[t] =
                          IF t = s THEN st ELSE Last.status[t]
    BY <1>1 DEF View
  <1> QED BY <1>2, <1>3 DEF Follows

LEMMA SwitchFollows ==
  ASSUME ManagerTypeOK, NEW st \in {"active", "inactive"}
  PROVE  /\ [Last EXCEPT !.topic = st] \in View
         /\ Follows(Last, [Last EXCEPT !.topic = st])
  <1>1. Last \in View
    BY LastIsView
  <1> QED BY <1>1 DEF View, Follows

LEMMA ManagerStepGrows == ManagerTypeOK /\ [Next]_vars => Grows
  <1> SUFFICES ASSUME ManagerTypeOK, [Next]_vars PROVE Grows
    OBVIOUS
  <1>1. CASE views' = views
    BY <1>1 DEF Grows
  <1>2. CASE SwitchTopic
    BY <1>2, SwitchFollows DEF SwitchTopic, Grows
  <1>3. ASSUME NEW s \in Subs, Verify(s) \/ Unsubscribe(s) PROVE Grows
    BY <1>3, ChangeFollows, Zenon DEF Verify, Unsubscribe, Grows
  <1>4. ASSUME NEW s \in Subs, EndsStale(s) \/ EndsGone(s) PROVE Grows
    BY <1>4, ChangeFollows, Zenon DEF EndsStale, EndsGone, Grows
  <1> QED
    BY <1>1, <1>2, <1>3, <1>4, Zenon
    DEF Next, vars, Reconcile, Restart, Opens, EndsStopped, EndsWithError, ReadsIntent, Closes,
        Finishes

LEMMA GrowsKeepsLog ==
  ASSUME ManagerTypeOK, Grows
  PROVE  /\ views' \in Seq(View) /\ Len(views') \in 1..MaxViews
         /\ Len(views') \in Nat /\ Len(views) \in Nat
         /\ Len(views') >= Len(views) /\ Len(views') <= Len(views) + 1
         /\ \A i \in 1..Len(views) : views'[i] = views[i]
  <1>1. CASE views' = views
    BY <1>1 DEF ManagerTypeOK
  <1>2. ASSUME NEW v \in View, AppendView(v) PROVE Len(views) \in Nat
    BY DEF ManagerTypeOK
  <1> QED BY <1>1, <1>2, AppendKeepsTypes DEF Grows

(* The variables other than the log keep their types. *)
LEMMA ManagerStepKeepsTypes == ManagerInv /\ [Next]_vars => ManagerTypeOK'
  <1> SUFFICES ASSUME ManagerInv, [Next]_vars PROVE ManagerTypeOK'
    OBVIOUS
  <1>1. /\ views' \in Seq(View) /\ Len(views') \in 1..MaxViews
        /\ Len(views') \in Nat /\ Len(views) \in Nat /\ Len(views') >= Len(views)
    BY ManagerStepGrows, GrowsKeepsLog DEF ManagerInv
  <1>2. worker' \in [Subs -> WorkerStates] /\ alive' \in [Subs -> Nat]
    BY ManagerStepKeepsAccounted DEF Accounted, ManagerInv
  <1>3. seen' \in 0..Len(views') /\ restarts' \in 0..MaxRestarts
    <2>1. seen \in 0..Len(views) /\ restarts \in 0..MaxRestarts /\ MaxRestarts \in Nat
      BY ManagerConstants DEF ManagerInv, ManagerTypeOK
    <2>2. CASE UNCHANGED <<seen, restarts>>
      BY <1>1, <2>1, <2>2
    <2>3. CASE Reconcile
      <3>1. views' = views /\ restarts' = restarts /\ seen' \in seen + 1 .. Len(views)
        BY <2>3 DEF Reconcile
      <3> QED BY <1>1, <2>1, <3>1
    <2>4. CASE Restart
      <3>1. views' = views /\ restarts' = restarts + 1 /\ restarts < MaxRestarts
            /\ seen' = Len(views) - 1 /\ Len(views) \in 1..MaxViews
        BY <2>4 DEF Restart, ManagerInv, ManagerTypeOK
      <3> QED BY <1>1, <2>1, <3>1
    <2> QED
      BY <2>2, <2>3, <2>4, Zenon DEF Next, vars, SwitchTopic, Verify, Unsubscribe, Opens, EndsStale,
         EndsGone, EndsStopped, EndsWithError, Ends, ReadsIntent, Closes, Finishes
  <1>4. intent' \in [Subs -> {"temporary", "permanent"}] /\ stopped' \in [Subs -> BOOLEAN]
    <2>1. intent \in [Subs -> {"temporary", "permanent"}] /\ stopped \in [Subs -> BOOLEAN]
      BY DEF ManagerInv, ManagerTypeOK
    <2>2. CASE UNCHANGED <<intent, stopped>>
      BY <2>1, <2>2
    <2>3. CASE Reconcile
      BY <2>1, <2>3 DEF Reconcile, Stops
    <2>4. CASE Restart
      BY <2>4 DEF Restart
    <2>5. ASSUME NEW s \in Subs, RunEnds(s)
          PROVE  intent' \in [Subs -> {"temporary", "permanent"}] /\ stopped' \in [Subs -> BOOLEAN]
      <3>1. Ends(s, intent[s]) \/ Ends(s, "permanent")
        BY <2>5 DEF RunEnds, EndsStale, EndsGone, EndsStopped, EndsWithError
      <3> QED BY <2>1, <3>1 DEF Ends
    <2> QED
      BY <2>2, <2>3, <2>4, <2>5, Zenon
      DEF RunEnds, Next, vars, SwitchTopic, Verify, Unsubscribe, Opens, ReadsIntent, Closes,
          Finishes
  <1>5. reported' \in [Subs -> 0..Len(views')]
    <2>1. reported \in [Subs -> 0..Len(views)]
      BY DEF ManagerInv, ManagerTypeOK
    <2>2. CASE reported' = reported
      BY <1>1, <2>1, <2>2
    <2>3. ASSUME NEW s \in Subs, reported' = [reported EXCEPT ![s] = Len(views')]
          PROVE  reported' \in [Subs -> 0..Len(views')]
      BY <1>1, <2>1, <2>3
    <2> QED
      BY <2>2, <2>3, Zenon DEF Next, vars, SwitchTopic, Reconcile, Restart, Verify, Unsubscribe, Opens,
         EndsStale, EndsGone, EndsStopped, EndsWithError, ReadsIntent, Closes, Finishes
  <1> QED BY <1>1, <1>2, <1>3, <1>4, <1>5 DEF ManagerTypeOK

LEMMA ManagerTypesInitially == Init => ManagerTypeOK
  <1> SUFFICES ASSUME Init PROVE ManagerTypeOK
    OBVIOUS
  <1> DEFINE v == [topic |-> "active", status |-> [s \in Subs |-> "absent"]]
  <1>1. v \in View
    BY DEF View, Statuses
  <1>2. views \in Seq(View) /\ Len(views) = 1
    BY <1>1 DEF Init
  <1> QED BY <1>2, ManagerConstants DEF Init, ManagerTypeOK, WorkerStates

LEMMA ManagerInvariance == Spec => []ManagerInv
  <1>1. Init => ManagerInv
    BY ManagerTypesInitially, ManagerInitially DEF ManagerInv
  <1>2. ManagerInv /\ [Next]_vars => ManagerInv'
    BY ManagerStepKeepsTypes, ManagerStepKeepsAccounted DEF ManagerInv
  <1> QED BY <1>1, <1>2, PTL DEF Spec

-----------------------------------------------------------------------------
(* The manager: a worker is started only behind the reports of earlier ones *)

LogOrder ==
    \A i, j \in 1..Len(views) : i <= j => Follows(views[i], views[j])

(* A subscription that has an entry was seen active; one whose entry was   *)
(* deleted was seen without its topic or inactive for good, or the hub has *)
(* started again behind the report.                                        *)
ReportInv ==
    /\ LogOrder
    /\ \A s \in Subs : worker[s] # "none" => seen >= 1 /\ views[seen].status[s] # "absent"
    /\ \A s \in Subs : worker[s] = "none" =>
          \/ reported[s] <= seen + 1
          \/ \E i \in 1..seen : views[i].topic = "inactive"
          \/ seen >= 1 /\ views[seen].status[s] \in {"stale", "removed"}

LEMMA StepKeepsLogOrder == ManagerInv /\ LogOrder /\ [Next]_vars => LogOrder'
  <1> SUFFICES ASSUME ManagerInv, LogOrder, [Next]_vars PROVE LogOrder'
    OBVIOUS
  <1>1. ManagerTypeOK /\ Len(views) \in Nat /\ Len(views) >= 1
    BY DEF ManagerInv, ManagerTypeOK
  <1>2. CASE views' = views
    BY <1>2 DEF LogOrder
  <1>3. ASSUME NEW v \in View, AppendView(v), Follows(Last, v) PROVE LogOrder'
    <2>1. /\ Len(views') = Len(views) + 1 /\ views'[Len(views')] = v
          /\ \A i \in 1..Len(views) : views'[i] = views[i]
      BY <1>1, <1>3, AppendKeepsTypes
    <2> SUFFICES ASSUME NEW i \in 1..Len(views'), NEW j \in 1..Len(views'), i <= j
                 PROVE  Follows(views'[i], views'[j])
      BY DEF LogOrder
    <2>2. CASE j \in 1..Len(views)
      <3>1. i \in 1..Len(views)
        BY <1>1, <2>1, <2>2
      <3> QED BY <2>1, <2>2, <3>1 DEF LogOrder
    <2>3. CASE j = Len(views') /\ i = Len(views')
      BY <2>3 DEF Follows
    <2>4. CASE j = Len(views') /\ i \in 1..Len(views)
      <3>1. Len(views) \in 1..Len(views) /\ i <= Len(views)
        BY <1>1, <2>4
      <3>2. Follows(views[i], views[Len(views)])
        BY <2>4, <3>1 DEF LogOrder
      <3> QED BY <1>3, <2>1, <2>4, <3>2 DEF Follows, Last
    <2>5. j \in 1..Len(views) \/ j = Len(views')
      BY <1>1, <2>1
    <2>6. i \in 1..Len(views) \/ i = Len(views')
      BY <1>1, <2>1
    <2> QED BY <2>2, <2>3, <2>4, <2>5, <2>6
  <1> QED
    BY <1>1, <1>2, <1>3, ManagerStepGrows DEF Grows

(* Steps that leave the position of the loop and the registered entries    *)
(* alone.                                                                  *)
LEMMA FrameKeepsReportInv ==
  ASSUME ManagerInv, ReportInv, [Next]_vars, seen' = seen,
         \A s \in Subs : (worker'[s] = "none") = (worker[s] = "none"),
         \A s \in Subs : worker[s] = "none" => reported'[s] = reported[s]
  PROVE  ReportInv'
  <1>1. LogOrder'
    BY StepKeepsLogOrder DEF ReportInv
  <1>2. /\ seen \in Nat /\ seen <= Len(views) /\ Len(views) \in Nat
        /\ \A i \in 1..Len(views) : views'[i] = views[i]
    BY ManagerStepGrows, GrowsKeepsLog DEF ManagerInv, ManagerTypeOK
  <1>3. \A i \in 1..seen : views'[i] = views[i]
    BY <1>2
  <1>4. seen >= 1 => views'[seen] = views[seen]
    BY <1>2
  <1>5. ASSUME NEW s \in Subs, worker'[s] # "none"
        PROVE  seen' >= 1 /\ views'[seen'].status[s] # "absent"
    BY <1>4, <1>5 DEF ReportInv
  <1>6. ASSUME NEW s \in Subs, worker'[s] = "none"
        PROVE  \/ reported'[s] <= seen' + 1
               \/ \E i \in 1..seen' : views'[i].topic = "inactive"
               \/ seen' >= 1 /\ views'[seen'].status[s] \in {"stale", "removed"}
    BY <1>3, <1>4, <1>6 DEF ReportInv
  <1> QED BY <1>1, <1>5, <1>6 DEF ReportInv

LEMMA ReconcileKeepsReportInv ==
  ASSUME ManagerInv, ReportInv, Reconcile
  PROVE  /\ ReportInv'
         /\ \A s \in Subs : alive'[s] > alive[s] =>
               seen' >= reported[s] \/ \E k \in 1..seen' : views[k].topic = "inactive"
  <1>1. PICK i \in seen + 1 .. Len(views) :
           /\ seen' = i /\ views' = views /\ reported' = reported
           /\ worker' = [s \in Subs |-> IF Desired(views[i], s) /\ worker[s] = "none" THEN "opening"
                                        ELSE IF Stops(views[i], s) /\ Forget(s) THEN "none"
                                        ELSE worker[s]]
           /\ alive' = [s \in Subs |-> IF Desired(views[i], s) /\ worker[s] = "none"
                                       THEN alive[s] + 1 ELSE alive[s]]
    BY Zenon DEF Reconcile
  <1>2. /\ seen \in Nat /\ Len(views) \in Nat /\ i \in Nat /\ i \in 1..Len(views) /\ seen < i
        /\ i >= 1 /\ (seen >= 1 => seen \in 1..Len(views)) /\ views[i] \in View
    BY <1>1 DEF ManagerInv, ManagerTypeOK
  <1>3. seen >= 1 => Follows(views[seen], views[i])
    BY <1>2 DEF ReportInv, LogOrder
  <1>4. \A s \in Subs : reported[s] \in Nat /\ alive[s] \in Nat
    BY DEF ManagerInv, ManagerTypeOK
  <1>5. ASSUME NEW s \in Subs, worker[s] = "none"
        PROVE  \/ reported[s] <= i
               \/ \E k \in 1..i : views[k].topic = "inactive"
               \/ views[i].status[s] \in {"stale", "removed"}
    <2>1. CASE reported[s] <= seen + 1
      BY <1>2, <1>4, <2>1
    <2>2. CASE \E k \in 1..seen : views[k].topic = "inactive"
      BY <1>2, <2>2
    <2>3. CASE seen >= 1 /\ views[seen].status[s] \in {"stale", "removed"}
      BY <1>3, <2>3 DEF Follows
    <2> QED BY <1>5, <2>1, <2>2, <2>3 DEF ReportInv
  <1>6. ASSUME NEW s \in Subs, alive'[s] > alive[s]
        PROVE  i >= reported[s] \/ \E k \in 1..i : views[k].topic = "inactive"
    <2>1. Desired(views[i], s) /\ worker[s] = "none"
      BY <1>1, <1>4, <1>6
    <2>2. views[i].status[s] = "active"
      BY <2>1 DEF Desired
    <2> QED BY <1>2, <1>4, <1>5, <2>1, <2>2
  <1>7. LogOrder'
    BY <1>1 DEF ReportInv, LogOrder
  <1>8. ASSUME NEW s \in Subs, worker'[s] # "none" PROVE views[i].status[s] # "absent"
    <2>1. CASE worker[s] # "none"
      BY <1>3, <2>1 DEF ReportInv, Follows
    <2>2. CASE worker[s] = "none"
      <3>1. Desired(views[i], s)
        BY <1>1, <1>8, <2>2 DEF Stops
      <3> QED BY <3>1 DEF Desired
    <2> QED BY <2>1, <2>2
  <1>9. ASSUME NEW s \in Subs, worker'[s] = "none"
        PROVE  \/ reported[s] <= i
               \/ \E k \in 1..i : views[k].topic = "inactive"
               \/ views[i].status[s] \in {"stale", "removed"}
    <2>1. CASE worker[s] = "none"
      BY <1>5, <2>1
    <2>2. CASE worker[s] # "none"
      <3>1. ~Desired(views[i], s)
        BY <1>1, <1>9, <2>2 DEF Stops
      <3>2. views[i].status[s] # "absent" /\ views[i].status[s] \in Statuses
        BY <1>2, <1>3, <2>2, Zenon DEF ReportInv, Follows, View
      <3>3. views[i].topic = "inactive" \/ views[i].status[s] # "active"
        BY <1>2, <3>1 DEF Desired, View
      <3>4. i \in 1..i
        BY <1>2
      <3> QED BY <3>2, <3>3, <3>4 DEF Statuses
    <2> QED BY <2>1, <2>2
  <1>10. ReportInv'
    <2>1. \A s \in Subs : worker'[s] # "none" => seen' >= 1 /\ views'[seen'].status[s] # "absent"
      BY <1>1, <1>2, <1>8, Zenon
    <2>2. \A s \in Subs : worker'[s] = "none" =>
            \/ reported'[s] <= seen' + 1
            \/ \E k \in 1..seen' : views'[k].topic = "inactive"
            \/ seen' >= 1 /\ views'[seen'].status[s] \in {"stale", "removed"}
      <3> SUFFICES ASSUME NEW s \in Subs, worker'[s] = "none"
                   PROVE  \/ reported[s] <= i + 1
                          \/ \E k \in 1..i : views[k].topic = "inactive"
                          \/ i >= 1 /\ views[i].status[s] \in {"stale", "removed"}
        BY <1>1, Zenon
      <3>1. reported[s] <= i => reported[s] <= i + 1
        BY <1>2, <1>4
      <3> QED BY <1>2, <1>9, <3>1
    <2> QED BY <1>7, <2>1, <2>2 DEF ReportInv
  <1> QED BY <1>1, <1>6, <1>10

LEMMA RestartKeepsReportInv == ASSUME ManagerInv, ReportInv, Restart PROVE ReportInv'
  <1>1. /\ seen' = Len(views) - 1 /\ views' = views /\ reported' = reported
        /\ worker' = [s \in Subs |-> "none"]
    BY DEF Restart
  <1>2. Len(views) \in Nat /\ \A s \in Subs : reported[s] \in 0..Len(views)
    BY DEF ManagerInv, ManagerTypeOK
  <1>3. \A s \in Subs : reported'[s] <= seen' + 1
    BY <1>1, <1>2
  <1> QED BY <1>1, <1>3, Zenon DEF ReportInv, LogOrder

LEMMA StepKeepsReportInv == ManagerInv /\ ReportInv /\ [Next]_vars => ReportInv'
  <1> SUFFICES ASSUME ManagerInv, ReportInv, [Next]_vars PROVE ReportInv'
    OBVIOUS
  <1>1. CASE Reconcile
    BY <1>1, ReconcileKeepsReportInv
  <1>2. CASE Restart
    BY <1>2, RestartKeepsReportInv
  <1>3. CASE UNCHANGED <<seen, worker, reported>>
    BY <1>3, FrameKeepsReportInv
  <1>4. ASSUME NEW s \in Subs, Opens(s) \/ RunEnds(s) \/ RunReturns(s) PROVE ReportInv'
    <2>1. /\ seen' = seen /\ worker[s] # "none"
          /\ \E w \in WorkerStates \ {"none"} : worker' = [worker EXCEPT ![s] = w]
          /\ reported' = reported \/ reported' = [reported EXCEPT ![s] = Len(views')]
      <3>1. CASE Opens(s) \/ RunReturns(s)
        BY <3>1 DEF Opens, RunReturns, ReadsIntent, Closes, Finishes, WorkerStates
      <3>2. CASE RunEnds(s)
        BY <3>2 DEF RunEnds, EndsStale, EndsGone, EndsStopped, EndsWithError, Ends, Running,
                    WorkerStates
      <3> QED BY <1>4, <3>1, <3>2
    <2>2. DOMAIN worker = Subs /\ DOMAIN reported = Subs
      BY DEF ManagerInv, ManagerTypeOK
    <2>3. \A t \in Subs : (worker'[t] = "none") = (worker[t] = "none")
      BY <2>1, <2>2
    <2>4. \A t \in Subs : worker[t] = "none" => reported'[t] = reported[t]
      BY <2>1, <2>2
    <2> QED BY <2>1, <2>3, <2>4, FrameKeepsReportInv
  <1> QED
    BY <1>1, <1>2, <1>3, <1>4, Zenon
    DEF RunEnds, RunReturns, Next, vars, SwitchTopic, Verify, Unsubscribe

(* "Keep terminal workers registered until reconciliation observes the     *)
(* state transition they emitted" (manager.go:113) does what it is for,    *)
(* for any length of the log, any lag of the loop and any restarts.        *)
THEOREM StartsFollowReports == Spec => StartsAfterReports
  <1>1. Init => ReportInv
    <2> SUFFICES ASSUME Init PROVE ReportInv
      OBVIOUS
    <2>1. LogOrder
      <3>1. Len(views) = 1
        BY DEF Init
      <3>2. \A i, j \in 1..Len(views) : i = j
        BY <3>1
      <3> QED BY <3>2 DEF LogOrder, Follows
    <2> QED BY <2>1 DEF Init, ReportInv
  <1>2. ManagerInv /\ ReportInv /\ [Next]_vars =>
          [\A s \in Subs : alive'[s] > alive[s] =>
              seen' >= reported[s] \/ \E i \in 1..seen' : views[i].topic = "inactive"]_vars
    <2> SUFFICES ASSUME ManagerInv, ReportInv, Next, NEW s \in Subs, alive'[s] > alive[s]
                 PROVE  seen' >= reported[s] \/ \E i \in 1..seen' : views[i].topic = "inactive"
      OBVIOUS
    <2>1. CASE Reconcile
      BY <2>1, ReconcileKeepsReportInv
    <2>2. alive \in [Subs -> Nat] /\ Accounted
      BY DEF ManagerInv, ManagerTypeOK
    <2>3. CASE alive' = alive
      BY <2>2, <2>3
    <2>4. CASE Restart
      BY <2>2, <2>4 DEF Restart
    <2>5. ASSUME NEW t \in Subs, Finishes(t) PROVE FALSE
      <3>1. alive' = [alive EXCEPT ![t] = @ - 1]
        BY <2>5 DEF Finishes
      <3> QED BY <2>2, <3>1
    <2> QED
      BY <2>1, <2>3, <2>4, <2>5, Zenon
      DEF Next, SwitchTopic, Verify, Unsubscribe, Opens, EndsStale, EndsGone, EndsStopped,
          EndsWithError, Ends, ReadsIntent, Closes
  <1> QED
    BY <1>1, <1>2, StepKeepsReportInv, ManagerInvariance, PTL DEF Spec, StartsAfterReports

-----------------------------------------------------------------------------
(* Delivery implements its manager *)

LEMMA DeliveryStepIsManagerStep == [DeliveryNext]_deliveryVars => [Next]_vars
  <1> SUFFICES ASSUME [DeliveryNext]_deliveryVars PROVE [Next]_vars
    OBVIOUS
  <1>1. CASE vars' = vars
    BY <1>1
  <1>2. CASE SwitchTopic \/ Reconcile \/ Restart
    BY <1>2 DEF Next
  <1>3. ASSUME NEW s \in Subs,
               Verify(s) \/ Unsubscribe(s) \/ Opens(s) \/ RunEnds(s) \/ RunReturns(s)
        PROVE  Next
    BY <1>3 DEF Next, RunEnds, RunReturns
  <1>4. CASE DeliveryNext
    BY <1>1, <1>2, <1>3, <1>4, Zenon
    DEF DeliveryNext, Publish, RestartHub, Rebalance, Subscribe, OpenConsumer, Assign, Poll,
        Reconnect, Settle, Ack, AckRefused, Ended, Failed, CloseConsumer, RunEnds, RunReturns
  <1> QED BY <1>1, <1>4 DEF deliveryVars

(* Consumers, groups and content never make the manager do what it would   *)
(* not do alone.                                                           *)
THEOREM DeliveryImplementsManager == DeliverySpec => Spec
  <1>1. DeliveryInit => Init
    BY DEF DeliveryInit
  <1> QED BY <1>1, DeliveryStepIsManagerStep, PTL DEF DeliverySpec, Spec

-----------------------------------------------------------------------------
(* The groups *)

GroupTypes ==
    /\ options \in Layouts
    /\ end \in 0..MaxMessages
    /\ offset \in [Groups -> 0..MaxMessages \cup {Unset}]
    /\ holder \in [Groups -> Subs \cup {NoOne}]
    /\ position \in [Subs -> 0..MaxMessages \cup {Unset}]
    /\ polled \in [Subs -> 0..MaxMessages]
    /\ resolved \in [Subs -> BOOLEAN]
    /\ settled \in [Groups -> SUBSET (1..MaxMessages)]
    /\ base \in [Groups -> 0..MaxMessages]
    /\ faults \in 0..MaxFaults

(* Where a group stands when a consumer is established. *)
Stand(g) == IF offset[g] = Unset THEN base[g] ELSE offset[g]

(* A consumer has settled all it is past and, while the broker accepts its *)
(* commits, stands where its group stands.                                 *)
Standing(s) ==
    /\ position[s] = Unset => ~resolved[s]
    /\ position[s] # Unset =>
          /\ position[s] <= polled[s] /\ polled[s] <= end
          /\ ~Direct(s) \/ ~Shared(s)
          /\ base[GroupOf(s)] + 1 .. position[s] \subseteq settled[GroupOf(s)]
          /\ resolved[s] => /\ position[s] < polled[s]
                            /\ position[s] + 1 \in settled[GroupOf(s)]
          /\ Holds(s) => position[s] = Stand(GroupOf(s))

Committed(g) ==
    /\ base[g] <= end
    /\ offset[g] # Unset => /\ offset[g] <= end
                            /\ base[g] + 1 .. offset[g] \subseteq settled[g]

GroupInv ==
    /\ GroupTypes
    /\ \A s \in Subs : Standing(s)
    /\ \A g \in Groups : Committed(g)

(* Positions and offsets are numbers. *)
LEMMA Numbers == MaxMessages \in Nat /\ 0..MaxMessages \subseteq Nat /\ Unset \notin Nat
BY DeliveryConstants

(* The group of a subscription, and who else can be in it. *)
LEMMA GroupFacts ==
  ASSUME GroupTypes
  PROVE  /\ \A s \in Subs : GroupOf(s) \in Groups
         /\ \A s \in Subs : ~Shared(s) => GroupOf(s) = s
         /\ \A s \in Subs : Shared(s) => GroupOf(s) \in GroupNames
         /\ \A s, t \in Subs : ~Shared(s) /\ GroupOf(t) = GroupOf(s) => s = t
  <1>1. options \in [Subs -> Options]
    BY DeliveryConstants DEF GroupTypes
  <1>2. ASSUME NEW s \in Subs, Shared(s) PROVE options[s].group[1] \in GroupNames
    <2>1. options[s].group \in Seq(GroupNames) /\ options[s].group # <<>>
      BY <1>1, <1>2 DEF Options, Shared
    <2> QED BY <2>1
  <1>3. \A s \in Subs : Shared(s) => GroupOf(s) \in GroupNames
    BY <1>2 DEF GroupOf
  <1>4. \A s \in Subs : ~Shared(s) => GroupOf(s) = s
    BY DEF GroupOf
  <1>5. \A s \in Subs : GroupOf(s) \in Groups
    BY <1>3, <1>4 DEF Groups
  <1>6. \A s, t \in Subs : ~Shared(s) /\ GroupOf(t) = GroupOf(s) => s = t
    <2> SUFFICES ASSUME NEW s \in Subs, NEW t \in Subs, ~Shared(s), GroupOf(t) = GroupOf(s)
                 PROVE  s = t
      OBVIOUS
    <2>1. GroupOf(s) = s /\ s \notin GroupNames
      BY <1>4, DeliveryConstants
    <2> QED BY <1>3, <1>4, <2>1
  <1> QED BY <1>3, <1>4, <1>5, <1>6

(* A step that leaves the groups and the consumers alone. *)
LEMMA SameGroups == ASSUME GroupInv, groupVars' = groupVars PROVE GroupInv'
  <1>1. /\ options' = options /\ end' = end /\ offset' = offset /\ holder' = holder
        /\ position' = position /\ polled' = polled /\ resolved' = resolved
        /\ settled' = settled /\ base' = base /\ faults' = faults
    BY DEF groupVars
  <1>2. GroupTypes'
    BY <1>1, Zenon DEF GroupInv, GroupTypes
  <1>3. ASSUME NEW s \in Subs PROVE Standing(s)'
    <2>1. Standing(s)
      BY DEF GroupInv
    <2> QED BY <1>1, <2>1, Zenon DEF Standing, Stand, Holds, Direct, GroupOf, Shared
  <1>4. ASSUME NEW g \in Groups PROVE Committed(g)'
    BY <1>1, Zenon DEF GroupInv, Committed
  <1> QED BY <1>2, <1>3, <1>4 DEF GroupInv

(* A consumer that takes no part in a step. *)
Bystander(t) ==
    /\ position'[t] = position[t] /\ polled'[t] = polled[t] /\ resolved'[t] = resolved[t]
    /\ settled[GroupOf(t)] \subseteq settled'[GroupOf(t)]
    /\ base'[GroupOf(t)] \in {base[GroupOf(t)], end'}
    /\ Holds(t)' => /\ Holds(t)
                    /\ base'[GroupOf(t)] = base[GroupOf(t)]
                    /\ offset'[GroupOf(t)] = offset[GroupOf(t)]

LEMMA BystanderStands ==
  ASSUME GroupTypes, NEW t \in Subs, Standing(t), Bystander(t),
         options' = options, end' \in Nat, end <= end'
  PROVE  Standing(t)'
  <1> DEFINE g == GroupOf(t)
  <1>1. /\ GroupOf(t)' = g /\ Direct(t)' = Direct(t) /\ Shared(t)' = Shared(t)
    BY DEF GroupOf, Direct, Shared
  <1>2. CASE position[t] = Unset
    BY <1>2, Zenon DEF Standing, Bystander
  <1>3. CASE position[t] # Unset
    <2>1. /\ position[t] \in Nat /\ polled[t] \in Nat /\ end \in Nat /\ g \in Groups
          /\ base[g] \in Nat
      BY <1>3, DeliveryConstants, GroupFacts DEF GroupTypes
    <2>2. position'[t] <= polled'[t] /\ polled'[t] <= end'
      <3>1. position'[t] = position[t] /\ polled'[t] = polled[t]
        BY Zenon DEF Bystander
      <3>2. position[t] <= polled[t] /\ polled[t] <= end
        BY <1>3, Zenon DEF Standing
      <3>3. polled[t] <= end'
        BY <2>1, <3>2
      <3> QED BY <3>1, <3>2, <3>3
    <2>3. base'[g] + 1 .. position'[t] \subseteq settled'[g]
      <3>1. CASE base'[g] = base[g]
        BY <1>3, <3>1, Zenon DEF Standing, Bystander
      <3>2. CASE base'[g] = end'
        <4>1. base'[g] + 1 .. position'[t] = {}
          BY <2>1, <2>2, <3>2, SMTT(30) DEF Bystander
        <4> QED BY <4>1
      <3> QED BY <3>1, <3>2, Zenon DEF Bystander
    <2>4. resolved'[t] => position'[t] < polled'[t] /\ position'[t] + 1 \in settled'[g]
      BY <1>3, Zenon DEF Standing, Bystander
    <2>5. Holds(t)' => position'[t] = IF offset'[g] = Unset THEN base'[g] ELSE offset'[g]
      BY <1>3, Zenon DEF Standing, Bystander, Stand
    <2> QED BY <1>1, <1>3, <2>2, <2>3, <2>4, <2>5, Zenon DEF Standing, Bystander, Stand
  <1> QED BY <1>2, <1>3

(* A group nothing is committed for in a step. *)
LEMMA IdleGroup ==
  ASSUME GroupTypes, NEW g \in Groups, Committed(g), end' \in Nat, end <= end',
         settled[g] \subseteq settled'[g],
         \/ offset'[g] = offset[g] /\ base'[g] = base[g]
         \/ offset'[g] = Unset /\ base'[g] \in {base[g], end'}
  PROVE  Committed(g)'
  <1>1. base[g] \in Nat /\ end \in Nat /\ offset[g] \in Nat \cup {Unset} /\ Unset \notin Nat
    BY DeliveryConstants DEF GroupTypes
  <1>2. CASE offset'[g] = offset[g] /\ base'[g] = base[g]
    BY <1>1, <1>2, SMTT(30) DEF Committed
  <1>3. CASE offset'[g] = Unset /\ base'[g] \in {base[g], end'}
    BY <1>1, <1>3 DEF Committed
  <1> QED BY <1>2, <1>3, Zenon

(* Nobody else in the group of s has its commits accepted. *)
LEMMA OnlyHolder ==
  ASSUME GroupTypes, NEW s \in Subs, NEW t \in Subs, t # s, GroupOf(t) = GroupOf(s),
         Standing(t), Holds(t)
  PROVE  Shared(s) /\ holder[GroupOf(s)] = t
  <1>1. Shared(s) /\ Shared(t)
    BY GroupFacts
  <1>2. ~Direct(t)
    BY <1>1, Zenon DEF Standing, Holds
  <1> QED BY <1>1, <1>2 DEF Holds

(* The consumer s begins, with its partition or directly. *)
LEMMA BeginsStands ==
  ASSUME GroupInv, NEW s \in Subs, Establish(s), ~Direct(s) \/ ~Shared(s),
         ~resolved[s], UNCHANGED <<options, end, offset, resolved, settled>>,
         faults' \in 0..MaxFaults,
         holder' = holder \/ holder' = [holder EXCEPT ![GroupOf(s)] = s],
         Direct(s) \/ holder[GroupOf(s)] = NoOne
  PROVE  GroupInv'
  <1> DEFINE g == GroupOf(s)
             from == IF offset[g] = Unset THEN end ELSE offset[g]
  <1>1. /\ g \in Groups /\ end \in Nat /\ end \in 0..MaxMessages /\ MaxMessages \in Nat
        /\ offset[g] \in 0..MaxMessages \cup {Unset} /\ Unset \notin Nat /\ NoOne \notin Subs
        /\ base[g] \in Nat /\ Committed(g) /\ GroupTypes
    BY DeliveryConstants, GroupFacts, SMTT(30) DEF GroupInv, GroupTypes
  <1>2. from \in 0..MaxMessages /\ from <= end /\ from # Unset
    BY <1>1, SMTT(30) DEF Committed
  <1>3. /\ position' = [position EXCEPT ![s] = from] /\ polled' = [polled EXCEPT ![s] = from]
        /\ base' = [base EXCEPT ![g] = IF offset[g] = Unset THEN end ELSE @]
    BY DEF Establish
  <1>4. GroupTypes'
    BY <1>1, <1>2, <1>3, SMTT(30) DEF GroupTypes
  <1>5. \A t \in Subs : GroupOf(t)' = GroupOf(t) /\ Direct(t)' = Direct(t) /\ Shared(t)' = Shared(t)
    BY Zenon DEF GroupOf, Direct, Shared
  <1>6. /\ position'[s] = from /\ polled'[s] = from
        /\ base'[g] = IF offset[g] = Unset THEN end ELSE base[g]
    BY <1>1, <1>3, Zenon DEF GroupTypes
  <1>7. Standing(s)'
    <2>1. base'[g] + 1 .. from \subseteq settled'[g]
      <3>1. CASE offset[g] = Unset
        <4>1. base'[g] = end /\ from = end
          BY <1>6, <3>1, Zenon
        <4>2. \A e \in Nat : e + 1 .. e = {}
          OBVIOUS
        <4> QED BY <1>1, <4>1, <4>2, Zenon
      <3>2. CASE offset[g] # Unset
        BY <1>1, <1>6, <3>2, Zenon DEF Committed
      <3> QED BY <3>1, <3>2, Zenon
    <2>2. position'[s] = IF offset'[g] = Unset THEN base'[g] ELSE offset'[g]
      BY <1>6, Zenon
    <2>3. position'[s] <= polled'[s] /\ polled'[s] <= end' /\ ~resolved'[s]
      <3>1. from <= from
        BY <1>1, <1>2
      <3> QED BY <1>1, <1>2, <1>6, <3>1, Zenon
    <2> QED BY <1>5, <1>6, <2>1, <2>2, <2>3, Zenon DEF Standing, Stand
  <1>8. ASSUME NEW t \in Subs, t # s PROVE Standing(t)'
    <2>1. /\ position'[t] = position[t] /\ polled'[t] = polled[t] /\ resolved'[t] = resolved[t]
          /\ Standing(t)
      BY <1>1, <1>3, <1>8, Zenon DEF GroupTypes, GroupInv
    <2>2. GroupOf(t) \in Groups
      BY <1>1, GroupFacts, Zenon
    <2>3. base'[GroupOf(t)] \in {base[GroupOf(t)], end'}
      BY <1>1, <1>3, <2>2, Zenon DEF GroupTypes
    <2>4. ASSUME Holds(t)' PROVE Holds(t) /\ base'[GroupOf(t)] = base[GroupOf(t)]
      <3>1. Holds(t)
        <4>1. holder'[GroupOf(t)] = t => holder[GroupOf(t)] = t
          BY <1>1, <1>8, <2>2, Zenon DEF GroupTypes
        <4> QED BY <1>5, <2>1, <2>4, <4>1, Zenon DEF Holds
      <3>2. CASE GroupOf(t) = g
        <4>1. Shared(s) /\ holder[g] = t
          BY <1>1, <1>8, <2>1, <3>1, <3>2, OnlyHolder, Zenon
        <4> QED BY <1>1, <4>1, Zenon
      <3>3. CASE GroupOf(t) # g
        BY <1>1, <1>3, <2>2, <3>1, <3>3, Zenon DEF GroupTypes
      <3> QED BY <3>2, <3>3, Zenon
    <2>5. Bystander(t)
      BY <2>1, <2>3, <2>4, Zenon DEF Bystander
    <2>6. end <= end' /\ end' \in Nat
      BY <1>1, SMTT(30)
    <2> QED BY <1>1, <2>1, <2>5, <2>6, BystanderStands, Zenon
  <1>9. ASSUME NEW h \in Groups PROVE Committed(h)'
    <2>1. \/ offset'[h] = offset[h] /\ base'[h] = base[h]
          \/ offset'[h] = Unset /\ base'[h] \in {base[h], end'}
      BY <1>1, <1>3, Zenon DEF GroupTypes
    <2>2. Committed(h)
      BY DEF GroupInv
    <2>3. end <= end' /\ end' \in Nat
      BY <1>1, SMTT(30)
    <2>4. settled[h] \subseteq settled'[h]
      BY <1>1, Zenon
    <2> QED BY <1>1, <2>1, <2>2, <2>3, <2>4, IdleGroup, Zenon
  <1> QED BY <1>4, <1>7, <1>8, <1>9 DEF GroupInv

(* A step in which every consumer stands by or stops consuming. *)
LEMMA QuietStep ==
  ASSUME GroupInv, GroupTypes', options' = options, end' \in Nat, end <= end',
         \A t \in Subs : Bystander(t) \/ (position'[t] = Unset /\ ~resolved'[t]),
         \A g \in Groups : Committed(g)'
  PROVE  GroupInv'
  <1>1. ASSUME NEW t \in Subs PROVE Standing(t)'
    <2>1. CASE Bystander(t)
      BY <2>1, BystanderStands, Zenon DEF GroupInv
    <2>2. CASE position'[t] = Unset /\ ~resolved'[t]
      BY <2>2, Zenon DEF Standing
    <2> QED BY <2>1, <2>2
  <1> QED BY <1>1, Zenon DEF GroupInv

(* The commit of the settled first pending message of s. *)
LEMMA CommitStands ==
  ASSUME GroupInv, NEW s \in Subs, resolved[s], Holds(s), NEW g \in Groups, g = GroupOf(s),
         offset'[g] = position[s] + 1, UNCHANGED <<base, end, settled>>
  PROVE  /\ Committed(g)' /\ position[s] + 1 \in 0..MaxMessages /\ position[s] + 1 <= polled[s]
         /\ base[g] + 1 .. position[s] + 1 \subseteq settled[g]
  <1>1. /\ position[s] \in Nat /\ polled[s] \in Nat /\ polled[s] \in 0..MaxMessages
        /\ base[g] \in Nat /\ end \in Nat /\ MaxMessages \in Nat
    BY DeliveryConstants DEF GroupInv, GroupTypes, Holds
  <1>2. /\ position[s] < polled[s] /\ polled[s] <= end
        /\ base[g] + 1 .. position[s] \subseteq settled[g] /\ position[s] + 1 \in settled[g]
        /\ base[g] <= end
    BY <1>1, Zenon DEF GroupInv, Standing, Holds, Committed
  <1>3. position[s] + 1 \in 0..MaxMessages /\ position[s] + 1 <= end /\ position[s] + 1 <= polled[s]
    BY <1>1, <1>2, SMTT(30)
  <1>4. base[g] + 1 .. position[s] + 1 \subseteq settled[g]
    <2> SUFFICES ASSUME NEW m \in base[g] + 1 .. position[s] + 1 PROVE m \in settled[g]
      OBVIOUS
    <2>1. m = position[s] + 1 \/ m \in base[g] + 1 .. position[s]
      BY <1>1
    <2> QED BY <1>2, <2>1, Zenon
  <1> QED BY <1>2, <1>3, <1>4, Zenon DEF Committed

LEMMA PublishKeepsGroups == ASSUME GroupInv, Publish PROVE GroupInv'
  <1>1. /\ end' = end + 1 /\ end < MaxMessages
        /\ UNCHANGED <<options, offset, holder, position, polled, resolved, settled, base, faults>>
    BY Zenon DEF Publish
  <1>2. end \in Nat /\ MaxMessages \in Nat /\ GroupTypes
    BY DeliveryConstants DEF GroupInv, GroupTypes
  <1>3. end' \in Nat /\ end <= end' /\ end' \in 0..MaxMessages
    BY <1>1, <1>2
  <1>4. GroupTypes'
    BY <1>1, <1>2, <1>3, Zenon DEF GroupTypes
  <1>5. \A t \in Subs : Bystander(t)
    BY <1>1, Zenon DEF Bystander, Holds, Direct, GroupOf, Shared
  <1>6. \A g \in Groups : Committed(g)'
    BY <1>1, <1>2, <1>3, IdleGroup, Zenon DEF GroupInv
  <1> QED BY <1>1, <1>3, <1>4, <1>5, <1>6, QuietStep, Zenon

LEMMA AssignKeepsGroups == ASSUME GroupInv, NEW s \in Subs, Assign(s) PROVE GroupInv'
  <1>1. ~resolved[s] /\ faults' \in 0..MaxFaults
    BY Zenon DEF GroupInv, GroupTypes, Standing, Assign
  <1> QED BY <1>1, BeginsStands, Zenon DEF Assign

(* A direct consumer has no position before it is opened. *)
LEMMA OpenKeepsGroups ==
  ASSUME GroupInv, NEW s \in Subs, OpenConsumer(s), position[s] = Unset PROVE GroupInv'
  <1>1. ~resolved[s] /\ faults' \in 0..MaxFaults
    BY Zenon DEF GroupInv, GroupTypes, Standing, OpenConsumer
  <1>2. CASE Direct(s)
    <2>1. ~Shared(s)
      BY <1>2, Zenon DEF OpenConsumer, ValidSubscription, Direct, Shared
    <2> QED BY <1>1, <1>2, <2>1, BeginsStands, Zenon DEF OpenConsumer
  <1>3. CASE ~Direct(s)
    <2>1. groupVars' = groupVars
      BY <1>3, Zenon DEF OpenConsumer, groupVars
    <2> QED BY <2>1, SameGroups
  <1> QED BY <1>2, <1>3

LEMMA PollKeepsGroups == ASSUME GroupInv, NEW s \in Subs, Poll(s) PROVE GroupInv'
  <1>1. PICK m \in polled[s] + 1 .. end : polled' = [polled EXCEPT ![s] = m]
    BY DEF Poll
  <1>2. UNCHANGED <<options, end, offset, holder, position, resolved, settled, base, faults>>
    BY DEF Poll
  <1>3. /\ end \in Nat /\ end \in 0..MaxMessages /\ MaxMessages \in Nat /\ polled[s] \in Nat
        /\ position[s] \in Nat /\ GroupTypes /\ position[s] # Unset /\ Standing(s)
    BY Numbers, Zenon DEF GroupInv, GroupTypes, Poll, Holds
  <1>4. m \in 0..MaxMessages /\ polled[s] < m /\ m <= end
    BY <1>1, <1>3
  <1>5. GroupTypes'
    BY <1>1, <1>2, <1>3, <1>4, Zenon DEF GroupTypes
  <1>6. \A t \in Subs : /\ GroupOf(t)' = GroupOf(t) /\ Direct(t)' = Direct(t)
                        /\ Shared(t)' = Shared(t) /\ Holds(t)' = Holds(t)
    BY <1>2, Zenon DEF GroupOf, Direct, Shared, Holds
  <1>7. Standing(s)'
    <2>1. polled'[s] = m /\ position[s] <= m /\ (position[s] < polled[s] => position[s] < m)
      BY <1>1, <1>3, <1>4, SMTT(30) DEF GroupTypes, Standing
    <2> QED BY <1>2, <1>3, <1>4, <1>6, <2>1, Zenon DEF Standing, Stand
  <1>8. ASSUME NEW t \in Subs, t # s PROVE Standing(t)'
    <2>1. polled'[t] = polled[t] /\ Standing(t)
      BY <1>1, <1>3, <1>8, Zenon DEF GroupTypes, GroupInv
    <2> QED BY <1>2, <1>6, <2>1, Zenon DEF Standing, Stand
  <1>9. \A g \in Groups : Committed(g)'
    BY <1>2, Zenon DEF GroupInv, Committed
  <1> QED BY <1>5, <1>7, <1>8, <1>9 DEF GroupInv

LEMMA SettleKeepsGroups == ASSUME GroupInv, NEW s \in Subs, Settle(s) PROVE GroupInv'
  <1> DEFINE g == GroupOf(s)
  <1>1. /\ resolved' = [resolved EXCEPT ![s] = TRUE]
        /\ settled' = [settled EXCEPT ![g] = @ \cup {position[s] + 1}]
        /\ UNCHANGED <<options, end, offset, holder, position, polled, base, faults>>
        /\ position[s] # Unset /\ position[s] < polled[s]
    BY Zenon DEF Settle, Pending
  <1>2. /\ GroupTypes /\ g \in Groups /\ Standing(s) /\ position[s] \in Nat
        /\ polled[s] \in 0..MaxMessages /\ MaxMessages \in Nat
        /\ end \in Nat
    BY <1>1, Numbers, GroupFacts, Zenon DEF GroupInv, GroupTypes
  <1>2a. end <= end
    BY <1>2
  <1>3. position[s] + 1 \in 1..MaxMessages
    <2>1. position[s] < polled[s]
      BY <1>1, Zenon
    <2>2. position[s] \in Nat /\ polled[s] \in 0..MaxMessages /\ MaxMessages \in Nat
      BY <1>2
    <2> QED BY <2>1, <2>2
  <1>4. GroupTypes'
    <2>1. settled' \in [Groups -> SUBSET (1..MaxMessages)]
      BY <1>1, <1>2, <1>3, Zenon DEF GroupTypes
    <2> QED BY <1>1, <1>2, <2>1, Zenon DEF GroupTypes
  <1>5. \A t \in Subs : /\ GroupOf(t)' = GroupOf(t) /\ Direct(t)' = Direct(t)
                        /\ Shared(t)' = Shared(t) /\ Holds(t)' = Holds(t)
    BY <1>1, Zenon DEF GroupOf, Direct, Shared, Holds
  <1>6. \A h \in Groups : settled[h] \subseteq settled'[h]
    BY <1>1, <1>2, Zenon DEF GroupTypes
  <1>7. position[s] + 1 \in settled'[g]
    BY <1>1, <1>2, Zenon DEF GroupTypes
  <1>8. Standing(s)'
    BY <1>1, <1>2, <1>5, <1>6, <1>7, Zenon DEF Standing, Stand
  <1>9. ASSUME NEW t \in Subs, t # s PROVE Standing(t)'
    <2>1. resolved'[t] = resolved[t] /\ Standing(t) /\ GroupOf(t) \in Groups
      BY <1>1, <1>2, <1>9, GroupFacts, Zenon DEF GroupTypes, GroupInv
    <2>2. Bystander(t)
      BY <1>1, <1>5, <1>6, <2>1, Zenon DEF Bystander
    <2> QED BY <1>1, <1>2, <1>2a, <2>1, <2>2, BystanderStands, Zenon
  <1>10. \A h \in Groups : Committed(h)'
    BY <1>1, <1>2, <1>2a, <1>6, IdleGroup, Zenon DEF GroupInv
  <1> QED BY <1>4, <1>8, <1>9, <1>10 DEF GroupInv

LEMMA CommitKeepsGroups == ASSUME GroupInv, NEW s \in Subs, Commits(s) PROVE GroupInv'
  <1>0. GroupTypes /\ GroupOf(s) \in Groups
    BY GroupFacts DEF GroupInv
  <1> PICK g \in Groups : g = GroupOf(s)
    BY <1>0
  <1>1. /\ offset' = [offset EXCEPT ![g] = position[s] + 1]
        /\ position' = [position EXCEPT ![s] = position[s] + 1]
        /\ resolved' = [resolved EXCEPT ![s] = FALSE] /\ resolved[s] /\ Holds(s)
        /\ UNCHANGED <<options, end, holder, polled, settled, base, faults>>
    BY <1>0, Zenon DEF Commits, GroupTypes
  <1>2. /\ position[s] \in Nat /\ Standing(s) /\ end \in Nat /\ end <= end
        /\ offset'[g] = position[s] + 1 /\ Unset \notin Nat
    BY <1>0, <1>1, DeliveryConstants, SMTT(30) DEF GroupInv, GroupTypes, Holds
  <1>3. /\ Committed(g)' /\ position[s] + 1 \in 0..MaxMessages /\ position[s] + 1 <= polled[s]
        /\ base[g] + 1 .. position[s] + 1 \subseteq settled[g]
    BY <1>1, <1>2, CommitStands, Zenon
  <1>4. GroupTypes'
    BY <1>0, <1>1, <1>3, Zenon DEF GroupTypes
  <1>5. \A t \in Subs : /\ GroupOf(t)' = GroupOf(t) /\ Direct(t)' = Direct(t)
                        /\ Shared(t)' = Shared(t)
    BY <1>1, Zenon DEF GroupOf, Direct, Shared
  <1>6. Standing(s)'
    <2>1. position'[s] = position[s] + 1 /\ resolved'[s] = FALSE /\ position[s] + 1 # Unset
      BY <1>0, <1>1, <1>2, SMTT(30) DEF GroupTypes
    <2>2. position[s] # Unset
      BY <1>1, Zenon DEF Holds
    <2> QED BY <1>1, <1>2, <1>3, <1>5, <2>1, <2>2, Zenon DEF Standing, Stand
  <1>7. ASSUME NEW t \in Subs, t # s PROVE Standing(t)'
    <2>1. /\ position'[t] = position[t] /\ resolved'[t] = resolved[t] /\ Standing(t)
          /\ GroupOf(t) \in Groups
      BY <1>0, <1>1, <1>7, GroupFacts, Zenon DEF GroupTypes, GroupInv
    <2>2. Holds(t)' => Holds(t)
      BY <1>1, <1>5, <2>1, Zenon DEF Holds
    <2>3. ASSUME Holds(t) PROVE offset'[GroupOf(t)] = offset[GroupOf(t)]
      <3>1. CASE GroupOf(t) = g
        <4>1. Shared(s) /\ holder[g] = t
          BY <1>0, <1>7, <2>1, <2>3, <3>1, OnlyHolder, Zenon
        <4>2. ~Direct(s)
          BY <1>1, <1>2, <4>1, Zenon DEF Standing, Holds
        <4> QED BY <1>1, <1>7, <4>1, <4>2, Zenon DEF Holds
      <3>2. CASE GroupOf(t) # g
        BY <1>0, <1>1, <2>1, <3>2, Zenon DEF GroupTypes
      <3> QED BY <3>1, <3>2, Zenon
    <2>4. Bystander(t)
      BY <1>1, <2>1, <2>2, <2>3, Zenon DEF Bystander
    <2> QED BY <1>0, <1>1, <1>2, <2>1, <2>4, BystanderStands, Zenon
  <1>8. ASSUME NEW h \in Groups PROVE Committed(h)'
    <2>1. CASE h # g
      <3>1. offset'[h] = offset[h] /\ Committed(h)
        BY <1>0, <1>1, <2>1, Zenon DEF GroupTypes, GroupInv
      <3> QED BY <1>0, <1>1, <1>2, <3>1, IdleGroup, Zenon
    <2> QED BY <1>3, <2>1, Zenon
  <1> QED BY <1>4, <1>6, <1>7, <1>8 DEF GroupInv

(* Nothing is committed, and consumers lose their position or keep it. *)
LEMMA ReleaseKeepsGroups ==
  ASSUME GroupInv, UNCHANGED <<options, end, offset, settled, base>>, GroupTypes',
         \A t \in Subs : \/ position'[t] = Unset /\ ~resolved'[t]
                         \/ /\ position'[t] = position[t] /\ polled'[t] = polled[t]
                            /\ resolved'[t] = resolved[t],
         \A g \in Groups : holder'[g] \in {holder[g], NoOne}
  PROVE  GroupInv'
  <1>1. GroupTypes /\ end \in Nat /\ end <= end /\ NoOne \notin Subs
    BY DeliveryConstants, SMTT(30) DEF GroupInv, GroupTypes
  <1>2. \A t \in Subs : /\ GroupOf(t)' = GroupOf(t) /\ Direct(t)' = Direct(t)
                        /\ GroupOf(t) \in Groups
    BY <1>1, GroupFacts, Zenon DEF GroupOf, Direct, Shared
  <1>3. ASSUME NEW t \in Subs, position'[t] = position[t] PROVE Holds(t)' => Holds(t)
    BY <1>1, <1>2, <1>3, Zenon DEF Holds
  <1>4. \A t \in Subs : Bystander(t) \/ (position'[t] = Unset /\ ~resolved'[t])
    BY <1>3, Zenon DEF Bystander
  <1>5. \A g \in Groups : Committed(g)'
    BY Zenon DEF GroupInv, Committed
  <1> QED BY <1>1, <1>4, <1>5, QuietStep, Zenon

LEMMA FaultKeepsType == ASSUME GroupTypes, Fault PROVE faults' \in 0..MaxFaults
  BY DeliveryConstants, SMTT(30) DEF GroupTypes, Fault

LEMMA RebalanceKeepsGroups == ASSUME GroupInv, NEW g \in Groups, Rebalance(g) PROVE GroupInv'
  <1>1. GroupTypes /\ 0 \in 0..MaxMessages
    BY DeliveryConstants DEF GroupInv
  <1> PICK s \in Subs : s = holder[g]
    BY <1>1, Zenon DEF Rebalance, GroupTypes
  <1>2. /\ faults' \in 0..MaxFaults /\ holder' = [holder EXCEPT ![g] = NoOne]
        /\ UNCHANGED <<options, end, offset, resolved, settled, base>>
    BY <1>1, FaultKeepsType, Zenon DEF Rebalance
  <1>3. \/ UNCHANGED <<position, polled>>
        \/ /\ position' = [position EXCEPT ![s] = Unset]
           /\ polled' = [polled EXCEPT ![s] = 0] /\ ~Pending(s)
    BY Zenon DEF Rebalance
  <1>4. GroupTypes'
    BY <1>1, <1>2, <1>3, SMTT(30) DEF GroupTypes
  <1>5. ~Pending(s) => ~resolved[s]
    BY Zenon DEF GroupInv, Standing, Pending
  <1>6. \A t \in Subs : \/ position'[t] = Unset /\ ~resolved'[t]
                        \/ /\ position'[t] = position[t] /\ polled'[t] = polled[t]
                           /\ resolved'[t] = resolved[t]
    BY <1>1, <1>2, <1>3, <1>5, Zenon DEF GroupTypes
  <1>7. \A h \in Groups : holder'[h] \in {holder[h], NoOne}
    BY <1>1, <1>2, Zenon DEF GroupTypes
  <1> QED BY <1>2, <1>4, <1>6, <1>7, ReleaseKeepsGroups, Zenon

LEMMA ReconnectKeepsGroups == ASSUME GroupInv, NEW s \in Subs, Reconnect(s) PROVE GroupInv'
  <1>1. /\ GroupTypes /\ 0 \in 0..MaxMessages /\ Standing(s) /\ position[s] # Unset
        /\ UNCHANGED <<options, end, offset, resolved, settled>> /\ GroupOf(s) \in Groups
        /\ faults' \in 0..MaxFaults
    <2>1. GroupTypes /\ Standing(s)
      BY DEF GroupInv
    <2>2. 0 \in 0..MaxMessages
      BY DeliveryConstants
    <2>3. /\ position[s] # Unset /\ Fault
          /\ UNCHANGED <<options, end, offset, resolved, settled>>
      BY Zenon DEF Reconnect, Holds
    <2>4. GroupOf(s) \in Groups
      BY <2>1, GroupFacts
    <2>5. faults' \in 0..MaxFaults
      BY <2>1, <2>3, FaultKeepsType
    <2> QED BY <2>1, <2>2, <2>3, <2>4, <2>5
  <1>2. ~resolved[s]
    BY <1>1, Zenon DEF Reconnect, Standing, Pending
  <1>3. CASE Direct(s)
    <2>1. Establish(s) /\ holder' = holder /\ ~Shared(s)
      BY <1>1, <1>3, Zenon DEF Reconnect, Standing
    <2> QED BY <1>1, <1>2, <1>3, <2>1, BeginsStands, Zenon
  <1>4. CASE ~Direct(s)
    <2>1. /\ position' = [position EXCEPT ![s] = Unset] /\ polled' = [polled EXCEPT ![s] = 0]
          /\ holder' = [holder EXCEPT ![GroupOf(s)] = NoOne] /\ base' = base
      BY <1>4 DEF Reconnect
    <2>2. GroupTypes'
      BY <1>1, <2>1, Zenon DEF GroupTypes
    <2>3. \A t \in Subs : \/ position'[t] = Unset /\ ~resolved'[t]
                          \/ /\ position'[t] = position[t] /\ polled'[t] = polled[t]
                             /\ resolved'[t] = resolved[t]
      BY <1>1, <1>2, <2>1, Zenon DEF GroupTypes
    <2>4. \A h \in Groups : holder'[h] \in {holder[h], NoOne}
      BY <1>1, <2>1, Zenon DEF GroupTypes
    <2> QED BY <1>1, <2>1, <2>2, <2>3, <2>4, ReleaseKeepsGroups, Zenon
  <1> QED BY <1>3, <1>4

LEMMA RestartKeepsGroups == ASSUME GroupInv, RestartHub PROVE GroupInv'
  <1>1. /\ GroupTypes /\ 0 \in 0..MaxMessages
        /\ UNCHANGED <<options, end, offset, settled, base, faults>>
        /\ holder' = [g \in Groups |-> NoOne]
        /\ position' = [s \in Subs |-> Unset] /\ polled' = [s \in Subs |-> 0]
        /\ resolved' = [s \in Subs |-> FALSE]
    BY DeliveryConstants, SMTT(30) DEF GroupInv, RestartHub
  <1>2. GroupTypes'
    BY <1>1, Zenon DEF GroupTypes
  <1> QED BY <1>1, <1>2, ReleaseKeepsGroups, Zenon

(* The end of a Run: the offset of its group stays, or is deleted with a   *)
(* group of its own.                                                       *)
LEMMA CloseKeepsGroups ==
  ASSUME GroupInv, NEW s \in Subs, CloseConsumer(s) PROVE GroupInv'
  <1>0. GroupTypes /\ GroupOf(s) \in Groups
    BY GroupFacts, Zenon DEF GroupInv
  <1> PICK g \in Groups : g = GroupOf(s)
    BY <1>0, Zenon
  <1>1. /\ position' = [position EXCEPT ![s] = Unset] /\ polled' = [polled EXCEPT ![s] = 0]
        /\ resolved' = [resolved EXCEPT ![s] = FALSE]
        /\ holder' = [h \in Groups |-> IF holder[h] = s THEN NoOne ELSE holder[h]]
        /\ UNCHANGED <<options, end, settled, base>>
        /\ 0 \in 0..MaxMessages /\ end \in Nat /\ end <= end /\ NoOne \notin Subs
    BY <1>0, DeliveryConstants, SMTT(30) DEF CloseConsumer, Leave, GroupTypes
  <1>2. /\ faults' \in 0..MaxFaults
        /\ offset' = offset \/ (offset' = [offset EXCEPT ![g] = Unset] /\ ~Shared(s))
    BY <1>0, FaultKeepsType, Zenon DEF CloseConsumer, Deletes, GroupTypes
  <1>3. \A h \in Groups : offset'[h] \in {offset[h], Unset}
    BY <1>0, <1>2, Zenon DEF GroupTypes
  <1>4. offset' \in [Groups -> 0..MaxMessages \cup {Unset}]
    BY <1>0, <1>2, Zenon DEF GroupTypes
  <1>5. GroupTypes'
    BY <1>0, <1>1, <1>2, <1>4, Zenon DEF GroupTypes
  <1>6. ASSUME NEW h \in Groups PROVE Committed(h)'
    BY <1>0, <1>1, <1>3, IdleGroup, Zenon DEF GroupInv
  <1>7. ASSUME NEW t \in Subs PROVE Bystander(t) \/ (position'[t] = Unset /\ ~resolved'[t])
    <2>1. CASE t = s
      BY <1>0, <1>1, <2>1, Zenon DEF GroupTypes
    <2>2. CASE t # s
      <3>1. /\ position'[t] = position[t] /\ polled'[t] = polled[t] /\ resolved'[t] = resolved[t]
            /\ Standing(t) /\ GroupOf(t) \in Groups
        BY <1>0, <1>1, <2>2, GroupFacts, Zenon DEF GroupTypes, GroupInv
      <3>2. Holds(t)' => Holds(t)
        BY <1>1, <3>1, Zenon DEF Holds, GroupOf, Direct, Shared
      <3>3. offset'[GroupOf(t)] = offset[GroupOf(t)]
        <4>1. ~Shared(s) => GroupOf(t) # g
          BY <1>0, <2>2, GroupFacts, Zenon
        <4> QED BY <1>0, <1>2, <3>1, <4>1, Zenon DEF GroupTypes
      <3> QED BY <1>1, <3>1, <3>2, <3>3, Zenon DEF Bystander
    <2> QED BY <2>1, <2>2, Zenon
  <1> QED BY <1>1, <1>5, <1>6, <1>7, QuietStep, Zenon

(* Only an open consumer has a position. *)
Attached == \A s \in Subs : position[s] # Unset => HasConsumer(s)

DeliveryInv == ManagerInv /\ GroupInv /\ Attached

LEMMA StepKeepsGroupInv ==
  ASSUME GroupInv, Attached, [DeliveryNext]_deliveryVars PROVE GroupInv'
  <1>1. CASE groupVars' = groupVars
    BY <1>1, SameGroups
  <1>2. CASE Publish \/ RestartHub
    BY <1>2, PublishKeepsGroups, RestartKeepsGroups
  <1>3. ASSUME NEW s \in Subs, OpenConsumer(s) PROVE GroupInv'
    <2>1. position[s] = Unset
      BY <1>3 DEF OpenConsumer, Opens, Attached, HasConsumer
    <2> QED BY <1>3, <2>1, OpenKeepsGroups
  <1>4. ASSUME NEW s \in Subs,
               \/ Assign(s) \/ Poll(s) \/ Settle(s) \/ Commits(s) \/ Reconnect(s)
               \/ CloseConsumer(s)
        PROVE  GroupInv'
    BY <1>4, AssignKeepsGroups, PollKeepsGroups, SettleKeepsGroups, CommitKeepsGroups,
       ReconnectKeepsGroups, CloseKeepsGroups, Zenon
  <1>5. ASSUME NEW s \in Subs, Ack(s) \/ AckRefused(s) \/ Ended(s) \/ Failed(s) PROVE GroupInv'
    BY <1>1, <1>4, <1>5, Zenon DEF Ack, AckRefused, Ended, Failed
  <1>6. ASSUME NEW g \in Groups, Rebalance(g) PROVE GroupInv'
    BY <1>6, RebalanceKeepsGroups
  <1> QED
    BY <1>1, <1>2, <1>3, <1>4, <1>5, <1>6, Zenon DEF DeliveryNext, deliveryVars, Subscribe

LEMMA StepKeepsAttached ==
  ASSUME ManagerInv, GroupInv, Attached, [DeliveryNext]_deliveryVars PROVE Attached'
  <1>1. /\ position \in [Subs -> 0..MaxMessages \cup {Unset}] /\ GroupTypes
        /\ worker \in [Subs -> WorkerStates]
    BY Zenon DEF ManagerInv, ManagerTypeOK, GroupInv, GroupTypes
  <1>2. CASE UNCHANGED <<position, worker>>
    BY <1>2, Zenon DEF Attached, HasConsumer
  <1>3. CASE Reconcile /\ groupVars' = groupVars
    <2>1. ASSUME NEW s \in Subs, HasConsumer(s) PROVE worker'[s] = worker[s]
      <3>1. PICK i \in seen + 1 .. Len(views) :
               worker'[s] = IF Desired(views[i], s) /\ worker[s] = "none" THEN "opening"
                            ELSE IF Stops(views[i], s) /\ Forget(s) THEN "none" ELSE worker[s]
        BY <1>3, Zenon DEF Reconcile
      <3> QED BY <2>1, <3>1 DEF Forget, HasConsumer
    <2>2. position' = position
      BY <1>3 DEF groupVars
    <2> QED BY <2>1, <2>2, Zenon DEF Attached, HasConsumer
  <1>4. CASE RestartHub
    BY <1>4, Zenon DEF RestartHub, Attached
  <1>5. ASSUME NEW s \in Subs, HasConsumer(s)' \/ position'[s] = Unset,
               \E w \in WorkerStates : worker' = [worker EXCEPT ![s] = w],
               \A t \in Subs : t # s => position'[t] = position[t]
        PROVE  Attached'
    <2>1. \A t \in Subs : t # s => worker'[t] = worker[t]
      BY <1>1, <1>5, Zenon
    <2> QED BY <1>5, <2>1, Zenon DEF Attached, HasConsumer
  <1>5a. ASSUME NEW s \in Subs, worker' = worker, HasConsumer(s),
                \A t \in Subs : t # s => position'[t] = position[t]
         PROVE  Attached'
    BY <1>5a, Zenon DEF Attached, HasConsumer
  <1>6. ASSUME NEW s \in Subs, OpenConsumer(s) PROVE Attached'
    <2>1. \A t \in Subs : t # s => position'[t] = position[t]
      BY <1>1, <1>6, Zenon DEF OpenConsumer, Establish
    <2>2. worker' = [worker EXCEPT ![s] = "open"] /\ HasConsumer(s)'
      BY <1>1, <1>6 DEF OpenConsumer, Opens, HasConsumer
    <2>3. "open" \in WorkerStates
      BY DEF WorkerStates
    <2> QED BY <1>5, <2>1, <2>2, <2>3, Zenon
  <1>7. ASSUME NEW s \in Subs, Assign(s) \/ Ack(s) \/ Reconnect(s) PROVE Attached'
    <2>1. worker' = worker /\ HasConsumer(s)
      BY <1>7, Zenon DEF Assign, Ack, Reconnect, HasConsumer, vars
    <2>2. \A t \in Subs : t # s => position'[t] = position[t]
      BY <1>1, <1>7, Zenon DEF Assign, Ack, Commits, Reconnect, Establish
    <2> QED BY <1>5a, <2>1, <2>2, Zenon
  <1>8. ASSUME NEW s \in Subs, RunEnds(s), UNCHANGED groupVars \/ Commits(s) PROVE Attached'
    <2>1. worker' = [worker EXCEPT ![s] = IF @ = "open" THEN "returning" ELSE "closed"]
      BY <1>8, Zenon DEF RunEnds, EndsStale, EndsGone, EndsStopped, EndsWithError, Ends
    <2>2. /\ worker[s] \in {"opening", "open"}
          /\ \A t \in Subs : t # s => position'[t] = position[t]
          /\ position[s] = Unset => position'[s] = Unset
      <3>1. worker[s] \in {"opening", "open"}
        BY <1>8 DEF RunEnds, EndsStale, EndsGone, EndsStopped, EndsWithError, Running
      <3> QED BY <1>1, <1>8, <3>1, Zenon DEF groupVars, Commits, Holds
    <2>3. CASE worker[s] = "open"
      <3>1. worker' = [worker EXCEPT ![s] = "returning"]
        BY <2>1, <2>3
      <3>2. "returning" \in WorkerStates /\ HasConsumer(s)'
        BY <1>1, <3>1 DEF WorkerStates, HasConsumer
      <3> QED BY <1>5, <2>2, <3>1, <3>2, Zenon
    <2>4. CASE worker[s] = "opening"
      <3>1. worker' = [worker EXCEPT ![s] = "closed"]
        BY <2>1, <2>4
      <3>2. "closed" \in WorkerStates /\ position[s] = Unset
        BY <2>4 DEF WorkerStates, Attached, HasConsumer
      <3> QED BY <1>5, <2>2, <3>1, <3>2, Zenon
    <2> QED BY <2>2, <2>3, <2>4
  <1>8a. ASSUME NEW s \in Subs, ReadsIntent(s) \/ Finishes(s), position' = position
         PROVE  Attached'
    <2>1. CASE ReadsIntent(s)
      <3>1. \E w \in {"leaving", "deleting"} : worker' = [worker EXCEPT ![s] = w]
        BY <2>1 DEF ReadsIntent
      <3>2. HasConsumer(s)' /\ \E w \in WorkerStates : worker' = [worker EXCEPT ![s] = w]
        BY <1>1, <3>1 DEF WorkerStates, HasConsumer
      <3> QED BY <1>5, <1>8a, <3>2, Zenon
    <2>2. CASE Finishes(s)
      <3>1. worker' = [worker EXCEPT ![s] = "done"] /\ worker[s] = "closed"
        BY <2>2, Zenon DEF Finishes
      <3>2. position[s] = Unset /\ "done" \in WorkerStates
        BY <3>1 DEF Attached, HasConsumer, WorkerStates
      <3> QED BY <1>5, <1>8a, <3>1, <3>2, Zenon
    <2> QED BY <1>8a, <2>1, <2>2
  <1>8b. ASSUME NEW s \in Subs, CloseConsumer(s) PROVE Attached'
    <2>1. /\ worker' = [worker EXCEPT ![s] = "closed"]
          /\ position' = [position EXCEPT ![s] = Unset]
      BY <1>8b, Zenon DEF CloseConsumer, Closes, Leave
    <2>2. "closed" \in WorkerStates
      BY DEF WorkerStates
    <2>3. position'[s] = Unset /\ \A t \in Subs : t # s => position'[t] = position[t]
      BY <1>1, <2>1, Zenon
    <2> QED BY <1>5, <2>1, <2>2, <2>3, Zenon
  <1>9. ASSUME NEW g \in Groups, Rebalance(g) PROVE Attached'
    <2>1. /\ worker' = worker
          /\ position' = position \/ position' = [position EXCEPT ![holder[g]] = Unset]
      BY <1>9, Zenon DEF Rebalance, vars
    <2>2. \A t \in Subs : position'[t] \in {position[t], Unset}
      BY <1>1, <2>1
    <2> QED BY <2>1, <2>2, Zenon DEF Attached, HasConsumer
  <1> QED
    BY <1>2, <1>3, <1>4, <1>6, <1>7, <1>8, <1>8a, <1>8b, <1>9, Zenon
    DEF DeliveryNext, deliveryVars, groupVars, vars, Publish, SwitchTopic, Subscribe, Verify,
        Unsubscribe, Poll, Settle, AckRefused, Ended, Failed, RunEnds

LEMMA DeliveryInvariance == DeliverySpec => []DeliveryInv
  <1>1. DeliveryInit => DeliveryInv
    <2> SUFFICES ASSUME DeliveryInit PROVE DeliveryInv
      OBVIOUS
    <2>1. ManagerInv
      BY ManagerTypesInitially, ManagerInitially DEF ManagerInv, DeliveryInit
    <2>2. GroupTypes /\ Attached
      BY DeliveryConstants, SMTT(30) DEF DeliveryInit, GroupTypes, Attached
    <2>3. \A s \in Subs : Standing(s)
      BY Zenon DEF DeliveryInit, Standing
    <2>4. \A g \in Groups : Committed(g)
      BY DEF DeliveryInit, Committed
    <2> QED BY <2>1, <2>2, <2>3, <2>4 DEF DeliveryInv, GroupInv
  <1>2. [DeliveryNext]_deliveryVars => [Next]_vars
    BY DeliveryStepIsManagerStep
  <1>3. ManagerInv /\ [Next]_vars => ManagerInv'
    BY ManagerStepKeepsTypes, ManagerStepKeepsAccounted DEF ManagerInv
  <1>4. DeliveryInv /\ [DeliveryNext]_deliveryVars => DeliveryInv'
    BY <1>2, <1>3, StepKeepsGroupInv, StepKeepsAttached DEF DeliveryInv
  <1> QED BY <1>1, <1>4, PTL DEF DeliverySpec

(* The state of the manager, of the consumers and of the groups keeps its  *)
(* type and its bounds.                                                    *)
THEOREM DeliveryTypes == DeliverySpec => []DeliveryTypeOK
  <1>1. DeliveryInv => DeliveryTypeOK
    BY Zenon DEF DeliveryInv, ManagerInv, GroupInv, GroupTypes, DeliveryTypeOK
  <1> QED BY <1>1, DeliveryInvariance, PTL

(* At least once, for a group: whichever members read it, are expelled     *)
(* from it, end or crash, it never passes a message without an outcome.    *)
THEOREM GroupsDeliverAtLeastOnce == DeliverySpec => []GroupProgressFollowsOutcomes
  <1>1. DeliveryInv => GroupProgressFollowsOutcomes
    BY Zenon DEF DeliveryInv, GroupInv, Committed, GroupProgressFollowsOutcomes
  <1> QED BY <1>1, DeliveryInvariance, PTL

(* The order of a group survives rebalances, expelled members, failing     *)
(* polls and restarts: an outcome never overtakes a message without one.   *)
THEOREM GroupsKeepOrder == DeliverySpec => GroupOutcomesAreInOrder
  <1>1. DeliveryInv /\ [DeliveryNext]_deliveryVars =>
          [\A g \in Groups : \A m \in settled'[g] \ settled[g] :
              base[g] + 1 .. m - 1 \subseteq settled[g]]_deliveryVars
    <2> SUFFICES ASSUME DeliveryInv, DeliveryNext, NEW g \in Groups,
                        NEW m \in settled'[g], m \notin settled[g]
                 PROVE  base[g] + 1 .. m - 1 \subseteq settled[g]
      OBVIOUS
    <2>1. \E s \in Subs : Settle(s)
      BY Zenon DEF DeliveryNext, Publish, RestartHub, groupVars, Rebalance, Subscribe, OpenConsumer,
             Assign, Poll, Reconnect, Ack, Commits, AckRefused, Ended, Failed, CloseConsumer
    <2>2. PICK s \in Subs : Settle(s)
      BY <2>1, Zenon
    <2>3. /\ GroupTypes /\ Standing(s) /\ position[s] # Unset /\ GroupOf(s) \in Groups
          /\ settled' = [settled EXCEPT ![GroupOf(s)] = @ \cup {position[s] + 1}]
      BY <2>2, GroupFacts, Zenon DEF DeliveryInv, GroupInv, Settle, Pending
    <2>4. g = GroupOf(s) /\ m = position[s] + 1 /\ position[s] \in Nat
      BY <2>3, DeliveryConstants, SMTT(30) DEF GroupTypes
    <2>5. m - 1 = position[s]
      BY <2>4, SMTT(30)
    <2> QED BY <2>3, <2>4, <2>5, Zenon DEF Standing
  <1> QED BY <1>1, DeliveryInvariance, PTL DEF DeliverySpec, GroupOutcomesAreInOrder

(* Of a shared group neither a permanent closure nor a late commit takes   *)
(* anything back (ADR 0019).                                               *)
THEOREM SharedGroupsKeepProgress == DeliverySpec => SharedProgressIsKept
  <1>1. DeliveryInv /\ [DeliveryNext]_deliveryVars =>
          [\A g \in GroupNames :
              offset[g] # Unset => offset'[g] # Unset /\ offset'[g] >= offset[g]]_deliveryVars
    <2> SUFFICES ASSUME DeliveryInv, DeliveryNext, NEW g \in GroupNames, offset[g] # Unset
                 PROVE  offset'[g] # Unset /\ offset'[g] >= offset[g]
      OBVIOUS
    <2>1. /\ GroupTypes /\ g \in Groups /\ offset[g] \in Nat /\ Unset \notin Nat /\ g \notin Subs
      BY DeliveryConstants, SMTT(30) DEF DeliveryInv, GroupInv, GroupTypes, Groups
    <2>2. CASE offset'[g] = offset[g]
      <3>1. offset[g] >= offset[g]
        BY <2>1
      <3> QED BY <2>2, <3>1, Zenon
    <2>3. ASSUME NEW s \in Subs, Holds(s), offset'[g] = position[s] + 1, GroupOf(s) = g
          PROVE  offset'[g] # Unset /\ offset'[g] >= offset[g]
      <3>1. position[s] = offset[g]
        BY <2>3, Zenon DEF DeliveryInv, GroupInv, Standing, Stand, Holds
      <3>2. offset'[g] = offset[g] + 1
        BY <2>3, <3>1, Zenon
      <3>3. \A n \in Nat : n + 1 \in Nat /\ n + 1 >= n
        OBVIOUS
      <3> QED BY <2>1, <3>2, <3>3, Zenon
    <2>4. ASSUME NEW s \in Subs, Commits(s) PROVE offset'[g] # Unset /\ offset'[g] >= offset[g]
      <3>1. offset' = [offset EXCEPT ![GroupOf(s)] = position[s] + 1] /\ Holds(s)
        BY <2>4, Zenon DEF Commits
      <3>2. offset'[g] = offset[g] \/ (GroupOf(s) = g /\ offset'[g] = position[s] + 1)
        BY <2>1, <3>1, Zenon DEF GroupTypes
      <3> QED BY <2>2, <2>3, <3>1, <3>2, Zenon
    <2>5. ASSUME NEW s \in Subs, CloseConsumer(s) PROVE offset'[g] = offset[g]
      <3>1. ~Shared(s) => GroupOf(s) # g
        BY <2>1, GroupFacts
      <3> QED BY <2>1, <2>5, <3>1, Zenon DEF CloseConsumer, Deletes, GroupTypes
    <2> QED
      BY <2>2, <2>4, <2>5, Zenon
      DEF DeliveryNext, Publish, RestartHub, groupVars, Rebalance, Subscribe, OpenConsumer,
          Assign, Poll, Settle, Reconnect, Ack, AckRefused, Failed, Ended
  <1> QED BY <1>1, DeliveryInvariance, PTL DEF DeliverySpec, SharedProgressIsKept

(* A permanent intent that is set before it is read is not lost on the way *)
(* to the deletion of the group.                                           *)
THEOREM PermanentStopsDelete == DeliverySpec => PermanentStopDeletes
  <1>1. DeliveryInv /\ [DeliveryNext]_deliveryVars =>
          [\A s \in Subs : Due(s) =>
              \/ Due(s)'
              \/ offset'[GroupOf(s)] = Unset
              \/ <<restarts, faults>>' # <<restarts, faults>>]_deliveryVars
    <2> SUFFICES ASSUME DeliveryInv, DeliveryNext, NEW s \in Subs, Due(s)
                 PROVE  \/ Due(s)'
                        \/ offset'[GroupOf(s)] = Unset
                        \/ restarts' # restarts \/ faults' # faults
      OBVIOUS
    <2>1. /\ ManagerTypeOK /\ GroupTypes /\ restarts \in Nat /\ faults \in Nat
          /\ GroupOf(s) \in Groups
      <3>1. ManagerTypeOK /\ GroupTypes
        BY Zenon DEF DeliveryInv, ManagerInv, GroupInv
      <3>2. restarts \in Nat
        BY <3>1 DEF ManagerTypeOK
      <3>3. faults \in Nat
        BY <3>1, SMTT(30) DEF GroupTypes
      <3> QED BY <3>1, <3>2, <3>3, GroupFacts, Zenon
    <2>2. ~Shared(s) /\ ~Shared(s)'
      <3>1. options' = options
        BY Zenon DEF DeliveryNext, groupVars, Publish, RestartHub, Rebalance, Subscribe,
                     OpenConsumer, Assign, Poll, Settle, Ack, Commits, AckRefused, Reconnect,
                     Failed, Ended, CloseConsumer
      <3> QED BY <3>1, Zenon DEF Due, Shared
    <2>3. ASSUME worker'[s] = worker[s], intent'[s] = intent[s] PROVE Due(s)'
      BY <2>2, <2>3, Zenon DEF Due
    <2>4. CASE Reconcile
      <3>1. PICK i \in seen + 1 .. Len(views) :
              /\ worker'[s] = IF Desired(views[i], s) /\ worker[s] = "none" THEN "opening"
                              ELSE IF Stops(views[i], s) /\ Forget(s) THEN "none" ELSE worker[s]
              /\ intent'[s] = IF Stops(views[i], s) /\ Forget(s) THEN "temporary"
                              ELSE IF Stops(views[i], s) /\ StopIntent(views[i], s) = "permanent"
                              THEN "permanent" ELSE intent[s]
        BY <2>4, Zenon DEF Reconcile
      <3> QED BY <2>2, <3>1 DEF Due, Forget
    <2>5. CASE Restart
      <3>1. restarts' = restarts + 1
        BY <2>5, Zenon DEF Restart
      <3> QED BY <2>1, <3>1, SMTT(30)
    <2>6. ASSUME NEW t \in Subs, RunEnds(t) PROVE Due(s)'
      <3>1. PICK i \in {intent[t], "permanent"} : Ends(t, i)
        BY <2>6 DEF RunEnds, EndsStale, EndsGone, EndsStopped, EndsWithError
      <3>2. CASE t # s
        BY <2>1, <2>3, <3>1, <3>2, Zenon DEF Ends, ManagerTypeOK
      <3>3. CASE t = s
        <4>1. worker[s] \in {"opening", "open"}
          BY <2>6, <3>3 DEF RunEnds, EndsStale, EndsGone, EndsStopped, EndsWithError, Running
        <4>2. worker[s] = "open" /\ intent[s] = "permanent"
          BY <4>1 DEF Due
        <4>3. worker'[s] = "returning" /\ intent'[s] = "permanent"
          BY <2>1, <3>1, <3>3, <4>2 DEF Ends, ManagerTypeOK
        <4> QED BY <2>2, <4>3 DEF Due
      <3> QED BY <3>2, <3>3, Zenon
    <2>7. ASSUME NEW t \in Subs, Opens(t) \/ ReadsIntent(t) \/ Finishes(t) PROVE Due(s)'
      <3>1. CASE t # s
        BY <2>1, <2>3, <2>7, <3>1, Zenon DEF Opens, ReadsIntent, Finishes, ManagerTypeOK
      <3>2. CASE t = s
        <4>1. worker[s] = "returning" /\ intent[s] = "permanent" /\ ReadsIntent(s)
          BY <2>7, <3>2 DEF Opens, ReadsIntent, Finishes, Due
        <4>2. worker'[s] = "deleting"
          BY <2>1, <4>1 DEF ReadsIntent, ManagerTypeOK
        <4> QED BY <2>2, <4>2, Zenon DEF Due
      <3> QED BY <3>1, <3>2, Zenon
    <2>8. ASSUME NEW t \in Subs, CloseConsumer(t)
          PROVE  Due(s)' \/ offset'[GroupOf(s)] = Unset \/ faults' # faults
      <3>1. CASE t # s
        BY <2>1, <2>3, <2>8, <3>1, Zenon DEF CloseConsumer, Closes, ManagerTypeOK
      <3>2. CASE t = s
        <4>1. worker[s] = "deleting"
          BY <2>8, <3>2 DEF CloseConsumer, Closes, Due
        <4>2. Deletes(s)
          BY <2>2, <4>1, Zenon DEF Deletes
        <4>3. Fault => faults' # faults
          BY <2>1 DEF Fault
        <4> QED BY <2>1, <2>8, <3>2, <4>2, <4>3, Zenon DEF CloseConsumer, GroupTypes
      <3> QED BY <3>1, <3>2, Zenon
    <2> QED
      BY <2>3, <2>4, <2>5, <2>6, <2>7, <2>8, Zenon
      DEF DeliveryNext, Publish, RestartHub, SwitchTopic, Rebalance, Subscribe, Verify, vars,
          Unsubscribe, OpenConsumer, Assign, Poll, Settle, Ack, AckRefused, Reconnect, Failed,
          Ended, RunEnds
  <1> QED BY <1>1, DeliveryInvariance, PTL DEF DeliverySpec, PermanentStopDeletes

(* Also with its consumers, the manager never runs two workers of one      *)
(* subscription.                                                           *)
COROLLARY OneRunInDelivery == DeliverySpec => []OneRunPerSubscription
  BY OneRun, DeliveryImplementsManager, PTL

-----------------------------------------------------------------------------
(* Delivery implements ContentGroups *)

LEMMA GroupsStutter ==
  ASSUME UNCHANGED <<end, offset, base, settled>> PROVE UNCHANGED Content!contentVars
  BY DEF Content!contentVars

(* A consumer begins, with its partition or directly. *)
LEMMA EstablishRefines ==
  ASSUME GroupTypes, NEW s \in Subs, Establish(s), UNCHANGED <<end, offset, settled>>
  PROVE  [Content!ContentNext]_(Content!contentVars)
  <1>0. GroupOf(s) \in Groups
    BY GroupFacts
  <1> PICK g \in Groups : g = GroupOf(s)
    BY <1>0
  <1>1. base' = [base EXCEPT ![g] = IF offset[g] = Unset THEN end ELSE @]
    BY Zenon DEF Establish
  <1>2. CASE offset[g] = Unset
    <2>1. Content!Begin(g)
      BY <1>1, <1>2 DEF Content!Begin
    <2> QED BY <2>1 DEF Content!ContentNext
  <1>3. CASE offset[g] # Unset
    <2>1. base' = base
      BY <1>1, <1>3, Zenon DEF GroupTypes
    <2> QED BY <2>1, GroupsStutter
  <1> QED BY <1>2, <1>3

(* A member settles its first pending message, also one that was expelled. *)
LEMMA SettleRefines ==
  ASSUME GroupInv, NEW s \in Subs, Settle(s) PROVE Content!ContentNext
  <1>0. GroupTypes /\ GroupOf(s) \in Groups /\ Standing(s)
    BY GroupFacts DEF GroupInv
  <1> PICK g \in Groups : g = GroupOf(s)
    BY <1>0
  <1>1. /\ position[s] # Unset /\ position[s] < polled[s]
        /\ settled' = [settled EXCEPT ![g] = @ \cup {position[s] + 1}]
        /\ UNCHANGED <<end, offset, base>>
    BY Zenon DEF Settle, Pending
  <1>2. position[s] \in Nat /\ polled[s] \in Nat /\ end \in Nat /\ polled[s] <= end
    BY <1>0, <1>1, DeliveryConstants, SMTT(30) DEF GroupTypes, Standing
  <1>3. position[s] + 1 \in 1..end /\ (position[s] + 1) - 1 = position[s]
    <2>1. position[s] < polled[s]
      BY <1>1, Zenon
    <2> QED BY <1>2, <2>1, SMTT(30)
  <1>4. base[g] + 1 .. position[s] \subseteq settled[g]
    BY <1>0, <1>1, Zenon DEF Standing
  <1>5. Content!Outcome(g, position[s] + 1)
    BY <1>1, <1>3, <1>4, Zenon DEF Content!Outcome
  <1> QED BY <1>3, <1>5 DEF Content!ContentNext

(* The broker takes the commit of the member that stands where the group   *)
(* stands.                                                                 *)
LEMMA CommitRefines ==
  ASSUME GroupInv, NEW s \in Subs, resolved[s], Holds(s),
         offset' = [offset EXCEPT ![GroupOf(s)] = position[s] + 1],
         UNCHANGED <<end, base, settled>>
  PROVE  Content!ContentNext
  <1>0. GroupTypes /\ GroupOf(s) \in Groups /\ Standing(s) /\ position[s] # Unset
    BY GroupFacts, Zenon DEF GroupInv, Holds
  <1> PICK g \in Groups : g = GroupOf(s)
    BY <1>0, Zenon
  <1>1. position[s] = Stand(g) /\ position[s] + 1 \in settled[g] /\ position[s] \in Nat
    BY <1>0, DeliveryConstants, SMTT(30) DEF Standing, GroupTypes
  <1>2. position[s] + 1 = 1 + (IF offset[g] = Unset THEN base[g] ELSE offset[g])
    <2>1. position[s] + 1 = 1 + position[s]
      BY <1>1, SMTT(30)
    <2> QED BY <1>1, <2>1, Zenon DEF Stand
  <1>3. Content!Commit(g)
    BY <1>1, <1>2, Zenon DEF Content!Commit
  <1> QED BY <1>3, Zenon DEF Content!ContentNext

(* The consumer is closed: its group keeps its offset or is deleted,       *)
(* unless parameters name it.                                              *)
LEMMA CloseRefines ==
  ASSUME GroupInv, NEW s \in Subs, CloseConsumer(s)
  PROVE  [Content!ContentNext]_(Content!contentVars)
  <1>0. GroupTypes /\ GroupOf(s) \in Groups /\ UNCHANGED <<end, base, settled>>
    BY GroupFacts, Zenon DEF GroupInv, CloseConsumer
  <1> PICK g \in Groups : g = GroupOf(s)
    BY <1>0, Zenon
  <1>1. offset' = offset \/ (offset' = [offset EXCEPT ![g] = Unset] /\ ~Shared(s))
    BY <1>0, Zenon DEF CloseConsumer, Deletes, GroupTypes
  <1>2. CASE offset' = [offset EXCEPT ![g] = Unset] /\ ~Shared(s)
    <2>1. g \notin GroupNames
      BY <1>0, <1>2, GroupFacts, DeliveryConstants, Zenon
    <2>2. Content!Delete(g)
      BY <1>0, <1>2, <2>1, Zenon DEF Content!Delete
    <2> QED BY <2>2, Zenon DEF Content!ContentNext
  <1>3. CASE offset' = offset
    BY <1>0, <1>3, GroupsStutter, Zenon
  <1> QED BY <1>1, <1>2, <1>3, Zenon

LEMMA DeliveryStepRefines ==
  GroupInv /\ [DeliveryNext]_deliveryVars => [Content!ContentNext]_(Content!contentVars)
  <1> SUFFICES ASSUME GroupInv, [DeliveryNext]_deliveryVars
               PROVE  [Content!ContentNext]_(Content!contentVars)
    OBVIOUS
  <1>0. GroupTypes
    BY DEF GroupInv
  <1>1. CASE UNCHANGED <<end, offset, base, settled>>
    BY <1>1, GroupsStutter
  <1>2. CASE Publish
    <2>1. Content!Append
      BY <1>2, Zenon DEF Publish, Content!Append
    <2> QED BY <2>1 DEF Content!ContentNext
  <1>3. ASSUME NEW s \in Subs, OpenConsumer(s) \/ Assign(s) \/ Reconnect(s)
        PROVE  [Content!ContentNext]_(Content!contentVars)
    <2>1. UNCHANGED <<end, offset, settled>> /\ (base' = base \/ Establish(s))
      BY <1>3, Zenon DEF OpenConsumer, Assign, Reconnect
    <2> QED BY <1>0, <1>1, <2>1, EstablishRefines, Zenon
  <1>4. ASSUME NEW s \in Subs, Settle(s) PROVE Content!ContentNext
    BY <1>4, SettleRefines
  <1>5. ASSUME NEW s \in Subs, Commits(s) PROVE Content!ContentNext
    BY <1>5, CommitRefines, Zenon DEF Commits
  <1>6. ASSUME NEW s \in Subs, CloseConsumer(s)
        PROVE  [Content!ContentNext]_(Content!contentVars)
    BY <1>6, CloseRefines, Zenon
  <1> QED
    BY <1>1, <1>2, <1>3, <1>4, <1>5, <1>6, Zenon
    DEF DeliveryNext, deliveryVars, groupVars, RestartHub, Rebalance, Subscribe, Poll, Ack,
        AckRefused, Ended, Failed

(* Whatever members of a group join, are expelled, commit late, end or are *)
(* lost with the hub, the groups of all subscriptions together make only   *)
(* the steps ContentGroups allows, and none that parameters name is        *)
(* deleted.                                                                *)
THEOREM DeliveryImplementsContent == DeliverySpec => ImplementsContent
  <1>1. DeliveryInit => Content!ContentInit
    BY DEF DeliveryInit, Content!ContentInit
  <1>2. DeliveryInv => GroupInv
    BY DEF DeliveryInv
  <1> QED
    BY <1>1, <1>2, DeliveryInvariance, DeliveryStepRefines, PTL
    DEF DeliverySpec, ImplementsContent, Content!ContentSpec

=============================================================================
