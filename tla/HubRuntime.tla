----------------------------- MODULE HubRuntime -----------------------------
(* The life of one hub process (app/runtime/hub.go, app/httpruntime): the  *)
(* main goroutine constructs the hub, serves, and closes what it built in  *)
(* the order of its defers; the consume loop is a goroutine of its own     *)
(* that nobody waits for.  Both provision the destinations of the active   *)
(* topics (kafka/administrator.go) before they reconcile the delivery      *)
(* workers, and other hubs may create the same destinations.               *)
(*                                                                         *)
(* What the projection and the workers do inside is HubProjection,         *)
(* DeliveryManager and DeliveryWorker; here a view is its set of active    *)
(* topics, and each topic has one subscription owned by this hub.          *)
EXTENDS Naturals, FiniteSets

CONSTANTS
    Topics,      \* the topics, and their content destinations
    Dlq,         \* the dead-letter destination
    MaxFaults    \* bound on failures of Kafka, the consolidator and the listeners

ASSUME RuntimeAssumption == Dlq \notin Topics /\ MaxFaults \in Nat

Destinations == Topics \cup {Dlq}

VARIABLES
    active,      \* the topics that the state log makes active
    store,       \* the destinations, as Kafka's metadata shows them
    main,        \* what RunHub is doing
    loop,        \* what consumeHub is doing
    todo,        \* the destinations still to ensure
    current,     \* the destination that EnsureDestination is working on
    phase,       \* how far it is; unless "idle" it holds Administrator.mu
    view,        \* the active topics of the projection
    worker,      \* the entry of the manager for each topic
    stopped,     \* the workers that Stop was called on
    awaited,     \* the workers that Manager.Close waits for
    asked,       \* the process was told to stop: the parent context
    cancelled,   \* runCtx is cancelled
    cause,       \* the cause given to cancel
    serverErr,   \* what httpruntime.Run stopped for
    result,      \* the error that RunHub returns
    faults

storeVars == <<active, store>>
ensureVars == <<todo, current, phase>>
workerVars == <<worker, stopped>>
exitVars == <<cancelled, cause>>
vars == <<storeVars, main, loop, ensureVars, view, workerVars, awaited, asked, exitVars,
          serverErr, result, faults>>

(* The types; the loop exists only behind the first reconciliation, so     *)
(* that RunHub and the loop never provision at the same time.              *)
RuntimeTypeOK ==
    /\ active \subseteq Topics /\ view \subseteq Topics
    /\ store \in [Destinations -> {"absent", "created", "visible", "foreign"}]
    /\ main \in {"down", "starting", "ensuring", "reconciling", "serving", "draining",
                 "closing", "waiting", "releasing"}
    /\ loop \in {"none", "consuming", "ensuring", "reconciling", "ended"}
    /\ main \in {"down", "starting", "ensuring", "reconciling"} => loop = "none"
    /\ todo \subseteq Destinations /\ current \in Destinations
    /\ phase \in {"idle", "creating", "created"}
    /\ worker \in [Topics -> {"none", "opening", "fetching", "open", "ended"}]
    /\ stopped \subseteq Topics /\ awaited \subseteq Topics
    /\ asked \in BOOLEAN /\ cancelled \in BOOLEAN
    /\ cause \in {"none", "loop", "server"}
    /\ serverErr \in {"none", "cancelled", "failed"}
    /\ result \in {"none", "clean", "failure"}
    /\ faults \in 0..MaxFaults

Fault == faults < MaxFaults /\ faults' = faults + 1

(* Destinations may exist beforehand, also with a shape the hub refuses. *)
Init ==
    /\ active = {}
    /\ store \in [Destinations -> {"absent", "visible", "foreign"}]
    /\ main = "down" /\ loop = "none"
    /\ todo = {} /\ current = Dlq /\ phase = "idle" /\ view = {}
    /\ worker = [t \in Topics |-> "none"] /\ stopped = {} /\ awaited = {}
    /\ asked = FALSE /\ cancelled = FALSE /\ cause = "none"
    /\ serverErr = "none" /\ result = "none" /\ faults = 0

-----------------------------------------------------------------------------
(* The world around the process *)

(* Topics are registered and deregistered through any hub. *)
Registers(t) ==
    /\ active' = IF t \in active THEN active \ {t} ELSE active \cup {t}
    /\ UNCHANGED <<store, main, loop, ensureVars, view, workerVars, awaited, asked, exitVars,
                   serverErr, result, faults>>

(* Another hub creates the destination, somebody else creates it with      *)
(* another shape, or the metadata shows what was created.                  *)
Provisions(d) ==
    /\ \/ store[d] = "absent" /\ \E s \in {"created", "foreign"} : store' = [store EXCEPT ![d] = s]
       \/ store[d] = "created" /\ store' = [store EXCEPT ![d] = "visible"]
    /\ UNCHANGED <<active, main, loop, ensureVars, view, workerVars, awaited, asked, exitVars,
                   serverErr, result, faults>>

(* The signal cancels the context of the command, and runCtx with it. *)
Signal ==
    /\ main # "down" /\ ~asked
    /\ asked' = TRUE /\ cancelled' = TRUE
    /\ UNCHANGED <<storeVars, main, loop, ensureVars, view, workerVars, awaited, cause,
                   serverErr, result, faults>>

(* Administrator.mu is held: by an EnsureDestination that goes on to       *)
(* create, or by a worker in OpenConsumer, which fetches its offsets       *)
(* under it.                                                               *)
Held == phase # "idle" \/ \E t \in Topics : worker[t] = "fetching"

(* OpenConsumer takes the mutex, *)
Locks(t) ==
    /\ worker[t] = "opening" /\ ~Held
    /\ worker' = [worker EXCEPT ![t] = "fetching"]
    /\ UNCHANGED <<storeVars, main, loop, ensureVars, view, stopped, awaited, asked, exitVars,
                   serverErr, result, faults>>

(* and returns a consumer, or an error after which the worker tries again. *)
Opens(t) ==
    /\ worker[t] = "fetching"
    /\ \/ worker' = [worker EXCEPT ![t] = "open"] /\ UNCHANGED faults
       \/ worker' = [worker EXCEPT ![t] = "opening"] /\ Fault
    /\ UNCHANGED <<storeVars, main, loop, ensureVars, view, stopped, awaited, asked, exitVars,
                   serverErr, result>>

(* Run returns, because it is stopped or by itself. *)
Ends(t) ==
    /\ worker[t] \in {"opening", "fetching", "open"}
    /\ worker' = [worker EXCEPT ![t] = "ended"]
    /\ UNCHANGED <<storeVars, main, loop, ensureVars, view, stopped, awaited, asked, exitVars,
                   serverErr, result, faults>>

-----------------------------------------------------------------------------
(* EnsureDestination and ensureHubDestinations, for RunHub and consumeHub *)

Ensuring == main = "ensuring" \/ loop = "ensuring"

(* The context of the calls is cancelled: ctx in RunHub, runCtx in the loop. *)
Interrupted == IF main = "ensuring" THEN asked ELSE cancelled

EnsureAll(topics) ==
    /\ todo' = {Dlq} \cup topics
    /\ UNCHANGED <<current, phase>>

Leave == current' = Dlq /\ phase' = "idle"

(* Mutant of LoopEnds: the error of the loop cancels nothing. *)
LoopEndsSilently ==
    /\ loop' = "ended"
    /\ UNCHANGED exitVars

(* consumeHub returns an error, which cancels runCtx if nothing has before. *)
LoopEnds ==
    /\ loop' = "ended"
    /\ IF cancelled THEN UNCHANGED exitVars ELSE cancelled' = TRUE /\ cause' = "loop"

(* reconcileHub returns an error. *)
Aborts ==
    /\ todo' = {} /\ Leave
    /\ IF main \in {"ensuring", "reconciling"}
       THEN main' = "closing" /\ result' = "failure" /\ UNCHANGED <<loop, exitVars>>
       ELSE LoopEnds /\ UNCHANGED <<main, result>>

(* The shape is validated: done with d, or an error. *)
Validate(d) ==
    \/ store[d] = "foreign" /\ Aborts
    \/ /\ store[d] = "visible"
       /\ todo' = todo \ {d} /\ Leave
       /\ UNCHANGED <<main, loop, exitVars, result>>

(* The mutex is taken for the first ListTopics; the dead-letter            *)
(* destination comes first.                                                *)
Look(d) ==
    /\ Ensuring /\ ~Held
    /\ d \in todo /\ (Dlq \in todo => d = Dlq)
    /\ \/ Validate(d)
       \/ /\ store[d] \in {"absent", "created"}
          /\ current' = d /\ phase' = "creating"
          /\ UNCHANGED <<todo, main, loop, exitVars, result>>
    /\ UNCHANGED <<storeVars, view, workerVars, awaited, asked, serverErr, faults>>

(* CreateTopics: that the topic exists by now is not an error. *)
CreateTopic ==
    /\ Ensuring /\ phase = "creating"
    /\ store' = IF store[current] = "absent" THEN [store EXCEPT ![current] = "created"] ELSE store
    /\ phase' = "created"
    /\ UNCHANGED <<active, main, loop, todo, current, view, workerVars, awaited, asked,
                   exitVars, serverErr, result, faults>>

(* Mutant of AwaitVisible: the wait ends without another ListTopics. *)
AwaitCreated ==
    /\ Ensuring /\ phase = "created"
    /\ todo' = todo \ {current} /\ Leave
    /\ UNCHANGED <<storeVars, main, loop, view, workerVars, awaited, asked, exitVars,
                   serverErr, result, faults>>

(* ListTopics until the destination is visible. *)
AwaitVisible ==
    /\ Ensuring /\ phase = "created"
    /\ Validate(current)
    /\ UNCHANGED <<storeVars, view, workerVars, awaited, asked, serverErr, faults>>

(* A call fails, the destination does not become visible in time, or the   *)
(* context is cancelled, which does not end the wait for the mutex.        *)
EnsureFails ==
    /\ Ensuring /\ todo # {} /\ (phase = "idle" => ~Held)
    /\ Aborts
    /\ IF Interrupted THEN UNCHANGED faults ELSE Fault
    /\ UNCHANGED <<storeVars, view, workerVars, awaited, asked, serverErr>>

Ensured ==
    /\ Ensuring /\ todo = {}
    /\ IF main = "ensuring"
       THEN main' = "reconciling" /\ UNCHANGED loop
       ELSE loop' = "reconciling" /\ UNCHANGED main
    /\ UNCHANGED <<storeVars, ensureVars, view, workerVars, awaited, asked, exitVars,
                   serverErr, result, faults>>

-----------------------------------------------------------------------------
(* Manager.Reconcile *)

Missing == {t \in view : worker[t] = "none"}
Surplus == {t \in Topics \ view : worker[t] # "none"}

Starts(topics) == [t \in Topics |-> IF t \in topics THEN "opening" ELSE worker[t]]

(* RunHub goes on to serve and starts the loop; the loop goes on. *)
Reconcile ==
    /\ main = "reconciling" \/ loop = "reconciling"
    /\ LET gone == {t \in Surplus : worker[t] = "ended"} IN
       /\ worker' = [t \in Topics |-> IF t \in gone THEN "none" ELSE Starts(Missing)[t]]
       /\ stopped' = ((stopped \ Missing) \cup Surplus) \ gone
    /\ loop' = "consuming"
    /\ main' = IF main = "reconciling" THEN "serving" ELSE main
    /\ UNCHANGED <<storeVars, ensureVars, view, awaited, asked, exitVars, serverErr, result, faults>>

(* The factory refuses a worker after it has built some. *)
ReconcileFails ==
    /\ main = "reconciling" \/ loop = "reconciling"
    /\ \E topics \in SUBSET Missing : topics # Missing /\ worker' = Starts(topics)
    /\ Aborts
    /\ Fault
    /\ UNCHANGED <<storeVars, view, stopped, awaited, asked, serverErr>>

-----------------------------------------------------------------------------
(* consumeHub *)

(* Mutant of Consume: the revision to compare with is read afterwards. *)
ConsumeUnnoticed ==
    /\ loop = "consuming" /\ ~cancelled
    /\ view' = active
    /\ UNCHANGED <<storeVars, main, loop, ensureVars, workerVars, awaited, asked, exitVars,
                   serverErr, result, faults>>

(* Events advance the revision, whether or not they change these topics. *)
Consume ==
    /\ loop = "consuming" /\ ~cancelled
    /\ view' = active
    /\ EnsureAll(active)
    /\ loop' = "ensuring"
    /\ UNCHANGED <<storeVars, main, workerVars, awaited, asked, exitVars, serverErr, result, faults>>

ConsumeFails ==
    /\ loop = "consuming"
    /\ LoopEnds
    /\ IF cancelled THEN UNCHANGED faults ELSE Fault
    /\ UNCHANGED <<storeVars, main, ensureVars, view, workerVars, awaited, asked, serverErr, result>>

-----------------------------------------------------------------------------
(* RunHub *)

Launch ==
    /\ main = "down"
    /\ main' = "starting"
    /\ asked' = FALSE /\ cancelled' = FALSE /\ cause' = "none"
    /\ serverErr' = "none" /\ result' = "none"
    /\ UNCHANGED <<storeVars, loop, ensureVars, view, workerVars, awaited, faults>>

(* Mutant of Start: the loop is started as soon as the projection is. *)
StartWithLoop ==
    /\ main = "starting"
    /\ view' = active
    /\ EnsureAll(active)
    /\ main' = "ensuring" /\ loop' = "consuming"
    /\ UNCHANGED <<storeVars, workerVars, awaited, asked, exitVars, serverErr, result, faults>>

(* projection.Start, up to the first reconciliation. *)
Start ==
    /\ main = "starting"
    /\ view' = active
    /\ EnsureAll(active)
    /\ main' = "ensuring"
    /\ UNCHANGED <<storeVars, loop, workerVars, awaited, asked, exitVars, serverErr, result, faults>>

StartFails ==
    /\ main = "starting"
    /\ main' = "releasing" /\ result' = "failure"
    /\ IF asked THEN UNCHANGED faults ELSE Fault
    /\ UNCHANGED <<storeVars, loop, ensureVars, view, workerVars, awaited, asked, exitVars, serverErr>>

(* httpruntime.Run: a listener fails, or the context is done; then every   *)
(* server is shut down.                                                    *)
ServersStop ==
    /\ main = "serving"
    /\ main' = "draining"
    /\ \/ cancelled /\ serverErr' = "cancelled" /\ UNCHANGED faults
       \/ serverErr' = "failed" /\ Fault
    /\ UNCHANGED <<storeVars, loop, ensureVars, view, workerVars, awaited, asked, exitVars, result>>

(* Mutant of runtimeResult: the error of the servers is looked at first. *)
resultOfServers(why) ==
    IF asked \/ serverErr = "cancelled" THEN "clean" ELSE "failure"

runtimeResult(why) ==
    IF asked \/ (why = "none" /\ serverErr = "cancelled") THEN "clean" ELSE "failure"

(* The servers are down: runCtx is cancelled and the result is fixed. *)
Drained ==
    /\ main = "draining"
    /\ cancelled' = TRUE /\ cause' = IF cancelled THEN cause ELSE "server"
    /\ result' = runtimeResult(cause')
    /\ main' = "closing"
    /\ UNCHANGED <<storeVars, loop, ensureVars, view, workerVars, awaited, asked, serverErr, faults>>

(* Mutant of CloseManager: the workers are awaited and not stopped. *)
CloseWithoutStop ==
    /\ main = "closing"
    /\ awaited' = {t \in Topics : worker[t] # "none"}
    /\ main' = "waiting"
    /\ UNCHANGED <<storeVars, loop, ensureVars, view, workerVars, asked, exitVars, serverErr,
                   result, faults>>

(* The deferred Manager.Close stops the workers registered now. *)
CloseManager ==
    /\ main = "closing"
    /\ awaited' = {t \in Topics : worker[t] # "none"}
    /\ stopped' = stopped \cup awaited'
    /\ main' = "waiting"
    /\ UNCHANGED <<storeVars, loop, ensureVars, view, worker, asked, exitVars, serverErr,
                   result, faults>>

(* Mutant of WaitEnds: Close waits for its workers without a limit. *)
WaitWithoutLimit ==
    /\ main = "waiting"
    /\ \A t \in awaited : worker[t] \in {"ended", "none"}
    /\ main' = "releasing" /\ cancelled' = TRUE
    /\ UNCHANGED <<storeVars, loop, ensureVars, view, workerVars, awaited, asked, cause,
                   serverErr, result, faults>>

(* They have ended, or the time of the shutdown is over; the deferred      *)
(* cancel follows.                                                         *)
WaitEnds ==
    /\ main = "waiting"
    /\ result' = IF \A t \in awaited : worker[t] \in {"ended", "none"} THEN result ELSE "failure"
    /\ main' = "releasing" /\ cancelled' = TRUE
    /\ UNCHANGED <<storeVars, loop, ensureVars, view, workerVars, awaited, asked, cause,
                   serverErr, faults>>

(* protocol.Close, projection.Close, administrator.Close, which waits for  *)
(* Administrator.mu, and producer.Close, whose errors are joined to the    *)
(* result; the process ends.                                               *)
Exit ==
    /\ main = "releasing" /\ ~Held
    /\ main' = "down" /\ loop' = "none"
    /\ \/ UNCHANGED <<result, faults>>
       \/ result' = "failure" /\ Fault
    /\ todo' = {} /\ Leave /\ view' = {}
    /\ worker' = [t \in Topics |-> "none"] /\ stopped' = {} /\ awaited' = {}
    /\ UNCHANGED <<storeVars, asked, exitVars, serverErr>>

-----------------------------------------------------------------------------
Next ==
    \/ \E t \in Topics : Registers(t) \/ Locks(t) \/ Opens(t) \/ Ends(t)
    \/ \E d \in Destinations : Provisions(d) \/ Look(d)
    \/ CreateTopic \/ AwaitVisible \/ EnsureFails \/ Ensured
    \/ Reconcile \/ ReconcileFails
    \/ Consume \/ ConsumeFails
    \/ Signal \/ Launch \/ Start \/ StartFails \/ ServersStop \/ Drained
    \/ CloseManager \/ WaitEnds \/ Exit

Spec == Init /\ [][Next]_vars

(* Goroutines run, calls return or time out, created destinations become   *)
(* visible.  Of the workers only that is assumed, so that an OpenConsumer  *)
(* does not keep the mutex: one may never open and never end.              *)
Fairness ==
    /\ WF_vars(\E t \in Topics : worker[t] = "fetching" /\ (Opens(t) \/ Ends(t)))
    /\ WF_vars(\/ \E d \in Destinations : Look(d)
               \/ CreateTopic \/ AwaitVisible \/ EnsureFails \/ Ensured \/ Reconcile)
    /\ \A d \in Destinations : WF_vars(store[d] = "created" /\ Provisions(d))
    /\ WF_vars(Consume \/ (cancelled /\ ConsumeFails))
    /\ WF_vars(\/ Start \/ (cancelled /\ ServersStop) \/ Drained
               \/ CloseManager \/ WaitEnds \/ Exit)

FairSpec == Spec /\ Fairness

-----------------------------------------------------------------------------
(* Properties *)

Runs(t) == worker[t] \in {"opening", "fetching", "open"}

(* A worker is started only for a destination that exists with the shape   *)
(* the hub requires, whoever created it and however late its metadata      *)
(* shows (administrator.go:105-107: "return only after validating the      *)
(* observable destination shape"; hub.go:241-249).                         *)
WorkersHaveDestinations == \A t \in Topics : Runs(t) => store[t] = "visible"

(* Once Manager.Close has collected its workers, no worker delivers under  *)
(* a live context: one that a concurrent reconciliation of the consume     *)
(* loop starts behind it has a cancelled one, and after a failed start,    *)
(* where nothing is cancelled yet, every worker is stopped                 *)
(* (hub.go:137-149,180-182, manager.go:118-126).                           *)
NoWorkerOutlivesClose ==
    main \in {"waiting", "releasing"} =>
        \A t \in Topics : Runs(t) => cancelled \/ t \in stopped

(* The process reports a clean end only if it was told to stop: a failure  *)
(* of the loop or of a listener that nobody asked for is an error of       *)
(* RunHub (runtime.go:37-48).                                              *)
CleanEndIsAskedFor == result = "clean" => asked

(* A hub does not go on serving a projection that is not consumed any      *)
(* more: the end of the loop ends the process (hub.go:170-174).            *)
DeadLoopEndsTheHub == loop = "ended" ~> main = "down"

(* A signal ends the process in whichever stage it comes, also while the   *)
(* loop waits for a destination or a worker fetches its offsets under      *)
(* Administrator.mu, and with a worker that does not end                   *)
(* (hub.go:145-149, administrator.go:111-131,217-223,230-232).             *)
SignalEndsTheHub == asked ~> main = "down"

(* A topic that stays active while the hub serves gets its worker.  *)
ActiveTopicsGetWorkers ==
    \A t \in Topics : <>[](t \in active /\ main = "serving") => <>[](worker[t] # "none")

(* ADR 0022: "Clean shutdown and terminal runtime failure are recorded     *)
(* once by the process command boundary"; here, a failure that cancelled   *)
(* the run is returned.                                                    *)
FailuresAreReturned == cause # "none" /\ main = "down" => result # "clean"

-----------------------------------------------------------------------------
(* The inductive invariant: what a reconciliation of the view may rely on, *)
(* and what is cancelled by the time Manager.Close looks at its workers.   *)

Provisioned ==
    /\ \A t \in view \ todo : Ensuring \/ main = "reconciling" \/ loop = "reconciling"
                                => store[t] = "visible"
    /\ main = "reconciling" \/ loop = "reconciling" => todo = {}

ClosesCancelled ==
    /\ main \in {"closing", "waiting", "releasing"} => cancelled \/ loop = "none"
    /\ main \in {"down", "starting", "ensuring", "reconciling"} =>
          \A t \in Topics : worker[t] = "none"

CancelHasACause ==
    cancelled => asked \/ cause # "none" \/ main \in {"down", "releasing"}

RuntimeInv ==
    /\ RuntimeTypeOK /\ Provisioned /\ ClosesCancelled /\ CancelHasACause
    /\ WorkersHaveDestinations /\ NoWorkerOutlivesClose /\ CleanEndIsAskedFor

=============================================================================
