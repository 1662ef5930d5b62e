--------------------------- MODULE HubRuntimeProofs --------------------------
(* The safety of the life of a hub process, for any set of topics: the     *)
(* proof that RuntimeInv is inductive, one lemma for each group of its     *)
(* conjuncts.  A lemma has a step for each action that touches what it is  *)
(* about, and a last one for the others.                                   *)
EXTENDS HubRuntime, TLAPS

(* Every step keeps the types, and the loop behind the first reconciliation. *)
LEMMA TypesStep ==
    ASSUME RuntimeTypeOK, Next
    PROVE  RuntimeTypeOK'
<1> USE RuntimeAssumption DEF RuntimeTypeOK, Destinations
<1>1. ASSUME NEW t \in Topics, Registers(t) PROVE RuntimeTypeOK'
    BY <1>1 DEF Registers, storeVars, ensureVars, workerVars, exitVars
<1>2. ASSUME NEW d \in Destinations, Provisions(d) PROVE RuntimeTypeOK'
    BY <1>2 DEF Provisions, storeVars, ensureVars, workerVars, exitVars
<1>3. CASE Signal
    BY <1>3 DEF Signal, storeVars, ensureVars, workerVars, exitVars
<1>4. ASSUME NEW t \in Topics, Locks(t) \/ Opens(t) PROVE RuntimeTypeOK'
    BY <1>4 DEF Locks, Opens, Fault, storeVars, ensureVars, workerVars, exitVars
<1>5. ASSUME NEW t \in Topics, Ends(t) PROVE RuntimeTypeOK'
    BY <1>5 DEF Ends, storeVars, ensureVars, workerVars, exitVars
<1>6. ASSUME NEW d \in Destinations, Look(d) PROVE RuntimeTypeOK'
    <2>1. cancelled' \in BOOLEAN /\ cause' \in {"none", "loop", "server"}
        BY <1>6, Zenon DEF Look, Validate, Aborts, LoopEnds, exitVars
    <2>2. /\ todo' \subseteq Destinations /\ current' \in Destinations
          /\ phase' \in {"idle", "creating", "created"}
        BY <1>6 DEF Look, Validate, Aborts, Leave
    <2>3. /\ main' \in {main, "closing"} /\ loop' \in {loop, "ended"}
          /\ loop' # loop => main' = main /\ loop = "ensuring"
          /\ result' \in {result, "failure"}
        BY <1>6 DEF Look, Validate, Aborts, LoopEnds, Ensuring
    <2> QED
        BY <1>6, <2>1, <2>2, <2>3 DEF Look, storeVars, workerVars
<1>7. CASE CreateTopic
    BY <1>7 DEF CreateTopic, Ensuring, storeVars, ensureVars, workerVars, exitVars
<1>8. CASE AwaitVisible
    <2>1. cancelled' \in BOOLEAN /\ cause' \in {"none", "loop", "server"}
        BY <1>8, Zenon DEF AwaitVisible, Validate, Aborts, LoopEnds, exitVars
    <2>2. /\ todo' \subseteq Destinations /\ current' \in Destinations
          /\ phase' \in {"idle", "creating", "created"}
        BY <1>8 DEF AwaitVisible, Validate, Aborts, Leave
    <2>3. /\ main' \in {main, "closing"} /\ loop' \in {loop, "ended"}
          /\ loop' # loop => main' = main /\ loop = "ensuring"
          /\ result' \in {result, "failure"}
        BY <1>8 DEF AwaitVisible, Validate, Aborts, LoopEnds, Ensuring
    <2> QED
        BY <1>8, <2>1, <2>2, <2>3 DEF AwaitVisible, storeVars, workerVars
<1>9. CASE EnsureFails
    <2>1. faults' \in 0..MaxFaults
        BY <1>9 DEF EnsureFails, Fault
    <2>2. cancelled' \in BOOLEAN /\ cause' \in {"none", "loop", "server"}
        BY <1>9, Zenon DEF EnsureFails, Aborts, LoopEnds, exitVars
    <2> QED
        BY <1>9, <2>1, <2>2
        DEF EnsureFails, Ensuring, Aborts, LoopEnds, Leave, storeVars, ensureVars,
            workerVars
<1>10. CASE Ensured
    BY <1>10 DEF Ensured, Ensuring, storeVars, ensureVars, workerVars, exitVars
<1>11. CASE Reconcile
    BY <1>11
    DEF Reconcile, Missing, Surplus, Starts, storeVars, ensureVars, workerVars, exitVars
<1>12. CASE ReconcileFails
    <2>1. faults' \in 0..MaxFaults
        BY <1>12 DEF ReconcileFails, Fault
    <2>2. cancelled' \in BOOLEAN /\ cause' \in {"none", "loop", "server"}
        BY <1>12, Zenon DEF ReconcileFails, Aborts, LoopEnds, exitVars
    <2> QED
        BY <1>12, <2>1, <2>2
        DEF ReconcileFails, Missing, Starts, Aborts, LoopEnds, Leave, storeVars,
            ensureVars, workerVars
<1>13. CASE Consume
    BY <1>13 DEF Consume, EnsureAll, Ensuring, storeVars, ensureVars, workerVars, exitVars
<1>14. CASE ConsumeFails
    <2>1. faults' \in 0..MaxFaults
        BY <1>14 DEF ConsumeFails, Fault
    <2>2. cancelled' \in BOOLEAN /\ cause' \in {"none", "loop", "server"}
        BY <1>14, Zenon DEF ConsumeFails, LoopEnds, exitVars
    <2> QED
        BY <1>14, <2>1, <2>2 DEF ConsumeFails, LoopEnds, storeVars, ensureVars, workerVars
<1>15. CASE Launch
    BY <1>15, Zenon DEF Launch, storeVars, ensureVars, workerVars, exitVars
<1>16. CASE Start
    BY <1>16 DEF Start, EnsureAll, Ensuring, storeVars, ensureVars, workerVars, exitVars
<1>17. CASE StartFails
    <2>1. faults' \in 0..MaxFaults
        BY <1>17 DEF StartFails, Fault
    <2>2. cancelled' \in BOOLEAN /\ cause' \in {"none", "loop", "server"}
        BY <1>17 DEF StartFails, LoopEnds, exitVars
    <2> QED
        BY <1>17, <2>1, <2>2 DEF StartFails, storeVars, ensureVars, workerVars
<1>18. CASE ServersStop
    <2>1. faults' \in 0..MaxFaults
        BY <1>18 DEF ServersStop, Fault
    <2>2. cancelled' \in BOOLEAN /\ cause' \in {"none", "loop", "server"}
        BY <1>18 DEF ServersStop, LoopEnds, exitVars
    <2> QED
        BY <1>18, <2>1, <2>2 DEF ServersStop, storeVars, ensureVars, workerVars
<1>19. CASE Drained
    BY <1>19 DEF Drained, runtimeResult, storeVars, ensureVars, workerVars, exitVars
<1>20. CASE CloseManager
    BY <1>20 DEF CloseManager, storeVars, ensureVars, workerVars, exitVars
<1>21. CASE WaitEnds
    BY <1>21 DEF WaitEnds, storeVars, ensureVars, workerVars, exitVars
<1>22. CASE Exit
    <2>1. faults' \in 0..MaxFaults /\ result' \in {"none", "clean", "failure"}
        BY <1>22 DEF Exit, Fault
    <2> QED
        BY <1>22, <2>1 DEF Exit, Leave, storeVars, exitVars
<1> QED BY <1>1, <1>2, <1>3, <1>4, <1>5, <1>6, <1>7, <1>8, <1>9, <1>10, <1>11, <1>12,
        <1>13, <1>14, <1>15, <1>16, <1>17, <1>18, <1>19, <1>20, <1>21, <1>22, Zenon DEF Next

(* What is taken off todo is visible, and stays visible. *)
LEMMA ProvisionedStep ==
    ASSUME RuntimeTypeOK, Provisioned, Next
    PROVE  Provisioned'
<1> USE RuntimeAssumption DEF RuntimeTypeOK, Destinations, Provisioned, Ensuring
<1>1. ASSUME NEW d \in Destinations, Provisions(d) PROVE Provisioned'
    BY <1>1 DEF Provisions, storeVars, ensureVars, workerVars, exitVars
<1>2. ASSUME NEW d \in Destinations, Look(d) PROVE Provisioned'
    BY <1>2
    DEF Look, Validate, Aborts, LoopEnds, Leave, exitVars, storeVars, ensureVars,
        workerVars
<1>3. CASE CreateTopic
    BY <1>3 DEF CreateTopic, storeVars, ensureVars, workerVars, exitVars
<1>4. CASE AwaitVisible
    BY <1>4
    DEF AwaitVisible, Validate, Aborts, LoopEnds, Leave, exitVars, storeVars,
        ensureVars, workerVars
<1>5. CASE EnsureFails
    BY <1>5
    DEF EnsureFails, Aborts, LoopEnds, Leave, exitVars, storeVars, ensureVars,
        workerVars
<1>6. CASE Ensured
    BY <1>6 DEF Ensured, storeVars, ensureVars, workerVars, exitVars
<1>7. CASE Reconcile
    BY <1>7
    DEF Reconcile, Missing, Surplus, Starts, storeVars, ensureVars, workerVars, exitVars
<1>8. CASE ReconcileFails
    BY <1>8
    DEF ReconcileFails, Missing, Starts, Aborts, LoopEnds, Leave, exitVars, storeVars,
        ensureVars, workerVars
<1>9. CASE Consume
    BY <1>9 DEF Consume, EnsureAll, storeVars, ensureVars, workerVars, exitVars
<1>10. CASE ConsumeFails
    BY <1>10 DEF ConsumeFails, LoopEnds, exitVars, storeVars, ensureVars, workerVars
<1>11. CASE Start
    BY <1>11 DEF Start, EnsureAll, storeVars, ensureVars, workerVars, exitVars
<1>12. CASE Exit
    BY <1>12 DEF Exit, Leave, storeVars, ensureVars, workerVars, exitVars
<1>13. CASE \/ \E t \in Topics : Registers(t) \/ Locks(t) \/ Opens(t) \/ Ends(t)
          \/ Signal \/ Launch \/ StartFails \/ ServersStop \/ Drained
          \/ CloseManager \/ WaitEnds
    BY <1>13
    DEF Registers, Signal, Locks, Opens, Ends, Launch, StartFails, ServersStop, Drained,
        CloseManager, WaitEnds, runtimeResult, storeVars, ensureVars, workerVars,
        exitVars
<1> QED BY <1>1, <1>2, <1>3, <1>4, <1>5, <1>6, <1>7, <1>8, <1>9, <1>10, <1>11, <1>12,
        <1>13, Zenon DEF Next

(* Workers start only from a provisioned view. *)
LEMMA DestinationsStep ==
    ASSUME RuntimeTypeOK, Provisioned, WorkersHaveDestinations, Next
    PROVE  WorkersHaveDestinations'
<1> USE RuntimeAssumption DEF RuntimeTypeOK, Destinations, WorkersHaveDestinations, Runs
<1>1. ASSUME NEW d \in Destinations, Provisions(d) PROVE WorkersHaveDestinations'
    BY <1>1 DEF Provisions, storeVars, ensureVars, workerVars, exitVars
<1>2. ASSUME NEW t \in Topics, Locks(t) \/ Opens(t) PROVE WorkersHaveDestinations'
    BY <1>2 DEF Locks, Opens, storeVars, ensureVars, workerVars, exitVars
<1>3. ASSUME NEW t \in Topics, Ends(t) PROVE WorkersHaveDestinations'
    BY <1>3 DEF Ends, storeVars, ensureVars, workerVars, exitVars
<1>4. CASE CreateTopic
    BY <1>4 DEF CreateTopic, Ensuring, storeVars, ensureVars, workerVars, exitVars
<1>5. CASE Reconcile
    BY <1>5
    DEF Reconcile, Provisioned, Missing, Surplus, Starts, storeVars, ensureVars,
        workerVars, exitVars
<1>6. CASE ReconcileFails
    BY <1>6
    DEF ReconcileFails, Provisioned, Missing, Starts, Aborts, LoopEnds, Leave, exitVars,
        storeVars, ensureVars, workerVars
<1>7. CASE Exit
    BY <1>7 DEF Exit, Leave, storeVars, ensureVars, workerVars, exitVars
<1>8. CASE \/ \E t \in Topics : Registers(t)
          \/ \E d \in Destinations : Look(d)
          \/ Signal \/ AwaitVisible \/ EnsureFails \/ Ensured \/ Consume
          \/ ConsumeFails \/ Launch \/ Start \/ StartFails \/ ServersStop
          \/ Drained \/ CloseManager \/ WaitEnds
    BY <1>8, Zenon
    DEF Registers, Signal, Look, AwaitVisible, EnsureFails, Ensured, Consume,
        ConsumeFails, Launch, Start, StartFails, ServersStop, Drained, CloseManager,
        WaitEnds, Validate, Ensuring, Aborts, LoopEnds, Leave, exitVars, EnsureAll,
        runtimeResult, storeVars, ensureVars, workerVars
<1> QED BY <1>1, <1>2, <1>3, <1>4, <1>5, <1>6, <1>7, <1>8 DEF Next

(* Manager.Close begins under a cancelled context or without a loop. *)
LEMMA ClosesStep ==
    ASSUME RuntimeTypeOK, ClosesCancelled, Next
    PROVE  ClosesCancelled'
<1> USE RuntimeAssumption DEF RuntimeTypeOK, ClosesCancelled
<1>1. CASE Signal
    BY <1>1 DEF Signal, storeVars, ensureVars, workerVars, exitVars
<1>2. ASSUME NEW t \in Topics, Locks(t) \/ Opens(t) PROVE ClosesCancelled'
    BY <1>2 DEF Locks, Opens, storeVars, ensureVars, workerVars, exitVars
<1>3. ASSUME NEW t \in Topics, Ends(t) PROVE ClosesCancelled'
    BY <1>3 DEF Ends, storeVars, ensureVars, workerVars, exitVars
<1>4. ASSUME NEW d \in Destinations, Look(d) PROVE ClosesCancelled'
    BY <1>4
    DEF Look, Validate, Ensuring, Aborts, LoopEnds, Leave, exitVars, storeVars,
        ensureVars, workerVars
<1>5. CASE AwaitVisible
    BY <1>5
    DEF AwaitVisible, Validate, Ensuring, Aborts, LoopEnds, Leave, exitVars, storeVars,
        ensureVars, workerVars
<1>6. CASE EnsureFails
    BY <1>6
    DEF EnsureFails, Ensuring, Aborts, LoopEnds, Leave, exitVars, storeVars, ensureVars,
        workerVars
<1>7. CASE Ensured
    BY <1>7 DEF Ensured, Ensuring, storeVars, ensureVars, workerVars, exitVars
<1>8. CASE Reconcile
    BY <1>8
    DEF Reconcile, Missing, Surplus, Starts, storeVars, ensureVars, workerVars, exitVars
<1>9. CASE ReconcileFails
    BY <1>9
    DEF ReconcileFails, Missing, Starts, Aborts, LoopEnds, Leave, exitVars, storeVars,
        ensureVars, workerVars
<1>10. CASE Consume
    BY <1>10 DEF Consume, EnsureAll, Ensuring, storeVars, ensureVars, workerVars, exitVars
<1>11. CASE ConsumeFails
    BY <1>11 DEF ConsumeFails, LoopEnds, exitVars, storeVars, ensureVars, workerVars
<1>12. CASE Launch
    BY <1>12 DEF Launch, storeVars, ensureVars, workerVars, exitVars
<1>13. CASE Start
    BY <1>13 DEF Start, EnsureAll, Ensuring, storeVars, ensureVars, workerVars, exitVars
<1>14. CASE StartFails
    BY <1>14 DEF StartFails, storeVars, ensureVars, workerVars, exitVars
<1>15. CASE ServersStop
    BY <1>15 DEF ServersStop, storeVars, ensureVars, workerVars, exitVars
<1>16. CASE Drained
    BY <1>16 DEF Drained, runtimeResult, storeVars, ensureVars, workerVars, exitVars
<1>17. CASE CloseManager
    BY <1>17 DEF CloseManager, storeVars, ensureVars, workerVars, exitVars
<1>18. CASE WaitEnds
    BY <1>18 DEF WaitEnds, storeVars, ensureVars, workerVars, exitVars
<1>19. CASE Exit
    BY <1>19 DEF Exit, Leave, storeVars, ensureVars, workerVars, exitVars
<1>20. CASE \/ \E t \in Topics : Registers(t)
          \/ \E d \in Destinations : Provisions(d)
          \/ CreateTopic
    BY <1>20
    DEF Registers, Provisions, CreateTopic, Ensuring, storeVars, ensureVars, workerVars,
        exitVars
<1> QED BY <1>1, <1>2, <1>3, <1>4, <1>5, <1>6, <1>7, <1>8, <1>9, <1>10, <1>11, <1>12,
        <1>13, <1>14, <1>15, <1>16, <1>17, <1>18, <1>19, <1>20, Zenon DEF Next

(* What runs behind Manager.Close is stopped or cancelled. *)
LEMMA OutlivesStep ==
    ASSUME RuntimeTypeOK, ClosesCancelled, NoWorkerOutlivesClose, Next
    PROVE  NoWorkerOutlivesClose'
<1> USE RuntimeAssumption DEF RuntimeTypeOK, ClosesCancelled, NoWorkerOutlivesClose, Runs
<1>1. ASSUME NEW t \in Topics, Locks(t) \/ Opens(t) PROVE NoWorkerOutlivesClose'
    BY <1>1 DEF Locks, Opens, storeVars, ensureVars, workerVars, exitVars
<1>2. ASSUME NEW t \in Topics, Ends(t) PROVE NoWorkerOutlivesClose'
    BY <1>2 DEF Ends, storeVars, ensureVars, workerVars, exitVars
<1>3. ASSUME NEW d \in Destinations, Look(d) PROVE NoWorkerOutlivesClose'
    BY <1>3
    DEF Look, Validate, Ensuring, Aborts, LoopEnds, Leave, exitVars, storeVars,
        ensureVars, workerVars
<1>4. CASE AwaitVisible
    BY <1>4
    DEF AwaitVisible, Validate, Ensuring, Aborts, LoopEnds, Leave, exitVars, storeVars,
        ensureVars, workerVars
<1>5. CASE EnsureFails
    BY <1>5
    DEF EnsureFails, Ensuring, Aborts, LoopEnds, Leave, exitVars, storeVars, ensureVars,
        workerVars
<1>6. CASE Ensured
    BY <1>6 DEF Ensured, Ensuring, storeVars, ensureVars, workerVars, exitVars
<1>7. CASE Reconcile
    BY <1>7
    DEF Reconcile, Missing, Surplus, Starts, storeVars, ensureVars, workerVars, exitVars
<1>8. CASE ReconcileFails
    BY <1>8
    DEF ReconcileFails, Missing, Starts, Aborts, LoopEnds, Leave, exitVars, storeVars,
        ensureVars, workerVars
<1>9. CASE ConsumeFails
    BY <1>9 DEF ConsumeFails, LoopEnds, exitVars, storeVars, ensureVars, workerVars
<1>10. CASE Launch
    BY <1>10 DEF Launch, storeVars, ensureVars, workerVars, exitVars
<1>11. CASE Start
    BY <1>11 DEF Start, EnsureAll, Ensuring, storeVars, ensureVars, workerVars, exitVars
<1>12. CASE StartFails
    BY <1>12 DEF StartFails, storeVars, ensureVars, workerVars, exitVars
<1>13. CASE ServersStop
    BY <1>13 DEF ServersStop, storeVars, ensureVars, workerVars, exitVars
<1>14. CASE Drained
    BY <1>14 DEF Drained, runtimeResult, storeVars, ensureVars, workerVars, exitVars
<1>15. CASE CloseManager
    BY <1>15 DEF CloseManager, storeVars, ensureVars, workerVars, exitVars
<1>16. CASE WaitEnds
    BY <1>16 DEF WaitEnds, storeVars, ensureVars, workerVars, exitVars
<1>17. CASE Exit
    BY <1>17 DEF Exit, Leave, storeVars, ensureVars, workerVars, exitVars
<1>18. CASE \/ \E t \in Topics : Registers(t)
          \/ \E d \in Destinations : Provisions(d)
          \/ Signal \/ CreateTopic \/ Consume
    BY <1>18, Zenon
    DEF Registers, Provisions, Signal, CreateTopic, Consume, Ensuring, EnsureAll,
        storeVars, ensureVars, workerVars, exitVars
<1> QED BY <1>1, <1>2, <1>3, <1>4, <1>5, <1>6, <1>7, <1>8, <1>9, <1>10, <1>11, <1>12,
        <1>13, <1>14, <1>15, <1>16, <1>17, <1>18, Zenon DEF Next

(* Before the last defer, only a signal or a failure has cancelled the run. *)
LEMMA CauseStep ==
    ASSUME RuntimeTypeOK, CancelHasACause, Next
    PROVE  CancelHasACause'
<1> USE RuntimeAssumption DEF RuntimeTypeOK, CancelHasACause
<1>1. CASE Signal
    BY <1>1 DEF Signal, storeVars, ensureVars, workerVars, exitVars
<1>2. ASSUME NEW d \in Destinations, Look(d) PROVE CancelHasACause'
    BY <1>2, Zenon
    DEF Look, Validate, Ensuring, Aborts, LoopEnds, Leave, exitVars, storeVars,
        ensureVars, workerVars
<1>3. CASE AwaitVisible
    BY <1>3, Zenon
    DEF AwaitVisible, Validate, Ensuring, Aborts, LoopEnds, Leave, exitVars, storeVars,
        ensureVars, workerVars
<1>4. CASE EnsureFails
    BY <1>4, Zenon
    DEF EnsureFails, Ensuring, Aborts, LoopEnds, Leave, exitVars, storeVars, ensureVars,
        workerVars
<1>5. CASE Ensured
    BY <1>5 DEF Ensured, Ensuring, storeVars, ensureVars, workerVars, exitVars
<1>6. CASE Reconcile
    BY <1>6
    DEF Reconcile, Missing, Surplus, Starts, storeVars, ensureVars, workerVars, exitVars
<1>7. CASE ReconcileFails
    BY <1>7, Zenon
    DEF ReconcileFails, Missing, Starts, Aborts, LoopEnds, Leave, exitVars, storeVars,
        ensureVars, workerVars
<1>8. CASE ConsumeFails
    BY <1>8, Zenon DEF ConsumeFails, LoopEnds, exitVars, storeVars, ensureVars, workerVars
<1>9. CASE Launch
    BY <1>9 DEF Launch, storeVars, ensureVars, workerVars, exitVars
<1>10. CASE Start
    BY <1>10 DEF Start, EnsureAll, Ensuring, storeVars, ensureVars, workerVars, exitVars
<1>11. CASE StartFails
    BY <1>11 DEF StartFails, storeVars, ensureVars, workerVars, exitVars
<1>12. CASE ServersStop
    BY <1>12 DEF ServersStop, storeVars, ensureVars, workerVars, exitVars
<1>13. CASE Drained
    BY <1>13 DEF Drained, runtimeResult, storeVars, ensureVars, workerVars, exitVars
<1>14. CASE CloseManager
    BY <1>14 DEF CloseManager, storeVars, ensureVars, workerVars, exitVars
<1>15. CASE WaitEnds
    BY <1>15 DEF WaitEnds, storeVars, ensureVars, workerVars, exitVars
<1>16. CASE Exit
    BY <1>16 DEF Exit, Leave, storeVars, ensureVars, workerVars, exitVars
<1>17. CASE \/ \E t \in Topics : Registers(t) \/ Locks(t) \/ Opens(t) \/ Ends(t)
          \/ \E d \in Destinations : Provisions(d)
          \/ CreateTopic \/ Consume
    BY <1>17, Zenon
    DEF Registers, Provisions, Locks, Opens, Ends, CreateTopic, Consume, Ensuring, EnsureAll,
        storeVars, ensureVars, workerVars, exitVars
<1> QED BY <1>1, <1>2, <1>3, <1>4, <1>5, <1>6, <1>7, <1>8, <1>9, <1>10, <1>11, <1>12,
        <1>13, <1>14, <1>15, <1>16, <1>17, Zenon DEF Next

(* The result is clean only after a signal. *)
LEMMA ResultStep ==
    ASSUME RuntimeTypeOK, CancelHasACause, CleanEndIsAskedFor, Next
    PROVE  CleanEndIsAskedFor'
<1> USE RuntimeAssumption DEF RuntimeTypeOK, CleanEndIsAskedFor
<1>1. CASE Signal
    BY <1>1 DEF Signal, storeVars, ensureVars, workerVars, exitVars
<1>2. ASSUME NEW d \in Destinations, Look(d) PROVE CleanEndIsAskedFor'
    BY <1>2
    DEF Look, Validate, Ensuring, Aborts, LoopEnds, Leave, exitVars, storeVars,
        ensureVars, workerVars
<1>3. CASE AwaitVisible
    BY <1>3
    DEF AwaitVisible, Validate, Ensuring, Aborts, LoopEnds, Leave, exitVars, storeVars,
        ensureVars, workerVars
<1>4. CASE EnsureFails
    BY <1>4
    DEF EnsureFails, Ensuring, Aborts, LoopEnds, Leave, exitVars, storeVars, ensureVars,
        workerVars
<1>5. CASE ReconcileFails
    BY <1>5
    DEF ReconcileFails, Missing, Starts, Aborts, LoopEnds, Leave, exitVars, storeVars,
        ensureVars, workerVars
<1>6. CASE Launch
    BY <1>6 DEF Launch, storeVars, ensureVars, workerVars, exitVars
<1>7. CASE StartFails
    BY <1>7 DEF StartFails, storeVars, ensureVars, workerVars, exitVars
<1>8. CASE Drained
    BY <1>8
    DEF Drained, CancelHasACause, runtimeResult, storeVars, ensureVars, workerVars,
        exitVars
<1>9. CASE WaitEnds
    BY <1>9 DEF WaitEnds, storeVars, ensureVars, workerVars, exitVars
<1>10. CASE \/ \E t \in Topics : Registers(t) \/ Locks(t) \/ Opens(t) \/ Ends(t)
          \/ \E d \in Destinations : Provisions(d)
          \/ CreateTopic \/ Ensured \/ Reconcile \/ Consume \/ ConsumeFails
          \/ Start \/ ServersStop \/ CloseManager \/ Exit
    BY <1>10, Zenon
    DEF Registers, Provisions, Locks, Opens, Ends, CreateTopic, Ensured, Reconcile,
        Consume, ConsumeFails, Start, ServersStop, CloseManager, Exit, Ensuring, Missing,
        Surplus, Starts, EnsureAll, LoopEnds, exitVars, Leave, storeVars, ensureVars,
        workerVars
<1> QED BY <1>1, <1>2, <1>3, <1>4, <1>5, <1>6, <1>7, <1>8, <1>9, <1>10 DEF Next

-----------------------------------------------------------------------------
(* RuntimeInv is an invariant of every behaviour. *)
THEOREM RuntimeInvariant == Spec => []RuntimeInv
<1>1. Init => RuntimeInv
    <2> SUFFICES ASSUME Init PROVE RuntimeInv
        OBVIOUS
    <2>1. RuntimeTypeOK
        <3>1. store \in [Destinations -> {"absent", "created", "visible", "foreign"}]
            BY DEF Init
        <3>2. worker \in [Topics -> {"none", "opening", "fetching", "open", "ended"}]
            BY DEF Init
        <3>3. asked \in BOOLEAN /\ cancelled \in BOOLEAN
            BY Zenon DEF Init
        <3> QED BY <3>1, <3>2, <3>3, RuntimeAssumption DEF Init, RuntimeTypeOK, Destinations
    <2>2. Provisioned /\ ClosesCancelled /\ CancelHasACause
        BY DEF Init, Provisioned, Ensuring, ClosesCancelled, CancelHasACause
    <2>3. WorkersHaveDestinations /\ NoWorkerOutlivesClose /\ CleanEndIsAskedFor
        BY DEF Init, WorkersHaveDestinations, NoWorkerOutlivesClose, CleanEndIsAskedFor, Runs
    <2> QED BY <2>1, <2>2, <2>3 DEF RuntimeInv
<1>2. RuntimeInv /\ [Next]_vars => RuntimeInv'
    <2> SUFFICES ASSUME RuntimeInv, [Next]_vars PROVE RuntimeInv'
        OBVIOUS
    <2>1. CASE Next
        BY <2>1, TypesStep, ProvisionedStep, DestinationsStep, ClosesStep, OutlivesStep,
           CauseStep, ResultStep
        DEF RuntimeInv
    <2>2. CASE UNCHANGED vars
        BY <2>2, SMTT(30)
        DEF RuntimeInv, RuntimeTypeOK, Provisioned, Ensuring, ClosesCancelled, CancelHasACause,
            WorkersHaveDestinations, NoWorkerOutlivesClose, CleanEndIsAskedFor, Runs, vars,
            storeVars, ensureVars, workerVars, exitVars
    <2> QED BY <2>1, <2>2
<1> QED BY <1>1, <1>2, PTL DEF Spec

(* The process keeps its types, and never provisions from two goroutines. *)
THEOREM RuntimeTypes == Spec => []RuntimeTypeOK
<1>1. RuntimeInv => RuntimeTypeOK BY DEF RuntimeInv
<1> QED BY <1>1, RuntimeInvariant, PTL

(* Every worker has a visible destination of the required shape
   (ensureHubDestinations before Manager.Reconcile). *)
THEOREM ProvisionedWorkers == Spec => []WorkersHaveDestinations
<1>1. RuntimeInv => WorkersHaveDestinations BY DEF RuntimeInv
<1> QED BY <1>1, RuntimeInvariant, PTL

(* Behind Manager.Close every worker is stopped or cancelled. *)
THEOREM CloseIsFinal == Spec => []NoWorkerOutlivesClose
<1>1. RuntimeInv => NoWorkerOutlivesClose BY DEF RuntimeInv
<1> QED BY <1>1, RuntimeInvariant, PTL

(* RunHub returns no error only if the process was told to stop. *)
THEOREM CleanEnds == Spec => []CleanEndIsAskedFor
<1>1. RuntimeInv => CleanEndIsAskedFor BY DEF RuntimeInv
<1> QED BY <1>1, RuntimeInvariant, PTL

=============================================================================
