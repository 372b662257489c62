--------------------- MODULE SessionLifecycleProofs ----------------------
(***************************************************************************)
(* Proofs about SessionLifecycle, for any number of observations, events   *)
(* and actions: a session that has reported has nothing left running, and  *)
(* its report is complete and final.  The invariant says, for every point  *)
(* of start and of teardown, what has not begun yet and what is over.      *)
(***************************************************************************)
EXTENDS SessionLifecycle, SequenceTheorems, TLAPS

Stopped == {"absent", "ended"}

(* What a point of start or teardown knows of the four authorities.        *)
Phases ==
  /\ pc = "new" => engine = "absent"
  /\ pc \in Starting => thread = "absent" /\ handler = "none"
  /\ pc \in {"new", "spawned"} =>
       console = "none" /\ publisher = "none" /\ http = "none"
  /\ pc \in {"joinEvents", "joinConsole", "joinEngine", "returned"} =>
       thread \in Stopped
  /\ pc \in {"joinConsole", "joinEngine", "returned"} => handler # "running"
  /\ pc \in {"joinEngine", "returned"} => console # "running"
  /\ pc = "returned" => EngineOver

(* The supervisor is the last of the console to end.                       *)
ConsoleOwned ==
  console # "running" => publisher # "running" /\ http # "serving"

(* Who ends by itself has left nothing undone.                             *)
Drained ==
  /\ engine = "ended" => reduced = observed
  /\ handler = "ended" => delivered = emitted /\ thread = "ended"
  /\ pc = "returned" => revision = reduced

(* A fault is reported by the join of its authority, or is still to be     *)
(* found there; nothing else is reported, but for the console.             *)
Ledger ==
  /\ "adapter" \in faults => pc \notin Starting
  /\ "adapter" \in faults
       /\ pc \in {"joinEvents", "joinConsole", "joinEngine", "returned"} =>
         result["adapter"] = "error"
  /\ "events" \in faults <=> handler = "failed"
  /\ "events" \in faults /\ pc \in {"joinConsole", "joinEngine", "returned"} =>
       result["events"] = "error"
  /\ "engine" \in faults <=> engine = "failed"
  /\ pc = "returned" => result["engine"] = Verdict(engine)
  /\ pc # "returned" => result["engine"] = "ok"
  /\ "diagnostics" \in faults =>
       IF pc \in {"joinEngine", "returned"}
         THEN result["diagnostics"] = "error"
         ELSE \/ console = "failed"
              \/ console = "running" /\ http = "failed"
  /\ result["adapter"] = "error" => "adapter" \in faults
  /\ result["events"] = "error" => "events" \in faults

IInv == TypeOK /\ Phases /\ ConsoleOwned /\ Drained /\ Ledger
-----------------------------------------------------------------------------
(* Every variable keeps its type. *)
LEMMA TypeStep ==
  ASSUME TypeOK, Next
  PROVE  TypeOK'
  <1> USE DEF TypeOK, Starting, Joining, Authorities, adapterVars, engineVars,
             handlerVars, consoleVars, outcomeVars, callerVars
  <1>1. CASE SpawnEngine
    BY <1>1
       DEF SpawnEngine
  <1>2. CASE StartConsole
    BY <1>2
       DEF StartConsole
  <1>3. CASE ConsoleStartFails
    BY <1>3
       DEF ConsoleStartFails, Told
  <1>4. CASE StartAdapter
    BY <1>4
       DEF StartAdapter, Attach
  <1>5. CASE AdapterStartFails
    BY <1>5
       DEF AdapterStartFails, RequestConsole, Told
  <1>6. CASE StartupRefused
    BY <1>6
       DEF StartupRefused, StartupFails, ThreadEnds
  <1>7. CASE StartupDone
    BY <1>7
       DEF StartupDone
  <1>8. CASE LoopSeesDetached
    BY <1>8
       DEF LoopSeesDetached, ThreadEnds
  <1>9. CASE TakeCommand
    BY <1>9, HeadTailProperties
       DEF TakeCommand
  <1>10. CASE Unload
    <2>1. PICK failed \in BOOLEAN : ThreadEnds(failed)
      BY <1>10 DEF Unload
    <2>2. faults' \subseteq Authorities
      BY <2>1 DEF ThreadEnds
    <2>3. QED
      BY <1>10, <2>1, <2>2 DEF Unload, ThreadEnds
  <1>11. CASE Reduce
    BY <1>11, BoundsAssumption
       DEF Reduce
  <1>12. CASE EngineEnds
    BY <1>12
       DEF EngineEnds
  <1>13. CASE Deliver
    BY <1>13, BoundsAssumption
       DEF Deliver
  <1>14. CASE HandlerEnds
    BY <1>14
       DEF HandlerEnds
  <1>15. CASE HttpEnds
    BY <1>15
       DEF HttpEnds
  <1>16. CASE PublisherEnds
    BY <1>16
       DEF PublisherEnds
  <1>17. CASE OwnServer
    BY <1>17
       DEF OwnServer
  <1>18. CASE OwnPublisher
    BY <1>18
       DEF OwnPublisher
  <1>19. CASE Finished
    BY <1>19, AppendProperties
       DEF Finished, SendShutdown
  <1>20. CASE JoinDriver
    BY <1>20
       DEF JoinDriver, Told
  <1>21. CASE JoinEvents
    BY <1>21
       DEF JoinEvents, Told, Verdict, RequestConsole
  <1>22. CASE JoinConsole
    BY <1>22
       DEF JoinConsole, Told, Verdict
  <1>23. CASE JoinEngine
    BY <1>23
       DEF JoinEngine, Reports, Told, Verdict
  <1>24. CASE PerformReturns
    BY <1>24
       DEF PerformReturns
  <1>25. CASE StartupFails
    BY <1>25
       DEF StartupFails, ThreadEnds
  <1>26. CASE Observe
    BY <1>26, BoundsAssumption
       DEF Observe
  <1>27. CASE SendEvent
    BY <1>27, BoundsAssumption
       DEF SendEvent
  <1>28. CASE ClientDetaches
    BY <1>28
       DEF ClientDetaches
  <1>29. CASE EngineFails
    BY <1>29
       DEF EngineFails
  <1>30. CASE HandlerPanics
    BY <1>30
       DEF HandlerPanics
  <1>31. CASE BrowserConnects
    BY <1>31
       DEF BrowserConnects
  <1>32. CASE BrowserLeaves
    <2>1. stream' \in BOOLEAN
      BY <1>32, Zenon DEF BrowserLeaves
    <2>2. QED
      BY <1>32, <2>1 DEF BrowserLeaves
  <1>33. CASE HttpFails
    BY <1>33
       DEF HttpFails
  <1>34. CASE Wait
    BY <1>34
       DEF Wait
  <1>35. CASE Perform
    BY <1>35, AppendProperties
       DEF Perform
  <1>36. CASE Shutdown
    BY <1>36, AppendProperties
       DEF Shutdown, SendShutdown
  <1>37. CASE WorldStopped
    BY <1>37, AppendProperties
       DEF WorldStopped, SendShutdown, RequestConsole
  <1>38. QED
    BY <1>1, <1>2, <1>3, <1>4, <1>5, <1>6, <1>7, <1>8, <1>9, <1>10, <1>11,
       <1>12, <1>13, <1>14, <1>15, <1>16, <1>17, <1>18, <1>19, <1>20, <1>21,
       <1>22, <1>23, <1>24, <1>25, <1>26, <1>27, <1>28, <1>29, <1>30, <1>31,
       <1>32, <1>33, <1>34, <1>35, <1>36, <1>37
       DEF Next, Start, Threads, Teardown, Environment, Application

(* What has begun and what is over follows the caller. *)
LEMMA PhasesStep ==
  ASSUME TypeOK, Phases, Next
  PROVE  Phases'
  <1> USE DEF TypeOK, Phases, Starting, Joining, Stopped, EngineOver,
             adapterVars, engineVars, handlerVars, consoleVars,
             outcomeVars, callerVars
  <1>1. CASE SpawnEngine \/ StartConsole \/ ConsoleStartFails \/
             StartAdapter \/ AdapterStartFails
    BY <1>1
       DEF SpawnEngine, StartConsole, ConsoleStartFails, Told, StartAdapter,
           Attach, AdapterStartFails, RequestConsole
  <1>2. CASE StartupRefused \/ StartupDone \/ LoopSeesDetached \/
             TakeCommand \/ Unload \/ Reduce \/ EngineEnds \/
             Deliver \/ HandlerEnds \/ HttpEnds \/
             PublisherEnds \/ OwnServer \/ OwnPublisher
    BY <1>2
       DEF StartupRefused, StartupFails, ThreadEnds, StartupDone,
           LoopSeesDetached, TakeCommand, Unload, Reduce, EngineEnds,
           Deliver, HandlerEnds, HttpEnds, PublisherEnds, OwnServer,
           OwnPublisher
  <1>3. CASE Finished \/ JoinDriver \/ JoinEvents \/ JoinConsole \/
             JoinEngine
    BY <1>3
       DEF Finished, SendShutdown, JoinDriver, Told, JoinEvents, Verdict,
           RequestConsole, JoinConsole, JoinEngine, Reports
  <1>4. CASE StartupFails \/ Observe \/ SendEvent \/ ClientDetaches \/
             PerformReturns \/ EngineFails \/ HandlerPanics \/
             BrowserConnects \/ BrowserLeaves \/ HttpFails
    BY <1>4
       DEF StartupFails, ThreadEnds, Observe, SendEvent, ClientDetaches,
           PerformReturns, EngineFails, HandlerPanics, BrowserConnects,
           BrowserLeaves, HttpFails
  <1>5. CASE Perform \/ Shutdown \/ Wait \/ WorldStopped
    BY <1>5
       DEF Perform, Shutdown, SendShutdown, Wait, WorldStopped,
           RequestConsole
  <1>6. QED
    BY <1>1, <1>2, <1>3, <1>4, <1>5
       DEF Next, Start, Threads, Teardown, Environment, Application

(* Publisher and server do not outlive their supervisor. *)
LEMMA ConsoleStep ==
  ASSUME TypeOK, Phases, ConsoleOwned, Next
  PROVE  ConsoleOwned'
  <1> USE DEF TypeOK, Phases, ConsoleOwned, Starting, adapterVars, engineVars, handlerVars, consoleVars,
             outcomeVars, callerVars
  <1>1. CASE SpawnEngine \/ StartConsole \/ ConsoleStartFails \/
             StartAdapter \/ AdapterStartFails
    BY <1>1
       DEF SpawnEngine, StartConsole, ConsoleStartFails, Told, StartAdapter,
           Attach, AdapterStartFails, RequestConsole
  <1>2. CASE StartupRefused \/ StartupDone \/ LoopSeesDetached \/
             TakeCommand \/ Unload \/ Reduce \/ EngineEnds \/
             Deliver \/ HandlerEnds \/ HttpEnds \/
             PublisherEnds \/ OwnServer \/ OwnPublisher
    BY <1>2
       DEF StartupRefused, StartupFails, ThreadEnds, StartupDone,
           LoopSeesDetached, TakeCommand, Unload, Reduce, EngineEnds,
           Deliver, HandlerEnds, HttpEnds, PublisherEnds, OwnServer,
           OwnPublisher
  <1>3. CASE Finished \/ JoinDriver \/ JoinEvents \/ JoinConsole \/
             JoinEngine
    BY <1>3
       DEF Finished, SendShutdown, JoinDriver, Told, JoinEvents, Verdict,
           RequestConsole, JoinConsole, JoinEngine, Reports
  <1>4. CASE StartupFails \/ Observe \/ SendEvent \/ ClientDetaches \/
             PerformReturns \/ EngineFails \/ HandlerPanics \/
             BrowserConnects \/ BrowserLeaves \/ HttpFails
    BY <1>4
       DEF StartupFails, ThreadEnds, Observe, SendEvent, ClientDetaches,
           PerformReturns, EngineFails, HandlerPanics, BrowserConnects,
           BrowserLeaves, HttpFails
  <1>5. CASE Perform \/ Shutdown \/ Wait \/ WorldStopped
    BY <1>5
       DEF Perform, Shutdown, SendShutdown, Wait, WorldStopped,
           RequestConsole
  <1>6. QED
    BY <1>1, <1>2, <1>3, <1>4, <1>5
       DEF Next, Start, Threads, Teardown, Environment, Application

(* What is drained stays drained: nobody is left to add to it. *)
LEMMA DrainedStep ==
  ASSUME TypeOK, Phases, Drained, Next
  PROVE  Drained'
  <1> USE DEF TypeOK, Phases, Drained, Starting, Stopped, EngineOver,
             adapterVars, engineVars, handlerVars, consoleVars,
             outcomeVars, callerVars
  <1>1. CASE SpawnEngine \/ StartConsole \/ ConsoleStartFails \/
             StartAdapter \/ AdapterStartFails
    BY <1>1
       DEF SpawnEngine, StartConsole, ConsoleStartFails, Told, StartAdapter,
           Attach, AdapterStartFails, RequestConsole
  <1>2. CASE StartupRefused \/ StartupDone \/ LoopSeesDetached \/
             TakeCommand \/ Unload \/ Reduce \/ EngineEnds \/
             Deliver \/ HandlerEnds \/ HttpEnds \/
             PublisherEnds \/ OwnServer \/ OwnPublisher
    BY <1>2
       DEF StartupRefused, StartupFails, ThreadEnds, StartupDone,
           LoopSeesDetached, TakeCommand, Unload, Reduce, EngineEnds,
           Deliver, HandlerEnds, HttpEnds, PublisherEnds, OwnServer,
           OwnPublisher
  <1>3. CASE Finished \/ JoinDriver \/ JoinEvents \/ JoinConsole \/
             JoinEngine
    BY <1>3
       DEF Finished, SendShutdown, JoinDriver, Told, JoinEvents, Verdict,
           RequestConsole, JoinConsole, JoinEngine, Reports
  <1>4. CASE StartupFails \/ Observe \/ SendEvent \/ ClientDetaches \/
             PerformReturns \/ EngineFails \/ HandlerPanics \/
             BrowserConnects \/ BrowserLeaves \/ HttpFails
    BY <1>4
       DEF StartupFails, ThreadEnds, Observe, SendEvent, ClientDetaches,
           PerformReturns, EngineFails, HandlerPanics, BrowserConnects,
           BrowserLeaves, HttpFails
  <1>5. CASE Perform \/ Shutdown \/ Wait \/ WorldStopped
    BY <1>5
       DEF Perform, Shutdown, SendShutdown, Wait, WorldStopped,
           RequestConsole
  <1>6. QED
    BY <1>1, <1>2, <1>3, <1>4, <1>5
       DEF Next, Start, Threads, Teardown, Environment, Application

(* Faults reach the report. *)
LEMMA LedgerStep ==
  ASSUME TypeOK, Phases, Ledger, Next
  PROVE  Ledger'
  <1> USE DEF TypeOK, Phases, Ledger, Starting, Stopped, EngineOver, Authorities,
             Verdict, adapterVars, engineVars, handlerVars, consoleVars,
             outcomeVars, callerVars
  <1>1. CASE SpawnEngine \/ StartConsole \/ StartAdapter
    BY <1>1
       DEF SpawnEngine, StartConsole, StartAdapter, Attach
  <1>2. CASE ConsoleStartFails
    BY <1>2
       DEF ConsoleStartFails, Told
  <1>3. CASE AdapterStartFails
    BY <1>3
       DEF AdapterStartFails, RequestConsole, Told
  <1>4. CASE StartupRefused \/ StartupDone \/ LoopSeesDetached \/
             TakeCommand \/ Unload \/ Reduce \/ EngineEnds \/
             Deliver \/ HandlerEnds \/ HttpEnds \/
             PublisherEnds \/ OwnServer \/ OwnPublisher
    BY <1>4
       DEF StartupRefused, StartupFails, ThreadEnds, StartupDone,
           LoopSeesDetached, TakeCommand, Unload, Reduce, EngineEnds,
           Deliver, HandlerEnds, HttpEnds, PublisherEnds, OwnServer,
           OwnPublisher
  <1>5. CASE Finished
    BY <1>5
       DEF Finished, SendShutdown
  <1>6. CASE JoinDriver
    BY <1>6
       DEF JoinDriver, Told
  <1>7. CASE JoinEvents
    BY <1>7
       DEF JoinEvents, Told, Verdict, RequestConsole
  <1>8. CASE JoinConsole
    BY <1>8
       DEF JoinConsole, Told, Verdict
  <1>9. CASE JoinEngine
    BY <1>9
       DEF JoinEngine, Reports, Told, Verdict
  <1>10. CASE StartupFails \/ Observe \/ SendEvent \/ ClientDetaches \/
             PerformReturns \/ EngineFails \/ HandlerPanics \/
             BrowserConnects \/ BrowserLeaves \/ HttpFails
    BY <1>10
       DEF StartupFails, ThreadEnds, Observe, SendEvent, ClientDetaches,
           PerformReturns, EngineFails, HandlerPanics, BrowserConnects,
           BrowserLeaves, HttpFails
  <1>11. CASE Perform \/ Shutdown \/ Wait \/ WorldStopped
    BY <1>11
       DEF Perform, Shutdown, SendShutdown, Wait, WorldStopped,
           RequestConsole
  <1>12. QED
    BY <1>1, <1>2, <1>3, <1>4, <1>5, <1>6, <1>7, <1>8, <1>9, <1>10, <1>11
       DEF Next, Start, Threads, Teardown, Environment, Application

(* The inductive invariant of start, wait and shutdown.                    *)
THEOREM LifecycleInvariant == Spec => []IInv
  <1>1. Init => IInv
    <2>1. Init => TypeOK
      <3>1. Healthy \in [Authorities -> {"ok", "error"}]
        BY DEF Healthy
      <3>2. Init => /\ detached \in BOOLEAN
                    /\ stream \in BOOLEAN /\ requested \in BOOLEAN
        BY Zenon DEF Init
      <3>3. Init => commands \in Seq({"perform", "shutdown"})
        BY DEF Init
      <3>4. QED
        BY <3>1, <3>2, <3>3, BoundsAssumption DEF Init, TypeOK, Starting
    <2>2. Init => Ledger
      <3>1. \A a \in Authorities : Healthy[a] = "ok"
        BY DEF Healthy
      <3>2. QED
        BY <3>1 DEF Init, Ledger, Starting, Authorities
    <2>3. Init => Phases /\ ConsoleOwned /\ Drained
      BY DEF Init, Phases, ConsoleOwned, Drained, Starting, EngineOver
    <2>4. QED
      BY <2>1, <2>2, <2>3 DEF IInv
  <1>2. ASSUME IInv, [Next]_vars
        PROVE  IInv'
    <2>1. CASE Next
      BY <1>2, <2>1, TypeStep, PhasesStep, ConsoleStep, DrainedStep, LedgerStep
         DEF IInv
    <2>2. CASE UNCHANGED vars
      BY <1>2, <2>2
         DEF IInv, TypeOK, Phases, ConsoleOwned, Drained, Ledger, EngineOver,
             vars, adapterVars, engineVars, handlerVars, consoleVars,
             outcomeVars, callerVars
    <2>3. QED
      BY <1>2, <2>1, <2>2
  <1>3. QED
    BY <1>1, <1>2, PTL DEF Spec

(* "The caller never receives a partially owned runtime": whatever made    *)
(* start fail, or wait or shutdown return, every thread and task is over.  *)
THEOREM ReportIsLast == Spec => []NothingOutlivesTheReport
  <1>1. IInv => NothingOutlivesTheReport
    BY DEF IInv, TypeOK, Phases, ConsoleOwned, NothingOutlivesTheReport,
           AllEnded, EngineOver, Stopped
  <1>2. QED
    BY <1>1, LifecycleInvariant, PTL

(* The report names every failed authority, its revision is that of all    *)
(* that was observed, and the handler has had every event.                 *)
THEOREM ReportIsComplete == Spec => []ReportIsFinal
  <1>1. IInv => ReportIsFinal
    BY DEF IInv, TypeOK, Phases, Drained, Ledger, ReportIsFinal, Authorities,
           Verdict
  <1>2. QED
    BY <1>1, LifecycleInvariant, PTL
=============================================================================
