-------------------------- MODULE SessionLifecycle --------------------------
(***************************************************************************)
(* The life of one session of crates/sdk/src/session.rs over the Frida     *)
(* adapter: what start spawns and takes back when a later part fails, and  *)
(* how wait, shutdown and a drop bring four authorities to their end:      *)
(*                                                                         *)
(*   the driver    the owner thread of adapter-frida/src/attachment.rs     *)
(*   the engine    the task of engine/src/runtime.rs                       *)
(*   the events    the task that feeds the application's handler           *)
(*   the console   the publisher, the HTTP server and their supervisor     *)
(*                 (web/src/lib.rs)                                        *)
(*                                                                         *)
(* The caller is an application like apps/cli: it performs actions, looks  *)
(* at snapshots, and ends the session by Ctrl+C or when it has finished.   *)
(***************************************************************************)
EXTENDS Naturals, Sequences

CONSTANTS MaxObservations,  \* bound: what the client gives to observe
          MaxEvents,        \* bound: typed events of the adapter
          MaxActions        \* bound: actions the application performs

ASSUME BoundsAssumption ==
  MaxObservations \in Nat /\ MaxEvents \in Nat /\ MaxActions \in Nat

VARIABLES
  config,     \* Builder: is there a console, is there a handler
  pc,         \* where the caller is in start, wait or shutdown
  thread,     \* the owner thread
  commands,   \* its channel
  detached,   \* Session::is_detached
  ingress,    \* who holds the Ingress: nobody, start, or the adapter
  engine,     \* the engine task
  observed,   \* observations submitted
  reduced,    \* observations reduced: the revision of the world
  handler,    \* EventTask
  emitted,    \* events sent
  delivered,  \* events the handler has taken
  console,    \* the supervisor, own
  publisher,  \* publish
  http,       \* axum::serve
  stream,     \* whether a browser reads /events
  requested,  \* whether the server's shutdown was sent or its sender dropped
  result,     \* Outcomes: what each authority is reported to have done
  revision,   \* Report::revision
  faults      \* history: which parts failed by themselves

adapterVars == <<thread, commands, detached, ingress, observed, emitted>>
engineVars == <<engine, reduced>>
handlerVars == <<handler, delivered>>
consoleVars == <<console, publisher, http, stream>>
outcomeVars == <<result, revision>>
callerVars == <<pc, outcomeVars>>
vars == <<config, adapterVars, engineVars, handlerVars, consoleVars,
          callerVars, requested, faults>>

Authorities == {"adapter", "events", "diagnostics", "engine"}
Starting == {"new", "spawned", "served"}
Joining == {"joinDriver", "joinEvents", "joinConsole", "joinEngine"}

TypeOK ==
  /\ config \in [console : BOOLEAN, handled : BOOLEAN]
  /\ pc \in Starting \cup Joining
            \cup {"running", "waiting", "dropped", "returned"}
  /\ thread \in {"absent", "starting", "serving", "busy", "unloading",
                 "ended"}
  /\ commands \in Seq({"perform", "shutdown"})
  /\ detached \in BOOLEAN
  /\ ingress \in {"nobody", "start", "adapter"}
  /\ engine \in {"absent", "running", "ended", "failed"}
  /\ observed \in 0..MaxObservations /\ reduced \in 0..MaxObservations
  /\ handler \in {"none", "running", "ended", "failed"}
  /\ emitted \in 0..MaxEvents /\ delivered \in 0..MaxEvents
  /\ console \in {"none", "running", "ended", "failed"}
  /\ publisher \in {"none", "running", "ended"}
  /\ http \in {"none", "serving", "ended", "failed"}
  /\ stream \in BOOLEAN /\ requested \in BOOLEAN
  /\ result \in [Authorities -> {"ok", "error"}]
  /\ revision \in 0..MaxObservations
  /\ faults \subseteq Authorities

Healthy == [a \in Authorities |-> "ok"]

(* session() and its builder: nothing runs before start. *)
Init ==
  /\ config \in [console : BOOLEAN, handled : BOOLEAN]
  /\ pc = "new"
  /\ thread = "absent" /\ commands = <<>> /\ detached = FALSE
  /\ ingress = "nobody"
  /\ engine = "absent" /\ observed = 0 /\ reduced = 0
  /\ handler = "none" /\ emitted = 0 /\ delivered = 0
  /\ console = "none" /\ publisher = "none" /\ http = "none"
  /\ stream = FALSE /\ requested = FALSE
  /\ result = Healthy /\ revision = 0
  /\ faults = {}

EngineOver == engine \in {"ended", "failed"}
Told(a, outcome) == [result EXCEPT ![a] = outcome]
Verdict(task) == IF task = "failed" THEN "error" ELSE "ok"
-----------------------------------------------------------------------------
(* start.  The engine first: Channel::spawn and its only Ingress.           *)
SpawnEngine ==
  /\ pc = "new"
  /\ pc' = "spawned"
  /\ engine' = "running"
  /\ ingress' = "start"
  /\ UNCHANGED <<config, thread, commands, detached, observed, emitted,
                 reduced, handlerVars, consoleVars, requested, outcomeVars,
                 faults>>

(* Then the console, whose publisher, server and supervisor are tasks.      *)
StartConsole ==
  /\ pc = "spawned"
  /\ pc' = "served"
  /\ IF config.console
       THEN /\ console' = "running" /\ publisher' = "running"
            /\ http' = "serving"
            /\ UNCHANGED stream
       ELSE UNCHANGED consoleVars
  /\ UNCHANGED <<config, adapterVars, engineVars, handlerVars, requested,
                 outcomeVars, faults>>

(* The address cannot be bound: the Ingress is dropped so that the engine   *)
(* ends, and the engine is joined.                                          *)
ConsoleStartFails ==
  /\ pc = "spawned" /\ config.console
  /\ pc' = "joinEngine"
  /\ ingress' = "nobody"
  /\ result' = Told("diagnostics", "error")
  /\ faults' = faults \cup {"diagnostics"}
  /\ UNCHANGED <<config, revision, thread, commands, detached, observed,
                 emitted, engineVars, handlerVars, consoleVars, requested>>

(* Adapter::start, attach: the owner thread, which gets the Ingress. *)
Attach == thread' = "starting" /\ ingress' = "adapter"

(* The SDK spawns the event task when a handler was given. *)
StartAdapter ==
  /\ pc = "served"
  /\ pc' = "running"
  /\ Attach
  /\ handler' = IF config.handled THEN "running" ELSE "none"
  /\ UNCHANGED <<config, commands, detached, observed, emitted,
                 engineVars, delivered, consoleVars, requested, outcomeVars,
                 faults>>

(* Server::shutdown, or its drop, tells the HTTP server. *)
RequestConsole == requested' = TRUE

(* Error::ThreadStart: what the thread would have owned is dropped, and the *)
(* console and the engine are taken back.                                   *)
AdapterStartFails ==
  /\ pc = "served"
  /\ pc' = "joinConsole"
  /\ ingress' = "nobody"
  /\ RequestConsole
  /\ result' = Told("adapter", "error")
  /\ faults' = faults \cup {"adapter"}
  /\ UNCHANGED <<config, revision, thread, commands, detached, observed,
                 emitted, engineVars, handlerVars, consoleVars>>
-----------------------------------------------------------------------------
(* run, up to the end of the thread, after which nothing of the adapter     *)
(* holds an Ingress or an event sender.                                     *)
ThreadEnds(failed) ==
  /\ thread' = "ended"
  /\ ingress' = "nobody"
  /\ faults' = IF failed THEN faults \cup {"adapter"} ELSE faults
  /\ UNCHANGED <<config, revision, callerVars, commands, detached, observed,
                 emitted, engineVars, handlerVars, consoleVars, requested>>

(* Any of the calls before the loop: the process is not found, the script   *)
(* does not load, a reading fails, or the engine has stopped.               *)
StartupFails == thread = "starting" /\ ThreadEnds(TRUE)

(* observe_blocking answers Stopped: the one failure a startup cannot miss. *)
StartupRefused == EngineOver /\ StartupFails

StartupDone ==
  /\ thread = "starting" /\ observed > 0 /\ reduced = observed
  /\ thread' = "serving"
  /\ UNCHANGED <<config, callerVars, commands, detached, ingress, observed,
                 emitted, engineVars, handlerVars, consoleVars, requested,
                 faults>>

(* A seed or a packet: the adapter waits for the receipt of one observation *)
(* before it submits the next.                                              *)
Observe ==
  /\ thread \in {"starting", "serving", "busy"}
  /\ ~EngineOver /\ observed = reduced /\ observed < MaxObservations
  /\ observed' = observed + 1
  /\ UNCHANGED <<config, callerVars, thread, commands, detached, ingress,
                 emitted, engineVars, handlerVars, consoleVars, requested,
                 faults>>

SendEvent ==
  /\ thread \in {"starting", "serving", "busy"} /\ emitted < MaxEvents
  /\ emitted' = emitted + 1
  /\ UNCHANGED <<config, callerVars, thread, commands, detached, ingress,
                 observed, engineVars, handlerVars, consoleVars, requested,
                 faults>>

(* The game client ends or Frida loses it. *)
ClientDetaches ==
  /\ thread \in {"starting", "serving", "busy"} /\ ~detached
  /\ detached' = TRUE
  /\ UNCHANGED <<config, callerVars, thread, commands, ingress, observed,
                 emitted, engineVars, handlerVars, consoleVars, requested,
                 faults>>

LoopSeesDetached == thread = "serving" /\ detached /\ ThreadEnds(FALSE)

TakeCommand ==
  /\ thread = "serving" /\ ~detached /\ commands # <<>>
  /\ commands' = Tail(commands)
  /\ thread' = IF Head(commands) = "perform" THEN "busy" ELSE "unloading"
  /\ UNCHANGED <<config, callerVars, detached, ingress, observed, emitted,
                 engineVars, handlerVars, consoleVars, requested, faults>>

(* perform returns from the agent, or never does (see FridaOwner). *)
PerformReturns ==
  /\ thread = "busy"
  /\ thread' = "serving"
  /\ UNCHANGED <<config, callerVars, commands, detached, ingress, observed,
                 emitted, engineVars, handlerVars, consoleVars, requested,
                 faults>>

(* script.unload and session.detach. *)
Unload == thread = "unloading" /\ \E failed \in BOOLEAN : ThreadEnds(failed)
-----------------------------------------------------------------------------
Reduce ==
  /\ engine = "running" /\ reduced < observed
  /\ reduced' = reduced + 1
  /\ UNCHANGED <<config, callerVars, adapterVars, engine, handlerVars,
                 consoleVars, requested, faults>>

(* Owner::run drains its queue and ends with the last Ingress. *)
EngineEnds ==
  /\ engine = "running" /\ ingress = "nobody" /\ reduced = observed
  /\ engine' = "ended"
  /\ UNCHANGED <<config, callerVars, adapterVars, reduced, handlerVars,
                 consoleVars, requested, faults>>

(* A panic of the owner task: TaskError::Join. *)
EngineFails ==
  /\ engine = "running"
  /\ engine' = "failed"
  /\ faults' = faults \cup {"engine"}
  /\ UNCHANGED <<config, callerVars, adapterVars, reduced, handlerVars,
                 consoleVars, requested>>

(* EventTask: one event after the other, to the end of the stream.          *)
Deliver ==
  /\ handler = "running" /\ delivered < emitted
  /\ delivered' = delivered + 1
  /\ UNCHANGED <<config, callerVars, adapterVars, engineVars, handler,
                 consoleVars, requested, faults>>

HandlerEnds ==
  /\ handler = "running" /\ thread = "ended" /\ delivered = emitted
  /\ handler' = "ended"
  /\ UNCHANGED <<config, callerVars, adapterVars, engineVars, delivered,
                 consoleVars, requested, faults>>

(* The application's closure panics: EventError::Join. *)
HandlerPanics ==
  /\ handler = "running" /\ delivered < emitted
  /\ handler' = "failed"
  /\ faults' = faults \cup {"events"}
  /\ UNCHANGED <<config, callerVars, adapterVars, engineVars, delivered,
                 consoleVars, requested>>
-----------------------------------------------------------------------------
(* GET /events stays open until the browser leaves: its broadcast sender    *)
(* lives in the server's own state.                                         *)
BrowserConnects ==
  /\ http = "serving" /\ ~requested /\ ~stream
  /\ stream' = TRUE
  /\ UNCHANGED <<config, callerVars, adapterVars, engineVars, handlerVars,
                 console, publisher, http, requested, faults>>

BrowserLeaves ==
  /\ stream
  /\ stream' = FALSE
  /\ UNCHANGED <<config, callerVars, adapterVars, engineVars, handlerVars,
                 console, publisher, http, requested, faults>>

(* with_graceful_shutdown waits for the open connections. *)
HttpEnds ==
  /\ http = "serving" /\ requested /\ ~stream
  /\ http' = "ended"
  /\ UNCHANGED <<config, callerVars, adapterVars, engineVars, handlerVars,
                 console, publisher, stream, requested, faults>>

HttpFails ==
  /\ http = "serving" /\ console = "running"
  /\ http' = "failed"
  /\ faults' = faults \cup {"diagnostics"}
  /\ UNCHANGED <<config, callerVars, adapterVars, engineVars, handlerVars,
                 console, publisher, stream, requested>>

(* publish returns when its subscription is closed. *)
PublisherEnds ==
  /\ publisher = "running" /\ EngineOver
  /\ publisher' = "ended"
  /\ UNCHANGED <<config, callerVars, adapterVars, engineVars, handlerVars,
                 console, http, stream, requested, faults>>

(* own, first arm: the server has returned and the publisher is aborted.    *)
OwnServer ==
  /\ console = "running" /\ http \in {"ended", "failed"}
  /\ console' = http
  /\ publisher' = "ended"
  /\ UNCHANGED <<config, callerVars, adapterVars, engineVars, handlerVars,
                 http, stream, requested, faults>>

(* Mutant: the supervisor leaves the server to itself. *)
OwnPublisherOnly ==
  /\ console = "running" /\ publisher = "ended"
  /\ console' = "failed"
  /\ UNCHANGED <<config, callerVars, adapterVars, engineVars, handlerVars,
                 publisher, http, stream, requested, faults>>

(* own, second arm: the publisher has returned, the server is aborted,      *)
(* though not the tasks axum gives to open connections, and the answer is   *)
(* PublisherStopped.                                                        *)
OwnPublisher ==
  /\ console = "running" /\ publisher = "ended"
  /\ console' = "failed"
  /\ http' = "ended"
  /\ UNCHANGED <<config, callerVars, adapterVars, engineVars, handlerVars,
                 publisher, stream, requested, faults>>
-----------------------------------------------------------------------------
(* The application.  Actions go to the thread's channel by a Control.       *)
Perform ==
  /\ pc \in {"running", "waiting"}
  /\ Len(SelectSeq(commands, LAMBDA c : c = "perform")) < MaxActions
  /\ thread # "ended"
  /\ commands' = Append(commands, "perform")
  /\ UNCHANGED <<config, callerVars, thread, detached, ingress, observed,
                 emitted, engineVars, handlerVars, consoleVars, requested,
                 faults>>

SendShutdown ==
  commands' = IF thread = "ended" THEN commands
              ELSE Append(commands, "shutdown")

(* Session::shutdown, up to the join of the driver. *)
Shutdown ==
  /\ pc = "running"
  /\ pc' = "joinDriver"
  /\ SendShutdown
  /\ UNCHANGED <<config, thread, detached, ingress, observed, emitted,
                 engineVars, handlerVars, consoleVars, requested, outcomeVars,
                 faults>>

(* Session::wait, which polls is_finished first. *)
Wait ==
  /\ pc = "running"
  /\ pc' = "waiting"
  /\ UNCHANGED <<config, adapterVars, engineVars, handlerVars,
                 consoleVars, requested, outcomeVars, faults>>

IsFinished ==
  \/ thread = "ended"
  \/ EngineOver
  \/ handler \in {"ended", "failed"}
  \/ console \in {"ended", "failed"}

(* Mutant: wait joins the driver without asking it to stop. *)
WaitForDriver ==
  /\ pc = "waiting" /\ IsFinished
  /\ pc' = "joinDriver"
  /\ UNCHANGED <<config, adapterVars, engineVars, handlerVars, consoleVars,
                 requested, outcomeVars, faults>>

Finished ==
  /\ pc = "waiting" /\ IsFinished
  /\ pc' = "joinDriver"
  /\ SendShutdown
  /\ UNCHANGED <<config, thread, detached, ingress, observed, emitted,
                 engineVars, handlerVars, consoleVars, requested, outcomeVars,
                 faults>>

JoinDriver ==
  /\ pc = "joinDriver" /\ thread = "ended"
  /\ pc' = "joinEvents"
  /\ result' = Told("adapter", IF "adapter" \in faults THEN "error" ELSE "ok")
  /\ UNCHANGED <<config, revision, adapterVars, engineVars, handlerVars,
                 consoleVars, requested, faults>>

(* wait_events, and the request that shutdown_diagnostics begins with. *)
JoinEvents ==
  /\ pc = "joinEvents" /\ handler # "running"
  /\ pc' = "joinConsole"
  /\ RequestConsole
  /\ result' = Told("events", Verdict(handler))
  /\ UNCHANGED <<config, revision, adapterVars, engineVars, handlerVars,
                 consoleVars, faults>>

JoinConsole ==
  /\ pc = "joinConsole" /\ console # "running"
  /\ pc' = "joinEngine"
  /\ result' = Told("diagnostics", Verdict(console))
  /\ UNCHANGED <<config, revision, adapterVars, engineVars, handlerVars,
                 consoleVars, requested, faults>>

(* Report, and Failure when an outcome is none. *)
Reports ==
  /\ pc' = "returned"
  /\ result' = Told("engine", Verdict(engine))
  /\ revision' = reduced

(* Mutant: the report is written while the engine still drains. *)
ReportEarly ==
  /\ pc = "joinEngine" /\ Reports
  /\ UNCHANGED <<config, adapterVars, engineVars, handlerVars,
                 consoleVars, requested, faults>>

(* The engine is joined, then the report reads world.latest().              *)
JoinEngine ==
  /\ pc = "joinEngine" /\ EngineOver /\ Reports
  /\ UNCHANGED <<config, adapterVars, engineVars, handlerVars,
                 consoleVars, requested, faults>>

(* apps/cli: its subscription is closed and it returns, which drops the     *)
(* session: Drop for Driver sends Shutdown, and the console's shutdown      *)
(* sender goes with its Server.                                             *)
WorldStopped ==
  /\ pc = "running" /\ EngineOver
  /\ pc' = "dropped"
  /\ RequestConsole
  /\ SendShutdown
  /\ UNCHANGED <<config, thread, detached, ingress, observed, emitted,
                 engineVars, handlerVars, consoleVars, outcomeVars, faults>>
-----------------------------------------------------------------------------
Start == \/ SpawnEngine \/ StartConsole \/ ConsoleStartFails
         \/ StartAdapter \/ AdapterStartFails

(* What goes on by itself once it can. *)
Threads ==
  \/ StartupRefused \/ StartupDone \/ LoopSeesDetached \/ TakeCommand \/ Unload
  \/ Reduce \/ EngineEnds \/ Deliver \/ HandlerEnds
  \/ HttpEnds \/ PublisherEnds \/ OwnServer \/ OwnPublisher

Teardown == \/ Finished \/ JoinDriver \/ JoinEvents \/ JoinConsole
            \/ JoinEngine

Environment ==
  \/ StartupFails \/ Observe \/ SendEvent \/ ClientDetaches \/ PerformReturns
  \/ EngineFails \/ HandlerPanics \/ BrowserConnects \/ BrowserLeaves
  \/ HttpFails

Application == Perform \/ Shutdown \/ Wait \/ WorldStopped

Next == Start \/ Threads \/ Teardown \/ Environment \/ Application

Spec == Init /\ [][Next]_vars

(* Every task and thread is scheduled again and again, and a startup gets   *)
(* to its first observation, SessionStarted.  The application, the client,  *)
(* the browser and the agent's answers are not assumed to do anything.      *)
Fairness ==
  /\ WF_vars(SpawnEngine \/ ConsoleStartFails \/ StartConsole
             \/ StartAdapter \/ AdapterStartFails)
  /\ WF_vars(thread = "starting" /\ observed = 0 /\ Observe)
  /\ WF_vars(StartupRefused) /\ WF_vars(StartupDone)
  /\ WF_vars(LoopSeesDetached) /\ WF_vars(TakeCommand)
  /\ WF_vars(Unload)
  /\ WF_vars(Reduce) /\ WF_vars(EngineEnds)
  /\ WF_vars(Deliver) /\ WF_vars(HandlerEnds)
  /\ WF_vars(HttpEnds) /\ WF_vars(PublisherEnds)
  /\ WF_vars(OwnServer) /\ WF_vars(OwnPublisher)
  /\ WF_vars(Teardown)

FairSpec == Spec /\ Fairness
-----------------------------------------------------------------------------
AllEnded ==
  /\ thread \in {"absent", "ended"}
  /\ engine # "running" /\ handler # "running" /\ console # "running"
  /\ publisher # "running" /\ http # "serving"

(* "The caller never receives a partially owned runtime", and wait and      *)
(* shutdown join every authority: once start has failed, or wait or         *)
(* shutdown has returned, no thread and no task of the session is left but  *)
(* the one that axum keeps for a browser still reading /events.             *)
NothingOutlivesTheReport == pc = "returned" => AllEnded

(* What a report says is final: its revision is that of everything the      *)
(* adapter observed, the handler has had every event, and "combined         *)
(* failures retain every failed authority".                                 *)
ReportIsFinal ==
  pc = "returned" =>
    /\ revision = reduced
    /\ engine = "ended" => reduced = observed
    /\ handler = "ended" => delivered = emitted
    /\ \A a \in faults : result[a] = "error"
    /\ \A a \in Authorities \ {"diagnostics"} :
         result[a] = "error" => a \in faults

(* Whatever ends the session, and whoever ends first: wait and shutdown     *)
(* return and a dropped session comes to rest, as long as the thread is not *)
(* held in the agent for good.                                              *)
TeardownEnds ==
  []<>(thread # "busy") =>
    /\ pc \in Joining ~> pc = "returned"
    /\ pc = "dropped" ~> AllEnded
    /\ pc = "waiting" /\ IsFinished ~> pc = "returned"
-----------------------------------------------------------------------------
(* web::Error::PublisherStopped: "The world publisher stopped without a     *)
(* console shutdown request."  Session::shutdown fails "if adapter          *)
(* teardown, typed event delivery, or the engine task fails"; yet a session *)
(* in which nothing failed does.                                            *)
HealthySessionEndsClean ==
  pc = "returned" /\ faults = {} /\ ~detached => result = Healthy
=============================================================================
