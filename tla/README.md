# VIPERZOO in TLA+

VIPERZOO attaches to a running game client, watches the plaintext packets that cross its
network session, reduces them into one canonical world, and lets scripts act through the
client. This directory holds TLA+ models of the parts of it in which order, concurrency and
failure matter, the TLC configurations that check them on small instances, and TLAPS proofs of
their most important invariants for every size.

Contents: [the system](#the-system) · [the modules](#the-modules) · [the runs](#the-runs) ·
[fairness](#fairness) · [the proofs](#the-proofs) ·
[where the code and its documentation disagree](#where-the-code-and-its-documentation-disagree) ·
[what is not modelled](#what-is-not-modelled) · [why it is built this way](#why-it-is-built-this-way) ·
[running it](#running-it)

## The system

    game client (external process)
       |  ^                      hooks in its network thread, keys posted to its window
       v  |
    agent.js  (injected)         queue of plaintext bodies, captured session, staged travel
       |  ^                      messages out / blocking exported calls in
       v  |
    attachment.rs                owner thread: seeds, command loop; callback thread: packets
       |  ^                      Observation in / Action out
       v  |
    engine                       Ingress --bounded queue--> Owner --> Reducer --> World
       |                           receipts back,  watch of snapshots,  broadcast of events
       v
    sdk, actions, navigation     confirmed actions, combat, walking, planning
       |
    apps, web console

| Part | State it keeps | Operations | What makes it correct |
|---|---|---|---|
| engine, ingress and owner (`crates/engine/src/runtime.rs`) | bounded command queue, the reducer, newest snapshot, event ring, one reply channel per call | `Ingress::observe`, clone and drop of an `Ingress`, `Owner::run` | a receipt means reflected; a refusal means without effect; acceptance order; calls return; the end is the end of all ingresses |
| engine, readers (`runtime.rs`) | cursor, latest snapshot, receiver position | `World::subscribe`, `Events::next`, `Subscription::changed`, `Wait::run`, `Wait::within` | snapshot and stream meet with no gap and no duplicate; lag is reported; waits end |
| world projection (`crates/world/src/world.rs`, `player.rs`, `entity.rs`, `session.rs`, `inventory.rs`, `action.rs`) | facets of the player, the entities, possessions, bounded histories | one handler per packet, three seeds, session start, transport close | facts of one map, one session, and never older than what replaced them; `Recorded` changes no fact (it may close the travel menu) |
| map identity (`crates/world/src/map.rs`) | epoch, context, tiles | `observe_context`, `observe_identity`, `merge` | equal epochs are the same map |
| agent transport (`crates/adapter-frida/src/agent.js`) | queue of bodies, captured session, closing flag, staged travel selection | enqueue, wake, flush, dialog pacing, hooks of the client's traffic and socket | each body at most once, in order, in the session it was accepted in; promises settle |
| agent intents (`agent.js`) | step, cast and inventory state machines | keys posted, outgoing bodies recognised | an intent ends, and is not taken for another |
| attachment (`crates/adapter-frida/src/attachment.rs`) | channel of commands, the action in hand | `Control::perform`, `Driver::shutdown`, the loop of the owner thread | a receipt means sent; a timeout and a shutdown end |
| message handler and recorder (`crates/adapter-frida/src/agent.rs`, `recording.rs`) | the recorder's file and whether it has failed | one message of the agent: record, decode, observe | what is recorded is what is promoted, in its order |
| session (`crates/sdk/src/session.rs`) | driver, engine task, event task, console | start with rollback, `finished`, `wait`, `shutdown`, drop | nothing left running, every failure reported |
| confirmed actions, combat (`crates/sdk/src/action.rs`, `crates/actions/src/combat.rs`) | a subscription, fences | `Confirm::run`, `face_and_attack` | evidence is newer than the action |
| walk controller (`crates/actions/src/walk.rs`) | cached snapshot, map epoch, learned edges, attempts | bootstrap and localization, plan, step, wait, revalidate | arrival is on the map the target was given for; edges are learned on evidence only; a walk ends |
| planner (`crates/navigation`) | none (pure; inside: heap, costs, parents) | `plan_with` | walkable shortest routes inside the known bounds, none missed |
| protocol (`crates/protocol`) | none (pure) | one body to one packet | what the agent writes is read as what was meant |
| capture, replay, live (`crates/capture`, `apps/replay`, `apps/live`) | an unfinished row, a place in the file | rows to observations | a replay and a follower see what was lived |
| assets (`crates/assets`) | none (pure) | parsing of the game's files | |
| web console (`crates/web`) | server, publisher and supervisor tasks; a latest projection; pause and stop signals | `Server::start`, `shutdown`, `own`, `publish`, HTTP handlers | ends with its session and not before |

**How they interact.** The callback thread of the adapter submits every packet through
`observe_blocking`, so it waits for each receipt. The owner thread submits the session start and
three memory readings by the same `Ingress`, which puts packets between a reading and its
reduction. Scripts take snapshots through a watch channel that coalesces, and events through a
ring that does not. Scripts act through `Control::perform`; one thread takes the actions in order
and blocks in the agent until the promise of each settles.

**What is hard.** The two reader channels share no lock. Callers may be cancelled at any await,
and the owner dropped at its own. Memory readings are reduced late. The agent's callbacks exclude
each other only outside native calls, and its queue is drained by the client's own traffic. Four
parties can end the client's session: login, logout, the socket and the process. `PROJECT.json`
lists these hazards one by one, at the line where they bite.

## The modules

| Module | Models | Notes |
|---|---|---|
| `ObservationLog` | what an engine promises | abstract: one log, one instant of effect per observation |
| `Engine` | `Ingress`, the command queue, `Owner::run` | implements `ObservationLog` |
| `EngineReaders` | subscriptions, events and waits | extends `Engine` |
| `MapKnowledge` | `map.rs` | operators only |
| `World` | every observation handler of `world.rs` | extends `MapKnowledge` |
| `AgentTransport` | queue, session and travel of `agent.js` | actions without a specification of their own |
| `FridaOwner` | `Control`, `Driver` and the owner thread | extends `AgentTransport` |
| `Navigation` | positions, edges, scenes, bounds and goal of a plan | operators only; states which plans a scene has |
| `Planner` | the search of `planner.rs` | extends `Navigation`; shown to return one of those plans |
| `WalkController` | `walk.rs` | extends `Navigation` |
| `Readiness` | `query/readiness.rs` and the queries it asks | extends `World` |
| `Wire` | the bodies the agent writes and what `protocol` makes of them | operators only |
| `Acquisition` | start-up, message handler, recorder, capture file, replay, follower | extends `Wire` |
| `ClientIntents` | step, cast and inventory state machines of `agent.js` | extends `Wire` |
| `Confirmation` | `Confirm::run`, `face_and_attack` | extends `ClientIntents` |
| `SessionLifecycle` | `session.rs`, with the console's tasks and the ends of thread and engine | |
| `MC*` | instances for TLC | |
| `EngineProofs`, `WorldProofs`, `PlannerProofs`, `WalkProofs`, `FridaOwnerProofs`, `ConfirmationProofs`, `SessionLifecycleProofs`, `AcquisitionProofs` | theorems | |

**Engine.** A client is whoever holds an `Ingress`; an observation stands for one call of
`observe`. `Observe`, `Enqueue`, `ReceiveReceipt` follow a call through its two awaits;
`SendRefused` and `ReplyLost` are the two ways to `Error::Stopped`; `CancelObserve` is the drop of
the caller's future. Calls are numbered in the order in which they begin. `Reduce`, `Publish`, `Emit`, `Reply` are the four statements of the loop of
`Owner::run`, which other threads can see between. `DropOwner` is possible only where the owner
awaits. `accepted` is a history variable. Snapshots are named by their revision. The queue, watch,
ring and oneshot are tokio's and are modelled from how `runtime.rs` uses them.

**EngineReaders.** `World::subscribe` is two steps, `SubscribeEvents` and `SubscribeSnapshot`: the
interesting interleavings are those of the owner between them. `NextSkip`, `NextDeliver` and
`NextLagged` are the arms of the loop of `Events::next`; the numbers its error reports are left
out. A query is the set of revisions whose snapshot satisfies it, so one that holds only in
passing can be told from one that holds from then on. `start`, `heard` and `lost` are history.

**World.** One action per packet variant, seed or adapter event, each the whole handler, with the
`Change` it returns. Two variables are not the program's. `client` is the memory of the attached
client, which follows the packets. `scan` is a memory reading that is not reduced yet. Places are
pairs of a map and a coordinate, so that a fact of the wrong map can be told; the code has only
the coordinate. What no property distinguishes is merged or left out: vita and mana are one
pool, level and inventory capacity one fact, experience and money one, a server's seed and result
location one, a viewport is named by the place it came with; the counters of packets and the
revisions stored inside facts are left out. Payloads that are never compared (spells, messages,
actions) are named by the session they were seen in.

**AgentTransport and FridaOwner.** A call is one action. JavaScript callbacks exclude each other
except inside native functions, so a send (`FlushBegin`, then `FlushEnd` or `FlushFails`) and the
wake that follows a new batch (`Enqueue`, then `WakePosted` or `WakeFails`) are two steps, between
which other callbacks run. The hooks run on the client's one network thread and so exclude a
send; the close of the socket excludes nothing. Wake retries and settle timers are delays, so
only their end is an action. Multi-body batches are dialogs, the only ones the agent makes. The
three priming refreshes are one waiting state that succeeds or fails. A blocking call returns
when its promise has settled. `sent`, `answers`, `era`, `eraOf`, `staged` and `lost`
are history. `PressKey` resolves or rejects, for a key call throws where the window takes no key. The client
is external: its menu and socket change as its hooks let us see.

**Navigation and Planner.** A scene is everything `plan_with` reads: location, dimensions, tiles,
the tiles that may not be entered in a direction (the catalog joined to the object of the tile),
the positions taken, learned refusals, avoidance, target. `Enterable` is the list of conditions in
its inner loop. `PlansOf` says, by layers of positions ever farther from the goal, which plans a
scene has. `Planner` is the search itself: `Examine` is one iteration of the outer loop with all four
directions, `StepBack` one of `reconstruct`. The heap is a set, popped by the order of
`Candidate::cmp`; two equal candidates never exist, because a position is pushed again only at a
lower cost. `scene` does not change.

**WalkController.** `latest` is what the subscription has cached and `published` what the engine has
published; only a wait moves from one to the other. The controller's sleeps are no steps, since it
looks at nothing meanwhile, but the game's steps fall between any two of its own. `Plans` is
`PlansOf`, which `Planner` implements. `ReadyOrProbed`, `Probe` and `LocalizedTimeout` are the
waits for a position and the four probing steps. `StepMoved`, `StepObstructed`,
`StepOccupied` and `StepSilent` are the arms of the match on a wait. The game is external: a key may move the client, be refused or
be ignored, and late; the server may transfer whoever entered the portal, identify the map,
relocate the client and show somebody else. `visited`, `crossedBy`, `bound` and `evidence` are
history.

**Readiness.** A query is an operator on the state of `World`: pending or ready. What matters is not
the answer but that a script acts on it long afterwards, so the properties relate it to later steps.

**Wire.** Bodies are sequences of bytes; `Bodies` is what `agent.js` writes for an intent that it
writes itself, `NativeBodies` what the client writes for one that is keys, `Serverbound` the
decoder of each opcode, with its length checks. Of a server body only `Layout` is kept, whether
its decoder accepts it, and its family. `ActionOf` is `world/src/action.rs`.

**Acquisition.** The owner thread up to its loop, the handler of a message in its two halves
(`Record`, then `Promote`), several runs of the program that append to one file, and a follower.
The file is a sequence of pieces, a row being two halves and a newline, so that a failed
write or a crash can leave any first part of one. `Framed` are the guards of a packet and of a fault, which
leave a malformed one unrecorded. `Open`, `StartupFails`, `Dies` and
`EngineStops` are the failures. `Read` takes any number of pieces. `run`, `at` and `lived` are history.

**ClientIntents and Confirmation.** The window's queue of posted keys is a variable; the client
takes them in order, whenever it likes, and answers with its own bodies, which the hook on outgoing
traffic shows the state machines. `RetryStep`, `CastLetter`, `UseLetter` and `UseElapses` are
timers of the state in hand; `late` holds those of steps that are complete or superseded by
then, and `LateTimer` is one that finds so. The deadline of an inventory use that is complete finds that
too and changes nothing. Every body that leaves is decoded and reduced later, into `log`, one revision each.
`Confirmation` adds one caller to this: each of its awaits is a step, its waits look at the snapshot they
hold and then at newer ones, and any other script and the player act in between. `evidence`, and
what a packet in `flight` was meant to say, are history.

**SessionLifecycle.** Owner thread, engine task, event task and the three tasks of the console
each as far as their beginning, their work and their end; `pc` is the caller inside `start`,
`wait` and `shutdown`. Every part may fail by itself. `EngineEnds` is `Engine`'s `Finish`, and
`PerformReturns` stands for the blocking call of `FridaOwner`, which may not return. A browser may keep
`/events` open. `faults` is history.

## The runs

| Run | Instance | States | Shows |
|---|---|---|---|
| `engine` | 2 clients, 3 calls, queue of 2, a reader beside 2 of the calls, ring of 1 | 58 thousand | receipts, refusals, the order of queued commands, returns; refinement of `ObservationLog`; no silent gap, no duplicate, nothing unread at the close; readers catch up and waits return |
| `world` | 2 maps of 2 coordinates, 1 entity, 1 slot, histories of 2, 4 revisions, 2 sessions | 917 thousand | one map, one session, no outdated seed, what `Recorded` can hide, lasting readiness |
| `agent` | 5 actions of all kinds, 2 of them asked for; queue of 2; 2 logins, logouts or closes | 365 thousand | what is sent, when, how often, in which session; what a receipt and a refusal mean; what alone can hold the owner |
| `acquisition` | 2 runs, 1 message of 6 kinds, a file with a row of another tool, a follower | 98 thousand | replay and follower see what was lived; the follower catches up |
| `confirm` | 1 confirmed action or attack, 2 intents of another script out of 6, 1 act by hand; 2 taps, 2 bodies, 2 posted keys, a history of 1 | 462 thousand | bodies say what was meant, reports are evidence, timers tap only the step in hand, intents end |
| `planner` | all mazes of 3 by 3, and warm attachments with every kind of obstacle | 29 thousand | routes walkable and shortest, none missed |
| `walk` | 2 by 2 positions, a portal, two refusable edges, another player; 4 attempts, 2 server packets | 550 thousand | arrival, learning, the end of a walk |
| `lifecycle` | 2 observations, 1 event, 1 action; with and without console and handler | 93 thousand | nothing outlives the report, which is final; teardown ends |
| `world_inventory`, `agent_retry`, `walk_crossing`, `lifecycle_console` | as above, or smaller | | four disagreements, see below |

**Why the bounds are enough.** *Engine:* three calls and a queue of two reach queued commands that could change places, a full queue, a
waiting send, a cancelled neighbour and a dropped owner. `MaxLoad` bounds the calls made and subscriptions
held together: a reader comes with two of the calls, and the third is made without one. With a ring of one event, two revisions
are enough to lag, and to lag with an event ahead that the snapshot covers. `MCQueries` has a query
that holds in a passing revision and one that holds from then on. *World:* every hazard of
the projection takes at most four observations (a fact, a crossing, a late reading, a new
session); histories of two overflow within them. `StatusBlocks` are the shapes that differ in
what they carry. Maps and amounts are symmetric. The client starts with equal current and maximum
and with equal inventory and equipment, which no handler compares. *Agent:* the owner makes one
call at a time, so the queue holds at most one batch; a dialog of two bodies fits and one of three
does not; two endings of the session allow logout and login again, or a close and a late body. Two
actions allow one to follow on what the other left behind. *Acquisition:* two runs are what it
takes for a torn row to meet the next run's first, and one message, in either run, to be lost,
torn or rejected; the order of two messages of one run rests on the theorem `ReplayingIsLiving`, which is for
any number of them. The follower may begin at either end of the file. *Confirm:* two intents and two
taps are a step and whatever supersedes or imitates it; two bodies in flight let one be evidence
and the other be late; a history of one is overrun by the second action, so that evidence can be lost
before it is looked for. The one confirmed query of the instance is a facing. `MCLimits` has
the values at the limits of each constructor, for which the codec alone is evaluated. *Planner:* three by three has detours
longer than the estimate, enclosed goals, a frontier on which the player stands already, and
borders on every side; halo and radius are one, so that bounds can be smaller than the grid.
*Walk:* two by two has two routes, each of which can be refused; `EdgeObservations` of two has a
repeated step, one revalidation a walk that revalidates and one that may not, four attempts
the end of both. Two packets are enough to cross and to be located on the other map. A walk
begins unidentified and without a position, or identified with one (`Known`). *Lifecycle:* the parts
end once each; two observations let the engine still drain one when its ingress is gone.

The bounds `MaxLoad`, `MaxRevision`, `MaxSessions`, `MaxEra`, `MaxActions`, `MaxPackets`, `MaxMessages`,
`MaxRuns`, `MaxIntents`, `MaxOwn`, `MaxBodies`, `MaxPosted`, `MaxObservations` and `MaxEvents` are
guards of actions, and `Observations` bounds the calls of `Engine`. Deadlock is not checked in
any run. Each system really stops: an engine whose owner has gone and whose callers have all
returned, a client that has ended, a plan that is returned, a walk that is over, a session that
has reported, a file to which nobody appends, a behavior whose bound is used up.

Every property of a passing run has been seen to fail on a mutated definition: the operators
whose comment begins with "Mutant" stand next to the definition they would replace, each the
bug a plausible edit could make. No specification uses them. `ReadersCatchUp` has two, because it speaks
of events (`DeliverSuccessorOnly`) and of snapshots (`ChangedWhileOpen`), and `NoTapAfterEvidence` has two,
for the hook (`IsMovementBody`) and for the guard of the timer (`LateTaps`).

## Fairness

*Engine.* Weak fairness of the owner's steps once started: an executor polls a runnable task.
Strong fairness of a send waiting for room: tokio's semaphore is first come, first served, and a
waiter that is cancelled makes way. Weak fairness of a caller whose answer, or whose refusal, is
there. Nobody has to submit, cancel or drop anything.

*Readers.* A reader that keeps calling `next` and `changed` gets its turn; strong, because it may
be in a wait meanwhile. This is an assumption on the reader, and the properties are about
readers who do so.

*Agent.* The owner thread runs, native functions return and timers fire. The client need not drain the
queue: behind a modal dialog it may leave a body there for as long as the dialog is open, while its session
lives (the KNOWN DEFECT at `requestNetworkPoll`, `agent.js:968`), and the owner waits as long. `OwnerIsNotStuck` therefore
says what alone can hold the owner: a dialog whose server does not answer, a body that the close of
the socket has dropped, or a ready body that the client leaves for good (`[]Starving`). No wake, send,
timer, logout or refusal does. `agent_retry` is a run of `DrainingSpec`, with a client that always
comes back to the queue, so that its counterexample owes nothing to that defect.

*Acquisition.* A follower keeps reading; nothing else is assumed, least of all that a row is
completed.

*Intents and confirmation.* Timers fire, the caller's task is polled and its deadlines elapse. The
client need not take a key, nor poll, nor answer; `IntentsEnd` therefore leaves casts out, which
wait for the client without a deadline.

*Lifecycle.* Every task and thread is scheduled. `start` and the two joins proceed; the
application, the client and the browser need do nothing. Whether the agent answers is left open:
`TeardownEnds` supposes that the thread is not held in the agent for good (see `agent_retry`).

*Walk.* The walk's future is polled, and each of its waits has a
deadline, so some step of it is taken as long as one is possible; client and server owe it
nothing.

## The proofs

Eight modules, for any clients, readers, intents, observations, calls and their sizes, capacities, maps,
coordinates, entities, slots, amounts, extents, scenes, limits and bounds.

*Engine.* The invariants are not inductive by themselves. `IInv` adds who is in a call and with
what (`CallsInv`), that the accepted observations are those reduced followed by those queued
(`QueueInv`), how far the command in hand has come (`PhaseInv`), and which answers have been
given or are still due (`AnswerInv`). From `InductiveInvariant` follow `TypeCorrect`,
`ReceiptIsReflected`, `StoppedIsUnreduced`, `StopNeedsDrop` and `ReducedInOrder`, and, step by
step, `EngineImplementsLog`: `Publish` is the instant at which an observation takes effect,
`Finish` and `DropOwner` close the log, a return is an acknowledgement, a refusal or a giving up,
and every other step is a stutter. The hard case is `ReplyLost`, which may only refuse an
observation that will never be in the log: `AnswerInv` excludes a reduced observation without a
reply once the owner is at its await. The only assumptions are that the capacity is positive and
that the sentinel is no observation.

*Readers.* The second half of `EngineProofs` builds on that invariant: a step of the engine keeps it
(`EngineStepKeepsIInv`), a step of a reader leaves the engine alone. What a reader relies on is
an order (`OwnerOrder`): a snapshot is published before its event. So a receiver tapped before the
snapshot is read has yet to see whatever the snapshot lacks, and `StreamsMeet` follows once the cursor
is known to be the snapshot's or that of an event already passed. `ClosedMeansAll` needs
that a stopped owner has emitted all it has reduced.

*World.* `WorldInv` joins the invariants and the types with `OutgrownReadingsAreCovered`: a
memory reading that differs from the client by now was overtaken by a packet, and the packet's
word, which a seed does not overwrite, is already projected. Without it nothing relates a late
reading to the client. `OneSessionAtATime` and `CombatIsRetained` go through every handler once more;
the second counts the combat actions of a bounded history as it loses its oldest. `EpochsNameMaps`,
`ReadinessLasts` and `RecordedIsAlmostSilent` are action properties and follow step by step; the
last looks at the handlers that report `Recorded`, and at the conditions under which they do, and finds one
thing that they change: a repeated map context closes the travel menu. `ReadyMeansCurrent` is what a
ready application may rely on, from the invariants of map, resources and equipment together.

*Planner.* The properties speak of a finished search only. `IInv` says what holds on the way: parents
form a tree of steps that may be taken, each cheaper than the next (`TreeInv`); no candidate is
cheaper than what is known of its position (`OpenInv`); a reached position is in the heap at its
best cost, or all beyond it is reached at no more than one step more (`FrontierInv`); and the steps
traced back lead from the cursor to the goal (`ReconstructInv`). When the heap is empty,
`FrontierInv` makes the reached positions the enclosure that `NoRouteMeansNone` asks for.
`PlansAreRight` needs the order of the heap: the estimate is never more than the steps that are
left (`LayersAreFar`), so some candidate is always estimated at no more than the shortest way
(`ShortestIsOpen`), and a goal that is popped before it is reached by the fewest steps (`ArriveIsShortest`,
kept by `NoShorterWay` while steps are traced back). The other half is about
the definition of a plan: the layers around the goal grow by one step each and stop
growing within as many layers as there are positions (`LayersSettle`, by
counting), so a scene has a layer for its origin exactly when there is a way. Inductions
over layers are by the least counterexample (`NumbersByInduction`).

*Walk.* `ArrivedHasBeenThere` rests on `MapsInv` (two snapshots of one epoch are of one map, and the
walk's epoch is that of the map its target is bound to) and `VisitedInv` (a position in a snapshot
is one the client has been at): the walk compares epochs, the property compares maps.
`EdgesAreLearnedOnEvidence` rests on `StepInv`, that a step on its n-th try has been silent
n - 1 times, which has to survive everything the game may do while the walk waits.

*Agent and owner.* The five safety properties of the run `agent` rest on one picture, `QueueInv`: the
queue is what remains of the batch of the one call the owner has in hand, numbered up to the
size of that batch, and the head is the body after the last one the client has taken. The other
parts keep it true. `HandInv` and `CommandsInv`: the agent has not seen a call before the owner
makes it, so nothing of it can be queued or sent. `SendingInv`: a body inside `cryptAndSend` may
outlive its call, whose promise a failed wake has rejected, and is then counted for that call and not
for the next. `SentInv`: what a settled promise says of the bodies. `WakeInv`, kept separately, is what a refused
call can still send: while its wake is outstanding only the first body of its batch can be ready, so a
body that is in the native sender when the wake fails is that first one, and the rest of the batch is gone
from the queue. A rejection filters the queue;
`RejectClears` shows that the filter empties it or leaves it alone, which is an induction over its
length (`WithoutIsFilter`, by the least counterexample, `LeastNumber`). The assumptions are
those of the constants: sizes are positive, only dialogs have more than one body, the sentinels are no
calls.

*Confirmation.* `ReportIsEvidence` says nothing of a call that has not returned; `CallInv` says for
each phase which revisions its anchor and its fence are, and that a facing it has kept is evidence from
between them (`FacingBy`). Every step of the scripts and of the client leaves that true because
the log only grows (`LogGrows`) and what was faced at a revision does not change
(`FacingIsKept`). `NoTapAfterEvidence` goes through every step that posts a key, and rests on `MovementEndsStep`: every body that the client writes
when it moves or is obstructed is one that the agent's hook ends the step on, so that an
active step never has evidence against it (and a caller that posts a wake has queued its body by
then, `CallTapsNothing`). `EveryIntentIsObserved` is `ObservedInv`: every key that is
posted and every body that is queued is of an intent the agent's types admit, and what is queued or
reported decodes to what was meant. The codec is the longest part of it: `IntentObserved` and
`NativeBodiesObserved` follow each body from the bytes that agent or client writes through
`Serverbound` to `ActionOf`, for every entity number, slot, quantity and text. The step, cast and item
machines have to be typed for it (`HandsInv`), because their keys become bodies. Assumed is what the
constructors of `adapter-api/src/action.rs` let through (`IntentsAreTyped`, `CallsAreTyped`), and that a
player stands and travels in the 16-bit range (`ActsAreTyped`); the game client's own bodies are
external.

*Lifecycle.* `Phases` says for every point of start and of teardown which authorities have not
begun and which are over; `ReportIsLast` is its last line with `ConsoleOwned` (the supervisor ends
after the tasks it owns). `ReportIsComplete` needs a `Ledger`: a fault is reported by the join of its
authority or is still to be found there; and `Drained`: who ends by itself has left nothing undone.

*Acquisition.* `FollowerIsReplay` compares decoding a file in parts with decoding it at once. The
decoder is a fold over pieces: one piece more is one step more (`DecodeOneMore`), so what a read
leaves pending is all that the next read needs (`DecodeInParts`, by induction over the later part), and
`FollowerInv` says that the follower is where decoding its part at once would be.
`ReplayIsLive` relates file and engine through what the handler has in hand. `HandInv` and
`StageInv` say how far a message and a run have come; `RecorderInv`, that an active recorder
leaves no open line. A row that is appended to a closed line is classified
as what the handler makes of its message (`RowIsOutcome`); rows of earlier runs are not of this run
(`EarlierRunsForgotten`); and a line that is open when a run begins swallows its first row, which
is rejected without a run (`GluedAtOpen`), and no other (`GluedStays`). `LiveOpen` and `LiveRecord` are the
two steps that write. Two assumptions are about data: a packet's length is that of
its bytes, as `emitPacket` of `agent.js` sends it, or absent (`MessagesAssumption`), and
the rows other tools left in the file name no run of this program (`EarlierRowsAssumption`).

*Only model-checked.* All liveness, for TLAPS has no rule for the fairness it needs. Every safety
invariant and action property of a passing run is a theorem.

## Where the code and its documentation disagree

1. `world_inventory`. "Packet facts take precedence over late-attachment memory seeds"
   (`world.rs:6`). `seed_inventory` replaces slots that packets reported after the reading was taken.
2. `agent_retry`. A timeout "lets policy retry or abandon the transaction instead of silently
   stopping the whole workflow" (`attachment.rs:919`). `reportTransportClosed` drops the queue without
   settling its promises, the owner thread stays in its call, and neither a retry nor a shutdown is
   taken.
3. `walk_crossing`. The edge in `MapChanged` is one whose "destination is the tile that transferred
   maps" (`walk.rs:576`), so that a caller can learn the portal. While the walk settles after the step
   onto the portal, the map changes; it plans from its cached snapshot, submits one more step,
   and reports that one.

4. `lifecycle_console`. `Session::shutdown` fails "if adapter teardown, typed event delivery, or the
   engine task fails" (`session.rs:662`), and `PublisherStopped` is "The world publisher stopped
   without a console shutdown request" (`web/src/lib.rs:457`). Shutdown joins the driver first, whose end
   ends the engine, whose end ends the publisher; if its supervisor sees that before the console is
   asked to end, an orderly shutdown of a healthy session returns an error.

Noticed while modelling, and not the subject of a run:

- *Engine.* `Events::next` computes its "exact" available cursor from its own cursor, which is
  wrong after a second lag or right after a subscription (`runtime.rs:476`, 455).
- *World.* `begin_session` keeps the travel menu, though a new attachment "invalidates all
  session-scoped projection" (`world.rs:408`, `observation.rs:19`). A repeated map context closes that
  menu and is `Recorded`, which is to mean that "evidence advanced without changing a script-facing
fact" (`world.rs:254`, 9). `RecordedClosesAMenuAtMost` and its theorem say that this is the only such change.
- *Agent.* A call may be refused because its wake failed while the client was already sending its first body:
the action happens although its caller was told that it did not (`agent.js:862`, 1044;
`NothingLeftBehind` allows it and no more). Any incoming body establishes a sender after a logout, where "only a later login request
  can" (`agent.js:1911`, 1862). An inventory activation whose first key cannot be posted stays in
  flight for good (776), and so does a cast whose key the client swallows (1668). A step stops
  tapping at the first movement or obstruction, in whatever direction and whoever caused it
  (1565), and two taps that the client answers late move it two tiles where one was asked
  for (`action.rs:18`). The keys of a cast and of an inventory use may interleave.
- *Attachment.* `Driver::wait` is documented to end when the controls are dropped, but holds a
  sender of the same channel itself (`attachment.rs:242`). `config.rs:16` promises to attach "only
  when exactly one process has this name"; of several, the only visible one is accepted.
- *Capture.* A row torn by one run swallows the first row of the next, so a replay misses the
  boundary of that session (`ReplayIsLive` says so). A follower stays `CatchingUp` while a torn tail
  is pending (`live/run.rs:78`). A body whose declared
  length is not its own is rejected live, but its row records the body's length, so a replay
  accepts it (`capture/src/codec.rs:163`); the agent of the repository never declares another length.
- *Confirmation.* A confirmed query may have held all along; only its revision is new. An
  incidental attack that arrives after the facing deadline and the fence confirms the explicit
  one, which the comment at `combat.rs:164` wants to exclude.
- *Sessions.* When the client detaches, the engine's end can be seen first, and `cli` then ends
  with `WorldStopped` and never joins its session (`apps/cli/src/run.rs:36`). The connection of an
  open `/events` is a task of its own in axum, which aborting the server does not end.
- *Walk.* `localize` may submit four steps whatever `maximum_attempts` is, and if it is smaller the
  limit is then never met (`walk.rs:298`, 439); after a revalidation the obstruction in the
  cached snapshot resolves the next wait at once, before the client has answered (490, 274).
- *Console controls.* Signals are folded, so a stop followed by any other signal before the
  application polls is lost (`control.rs:183`).

## What is not modelled

- *Assets*: parsing of the game's files, one pass over bytes that do not change. What it is used for,
  the objects that may not be entered, is part of a `Navigation` scene.
- *The console's pause and stop controls* (`web/src/control.rs`), its projection and its page. No program
  of the repository creates the channel that would connect the controls to an application, so there
  are no states of the program in which they matter; their unit tests are their only users.
- *Command lines, output and exit codes* of the applications, logging, and the wording of errors.
- *Text beyond ASCII*: the tables of Windows-1252. JSON, its parsing and printing.
- *The fields of server packets* in `Wire`: which bodies decode is modelled there, what the facts
  do in `World`.
- *A walk that spans two attachments*, where epochs start again at zero, and the walk's choice between
  catalogs.
- *Frida, tokio, axum and the client* are external, and are assumed only as far as this code's
  use of them shows.

## Why it is built this way

The engine comes first because everything else trusts its receipts; it is the one component
with an abstract specification (`ObservationLog`), which its clients may read instead of it.
`EngineReaders` extends it, since what readers are promised depends on the order of the owner's
statements. `World` is apart: the reducer is sequential, and its hazards are orders of
observations and not of threads. The adapter is modelled three times, along its three
questions: what becomes of a body between queue and socket (`AgentTransport`, `FridaOwner`),
what becomes of a message between tap, file and world (`Acquisition`), and what becomes of an
intent between script and world (`ClientIntents`, `Confirmation`). `Wire` is shared by the last two, so
that both mean the same bytes. `SessionLifecycle` composes the ends of all of them and keeps of
each only that. `WalkController` uses the plans that `Navigation` defines and `Planner` is shown to
return, so that its runs need not search.

## Running it

    tlc -workers 2 -config MCWorld.cfg MCWorld       # a run: its module and its configuration
    tlapm EngineProofs.tla                           # the proofs, three minutes each at most

`PROJECT.json` lists the runs, the source lines each definition stands for, the hazards and the
theorems.
