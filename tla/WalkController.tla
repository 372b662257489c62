--------------------------- MODULE WalkController ---------------------------
(***************************************************************************)
(* The destination controller of crates/actions/src/walk.rs, against a     *)
(* client that may move, refuse or ignore a step, late, and a server that  *)
(* may move it to another map.                                             *)
(*                                                                         *)
(* The controller sees the world through its subscription: latest is the   *)
(* snapshot that last reached it, published the engine's newest.  Only a   *)
(* wait looks for a newer one.  A sleep changes nothing it looks at, so it *)
(* is not a step of its own; planning is PlansOf, which Planner implements.*)
(* Tiles are left to Planner: those of a walk are all unseen.              *)
(*                                                                         *)
(* place, keys, refuses, portal and packets are the game's.  The last four  *)
(* variables are history.                                                  *)
(***************************************************************************)
EXTENDS Navigation

CONSTANTS Target,             \* the destination
          MaximumAttempts,    \* Config::maximum_attempts
          EdgeObservations,   \* EDGE_OBSERVATIONS
          RevalidationEpochs, \* REVALIDATION_EPOCHS
          Known,              \* what may be known when the walk begins
          Start,              \* where the client may be when the walk begins
          Refusals,           \* which sets of edges it may refuse
          Portals,            \* which positions may lead to the other map
          Passers,            \* where somebody else may come to stand
          MaxPackets          \* bound on what the server does by itself

ASSUME TargetAssumption == Target \in Positions
ASSUME WorldAssumption ==
  /\ Start \subseteq Positions /\ Passers \subseteq Positions
  /\ Known \subseteq [epoch : Nat, localized : BOOLEAN]
ASSUME LimitAssumption ==
  /\ MaximumAttempts \in Nat
  /\ EdgeObservations \in Nat \ {0} /\ RevalidationEpochs \in Nat

VARIABLES pc, result,
          latest,        \* Subscription::latest
          unseen,        \* the watch holds a newer one
          epoch, attempts, edge, observation, crossing,
          knowledge, revalidations,
          probes,        \* how many directions localize has tried
          published, stopped,
          place,         \* map and position of the client
          keys,          \* steps posted to the client and not yet handled
          refuses, portal,
          packets,
          visited,       \* the places the client has been at since the walk began
          crossedBy,     \* the edge by which it entered the portal
          bound,         \* the map the target was bound to
          evidence       \* how often the walk was told that an edge is refused

walkVars == <<pc, result, latest, unseen, epoch, attempts, edge, observation,
              crossing, knowledge, revalidations, probes, bound, evidence>>
gameVars == <<published, stopped, place, keys, refuses, portal, packets, visited,
              crossedBy>>
vars == <<walkVars, gameVars>>

Here == 1
There == 2

(* What the walk reads of a snapshot: on is the map it is about, origin is  *)
(* Epoch::origin, refusal the direction of an obstruction if that is the    *)
(* evidence of the location.                                                *)
Snapshots ==
  [on : {Here, There}, epoch : Nat, origin : {"Attachment", "Established", "Crossed"},
   position : Positions \cup {Nowhere},
   refusal : Directions \cup {"none"},
   entity : Positions \cup {Nowhere}, blocks : BOOLEAN]

Unlocalized(map, number, origin) ==
  [on |-> map, epoch |-> number, origin |-> origin, position |-> Nowhere,
   refusal |-> "none", entity |-> Nowhere, blocks |-> FALSE]

FirstOrigin(number) == IF number = 0 THEN "Attachment" ELSE "Established"

Localized(snapshot) == snapshot.position # Nowhere

SceneOf(snapshot) ==
  [origin |-> snapshot.position, target |-> Target,
   dimensions |-> IF snapshot.epoch = 0 THEN Nowhere ELSE <<MaxX + 1, MaxY + 1>>,
   tiles |-> [p \in Positions |-> "unseen"], fixtures |-> {},
   occupied |-> IF snapshot.blocks THEN {snapshot.entity} ELSE {},
   refused |-> knowledge, avoided |-> {}]

(* A walk begins with the map identified or not, and with a position or     *)
(* without: Known are the combinations of the two that are looked at.       *)
Init ==
  /\ pc = "begin" /\ result = [kind |-> "none"]
  /\ place \in {Here} \X Start
  /\ \E known \in Known :
       LET blank == Unlocalized(Here, known.epoch, FirstOrigin(known.epoch))
       IN published = IF known.localized THEN [blank EXCEPT !.position = place[2]] ELSE blank
  /\ latest = published /\ unseen = FALSE
  /\ epoch = 0 /\ attempts = 0 /\ observation = 0 /\ probes = 0
  /\ edge = Nowhere /\ crossing = Nowhere
  /\ knowledge = {} /\ revalidations = 0
  /\ stopped = FALSE
  /\ keys = <<>> /\ refuses \in Refusals /\ portal \in Portals
  /\ packets = 0
  /\ visited = {place} /\ crossedBy = Nowhere /\ bound = Here
  /\ evidence = [e \in Edges |-> 0]
-----------------------------------------------------------------------------
Return(kind) == pc' = "done" /\ result' = [kind |-> kind]

(* The client is asked for a step: a key reaches its window. *)
Perform(direction) == keys' = Append(keys, direction)

gameButKeys == <<published, stopped, place, refuses, portal, packets, visited,
                 crossedBy>>

(* Client::perform returns an error. *)
PerformFails ==
  /\ pc \in {"begin", "probe", "submit"}
  /\ pc = "begin" => ~Localized(latest)
  /\ pc = "submit" => attempts # MaximumAttempts
  /\ Return("Client")
  /\ UNCHANGED <<latest, unseen, epoch, attempts, edge, observation, crossing,
                 knowledge, revalidations, probes, bound, evidence, gameVars>>

(* run up to its loop, and bootstrap: without a position the map is         *)
(* requested and a while waited for.                                        *)
Bootstrap ==
  /\ pc = "begin"
  /\ pc' = IF Localized(latest) THEN "plan" ELSE "ready"
  /\ epoch' = latest.epoch /\ bound' = latest.on
  /\ UNCHANGED <<result, latest, unseen, attempts, edge, observation, crossing,
                 knowledge, revalidations, probes, evidence, gameVars>>

(* A wait looks at the newest snapshot when the one it has does not do. *)
Refresh ==
  /\ latest' = published /\ unseen' = FALSE
  /\ UNCHANGED <<pc, result, epoch, attempts, edge, observation, crossing,
                 knowledge, revalidations, probes, bound, evidence, gameVars>>

WaitLocalized ==
  /\ pc \in {"ready", "probed"}
  /\ ~Localized(latest) /\ unseen
  /\ Refresh

(* The wait ends with a position, and the walk's epoch is that snapshot's. *)
ReadyOrProbed ==
  /\ pc \in {"ready", "probed"}
  /\ Localized(latest)
  /\ pc' = "plan"
  /\ attempts' = probes
  /\ epoch' = latest.epoch /\ bound' = latest.on
  /\ UNCHANGED <<result, latest, unseen, edge, observation, crossing, knowledge,
                 revalidations, probes, evidence, gameVars>>

(* localize: a step in each direction, till one tells where the client is.  *)
Probe ==
  /\ pc = "probe"
  /\ probes' = probes + 1
  /\ Perform(<<"Up", "Right", "Down", "Left">>[probes'])
  /\ pc' = "probed"
  /\ UNCHANGED <<result, latest, unseen, epoch, attempts, edge, observation,
                 crossing, knowledge, revalidations, bound, evidence, gameButKeys>>

LocalizedTimeout ==
  /\ pc \in {"ready", "probed"}
  /\ ~Localized(latest) /\ ~unseen /\ ~stopped
  /\ IF probes = 4
       THEN Return("StateUnavailable")
       ELSE pc' = "probe" /\ UNCHANGED result
  /\ UNCHANGED <<latest, unseen, epoch, attempts, edge, observation, crossing,
                 knowledge, revalidations, probes, bound, evidence, gameVars>>
-----------------------------------------------------------------------------
(* The map is no longer the one for which the target was given. *)
EpochAdvanced ==
  /\ pc = "plan"
  /\ latest.epoch # epoch
  /\ pc' = "done"
  /\ result' = IF latest.origin = "Established"
                 THEN [kind |-> "MapIdentified"]
                 ELSE [kind |-> "MapChanged", crossing |-> crossing]
  /\ UNCHANGED <<latest, unseen, epoch, attempts, edge, observation, crossing,
                 knowledge, revalidations, probes, bound, evidence, gameVars>>

(* Mutant: the epoch is not looked at again. *)
PlanAnyEpoch == pc = "plan"

Planning == pc = "plan" /\ latest.epoch = epoch

Plans == UNION {PlansOf(scene) : scene \in {SceneOf(latest)}}

(* A route: its first step is the next edge. *)
TakeStep(plan) ==
  /\ plan.kind \in {"Route", "Frontier"}
  /\ edge' = <<latest.position, plan.first>>
  /\ observation' = 1
  /\ pc' = "submit"
  /\ UNCHANGED <<result, knowledge, revalidations>>

(* What was refused may have been so for a while only. *)
Revalidate(plan) ==
  /\ plan.kind = "NoRoute"
  /\ knowledge # {} /\ revalidations < RevalidationEpochs
  /\ revalidations' = revalidations + 1
  /\ knowledge' = {}
  /\ UNCHANGED <<pc, result, edge, observation>>

PlanEnds(plan) ==
  /\ plan.kind \notin {"Route", "Frontier"}
  /\ plan.kind = "NoRoute" =>
       knowledge = {} \/ revalidations = RevalidationEpochs
  /\ Return(plan.kind)
  /\ UNCHANGED <<edge, observation, knowledge, revalidations>>

Replan ==
  /\ Planning
  /\ UNCHANGED <<latest, unseen, epoch, attempts, crossing, probes, bound, evidence,
                 gameVars>>
  /\ \E plan \in Plans : TakeStep(plan) \/ Revalidate(plan) \/ PlanEnds(plan)
-----------------------------------------------------------------------------
Submit ==
  /\ pc = "submit"
  /\ attempts # MaximumAttempts
  /\ attempts' = attempts + 1
  /\ crossing' = edge
  /\ Perform(edge[2])
  /\ pc' = "wait"
  /\ UNCHANGED <<result, latest, unseen, epoch, edge, observation, knowledge,
                 revalidations, probes, bound, evidence, gameButKeys>>

AttemptsExhausted ==
  /\ pc = "submit"
  /\ attempts = MaximumAttempts
  /\ Return("Attempts")
  /\ UNCHANGED <<latest, unseen, epoch, attempts, edge, observation, crossing,
                 knowledge, revalidations, probes, bound, evidence, gameVars>>

(* step_outcome. *)
Moved == Localized(latest) /\ latest.position # edge[1]
Obstructed == latest.position = edge[1] /\ latest.refusal = edge[2]

WaitStep ==
  /\ pc = "wait"
  /\ ~Moved /\ ~Obstructed /\ unseen
  /\ Refresh

StepMoved ==
  /\ pc = "wait" /\ Moved
  /\ pc' = "plan"
  /\ UNCHANGED <<result, latest, unseen, epoch, attempts, edge, observation,
                 crossing, knowledge, revalidations, probes, bound, evidence, gameVars>>

StepObstructed ==
  /\ pc = "wait" /\ Obstructed
  /\ knowledge' = knowledge \cup {edge}
  /\ evidence' = [evidence EXCEPT ![edge] = EdgeObservations]
  /\ pc' = "plan"
  /\ UNCHANGED <<result, latest, unseen, epoch, attempts, edge, observation,
                 crossing, revalidations, probes, bound, gameVars>>

(* A deadline is met only by a wait that has nothing to look at and whose   *)
(* engine lives.                                                            *)
TimedOut == pc = "wait" /\ ~Moved /\ ~Obstructed /\ ~unseen /\ ~stopped

(* Mutant: a step is waited for as long as somebody stands in the way. *)
StaysBehind ==
  /\ TimedOut
  /\ latest.entity = Destination(edge)
  /\ UNCHANGED vars

(* Mutant: somebody who stands in the way is taken for a wall. *)
UnobservedOccupied ==
  /\ TimedOut
  /\ latest.entity = Destination(edge)
  /\ knowledge' = knowledge \cup {edge}
  /\ pc' = "plan"
  /\ UNCHANGED <<result, latest, unseen, epoch, attempts, edge, observation,
                 crossing, revalidations, probes, bound, evidence, gameVars>>

(* Somebody stands in the way now: nothing is learned. *)
StepOccupied ==
  /\ TimedOut
  /\ latest.entity = Destination(edge)
  /\ pc' = "plan"
  /\ UNCHANGED <<result, latest, unseen, epoch, attempts, edge, observation,
                 crossing, knowledge, revalidations, probes, bound, evidence, gameVars>>

(* No evidence at all: the step is repeated, and the last time its edge     *)
(* counts as refused.                                                       *)
StepSilent ==
  /\ TimedOut
  /\ latest.entity # Destination(edge)
  /\ evidence' = [evidence EXCEPT ![edge] = IF @ < EdgeObservations THEN @ + 1 ELSE @]
  /\ IF observation < EdgeObservations
       THEN /\ observation' = observation + 1
            /\ pc' = "submit"
            /\ UNCHANGED knowledge
       ELSE /\ knowledge' = knowledge \cup {edge}
            /\ pc' = "plan"
            /\ UNCHANGED observation
  /\ UNCHANGED <<result, latest, unseen, epoch, attempts, edge, crossing,
                 revalidations, probes, bound, gameVars>>

(* A wait ends when the engine has stopped and nothing is left to see. *)
WorldStopped ==
  /\ \/ pc \in {"ready", "probed"} /\ ~Localized(latest)
     \/ pc = "wait" /\ ~Moved /\ ~Obstructed
  /\ ~unseen /\ stopped
  /\ Return("WorldStopped")
  /\ UNCHANGED <<latest, unseen, epoch, attempts, edge, observation, crossing,
                 knowledge, revalidations, probes, bound, evidence, gameVars>>

Walk ==
  \/ Bootstrap \/ PerformFails
  \/ WaitLocalized \/ ReadyOrProbed \/ Probe \/ LocalizedTimeout
  \/ EpochAdvanced \/ Replan
  \/ Submit \/ AttemptsExhausted
  \/ WaitStep \/ StepMoved \/ StepObstructed \/ StepOccupied \/ StepSilent
  \/ WorldStopped
-----------------------------------------------------------------------------
(* Something new is published; the controller is told nothing else. *)
Publish(snapshot) ==
  /\ ~stopped /\ pc # "done"
  /\ published' = snapshot
  /\ unseen' = TRUE
  /\ UNCHANGED <<pc, result, latest, epoch, attempts, edge, observation, crossing,
                 knowledge, revalidations, probes, bound, evidence, stopped,
                 refuses, portal>>

Blocked(e) ==
  \/ Destination(e) = Nowhere \/ e \in refuses
  \/ published.blocks /\ published.entity = Destination(e)

(* The client handles a step it was asked for: it moves, ... *)
ClientMoves ==
  /\ keys # <<>>
  /\ LET e == <<place[2], Head(keys)>>
     IN /\ ~Blocked(e)
        /\ place' = <<place[1], Destination(e)>>
        /\ crossedBy' = IF place' = <<Here, portal>> THEN e ELSE crossedBy
        /\ Publish([published EXCEPT !.position = Destination(e), !.refusal = "none"])
  /\ visited' = visited \cup {place'}
  /\ keys' = Tail(keys)
  /\ UNCHANGED packets

(* ... says that it cannot, ... *)
ClientRefuses ==
  /\ keys # <<>>
  /\ Blocked(<<place[2], Head(keys)>>)
  /\ Publish([published EXCEPT !.position = place[2], !.refusal = Head(keys)])
  /\ keys' = Tail(keys)
  /\ UNCHANGED <<place, packets, visited, crossedBy>>

(* ... or does nothing and says nothing. *)
ClientIgnores ==
  /\ pc # "done"
  /\ keys # <<>>
  /\ keys' = Tail(keys)
  /\ UNCHANGED <<walkVars, published, stopped, place, refuses, portal, packets,
                 visited, crossedBy>>

ServerDoes ==
  /\ packets < MaxPackets
  /\ packets' = packets + 1
  /\ UNCHANGED <<keys, crossedBy>>

(* Who has entered the portal is moved to the other map. *)
ServerCrosses ==
  /\ ServerDoes
  /\ crossedBy # Nowhere /\ place[1] = Here
  /\ \E p \in Start : place' = <<There, p>>
  /\ visited' = visited \cup {place'}
  /\ Publish(Unlocalized(There, published.epoch + 1,
                         IF published.epoch = 0 THEN "Established" ELSE "Crossed"))

(* The server says on which map a client of unknown map is, ... *)
ServerIdentifies ==
  /\ ServerDoes
  /\ published.epoch = 0
  /\ Publish(Unlocalized(place[1], 1, "Established"))
  /\ UNCHANGED <<place, visited>>

(* ... where on it the client is, or has to go back to, ... *)
ServerLocates ==
  /\ ServerDoes
  /\ \E p \in Start \cup {place[2]} :
       /\ <<published.position, published.refusal>> # <<p, "none">>
       /\ place' = <<place[1], p>>
       /\ Publish([published EXCEPT !.position = p, !.refusal = "none"])
  /\ visited' = visited \cup {place'}

(* ... and who else is. *)
ServerShowsEntity ==
  /\ ServerDoes
  /\ \E p \in (Passers \ {place[2]}) \cup {Nowhere}, blocks \in BOOLEAN :
       /\ p = Nowhere => ~blocks
       /\ p # published.entity
       /\ Publish([published EXCEPT !.entity = p, !.blocks = blocks])
  /\ UNCHANGED <<place, visited>>

(* The engine's owner ends. *)
EngineStops ==
  /\ ~stopped /\ pc # "done"
  /\ stopped' = TRUE
  /\ UNCHANGED <<walkVars, published, place, keys, refuses, portal, packets, visited,
                 crossedBy>>

Game ==
  \/ ClientMoves \/ ClientRefuses \/ ClientIgnores
  \/ ServerCrosses \/ ServerIdentifies \/ ServerLocates \/ ServerShowsEntity
  \/ EngineStops

Next == Walk \/ Game

(* The controller is scheduled; its waits and sleeps have deadlines.  The   *)
(* client and the server owe it nothing.                                    *)
Spec == Init /\ [][Next]_vars /\ WF_vars(Walk)
-----------------------------------------------------------------------------
TypeOK ==
  /\ latest \in Snapshots /\ published \in Snapshots
  /\ unseen \in BOOLEAN /\ stopped \in BOOLEAN
  /\ epoch \in Nat /\ attempts \in Nat /\ probes \in 0..4
  /\ observation \in 0..EdgeObservations
  /\ {edge, crossing, crossedBy} \subseteq Edges \cup {Nowhere}
  /\ knowledge \subseteq Edges
  /\ revalidations \in 0..RevalidationEpochs
  /\ keys \in Seq(Directions)
  /\ place \in {Here, There} \X Positions
  /\ evidence \in [Edges -> 0..EdgeObservations]

(* Arrived means that the client has stood on the target of the map the     *)
(* target was given for, not on the same numbers of another map.            *)
ArrivedWasThere == result.kind = "Arrived" => <<bound, Target>> \in visited

(* An edge is avoided only because the client has refused it or was silent  *)
(* as often as required; not because somebody stood in the way, and not     *)
(* because of what happened on another edge.                                *)
LearnedOnEvidence == \A e \in knowledge : evidence[e] = EdgeObservations

(* The walk ends, whatever the client and the server do.                    *)
WalkEnds == <>(pc = "done")

(* walk.rs, lines 574 to 576: the edge reported with MapChanged is "The step *)
(* in flight when the change was observed. Edge::destination is the tile     *)
(* that transferred maps."  The walk may have submitted one more step from   *)
(* the snapshot it had before the transfer.                                  *)
CrossingIsThePortal ==
  result.kind = "MapChanged" => result.crossing \in {Nowhere, crossedBy}
=============================================================================
