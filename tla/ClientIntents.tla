---------------------------- MODULE ClientIntents ----------------------------
(***************************************************************************)
(* The intents of the adapter API inside the agent (agent.js), and their   *)
(* way back as actions of the world.  A step, a cast and an inventory use  *)
(* are keys posted to the client's window, watched by the hook on outgoing *)
(* bodies; the rest are bodies (Wire) that the client's own network thread *)
(* sends, which posted keys wake.  Every body that leaves is reported,     *)
(* decoded, and reduced later, in order.                                   *)
(*                                                                         *)
(* The owner thread is inside exports.call until the bodies of an intent   *)
(* have left, so one intent's bodies are queued at a time; what can go     *)
(* wrong in that queue is AgentTransport's.  The keys that only open the   *)
(* client's spell and item prompts are part of the action that posts the   *)
(* first of them.  The client (external) takes the posted keys in order.   *)
(***************************************************************************)
EXTENDS Wire, FiniteSets

CONSTANTS Plain,      \* intents that are bodies
          Limits,     \* more of them, at the limits of their constructors
          Keys,       \* intents that are keys
          OwnActs,    \* what the client's player does by hand, and where
          Here,       \* where the player stands
          MaxTaps,    \* MAX_CLIENT_STEP_TAP_ATTEMPTS and its like for wakes
          Retained,   \* action::CAPACITY
          MaxIntents, \* bound: intents that other scripts perform
          MaxOwn,     \* bound: acts by hand
          MaxBodies,  \* bound: bodies that leave
          MaxPosted   \* bound: keys in the window's queue

ASSUME ClientIntentsAssumption ==
  /\ {MaxTaps, Retained} \subseteq Nat \ {0}
  /\ {MaxIntents, MaxOwn, MaxBodies, MaxPosted} \subseteq Nat

(* The adapter API's types, which the agent checks again.                   *)
ASSUME IntentsAreTyped ==
  /\ \A a \in Plain \cup Limits : IsIntent(a)
  /\ \A a \in Keys : a.intent = "Step" => a.direction \in 0..3
  /\ \A a \in Keys : a.intent = "UseInventory" => a.slot \in InventorySlots
  /\ \A a \in Keys : a.intent = "Cast" => a.slot \in SpellSlots

(* What a player can do by hand, and where. *)
IsAct(a) ==
  /\ a.intent \in {"Attack", "Face", "Step", "Obstructed", "UseInventory",
                   "Cast", "RefreshMap", "Disconnect", "TravelOnMenu"}
  /\ a.intent \in {"Attack", "Face", "Step", "Obstructed"} =>
       a.direction \in 0..3
  /\ a.intent \in {"Step", "Obstructed"} => <<a.x, a.y>> = Here
  /\ a.intent \in {"UseInventory", "Cast"} => a.slot \in 1..26
  /\ a.intent = "TravelOnMenu" => {a.map, a.x, a.y} \subseteq Words

ASSUME ActsAreTyped ==
  Here \in Words \X Words /\ \A a \in OwnActs : IsAct(a)

VARIABLES
  step,       \* clientStepState
  late,       \* timers of steps that are superseded or complete
  cast,       \* clientCastState
  item,       \* clientInventoryState
  bodies,     \* pendingPlaintextBodies of the intent in exports.call
  posted,     \* the window's messages
  flight,     \* decoded packets on their way to the engine, and, as a
              \* history, what they were to say
  log,        \* history: the action of each revision of the world
  evidence,   \* history: a movement or obstruction left since the step began
  performed, own  \* counters of the bounds

client == <<step, late, cast, item, bodies, posted>>
world == <<flight, log>>
vars == <<client, world, evidence, performed, own>>

(* A state that is complete is as good as none. *)
NoStep == [direction |-> 0, phase |-> "complete", taps |-> 0]
NoUse == [slot |-> 0, phase |-> "complete", letters |-> <<>>]
Done(use) == [use EXCEPT !.slot = 0, !.phase = "complete"]
Active(s) == s.phase \notin {"complete", "superseded"}

(* What an intent asks for, in the world's words, body by body.             *)
Named(a) ==
  CASE a.intent \in {"Attack", "Pickup"} -> <<[action |-> a.intent]>>
    [] a.intent = "Face" ->
         <<[action |-> "Face", direction |-> Directions[a.direction + 1]]>>
    [] a.intent = "RequestProfile" -> <<NoAction>>
    [] a.intent = "Interact" ->
         <<[action |-> "Interact", entity |-> a.entity]>>
    [] a.intent = "Dialog" ->
         <<[action |-> "Dialog", entity |-> a.selection.entity,
            command |-> a.selection.command]>>
    [] a.intent = "DialogTransaction" ->
         <<[action |-> "Interact", entity |-> a.entity]>>
           \o [i \in DOMAIN a.selections |->
                 [action |-> "Dialog", entity |-> a.entity,
                  command |-> a.selections[i].command]]
    [] a.intent = "Speak" -> <<[action |-> "Speak", text |-> a.text]>>
    [] a.intent \in {"CastAnswered", "Cast"} ->
         <<[action |-> "Cast", slot |-> a.slot]>>
    [] a.intent \in {"Step", "Obstructed"} ->
         <<[action |-> IF a.intent = "Step" THEN "Step" ELSE "Obstruction",
            direction |-> Directions[a.direction + 1], origin |-> Here]>>
    [] a.intent = "UseInventory" ->
         <<[action |-> "UseInventory", slot |-> a.slot]>>
    [] a.intent = "RefreshMap" -> <<[action |-> "Refresh"]>>
    [] a.intent = "Disconnect" -> <<[action |-> "Disconnect"]>>
    [] a.intent = "TravelOnMenu" ->
         <<[action |-> "TravelSelection", map |-> a.map,
            position |-> <<a.x, a.y>>]>>

(* The bodies that the client writes for an act of its own.                 *)
ActBodies(a) ==
  IF a.intent \in {"Attack", "Face"} THEN {Bodies(a)[1]}
  ELSE NativeBodies(a)
-----------------------------------------------------------------------------
Init ==
  /\ step = NoStep /\ late = <<>> /\ cast = NoUse /\ item = NoUse
  /\ bodies = <<>> /\ posted = <<>> /\ flight = <<>> /\ log = <<>>
  /\ evidence = FALSE /\ performed = 0 /\ own = 0

(* emitPacket, and the decoder behind it. *)
Observed(body) == ActionOf(Decode("serverbound", Len(body), body))
Report(named, body) ==
  /\ Len(log) + Len(flight) < MaxBodies
  /\ flight' = Append(flight,
       [named |-> named, seen |-> Observed(body)])

(* PostMessageW of a key, which the window may refuse. *)
Posting == IF Len(posted) < MaxPosted THEN BOOLEAN ELSE {FALSE}
Post(key, ok) == posted' = IF ok THEN Append(posted, key) ELSE posted

OwnerIsFree == bodies = <<>>
Perform ==
  OwnerIsFree /\ performed < MaxIntents /\ performed' = performed + 1
-----------------------------------------------------------------------------
(* clientStep: replaces the step in flight, and taps.                       *)

Tap(s, ok) ==
  /\ step' = IF ok THEN [s EXCEPT !.taps = @ + 1] ELSE NoStep
  /\ Post([key |-> "direction", direction |-> s.direction], ok)

(* The timer of a step outlives it.                                         *)
Outlived(s) == IF Active(s) THEN Append(late, s.direction) ELSE late

BeginStep(direction) ==
  /\ Perform
  /\ \E ok \in Posting :
       Tap([NoStep EXCEPT !.direction = direction, !.phase = "awaiting"], ok)
  /\ evidence' = FALSE
  /\ late' = Outlived(step)
  /\ UNCHANGED <<cast, item, bodies, world, own>>

(* The timer of the current step: another tap, or a warning and the end.    *)
RetryStep ==
  /\ Active(step)
  /\ IF step.taps >= MaxTaps
       THEN step' = NoStep /\ UNCHANGED posted
       ELSE \E ok \in Posting : Tap(step, ok)
  /\ UNCHANGED <<late, cast, item, bodies, world, evidence, performed, own>>

(* Mutant: the timer asks only whether its own taps are used up. *)
LateTaps ==
  /\ late # <<>> /\ late' = Tail(late)
  /\ \E ok \in Posting :
       Post([key |-> "direction", direction |-> Head(late)], ok)
  /\ UNCHANGED <<step, cast, item, bodies, world, evidence, performed, own>>

(* The timer of a step that is superseded or complete finds that it is.     *)
LateTimer ==
  /\ late # <<>> /\ late' = Tail(late)
  /\ UNCHANGED <<step, cast, item, bodies, posted, world, evidence, performed,
                 own>>

(* clientCastSpell.  The timers of its key sequence run to the letter even  *)
(* when the state is complete by then and the next cast has begun.          *)
Begins(use, slot) ==
  [slot |-> slot, phase |-> "posting", letters |-> Append(use.letters, slot)]

BeginCast(slot) ==
  /\ Perform
  /\ \/ /\ Active(cast)    \* "a client spell cast is already in flight"
        /\ UNCHANGED cast
     \/ /\ ~Active(cast)
        /\ \E ok \in Posting :
             cast' = IF ok THEN Begins(cast, slot) ELSE cast
  /\ UNCHANGED <<step, late, item, bodies, posted, world, evidence, own>>

(* The last letter to come is that of the state that began last.            *)
Lettered(use) == [use EXCEPT !.letters = Tail(@)]

CastLetter ==
  /\ cast.letters # <<>>
  /\ \E ok \in Posting :
       /\ Post([key |-> "spell", slot |-> Head(cast.letters)], ok)
       /\ cast' = IF Len(cast.letters) > 1 \/ ~Active(cast)
                    THEN Lettered(cast)
                  ELSE IF ok THEN [Lettered(cast) EXCEPT !.phase = "awaiting"]
                  ELSE Done(Lettered(cast))
  /\ UNCHANGED <<step, late, item, bodies, world, evidence, performed, own>>

(* clientUseInventory.  Its first key may be refused (or the window not be  *)
(* there): the call throws, and the state stays as it is.                   *)
BeginUse(slot) ==
  /\ Perform
  /\ \/ /\ Active(item)    \* "a client inventory activation is already ..."
        /\ UNCHANGED item
     \/ /\ ~Active(item)
        /\ \E ok \in Posting :
             item' = IF ok THEN Begins(item, slot)
                     ELSE [item EXCEPT !.slot = slot, !.phase = "thrown"]
  /\ UNCHANGED <<step, late, cast, bodies, posted, world, evidence, own>>

(* A posted letter makes its state await the activation, complete or not.   *)
UseLetter ==
  /\ item.letters # <<>>
  /\ \E ok \in Posting :
       /\ Post([key |-> "item", slot |-> Head(item.letters)], ok)
       /\ item' = IF Len(item.letters) > 1 \/ item.phase = "thrown"
                    THEN Lettered(item)
                  ELSE IF ok
                    THEN [slot |-> Head(item.letters), phase |-> "awaiting",
                          letters |-> <<>>]
                  ELSE Done(Lettered(item))
  /\ UNCHANGED <<step, late, cast, bodies, world, evidence, performed, own>>

(* Mutant: there is no deadline, as there is none for a cast. *)
UseNeverElapses ==
  /\ item.phase = "awaiting"
  /\ UNCHANGED vars

UseElapses ==
  /\ item.phase = "awaiting"
  /\ item' = Done(item)
  /\ UNCHANGED <<step, late, cast, bodies, posted, world, evidence, performed, own>>

(* clientRefresh. *)
BeginRefresh ==
  /\ Perform
  /\ \E ok \in Posting : Post([key |-> "refresh"], ok)
  /\ UNCHANGED <<step, late, cast, item, bodies, world, evidence, own>>

(* enqueuePlaintextBodies; an attack or a turn is woken by its direction.   *)
Wake(a) ==
  IF a.intent \in {"Attack", "Face"}
    THEN Post([key |-> "direction", direction |-> a.direction],
              TRUE \in Posting)
    ELSE UNCHANGED posted

Submit(a) ==
  /\ bodies' = [i \in DOMAIN Bodies(a) |->
                  [intent |-> a, named |-> Named(a)[i],
                   body |-> Bodies(a)[i], wakes |-> 1]]
  /\ Wake(a)

PerformPlain(a) ==
  /\ Perform
  /\ \/ Submit(a)
     \/ UNCHANGED <<bodies, posted>>     \* no session, or the wake threw
  /\ UNCHANGED <<step, late, cast, item, world, evidence, own>>

(* schedulePendingPlaintextWake: while this very body is still queued.      *)
WakeAgain ==
  /\ bodies # <<>> /\ Head(bodies).wakes < MaxTaps
  /\ bodies' = [bodies EXCEPT ![1].wakes = @ + 1]
  /\ Wake(Head(bodies).intent)
  /\ UNCHANGED <<step, late, cast, item, world, evidence, performed, own>>

(* flushPlaintextBody: the client sends the body, the agent reports it.     *)
Flush ==
  /\ bodies # <<>>
  /\ bodies' = Tail(bodies)
  /\ Report(Head(bodies).named, Head(bodies).body)
  /\ UNCHANGED <<step, late, cast, item, posted, log, evidence, performed, own>>
-----------------------------------------------------------------------------
(* The hook on the client's own bodies.                                     *)

(* Mutant: an obstruction does not end a step. *)
IsMovementBody(b) ==
  \/ Len(b) = 10 /\ b[1] = 50 /\ b[4] = 80
  \/ Len(b) = 17 /\ b[1] = 6 /\ b[4] = 80

(* noteClientStepOutbound *)
IsStepBody(b) ==
  \/ Len(b) = 10 /\ b[1] = 50 /\ b[4] = 80
  \/ Len(b) = 17 /\ b[1] = 6 /\ b[4] = 80
  \/ Len(b) = 7 /\ b[1] = 105

NoteStep(b) ==
  step' = IF ~Active(step) THEN step
          ELSE IF IsStepBody(b) THEN NoStep
          ELSE IF Len(b) = 3 /\ b[1] = 17
            THEN [step EXCEPT !.phase = "turn observed"]
          ELSE step

(* noteClientCastOutbound, noteClientInventoryOutbound *)
NoteUse(use, opcode, b) ==
  IF Active(use) /\ Len(b) >= 2 /\ b[1] = opcode /\ b[2] = use.slot
    THEN Done(use) ELSE use

(* satisfyPendingNativeBody: a native attack is the queued one. *)
Satisfied(b) ==
  IF b[1] = 19 /\ bodies # <<>> /\ Head(bodies).intent.intent = "Attack"
    THEN Tail(bodies)
    ELSE bodies

ClientSends(a) ==
  \E b \in ActBodies(a) :
    /\ bodies' = Satisfied(b)
    /\ NoteStep(b)
    /\ late' = IF IsStepBody(b) THEN Outlived(step) ELSE late
    /\ cast' = NoteUse(cast, 15, b)
    /\ item' = NoteUse(item, 28, b)
    /\ evidence' = (Active(step') /\ (evidence
                                      \/ a.intent \in {"Step", "Obstructed"}))
    /\ Report(Named(a)[1], b)

(* What the client may make of a key.                                       *)
ActsOf(key) ==
  CASE key.key = "direction" ->
         [intent : {"Face", "Step", "Obstructed", "Attack"},
          direction : {key.direction}, x : {Here[1]}, y : {Here[2]}]
    [] key.key = "spell" -> {[intent |-> "Cast", slot |-> key.slot]}
    [] key.key = "item" -> {[intent |-> "UseInventory", slot |-> key.slot]}
    [] key.key = "refresh" -> {[intent |-> "RefreshMap"]}

TakeKey ==
  /\ posted # <<>>
  /\ posted' = Tail(posted)
  /\ \/ \E a \in ActsOf(Head(posted)) : ClientSends(a)
     \/ UNCHANGED <<step, late, cast, item, bodies, flight, evidence>>
  /\ UNCHANGED <<log, performed, own>>

ByHand ==
  /\ own < MaxOwn /\ own' = own + 1
  /\ \E a \in OwnActs : ClientSends(a)
  /\ UNCHANGED <<posted, log, performed>>

(* The engine reduces the next packet: one revision of the world.           *)
Reduce ==
  /\ flight # <<>>
  /\ flight' = Tail(flight)
  /\ log' = Append(log, Head(flight).seen)
  /\ UNCHANGED <<client, evidence, performed, own>>
-----------------------------------------------------------------------------
(* What a snapshot shows of these actions.                                  *)

Revision == Len(log)

(* Snapshot::recent_actions: the revisions of the retained ones. *)
RecentActions ==
  LET acts == {r \in DOMAIN log : log[r] # NoAction}
  IN {r \in acts : Cardinality({s \in acts : s > r}) < Retained}

(* player().facing() at a revision: 0 and "unknown" before the first one. *)
FacingAt(revision) ==
  LET turns == {r \in 1..revision :
                  log[r].action \in {"Face", "Step", "Obstruction"}}
  IN IF turns = {} THEN "unknown"
     ELSE log[CHOOSE r \in turns : \A s \in turns : s <= r].direction
-----------------------------------------------------------------------------
KeyIntent ==
  \E a \in Keys :
    \/ a.intent = "Step" /\ BeginStep(a.direction)
    \/ a.intent = "Cast" /\ BeginCast(a.slot)
    \/ a.intent = "UseInventory" /\ BeginUse(a.slot)
    \/ a.intent = "RefreshMap" /\ BeginRefresh

Timers ==
  RetryStep \/ LateTimer \/ CastLetter \/ UseLetter \/ UseElapses \/ WakeAgain
NextIntents ==
  \/ KeyIntent \/ (\E a \in Plain : PerformPlain(a)) \/ Timers
  \/ Flush \/ TakeKey \/ ByHand \/ Reduce
-----------------------------------------------------------------------------
(* What the world records is what the intent said: every body that the      *)
(* agent or the client writes for it passes its decoder, with the           *)
(* direction, slot, entity, command or text it had; so do the bodies of     *)
(* intents at the limits of their constructors, which are only evaluated.   *)
LimitsDecode ==
  \A a \in Limits : \A i \in DOMAIN Bodies(a) :
    Observed(Bodies(a)[i]) = Named(a)[i]
EveryIntentIsObserved ==
  LimitsDecode /\ \A i \in DOMAIN flight : flight[i].seen = flight[i].named

(* Keys are tapped again only as long as nothing shows that the client has  *)
(* moved or been obstructed since the step began, however late the client   *)
(* answers the taps and whoever else makes it move; and a direction that no *)
(* intent posts, and no waiting body, is that of the step in hand, never of *)
(* one that is complete or replaced, whose timer is still to come.          *)
TimerTaps ==
  \/ step'.taps > step.taps
  \/ /\ bodies' = <<>> /\ Len(posted') > Len(posted)
     /\ posted'[Len(posted')].key = "direction"
NoTapAfterEvidence ==
  [][TimerTaps /\ performed' = performed =>
       /\ Active(step) /\ ~evidence
       /\ Len(posted') > Len(posted) =>
            posted'[Len(posted')] =
              [key |-> "direction", direction |-> step.direction]]_vars
=============================================================================
