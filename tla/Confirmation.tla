---------------------------- MODULE Confirmation ----------------------------
(***************************************************************************)
(* Actions that are believed only when the world has observed them, over   *)
(* ClientIntents: Confirm::run (sdk/src/action.rs) and face_and_attack     *)
(* (actions/src/combat.rs), with the queries they wait for                 *)
(* (world/src/query.rs, query/actions.rs).  One caller makes one call; the *)
(* player and a second script go on acting.  A wait looks at the snapshot  *)
(* its subscription holds, and then at the newest one; a snapshot is       *)
(* identified by its revision.                                             *)
(***************************************************************************)
EXTENDS ClientIntents

CONSTANTS Confirmed,   \* intents that Confirm::run performs, and their query
          Attacks      \* directions of face_and_attack

ASSUME CallsAreTyped ==
  (\A c \in Confirmed : IsIntent(c.intent)) /\ Attacks \subseteq 0..3

VARIABLE call          \* the call and where it is

allVars == <<vars, call>>

Ended == {"reported", "failed"}
NoTurn == [how |-> "submitted", revision |-> 0]   \* combat::Facing
Idle == [kind |-> "none", phase |-> "idle"]
-----------------------------------------------------------------------------
(* query.rs: what a query answers for the snapshot of a revision: nothing   *)
(* while it is pending, else one value.  `and` needs both, `after` is ready *)
(* when the revision is later.                                              *)
Evaluate(query, revision) ==
  CASE query.query = "facing" ->
         {query.direction} \cap {FacingAt(revision)}
    [] query.query = "observed" ->
         {query.action} \cap {log[r] : r \in RecentActions}
AfterRevision(anchor, revision) == {revision} \ 0..anchor
And(left, right) == IF left = {} THEN {} ELSE right

(* Mutant: an action at the fence itself counts. *)
ObservedFrom(fence, action) ==
  {r \in RecentActions : r >= fence /\ log[r] = action}

(* query::actions::observed_after and find_action: the latest of these.     *)
ObservedAfter(fence, action) ==
  {r \in RecentActions : r > fence /\ log[r] = action}
Latest(revisions) == CHOOSE r \in revisions : \A s \in revisions : s <= r
-----------------------------------------------------------------------------
InitCall == Init /\ call = Idle

Rest == UNCHANGED <<client, world, evidence, performed, own>>

Fail == call' = [kind |-> call.kind, phase |-> "failed"]

(* perform: refused, or submitted; it is accepted when the bodies have left,*)
(* and given up by DispatchTimeout or the adapter's end, bodies or not, be  *)
(* it behind the command of another script.                                 *)
Performs(a, next) ==
  /\ OwnerIsFree
  /\ \/ /\ Submit(a)
        /\ call' = [call EXCEPT !.phase = next]
     \/ /\ UNCHANGED <<bodies, posted>>
        /\ Fail
  /\ UNCHANGED <<step, late, cast, item, world, evidence, performed, own>>

Accepted(phase, next) ==
  /\ call.phase = phase /\ bodies = <<>>
  /\ call' = [call EXCEPT !.phase = next]
  /\ Rest

GiveUp ==
  /\ \/ call.phase \in {"sending", "turning", "attacking"}
     \/ call.phase \in {"subscribed", "off", "striking"} /\ ~OwnerIsFree
  /\ Fail /\ Rest
-----------------------------------------------------------------------------
(* Confirm::run                                                             *)

Subscribe(c) ==
  /\ call.phase = "idle"
  /\ call' = [kind |-> "confirm", phase |-> "subscribed", start |-> Revision,
              intent |-> c.intent, query |-> c.query]
  /\ Rest

Dispatch ==
  call.phase = "subscribed" /\ Performs(call.intent, "sending")

ConfirmAccepted == Accepted("sending", "confirming")

(* The wait resolves on one snapshot, which also dates the evidence.        *)
Confirms ==
  /\ call.phase = "confirming"
  /\ \E output \in And(AfterRevision(call.start, Revision),
                       Evaluate(call.query, Revision)) :
       call' = [kind |-> "confirm", phase |-> "reported", start |-> call.start,
                query |-> call.query, revision |-> Revision, value |-> output]
  /\ Rest

ConfirmElapses == call.phase = "confirming" /\ Fail /\ Rest
-----------------------------------------------------------------------------
(* face_and_attack                                                          *)

Turned == [action |-> "Face", direction |-> Directions[call.direction + 1]]
Struck == [action |-> "Attack"]
Strikes(a) == [intent |-> a, direction |-> call.direction]

(* The fence of the turn.  The facing is read from a later snapshot. *)
BeginAttack(direction) ==
  /\ call.phase = "idle"
  /\ call' = [kind |-> "attack", phase |-> "looking", start |-> Revision,
              fence |-> 0, direction |-> direction, facing |-> NoTurn]
  /\ Rest

FacingRetained ==
  /\ call.phase = "looking" /\ FacingAt(Revision) = Turned.direction
  /\ call' = [call EXCEPT !.phase = "fencing", !.facing = [NoTurn EXCEPT !.how = "retained"]]
  /\ Rest

FacingDiffers ==
  /\ call.phase = "looking" /\ FacingAt(Revision) # Turned.direction
  /\ call' = [call EXCEPT !.phase = "off"]
  /\ Rest

Turn == call.phase = "off" /\ Performs(Strikes("Face"), "turning")

TurnAccepted == Accepted("turning", "awaiting turn")

TurnObserved ==
  /\ call.phase = "awaiting turn"
  /\ ObservedAfter(call.start, Turned) # {}
  /\ call' = [call EXCEPT !.phase = "checking",
       !.facing = [how |-> "observed",
                   revision |-> Latest(ObservedAfter(call.start, Turned))]]
  /\ Rest

TurnElapses ==
  /\ call.phase = "awaiting turn"
  /\ call' = [call EXCEPT !.phase = "checking", !.facing = NoTurn]
  /\ Rest

Reports(facing, attack) ==
  call' = [kind |-> "attack", phase |-> "reported", start |-> call.start,
           direction |-> call.direction, facing |-> facing, attack |-> attack]

(* An attack that the turning key made already is the one that was wanted.  *)
TurnStruck ==
  /\ call.phase = "checking"
  /\ ObservedAfter(call.start, Struck) # {}
  /\ Reports(NoTurn, Latest(ObservedAfter(call.start, Struck)))
  /\ Rest

TurnDidNotStrike ==
  /\ call.phase = "checking"
  /\ ObservedAfter(call.start, Struck) = {}
  /\ call' = [call EXCEPT !.phase = "fencing"]
  /\ Rest

(* before_attack *)
Fence ==
  /\ call.phase = "fencing"
  /\ call' = [call EXCEPT !.phase = "striking", !.fence = Revision]
  /\ Rest

Strike == call.phase = "striking" /\ Performs(Strikes("Attack"), "attacking")

StrikeAccepted == Accepted("attacking", "awaiting attack")

StrikeObserved ==
  /\ call.phase = "awaiting attack"
  /\ ObservedAfter(call.fence, Struck) # {}
  /\ Reports(call.facing, Latest(ObservedAfter(call.fence, Struck)))
  /\ Rest

StrikeElapses == call.phase = "awaiting attack" /\ Fail /\ Rest
-----------------------------------------------------------------------------
Confirm ==
  \/ (\E c \in Confirmed : Subscribe(c)) \/ Dispatch \/ ConfirmAccepted
  \/ Confirms \/ ConfirmElapses

FaceAndAttack ==
  \/ (\E d \in Attacks : BeginAttack(d)) \/ FacingRetained
  \/ FacingDiffers \/ Turn \/ TurnAccepted \/ TurnObserved \/ TurnElapses \/ TurnStruck
  \/ TurnDidNotStrike \/ Fence \/ Strike \/ StrikeAccepted \/ StrikeObserved
  \/ StrikeElapses

Next == (NextIntents /\ UNCHANGED call) \/ Confirm \/ FaceAndAttack \/ GiveUp

Spec == InitCall /\ [][Next]_allVars

(* Timers fire, the caller's task is polled, and its deadlines elapse. The  *)
(* client need not take a key, nor poll.                                    *)
Proceed == call.phase # "idle" /\ (Confirm \/ FaceAndAttack \/ GiveUp)
FairSpec ==
  /\ Spec
  /\ WF_allVars(RetryStep /\ UNCHANGED call)
  /\ WF_allVars(UseLetter /\ UNCHANGED call)
  /\ WF_allVars(UseElapses /\ UNCHANGED call)
  /\ WF_allVars(Proceed)
-----------------------------------------------------------------------------
(* A report is never made of something that was there before the call.  An  *)
(* attack it names is an attack of its revision, after the call began and   *)
(* after the turn it names; a confirmed query held in the very snapshot     *)
(* that dates it, and that is a later one than the anchor.                  *)
ReportIsEvidence ==
  call.phase = "reported" =>
    IF call.kind = "attack"
      THEN /\ call.attack > call.start /\ log[call.attack] = Struck
           /\ call.facing.how = "observed" =>
                /\ call.start < call.facing.revision
                /\ call.facing.revision < call.attack
                /\ log[call.facing.revision] = Turned
           /\ call.facing.how = "retained" =>
                \E r \in call.start..call.attack :
                  FacingAt(r) = Turned.direction
      ELSE /\ call.revision > call.start
           /\ call.query.query = "facing" =>
                FacingAt(call.revision) = call.query.direction

(* A step is given up after its taps (or replaced by another), an activation *)
(* whose keys were posted after its deadline, and a call returns, whatever   *)
(* the client does.                                                          *)
IntentsEnd ==
  /\ Active(step) ~> ~Active(step)
  /\ (item.phase \in {"posting", "awaiting"}) ~> (item.phase = "complete")
  /\ (call.phase # "idle") ~> (call.phase \in Ended)
=============================================================================
