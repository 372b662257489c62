-------------------------- MODULE ConfirmationProofs --------------------------
(***************************************************************************)
(* Theorems about the confirmed actions, whatever the scripts, the player  *)
(* and the client do: what is reported is evidence of what was asked, a    *)
(* step is not tapped again once it has been seen to move, and every body  *)
(* that an intent leads to is observed as what the intent said.            *)
(***************************************************************************)
EXTENDS Confirmation, WellFoundedInduction, TLAPS

(* Sequences of anything. *)
IsSequence(s) == \E S : s \in Seq(S)

LEMMA SequenceSteps ==
  ASSUME NEW s, IsSequence(s), NEW e
  PROVE  /\ Len(s) \in Nat /\ DOMAIN s = 1..Len(s)
         /\ IsSequence(Append(s, e)) /\ Len(Append(s, e)) = Len(s) + 1
         /\ \A i \in DOMAIN s : Append(s, e)[i] = s[i]
         /\ Append(s, e)[Len(s) + 1] = e
         /\ s # <<>> => /\ Head(s) = s[1] /\ 1 \in DOMAIN s
                        /\ IsSequence(Tail(s))
                        /\ \A i \in DOMAIN Tail(s) :
                             i + 1 \in DOMAIN s /\ Tail(s)[i] = s[i + 1]
  <1>1. PICK S : s \in Seq(S)
    BY DEF IsSequence
  <1>2. DEFINE T == S \cup {e}
  <1>3. s \in Seq(T) /\ e \in T
    BY <1>1
  <1>4. /\ Append(s, e) \in Seq(T) /\ Len(Append(s, e)) = Len(s) + 1
        /\ \A i \in DOMAIN s : Append(s, e)[i] = s[i]
        /\ Append(s, e)[Len(s) + 1] = e
    BY <1>3
  <1>5. Len(s) \in Nat /\ DOMAIN s = 1..Len(s)
    BY <1>3
  <1>6. ASSUME s # <<>>
        PROVE  /\ Head(s) = s[1] /\ 1 \in DOMAIN s
               /\ Tail(s) \in Seq(T)
               /\ \A i \in DOMAIN Tail(s) :
                    i + 1 \in DOMAIN s /\ Tail(s)[i] = s[i + 1]
    BY <1>3, <1>6
  <1> HIDE DEF T
  <1>7. QED
    BY <1>4, <1>5, <1>6 DEF IsSequence

(* A set of numbers up to n has a greatest one, unless it is empty. *)
LEMMA GreatestNumber ==
  ASSUME NEW n \in Nat, NEW T, T \subseteq 1..n, T # {}
  PROVE  \E g \in T : \A m \in T : m <= g
  <1> DEFINE U == {n - t : t \in T}
  <1>1. U \subseteq Nat /\ U # {}
    OBVIOUS
  <1> HIDE DEF U
  <1>2. PICK u \in U : \A k \in U : <<k, u>> \notin OpToRel(<, Nat)
    BY <1>1, WFMin, NatLessThanWellFounded, Zenon
  <1>3. \A k \in U : ~(k < u)
    BY <1>1, <1>2, Zenon DEF OpToRel
  <1>4. PICK g \in T : u = n - g
    BY DEF U
  <1>5. \A m \in T : ~(n - m < n - g)
    BY <1>3, <1>4 DEF U
  <1>6. QED
    BY <1>4, <1>5

LEMMA LatestIsOne ==
  ASSUME IsSequence(log), NEW fence, NEW action, ObservedAfter(fence, action) # {}
  PROVE  /\ Latest(ObservedAfter(fence, action)) \in DOMAIN log
         /\ Latest(ObservedAfter(fence, action)) > fence
         /\ log[Latest(ObservedAfter(fence, action))] = action
  <1> DEFINE R == ObservedAfter(fence, action)
  <1>1. R # {} /\ R \subseteq DOMAIN log /\ \A r \in R : r > fence /\ log[r] = action
    BY DEF ObservedAfter, RecentActions
  <1>2. Len(log) \in Nat /\ DOMAIN log = 1..Len(log)
    BY SequenceSteps
  <1>3. \E r \in R : \A s \in R : s <= r
    <2> HIDE DEF R
    <2>1. QED
      BY <1>1, <1>2, GreatestNumber
  <1>4. Latest(R) \in R
    BY <1>3 DEF Latest
  <1>5. QED
    BY <1>1, <1>4
-----------------------------------------------------------------------------
(* An active step has seen no evidence: what ends it is what counts as such. *)
EvidenceInv == evidence = FALSE

(* Every body that says that the player moved or was obstructed ends a step. *)
LEMMA MovementEndsStep ==
  ASSUME NEW a, a.intent \in {"Step", "Obstructed"}, NEW b \in ActBodies(a)
  PROVE  IsStepBody(b)
  <1>1. b \in NativeBodies(a)
    BY DEF ActBodies
  <1>2. CASE a.intent = "Step"
    <2>1. \/ b = <<50, a.direction, 7, 80>> \o U16Bytes(a.x)
                   \o U16Bytes(a.y) \o OneBytes(2)
          \/ b = <<6, a.direction, 7, 80>> \o U16Bytes(a.x)
                   \o U16Bytes(a.y) \o OneBytes(9)
      BY <1>1, <1>2 DEF NativeBodies
    <2>2. QED
      BY <2>1 DEF IsStepBody, U16Bytes, OneBytes
  <1>3. CASE a.intent = "Obstructed"
    <2>1. b = <<105>> \o U16Bytes(a.x) \o U16Bytes(a.y)
                \o <<a.direction, 0>>
      BY <1>1, <1>3 DEF NativeBodies
    <2>2. QED
      BY <2>1 DEF IsStepBody, U16Bytes
  <1>4. QED
    BY <1>2, <1>3

(* The client's own bodies: a movement during a step ends the step. *)
LEMMA ClientSendsKeeps ==
  ASSUME EvidenceInv, NEW a, ClientSends(a) PROVE EvidenceInv'
  <1>1. PICK b \in ActBodies(a) :
          /\ NoteStep(b)
          /\ evidence' = (Active(step') /\ (evidence
                                      \/ a.intent \in {"Step", "Obstructed"}))
    BY DEF ClientSends
  <1>2. CASE a.intent \in {"Step", "Obstructed"}
    <2>1. IsStepBody(b)
      BY <1>2, MovementEndsStep
    <2>2. ~Active(step')
      <3>1. ~Active(NoStep)
        BY DEF Active, NoStep
      <3>2. step' = NoStep \/ (step' = step /\ ~Active(step))
        BY <1>1, <2>1 DEF NoteStep
      <3>3. QED
        BY <3>1, <3>2
    <2>3. QED
      BY <1>1, <2>2 DEF EvidenceInv
  <1>3. CASE a.intent \notin {"Step", "Obstructed"}
    BY <1>1, <1>3 DEF EvidenceInv
  <1>4. QED
    BY <1>2, <1>3

LEMMA IntentsKeepEvidence ==
  ASSUME EvidenceInv, NextIntents PROVE EvidenceInv'
  <1>1. ASSUME TakeKey PROVE EvidenceInv'
    <2>1. CASE \E a \in ActsOf(Head(posted)) : ClientSends(a)
      BY <2>1, ClientSendsKeeps
    <2>2. CASE UNCHANGED evidence
      BY <2>2 DEF EvidenceInv
    <2>3. QED
      BY <1>1, <2>1, <2>2 DEF TakeKey
  <1>2. ASSUME ByHand PROVE EvidenceInv'
    BY <1>2, ClientSendsKeeps DEF ByHand
  <1>3. ASSUME NEW d, BeginStep(d) PROVE EvidenceInv'
    BY <1>3 DEF BeginStep, EvidenceInv
  <1>4. ASSUME UNCHANGED evidence PROVE EvidenceInv'
    BY <1>4 DEF EvidenceInv
  <1>5. QED
    BY <1>1, <1>2, <1>3, <1>4
       DEF NextIntents, KeyIntent, Timers, RetryStep, LateTimer, BeginCast, BeginUse,
           BeginRefresh, PerformPlain, WakeAgain, CastLetter, UseLetter, UseElapses, Flush, Reduce

LEMMA CallKeepsEvidence ==
  ASSUME EvidenceInv, Confirm \/ FaceAndAttack \/ GiveUp PROVE EvidenceInv'
  <1>1. ASSUME NEW a, NEW next, Performs(a, next) PROVE EvidenceInv'
    BY <1>1 DEF Performs, EvidenceInv
  <1>2. ASSUME Rest PROVE EvidenceInv'
    BY <1>2 DEF Rest, EvidenceInv
  <1>3. CASE Confirm
    BY <1>1, <1>2, <1>3 DEF Confirm, Subscribe, Dispatch, ConfirmAccepted, Accepted,
                            Confirms, ConfirmElapses
  <1>4. CASE FaceAndAttack
    BY <1>1, <1>2, <1>4 DEF FaceAndAttack, BeginAttack, FacingRetained, FacingDiffers,
         Turn, TurnAccepted, Accepted, TurnObserved, TurnElapses, TurnStruck,
         TurnDidNotStrike, Fence, Strike, StrikeAccepted, StrikeObserved, StrikeElapses
  <1>5. CASE GiveUp
    BY <1>2, <1>5 DEF GiveUp
  <1>6. QED
    BY <1>3, <1>4, <1>5

-----------------------------------------------------------------------------
(* What is known of a call, by its phase.  Its anchor and its fence are     *)
(* revisions that were there, and the facing it has kept is evidence from   *)
(* between them.                                                            *)
Facings == [how : {"submitted", "retained", "observed"}, revision : Nat]

ConfirmCalls ==
  [kind : {"confirm"}, phase : {"subscribed", "sending", "confirming"},
   start : Nat, intent : {c.intent : c \in Confirmed},
   query : {c.query : c \in Confirmed}]

(* The phases before the turn is settled, before the fence, and after it.   *)
Looking == {"looking", "off", "turning", "awaiting turn"}
Turning == {"checking", "fencing"}
Striking == {"striking", "attacking", "awaiting attack"}

AttackCalls(phases) ==
  [kind : {"attack"}, phase : phases, start : Nat, fence : Nat,
   direction : Attacks, facing : Facings]

(* The facing is evidence of a turn after the start and up to a revision.   *)
FacingBy(revision) ==
  /\ call.facing.how = "observed" =>
       /\ call.start < call.facing.revision /\ call.facing.revision <= revision
       /\ log[call.facing.revision] = Turned
  /\ call.facing.how = "retained" =>
       \E r \in call.start..revision : FacingAt(r) = Turned.direction

ReportInv ==
  /\ call.phase = "reported" /\ ReportIsEvidence
  /\ call.kind = "attack" => /\ {call.start, call.attack} \subseteq 0..Revision
                             /\ call.facing \in Facings
  /\ call.kind # "attack" => /\ call.start \in Nat
                             /\ call.revision \in 1..Revision

CallInv ==
  \/ call.phase \in {"idle", "failed"}
  \/ call \in ConfirmCalls
  \/ /\ call \in AttackCalls(Looking)
     /\ call.start <= Revision /\ call.facing = NoTurn
  \/ /\ call \in AttackCalls(Turning)
     /\ call.start <= Revision /\ FacingBy(Revision)
  \/ /\ call \in AttackCalls(Striking)
     /\ call.start <= call.fence /\ call.fence <= Revision
     /\ FacingBy(call.fence)
  \/ ReportInv

LogInv == IsSequence(log)

(* The log only grows. *)
LogGrows ==
  /\ IsSequence(log') /\ Len(log') >= Len(log)
  /\ \A i \in DOMAIN log : i \in DOMAIN log' /\ log'[i] = log[i]

LEMMA IntentsGrowLog ==
  ASSUME LogInv, NextIntents PROVE LogGrows
  <1>1. UNCHANGED log \/ Reduce
    BY DEF NextIntents, KeyIntent, Timers, BeginStep, RetryStep, LateTimer, BeginCast,
           BeginUse, BeginRefresh, PerformPlain, WakeAgain, CastLetter, UseLetter, UseElapses,
           Flush, TakeKey, ByHand, world
  <1>2. CASE UNCHANGED log
    BY <1>2, SequenceSteps DEF LogInv, LogGrows
  <1>3. CASE Reduce
    <2>1. log' = Append(log, Head(flight).seen)
      BY <1>3 DEF Reduce
    <2> DEFINE e == Head(flight).seen
    <2>2. log' = Append(log, e)
      BY <2>1
    <2> HIDE DEF e
    <2>3. /\ Len(log) \in Nat /\ DOMAIN log = 1..Len(log) /\ IsSequence(log')
          /\ Len(log') = Len(log) + 1
          /\ \A i \in DOMAIN log : log'[i] = log[i]
      BY <2>2, SequenceSteps DEF LogInv
    <2>4. DOMAIN log' = 1..(Len(log) + 1)
      BY <2>3, SequenceSteps
    <2>5. QED
      BY <2>3, <2>4 DEF LogGrows
  <1>4. QED
    BY <1>1, <1>2, <1>3

(* What was faced at a revision does not change. *)
LEMMA FacingIsKept ==
  ASSUME LogInv, LogGrows, NEW r \in Nat, r <= Revision
  PROVE  FacingAt(r)' = FacingAt(r)
  <1> DEFINE turns(l) ==
               {s \in 1..r : l[s].action \in {"Face", "Step", "Obstruction"}}
  <1>1. Len(log) \in Nat /\ DOMAIN log = 1..Len(log)
    BY SequenceSteps DEF LogInv
  <1>2. \A s \in 1..r : log'[s] = log[s]
    BY <1>1 DEF LogGrows, Revision
  <1>3. turns(log') = turns(log)
    BY <1>2
  <1>4. ASSUME turns(log) # {}
        PROVE  (CHOOSE s \in turns(log) : \A t \in turns(log) : t <= s) \in 1..r
    <2>1. \E s \in turns(log) : \A t \in turns(log) : t <= s
      <3>1. turns(log) \subseteq 1..r
        OBVIOUS
      <3> HIDE DEF turns
      <3>2. QED
        BY <1>4, <3>1, GreatestNumber
    <2>2. QED
      BY <2>1
  <1>5. FacingAt(r) = IF turns(log) = {} THEN "unknown"
                      ELSE log[CHOOSE s \in turns(log) :
                                 \A t \in turns(log) : t <= s].direction
    BY DEF FacingAt
  <1>6. FacingAt(r)' = IF turns(log') = {} THEN "unknown"
                       ELSE log'[CHOOSE s \in turns(log') :
                                  \A t \in turns(log') : t <= s].direction
    BY DEF FacingAt
  <1> HIDE DEF turns
  <1>7. QED
    BY <1>2, <1>3, <1>4, <1>5, <1>6

LEMMA FacingByIsKept ==
  ASSUME LogInv, LogGrows, UNCHANGED call, NEW r \in Nat, r <= Revision,
         call.facing \in Facings, call.start \in Nat, FacingBy(r)
  PROVE  FacingBy(r)'
  <1>1. Len(log) \in Nat /\ DOMAIN log = 1..Len(log)
    BY SequenceSteps DEF LogInv
  <1>2. ASSUME call.facing.how = "observed"
        PROVE  /\ call.start < call.facing.revision /\ call.facing.revision <= r
               /\ log'[call.facing.revision] = Turned
    <2>1. call.facing.revision \in DOMAIN log
      BY <1>1, <1>2 DEF FacingBy, Facings, Revision
    <2>2. QED
      BY <1>2, <2>1 DEF FacingBy, LogGrows
  <1>3. ASSUME call.facing.how = "retained"
        PROVE  \E s \in call.start..r : FacingAt(s)' = Turned.direction
    <2>1. PICK s \in call.start..r : FacingAt(s) = Turned.direction
      BY <1>3 DEF FacingBy
    <2>2. s \in Nat /\ s <= Revision
      BY <1>1 DEF Revision
    <2>3. QED
      BY <2>1, <2>2, FacingIsKept
  <1>4. Turned' = Turned
    BY DEF Turned
  <1>5. QED
    BY <1>2, <1>3, <1>4 DEF FacingBy

LEMMA Transitive ==
  ASSUME NEW a \in Nat, NEW b \in Nat, NEW c \in Nat, a <= b, b <= c
  PROVE  a <= c
  OBVIOUS

LEMMA GrowthKeepsCallInv ==
  ASSUME LogInv, LogGrows, UNCHANGED call, CallInv PROVE CallInv'
  <1>1. /\ Len(log) \in Nat /\ DOMAIN log = 1..Len(log)
        /\ Revision \in Nat /\ Revision' \in Nat /\ Revision <= Revision'
    BY SequenceSteps DEF LogInv, LogGrows, Revision
  <1>2. CASE call.phase \in {"idle", "failed"} \/ call \in ConfirmCalls
    BY <1>2 DEF CallInv, ConfirmCalls
  <1>3. CASE /\ call \in AttackCalls(Looking)
             /\ call.start <= Revision /\ call.facing = NoTurn
    <2>1. call.start <= Revision'
      <3>1. call.start \in Nat
        BY <1>3 DEF AttackCalls
      <3>2. QED
        BY <1>1, <1>3, <3>1, Transitive
    <2>2. /\ call' \in AttackCalls(Looking)
          /\ call'.start <= Revision' /\ call'.facing = NoTurn
      BY <1>3, <2>1
    <2>3. QED
      BY <2>2 DEF CallInv, NoTurn
  <1>4. CASE /\ call \in AttackCalls(Turning)
             /\ call.start <= Revision /\ FacingBy(Revision)
    <2>1. call.start \in Nat /\ call.facing \in Facings
      BY <1>4 DEF AttackCalls
    <2> DEFINE r == Revision
    <2>2. FacingBy(r) /\ r \in Nat /\ r <= Revision
      BY <1>1, <1>4
    <2>3. PICK q \in Nat : q = Revision
      BY <1>1
    <2>4. FacingBy(q)'
      BY <1>1, <1>4, <2>1, <2>3, FacingByIsKept
    <2>5. FacingBy(Revision)'
      BY <1>1, <2>1, <2>3, <2>4 DEF FacingBy, Facings
    <2>6. /\ call' \in AttackCalls(Turning)
          /\ call'.start <= Revision' /\ FacingBy(Revision)'
      BY <1>1, <1>4, <2>1, <2>5
    <2>7. QED
      BY <2>6 DEF CallInv
  <1>5. CASE /\ call \in AttackCalls(Striking)
             /\ call.start <= call.fence /\ call.fence <= Revision
             /\ FacingBy(call.fence)
    <2>1. call.start \in Nat /\ call.fence \in Nat /\ call.facing \in Facings
      BY <1>5 DEF AttackCalls
    <2>2. PICK q \in Nat : q = call.fence
      BY <2>1
    <2>3. FacingBy(q)'
      BY <1>5, <2>1, <2>2, FacingByIsKept
    <2>4. FacingBy(call.fence)'
      BY <2>2, <2>3 DEF FacingBy
    <2>5. /\ call' \in AttackCalls(Striking)
          /\ call'.start <= call'.fence /\ call'.fence <= Revision'
          /\ FacingBy(call.fence)'
      <3>1. call.fence <= Revision'
        BY <1>1, <1>5, <2>1, Transitive
      <3>2. QED
        BY <1>5, <2>4, <3>1
    <2>6. QED
      BY <2>5 DEF CallInv
  <1>6. CASE ReportInv
    <2>1. CASE call.kind = "attack"
      <3>1. /\ {call.start, call.attack} \subseteq 0..Revision
            /\ call.facing \in Facings
            /\ call.attack > call.start /\ log[call.attack] = Struck
            /\ call.facing.how = "observed" =>
                 /\ call.start < call.facing.revision
                 /\ call.facing.revision < call.attack
                 /\ log[call.facing.revision] = Turned
            /\ call.facing.how = "retained" =>
                 \E r \in call.start..call.attack : FacingAt(r) = Turned.direction
            /\ call.phase = "reported"
        BY <1>6, <2>1 DEF ReportInv, ReportIsEvidence
      <3>2. call.attack \in DOMAIN log /\ log'[call.attack] = Struck
        BY <1>1, <3>1 DEF LogGrows, Revision
      <3>3. ASSUME call.facing.how = "observed"
            PROVE  log'[call.facing.revision] = Turned
        BY <1>1, <3>1, <3>3 DEF LogGrows, Revision, Facings
      <3>4. ASSUME call.facing.how = "retained"
            PROVE  \E r \in call.start..call.attack : FacingAt(r)' = Turned.direction
        <4>1. PICK r \in call.start..call.attack : FacingAt(r) = Turned.direction
          BY <3>1, <3>4
        <4>2. r \in Nat /\ r <= Revision
          BY <1>1, <3>1
        <4>3. QED
          BY <4>1, <4>2, FacingIsKept
      <3>5. Turned' = Turned /\ Struck' = Struck
        BY DEF Turned, Struck
      <3>6. ReportIsEvidence'
        BY <2>1, <3>1, <3>2, <3>3, <3>4, <3>5 DEF ReportIsEvidence
      <3>7. {call.start, call.attack} \subseteq 0..Revision'
        BY <1>1, <3>1
      <3>8. QED
        BY <2>1, <3>1, <3>6, <3>7 DEF CallInv, ReportInv
    <2>2. CASE call.kind # "attack"
      <3>1. /\ call.phase = "reported" /\ call.start \in Nat
            /\ call.revision \in 1..Revision /\ call.revision > call.start
            /\ call.query.query = "facing" =>
                 FacingAt(call.revision) = call.query.direction
        BY <1>6, <2>2 DEF ReportInv, ReportIsEvidence
      <3>2. PICK r \in Nat : r = call.revision /\ r <= Revision
        BY <1>1, <3>1
      <3>3. FacingAt(r)' = FacingAt(r)
        BY <3>2, FacingIsKept
      <3>4. FacingAt(call.revision)' = FacingAt(call.revision)
        BY <3>2, <3>3 DEF FacingAt
      <3>5. ReportIsEvidence'
        BY <2>2, <3>1, <3>4 DEF ReportIsEvidence
      <3>6. call.revision \in 1..Revision'
        BY <1>1, <3>1
      <3>7. QED
        BY <2>2, <3>1, <3>5, <3>6 DEF CallInv, ReportInv
    <2>3. QED
      BY <2>1, <2>2
  <1>7. QED
    BY <1>2, <1>3, <1>4, <1>5, <1>6 DEF CallInv

-----------------------------------------------------------------------------
(* What each phase says, read off CallInv. *)
LEMMA KnownCall ==
  ASSUME CallInv
  PROVE  /\ call.phase \in {"subscribed", "sending", "confirming"} => call \in ConfirmCalls
         /\ call.phase \in Looking =>
              call \in AttackCalls(Looking) /\ call.start <= Revision /\ call.facing = NoTurn
         /\ call.phase \in Turning =>
              call \in AttackCalls(Turning) /\ call.start <= Revision /\ FacingBy(Revision)
         /\ call.phase \in Striking =>
              /\ call \in AttackCalls(Striking)
              /\ call.start <= call.fence /\ call.fence <= Revision /\ FacingBy(call.fence)
  BY DEF CallInv, ConfirmCalls, AttackCalls, ReportInv, Looking, Turning, Striking

(* The other way round, for the call of the next state. *)
LEMMA CallIsKnown ==
  ASSUME \/ call'.phase \in {"idle", "failed"}
         \/ call' \in ConfirmCalls
         \/ /\ call' \in AttackCalls(Looking)
            /\ call'.start <= Revision' /\ call'.facing = NoTurn
         \/ /\ call' \in AttackCalls(Turning)
            /\ call'.start <= Revision' /\ FacingBy(Revision)'
         \/ /\ call' \in AttackCalls(Striking)
            /\ call'.start <= call'.fence /\ call'.fence <= Revision'
            /\ FacingBy(call.fence)'
         \/ ReportInv'
  PROVE  CallInv'
  <1>1. NoTurn' = NoTurn
    BY DEF NoTurn
  <1>2. QED
    BY <1>1 DEF CallInv, Looking, Turning, Striking, ConfirmCalls, AttackCalls, Facings

LEMMA LogLength ==
  ASSUME LogInv
  PROVE  Revision \in Nat /\ Len(log) \in Nat /\ DOMAIN log = 1..Revision
  BY SequenceSteps DEF LogInv, Revision

LEMMA FacingStays ==
  ASSUME UNCHANGED log, NEW r PROVE FacingAt(r)' = FacingAt(r)
  BY DEF FacingAt

LEMMA SameFacing ==
  ASSUME UNCHANGED log, NEW r, FacingBy(r), call'.facing = call.facing,
         call'.start = call.start, call'.direction = call.direction
  PROVE  FacingBy(r)'
  <1>1. Turned' = Turned
    BY DEF Turned
  <1>2. \A s : FacingAt(s)' = FacingAt(s)
    BY FacingStays
  <1>3. QED
    BY <1>1, <1>2 DEF FacingBy

LEMMA FailKeepsCallInv ==
  ASSUME Fail PROVE CallInv'
  BY CallIsKnown DEF Fail

(* A call that only moves from one phase to the next one of its group. *)
LEMMA PhaseKeepsCallInv ==
  ASSUME LogInv, CallInv, UNCHANGED log, NEW next, call' = [call EXCEPT !.phase = next],
         \/ /\ call.phase \in {"subscribed", "sending", "confirming"}
            /\ next \in {"subscribed", "sending", "confirming"}
         \/ call.phase \in Looking /\ next \in Looking
         \/ call.phase \in Turning /\ next \in Turning
         \/ call.phase \in Striking /\ next \in Striking
  PROVE  CallInv'
  <1>1. Revision' = Revision
    BY DEF Revision
  <1>2. CASE call.phase \in {"subscribed", "sending", "confirming"}
             /\ next \in {"subscribed", "sending", "confirming"}
    <2>1. call \in ConfirmCalls
      BY <1>2, KnownCall
    <2>2. call' \in ConfirmCalls
      BY <1>2, <2>1 DEF ConfirmCalls
    <2>3. QED
      BY <2>2, CallIsKnown
  <1>3. CASE call.phase \in Looking /\ next \in Looking
    <2>1. call \in AttackCalls(Looking) /\ call.start <= Revision /\ call.facing = NoTurn
      BY <1>3, KnownCall
    <2>2. /\ call' \in AttackCalls(Looking)
          /\ call'.start <= Revision' /\ call'.facing = NoTurn
      BY <1>1, <1>3, <2>1 DEF AttackCalls
    <2>3. QED
      BY <2>2, CallIsKnown
  <1>4. CASE call.phase \in Turning /\ next \in Turning
    <2>1. call \in AttackCalls(Turning) /\ call.start <= Revision /\ FacingBy(Revision)
      BY <1>4, KnownCall
    <2>2. /\ call' \in AttackCalls(Turning) /\ call'.start <= Revision'
          /\ call'.facing = call.facing /\ call'.start = call.start
          /\ call'.direction = call.direction
      BY <1>1, <1>4, <2>1 DEF AttackCalls
    <2>3. PICK r : r = Revision
      OBVIOUS
    <2>4. FacingBy(r)'
      BY <2>1, <2>2, <2>3, SameFacing
    <2>5. FacingBy(Revision)'
      BY <1>1, <2>3, <2>4 DEF FacingBy
    <2>6. QED
      BY <2>2, <2>5, CallIsKnown
  <1>5. CASE call.phase \in Striking /\ next \in Striking
    <2>1. /\ call \in AttackCalls(Striking) /\ call.start <= call.fence
          /\ call.fence <= Revision /\ FacingBy(call.fence)
      BY <1>5, KnownCall
    <2>2. /\ call' \in AttackCalls(Striking) /\ call'.start <= call'.fence
          /\ call'.fence <= Revision' /\ call'.fence = call.fence
          /\ call'.facing = call.facing /\ call'.start = call.start
          /\ call'.direction = call.direction
      BY <1>1, <1>5, <2>1 DEF AttackCalls
    <2>3. PICK r : r = call.fence
      OBVIOUS
    <2>4. FacingBy(r)'
      BY <2>1, <2>2, <2>3, SameFacing
    <2>5. FacingBy(call.fence)'
      BY <2>2, <2>3, <2>4 DEF FacingBy
    <2>6. QED
      BY <2>2, <2>5, CallIsKnown
  <1>6. QED
    BY <1>2, <1>3, <1>4, <1>5

-----------------------------------------------------------------------------
LEMMA CallKeepsLog ==
  ASSUME Confirm \/ FaceAndAttack \/ GiveUp PROVE UNCHANGED <<log, performed>>
  <1>1. ASSUME NEW a, NEW next, Performs(a, next) PROVE UNCHANGED <<log, performed>>
    BY <1>1 DEF Performs, world
  <1>2. ASSUME Rest PROVE UNCHANGED <<log, performed>>
    BY <1>2 DEF Rest, world
  <1>3. CASE Confirm
    BY <1>1, <1>2, <1>3 DEF Confirm, Subscribe, Dispatch, ConfirmAccepted, Accepted,
                            Confirms, ConfirmElapses
  <1>4. CASE FaceAndAttack
    BY <1>1, <1>2, <1>4 DEF FaceAndAttack, BeginAttack, FacingRetained, FacingDiffers,
         Turn, TurnAccepted, Accepted, TurnObserved, TurnElapses, TurnStruck,
         TurnDidNotStrike, Fence, Strike, StrikeAccepted, StrikeObserved, StrikeElapses
  <1>5. CASE GiveUp
    BY <1>2, <1>5 DEF GiveUp
  <1>6. QED
    BY <1>3, <1>4, <1>5

LEMMA PerformsKeepsCallInv ==
  ASSUME LogInv, CallInv, UNCHANGED log, NEW a, NEW next, Performs(a, next),
         \/ call.phase = "subscribed" /\ next = "sending"
         \/ call.phase \in Looking /\ next \in Looking
         \/ call.phase \in Striking /\ next \in Striking
  PROVE  CallInv'
  BY FailKeepsCallInv, PhaseKeepsCallInv DEF Performs

(* Confirm::run: the snapshot that answers is later than the anchor. *)
LEMMA ConfirmKeepsCallInv ==
  ASSUME LogInv, CallInv, UNCHANGED log, Confirm PROVE CallInv'
  <1>1. ASSUME NEW c \in Confirmed, Subscribe(c) PROVE CallInv'
    <2>1. call' \in ConfirmCalls
      BY <1>1, LogLength DEF Subscribe, ConfirmCalls
    <2>2. QED
      BY <2>1, CallIsKnown
  <1>2. CASE Dispatch
    BY <1>2, PerformsKeepsCallInv DEF Dispatch
  <1>3. CASE ConfirmAccepted
    BY <1>3, PhaseKeepsCallInv DEF ConfirmAccepted, Accepted
  <1>4. CASE Confirms
    <2>1. PICK output \in And(AfterRevision(call.start, Revision),
                              Evaluate(call.query, Revision)) :
            call' = [kind |-> "confirm", phase |-> "reported", start |-> call.start,
                     query |-> call.query, revision |-> Revision, value |-> output]
      BY <1>4 DEF Confirms
    <2>2. /\ AfterRevision(call.start, Revision) # {}
          /\ Evaluate(call.query, Revision) # {}
      BY <2>1 DEF And
    <2>3. call.start \in Nat
      BY <1>4, KnownCall DEF Confirms, ConfirmCalls
    <2>4. Revision \in Nat /\ Revision > call.start
      BY <2>2, <2>3, LogLength DEF AfterRevision
    <2>5. call.query.query = "facing" => FacingAt(Revision) = call.query.direction
      BY <2>2 DEF Evaluate
    <2>6. PICK r : r = Revision
      OBVIOUS
    <2>7. FacingAt(r)' = FacingAt(r)
      BY FacingStays
    <2>8. FacingAt(call.revision)' = FacingAt(Revision)
      BY <2>1, <2>6, <2>7 DEF FacingAt
    <2>9. Revision' = Revision
      BY DEF Revision
    <2>10. ReportInv'
      BY <2>1, <2>3, <2>4, <2>5, <2>8, <2>9 DEF ReportInv, ReportIsEvidence
    <2>11. QED
      BY <2>10, CallIsKnown
  <1>5. CASE ConfirmElapses
    BY <1>5, FailKeepsCallInv DEF ConfirmElapses
  <1>6. QED
    BY <1>1, <1>2, <1>3, <1>4, <1>5 DEF Confirm

(* face_and_attack, up to the question whether the turn struck. *)
LEMMA TurnKeepsCallInv ==
  ASSUME LogInv, CallInv, UNCHANGED log,
         \/ \E d \in Attacks : BeginAttack(d)
         \/ FacingRetained \/ FacingDiffers \/ Turn \/ TurnAccepted \/ TurnObserved
         \/ TurnElapses
  PROVE  CallInv'
  <1>1. Revision \in Nat /\ DOMAIN log = 1..Revision /\ Revision' = Revision
    BY LogLength DEF Revision
  <1>2. ASSUME call.phase \in Looking
        PROVE  /\ call \in AttackCalls(Looking) /\ call.start <= Revision
               /\ call.start \in Nat
    BY <1>2, KnownCall DEF AttackCalls
  <1>3. ASSUME NEW d \in Attacks, BeginAttack(d) PROVE CallInv'
    <2>1. /\ call' \in AttackCalls(Looking)
          /\ call'.start <= Revision' /\ call'.facing = NoTurn
      BY <1>1, <1>3 DEF BeginAttack, AttackCalls, Looking, NoTurn, Facings
    <2>2. QED
      BY <2>1, CallIsKnown
  <1>4. CASE FacingRetained
    <2>1. /\ call.phase = "looking" /\ FacingAt(Revision) = Turned.direction
          /\ call' = [call EXCEPT !.phase = "fencing",
                                  !.facing = [NoTurn EXCEPT !.how = "retained"]]
      BY <1>4 DEF FacingRetained
    <2>2. call \in AttackCalls(Looking) /\ call.start <= Revision /\ call.start \in Nat
      BY <1>2, <2>1 DEF Looking
    <2>3. /\ call' \in AttackCalls(Turning) /\ call'.start = call.start
          /\ call'.facing = [how |-> "retained", revision |-> 0]
          /\ call'.direction = call.direction
      BY <2>1, <2>2 DEF AttackCalls, Turning, NoTurn, Facings
    <2>4. Turned'.direction = Turned.direction
      BY <2>3 DEF Turned
    <2>5. PICK r : r = Revision
      OBVIOUS
    <2>6. FacingAt(r)' = Turned'.direction
      BY <2>1, <2>4, <2>5, FacingStays
    <2>7. r \in call'.start..Revision'
      BY <1>1, <2>2, <2>3, <2>5
    <2>8. FacingBy(Revision)'
      BY <2>3, <2>6, <2>7 DEF FacingBy
    <2>9. QED
      BY <1>1, <2>2, <2>3, <2>8, CallIsKnown
  <1>5. CASE FacingDiffers
    BY <1>5, PhaseKeepsCallInv DEF FacingDiffers, Looking
  <1>6. CASE Turn
    BY <1>6, PerformsKeepsCallInv DEF Turn, Looking
  <1>7. CASE TurnAccepted
    BY <1>7, PhaseKeepsCallInv DEF TurnAccepted, Accepted, Looking
  <1>8. CASE TurnObserved
    <2> DEFINE seen == Latest(ObservedAfter(call.start, Turned))
    <2>1. /\ call.phase = "awaiting turn" /\ ObservedAfter(call.start, Turned) # {}
          /\ call' = [call EXCEPT !.phase = "checking",
                        !.facing = [how |-> "observed", revision |-> seen]]
      BY <1>8 DEF TurnObserved
    <2>2. call \in AttackCalls(Looking) /\ call.start <= Revision /\ call.start \in Nat
      BY <1>2, <2>1 DEF Looking
    <2>3. seen \in 1..Revision /\ seen > call.start /\ log[seen] = Turned
      BY <1>1, <2>1, LatestIsOne DEF LogInv
    <2> HIDE DEF seen
    <2>4. /\ call' \in AttackCalls(Turning) /\ call'.start = call.start
          /\ call'.facing = [how |-> "observed", revision |-> seen]
          /\ call'.direction = call.direction
      <3> DEFINE facing == [how |-> "observed", revision |-> seen]
      <3>1. facing \in Facings
        BY <1>1, <2>3 DEF Facings
      <3>2. call' = [call EXCEPT !.phase = "checking", !.facing = facing]
        BY <2>1
      <3> HIDE DEF facing
      <3>3. /\ call' \in AttackCalls(Turning) /\ call'.start = call.start
            /\ call'.facing = facing /\ call'.direction = call.direction
        BY <2>2, <3>1, <3>2 DEF AttackCalls, Turning
      <3>4. QED
        BY <3>3 DEF facing
    <2>5. Turned' = Turned
      BY <2>4 DEF Turned
    <2>6. FacingBy(Revision)'
      BY <1>1, <2>2, <2>3, <2>4, <2>5 DEF FacingBy
    <2>7. QED
      BY <1>1, <2>2, <2>4, <2>6, CallIsKnown
  <1>9. CASE TurnElapses
    <2>1. /\ call.phase = "awaiting turn"
          /\ call' = [call EXCEPT !.phase = "checking", !.facing = NoTurn]
      BY <1>9 DEF TurnElapses
    <2>2. call \in AttackCalls(Looking) /\ call.start <= Revision
      BY <1>2, <2>1 DEF Looking
    <2>3. /\ call' \in AttackCalls(Turning) /\ call'.start = call.start
          /\ call'.facing = [how |-> "submitted", revision |-> 0]
      BY <2>1, <2>2 DEF AttackCalls, Turning, NoTurn, Facings
    <2>4. FacingBy(Revision)'
      BY <2>3 DEF FacingBy
    <2>5. QED
      BY <1>1, <2>2, <2>3, <2>4, CallIsKnown
  <1>10. QED
    BY <1>3, <1>4, <1>5, <1>6, <1>7, <1>8, <1>9

-----------------------------------------------------------------------------
(* face_and_attack, from there: the attack it reports is later than the     *)
(* fence, and the fence is not before the facing.                           *)
LEMMA StrikeKeepsCallInv ==
  ASSUME LogInv, CallInv, UNCHANGED log,
         \/ TurnStruck \/ TurnDidNotStrike \/ Fence \/ Strike \/ StrikeAccepted
         \/ StrikeObserved \/ StrikeElapses
  PROVE  CallInv'
  <1>1. Revision \in Nat /\ DOMAIN log = 1..Revision /\ Revision' = Revision
    BY LogLength DEF Revision
  <1>2. Struck' = Struck
    BY DEF Struck
  <1>3. CASE TurnStruck
    <2> DEFINE seen == Latest(ObservedAfter(call.start, Struck))
    <2>1. call.phase = "checking" /\ ObservedAfter(call.start, Struck) # {}
      BY <1>3 DEF TurnStruck
    <2>2. call' = [kind |-> "attack", phase |-> "reported", start |-> call.start,
                   direction |-> call.direction, facing |-> NoTurn, attack |-> seen]
      BY <1>3 DEF TurnStruck, Reports
    <2>3. call \in AttackCalls(Turning)
      BY <2>1, KnownCall DEF Turning
    <2>4. call.start \in Nat
      BY <2>3 DEF AttackCalls
    <2>5. seen \in 1..Revision /\ seen > call.start /\ log[seen] = Struck
      BY <1>1, <2>1, LatestIsOne DEF LogInv
    <2> HIDE DEF seen
    <2>6. ReportInv'
      BY <1>1, <1>2, <2>2, <2>4, <2>5 DEF ReportInv, ReportIsEvidence, NoTurn, Facings
    <2>7. QED
      BY <2>6, CallIsKnown
  <1>4. CASE TurnDidNotStrike
    BY <1>4, PhaseKeepsCallInv DEF TurnDidNotStrike, Turning
  <1>5. CASE Fence
    <2>1. /\ call.phase = "fencing"
          /\ call' = [call EXCEPT !.phase = "striking", !.fence = Revision]
      BY <1>5 DEF Fence
    <2>2. call \in AttackCalls(Turning) /\ call.start <= Revision /\ FacingBy(Revision)
      BY <2>1, KnownCall DEF Turning
    <2>3. /\ call' \in AttackCalls(Striking) /\ call'.fence = Revision
          /\ call'.facing = call.facing /\ call'.start = call.start
          /\ call'.direction = call.direction
      BY <1>1, <2>1, <2>2 DEF AttackCalls, Striking
    <2>4. PICK r : r = Revision
      OBVIOUS
    <2>5. FacingBy(r)'
      BY <2>2, <2>3, <2>4, SameFacing
    <2>6. FacingBy(call.fence)'
      BY <2>3, <2>4, <2>5 DEF FacingBy
    <2>7. QED
      BY <1>1, <2>2, <2>3, <2>6, CallIsKnown
  <1>6. CASE Strike
    BY <1>6, PerformsKeepsCallInv DEF Strike, Striking
  <1>7. CASE StrikeAccepted
    BY <1>7, PhaseKeepsCallInv DEF StrikeAccepted, Accepted, Striking
  <1>8. CASE StrikeObserved
    <2> DEFINE seen == Latest(ObservedAfter(call.fence, Struck))
    <2>1. call.phase = "awaiting attack" /\ ObservedAfter(call.fence, Struck) # {}
      BY <1>8 DEF StrikeObserved
    <2>2. call' = [kind |-> "attack", phase |-> "reported", start |-> call.start,
                   direction |-> call.direction, facing |-> call.facing, attack |-> seen]
      BY <1>8 DEF StrikeObserved, Reports
    <2>3. /\ call \in AttackCalls(Striking) /\ call.start <= call.fence
          /\ FacingBy(call.fence)
      BY <2>1, KnownCall DEF Striking
    <2>4. call.start \in Nat /\ call.fence \in Nat /\ call.facing \in Facings
      BY <2>3 DEF AttackCalls
    <2>5. seen \in 1..Revision /\ seen > call.fence /\ log[seen] = Struck
      BY <1>1, <2>1, LatestIsOne DEF LogInv
    <2> HIDE DEF seen
    <2>6. Turned' = Turned
      BY <2>2 DEF Turned
    <2>7. call.facing.how = "observed" =>
            /\ call.start < call.facing.revision /\ call.facing.revision < seen
            /\ log[call.facing.revision] = Turned
      BY <1>1, <2>3, <2>4, <2>5 DEF FacingBy, Facings
    <2>8. ASSUME call.facing.how = "retained"
          PROVE  \E r \in call.start..seen : FacingAt(r)' = Turned.direction
      <3>1. PICK r \in call.start..call.fence : FacingAt(r) = Turned.direction
        BY <2>3, <2>8 DEF FacingBy
      <3>2. r \in call.start..seen
        BY <1>1, <2>4, <2>5
      <3>3. QED
        BY <3>1, <3>2, FacingStays
    <2>9. ReportIsEvidence'
      BY <1>1, <1>2, <2>2, <2>3, <2>4, <2>5, <2>6, <2>7, <2>8 DEF ReportIsEvidence
    <2>10. {call.start, seen} \subseteq 0..Revision
      BY <1>1, <2>3, <2>4, <2>5
    <2>11. ReportInv'
      BY <1>1, <2>2, <2>4, <2>9, <2>10 DEF ReportInv
    <2>12. QED
      BY <2>11, CallIsKnown
  <1>9. CASE StrikeElapses
    BY <1>9, FailKeepsCallInv DEF StrikeElapses
  <1>10. QED
    BY <1>3, <1>4, <1>5, <1>6, <1>7, <1>8, <1>9
-----------------------------------------------------------------------------
(* The codec: whatever the types of an intent admit, the body written for   *)
(* it decodes to what it said.                                              *)

LEMMA HalvesOfWord ==
  ASSUME NEW n \in Words
  PROVE  \E q, r \in Bytes : q = n \div 256 /\ r = n % 256 /\ 256 * q + r = n
  <1>1. n \in Nat /\ n < 65536
    BY DEF Words
  <1>2. PICK q \in Nat : q = n \div 256
    BY <1>1
  <1>3. 256 * q <= n /\ n < 256 * q + 256
    BY <1>1, <1>2
  <1> DEFINE r == n - 256 * q
  <1>4. r \in Nat /\ r < 256 /\ 256 * q + r = n
    BY <1>1, <1>3
  <1> HIDE DEF r
  <1>5. r = n % 256
    BY <1>1, <1>4
  <1>6. q < 256
    BY <1>1, <1>3
  <1>7. q \in Bytes /\ r \in Bytes
    BY <1>4, <1>6 DEF Bytes
  <1>8. QED
    <2> q \in Bytes /\ r \in Bytes
      BY <1>7
    <2> WITNESS q \in Bytes, r \in Bytes
    <2>1. QED
      BY <1>2, <1>4, <1>5, SMT

LEMMA HalvesOfEntity ==
  ASSUME NEW e, IsEntity(e)
  PROVE  \E h, l \in Words : h = e \div 65536 /\ l = e % 65536 /\ 65536 * h + l = e
  <1>1. e \in Nat /\ e \div 65536 \in Words
    BY DEF IsEntity
  <1>2. PICK h \in Nat : h = e \div 65536
    BY <1>1
  <1>3. 65536 * h <= e /\ e < 65536 * h + 65536
    BY <1>1, <1>2
  <1> DEFINE l == e - 65536 * h
  <1>4. l \in Nat /\ l < 65536 /\ 65536 * h + l = e
    BY <1>1, <1>3
  <1> HIDE DEF l
  <1>5. l = e % 65536
    BY <1>1, <1>4
  <1>6. l \in Words
    BY <1>4 DEF Words
  <1>7. QED
    <2>1. h \in Words
      BY <1>1, <1>2, SMT
    <2>2. WITNESS h \in Words, l \in Words
    <2>3. QED
      BY <1>2, <1>4, <1>5, SMT

(* decode_serverbound goes by the first byte. *)
LEMMA ByOpcode ==
  ASSUME NEW b
  PROVE  /\ b[1] = 14 => Serverbound(b) = SpeechOf(b)
         /\ b[1] = 7 => Serverbound(b) = Pickup(b)
         /\ b[1] = 11 => Serverbound(b) = DisconnectOf(b)
         /\ b[1] \in {6, 50} => Serverbound(b) = Movement(b)
         /\ b[1] = 15 => Serverbound(b) = Cast(b)
         /\ b[1] = 57 => Serverbound(b) = Dialog(b)
         /\ b[1] = 63 => Serverbound(b) = TravelSelection(b)
         /\ b[1] = 67 => Serverbound(b) = Interact(b)
         /\ b[1] = 17 => Serverbound(b) = Facing(b)
         /\ b[1] = 19 => Serverbound(b) = Attack(b)
         /\ b[1] = 28 => Serverbound(b) = UseInventory(b)
         /\ b[1] = 56 => Serverbound(b) = Refresh(b)
         /\ b[1] = 105 => Serverbound(b) = Obstruction(b)
         /\ b[1] = 45 => Serverbound(b) = Unknown
  BY DEF Serverbound

LEMMA Recorded ==
  ASSUME NEW b, b # <<>>
  PROVE  Observed(b) = ActionOf(Serverbound(b))
  BY DEF Observed, Decode

(* Bodies of a fixed layout. *)
LEMMA FixedBodies ==
  ASSUME NEW d \in 0..3
  PROVE  /\ Observed(<<17, d, 0>>) = [action |-> "Face", direction |-> Directions[d + 1]]
         /\ Observed(<<19, 0, 0>>) = [action |-> "Attack"]
         /\ Observed(<<7, 1, 0>>) = [action |-> "Pickup"]
         /\ Observed(<<45, 0, 0>>) = NoAction
         /\ Observed(<<56, 0>>) = [action |-> "Refresh"]
         /\ Observed(<<11, 0>>) = [action |-> "Disconnect"]
  <1>1. Observed(<<17, d, 0>>) = [action |-> "Face", direction |-> Directions[d + 1]]
    <2> DEFINE b == <<17, d, 0>>
    <2>1. b # <<>> /\ Len(b) = 3 /\ b[1] = 17 /\ b[2] = d
      OBVIOUS
    <2> HIDE DEF b
    <2>2. Serverbound(b) = [packet |-> "Facing", direction |-> Directions[d + 1]]
      BY <2>1, ByOpcode DEF Facing
    <2>3. Observed(b) = [action |-> "Face", direction |-> Directions[d + 1]]
      BY <2>1, <2>2, Recorded DEF ActionOf
    <2>4. QED
      BY <2>3 DEF b
  <1>2. Observed(<<19, 0, 0>>) = [action |-> "Attack"]
    <2> DEFINE b == <<19, 0, 0>>
    <2>1. b # <<>> /\ Len(b) = 3 /\ b[1] = 19
      OBVIOUS
    <2> HIDE DEF b
    <2>2. Serverbound(b) = [packet |-> "Attack"]
      BY <2>1, ByOpcode DEF Attack
    <2>3. Observed(b) = [action |-> "Attack"]
      BY <2>1, <2>2, Recorded DEF ActionOf
    <2>4. QED
      BY <2>3 DEF b
  <1>3. Observed(<<7, 1, 0>>) = [action |-> "Pickup"]
    <2> DEFINE b == <<7, 1, 0>>
    <2>1. b # <<>> /\ Len(b) = 3 /\ b[1] = 7
      OBVIOUS
    <2> HIDE DEF b
    <2>2. Serverbound(b) = [packet |-> "Pickup"]
      BY <2>1, ByOpcode DEF Pickup
    <2>3. Observed(b) = [action |-> "Pickup"]
      BY <2>1, <2>2, Recorded DEF ActionOf
    <2>4. QED
      BY <2>3 DEF b
  <1>4. Observed(<<45, 0, 0>>) = NoAction
    <2> DEFINE b == <<45, 0, 0>>
    <2>1. b # <<>> /\ b[1] = 45
      OBVIOUS
    <2> HIDE DEF b
    <2>2. Serverbound(b) = [packet |-> "Unknown"]
      BY <2>1, ByOpcode DEF Unknown
    <2>3. Observed(b) = NoAction
      BY <2>1, <2>2, Recorded DEF ActionOf
    <2>4. QED
      BY <2>3 DEF b
  <1>5. Observed(<<56, 0>>) = [action |-> "Refresh"]
    <2> DEFINE b == <<56, 0>>
    <2>1. b # <<>> /\ Len(b) = 2 /\ b[1] = 56
      OBVIOUS
    <2> HIDE DEF b
    <2>2. Serverbound(b) = [packet |-> "Refresh"]
      BY <2>1, ByOpcode DEF Refresh
    <2>3. Observed(b) = [action |-> "Refresh"]
      BY <2>1, <2>2, Recorded DEF ActionOf
    <2>4. QED
      BY <2>3 DEF b
  <1>6. Observed(<<11, 0>>) = [action |-> "Disconnect"]
    <2> DEFINE b == <<11, 0>>
    <2>1. b # <<>> /\ Len(b) = 2 /\ b[1] = 11
      OBVIOUS
    <2> HIDE DEF b
    <2>2. Serverbound(b) = [packet |-> "Disconnect"]
      BY <2>1, ByOpcode DEF DisconnectOf
    <2>3. Observed(b) = [action |-> "Disconnect"]
      BY <2>1, <2>2, Recorded DEF ActionOf
    <2>4. QED
      BY <2>3 DEF b
  <1>7. QED
    BY <1>1, <1>2, <1>3, <1>4, <1>5, <1>6

LEMMA EntityWritten ==
  ASSUME NEW e, IsEntity(e)
  PROVE  \E h1, h2, l1, l2 \in Bytes :
           /\ EntityBytes(e) = <<h1, h2, l1, l2>>
           /\ \A b : b[3] = h1 /\ b[4] = h2 /\ b[5] = l1 /\ b[6] = l2 => U32(b, 2) = e
  <1>1. PICK h, l \in Words : h = e \div 65536 /\ l = e % 65536 /\ 65536 * h + l = e
    BY HalvesOfEntity
  <1>2. PICK h1, h2 \in Bytes : h1 = h \div 256 /\ h2 = h % 256 /\ 256 * h1 + h2 = h
    BY HalvesOfWord
  <1>3. PICK l1, l2 \in Bytes : l1 = l \div 256 /\ l2 = l % 256 /\ 256 * l1 + l2 = l
    BY HalvesOfWord
  <1>4. EntityBytes(e) = <<h1, h2, l1, l2>>
    <2>1. EntityBytes(e) = U16Bytes(h) \o U16Bytes(l)
      BY <1>1, SMT DEF EntityBytes
    <2>2. U16Bytes(h) = <<h1, h2>> /\ U16Bytes(l) = <<l1, l2>>
      BY <1>2, <1>3, SMT DEF U16Bytes
    <2> DEFINE f == <<h1, h2>> \o <<l1, l2>>
    <2>3. f \in Seq(Bytes) /\ Len(f) = 4 /\ f[1] = h1 /\ f[2] = h2 /\ f[3] = l1 /\ f[4] = l2
      BY SMT
    <2> HIDE DEF f
    <2>5. f = <<h1, h2, l1, l2>>
      BY <2>3, SMT
    <2>6. QED
      BY <2>1, <2>2, <2>5, SMT DEF f
  <1>5. ASSUME NEW b, b[3] = h1, b[4] = h2, b[5] = l1, b[6] = l2
        PROVE  U32(b, 2) = e
    <2>1. U16(b, 2) = h /\ U16(b, 4) = l
      BY <1>2, <1>3, <1>5, SMT DEF U16
    <2>2. U32(b, 2) = 65536 * h + l
      BY <2>1, SMT DEF U32
    <2>3. QED
      BY <1>1, <2>2, SMT
  <1>6. QED
    <2>1. WITNESS h1 \in Bytes, h2 \in Bytes, l1 \in Bytes, l2 \in Bytes
    <2>2. QED
      BY <1>4, <1>5, SMT

LEMMA InteractionObserved ==
  ASSUME NEW e, IsEntity(e)
  PROVE  Observed(InteractBody(e)) = [action |-> "Interact", entity |-> e]
  <1>1. PICK h1, h2, l1, l2 \in Bytes :
           /\ EntityBytes(e) = <<h1, h2, l1, l2>>
           /\ \A b : b[3] = h1 /\ b[4] = h2 /\ b[5] = l1 /\ b[6] = l2 => U32(b, 2) = e
    BY EntityWritten
  <1> DEFINE b == <<67, 1>> \o <<h1, h2, l1, l2>> \o <<0>>
  <1>2. InteractBody(e) = b
    BY <1>1, SMT DEF InteractBody
  <1>3. /\ b # <<>> /\ Len(b) = 7 /\ b[1] = 67
        /\ b[3] = h1 /\ b[4] = h2 /\ b[5] = l1 /\ b[6] = l2
    OBVIOUS
  <1> HIDE DEF b
  <1>4. U32(b, 2) = e
    BY <1>1, <1>3
  <1>5. Serverbound(b) = [packet |-> "Interact", entity |-> e]
    BY <1>3, <1>4, ByOpcode DEF Interact
  <1>6. Observed(b) = [action |-> "Interact", entity |-> e]
    BY <1>3, <1>5, Recorded DEF ActionOf
  <1>7. QED
    BY <1>2, <1>6

(* The client's bodies. *)
LEMMA NativeBodiesObserved ==
  ASSUME NEW a, IsAct(a), NEW b \in ActBodies(a)
  PROVE  Observed(b) = Named(a)[1]
  <1>1. CASE a.intent = "Step"
    <2>1. PICK x1, x2 \in Bytes : x1 = a.x \div 256 /\ x2 = a.x % 256 /\ 256 * x1 + x2 = a.x
      BY <1>1, ActsAreTyped, HalvesOfWord, SMT DEF IsAct
    <2>2. PICK y1, y2 \in Bytes : y1 = a.y \div 256 /\ y2 = a.y % 256 /\ 256 * y1 + y2 = a.y
      BY <1>1, ActsAreTyped, HalvesOfWord, SMT DEF IsAct
    <2>3. U16Bytes(a.x) = <<x1, x2>> /\ U16Bytes(a.y) = <<y1, y2>>
      BY <2>1, <2>2, SMT DEF U16Bytes
    <2>4. /\ b # <<>> /\ Len(b) \in {10, 17} /\ b[1] \in {6, 50} /\ b[2] = a.direction
          /\ b[5] = x1 /\ b[6] = x2 /\ b[7] = y1 /\ b[8] = y2
      <3>1. b \in NativeBodies(a)
        BY <1>1 DEF ActBodies
      <3>2. \/ b = <<50, a.direction, 7, 80>> \o <<x1, x2>> \o <<y1, y2>> \o OneBytes(2)
            \/ b = <<6, a.direction, 7, 80>> \o <<x1, x2>> \o <<y1, y2>> \o OneBytes(9)
        BY <1>1, <2>3, <3>1 DEF NativeBodies
      <3>3. QED
        BY <3>2 DEF OneBytes
    <2>5. b[4 + 1] = x1 /\ b[4 + 2] = x2 /\ b[6 + 1] = y1 /\ b[6 + 2] = y2
      BY <2>4
    <2>6. U16(b, 4) = a.x /\ U16(b, 6) = a.y
      BY <2>1, <2>2, <2>5, SMT DEF U16
    <2>7. Serverbound(b) = [packet |-> "Movement", direction |-> Directions[a.direction + 1],
                            origin |-> <<a.x, a.y>>]
      BY <1>1, <2>4, <2>6, ByOpcode DEF Movement, IsAct
    <2>8. Observed(b) = [action |-> "Step", direction |-> Directions[a.direction + 1],
                         origin |-> <<a.x, a.y>>]
      BY <2>4, <2>7, Recorded DEF ActionOf
    <2>9. QED
      BY <1>1, <2>8 DEF Named, IsAct
  <1>2. CASE a.intent = "Obstructed"
    <2>1. PICK x1, x2 \in Bytes : x1 = a.x \div 256 /\ x2 = a.x % 256 /\ 256 * x1 + x2 = a.x
      BY <1>2, ActsAreTyped, HalvesOfWord, SMT DEF IsAct
    <2>2. PICK y1, y2 \in Bytes : y1 = a.y \div 256 /\ y2 = a.y % 256 /\ 256 * y1 + y2 = a.y
      BY <1>2, ActsAreTyped, HalvesOfWord, SMT DEF IsAct
    <2>3. U16Bytes(a.x) = <<x1, x2>> /\ U16Bytes(a.y) = <<y1, y2>>
      BY <2>1, <2>2, SMT DEF U16Bytes
    <2>4. b = <<105>> \o <<x1, x2>> \o <<y1, y2>> \o <<a.direction, 0>>
      BY <1>2, <2>3 DEF ActBodies, NativeBodies
    <2>5. /\ b # <<>> /\ Len(b) = 7 /\ b[1] = 105 /\ b[6] = a.direction
          /\ b[2] = x1 /\ b[3] = x2 /\ b[4] = y1 /\ b[5] = y2
      BY <2>4
    <2>6. U16(b, 1) = a.x /\ U16(b, 3) = a.y
      BY <2>1, <2>2, <2>5 DEF U16
    <2>7. Serverbound(b) = [packet |-> "Obstruction", direction |-> Directions[a.direction + 1],
                            origin |-> <<a.x, a.y>>]
      BY <1>2, <2>5, <2>6, ByOpcode DEF Obstruction, IsAct
    <2>8. Observed(b) = [action |-> "Obstruction", direction |-> Directions[a.direction + 1],
                         origin |-> <<a.x, a.y>>]
      BY <2>5, <2>7, Recorded DEF ActionOf
    <2>9. QED
      BY <1>2, <2>8 DEF Named, IsAct
  <1>3. CASE a.intent = "TravelOnMenu"
    <2> DEFINE H(n, p, q) == p = n \div 256 /\ q = n % 256 /\ 256 * p + q = n
    <2>1. PICK m1, m2 \in Bytes : H(a.map, m1, m2)
      BY <1>3, HalvesOfWord DEF IsAct
    <2>2. PICK x1, x2 \in Bytes : H(a.x, x1, x2)
      BY <1>3, HalvesOfWord DEF IsAct
    <2>3. PICK y1, y2 \in Bytes : H(a.y, y1, y2)
      BY <1>3, HalvesOfWord DEF IsAct
    <2>4. /\ U16Bytes(a.map) = <<m1, m2>> /\ U16Bytes(a.x) = <<x1, x2>>
          /\ U16Bytes(a.y) = <<y1, y2>>
      BY <2>1, <2>2, <2>3, SMT DEF U16Bytes
    <2>5. b = <<63>> \o <<m1, m2>> \o <<x1, x2>> \o <<y1, y2>> \o <<0>>
      BY <1>3, <2>4 DEF ActBodies, NativeBodies
    <2>6. /\ b # <<>> /\ Len(b) = 8 /\ b[1] = 63 /\ b[2] = m1 /\ b[3] = m2
          /\ b[4] = x1 /\ b[5] = x2 /\ b[6] = y1 /\ b[7] = y2
      BY <2>5
    <2>7. U16(b, 1) = a.map /\ U16(b, 3) = a.x /\ U16(b, 5) = a.y
      BY <2>1, <2>2, <2>3, <2>6 DEF U16
    <2>8. Serverbound(b) = [packet |-> "TravelSelection", map |-> a.map,
                            position |-> <<a.x, a.y>>]
      BY <2>6, <2>7, ByOpcode DEF TravelSelection
    <2>9. Observed(b) = [action |-> "TravelSelection", map |-> a.map,
                         position |-> <<a.x, a.y>>]
      BY <2>6, <2>8, Recorded DEF ActionOf
    <2>10. QED
      BY <1>3, <2>9 DEF Named
  <1>4. CASE a.intent = "UseInventory"
    <2>1. b = <<28, a.slot>> \o OneBytes(5)
      BY <1>4 DEF ActBodies, NativeBodies
    <2>2. b # <<>> /\ Len(b) = 7 /\ b[1] = 28 /\ b[2] = a.slot
      BY <2>1 DEF OneBytes
    <2>3. a.slot # 0
      BY <1>4 DEF IsAct
    <2>4. Serverbound(b) = [packet |-> "UseInventory", slot |-> a.slot]
      BY <2>2, <2>3, ByOpcode DEF UseInventory
    <2>5. QED
      BY <1>4, <2>2, <2>4, Recorded DEF ActionOf, Named
  <1>5. CASE a.intent = "Cast"
    <2>1. b = <<15, a.slot, 0>>
      BY <1>5 DEF ActBodies, NativeBodies
    <2>2. b # <<>> /\ Len(b) = 3 /\ b[1] = 15 /\ b[2] = a.slot
      BY <2>1
    <2>3. a.slot # 0
      BY <1>5 DEF IsAct
    <2>4. Serverbound(b) = [packet |-> "Cast", slot |-> a.slot]
      BY <2>2, <2>3, ByOpcode DEF Cast
    <2>5. QED
      BY <1>5, <2>2, <2>4, Recorded DEF ActionOf, Named
  <1>6. CASE a.intent = "RefreshMap"
    BY <1>6, FixedBodies DEF ActBodies, NativeBodies, Named
  <1>7. CASE a.intent = "Disconnect"
    BY <1>7, FixedBodies DEF ActBodies, NativeBodies, Named
  <1>8. CASE a.intent = "Attack"
    BY <1>8, FixedBodies DEF ActBodies, Bodies, Named
  <1>9. CASE a.intent = "Face"
    BY <1>9, FixedBodies DEF ActBodies, Bodies, Named, IsAct
  <1>10. QED
    BY <1>1, <1>2, <1>3, <1>4, <1>5, <1>6, <1>7, <1>8, <1>9 DEF IsAct

(* Bodies with a text. *)
LEMMA Behind ==
  ASSUME NEW P, NEW s \in Seq(P), NEW t \in Seq(P), NEW m \in Nat, Len(s) = m
  PROVE  /\ s \o t \in Seq(P) /\ Len(t) \in Nat /\ Len(s \o t) = m + Len(t)
         /\ \A i \in 1..m : (s \o t)[i] = s[i]
         /\ \A i \in 1..Len(t) : (s \o t)[m + i] = t[i]
  OBVIOUS

LEMMA TextIsBytes ==
  ASSUME NEW t, IsText(t)
  PROVE  /\ t \in Seq(Nat) /\ Len(t) \in 1..255 /\ Len(t) \in Nat
         /\ \A i \in 1..Len(t) : t[i] \in Ascii /\ t[i] # 0
  <1>1. t \in Seq(Ascii \ {0}) /\ Len(t) \in 1..255
    BY DEF IsText
  <1>2. Ascii \subseteq Nat
    BY DEF Ascii
  <1>3. Ascii \ {0} \subseteq Nat
    BY <1>2
  <1>4. t \in Seq(Nat) /\ \A i \in 1..Len(t) : t[i] \in Ascii \ {0}
    BY <1>1, <1>3
  <1>5. QED
    BY <1>1, <1>4

LEMMA DigitsAreBytes ==
  ASSUME NEW n \in Bytes
  PROVE  Digits(n) \in Seq(Nat)
  <1>1. n \in Nat
    BY DEF Bytes
  <1>2. n \div 10 \in Nat /\ n % 10 \in Nat /\ n \div 100 \in Nat
    BY <1>1
  <1>3. (n \div 10) % 10 \in Nat
    BY <1>2
  <1> DEFINE a == n \div 10
             b == n % 10
             c == n \div 100
             d == a % 10
  <1>4. a \in Nat /\ b \in Nat /\ c \in Nat /\ d \in Nat
    BY <1>2, <1>3
  <1>5. Digits(n) \in {<<48 + n>>, <<48 + a, 48 + b>>, <<48 + c, 48 + d, 48 + b>>}
    BY DEF Digits
  <1> HIDE DEF a, b, c, d
  <1>6. /\ <<48 + n>> \in Seq(Nat) /\ <<48 + a, 48 + b>> \in Seq(Nat)
        /\ <<48 + c, 48 + d, 48 + b>> \in Seq(Nat)
    BY <1>1, <1>4
  <1>7. QED
    BY <1>5, <1>6

(* What follows the command of a dialog body. *)
DialogTail(s) ==
  IF s.argument = <<>> THEN <<0>>
  ELSE <<Len(s.argument)>> \o s.argument
         \o (IF s.quantity = 0 THEN <<0>>
             ELSE <<Len(Digits(s.quantity))>> \o Digits(s.quantity) \o <<0>>)

LEMMA TailHoldsText ==
  ASSUME NEW s, IsSelection(s)
  PROVE  \E n \in 0..255 :
           /\ DialogTail(s) \in Seq(Nat) /\ DialogTail(s)[1] = n
           /\ 1 + n <= Len(DialogTail(s))
           /\ \A i \in 1..n : DialogTail(s)[1 + i] \in Ascii
  <1>1. CASE s.argument = <<>>
    <2>1. DialogTail(s) = <<0>>
      BY <1>1 DEF DialogTail
    <2>2. <<0>> \in Seq(Nat) /\ <<0>>[1] = 0 /\ Len(<<0>>) = 1
      OBVIOUS
    <2>3. 0 \in 0..255 /\ 1 + 0 <= 1 /\ \A i \in 1..0 : FALSE
      OBVIOUS
    <2>4. QED
      BY <2>1, <2>2, <2>3
  <1>2. CASE s.argument # <<>>
    <2> DEFINE t == s.argument
               n == Len(t)
               q == IF s.quantity = 0 THEN <<0>>
                    ELSE <<Len(Digits(s.quantity))>> \o Digits(s.quantity) \o <<0>>
               one == <<n>>
               two == one \o t
    <2>1. t \in Seq(Nat) /\ n \in 1..255 /\ n \in Nat /\ \A i \in 1..n : t[i] \in Ascii
      BY <1>2, TextIsBytes DEF IsSelection
    <2>2. q \in Seq(Nat)
      <3>1. <<0>> \in Seq(Nat)
        OBVIOUS
      <3> DEFINE d == Digits(s.quantity)
      <3>2. d \in Seq(Nat)
        BY DigitsAreBytes DEF IsSelection
      <3> HIDE DEF d
      <3>3. Len(d) \in Nat /\ <<Len(d)>> \in Seq(Nat)
        BY <3>2
      <3>4. <<Len(d)>> \o d \in Seq(Nat)
        BY <3>2, <3>3
      <3>5. <<Len(d)>> \o d \o <<0>> \in Seq(Nat)
        BY <3>1, <3>4
      <3>6. QED
        BY <3>1, <3>5 DEF d
    <2>3. DialogTail(s) = two \o q
      BY <1>2 DEF DialogTail
    <2> HIDE DEF t, q
    <2>4. one \in Seq(Nat) /\ Len(one) = 1 /\ one[1] = n
      BY <2>1
    <2> HIDE DEF one, n
    <2>5. n = Len(t)
      BY DEF n
    <2>6. /\ two \in Seq(Nat) /\ Len(two) = 1 + n /\ two[1] = n
          /\ \A i \in 1..n : two[1 + i] = t[i]
      <3>1. PICK m \in Nat : m = 1
        OBVIOUS
      <3>2. m \in Nat /\ Len(one) = m /\ one \in Seq(Nat) /\ t \in Seq(Nat)
        BY <2>1, <2>4, <3>1
      <3>3. /\ two \in Seq(Nat) /\ Len(two) = m + Len(t)
            /\ \A i \in 1..m : two[i] = one[i]
            /\ \A i \in 1..Len(t) : two[m + i] = t[i]
        BY ONLY <3>2, Behind
      <3> HIDE DEF two
      <3>4. QED
        BY <2>4, <2>5, <3>1, <3>3
    <2> HIDE DEF two
    <2> DEFINE r == two \o q
               k == 1 + n
    <2>7. k \in Nat /\ Len(two) = k
      BY <2>1, <2>6
    <2>8. /\ r \in Seq(Nat) /\ Len(r) = k + Len(q) /\ Len(q) \in Nat
          /\ \A i \in 1..k : r[i] = two[i]
      <3> HIDE DEF k
      <3>1. QED
        BY <2>2, <2>6, <2>7, Behind
    <2> HIDE DEF r
    <2>9. r[1] = n /\ \A i \in 1..n : r[1 + i] = t[i]
      <3>1. 1 \in 1..k /\ \A i \in 1..n : 1 + i \in 1..k
        BY <2>1
      <3>2. QED
        BY <2>6, <2>8, <3>1
    <2>10. 1 + n <= Len(r) /\ n \in 0..255
      BY <2>1, <2>8
    <2>11. DialogTail(s) = r
      BY <2>3 DEF r
    <2>12. QED
      BY <2>1, <2>8, <2>9, <2>10, <2>11
  <1>3. QED
    BY <1>1, <1>2

LEMMA DialogObserved ==
  ASSUME NEW s, IsSelection(s)
  PROVE  Observed(DialogBody(s)) =
           [action |-> "Dialog", entity |-> s.entity, command |-> s.command]
  <1>1. PICK h1, h2, l1, l2 \in Bytes :
           /\ EntityBytes(s.entity) = <<h1, h2, l1, l2>>
           /\ \A b : b[3] = h1 /\ b[4] = h2 /\ b[5] = l1 /\ b[6] = l2
                => U32(b, 2) = s.entity
    BY EntityWritten DEF IsSelection
  <1>2. PICK n \in 0..255 :
           /\ DialogTail(s) \in Seq(Nat) /\ DialogTail(s)[1] = n
           /\ 1 + n <= Len(DialogTail(s))
           /\ \A i \in 1..n : DialogTail(s)[1 + i] \in Ascii
    BY TailHoldsText
  <1> DEFINE h == <<57, 1>> \o <<h1, h2, l1, l2>> \o <<0, s.command>>
             t == DialogTail(s)
             b == h \o t
  <1>3. DialogBody(s) = b
    BY <1>1, SMT DEF DialogBody, DialogTail
  <1>4. s.command \in Nat /\ h1 \in Nat /\ h2 \in Nat /\ l1 \in Nat /\ l2 \in Nat
    <2>1. s.command \in Bytes
      BY DEF IsSelection
    <2>2. QED
      BY <2>1 DEF Bytes
  <1>5. /\ h \in Seq(Nat) /\ Len(h) = 8 /\ h[1] = 57 /\ h[8] = s.command
        /\ h[3] = h1 /\ h[4] = h2 /\ h[5] = l1 /\ h[6] = l2
    BY <1>4
  <1> HIDE DEF h, t
  <1>6. /\ t \in Seq(Nat) /\ Len(t) \in Nat /\ t[1] = n /\ 1 + n <= Len(t) /\ n \in Nat
        /\ \A i \in 1..n : t[1 + i] \in Ascii
    BY <1>2 DEF t
  <1>7. PICK m \in Nat : m = 8
    OBVIOUS
  <1>8. /\ Len(b) = m + Len(t) /\ \A i \in 1..m : b[i] = h[i]
        /\ \A i \in 1..Len(t) : b[m + i] = t[i]
    <2>1. m \in Nat /\ Len(h) = m /\ h \in Seq(Nat) /\ t \in Seq(Nat)
      BY <1>5, <1>6, <1>7
    <2>2. /\ h \o t \in Seq(Nat) /\ Len(h \o t) = m + Len(t)
          /\ \A i \in 1..m : (h \o t)[i] = h[i]
          /\ \A i \in 1..Len(t) : (h \o t)[m + i] = t[i]
      BY ONLY <2>1, Behind
    <2>3. QED
      BY <2>2
  <1>9. b # <<>>
    BY <1>6, <1>7, <1>8
  <1> HIDE DEF b
  <1>10. /\ b[1] = 57 /\ b[8] = s.command
         /\ b[3] = h1 /\ b[4] = h2 /\ b[5] = l1 /\ b[6] = l2
    BY <1>5, <1>7, <1>8
  <1>11. b[9] = n /\ Len(b) >= 9 /\ 9 + n <= Len(b)
    <2>1. 1 \in 1..Len(t)
      BY <1>6
    <2>2. b[m + 1] = n /\ Len(b) = m + Len(t)
      BY <1>6, <1>8, <2>1
    <2>3. QED
      BY <1>6, <1>7, <2>2
  <1>12. ASSUME NEW i \in 10..(9 + n) PROVE b[i] \in Ascii
    <2>1. i - 9 \in 1..n /\ i - 8 \in 1..Len(t) /\ i - 8 = 1 + (i - 9) /\ i = m + (i - 8)
      BY <1>6, <1>7
    <2>2. b[i] = t[i - 8]
      BY <1>8, <2>1
    <2>3. t[i - 8] \in Ascii
      BY <1>6, <2>1
    <2>4. QED
      BY <2>2, <2>3
  <1>13. U32(b, 2) = s.entity
    BY <1>1, <1>10
  <1>14. Serverbound(b) = [packet |-> "Dialog", entity |-> s.entity, command |-> s.command]
    <2>1. Serverbound(b) = Dialog(b)
      BY <1>10, ByOpcode
    <2>2. QED
      BY <1>10, <1>11, <1>12, <1>13, <2>1 DEF Dialog
  <1>15. QED
    BY <1>3, <1>9, <1>14, Recorded DEF ActionOf

LEMMA SpeechObserved ==
  ASSUME NEW channel \in Bytes, NEW t, IsText(t)
  PROVE  Observed(<<14, channel, Len(t)>> \o t \o <<0>>) = [action |-> "Speak", text |-> t]
  <1> DEFINE n == Len(t)
             h == <<14, channel, n>>
             c == h \o t
             b == c \o <<0>>
  <1>1. /\ t \in Seq(Nat) /\ n \in Nat /\ n \in 1..255 /\ channel \in Nat
        /\ \A i \in 1..n : t[i] \in Ascii
    BY TextIsBytes DEF Bytes
  <1> HIDE DEF n
  <1>2. h \in Seq(Nat) /\ Len(h) = 3 /\ h[1] = 14 /\ h[3] = n
    BY <1>1
  <1> HIDE DEF h
  <1>3. PICK m \in Nat : m = 3
    OBVIOUS
  <1>4. /\ c \in Seq(Nat) /\ Len(c) = m + n
        /\ \A i \in 1..m : c[i] = h[i]
        /\ \A i \in 1..n : c[m + i] = t[i]
    <2>1. m \in Nat /\ Len(h) = m /\ h \in Seq(Nat) /\ t \in Seq(Nat)
      BY <1>1, <1>2, <1>3
    <2>2. QED
      BY <2>1, Behind DEF n
  <1> HIDE DEF c
  <1> DEFINE k == m + n
             z == <<0>>
  <1>5. z \in Seq(Nat) /\ Len(z) = 1 /\ z[1] = 0
    OBVIOUS
  <1> HIDE DEF z
  <1>6. /\ b \in Seq(Nat) /\ Len(b) = k + 1
        /\ \A i \in 1..k : b[i] = c[i]
        /\ b[k + 1] = 0
    <2>1. k \in Nat /\ Len(c) = k
      BY <1>1, <1>4
    <2> HIDE DEF k
    <2>2. /\ c \o z \in Seq(Nat) /\ Len(c \o z) = k + Len(z)
          /\ \A i \in 1..k : (c \o z)[i] = c[i]
          /\ \A i \in 1..Len(z) : (c \o z)[k + i] = z[i]
      <3>1. c \in Seq(Nat) /\ z \in Seq(Nat)
        BY <1>4, <1>5
      <3>2. QED
        BY <2>1, <3>1, Behind
    <2>3. b = c \o z
      BY DEF z
    <2> HIDE DEF b
    <2>4. 1 \in 1..Len(z)
      BY <1>5
    <2>5. QED
      BY <1>5, <2>2, <2>3, <2>4
  <1> HIDE DEF b
  <1>7. /\ Len(b) = n + 4 /\ b[1] = 14 /\ b[3] = n /\ b[Len(b)] = 0 /\ b # <<>>
        /\ \A i \in 1..n : b[3 + i] = t[i]
    <2>1. 1 \in 1..k /\ 3 \in 1..k /\ 1 \in 1..m /\ 3 \in 1..m
      BY <1>1, <1>3
    <2>2. \A i \in 1..n : 3 + i \in 1..k
      BY <1>1, <1>3
    <2>3. b[1] = 14 /\ b[3] = n
      BY <1>2, <1>4, <1>6, <2>1
    <2>4. \A i \in 1..n : b[3 + i] = t[i]
      BY <1>3, <1>4, <1>6, <2>2
    <2>5. k = n + 3 /\ Len(b) = n + 4
      BY <1>1, <1>3, <1>6
    <2>6. QED
      BY <1>1, <1>6, <2>3, <2>4, <2>5
  <1>8. SubSeq(b, 4, Len(b) - 1) = t
    <2>1. Len(b) - 1 = n + 3
      BY <1>1, <1>7
    <2> DEFINE j == Len(b) - 1
    <2>2. b \in Seq(Nat) /\ j = n + 3 /\ j \in Nat /\ j <= Len(b)
      BY <1>1, <1>6, <1>7, <2>1
    <2> HIDE DEF j
    <2>3. SubSeq(b, 4, j) = t
      <3> DEFINE w == SubSeq(b, 4, j)
      <3>1. w \in Seq(Nat) /\ Len(w) = n
        BY <1>1, <2>2
      <3>2. \A i \in 1..n : w[i] = b[3 + i]
        BY <1>1, <2>2
      <3> HIDE DEF w
      <3>3. \A i \in 1..n : w[i] = t[i]
        BY <1>7, <3>2
      <3>4. Len(t) = n /\ t \in Seq(Nat)
        BY <1>1 DEF n
      <3>5. w = t
        BY <1>1, <3>1, <3>3, <3>4
      <3>6. QED
        BY <3>5 DEF w
    <2>4. QED
      BY <2>3 DEF j
  <1>9. Len(FromOffset(b, 3)) = b[3] + 1
    <2> DEFINE v == SubSeq(b, 3 + 1, Len(b))
    <2>1. Len(v) = n + 1
      BY <1>1, <1>6, <1>7
    <2>2. QED
      BY <1>7, <2>1 DEF FromOffset
  <1>10. Last(b) = 0
    BY <1>7 DEF Last
  <1>11. DOMAIN t = 1..n
    BY <1>1 DEF n
  <1>12. Serverbound(b) = [packet |-> "Speech", text |-> t]
    <2>1. Serverbound(b) = SpeechOf(b)
      BY <1>7, ByOpcode
    <2>2. Len(b) >= 3 /\ \A i \in DOMAIN t : t[i] \in Ascii
      BY <1>1, <1>7, <1>11
    <2>3. QED
      BY <1>8, <1>9, <1>10, <2>1, <2>2 DEF SpeechOf
  <1>13. Observed(b) = [action |-> "Speak", text |-> t]
    BY <1>7, <1>12, Recorded DEF ActionOf
  <1>14. QED
    BY <1>13 DEF b, c, h, n

LEMMA AnswerObserved ==
  ASSUME NEW slot \in SpellSlots, NEW t, IsText(t)
  PROVE  Observed(<<15, slot>> \o t \o <<0>>) = [action |-> "Cast", slot |-> slot]
  <1> DEFINE h == <<15, slot>>
             c == h \o t
             b == c \o <<0>>
  <1>1. t \in Seq(Nat) /\ Len(t) \in Nat /\ slot \in Nat /\ slot # 0
    BY TextIsBytes DEF SpellSlots
  <1>2. h \in Seq(Nat) /\ Len(h) = 2 /\ h[1] = 15 /\ h[2] = slot
    BY <1>1
  <1> HIDE DEF h
  <1>3. PICK m \in Nat : m = 2
    OBVIOUS
  <1>4. c \in Seq(Nat) /\ Len(c) = m + Len(t) /\ \A i \in 1..m : c[i] = h[i]
    <2>1. m \in Nat /\ Len(h) = m /\ h \in Seq(Nat) /\ t \in Seq(Nat)
      BY <1>1, <1>2, <1>3
    <2>2. QED
      BY ONLY <2>1, Behind
  <1> HIDE DEF c
  <1> DEFINE k == m + Len(t)
             z == <<0>>
  <1>5. z \in Seq(Nat) /\ Len(z) \in Nat
    OBVIOUS
  <1> HIDE DEF z
  <1>6. Len(b) = k + Len(z) /\ \A i \in 1..k : b[i] = c[i]
    <2>1. k \in Nat /\ Len(c) = k
      BY <1>1, <1>4
    <2> HIDE DEF k
    <2>2. Len(c \o z) = k + Len(z) /\ \A i \in 1..k : (c \o z)[i] = c[i]
      BY <1>4, <1>5, <2>1, Behind
    <2>3. QED
      BY <2>2 DEF z
  <1> HIDE DEF b
  <1>7. b[1] = 15 /\ b[2] = slot /\ Len(b) >= 2 /\ b # <<>>
    <2>1. 1 \in 1..m /\ 2 \in 1..m /\ 1 \in 1..k /\ 2 \in 1..k /\ k >= 2
      BY <1>1, <1>3
    <2>2. b[1] = 15 /\ b[2] = slot
      BY <1>2, <1>4, <1>6, <2>1
    <2>3. Len(b) >= 2
      BY <1>1, <1>5, <1>6, <2>1
    <2>4. QED
      BY <2>2, <2>3
  <1>8. Serverbound(b) = [packet |-> "Cast", slot |-> slot]
    BY <1>1, <1>7, ByOpcode DEF Cast
  <1>9. Observed(b) = [action |-> "Cast", slot |-> slot]
    BY <1>7, <1>8, Recorded DEF ActionOf
  <1>10. QED
    BY <1>9 DEF b, c, h

(* Whatever its types admit, an intent is observed as what it said, body by *)
(* body.                                                                    *)
LEMMA IntentObserved ==
  ASSUME NEW a, IsIntent(a)
  PROVE  /\ \E n \in Nat \ {0} : DOMAIN Bodies(a) = 1..n
         /\ \A i \in DOMAIN Bodies(a) : Observed(Bodies(a)[i]) = Named(a)[i]
  <1>1. ASSUME NEW b, NEW m, Bodies(a) = <<b>>, Named(a) = <<m>>, Observed(b) = m
        PROVE  /\ \E n \in Nat \ {0} : DOMAIN Bodies(a) = 1..n
               /\ \A i \in DOMAIN Bodies(a) : Observed(Bodies(a)[i]) = Named(a)[i]
    <2>1. DOMAIN <<b>> = 1..1 /\ <<b>>[1] = b /\ <<m>>[1] = m /\ 1 \in Nat \ {0}
      OBVIOUS
    <2>2. \A i \in 1..1 : i = 1
      OBVIOUS
    <2>3. QED
      BY <1>1, <2>1, <2>2
  <1>2. CASE a.intent = "Attack"
    BY <1>1, <1>2, FixedBodies DEF Bodies, Named
  <1>3. CASE a.intent = "Face"
    <2>1. a.direction \in 0..3
      BY <1>3 DEF IsIntent
    <2>2. Bodies(a) = <<<<17, a.direction, 0>>>>
      BY <1>3 DEF Bodies
    <2>3. Named(a) = <<[action |-> "Face", direction |-> Directions[a.direction + 1]]>>
      BY <1>3 DEF Named
    <2>4. QED
      BY <1>1, <2>1, <2>2, <2>3, FixedBodies
  <1>4. CASE a.intent = "Pickup"
    BY <1>1, <1>4, FixedBodies DEF Bodies, Named
  <1>5. CASE a.intent = "RequestProfile"
    BY <1>1, <1>5, FixedBodies DEF Bodies, Named
  <1>6. CASE a.intent = "Interact"
    <2>1. Bodies(a) = <<InteractBody(a.entity)>>
      BY <1>6 DEF Bodies
    <2>2. Named(a) = <<[action |-> "Interact", entity |-> a.entity]>>
      BY <1>6 DEF Named
    <2>3. QED
      BY <1>1, <1>6, <2>1, <2>2, InteractionObserved DEF IsIntent
  <1>7. CASE a.intent = "Dialog"
    <2>1. Bodies(a) = <<DialogBody(a.selection)>>
      BY <1>7 DEF Bodies
    <2>2. Named(a) = <<[action |-> "Dialog", entity |-> a.selection.entity,
                        command |-> a.selection.command]>>
      BY <1>7 DEF Named
    <2>3. QED
      BY <1>1, <1>7, <2>1, <2>2, DialogObserved DEF IsIntent
  <1>8. CASE a.intent = "DialogTransaction"
    <2> DEFINE s == a.selections
               f == [i \in DOMAIN s |-> DialogBody(s[i])]
               g == [i \in DOMAIN s |-> [action |-> "Dialog", entity |-> a.entity,
                                         command |-> s[i].command]]
               b == InteractBody(a.entity)
               m == [action |-> "Interact", entity |-> a.entity]
               k == Len(s)
    <2>1. Bodies(a) = <<b>> \o f /\ Named(a) = <<m>> \o g
      BY <1>8 DEF Bodies, Named
    <2>2. k \in Nat /\ DOMAIN s = 1..k
      BY <1>8 DEF IsIntent
    <2>3. ASSUME NEW i \in DOMAIN s PROVE Observed(f[i]) = g[i]
      <3>1. s[i] \in Range(s)
        BY DEF Range
      <3>2. IsSelection(s[i]) /\ s[i].entity = a.entity
        BY <1>8, <3>1 DEF IsIntent, IsTransaction
      <3>3. QED
        BY <3>2, DialogObserved
    <2>4. Observed(b) = m
      BY <1>8, InteractionObserved DEF IsIntent
    <2>5. DOMAIN f = 1..k /\ DOMAIN g = 1..k
      BY <2>2
    <2>6. f = [i \in 1..k |-> f[i]] /\ g = [i \in 1..k |-> g[i]]
      BY <2>2
    <2> HIDE DEF f, g, b, m, k
    <2> DEFINE F == {f[i] : i \in 1..k} \cup {b}
               G == {g[i] : i \in 1..k} \cup {m}
    <2>7. f \in Seq(F) /\ <<b>> \in Seq(F) /\ Len(f) = k
          /\ g \in Seq(G) /\ <<m>> \in Seq(G) /\ Len(g) = k
      BY <2>2, <2>6
    <2> HIDE DEF F, G
    <2>8. PICK o \in Nat : o = 1
      OBVIOUS
    <2>9. Len(<<b>>) = o /\ Len(<<m>>) = o /\ <<b>>[1] = b /\ <<m>>[1] = m
      BY <2>8
    <2> DEFINE p == <<b>>
               q == <<m>>
    <2>10. /\ p \in Seq(F) /\ q \in Seq(G) /\ Len(p) = o /\ Len(q) = o
           /\ p[1] = b /\ q[1] = m
      BY <2>7, <2>9
    <2> HIDE DEF p, q
    <2>11. /\ p \o f \in Seq(F) /\ Len(p \o f) = o + k
           /\ \A i \in 1..o : (p \o f)[i] = p[i]
           /\ \A i \in 1..k : (p \o f)[o + i] = f[i]
      <3>1. p \in Seq(F) /\ f \in Seq(F) /\ o \in Nat /\ Len(p) = o
        BY <2>7, <2>8, <2>10
      <3>2. /\ p \o f \in Seq(F) /\ Len(p \o f) = o + Len(f)
            /\ \A i \in 1..o : (p \o f)[i] = p[i]
            /\ \A i \in 1..Len(f) : (p \o f)[o + i] = f[i]
        BY ONLY <3>1, Behind
      <3>3. QED
        BY <2>7, <3>2
    <2>12. /\ \A i \in 1..o : (q \o g)[i] = q[i]
           /\ \A i \in 1..k : (q \o g)[o + i] = g[i]
      <3>1. q \in Seq(G) /\ g \in Seq(G) /\ o \in Nat /\ Len(q) = o
        BY <2>7, <2>8, <2>10
      <3>2. /\ \A i \in 1..o : (q \o g)[i] = q[i]
            /\ \A i \in 1..Len(g) : (q \o g)[o + i] = g[i]
        BY ONLY <3>1, Behind
      <3>3. QED
        BY <2>7, <3>2
    <2>13. DOMAIN (p \o f) = 1..(k + 1)
      <3>1. DOMAIN (p \o f) = 1..Len(p \o f)
        BY <2>11
      <3>2. o + k = k + 1
        BY <2>2, <2>8
      <3>3. QED
        BY <2>11, <3>1, <3>2
    <2>14. ASSUME NEW i \in 1..(k + 1) PROVE Observed((p \o f)[i]) = (q \o g)[i]
      <3>1. CASE i = 1
        BY <2>4, <2>8, <2>10, <2>11, <2>12, <3>1
      <3>2. CASE i # 1
        <4>1. i - 1 \in 1..k /\ i = o + (i - 1)
          BY <2>2, <2>8, <3>2
        <4>2. (p \o f)[i] = f[i - 1] /\ (q \o g)[i] = g[i - 1]
          BY <2>11, <2>12, <4>1
        <4>3. QED
          BY <2>2, <2>3, <4>1, <4>2
      <3>3. QED
        BY <3>1, <3>2
    <2>15. Bodies(a) = p \o f /\ Named(a) = q \o g
      BY <2>1 DEF p, q
    <2>16. k + 1 \in Nat \ {0}
      BY <2>2
    <2>17. QED
      BY <2>13, <2>14, <2>15, <2>16
  <1>9. CASE a.intent = "Speak"
    <2>1. Bodies(a) = <<<<14, a.channel, Len(a.text)>> \o a.text \o <<0>>>>
      BY <1>9 DEF Bodies
    <2>2. Named(a) = <<[action |-> "Speak", text |-> a.text]>>
      BY <1>9 DEF Named
    <2>3. QED
      BY <1>1, <1>9, <2>1, <2>2, SpeechObserved DEF IsIntent
  <1>10. CASE a.intent = "CastAnswered"
    <2>1. Bodies(a) = <<<<15, a.slot>> \o a.answer \o <<0>>>>
      BY <1>10 DEF Bodies
    <2>2. Named(a) = <<[action |-> "Cast", slot |-> a.slot]>>
      BY <1>10 DEF Named
    <2>3. QED
      BY <1>1, <1>10, <2>1, <2>2, AnswerObserved DEF IsIntent
  <1>11. QED
    BY <1>2, <1>3, <1>4, <1>5, <1>6, <1>7, <1>8, <1>9, <1>10 DEF IsIntent, Submittable
-----------------------------------------------------------------------------
(* Nothing is posted, queued or on its way that the agent's types do not    *)
(* admit, and what is queued or on its way says what was meant.             *)
IsKey(k) ==
  /\ k.key \in {"direction", "spell", "item", "refresh"}
  /\ k.key = "direction" => k.direction \in 0..3
  /\ k.key \in {"spell", "item"} => k.slot \in 1..26
PostedInv == IsSequence(posted) /\ \A i \in DOMAIN posted : IsKey(posted[i])

Phases == {"complete", "posting", "awaiting", "thrown", "turn observed"}
Steps == [direction : 0..3, phase : Phases, taps : Nat]
Uses == [slot : 0..26, phase : Phases, letters : Seq(1..26)]
HandsInv == /\ step \in Steps
            /\ cast \in Uses /\ item \in Uses

IsQueued(e) ==
  /\ e = [intent |-> e.intent, named |-> e.named, body |-> e.body, wakes |-> e.wakes]
  /\ IsIntent(e.intent) /\ Observed(e.body) = e.named
QueuedInv == IsSequence(bodies) /\ \A i \in DOMAIN bodies : IsQueued(bodies[i])

FlightInv ==
  IsSequence(flight) /\ \A i \in DOMAIN flight : flight[i].seen = flight[i].named

ObservedInv == PostedInv /\ HandsInv /\ QueuedInv /\ FlightInv

LEMMA PostKeepsPosted ==
  ASSUME PostedInv, NEW key, IsKey(key), posted' = posted \/ posted' = Append(posted, key)
  PROVE  PostedInv'
  <1>1. CASE posted' = posted
    BY <1>1 DEF PostedInv
  <1>2. CASE posted' = Append(posted, key)
    <2>1. /\ IsSequence(posted') /\ DOMAIN posted' = 1..(Len(posted) + 1)
          /\ Len(posted) \in Nat /\ DOMAIN posted = 1..Len(posted)
          /\ \A i \in DOMAIN posted : posted'[i] = posted[i]
          /\ posted'[Len(posted) + 1] = key
      BY <1>2, SequenceSteps DEF PostedInv
    <2>2. QED
      BY <2>1 DEF PostedInv
  <1>3. QED
    BY <1>1, <1>2

LEMMA WakeKeepsPosted ==
  ASSUME PostedInv, NEW a, IsIntent(a), Wake(a) PROVE PostedInv'
  <1>1. CASE a.intent \in {"Attack", "Face"}
    <2> DEFINE key == [key |-> "direction", direction |-> a.direction]
    <2>1. posted' = posted \/ posted' = Append(posted, key)
      BY <1>1 DEF Wake, Post
    <2>2. IsKey(key)
      BY <1>1 DEF IsKey, IsIntent
    <2> HIDE DEF key
    <2>3. QED
      BY <2>1, <2>2, PostKeepsPosted
  <1>2. CASE a.intent \notin {"Attack", "Face"}
    BY <1>2 DEF Wake, PostedInv
  <1>3. QED
    BY <1>1, <1>2

LEMMA SubmitKeeps ==
  ASSUME PostedInv, NEW a, IsIntent(a), Submit(a)
  PROVE  PostedInv' /\ QueuedInv' /\ bodies' # <<>>
  <1>1. PostedInv'
    BY WakeKeepsPosted DEF Submit
  <1> DEFINE e(i) == [intent |-> a, named |-> Named(a)[i], body |-> Bodies(a)[i],
                      wakes |-> 1]
  <1>2. PICK n \in Nat \ {0} : DOMAIN Bodies(a) = 1..n
    BY IntentObserved
  <1>3. bodies' = [i \in 1..n |-> e(i)]
    BY <1>2 DEF Submit
  <1>4. \A i \in 1..n : IsQueued(e(i))
    BY <1>2, IntentObserved DEF IsQueued
  <1> HIDE DEF e
  <1> DEFINE E == {e(i) : i \in 1..n}
  <1>5. bodies' \in Seq(E) /\ DOMAIN bodies' = 1..n /\ \A i \in 1..n : bodies'[i] = e(i)
    BY <1>3
  <1> HIDE DEF E
  <1>6. IsSequence(bodies')
    BY <1>5 DEF IsSequence
  <1>7. bodies' # <<>>
    <2>1. 1 \in DOMAIN bodies'
      BY <1>5
    <2>2. DOMAIN <<>> = {}
      OBVIOUS
    <2>3. QED
      BY <2>1, <2>2
  <1>8. QED
    BY <1>1, <1>4, <1>5, <1>6, <1>7 DEF QueuedInv

LEMMA ShorterKeepsQueued ==
  ASSUME QueuedInv, bodies' = bodies \/ (bodies # <<>> /\ bodies' = Tail(bodies))
  PROVE  QueuedInv'
  <1>1. CASE bodies' = bodies
    BY <1>1 DEF QueuedInv
  <1>2. CASE bodies # <<>> /\ bodies' = Tail(bodies)
    <2>1. /\ IsSequence(bodies')
          /\ \A i \in DOMAIN bodies' : i + 1 \in DOMAIN bodies /\ bodies'[i] = bodies[i + 1]
      BY <1>2, SequenceSteps DEF QueuedInv
    <2>2. QED
      BY <2>1 DEF QueuedInv
  <1>3. QED
    BY <1>1, <1>2

LEMMA ReportKeepsFlight ==
  ASSUME FlightInv, NEW named, NEW body, Observed(body) = named, Report(named, body)
  PROVE  FlightInv'
  <1> DEFINE e == [named |-> named, seen |-> Observed(body)]
  <1>1. e.seen = e.named /\ flight' = Append(flight, e)
    BY DEF Report
  <1> HIDE DEF e
  <1>2. /\ IsSequence(flight') /\ DOMAIN flight' = 1..(Len(flight) + 1)
        /\ Len(flight) \in Nat /\ DOMAIN flight = 1..Len(flight)
        /\ \A i \in DOMAIN flight : flight'[i] = flight[i]
        /\ flight'[Len(flight) + 1] = e
    BY <1>1, SequenceSteps DEF FlightInv
  <1>3. QED
    BY <1>1, <1>2 DEF FlightInv

LEMMA NoStepType == NoStep \in Steps
  BY DEF NoStep, Steps, Phases

LEMMA ChangedRecord ==
  ASSUME NEW S, NEW P, NEW L, NEW use \in [slot : S, phase : P, letters : L],
         NEW slot \in S, NEW phase \in P
  PROVE  [use EXCEPT !.slot = slot, !.phase = phase] \in [slot : S, phase : P, letters : L]
  OBVIOUS

LEMMA ChangedUse ==
  ASSUME NEW use \in Uses, NEW slot \in 0..26, NEW phase \in Phases
  PROVE  [use EXCEPT !.slot = slot, !.phase = phase] \in Uses
  BY ChangedRecord DEF Uses

LEMMA DoneUse ==
  ASSUME NEW use \in Uses PROVE Done(use) \in Uses
  <1>1. 0 \in 0..26 /\ "complete" \in Phases
    BY DEF Phases
  <1>2. QED
    BY <1>1, ChangedUse DEF Done

LEMMA NotedUse ==
  ASSUME NEW use \in Uses, NEW opcode, NEW b PROVE NoteUse(use, opcode, b) \in Uses
  BY DoneUse DEF NoteUse

LEMMA ClientSendsKeepsObserved ==
  ASSUME HandsInv, QueuedInv, FlightInv, NEW a, IsAct(a), ClientSends(a)
  PROVE  HandsInv' /\ QueuedInv' /\ FlightInv'
  <1>1. PICK b \in ActBodies(a) :
          /\ bodies' = Satisfied(b) /\ NoteStep(b)
          /\ cast' = NoteUse(cast, 15, b) /\ item' = NoteUse(item, 28, b)
          /\ Report(Named(a)[1], b)
    BY DEF ClientSends
  <1>2. FlightInv'
    BY <1>1, NativeBodiesObserved, ReportKeepsFlight
  <1>3. QueuedInv'
    BY <1>1, ShorterKeepsQueued DEF Satisfied
  <1>4. step' \in Steps
    BY <1>1, NoStepType DEF NoteStep, HandsInv, Steps, Phases
  <1>5. cast' \in Uses /\ item' \in Uses
    BY <1>1, NotedUse DEF HandsInv
  <1>6. QED
    BY <1>2, <1>3, <1>4, <1>5 DEF HandsInv

LEMMA ActsOfKeys ==
  ASSUME NEW k, IsKey(k), NEW a \in ActsOf(k) PROVE IsAct(a)
  <1>1. Here = <<Here[1], Here[2]>>
    BY ActsAreTyped
  <1>2. CASE k.key = "direction"
    <2>1. a \in [intent : {"Face", "Step", "Obstructed", "Attack"},
                 direction : {k.direction}, x : {Here[1]}, y : {Here[2]}]
      BY <1>2 DEF ActsOf
    <2>2. /\ a.intent \in {"Face", "Step", "Obstructed", "Attack"}
          /\ a.direction = k.direction /\ a.x = Here[1] /\ a.y = Here[2]
      BY <2>1
    <2>3. k.direction \in 0..3
      BY <1>2 DEF IsKey
    <2>4. QED
      BY <1>1, <2>2, <2>3 DEF IsAct
  <1>3. CASE k.key = "spell"
    BY <1>3 DEF ActsOf, IsKey, IsAct
  <1>4. CASE k.key = "item"
    BY <1>4 DEF ActsOf, IsKey, IsAct
  <1>5. CASE k.key = "refresh"
    BY <1>5 DEF ActsOf, IsKey, IsAct
  <1>6. QED
    BY <1>2, <1>3, <1>4, <1>5 DEF IsKey

LEMMA BegunUse ==
  ASSUME NEW use \in Uses, NEW slot \in 1..26 PROVE Begins(use, slot) \in Uses
  <1>1. use.letters \in Seq(1..26)
    BY DEF Uses
  <1> DEFINE letters == Append(use.letters, slot)
  <1>2. letters \in Seq(1..26) /\ slot \in 0..26 /\ "posting" \in Phases
    BY <1>1 DEF Phases
  <1>3. Begins(use, slot) = [slot |-> slot, phase |-> "posting", letters |-> letters]
    BY DEF Begins
  <1> HIDE DEF letters
  <1>4. QED
    BY <1>2, <1>3 DEF Uses

(* What a timer posts when it posts the first of the letters. *)
LEMMA FirstLetter ==
  ASSUME NEW use \in Uses, use.letters # <<>>
  PROVE  Head(use.letters) \in 1..26 /\ Lettered(use) \in Uses
  <1>1. use.letters \in Seq(1..26)
    BY DEF Uses
  <1>2. Head(use.letters) \in 1..26 /\ Tail(use.letters) \in Seq(1..26)
    <2>1. ASSUME NEW S, NEW t \in Seq(S), t # <<>>
          PROVE  Head(t) \in S /\ Tail(t) \in Seq(S)
      BY ONLY <2>1
    <2>2. QED
      BY <1>1, <2>1
  <1>3. QED
    BY <1>2 DEF Lettered, Uses

LEMMA IntentsKeepObserved ==
  ASSUME ObservedInv, NextIntents PROVE ObservedInv'
  <1> USE DEF ObservedInv
  <1>0. ASSUME UNCHANGED bodies PROVE QueuedInv'
    BY <1>0, ShorterKeepsQueued
  <1>00. ASSUME UNCHANGED flight PROVE FlightInv'
    BY <1>00 DEF FlightInv
  <1>000. ASSUME UNCHANGED posted PROVE PostedInv'
    BY <1>000 DEF PostedInv
  <1>1. ASSUME NEW d \in 0..3, BeginStep(d) PROVE ObservedInv'
    <2> DEFINE s == [NoStep EXCEPT !.direction = d, !.phase = "awaiting"]
    <2>1. s \in Steps
      BY NoStepType DEF Steps, Phases
    <2>2. PICK ok \in Posting : Tap(s, ok)
      BY <1>1 DEF BeginStep
    <2> HIDE DEF s
    <2>3. step' \in Steps
      BY <2>1, <2>2, NoStepType DEF Tap, Steps
    <2>4. IsKey([key |-> "direction", direction |-> s.direction])
      BY <2>1 DEF IsKey, Steps
    <2>5. PostedInv'
      BY <2>2, <2>4, PostKeepsPosted DEF Tap, Post
    <2>6. QED
      BY <1>0, <1>00, <1>1, <2>3, <2>5 DEF BeginStep, world, HandsInv
  <1>2. ASSUME RetryStep PROVE ObservedInv'
    <2>1. UNCHANGED <<cast, item, bodies, flight>>
      BY <1>2 DEF RetryStep, world
    <2>2. CASE step' = NoStep /\ UNCHANGED posted
      BY <1>0, <1>00, <1>000, <2>1, <2>2, NoStepType DEF HandsInv
    <2>3. CASE \E ok \in Posting : Tap(step, ok)
      <3>1. PICK ok \in Posting : Tap(step, ok)
        BY <2>3
      <3>2. IsKey([key |-> "direction", direction |-> step.direction])
        BY DEF IsKey, HandsInv, Steps
      <3>3. PostedInv'
        BY <3>1, <3>2, PostKeepsPosted DEF Tap, Post
      <3>4. step' \in Steps
        BY <3>1, NoStepType DEF Tap, HandsInv, Steps
      <3>5. QED
        BY <1>0, <1>00, <2>1, <3>3, <3>4 DEF HandsInv
    <2>4. QED
      BY <1>2, <2>2, <2>3 DEF RetryStep
  <1>3. ASSUME NEW slot \in 1..26, BeginCast(slot) PROVE ObservedInv'
    <2>1. cast' \in Uses
      BY <1>3, BegunUse DEF BeginCast, HandsInv
    <2>2. QED
      BY <1>0, <1>00, <1>000, <1>3, <2>1 DEF BeginCast, world, HandsInv
  <1>4. ASSUME NEW slot \in 1..26, BeginUse(slot) PROVE ObservedInv'
    <2>1. [item EXCEPT !.slot = slot, !.phase = "thrown"] \in Uses
      <3>1. slot \in 0..26 /\ "thrown" \in Phases
        BY DEF Phases
      <3>2. QED
        BY <3>1, ChangedUse DEF HandsInv
    <2>2. item' \in Uses
      BY <1>4, <2>1, BegunUse DEF BeginUse, HandsInv
    <2>3. QED
      BY <1>0, <1>00, <1>000, <1>4, <2>2 DEF BeginUse, world, HandsInv
  <1>5. ASSUME BeginRefresh PROVE ObservedInv'
    <2>1. IsKey([key |-> "refresh"])
      BY DEF IsKey
    <2>2. PostedInv'
      BY <1>5, <2>1, PostKeepsPosted DEF BeginRefresh, Post
    <2>3. QED
      BY <1>0, <1>00, <1>5, <2>2 DEF BeginRefresh, world, HandsInv
  <1>6. ASSUME NEW a \in Plain, PerformPlain(a) PROVE ObservedInv'
    <2>1. IsIntent(a)
      BY IntentsAreTyped
    <2>2. PostedInv' /\ QueuedInv'
      BY <1>0, <1>000, <1>6, <2>1, SubmitKeeps DEF PerformPlain
    <2>3. QED
      BY <1>00, <1>6, <2>2 DEF PerformPlain, world, HandsInv
  <1>7. ASSUME CastLetter PROVE ObservedInv'
    <2>1. PICK ok \in Posting :
            /\ Post([key |-> "spell", slot |-> Head(cast.letters)], ok)
            /\ cast' = IF Len(cast.letters) > 1 \/ ~Active(cast)
                         THEN Lettered(cast)
                       ELSE IF ok THEN [Lettered(cast) EXCEPT !.phase = "awaiting"]
                       ELSE Done(Lettered(cast))
      BY <1>7 DEF CastLetter
    <2>2. Head(cast.letters) \in 1..26 /\ Lettered(cast) \in Uses
      BY <1>7, FirstLetter DEF CastLetter, HandsInv
    <2>3. IsKey([key |-> "spell", slot |-> Head(cast.letters)])
      BY <2>2 DEF IsKey
    <2>4. PostedInv'
      BY <2>1, <2>3, PostKeepsPosted DEF Post
    <2>5. [Lettered(cast) EXCEPT !.phase = "awaiting"] \in Uses
      BY <2>2 DEF Uses, Phases
    <2>6. cast' \in Uses
      BY <2>1, <2>2, <2>5, DoneUse
    <2>7. QED
      BY <1>0, <1>00, <1>7, <2>4, <2>6 DEF CastLetter, world, HandsInv
  <1>8. ASSUME UseLetter PROVE ObservedInv'
    <2>1. PICK ok \in Posting :
            /\ Post([key |-> "item", slot |-> Head(item.letters)], ok)
            /\ item' = IF Len(item.letters) > 1 \/ item.phase = "thrown"
                         THEN Lettered(item)
                       ELSE IF ok
                         THEN [slot |-> Head(item.letters), phase |-> "awaiting",
                               letters |-> <<>>]
                       ELSE Done(Lettered(item))
      BY <1>8 DEF UseLetter
    <2>2. Head(item.letters) \in 1..26 /\ Lettered(item) \in Uses
      BY <1>8, FirstLetter DEF UseLetter, HandsInv
    <2>3. IsKey([key |-> "item", slot |-> Head(item.letters)])
      BY <2>2 DEF IsKey
    <2>4. PostedInv'
      BY <2>1, <2>3, PostKeepsPosted DEF Post
    <2>5. [slot |-> Head(item.letters), phase |-> "awaiting", letters |-> <<>>] \in Uses
      <3>1. Head(item.letters) \in 0..26 /\ <<>> \in Seq(1..26)
        BY <2>2
      <3>2. QED
        BY <3>1 DEF Uses, Phases
    <2>6. item' \in Uses
      BY <2>1, <2>2, <2>5, DoneUse
    <2>7. QED
      BY <1>0, <1>00, <1>8, <2>4, <2>6 DEF UseLetter, world, HandsInv
  <1>9. ASSUME UseElapses PROVE ObservedInv'
    BY <1>0, <1>00, <1>000, <1>9, DoneUse DEF UseElapses, world, HandsInv
  <1>10. ASSUME WakeAgain PROVE ObservedInv'
    <2> DEFINE e == bodies[1]
               f == [e EXCEPT !.wakes = @ + 1]
    <2>1. /\ Len(bodies) \in Nat /\ DOMAIN bodies = 1..Len(bodies) /\ 1 \in DOMAIN bodies
          /\ Head(bodies) = e /\ IsQueued(e)
      BY <1>10, SequenceSteps DEF WakeAgain, QueuedInv
    <2>2. bodies' = [bodies EXCEPT ![1] = f]
      BY <1>10 DEF WakeAgain
    <2>3. IsQueued(f)
      <3> HIDE DEF e
      <3> DEFINE intent == e.intent
                 named == e.named
                 body == e.body
                 wakes == e.wakes
      <3>1. e = [intent |-> intent, named |-> named, body |-> body, wakes |-> wakes]
        BY <2>1 DEF IsQueued
      <3>2. IsIntent(intent) /\ Observed(body) = named
        BY <2>1 DEF IsQueued
      <3> HIDE DEF intent, named, body, wakes
      <3>3. f = [intent |-> intent, named |-> named, body |-> body, wakes |-> wakes + 1]
        BY <3>1
      <3>4. QED
        BY <3>2, <3>3 DEF IsQueued
    <2> HIDE DEF f
    <2>4. /\ DOMAIN bodies' = DOMAIN bodies
          /\ \A i \in DOMAIN bodies : bodies'[i] = IF i = 1 THEN f ELSE bodies[i]
      BY <2>1, <2>2
    <2>5. IsSequence(bodies')
      <3>1. PICK S : bodies \in Seq(S)
        BY DEF QueuedInv, IsSequence
      <3> DEFINE T == S \cup {f}
      <3>2. bodies \in Seq(T) /\ f \in T
        BY <3>1
      <3> HIDE DEF T
      <3>3. bodies' \in Seq(T)
        BY <2>1, <2>2, <3>2
      <3>4. QED
        BY <3>3 DEF IsSequence
    <2>6. QueuedInv'
      BY <2>3, <2>4, <2>5 DEF QueuedInv
    <2>7. PostedInv'
      BY <1>10, <2>1, WakeKeepsPosted DEF WakeAgain, IsQueued
    <2>8. QED
      BY <1>00, <1>10, <2>6, <2>7 DEF WakeAgain, world, HandsInv
  <1>11. ASSUME Flush PROVE ObservedInv'
    <2>1. bodies # <<>> /\ bodies' = Tail(bodies) /\ UNCHANGED <<step, cast, item, posted>>
      BY <1>11 DEF Flush
    <2>2. Head(bodies) = bodies[1] /\ 1 \in DOMAIN bodies
      BY <2>1, SequenceSteps DEF QueuedInv
    <2>3. Observed(Head(bodies).body) = Head(bodies).named
      BY <2>2 DEF QueuedInv, IsQueued
    <2>4. FlightInv'
      BY <1>11, <2>3, ReportKeepsFlight DEF Flush
    <2>5. QED
      BY <1>000, <2>1, <2>4, ShorterKeepsQueued DEF HandsInv
  <1>12. ASSUME TakeKey PROVE ObservedInv'
    <2>1. posted # <<>> /\ posted' = Tail(posted)
      BY <1>12 DEF TakeKey
    <2>2. /\ Head(posted) = posted[1] /\ 1 \in DOMAIN posted /\ IsSequence(posted')
          /\ \A i \in DOMAIN posted' : i + 1 \in DOMAIN posted /\ posted'[i] = posted[i + 1]
      BY <2>1, SequenceSteps DEF PostedInv
    <2>3. PostedInv' /\ IsKey(Head(posted))
      BY <2>2 DEF PostedInv
    <2>4. CASE \E a \in ActsOf(Head(posted)) : ClientSends(a)
      BY <2>3, <2>4, ActsOfKeys, ClientSendsKeepsObserved
    <2>5. CASE UNCHANGED <<step, cast, item, bodies, flight, evidence>>
      BY <1>0, <1>00, <2>3, <2>5 DEF HandsInv
    <2>6. QED
      BY <1>12, <2>4, <2>5 DEF TakeKey
  <1>13. ASSUME ByHand PROVE ObservedInv'
    <2>1. PICK a \in OwnActs : ClientSends(a)
      BY <1>13 DEF ByHand
    <2>2. IsAct(a)
      BY ActsAreTyped
    <2>3. QED
      BY <1>000, <1>13, <2>1, <2>2, ClientSendsKeepsObserved DEF ByHand
  <1>14. ASSUME Reduce PROVE ObservedInv'
    <2>1. UNCHANGED <<step, cast, item, bodies, posted>>
      BY <1>14 DEF Reduce, client
    <2>2. /\ IsSequence(flight')
          /\ \A i \in DOMAIN flight' : i + 1 \in DOMAIN flight /\ flight'[i] = flight[i + 1]
      BY <1>14, SequenceSteps DEF Reduce, FlightInv
    <2>3. FlightInv'
      BY <2>2 DEF FlightInv
    <2>4. QED
      BY <1>0, <1>000, <2>1, <2>3 DEF HandsInv
  <1>15. ASSUME KeyIntent PROVE ObservedInv'
    <2>1. PICK a \in Keys :
            \/ a.intent = "Step" /\ BeginStep(a.direction)
            \/ a.intent = "Cast" /\ BeginCast(a.slot)
            \/ a.intent = "UseInventory" /\ BeginUse(a.slot)
            \/ a.intent = "RefreshMap" /\ BeginRefresh
      BY <1>15 DEF KeyIntent
    <2>2. /\ a.intent = "Step" => a.direction \in 0..3
          /\ a.intent \in {"Cast", "UseInventory"} => a.slot \in 1..26
      BY IntentsAreTyped DEF InventorySlots, SpellSlots
    <2>3. QED
      BY <1>1, <1>3, <1>4, <1>5, <2>1, <2>2
  <1>16. ASSUME LateTimer PROVE ObservedInv'
    <2>1. UNCHANGED <<step, cast, item, bodies, posted, flight>>
      BY <1>16 DEF LateTimer, world
    <2>2. QED
      BY <1>0, <1>00, <1>000, <2>1 DEF HandsInv
  <1>17. QED
    BY <1>6, <1>2, <1>16, <1>7, <1>8, <1>9, <1>10, <1>11, <1>12, <1>13, <1>14, <1>15
       DEF NextIntents, Timers

(* The caller submits what its types admit. *)
LEMMA CallKeepsObserved ==
  ASSUME ObservedInv, CallInv, Confirm \/ FaceAndAttack \/ GiveUp PROVE ObservedInv'
  <1> USE DEF ObservedInv
  <1>1. ASSUME NEW a, IsIntent(a), NEW next, Performs(a, next) PROVE ObservedInv'
    <2>1. PostedInv' /\ QueuedInv'
      <3>1. CASE Submit(a)
        BY <1>1, <3>1, SubmitKeeps
      <3>2. CASE UNCHANGED <<bodies, posted>>
        BY <3>2, ShorterKeepsQueued DEF PostedInv
      <3>3. QED
        BY <1>1, <3>1, <3>2 DEF Performs
    <2>2. UNCHANGED <<step, cast, item, flight>>
      BY <1>1 DEF Performs, world
    <2>3. QED
      BY <2>1, <2>2 DEF HandsInv, FlightInv
  <1>2. ASSUME Rest PROVE ObservedInv'
    <2>1. UNCHANGED <<step, cast, item, bodies, posted, flight>>
      BY <1>2 DEF Rest, client, world
    <2>2. QED
      BY <2>1, ShorterKeepsQueued DEF HandsInv, FlightInv, PostedInv
  <1>3. CASE Confirm
    <2>1. ASSUME Dispatch PROVE ObservedInv'
      <3>1. call \in ConfirmCalls
        BY <2>1, KnownCall DEF Dispatch
      <3>2. IsIntent(call.intent)
        BY <3>1, CallsAreTyped DEF ConfirmCalls
      <3>3. QED
        BY <1>1, <2>1, <3>2 DEF Dispatch
    <2>2. QED
      BY <1>2, <1>3, <2>1 DEF Confirm, Subscribe, ConfirmAccepted, Accepted,
                              Confirms, ConfirmElapses
  <1>4. CASE FaceAndAttack
    <2>1. ASSUME Turn \/ Strike PROVE ObservedInv'
      <3>1. call.phase \in Looking \/ call.phase \in Striking
        BY <2>1 DEF Turn, Strike, Looking, Striking
      <3>2. call.direction \in 0..3
        BY <3>1, KnownCall, CallsAreTyped DEF AttackCalls
      <3>3. IsIntent(Strikes("Face")) /\ IsIntent(Strikes("Attack"))
        BY <3>2 DEF IsIntent, Strikes, Submittable
      <3>4. QED
        BY <1>1, <2>1, <3>3 DEF Turn, Strike
    <2>2. QED
      BY <1>2, <1>4, <2>1 DEF FaceAndAttack, BeginAttack, FacingRetained, FacingDiffers,
         TurnAccepted, Accepted, TurnObserved, TurnElapses, TurnStruck,
         TurnDidNotStrike, Fence, StrikeAccepted, StrikeObserved, StrikeElapses
  <1>5. CASE GiveUp
    BY <1>2, <1>5 DEF GiveUp
  <1>6. QED
    BY <1>3, <1>4, <1>5
-----------------------------------------------------------------------------
CountInv == performed \in Nat

LEMMA IntentsCount ==
  ASSUME CountInv, NextIntents PROVE CountInv'
  <1>1. performed' = performed \/ Perform
    BY DEF NextIntents, KeyIntent, Timers, BeginStep, RetryStep, LateTimer, BeginCast,
           BeginUse, BeginRefresh, PerformPlain, WakeAgain, CastLetter, UseLetter,
           UseElapses, Flush, TakeKey, ByHand, Reduce
  <1>2. QED
    BY <1>1 DEF CountInv, Perform

IInv == EvidenceInv /\ LogInv /\ CallInv /\ ObservedInv /\ CountInv

(* The inductive invariant: a step that is known to have moved has ended,   *)
(* every call keeps to what its phase says, and every body that is queued   *)
(* or on its way says what was meant.                                       *)
THEOREM InvHolds == Spec => []IInv
  <1>1. InitCall => IInv
    <2>1. \A x : <<>> \in Seq({x})
      OBVIOUS
    <2>2. <<>> \in Seq(1..26) /\ DOMAIN <<>> = {}
      OBVIOUS
    <2>3. InitCall => HandsInv
      BY <2>2 DEF InitCall, Init, HandsInv, Uses, Steps, Phases, NoStep, NoUse
    <2>4. QED
      BY <2>1, <2>2, <2>3 DEF InitCall, Init, Idle, IInv, EvidenceInv, LogInv,
         CallInv, IsSequence, ObservedInv, PostedInv, QueuedInv, FlightInv, CountInv
  <1>2. IInv /\ [Next]_allVars => IInv'
    <2> SUFFICES ASSUME IInv, [Next]_allVars PROVE IInv'
      OBVIOUS
    <2>1. CASE NextIntents /\ UNCHANGED call
      BY <2>1, IntentsKeepEvidence, IntentsGrowLog, GrowthKeepsCallInv, IntentsKeepObserved,
         IntentsCount DEF IInv, LogGrows, LogInv
    <2>2. CASE Confirm \/ FaceAndAttack \/ GiveUp
      <3>1. UNCHANGED <<log, performed>>
        BY <2>2, CallKeepsLog
      <3>2. CallInv'
        BY <2>2, <3>1, ConfirmKeepsCallInv, TurnKeepsCallInv, StrikeKeepsCallInv,
           FailKeepsCallInv DEF FaceAndAttack, GiveUp, IInv
      <3>3. QED
        BY <2>2, <3>1, <3>2, CallKeepsEvidence, CallKeepsObserved
           DEF IInv, LogInv, CountInv
    <2>3. CASE UNCHANGED allVars
      <3>1. UNCHANGED <<step, cast, item, bodies, posted, flight, evidence, log, call,
                        performed>>
        BY <2>3 DEF allVars, vars, client, world
      <3>2. LogGrows
        BY <3>1, LogLength DEF LogGrows, IInv, LogInv
      <3>3. ObservedInv'
        BY <3>1 DEF IInv, ObservedInv, PostedInv, HandsInv, QueuedInv, FlightInv
      <3>4. QED
        BY <3>1, <3>2, <3>3, GrowthKeepsCallInv DEF IInv, EvidenceInv, LogInv, CountInv
    <2>4. QED
      BY <2>1, <2>2, <2>3 DEF Next
  <1>3. QED
    BY <1>1, <1>2, PTL DEF Spec

(* Every body that agent or client writes for an intent is decoded, and     *)
(* reduced, as what the intent said: for any intents that the adapter API   *)
(* admits, in any order, and whoever else acts meanwhile.                   *)
THEOREM IntentsAreObserved == Spec => []EveryIntentIsObserved
  <1>1. LimitsDecode
    BY IntentsAreTyped, IntentObserved DEF LimitsDecode
  <1>2. IInv => EveryIntentIsObserved
    BY <1>1 DEF IInv, ObservedInv, FlightInv, EveryIntentIsObserved
  <1>3. QED
    BY <1>2, InvHolds, PTL

(* A report names evidence of what was asked, later than what was there     *)
(* when the call began: Confirm::run and face_and_attack, for any scripts,  *)
(* intents, deadlines and bounds.                                           *)
THEOREM ReportsAreEvidence == Spec => []ReportIsEvidence
  <1>1. CallInv => ReportIsEvidence
    BY DEF CallInv, ConfirmCalls, AttackCalls, ReportInv, ReportIsEvidence,
           Looking, Turning, Striking
  <1>2. QED
    BY <1>1, InvHolds, PTL DEF IInv

(* What a timer may tap, for a step that is active and has no evidence.     *)
Rightly ==
  Active(step) /\ (Len(posted') > Len(posted) =>
    posted'[Len(posted')] = [key |-> "direction", direction |-> step.direction])

LEMMA PostedLast ==
  ASSUME PostedInv, NEW key, posted' = posted \/ posted' = Append(posted, key)
  PROVE  Len(posted') > Len(posted) => posted'[Len(posted')] = key
  BY SequenceSteps DEF PostedInv

LEMMA NotMore == \A n \in Nat : ~(n > n)
  OBVIOUS

(* A step that is replaced by none, or changes its phase, has no more taps. *)
LEMMA NoMoreTaps ==
  ASSUME HandsInv, \/ step' \in {step, NoStep}
                   \/ step' = [step EXCEPT !.phase = "turn observed"]
  PROVE  ~(step'.taps > step.taps)
  <1>1. step.taps \in Nat
    BY DEF HandsInv, Steps
  <1>2. CASE step' = step
    BY <1>1, <1>2
  <1>3. CASE step' = NoStep
    BY <1>1, <1>3 DEF NoStep
  <1>4. CASE step' = [step EXCEPT !.phase = "turn observed"]
    <2>1. step'.taps = step.taps
      BY <1>4 DEF HandsInv, Steps
    <2>2. QED
      BY ONLY <1>1, <2>1, NotMore, Zenon
  <1>5. QED
    BY <1>2, <1>3, <1>4

(* What the client sends of itself neither taps nor posts. *)
LEMMA ClientSendsNoTap ==
  ASSUME HandsInv, NEW a, ClientSends(a) PROVE ~(step'.taps > step.taps)
  BY NoMoreTaps DEF ClientSends, NoteStep

LEMMA IntentsTapRightly ==
  ASSUME ObservedInv, CountInv, NextIntents, TimerTaps, performed' = performed
  PROVE  Rightly
  <1> USE DEF ObservedInv
  <1>1. CASE RetryStep
    <2>1. Active(step)
      BY <1>1 DEF RetryStep
    <2>2. posted' = posted
            \/ posted' = Append(posted, [key |-> "direction", direction |-> step.direction])
      BY <1>1 DEF RetryStep, Tap, Post
    <2>3. QED
      BY <2>1, <2>2, PostedLast DEF Rightly
  <1>2. CASE CastLetter \/ UseLetter
    <2>1. PICK k : k.key # "direction" /\ (posted' = posted \/ posted' = Append(posted, k))
      <3>1. CASE CastLetter
        <4> DEFINE k == [key |-> "spell", slot |-> Head(cast.letters)]
        <4>1. k.key = "spell" /\ (posted' = posted \/ posted' = Append(posted, k))
          BY <3>1 DEF CastLetter, Post
        <4> HIDE DEF k
        <4>2. QED
          BY <4>1
      <3>2. CASE UseLetter
        <4> DEFINE k == [key |-> "item", slot |-> Head(item.letters)]
        <4>1. k.key = "item" /\ (posted' = posted \/ posted' = Append(posted, k))
          BY <3>2 DEF UseLetter, Post
        <4> HIDE DEF k
        <4>2. QED
          BY <4>1
      <3>3. QED
        BY <1>2, <3>1, <3>2
    <2>2. step' = step
      BY <1>2 DEF CastLetter, UseLetter
    <2>3. QED
      BY <2>1, <2>2, NoMoreTaps, PostedLast DEF TimerTaps
  <1>3. CASE WakeAgain
    <2>1. step' = step
      BY <1>3 DEF WakeAgain
    <2>2. bodies' # <<>>
      <3>1. DOMAIN bodies = 1..Len(bodies) /\ 1 \in DOMAIN bodies
        BY <1>3, SequenceSteps DEF WakeAgain, QueuedInv
      <3>2. DOMAIN bodies' = DOMAIN bodies
        BY <1>3 DEF WakeAgain
      <3>3. DOMAIN <<>> = {}
        OBVIOUS
      <3>4. QED
        BY <3>1, <3>2, <3>3
    <2>3. QED
      BY <2>1, <2>2, NoMoreTaps DEF TimerTaps
  <1>4. CASE LateTimer \/ UseElapses \/ Flush \/ Reduce
    <2>1. UNCHANGED <<step, posted>>
      BY <1>4 DEF LateTimer, UseElapses, Flush, Reduce, client
    <2>2. Len(posted) \in Nat
      BY SequenceSteps DEF PostedInv
    <2>3. QED
      BY <2>1, <2>2, NoMoreTaps DEF TimerTaps
  <1>5. CASE TakeKey
    <2>1. ~(step'.taps > step.taps)
      BY <1>5, ClientSendsNoTap, NoMoreTaps DEF TakeKey
    <2>2. posted # <<>> /\ posted' = Tail(posted)
      BY <1>5 DEF TakeKey
    <2>3. /\ Len(posted) \in Nat /\ DOMAIN posted = 1..Len(posted)
          /\ IsSequence(posted') /\ \A i \in DOMAIN posted' : i + 1 \in DOMAIN posted
      BY <2>2, SequenceSteps DEF PostedInv
    <2>4. Len(posted') \in Nat /\ DOMAIN posted' = 1..Len(posted')
      BY <2>3, SequenceSteps
    <2>5. ~(Len(posted') > Len(posted))
      <3>1. Len(posted') = 0 \/ Len(posted') \in DOMAIN posted'
        BY <2>4
      <3>2. Len(posted') = 0 \/ Len(posted') + 1 \in 1..Len(posted)
        BY <2>3, <3>1
      <3>3. QED
        BY <2>3, <2>4, <3>2
    <2>6. QED
      BY <2>1, <2>5 DEF TimerTaps
  <1>6. CASE ByHand
    <2>1. ~(step'.taps > step.taps)
      BY <1>6, ClientSendsNoTap DEF ByHand
    <2>2. posted' = posted /\ Len(posted) \in Nat
      BY <1>6, SequenceSteps DEF ByHand, PostedInv
    <2>3. QED
      BY <2>1, <2>2 DEF TimerTaps
  <1>7. CASE KeyIntent \/ \E a \in Plain : PerformPlain(a)
    <2>1. Perform
      BY <1>7 DEF KeyIntent, BeginStep, BeginCast, BeginUse, BeginRefresh, PerformPlain
    <2>2. QED
      BY <2>1 DEF Perform, CountInv
  <1>8. QED
    BY <1>1, <1>2, <1>3, <1>4, <1>5, <1>6, <1>7 DEF NextIntents, Timers

(* A call that submits queues a body, and its wake is no tap. *)
LEMMA CallTapsNothing ==
  ASSUME ObservedInv, CallInv, Confirm \/ FaceAndAttack \/ GiveUp PROVE ~TimerTaps
  <1> USE DEF ObservedInv
  <1>0. Len(posted) \in Nat
    BY SequenceSteps DEF PostedInv
  <1>1. ASSUME NEW a, IsIntent(a), NEW next, Performs(a, next) PROVE ~TimerTaps
    <2>1. step' = step
      BY <1>1 DEF Performs
    <2>2. bodies' # <<>> \/ UNCHANGED posted
      BY <1>1, SubmitKeeps DEF Performs
    <2>3. QED
      BY <1>0, <2>1, <2>2, NoMoreTaps DEF TimerTaps
  <1>2. ASSUME Rest PROVE ~TimerTaps
    <2>1. UNCHANGED <<step, posted>>
      BY <1>2 DEF Rest, client
    <2>2. QED
      BY <1>0, <2>1, NoMoreTaps DEF TimerTaps
  <1>3. CASE Confirm
    <2>1. ASSUME Dispatch PROVE ~TimerTaps
      <3>1. call \in ConfirmCalls
        BY <2>1, KnownCall DEF Dispatch
      <3>2. IsIntent(call.intent)
        BY <3>1, CallsAreTyped DEF ConfirmCalls
      <3>3. QED
        BY <1>1, <2>1, <3>2 DEF Dispatch
    <2>2. QED
      BY <1>2, <1>3, <2>1 DEF Confirm, Subscribe, ConfirmAccepted, Accepted,
                              Confirms, ConfirmElapses
  <1>4. CASE FaceAndAttack
    <2>1. ASSUME Turn \/ Strike PROVE ~TimerTaps
      <3>1. call.phase \in Looking \/ call.phase \in Striking
        BY <2>1 DEF Turn, Strike, Looking, Striking
      <3>2. call.direction \in 0..3
        BY <3>1, KnownCall, CallsAreTyped DEF AttackCalls
      <3>3. IsIntent(Strikes("Face")) /\ IsIntent(Strikes("Attack"))
        BY <3>2 DEF IsIntent, Strikes, Submittable
      <3>4. QED
        BY <1>1, <2>1, <3>3 DEF Turn, Strike
    <2>2. QED
      BY <1>2, <1>4, <2>1 DEF FaceAndAttack, BeginAttack, FacingRetained, FacingDiffers,
         TurnAccepted, Accepted, TurnObserved, TurnElapses, TurnStruck,
         TurnDidNotStrike, Fence, StrikeAccepted, StrikeObserved, StrikeElapses
  <1>5. CASE GiveUp
    BY <1>2, <1>5 DEF GiveUp
  <1>6. QED
    BY <1>3, <1>4, <1>5

(* Timers tap only the step in hand, and not once it is known to have moved *)
(* or to be obstructed, however late the client answers and whoever made it *)
(* move; the timer of a step that is complete or replaced taps nothing.     *)
THEOREM NothingIsTappedTwice == Spec => NoTapAfterEvidence
  <1> DEFINE Taps == TimerTaps /\ performed' = performed =>
                       /\ Active(step) /\ ~evidence
                       /\ Len(posted') > Len(posted) =>
                            posted'[Len(posted')] =
                              [key |-> "direction", direction |-> step.direction]
  <1>1. ASSUME IInv, [Next]_allVars PROVE [Taps]_vars
    <2>1. CASE NextIntents
      BY <1>1, <2>1, IntentsTapRightly DEF IInv, EvidenceInv, Rightly
    <2>2. CASE Confirm \/ FaceAndAttack \/ GiveUp
      BY <1>1, <2>2, CallTapsNothing DEF IInv
    <2>3. QED
      BY <1>1, <2>1, <2>2 DEF Next, allVars
  <1>2. QED
    BY <1>1, InvHolds, PTL DEF Spec, NoTapAfterEvidence
===============================================================================
