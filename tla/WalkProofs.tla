----------------------------- MODULE WalkProofs -----------------------------
(***************************************************************************)
(* Proofs about WalkController, for any map, target, limits, refusals and  *)
(* number of packets: who is told that it has arrived has been there, and  *)
(* an edge is avoided on evidence about that edge only.                    *)
(***************************************************************************)
EXTENDS WalkController, SequenceTheorems, TLAPS

(* Two snapshots of one epoch are of one map, and the walk's epoch is that  *)
(* of the map its target is bound to.                                       *)
MapsInv ==
  /\ published.on = place[1]
  /\ latest.epoch <= published.epoch
  /\ latest.epoch = published.epoch => latest.on = published.on
  /\ pc \notin {"begin", "done"} =>
       epoch <= latest.epoch /\ (epoch = latest.epoch => bound = latest.on)

(* A position in a snapshot is one at which the client has been.            *)
VisitedInv ==
  /\ place \in visited
  /\ Localized(latest) => <<latest.on, latest.position>> \in visited
  /\ Localized(published) => <<published.on, published.position>> \in visited

(* A step on its n-th try has been silent n - 1 times.                      *)
StepInv ==
  /\ pc \in {"submit", "wait"} =>
       edge \in Edges /\ observation >= 1 /\ evidence[edge] >= observation - 1
  /\ pc = "probe" => probes < 4

ArrivalInv ==
  result.kind = "Arrived" => pc = "done" /\ <<bound, Target>> \in visited

IInv == TypeOK /\ MapsInv /\ VisitedInv /\ StepInv /\ ArrivalInv
          /\ LearnedOnEvidence
-----------------------------------------------------------------------------
(* What the planner may answer: Arrived only on the target, and a route     *)
(* begins in some direction from a known position.                          *)
LEMMA PlanAnswers ==
  ASSUME NEW s, NEW plan \in PlansOf(s)
  PROVE  /\ plan.kind = "Arrived" => s.origin # Nowhere /\ s.origin = s.target
         /\ plan.kind \in {"Route", "Frontier"} =>
              plan.first \in Directions /\ s.origin # Nowhere
  <1>1. CASE Preliminary(s) # "search"
    <2>1. plan.kind = Preliminary(s)
      BY <1>1 DEF PlansOf
    <2>2. CASE s.origin = Nowhere
      BY <2>1, <2>2 DEF Preliminary
    <2>3. CASE s.origin # Nowhere /\ s.origin = s.target
      BY <2>1, <2>3 DEF Preliminary
    <2>4. CASE s.origin \notin {Nowhere, s.target}
      BY <2>1, <2>4 DEF Preliminary
    <2>5. QED
      BY <2>2, <2>3, <2>4
  <1>2. CASE Preliminary(s) = "search"
    <2>1. PICK kind, edges, layers :
            /\ kind \in {"Route", "Frontier"} /\ edges \subseteq Edges
            /\ plan \in ShortestPlans(s.origin, kind, edges, layers)
      <3> DEFINE style == IF Goal(s).kind = "Target" THEN "Route" ELSE "Frontier"
                 reach == {e \in Edges : Enterable(s, e)}
                 plans(set) ==
                   UNION {ShortestPlans(s.origin, style, set, tower) :
                            tower \in Layers(set, Goal(s).at)}
      <3>1. plan \in UNION {plans(set) : set \in {reach}}
        BY <1>2 DEF PlansOf
      <3>2. plan \in plans(reach)
        BY <3>1
      <3>3. style \in {"Route", "Frontier"} /\ reach \subseteq Edges
        OBVIOUS
      <3> HIDE DEF style, reach
      <3>4. QED
        BY <3>2, <3>3
    <2>2. \/ plan.kind = "NoRoute"
          \/ plan.kind = kind /\ \E e \in Edges : plan.first = e[2]
      <3> DEFINE near == {n \in 1..Len(layers) : s.origin \in layers[n]}
                 firsts == {f \in edges : /\ f[1] = s.origin
                                         /\ Destination(f) \in layers[Min(near) - 1]}
      <3>1. \/ plan = [kind |-> "NoRoute"]
            \/ plan \in {[kind |-> kind, first |-> e[2], length |-> Min(near) - 1] :
                           e \in firsts}
        BY <2>1 DEF ShortestPlans
      <3>2. firsts \subseteq Edges /\ kind \in {"Route", "Frontier"}
        BY <2>1
      <3> HIDE DEF near, firsts
      <3>3. QED
        BY <3>1, <3>2
    <2>3. \A e \in Edges : e[2] \in Directions
      BY DEF Edges
    <2>4. s.origin # Nowhere
      BY <1>2 DEF Preliminary
    <2>5. QED
      BY <2>1, <2>2, <2>3, <2>4
  <1>3. QED
    BY <1>1, <1>2

(* The plans of a walk, in its own terms.                                   *)
LEMMA WalkPlans ==
  ASSUME TypeOK, NEW plan \in Plans
  PROVE  /\ plan.kind = "Arrived" =>
              Localized(latest) /\ latest.position = Target
         /\ plan.kind \in {"Route", "Frontier"} =>
              <<latest.position, plan.first>> \in Edges
  <1>1. plan \in PlansOf(SceneOf(latest))
    BY DEF Plans
  <1>2. SceneOf(latest).origin = latest.position /\ SceneOf(latest).target = Target
    BY DEF SceneOf
  <1>3. latest.position \in Positions \cup {Nowhere}
    BY DEF TypeOK, Snapshots
  <1>4. QED
    BY <1>1, <1>2, <1>3, PlanAnswers DEF Localized, Edges
-----------------------------------------------------------------------------
LEMMA WalkTypesStep ==
  ASSUME TypeOK, StepInv, Walk
  PROVE  TypeOK'
  <1> USE LimitAssumption DEF TypeOK, gameVars, gameButKeys
  <1>1. CASE Bootstrap
    <2>1. latest.epoch \in Nat
      BY DEF Snapshots
    <2>2. QED
      BY <1>1, <2>1 DEF Bootstrap
  <1>2. CASE PerformFails
    BY <1>2 DEF PerformFails, Return
  <1>3. CASE WaitLocalized \/ WaitStep
    BY <1>3 DEF WaitLocalized, WaitStep, Refresh
  <1>4. CASE ReadyOrProbed
    <2>1. latest.epoch \in Nat
      BY DEF Snapshots
    <2>2. QED
      BY <1>4, <2>1 DEF ReadyOrProbed
  <1>5. CASE Probe
    <2>1. probes' \in 1..4
      BY <1>5 DEF Probe, StepInv
    <2>2. <<"Up", "Right", "Down", "Left">>[probes'] \in Directions
      BY <2>1 DEF Directions
    <2>3. keys' \in Seq(Directions)
      BY <1>5, <2>2, AppendProperties DEF Probe, Perform
    <2>4. QED
      BY <1>5, <2>1, <2>3 DEF Probe
  <1>6. CASE LocalizedTimeout \/ EpochAdvanced
    BY <1>6 DEF LocalizedTimeout, EpochAdvanced, Return
  <1>7. CASE Replan
    <2>1. PICK plan \in Plans : TakeStep(plan) \/ Revalidate(plan) \/ PlanEnds(plan)
      BY <1>7 DEF Replan
    <2>2. TakeStep(plan) => edge' \in Edges /\ observation' \in 0..EdgeObservations
      BY WalkPlans DEF TakeStep
    <2>3. Revalidate(plan) => revalidations' \in 0..RevalidationEpochs
      BY DEF Revalidate
    <2>4. QED
      BY <1>7, <2>1, <2>2, <2>3
         DEF Replan, TakeStep, Revalidate, PlanEnds, Return
  <1>8. CASE Submit
    <2>1. edge \in Edges /\ edge[2] \in Directions
      BY <1>8 DEF Submit, StepInv, Edges
    <2>2. keys' \in Seq(Directions)
      BY <1>8, <2>1, AppendProperties DEF Submit, Perform
    <2>3. QED
      BY <1>8, <2>1, <2>2 DEF Submit
  <1>9. CASE AttemptsExhausted \/ StepMoved \/ StepOccupied \/ WorldStopped
    BY <1>9 DEF AttemptsExhausted, StepMoved, StepOccupied, WorldStopped,
                Return, TimedOut
  <1>10. CASE StepObstructed
    BY <1>10 DEF StepObstructed, StepInv
  <1>11. CASE StepSilent
    <2>1. edge \in Edges
      BY <1>11 DEF StepSilent, TimedOut, StepInv
    <2>2. evidence'[edge] \in 0..EdgeObservations
      BY <1>11, <2>1 DEF StepSilent
    <2>3. evidence' \in [Edges -> 0..EdgeObservations]
      BY <1>11, <2>1, <2>2 DEF StepSilent
    <2>4. QED
      BY <1>11, <2>1, <2>3 DEF StepSilent
  <1>12. QED
    BY <1>1, <1>2, <1>3, <1>4, <1>5, <1>6, <1>7, <1>8, <1>9, <1>10, <1>11
       DEF Walk

(* The edge the client is asked to take ends on a position or nowhere.      *)
LEMMA KeyEdge ==
  ASSUME TypeOK, keys # <<>>
  PROVE  /\ <<place[2], Head(keys)>> \in Edges /\ Head(keys) \in Directions
         /\ Tail(keys) \in Seq(Directions)
         /\ Destination(<<place[2], Head(keys)>>) \in Positions \cup {Nowhere}
  BY HeadTailProperties DEF TypeOK, Edges, Destination

LEMMA UnlocalizedTypes ==
  ASSUME NEW map \in {Here, There}, NEW n \in Nat,
         NEW origin \in {"Attachment", "Established", "Crossed"}
  PROVE  /\ Unlocalized(map, n, origin) \in Snapshots
         /\ Unlocalized(map, n, origin).on = map
         /\ Unlocalized(map, n, origin).epoch = n
         /\ ~Localized(Unlocalized(map, n, origin))
  BY DEF Unlocalized, Snapshots, Localized

(* What the game does, as far as the walk's invariants ask.                 *)
LEMMA GameStep ==
  ASSUME TypeOK, MapsInv, VisitedInv, Game
  PROVE  /\ TypeOK'
         /\ MapsInv' /\ VisitedInv'
         /\ visited \subseteq visited'
         /\ UNCHANGED <<pc, result, edge, observation, evidence, knowledge, probes,
                        bound>>
  <1> USE DEF Publish, walkVars
  <1>1. /\ published \in Snapshots /\ latest \in Snapshots
        /\ published.epoch \in Nat /\ latest.epoch \in Nat /\ epoch \in Nat
        /\ place[1] \in {Here, There} /\ place[2] \in Positions
        /\ place = <<place[1], place[2]>>
    BY DEF TypeOK, Snapshots
  <1>2. CASE ClientMoves
    <2> DEFINE e == <<place[2], Head(keys)>>
    <2>1. e \in Edges /\ Destination(e) \in Positions /\ Tail(keys) \in Seq(Directions)
      BY <1>2, KeyEdge DEF ClientMoves, Blocked
    <2>2. /\ place' = <<place[1], Destination(e)>>
          /\ crossedBy' \in {e, crossedBy}
          /\ published' = [published EXCEPT !.position = Destination(e),
                                            !.refusal = "none"]
          /\ visited' = visited \cup {place'} /\ keys' = Tail(keys)
          /\ unseen' = TRUE
          /\ UNCHANGED <<pc, result, latest, epoch, attempts, edge, observation,
                         crossing, knowledge, revalidations, probes, bound,
                         evidence, stopped, refuses, portal, packets>>
      BY <1>2 DEF ClientMoves
    <2> HIDE DEF e
    <2>3. published' \in Snapshots
      BY <1>1, <2>1, <2>2 DEF Snapshots
    <2>4. /\ published'.on = published.on /\ published'.epoch = published.epoch
          /\ published'.position = Destination(e)
      BY <1>1, <2>2 DEF Snapshots
    <2>5. TypeOK'
      BY <1>1, <2>1, <2>2, <2>3 DEF TypeOK
    <2>6. MapsInv' /\ VisitedInv'
      BY <1>1, <2>2, <2>4 DEF MapsInv, VisitedInv, Localized
    <2>7. QED
      BY <2>2, <2>5, <2>6
  <1>3. CASE ClientRefuses
    <2>1. Head(keys) \in Directions /\ Tail(keys) \in Seq(Directions)
      BY <1>3, KeyEdge DEF ClientRefuses
    <2>2. published' \in Snapshots
      BY <1>1, <1>3, <2>1 DEF ClientRefuses, Snapshots
    <2>3. /\ published'.on = published.on /\ published'.epoch = published.epoch
          /\ published'.position = place[2]
      BY <1>1, <1>3 DEF ClientRefuses, Snapshots
    <2>4. TypeOK'
      BY <1>1, <1>3, <2>1, <2>2 DEF ClientRefuses, TypeOK
    <2>5. MapsInv' /\ VisitedInv'
      BY <1>1, <1>3, <2>3 DEF ClientRefuses, MapsInv, VisitedInv, Localized
    <2>6. QED
      BY <1>3, <2>4, <2>5 DEF ClientRefuses
  <1>4. CASE ClientIgnores
    <2>1. Tail(keys) \in Seq(Directions)
      BY <1>4, KeyEdge DEF ClientIgnores
    <2>2. QED
      BY <1>4, <2>1 DEF ClientIgnores, TypeOK, MapsInv, VisitedInv, Localized
  <1>5. CASE ServerCrosses
    <2> DEFINE origin == IF published.epoch = 0 THEN "Established" ELSE "Crossed"
    <2>1. published' = Unlocalized(There, published.epoch + 1, origin)
      BY <1>5 DEF ServerCrosses
    <2>2. origin \in {"Attachment", "Established", "Crossed"}
      OBVIOUS
    <2> HIDE DEF origin
    <2>3. /\ published' \in Snapshots /\ published'.on = There
          /\ published'.epoch = published.epoch + 1
          /\ ~Localized(published')
      BY <1>1, <2>1, <2>2, UnlocalizedTypes
    <2>4. PICK p \in Positions : place' = <<There, p>>
      BY <1>5, WorldAssumption DEF ServerCrosses
    <2>5. /\ visited' = visited \cup {place'} /\ unseen' = TRUE
          /\ UNCHANGED <<pc, result, latest, epoch, attempts, edge, observation,
                         crossing, knowledge, revalidations, probes, bound,
                         evidence, stopped, refuses, portal, keys, crossedBy>>
      BY <1>5 DEF ServerCrosses, ServerDoes
    <2>6. TypeOK'
      BY <2>3, <2>4, <2>5 DEF TypeOK
    <2>7. MapsInv' /\ VisitedInv'
      BY <1>1, <2>3, <2>4, <2>5 DEF MapsInv, VisitedInv, Localized
    <2>8. QED
      BY <2>5, <2>6, <2>7
  <1>6. CASE ServerIdentifies
    <2>1. /\ published' = Unlocalized(place[1], 1, "Established")
          /\ published.epoch = 0 /\ visited' = visited /\ place' = place
          /\ unseen' = TRUE
          /\ UNCHANGED <<pc, result, latest, epoch, attempts, edge, observation,
                         crossing, knowledge, revalidations, probes, bound,
                         evidence, stopped, refuses, portal, keys, crossedBy>>
      BY <1>6 DEF ServerIdentifies, ServerDoes
    <2>2. /\ published' \in Snapshots /\ published'.on = place[1]
          /\ published'.epoch = 1 /\ ~Localized(published')
      BY <1>1, <2>1, UnlocalizedTypes
    <2>3. TypeOK'
      BY <2>1, <2>2 DEF TypeOK
    <2>4. MapsInv' /\ VisitedInv'
      BY <1>1, <2>1, <2>2 DEF MapsInv, VisitedInv, Localized
    <2>5. QED
      BY <2>1, <2>3, <2>4
  <1>7. CASE ServerLocates
    <2>1. PICK p \in Positions :
            /\ place' = <<place[1], p>>
            /\ published' = [published EXCEPT !.position = p, !.refusal = "none"]
            /\ visited' = visited \cup {place'} /\ unseen' = TRUE
            /\ UNCHANGED <<pc, result, latest, epoch, attempts, edge, observation,
                           crossing, knowledge, revalidations, probes, bound,
                           evidence, stopped, refuses, portal, keys, crossedBy>>
      BY <1>1, <1>7, WorldAssumption DEF ServerLocates, ServerDoes
    <2>2. /\ published' \in Snapshots
          /\ published'.on = published.on /\ published'.epoch = published.epoch
          /\ published'.position = p
      BY <1>1, <2>1 DEF Snapshots
    <2>3. TypeOK'
      BY <1>1, <2>1, <2>2 DEF TypeOK
    <2>4. MapsInv' /\ VisitedInv'
      BY <1>1, <2>1, <2>2 DEF MapsInv, VisitedInv, Localized
    <2>5. QED
      BY <2>1, <2>3, <2>4
  <1>8. CASE ServerShowsEntity
    <2>1. PICK p \in Positions \cup {Nowhere}, blocks \in BOOLEAN :
            /\ published' = [published EXCEPT !.entity = p, !.blocks = blocks]
            /\ visited' = visited /\ place' = place /\ unseen' = TRUE
            /\ UNCHANGED <<pc, result, latest, epoch, attempts, edge, observation,
                           crossing, knowledge, revalidations, probes, bound,
                           evidence, stopped, refuses, portal, keys, crossedBy>>
      BY <1>8, WorldAssumption DEF ServerShowsEntity, ServerDoes
    <2>2. /\ published' \in Snapshots
          /\ published'.on = published.on /\ published'.epoch = published.epoch
          /\ published'.position = published.position
      BY <1>1, <2>1 DEF Snapshots
    <2>3. TypeOK'
      BY <2>1, <2>2 DEF TypeOK
    <2>4. MapsInv' /\ VisitedInv'
      BY <1>1, <2>1, <2>2 DEF MapsInv, VisitedInv, Localized
    <2>5. QED
      BY <2>1, <2>3, <2>4
  <1>9. CASE EngineStops
    BY <1>9 DEF EngineStops, TypeOK, MapsInv, VisitedInv, Localized
  <1>10. QED
    BY <1>2, <1>3, <1>4, <1>5, <1>6, <1>7, <1>8, <1>9 DEF Game
-----------------------------------------------------------------------------
(* The walk's own steps: what it has seen it has seen of one map ...        *)
LEMMA MapsStep ==
  ASSUME TypeOK, MapsInv, VisitedInv, Walk
  PROVE  MapsInv' /\ VisitedInv' /\ UNCHANGED <<place, visited>>
  <1> USE DEF MapsInv, VisitedInv, Localized, gameVars, gameButKeys
  <1>1. latest.epoch \in Nat /\ published.epoch \in Nat /\ epoch \in Nat
    BY DEF TypeOK, Snapshots
  <1>2. CASE Bootstrap \/ ReadyOrProbed
    BY <1>1, <1>2 DEF Bootstrap, ReadyOrProbed
  <1>3. CASE WaitLocalized \/ WaitStep
    BY <1>1, <1>3 DEF WaitLocalized, WaitStep, Refresh
  <1>4. CASE PerformFails \/ Probe \/ LocalizedTimeout \/ EpochAdvanced
    BY <1>4 DEF PerformFails, Probe, LocalizedTimeout, EpochAdvanced, Return
  <1>5. CASE Replan
    BY <1>5 DEF Replan, Planning
  <1>6. CASE Submit \/ AttemptsExhausted \/ StepMoved \/ StepObstructed
    BY <1>6 DEF Submit, AttemptsExhausted, StepMoved, StepObstructed, Return
  <1>7. CASE StepOccupied \/ StepSilent \/ WorldStopped
    BY <1>7 DEF StepOccupied, StepSilent, WorldStopped, TimedOut, Return
  <1>8. QED
    BY <1>2, <1>3, <1>4, <1>5, <1>6, <1>7 DEF Walk

(* ... it counts the silence of one step at a time ...                      *)
LEMMA EvidenceStep ==
  ASSUME TypeOK, StepInv, LearnedOnEvidence, Walk
  PROVE  StepInv' /\ LearnedOnEvidence'
  <1> USE LimitAssumption DEF StepInv, LearnedOnEvidence
  <1>1. /\ evidence \in [Edges -> 0..EdgeObservations] /\ knowledge \subseteq Edges
        /\ observation \in 0..EdgeObservations /\ probes \in 0..4
    BY DEF TypeOK
  <1>2. CASE Bootstrap \/ WaitLocalized \/ WaitStep \/ ReadyOrProbed
    BY <1>2 DEF Bootstrap, WaitLocalized, WaitStep, Refresh, ReadyOrProbed
  <1>3. CASE PerformFails \/ Probe \/ EpochAdvanced
    BY <1>3 DEF PerformFails, Probe, EpochAdvanced, Return
  <1>4. CASE LocalizedTimeout
    BY <1>1, <1>4 DEF LocalizedTimeout, Return
  <1>5. CASE Replan
    <2>1. PICK plan \in Plans : TakeStep(plan) \/ Revalidate(plan) \/ PlanEnds(plan)
      BY <1>5 DEF Replan
    <2>2. pc = "plan" /\ UNCHANGED <<evidence, probes>>
      BY <1>5 DEF Replan, Planning
    <2>3. CASE TakeStep(plan)
      <3>1. edge' \in Edges /\ observation' = 1 /\ knowledge' = knowledge
            /\ pc' = "submit"
        BY <2>3, WalkPlans DEF TakeStep
      <3>2. QED
        BY <1>1, <2>2, <3>1
    <2>4. CASE Revalidate(plan) \/ PlanEnds(plan)
      BY <1>1, <2>2, <2>4 DEF Revalidate, PlanEnds, Return
    <2>5. QED
      BY <2>1, <2>3, <2>4
  <1>6. CASE Submit \/ AttemptsExhausted \/ StepMoved
    BY <1>6 DEF Submit, AttemptsExhausted, StepMoved, Return
  <1>7. CASE StepObstructed
    BY <1>1, <1>7 DEF StepObstructed
  <1>8. CASE StepOccupied \/ WorldStopped
    BY <1>8 DEF StepOccupied, WorldStopped, TimedOut, Return
  <1>9. CASE StepSilent
    <2>1. edge \in Edges /\ observation >= 1 /\ evidence[edge] >= observation - 1
      BY <1>9 DEF StepSilent, TimedOut
    <2>2. /\ evidence'[edge] = IF evidence[edge] < EdgeObservations
                                 THEN evidence[edge] + 1 ELSE evidence[edge]
          /\ \A e \in Edges : e # edge => evidence'[e] = evidence[e]
      BY <1>1, <1>9, <2>1 DEF StepSilent
    <2>3. evidence'[edge] \in 0..EdgeObservations /\ evidence'[edge] >= observation
          /\ evidence'[edge] >= evidence[edge]
      BY <1>1, <2>1, <2>2
    <2>4. edge' = edge /\ probes' = probes
      BY <1>9 DEF StepSilent
    <2>5. CASE observation < EdgeObservations
      <3>1. observation' = observation + 1 /\ pc' = "submit" /\ knowledge' = knowledge
        BY <1>9, <2>5 DEF StepSilent
      <3>2. \A e \in knowledge : evidence'[e] = EdgeObservations
        BY <1>1, <2>1, <2>2
      <3>3. QED
        BY <1>1, <2>1, <2>3, <2>4, <3>1, <3>2
    <2>6. CASE ~(observation < EdgeObservations)
      <3>1. pc' = "plan" /\ knowledge' = knowledge \cup {edge}
        BY <1>9, <2>6 DEF StepSilent
      <3>2. evidence'[edge] = EdgeObservations
        BY <1>1, <2>3, <2>6
      <3>3. \A e \in knowledge : evidence'[e] = EdgeObservations
        BY <1>1, <2>1, <2>2
      <3>4. QED
        BY <3>1, <3>2, <3>3
    <2>7. QED
      BY <2>5, <2>6
  <1>10. QED
    BY <1>2, <1>3, <1>4, <1>5, <1>6, <1>7, <1>8, <1>9 DEF Walk

(* ... and it says Arrived where its own map's target is.                   *)
LEMMA ArrivalStep ==
  ASSUME TypeOK, MapsInv, VisitedInv, ArrivalInv, Walk
  PROVE  ArrivalInv'
  <1> USE DEF ArrivalInv
  <1>1. visited' = visited
    BY MapsStep
  <1>2. CASE Replan
    <2>1. PICK plan \in Plans : TakeStep(plan) \/ Revalidate(plan) \/ PlanEnds(plan)
      BY <1>2 DEF Replan
    <2>2. pc = "plan" /\ latest.epoch = epoch /\ bound' = bound
      BY <1>2 DEF Replan, Planning
    <2>3. CASE TakeStep(plan) \/ Revalidate(plan)
      BY <2>2, <2>3 DEF TakeStep, Revalidate
    <2>4. CASE PlanEnds(plan)
      <3>1. result'.kind = plan.kind /\ pc' = "done"
        BY <2>4 DEF PlanEnds, Return
      <3>2. plan.kind = "Arrived" => Localized(latest) /\ latest.position = Target
        BY WalkPlans
      <3>3. bound = latest.on
        BY <2>2 DEF MapsInv
      <3>4. QED
        BY <1>1, <2>2, <3>1, <3>2, <3>3 DEF VisitedInv
    <2>5. QED
      BY <2>1, <2>3, <2>4
  <1>3. CASE EpochAdvanced
    BY <1>3 DEF EpochAdvanced
  <1>4. CASE Bootstrap \/ PerformFails \/ ReadyOrProbed \/ Probe \/ LocalizedTimeout
    BY <1>1, <1>4 DEF Bootstrap, PerformFails, ReadyOrProbed, Probe,
                      LocalizedTimeout, Return
  <1>5. CASE WaitLocalized \/ WaitStep
    BY <1>1, <1>5 DEF WaitLocalized, WaitStep, Refresh
  <1>6. CASE Submit \/ AttemptsExhausted \/ StepMoved \/ StepObstructed
    BY <1>1, <1>6 DEF Submit, AttemptsExhausted, StepMoved, StepObstructed, Return
  <1>7. CASE StepOccupied \/ StepSilent \/ WorldStopped
    BY <1>1, <1>7 DEF StepOccupied, StepSilent, WorldStopped, TimedOut, Return
  <1>8. QED
    BY <1>2, <1>3, <1>4, <1>5, <1>6, <1>7 DEF Walk
-----------------------------------------------------------------------------
(* The inductive invariant of a walk.                                       *)
THEOREM WalkInvariant == Spec => []IInv
  <1>1. Init => IInv
    <2> SUFFICES ASSUME Init PROVE IInv
      OBVIOUS
    <2> USE LimitAssumption, WorldAssumption DEF Init
    <2>1. /\ place[1] = Here /\ place[2] \in Positions
          /\ place \in {Here, There} \X Positions
      OBVIOUS
    <2>2. PICK known \in Known :
            LET blank == Unlocalized(Here, known.epoch, FirstOrigin(known.epoch))
            IN published = IF known.localized
                             THEN [blank EXCEPT !.position = place[2]] ELSE blank
      OBVIOUS
    <2> DEFINE blank == Unlocalized(Here, known.epoch, FirstOrigin(known.epoch))
    <2>3. known.epoch \in Nat
          /\ FirstOrigin(known.epoch) \in {"Attachment", "Established", "Crossed"}
      BY DEF FirstOrigin
    <2>4. blank \in Snapshots /\ blank.on = Here /\ ~Localized(blank)
      BY <2>3, UnlocalizedTypes
    <2> HIDE DEF blank
    <2>5. published \in Snapshots /\ published.on = Here
          /\ (Localized(published) => published.position = place[2])
      BY <2>1, <2>2, <2>4 DEF Snapshots, Localized, blank
    <2>6. published.epoch \in Nat
      BY <2>5 DEF Snapshots
    <2>7. TypeOK
      <3>1. unseen \in BOOLEAN /\ stopped \in BOOLEAN
        BY Zenon
      <3>2. keys \in Seq(Directions)
        OBVIOUS
      <3>3. evidence \in [Edges -> 0..EdgeObservations]
        OBVIOUS
      <3>4. latest \in Snapshots /\ published \in Snapshots
        BY <2>5
      <3>5. {edge, crossing, crossedBy} \subseteq Edges \cup {Nowhere}
            /\ knowledge \subseteq Edges
        OBVIOUS
      <3>6. /\ epoch \in Nat /\ attempts \in Nat /\ probes \in 0..4
            /\ observation \in 0..EdgeObservations
            /\ revalidations \in 0..RevalidationEpochs
        OBVIOUS
      <3>7. QED
        BY <2>1, <3>1, <3>2, <3>3, <3>4, <3>5, <3>6 DEF TypeOK
    <2>8. MapsInv /\ VisitedInv
      BY <2>1, <2>5, <2>6 DEF MapsInv, VisitedInv, Localized
    <2>9. StepInv /\ ArrivalInv /\ LearnedOnEvidence
      BY DEF StepInv, ArrivalInv, LearnedOnEvidence
    <2>10. QED
      BY <2>7, <2>8, <2>9 DEF IInv
  <1>2. ASSUME IInv, [Next]_vars
        PROVE  IInv'
    <2>1. CASE Walk
      BY <1>2, <2>1, WalkTypesStep, MapsStep, EvidenceStep, ArrivalStep DEF IInv
    <2>2. CASE Game
      <3>1. StepInv' /\ ArrivalInv' /\ LearnedOnEvidence'
        BY <1>2, <2>2, GameStep DEF IInv, StepInv, ArrivalInv, LearnedOnEvidence
      <3>2. QED
        BY <1>2, <2>2, <3>1, GameStep DEF IInv
    <2>3. CASE UNCHANGED vars
      BY <1>2, <2>3 DEF IInv, TypeOK, MapsInv, VisitedInv, StepInv, ArrivalInv,
                        LearnedOnEvidence, Localized, vars, walkVars, gameVars
    <2>4. QED
      BY <1>2, <2>1, <2>2, <2>3 DEF Next
  <1>3. QED
    BY <1>1, <1>2, PTL DEF Spec

(* Arrived is said by who has stood on the target of the target's own map,  *)
(* however stale the snapshot the walk planned from.                        *)
THEOREM ArrivedHasBeenThere == Spec => []ArrivedWasThere
  <1>1. IInv => ArrivedWasThere
    BY DEF IInv, ArrivalInv, ArrivedWasThere
  <1>2. QED
    BY <1>1, WalkInvariant, PTL

(* An edge counts as refused only after a refusal of that edge, or as much  *)
(* silence about it as EDGE_OBSERVATIONS asks for.                          *)
THEOREM EdgesAreLearnedOnEvidence == Spec => []LearnedOnEvidence
  BY WalkInvariant, PTL DEF IInv
=============================================================================
