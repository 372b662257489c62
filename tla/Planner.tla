------------------------------ MODULE Planner -------------------------------
(***************************************************************************)
(* The search of crates/navigation/src/planner.rs: plan_with as it is      *)
(* written, one iteration of its loops a step, from the answers it gives   *)
(* at once to the reconstruction of the route.                             *)
(***************************************************************************)
EXTENDS Navigation

CONSTANT Scenes  \* the questions put to the planner

ASSUME ScenesAssumption == Scenes \subseteq Scene

VARIABLES scene,
          phase,     \* which loop plan_with is in
          open,      \* the heap of candidates
          best,      \* the cost of each position reached, or Nowhere
          previous,  \* the edge by which it was reached, or Nowhere
          cursor,    \* of reconstruct
          steps,     \* of reconstruct, with the edges the directions belong to
          result     \* the kind of Plan or Error returned, or "none"

vars == <<scene, phase, open, best, previous, cursor, steps, result>>

goal == Goal(scene)

Distance(p, q) ==
  (IF p[1] < q[1] THEN q[1] - p[1] ELSE p[1] - q[1])
    + (IF p[2] < q[2] THEN q[2] - p[2] ELSE p[2] - q[2])

Candidate(p, cost) == [position |-> p, cost |-> cost]

Estimate(c) == c.cost + Distance(c.position, goal.at)

(* Mutant: the heap pops the greatest. *)
After(c, d) == Estimate(c) > Estimate(d)

(* Candidate::cmp, least first as the heap pops them. *)
Before(c, d) ==
  \/ Estimate(c) < Estimate(d)
  \/ /\ Estimate(c) = Estimate(d)
     /\ \/ c.cost < d.cost
        \/ /\ c.cost = d.cost
           /\ \/ c.position[1] < d.position[1]
              \/ /\ c.position[1] = d.position[1]
                 /\ c.position[2] < d.position[2]

Pops(c) == c \in open /\ \A other \in open : ~Before(other, c)

Reached(p) == best[p] # Nowhere
-----------------------------------------------------------------------------
Init ==
  /\ scene \in Scenes
  /\ phase = "begin" /\ result = "none"
  /\ open = {}
  /\ best = [p \in Positions |-> Nowhere]
  /\ previous = [p \in Positions |-> Nowhere]
  /\ cursor = Nowhere /\ steps = <<>>

Return(kind) == phase' = "done" /\ result' = kind

AnswerAtOnce ==
  /\ phase = "begin"
  /\ Preliminary(scene) # "search"
  /\ Return(Preliminary(scene))
  /\ UNCHANGED <<scene, open, best, previous, cursor, steps>>

StartSearch ==
  /\ phase = "begin"
  /\ Preliminary(scene) = "search"
  /\ phase' = "search"
  /\ open' = {Candidate(scene.origin, 0)}
  /\ best' = [best EXCEPT ![scene.origin] = 0]
  /\ UNCHANGED <<scene, previous, cursor, steps, result>>

Arrive(c) ==
  /\ phase = "search" /\ Pops(c)
  /\ c.position = goal.at
  /\ phase' = "reconstruct"
  /\ open' = open \ {c}
  /\ cursor' = goal.at
  /\ UNCHANGED <<scene, best, previous, steps, result>>

(* Mutant: the search never turns away from its goal. *)
ImprovesTowardGoal(c, d) ==
  LET p == Destination(<<c.position, d>>)
  IN /\ Enterable(scene, <<c.position, d>>)
     /\ Distance(p, goal.at) < Distance(c.position, goal.at)
     /\ ~Reached(p) \/ c.cost + 1 < best[p]

(* The step is possible and cheaper than what is known. *)
Improves(c, d) ==
  /\ Enterable(scene, <<c.position, d>>)
  /\ LET p == Destination(<<c.position, d>>)
     IN ~Reached(p) \/ c.cost + 1 < best[p]

(* A candidate that was pushed before a cheaper one for its position is     *)
(* passed over; any other is expanded.                                      *)
Examine(c) ==
  LET edges == {<<c.position, d>> : d \in {d \in Directions :
                  c.cost <= best[c.position] /\ Improves(c, d)}}
      improved == {Destination(e) : e \in edges}
  IN /\ phase = "search" /\ Pops(c)
     /\ c.position # goal.at
     /\ open' = (open \ {c}) \cup {Candidate(p, c.cost + 1) : p \in improved}
     /\ best' = [p \in Positions |-> IF p \in improved THEN c.cost + 1 ELSE best[p]]
     /\ previous' = [p \in Positions |->
                       IF p \in improved
                         THEN CHOOSE e \in edges : Destination(e) = p
                         ELSE previous[p]]
     /\ UNCHANGED <<scene, phase, cursor, steps, result>>

Exhaust ==
  /\ phase = "search"
  /\ open = {}
  /\ Return("NoRoute")
  /\ UNCHANGED <<scene, open, best, previous, cursor, steps>>

(* Mutant: the steps are not reversed. *)
StepBackUnreversed ==
  /\ phase = "reconstruct"
  /\ cursor # scene.origin
  /\ steps' = Append(steps, previous[cursor])
  /\ cursor' = previous[cursor][1]
  /\ UNCHANGED <<scene, phase, open, best, previous, result>>

(* reconstruct, one parent at a time. *)
StepBack ==
  /\ phase = "reconstruct"
  /\ cursor # scene.origin
  /\ IF previous[cursor] = Nowhere
       THEN Return("NoRoute") /\ UNCHANGED <<cursor, steps>>
       ELSE /\ steps' = <<previous[cursor]>> \o steps
            /\ cursor' = previous[cursor][1]
            /\ UNCHANGED <<phase, result>>
  /\ UNCHANGED <<scene, open, best, previous>>

(* Route::from_steps refuses an empty route. *)
Finish ==
  /\ phase = "reconstruct"
  /\ cursor = scene.origin
  /\ Return(CASE steps = <<>> -> "NoRoute"
              [] steps # <<>> /\ goal.kind = "Target" -> "Route"
              [] steps # <<>> /\ goal.kind # "Target" -> "Frontier")
  /\ UNCHANGED <<scene, open, best, previous, cursor, steps>>

Next ==
  \/ AnswerAtOnce \/ StartSearch
  \/ \E c \in open : Arrive(c) \/ Examine(c)
  \/ Exhaust \/ StepBack \/ Finish

Spec == Init /\ [][Next]_vars
-----------------------------------------------------------------------------
TypeOK ==
  /\ scene \in Scenes
  /\ phase \in {"begin", "search", "reconstruct", "done"}
  /\ open \subseteq [position : Positions, cost : Nat]
  /\ best \in [Positions -> Nat \cup {Nowhere}]
  /\ previous \in [Positions -> Edges \cup {Nowhere}]
  /\ cursor \in Positions \cup {Nowhere}
  /\ steps \in Seq(Edges)

(* The steps lead from a position to the goal, every edge of them from      *)
(* where the one before ends, and may all be taken.                         *)
LeadsToGoal(from) ==
  /\ \A i \in 1..Len(steps) : Enterable(scene, steps[i])
  /\ \A i \in 1..(Len(steps) - 1) : Destination(steps[i]) = steps[i + 1][1]
  /\ steps = <<>> => from = goal.at
  /\ steps # <<>> => steps[1][1] = from /\ Destination(steps[Len(steps)]) = goal.at

(* A route is not empty and leads from where the player is to the goal.     *)
RouteIsWalkable ==
  result \in {"Route", "Frontier"} => steps # <<>> /\ LeadsToGoal(scene.origin)

(* NoRoute is said only when some set of positions that no enterable edge   *)
(* leaves holds the origin and not the goal, or when the origin is itself   *)
(* the frontier nearest to the target.                                      *)
NoRouteMeansNone ==
  result = "NoRoute" =>
    \/ scene.origin = goal.at
    \/ \E enclosed \in SUBSET Positions :
         /\ scene.origin \in enclosed
         /\ goal.at \notin enclosed
         /\ \A p \in enclosed, d \in Directions :
              Enterable(scene, <<p, d>>) => Destination(<<p, d>>) \in enclosed

(* The plan returned is one the scene has: above all no route is longer     *)
(* than it must be, which rests on the order in which candidates are popped.*)
PlanIsRight ==
  phase = "done" =>
    (IF result \in {"Route", "Frontier"}
       THEN [kind |-> result, first |-> steps[1][2], length |-> Len(steps)]
       ELSE [kind |-> result])
      \in PlansOf(scene)
-----------------------------------------------------------------------------
(* Parents lead back to the origin by edges that may be taken, and each is  *)
(* at least one step cheaper.                                               *)
TreeInv ==
  \A p \in Positions :
    Reached(p) /\ p # scene.origin =>
      /\ previous[p] \in Edges
      /\ Enterable(scene, previous[p])
      /\ Destination(previous[p]) = p
      /\ Reached(previous[p][1])
      /\ best[previous[p][1]] < best[p]

(* No candidate is cheaper than what is known of its position.              *)
OpenInv == \A c \in open : Reached(c.position) /\ best[c.position] <= c.cost

(* A position reached is still to be expanded at its best cost, or all that *)
(* lies one step beyond it has been reached at no more than one step more,  *)
(* and it is not the goal.                                                  *)
FrontierInv ==
  phase = "search" =>
    /\ scene.origin \in Positions /\ best[scene.origin] = 0
    /\ \A p \in Positions :
         Reached(p) =>
           \/ Candidate(p, best[p]) \in open
           \/ /\ p # goal.at
              /\ \A d \in Directions :
                   Enterable(scene, <<p, d>>) =>
                     /\ Reached(Destination(<<p, d>>))
                     /\ best[Destination(<<p, d>>)] <= best[p] + 1

(* No way to the goal has fewer steps.                                      *)
NoShorterWay(length) ==
  \A layers \in Layers({e \in Edges : Enterable(scene, e)}, goal.at) :
    \A n \in 1..Len(layers) : scene.origin \in layers[n] => length < n

(* The steps traced back, and what the cursor still costs, are no more than *)
(* the shortest way has.                                                    *)
ReconstructInv ==
  phase = "reconstruct" =>
    /\ cursor \in Positions /\ Reached(cursor) /\ LeadsToGoal(cursor)
    /\ NoShorterWay(Len(steps) + best[cursor])

(* Nothing is reached, traced back or answered before its time; the search  *)
(* answers what it is asked, and with the shortest way.                     *)
AnswerInv ==
  /\ phase \in {"search", "reconstruct"} => Preliminary(scene) = "search"
  /\ phase = "done" => /\ result # "search"
                       /\ result \in {Preliminary(scene), "NoRoute", "Route", "Frontier"}
  /\ result \in {"NoRoute", "Route", "Frontier"} => Preliminary(scene) = "search"
  /\ result = "Route" => goal.kind = "Target"
  /\ result = "Frontier" => goal.kind # "Target"
  /\ result \in {"Route", "Frontier"} => NoShorterWay(Len(steps))
  /\ phase = "begin" => \A p \in Positions : ~Reached(p)
  /\ phase \in {"begin", "search"} => steps = <<>>
  /\ phase # "done" => result = "none"

IInv ==
  /\ TypeOK /\ TreeInv /\ OpenInv /\ FrontierInv /\ ReconstructInv /\ AnswerInv
  /\ RouteIsWalkable /\ NoRouteMeansNone
=============================================================================
