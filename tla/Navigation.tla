----------------------------- MODULE Navigation -----------------------------
(***************************************************************************)
(* What a plan of crates/navigation is about: positions and directed edges,*)
(* the part of a snapshot the planner looks at, the rectangle it may search*)
(* and where in it the search is headed, and, apart from how it is found,  *)
(* which plan it is to return.                                             *)
(*                                                                         *)
(* A scene is one question put to the planner: the snapshot's localization,*)
(* dimensions, tiles and entities, with the catalog's masks already joined *)
(* to the tiles, and the caller's knowledge, avoidance and target.         *)
(***************************************************************************)
EXTENDS Integers, FiniteSets, FiniteSetsExt, Sequences

CONSTANTS MaxX, MaxY,  \* the last value of a coordinate
          Halo,        \* Bounds::ACQUISITION_HALO
          Radius,      \* Bounds::PROVISIONAL_RADIUS
          Nowhere      \* no position, no dimensions

ASSUME ExtentAssumption == MaxX \in Nat /\ MaxY \in Nat
ASSUME MarginAssumption == Halo \in Nat /\ Radius \in Nat

Positions == (0..MaxX) \X (0..MaxY)
Directions == {"Up", "Right", "Down", "Left"}
Edges == Positions \X Directions

ASSUME NowhereAssumption ==
  Nowhere \notin Nat /\ Nowhere \notin Nat \X Nat /\ Nowhere \notin Edges

(* Direction::delta. *)
Delta == [d \in Directions |-> CASE d = "Up" -> <<0, -1>>
                                 [] d = "Right" -> <<1, 0>>
                                 [] d = "Down" -> <<0, 1>>
                                 [] d = "Left" -> <<-1, 0>>]

(* Edge::destination, by Position::step. *)
Destination(edge) ==
  LET p == <<edge[1][1] + Delta[edge[2]][1], edge[1][2] + Delta[edge[2]][2]>>
  IN IF p \in Positions THEN p ELSE Nowhere

Scene ==
  [origin : Positions \cup {Nowhere},
   target : Positions,
   dimensions : (Nat \X Nat) \cup {Nowhere},        \* of an identified map
   tiles : [Positions -> {"unseen", "open", "solid"}],
   fixtures : SUBSET Edges,     \* <<tile, direction in which it is not entered>>
   occupied : SUBSET Positions, \* by entities not known to be passable
   refused : SUBSET Edges,      \* Knowledge
   avoided : SUBSET Positions]  \* Avoidance

AtMost(a, b) == IF a < b THEN a ELSE b
AtLeast(a, b) == IF a < b THEN b ELSE a

(* saturating_sub and saturating_add of a margin. *)
Widen(low, high, margin, max) ==
  AtLeast(0, low - margin)..AtMost(max, high + margin)
-----------------------------------------------------------------------------
(* Bounds::observed: the tiles seen, and a halo. *)
ObservedBounds(scene) ==
  LET seen == {p \in Positions : scene.tiles[p] # "unseen"}
      xs == {p[1] : p \in seen}
      ys == {p[2] : p \in seen}
  IN [kind |-> "Observed",
      x |-> Widen(Min(xs), Max(xs), Halo, MaxX),
      y |-> Widen(Min(ys), Max(ys), Halo, MaxY)]

(* Bounds::provisional: origin and target, and some room. *)
ProvisionalBounds(scene) ==
  LET a == scene.origin
      b == scene.target
  IN [kind |-> "Provisional",
      x |-> Widen(AtMost(a[1], b[1]), AtLeast(a[1], b[1]), Radius, MaxX),
      y |-> Widen(AtMost(a[2], b[2]), AtLeast(a[2], b[2]), Radius, MaxY)]

(* Bounds::from_snapshot. *)
Bounds(scene) ==
  CASE scene.dimensions # Nowhere ->
         [kind |-> "Identified",
          x |-> 0..AtLeast(0, scene.dimensions[1] - 1),
          y |-> 0..AtLeast(0, scene.dimensions[2] - 1)]
    [] scene.dimensions = Nowhere ->
         IF \E p \in Positions : scene.tiles[p] # "unseen"
           THEN ObservedBounds(scene)
           ELSE ProvisionalBounds(scene)

Contains(bounds, p) == p[1] \in bounds.x /\ p[2] \in bounds.y

Clamp(v, range) == AtMost(AtLeast(v, Min(range)), Max(range))

(* Bounds::goal. *)
Goal(scene) ==
  LET bounds == Bounds(scene)
      target == scene.target
  IN CASE Contains(bounds, target) -> [kind |-> "Target", at |-> target]
       [] ~Contains(bounds, target) ->
            CASE bounds.kind = "Identified" -> [kind |-> "Outside", at |-> target]
              [] bounds.kind = "Observed" ->
                   [kind |-> "Frontier",
                    at |-> <<Clamp(target[1], bounds.x), Clamp(target[2], bounds.y)>>]
              [] bounds.kind = "Provisional" -> [kind |-> "Target", at |-> target]

(* A tile no edge of this scene leads to: Avoidance, blocked_tile, occupied.*)
Closed(scene, p) ==
  p \in scene.avoided \/ scene.tiles[p] = "solid" \/ p \in scene.occupied

(* The edges the search follows.  (What is bound to the one member of a set, *)
(* here and below, TLC computes once.)                                       *)
Enterable(scene, edge) ==
  /\ edge \notin scene.refused
  /\ \E p \in Positions \cap {Destination(edge)} :
       /\ ~Closed(scene, p)
       /\ <<p, edge[2]>> \notin scene.fixtures
       /\ \E bounds \in {Bounds(scene)} : Contains(bounds, p)
-----------------------------------------------------------------------------
(* The answers plan_with gives before it searches, or "search". *)
Preliminary(scene) ==
  CASE scene.origin = Nowhere -> "PositionUnknown"
    [] scene.origin # Nowhere /\ scene.origin = scene.target -> "Arrived"
    [] scene.origin \notin {Nowhere, scene.target} ->
         LET goal == Goal(scene)
         IN CASE goal.kind = "Outside" -> "TargetOutsideMap"
              [] goal.kind = "Target" /\ Closed(scene, scene.target) -> "TargetBlocked"
              [] OTHER -> "search"

(* The sets of positions from which a goal is reached by at most 0, 1, ...  *)
(* of some edges, at index 1, 2, ...: the one member of a set.              *)
Layers(edges, goal) ==
  LET grown[n \in Nat] ==
        IF n = 0
          THEN {<<{goal}>>}
          ELSE {Append(layers, layers[n] \cup
                         {e[1] : e \in {f \in edges : Destination(f) \in layers[n]}}) :
                  layers \in grown[n - 1]}
  IN grown[Cardinality(Positions)]

(* The plans that begin a shortest way. *)
ShortestPlans(origin, kind, edges, layers) ==
  LET near == {n \in 1..Len(layers) : origin \in layers[n]}
  IN IF near = {} \/ origin \in layers[1]
       THEN {[kind |-> "NoRoute"]}
       ELSE {[kind |-> kind, first |-> e[2], length |-> Min(near) - 1] :
               e \in {f \in edges : /\ f[1] = origin
                                    /\ Destination(f) \in layers[Min(near) - 1]}}

(* What plan_with may return: a shortest route, to the nearest tile seen if *)
(* the target lies beyond what a warm attachment has seen, or why there is  *)
(* none.                                                                    *)
PlansOf(scene) ==
  IF Preliminary(scene) # "search"
    THEN {[kind |-> Preliminary(scene)]}
    ELSE LET goal == Goal(scene)
             kind == IF goal.kind = "Target" THEN "Route" ELSE "Frontier"
         IN UNION {UNION {ShortestPlans(scene.origin, kind, edges, layers) :
                            layers \in Layers(edges, goal.at)} :
                   edges \in {{e \in Edges : Enterable(scene, e)}}}
=============================================================================
