---------------------------- MODULE MapKnowledge ----------------------------
(***************************************************************************)
(* The projected map of crates/world/src/map.rs: coverage that may or may  *)
(* not be joined to an identity, and the epoch that counts identities.     *)
(*                                                                         *)
(* A coordinate means nothing without its map, so a place is a pair of the *)
(* two; that a place is on the right map is what World states of it.  A    *)
(* context is an identity and, when the server described the map, its      *)
(* environment; Undescribed is the environment memory cannot supply.       *)
(***************************************************************************)
EXTENDS Integers

CONSTANTS Maps,          \* map identities
          MaxCoordinate, \* the last coordinate of the (one) axis
          Directions,    \* steps along that axis
          Grounds,       \* what a tile record can say
          Environments,  \* weather, realm and light of a described map
          Undescribed,   \* no environment
          Nothing        \* the absence of a fact

ASSUME CoordinateAssumption == MaxCoordinate \in Nat
ASSUME DirectionAssumption == Directions \subseteq {-1, 1}

Places == Maps \X (0..MaxCoordinate)
Contexts == [id : Maps, environment : Environments \cup {Undescribed}]

ASSUME NothingAssumption ==
  Nothing \notin Maps \cup Grounds \cup Places \cup Contexts \cup Nat

(* Position::step: no place beyond either end of a coordinate's range. *)
Step(place, direction) ==
  IF place[2] + direction \in 0..MaxCoordinate
    THEN <<place[1], place[2] + direction>>
    ELSE Nothing

NoTiles == [p \in Places |-> Nothing]

Context(id, environment) == [id |-> id, environment |-> environment]

(* Unidentified coverage is a map without a context. *)
MapStates ==
  [epoch : Nat,
   context : Contexts \cup {Nothing},
   tiles : [Places -> Grounds \cup {Nothing}]]

Attachment == [epoch |-> 0, context |-> Nothing, tiles |-> NoTiles]

Identified(map) == map.context # Nothing

(* Mutant: crossing to another map does not begin a new epoch. *)
EnterSilently(map, context) ==
  [epoch |-> IF Identified(map) THEN map.epoch ELSE map.epoch + 1,
   context |-> context, tiles |-> NoTiles]

(* Epoch::established and Epoch::crossed: a new epoch keeps no coverage. *)
Enter(map, context) ==
  [epoch |-> map.epoch + 1, context |-> context, tiles |-> NoTiles]

(* The Transition observe_context returns. *)
TransitionOf(map, context) ==
  CASE ~Identified(map) -> "Identified"
    [] Identified(map) /\ map.context.id # context.id -> "Changed"
    [] Identified(map) /\ map.context.id = context.id
         -> IF map.context = context THEN "Unchanged" ELSE "Updated"

(* State::observe_context: the same identity again only redescribes it. *)
ObserveContext(map, context) ==
  IF TransitionOf(map, context) \in {"Identified", "Changed"}
    THEN Enter(map, context)
    ELSE [map EXCEPT !.context = context]

(* State::observe_identity: memory names a map only where nothing has. *)
ObserveIdentity(map, id) ==
  IF Identified(map) THEN map ELSE Enter(map, Context(id, Undescribed))

(* State::merge, for a region of one tile. *)
MergeTile(map, place, ground) == [map EXCEPT !.tiles[place] = ground]

(* Mutant: an update of the same map is not reported as a change. *)
ChangesOnlyIdentity(transition) == transition \in {"Identified", "Changed"}

(* Transition::changed. *)
Changes(transition) == transition # "Unchanged"

(* Mutant: the first identity keeps what was seen before it. *)
InvalidatesOnCrossing(transition) == transition = "Changed"

(* Mutant: the description of a map is taken for another map. *)
InvalidatesOnUpdate(transition) == transition # "Unchanged"

(* Transition::invalidates_scoped_state. *)
InvalidatesScopedState(transition) == transition \in {"Identified", "Changed"}
=============================================================================
