----------------------------- MODULE Readiness ------------------------------
(***************************************************************************)
(* The questions scripts ask of one snapshot of the world before they act: *)
(* crates/world/src/query/ and the prerequisites of query/readiness.rs.    *)
(* A query is pending or ready; a script waits for it with the engine (see *)
(* EngineReaders) and then acts on what held at that revision.             *)
(***************************************************************************)
EXTENDS World

(* session::active, not before SessionStarted. *)
SessionActive == sessionEpoch > 0 /\ connection = "Active"

MapIdentified == Identified(map)

PositionKnown == location # Nothing

ResourcesKnown == Nothing \notin {current, maximum}

InventoryKnown == inventoryComplete

EquipmentKnown == equipmentComplete

(* Requirement::VARIANTS. *)
Requirements ==
  {"Session", "Map", "Position", "Resources", "Inventory", "Equipment"}

(* Requirement::is_met. *)
IsMet(requirement) ==
  \/ requirement = "Session" /\ SessionActive
  \/ requirement = "Map" /\ MapIdentified
  \/ requirement = "Position" /\ PositionKnown
  \/ requirement = "Resources" /\ ResourcesKnown
  \/ requirement = "Inventory" /\ InventoryKnown
  \/ requirement = "Equipment" /\ EquipmentKnown

(* Readiness::report, of a set of requirements: its missing ones. *)
Missing(required) == {r \in required : ~IsMet(r)}

(* Readiness::evaluate; application() requires them all. *)
Ready(required) == Missing(required) = {}
-----------------------------------------------------------------------------
(* A script waits for its prerequisites and then acts for as long as it     *)
(* likes: what was met stays met until the session is closed or replaced,   *)
(* and the position, which alone may be lost within a session, is lost only *)
(* together with the map epoch it belonged to.                              *)
ReadinessIsKept ==
  [][\A r \in Missing(Requirements)' \ Missing(Requirements) :
       \/ change'.evidence = "session"
       \/ r = "Session" /\ connection' # "Active"
       \/ r = "Position" /\ map'.epoch > map.epoch]_worldVars

(* Being ready is being in a known place: an application that is ready      *)
(* knows the map its position is on, and the position is one of that map,   *)
(* its resources are the client's, and what it wears is all it wears.       *)
ReadyIsCurrent ==
  Ready(Requirements) =>
    /\ location.place[1] = map.context.id
    /\ current[1] = client.current /\ maximum[1] = client.maximum
    /\ equipment = client.equipment
=============================================================================
