---------------------------- MODULE WorldProofs -----------------------------
(***************************************************************************)
(* Proofs about World, for all maps, entities, slots, capacities and       *)
(* bounds.  Next is split into the groups World.tla gives it; a lemma names *)
(* the actions that can disturb its conjunct, and disposes of the others   *)
(* by what they leave unchanged.                                           *)
(***************************************************************************)
EXTENDS Readiness, SequenceTheorems, FiniteSetTheorems, TLAPS

(* push_bounded keeps a history within its capacity.                       *)
LEMMA PushedIsBounded ==
  ASSUME NEW set, NEW values, NEW value \in set,
         NEW capacity \in Nat \ {0}, Bounded(values, set, capacity)
  PROVE  Bounded(PushBounded(values, value, capacity), set, capacity)
  <1>1. /\ values \in Seq(set) /\ Len(values) \in Nat /\ Len(values) <= capacity
    BY LenProperties DEF Bounded
  <1>2. ASSUME NEW rest \in Seq(set), Len(rest) < capacity
        PROVE  Bounded(Append(rest, value), set, capacity)
    BY <1>2, AppendProperties, LenProperties DEF Bounded
  <1>3. CASE Len(values) = capacity
    <2>1. values # <<>>
      BY <1>1, <1>3, Len(<<>>) = 0, EmptySeq
    <2>2. Tail(values) \in Seq(set) /\ Len(Tail(values)) < capacity
      BY <1>1, <2>1, HeadTailProperties
    <2>3. PushBounded(values, value, capacity) = Append(Tail(values), value)
      BY <1>3 DEF PushBounded
    <2>4. QED
      BY <1>2, <2>2, <2>3
  <1>4. CASE Len(values) # capacity
    BY <1>1, <1>2, <1>4 DEF PushBounded
  <1>5. QED
    BY <1>3, <1>4

(* The histories change only by being pushed to or forgotten.              *)
LEMMA HistoryTypesStep ==
  ASSUME TypeOK, Next
  PROVE  HistoryTypes'
  <1> USE HistoryAssumption DEF TypeOK
  <1>1. CASE UNCHANGED <<actionVars, actorVars>>
    BY <1>1 DEF HistoryTypes, Bounded, actionVars, actorVars
  <1>2. CASE SessionStarted
    BY <1>2 DEF SessionStarted, ForgetHistories, HistoryTypes, Bounded
  <1>3. ASSUME NEW combat \in BOOLEAN, Acted(combat)
        PROVE  HistoryTypes'
    BY <1>3, PushedIsBounded
       DEF Acted, RetainCombat, HistoryTypes, SessionTypes, actorVars
  <1>4. CASE ActorAction
    BY <1>4, PushedIsBounded
       DEF ActorAction, HistoryTypes, SessionTypes, actionVars
  <1>5. ASSUME NEW e \in Entities, ActorVitality(e)
        PROVE  HistoryTypes'
    BY <1>5, PushedIsBounded
       DEF ActorVitality, HistoryTypes, SessionTypes, actionVars
  <1>6. CASE Message
    BY <1>6, PushedIsBounded
       DEF Message, HistoryTypes, SessionTypes, actionVars
  <1>7. CASE Adapter
    BY <1>1, <1>2, <1>7
       DEF Adapter, TransportClosed, ReadClient, SeedResources, SeedInventory,
           SeedMapIdentity, worldVars
  <1>8. CASE MapPacket
    BY <1>1, <1>8 DEF MapPacket, MapContext, MapRegion
  <1>9. CASE PlayerPacket
    BY <1>1, <1>9
       DEF PlayerPacket, PlayerLocation, PlayerStatus, SpellbookEntry,
           InventorySlot, EquipmentSlot, CharacterProfile
  <1>10. CASE EntityPacket
    BY <1>1, <1>5, <1>10
       DEF EntityPacket, EntityAppearances, EntityMovement, EntityRemoval
  <1>11. CASE OtherPacket
    BY <1>1, <1>4, <1>6, <1>11 DEF OtherPacket, TravelMenu, NoFact, Heartbeat
  <1>12. CASE ClientPacket
    BY <1>3, <1>12
       DEF ClientPacket, Movement, Obstruction, Facing, OtherAction,
           Disconnect
  <1>13. QED
    BY <1>7, <1>8, <1>9, <1>10, <1>11, <1>12 DEF Next

(* Revision, change, session and menu keep their types.                    *)
LEMMA SessionTypesStep ==
  ASSUME TypeOK, Next
  PROVE  SessionTypes'
  <1> DEFINE Stamped ==
        /\ revision' \in Nat
        /\ change' \in [effect : {"Projected", "Recorded"},
                        evidence : {"session", "close", "packet", "seed"}]
  <1>1. ASSUME NEW projected,
               NEW evidence \in {"session", "close", "packet", "seed"},
               Observed(projected, evidence)
        PROVE  Stamped
    BY <1>1 DEF TypeOK, SessionTypes, Observed
  <1>2. ASSUME Stamped, UNCHANGED <<sessionVars, travelMenu>>
        PROVE  SessionTypes'
    BY <1>2 DEF TypeOK, SessionTypes, sessionVars
  <1>3. ASSUME Stamped, UNCHANGED <<sessionEpoch, heartbeat, travelMenu>>,
               connection' \in {connection, "CloseObserved", "TransportClosed"}
        PROVE  SessionTypes'
    BY <1>3 DEF TypeOK, SessionTypes
  <1> HIDE DEF Stamped
  <1>4. CASE Adapter
    <2>1. CASE SessionStarted
      BY <2>1 DEF SessionStarted, Observed, TypeOK, SessionTypes, Tags
    <2>2. CASE TransportClosed
      BY <1>1, <1>3, <2>2 DEF TransportClosed
    <2>3. CASE ReadClient
      BY <2>3 DEF ReadClient, worldVars, TypeOK, SessionTypes, sessionVars
    <2>4. CASE SeedResources \/ SeedInventory \/ SeedMapIdentity
      BY <1>1, <1>2, <2>4 DEF SeedResources, SeedInventory, SeedMapIdentity
    <2>5. QED
      BY <1>4, <2>1, <2>2, <2>3, <2>4 DEF Adapter
  <1>5. CASE MapPacket
    <2>1. ASSUME NEW id \in Maps, NEW environment \in Environments,
                 MapContext(id, environment)
          PROVE  SessionTypes'
      BY <1>1, <2>1
         DEF MapContext, Stamped, TypeOK, SessionTypes, sessionVars, Tags
    <2>2. ASSUME NEW place, NEW ground, MapRegion(place, ground)
          PROVE  SessionTypes'
      BY <1>1, <1>2, <2>2 DEF MapRegion
    <2>3. QED
      BY <1>5, <2>1, <2>2 DEF MapPacket
  <1>6. CASE PlayerPacket
    BY <1>1, <1>2, <1>6
       DEF PlayerPacket, PlayerLocation, PlayerStatus, SpellbookEntry,
           InventorySlot, EquipmentSlot, CharacterProfile
  <1>7. CASE EntityPacket
    BY <1>1, <1>2, <1>7
       DEF EntityPacket, EntityAppearances, EntityMovement, EntityRemoval,
           ActorVitality
  <1>8. CASE OtherPacket
    <2>1. CASE ActorAction \/ Message \/ NoFact
      BY <1>1, <1>2, <2>1 DEF ActorAction, Message, NoFact
    <2>2. CASE TravelMenu \/ Heartbeat
      BY <1>1, <2>2
         DEF TravelMenu, Heartbeat, Stamped, TypeOK, SessionTypes,
             sessionVars, Tags
    <2>3. QED
      BY <1>8, <2>1, <2>2 DEF OtherPacket
  <1>9. CASE ClientPacket
    BY <1>1, <1>3, <1>9
       DEF ClientPacket, Movement, Obstruction, Facing, OtherAction,
           Disconnect, Acted
  <1>10. QED
    BY <1>4, <1>5, <1>6, <1>7, <1>8, <1>9 DEF Next

(* Spellbook, inventory and equipment keep their types.                    *)
LEMMA PossessionTypesStep ==
  ASSUME TypeOK, Next
  PROVE  PossessionTypes'
  <1> USE DEF TypeOK
  <1>1. CASE UNCHANGED possessionVars
    BY <1>1 DEF PossessionTypes, possessionVars
  <1>2. CASE SessionStarted
    BY <1>2 DEF SessionStarted, PossessionTypes, NoSlots, Tags, Carried
  <1>3. CASE SeedInventory
    BY <1>3 DEF SeedInventory, PossessionTypes, ClientTypes, Scans, Carried
  <1>4. ASSUME NEW slot \in Slots, SpellbookEntry(slot)
        PROVE  PossessionTypes'
    BY <1>4 DEF SpellbookEntry, PossessionTypes, SessionTypes, Tags
  <1>5. ASSUME NEW slot \in Slots, NEW item \in Items \cup {Nothing},
               InventorySlot(slot, item)
        PROVE  PossessionTypes'
    BY <1>5 DEF InventorySlot, PossessionTypes, Carried
  <1>6. ASSUME NEW slot \in Slots, NEW item \in Items \cup {Nothing},
               EquipmentSlot(slot, item)
        PROVE  PossessionTypes'
    BY <1>6 DEF EquipmentSlot, PossessionTypes
  <1>7. CASE CharacterProfile
    BY <1>7 DEF CharacterProfile, PossessionTypes, ClientTypes, Clients
  <1>8. CASE Adapter
    BY <1>1, <1>2, <1>3, <1>8
       DEF Adapter, TransportClosed, ReadClient, SeedResources,
           SeedMapIdentity, worldVars
  <1>9. CASE MapPacket
    BY <1>1, <1>9 DEF MapPacket, MapContext, MapRegion
  <1>10. CASE PlayerPacket
    BY <1>1, <1>4, <1>5, <1>6, <1>7, <1>10
       DEF PlayerPacket, PlayerLocation, PlayerStatus
  <1>11. CASE EntityPacket
    BY <1>1, <1>11
       DEF EntityPacket, EntityAppearances, EntityMovement, EntityRemoval,
           ActorVitality
  <1>12. CASE OtherPacket
    BY <1>1, <1>12
       DEF OtherPacket, TravelMenu, NoFact, Heartbeat, ActorAction, Message
  <1>13. CASE ClientPacket
    BY <1>1, <1>13
       DEF ClientPacket, Movement, Obstruction, Facing, OtherAction,
           Disconnect, Acted
  <1>14. QED
    BY <1>8, <1>9, <1>10, <1>11, <1>12, <1>13 DEF Next

(* The client and the pending reading keep their types.                    *)
LEMMA ClientTypesStep ==
  ASSUME TypeOK, Next
  PROVE  ClientTypes'
  <1> USE DEF TypeOK
  <1>1. CASE UNCHANGED <<client, scan>>
    BY <1>1 DEF ClientTypes
  <1>2. CASE SessionStarted
    BY <1>2 DEF SessionStarted, ClientTypes
  <1>3. CASE ReadClient
    BY <1>3 DEF ReadClient, ClientTypes, Clients, Scans, Reading
  <1>4. CASE UNCHANGED client /\ scan' = Nothing
    BY <1>4 DEF ClientTypes
  <1>5. ASSUME NEW id \in Maps, NEW environment \in Environments,
               MapContext(id, environment)
        PROVE  ClientTypes'
    BY <1>5 DEF MapContext, ClientTypes, Clients
  <1>6. ASSUME NEW blocks, NEW vita \in Amounts, NEW maximumVita \in Amounts,
               PlayerStatus(blocks, vita, maximumVita)
        PROVE  ClientTypes'
    BY <1>6 DEF PlayerStatus, ClientTypes, Clients
  <1>7. ASSUME NEW slot \in Slots, NEW item \in Items \cup {Nothing},
               InventorySlot(slot, item) \/ EquipmentSlot(slot, item)
        PROVE  ClientTypes'
    BY <1>7 DEF InventorySlot, EquipmentSlot, ClientTypes, Clients
  <1>8. CASE Adapter
    BY <1>1, <1>2, <1>3, <1>4, <1>8
       DEF Adapter, TransportClosed, SeedResources, SeedMapIdentity,
           SeedInventory
  <1>9. CASE MapPacket
    BY <1>1, <1>5, <1>9 DEF MapPacket, MapRegion
  <1>10. CASE PlayerPacket
    BY <1>1, <1>6, <1>7, <1>10
       DEF PlayerPacket, PlayerLocation, SpellbookEntry, CharacterProfile
  <1>11. CASE EntityPacket
    BY <1>1, <1>11
       DEF EntityPacket, EntityAppearances, EntityMovement, EntityRemoval,
           ActorVitality
  <1>12. CASE OtherPacket
    BY <1>1, <1>12
       DEF OtherPacket, TravelMenu, NoFact, Heartbeat, ActorAction, Message
  <1>13. CASE ClientPacket
    BY <1>1, <1>13
       DEF ClientPacket, Movement, Obstruction, Facing, OtherAction,
           Disconnect, Acted
  <1>14. QED
    BY <1>8, <1>9, <1>10, <1>11, <1>12, <1>13 DEF Next

(* The player's resources keep their types.                                *)
LEMMA ResourceTypesStep ==
  ASSUME TypeOK, Next
  PROVE  ResourceTypes'
  <1> USE DEF TypeOK
  <1>1. CASE UNCHANGED resourceVars
    BY <1>1 DEF ResourceTypes, resourceVars
  <1>2. CASE SessionStarted
    BY <1>2 DEF SessionStarted, ResourceTypes, Knowledge, Tags
  <1>3. CASE SeedResources
    BY <1>3
       DEF SeedResources, ResourceTypes, ClientTypes, Scans, Seeded, Knowledge
  <1>4. ASSUME NEW blocks, NEW vita \in Amounts, NEW maximumVita \in Amounts,
               PlayerStatus(blocks, vita, maximumVita)
        PROVE  ResourceTypes'
    BY <1>4
       DEF PlayerStatus, ResourceTypes, SessionTypes, Reported, Knowledge,
           Tags
  <1>5. CASE Adapter
    BY <1>1, <1>2, <1>3, <1>5
       DEF Adapter, TransportClosed, ReadClient, SeedInventory,
           SeedMapIdentity, worldVars, playerVars
  <1>6. CASE MapPacket
    BY <1>1, <1>6 DEF MapPacket, MapContext, MapRegion, playerVars
  <1>7. CASE PlayerPacket
    BY <1>1, <1>4, <1>7
       DEF PlayerPacket, PlayerLocation, SpellbookEntry, InventorySlot,
           EquipmentSlot, CharacterProfile, playerVars
  <1>8. CASE EntityPacket
    BY <1>1, <1>8
       DEF EntityPacket, EntityAppearances, EntityMovement, EntityRemoval,
           ActorVitality, playerVars
  <1>9. CASE OtherPacket
    BY <1>1, <1>9
       DEF OtherPacket, TravelMenu, NoFact, Heartbeat, ActorAction, Message,
           playerVars
  <1>10. CASE ClientPacket
    BY <1>1, <1>10
       DEF ClientPacket, Movement, Obstruction, Facing, OtherAction,
           Disconnect, Acted
  <1>11. QED
    BY <1>5, <1>6, <1>7, <1>8, <1>9, <1>10 DEF Next

(* A step that stays within the coordinates stays on its map.              *)
LEMMA StepStaysOnMap ==
  ASSUME NEW place \in Places, NEW direction \in Directions,
         Step(place, direction) # Nothing
  PROVE  /\ Step(place, direction) \in Places
         /\ Step(place, direction)[1] = place[1]
  BY DEF Step, Places

(* Entering a map begins the next epoch, without coverage.                 *)
LEMMA EnterIsMap ==
  ASSUME NEW m \in MapStates, NEW context \in Contexts
  PROVE  /\ Enter(m, context) \in MapStates
         /\ Enter(m, context).context = context
         /\ Enter(m, context).epoch = m.epoch + 1
         /\ \A p \in Places : Enter(m, context).tiles[p] = Nothing
  BY DEF Enter, MapStates, NoTiles

(* What observe_context does, by whether it invalidates scoped state.      *)
LEMMA ObservedContext ==
  ASSUME NEW m \in MapStates, NEW context \in Contexts
  PROVE  /\ ObserveContext(m, context) \in MapStates
         /\ ObserveContext(m, context).context = context
         /\ InvalidatesScopedState(TransitionOf(m, context)) =>
              ObserveContext(m, context) = Enter(m, context)
         /\ ~InvalidatesScopedState(TransitionOf(m, context)) =>
              /\ Identified(m)
              /\ m.context.id = context.id
              /\ ObserveContext(m, context).epoch = m.epoch
              /\ ObserveContext(m, context).tiles = m.tiles
  <1> DEFINE T == TransitionOf(m, context)
  <1>1. CASE ~Identified(m)
    <2>1. T = "Identified"
      BY <1>1 DEF TransitionOf
    <2>2. QED
      BY <2>1, EnterIsMap DEF ObserveContext, InvalidatesScopedState
  <1>2. CASE Identified(m) /\ m.context.id # context.id
    <2>1. T = "Changed"
      BY <1>2 DEF TransitionOf
    <2>2. QED
      BY <2>1, EnterIsMap DEF ObserveContext, InvalidatesScopedState
  <1>3. CASE Identified(m) /\ m.context.id = context.id
    <2>1. T \in {"Unchanged", "Updated"}
      BY <1>3 DEF TransitionOf
    <2>2. ObserveContext(m, context) = [m EXCEPT !.context = context]
      BY <2>1 DEF ObserveContext
    <2>3. QED
      BY <1>3, <2>1, <2>2 DEF InvalidatesScopedState, MapStates
  <1>4. QED
    BY <1>1, <1>2, <1>3

(* Map, location, facing and entities keep their types.                    *)
LEMMA MapTypesStep ==
  ASSUME TypeOK, Next
  PROVE  MapTypes'
  <1> USE DEF TypeOK
  <1>1. CASE UNCHANGED <<map, location, facing, entities>>
    BY <1>1 DEF MapTypes
  <1>2. CASE SessionStarted
    BY <1>2 DEF SessionStarted, MapTypes, MapStates, Attachment, NoTiles
  <1>3. CASE SeedMapIdentity
    <2>1. Context(scan.of, Undescribed) \in Contexts
      BY <1>3 DEF SeedMapIdentity, ClientTypes, Scans, Context, Contexts
    <2>2. map' \in MapStates
      BY <1>3, <2>1, EnterIsMap DEF SeedMapIdentity, ObserveIdentity, MapTypes
    <2>3. QED
      BY <1>3, <2>2 DEF SeedMapIdentity, MapTypes, playerVars
  <1>4. ASSUME NEW id \in Maps, NEW environment \in Environments,
               MapContext(id, environment)
        PROVE  MapTypes'
    <2>1. Context(id, environment) \in Contexts
      BY DEF Context, Contexts
    <2>2. map' \in MapStates
      BY <1>4, <2>1, ObservedContext DEF MapContext, MapTypes
    <2>3. QED
      BY <1>4, <2>2 DEF MapContext, MapTypes
  <1>5. ASSUME NEW place \in Here, NEW ground \in Grounds,
               MapRegion(place, ground)
        PROVE  MapTypes'
    BY <1>5 DEF MapRegion, MapTypes, MapStates, MergeTile, Here, playerVars
  <1>6. ASSUME NEW place \in Here, PlayerLocation(place)
        PROVE  MapTypes'
    BY <1>6 DEF PlayerLocation, MapTypes, Locations, Here
  <1>7. ASSUME NEW seen \in SUBSET Entities, NEW places \in [seen -> Here],
               EntityAppearances(places)
        PROVE  MapTypes'
    BY <1>7
       DEF EntityAppearances, MapTypes, EntityStates, Here, WasHurt,
           playerVars
  <1>8. ASSUME NEW e \in Entities, NEW origin \in Here,
               NEW direction \in Directions, EntityMovement(e, origin, direction)
        PROVE  MapTypes'
    BY <1>8, StepStaysOnMap
       DEF EntityMovement, MapTypes, EntityStates, Here, WasHurt, playerVars
  <1>9. ASSUME NEW e \in Entities, EntityRemoval(e) \/ ActorVitality(e)
        PROVE  MapTypes'
    BY <1>9
       DEF EntityRemoval, ActorVitality, MapTypes, EntityStates, playerVars
  <1>10. ASSUME NEW origin \in Here, NEW direction \in Directions,
                Movement(origin, direction)
         PROVE  MapTypes'
    BY <1>10, StepStaysOnMap
       DEF Movement, Acted, MapTypes, Locations, Here, Viewport
  <1>11. ASSUME NEW origin \in Here, NEW direction \in Directions,
                Obstruction(origin, direction)
         PROVE  MapTypes'
    BY <1>11 DEF Obstruction, Acted, MapTypes, Locations, Here, Viewport
  <1>12. ASSUME NEW direction \in Directions, Facing(direction)
         PROVE  MapTypes'
    BY <1>12 DEF Facing, Acted, MapTypes
  <1>13. CASE Adapter
    BY <1>1, <1>2, <1>3, <1>13
       DEF Adapter, TransportClosed, ReadClient, SeedResources, SeedInventory,
           worldVars, playerVars
  <1>14. CASE MapPacket
    BY <1>4, <1>5, <1>14 DEF MapPacket
  <1>15. CASE PlayerPacket
    BY <1>1, <1>6, <1>15
       DEF PlayerPacket, PlayerStatus, SpellbookEntry, InventorySlot,
           EquipmentSlot, CharacterProfile, playerVars
  <1>16. CASE EntityPacket
    BY <1>7, <1>8, <1>9, <1>16 DEF EntityPacket
  <1>17. CASE OtherPacket
    BY <1>1, <1>17
       DEF OtherPacket, TravelMenu, NoFact, Heartbeat, ActorAction, Message,
           playerVars
  <1>18. CASE ClientPacket
    BY <1>1, <1>10, <1>11, <1>12, <1>18
       DEF ClientPacket, OtherAction, Disconnect, Acted
  <1>19. QED
    BY <1>13, <1>14, <1>15, <1>16, <1>17, <1>18 DEF Next

(* A world that has observed nothing satisfies the invariant.              *)
LEMMA InitWorldInv == Init => WorldInv
  <1> SUFFICES ASSUME Init PROVE WorldInv
    OBVIOUS
  <1> USE DEF Init
  <1>1. ClientTypes /\ MapTypes /\ ResourceTypes /\ SessionTypes
    BY
       DEF ClientTypes, MapTypes, MapStates, Attachment, NoTiles,
           ResourceTypes, Knowledge, Tags, SessionTypes
  <1>2. HistoryTypes
    BY HistoryAssumption DEF HistoryTypes, Bounded
  <1>3. PossessionTypes
    BY DEF PossessionTypes, NoSlots, Tags, Carried
  <1>4. MapScopedFactsAreHere
    BY
       DEF MapScopedFactsAreHere, IdentityIsHere, LocationIsHere,
           EntitiesAreHere, TilesAreHere, Identified, Attachment, NoTiles
  <1>5. /\ ResourcesAreTheClients /\ EquipmentIsTheClients
        /\ OutgrownReadingsAreCovered
    BY
       DEF ResourcesAreTheClients, EquipmentIsTheClients, NoSlots,
           OutgrownReadingsAreCovered
  <1>6. QED
    BY <1>1, <1>2, <1>3, <1>4, <1>5 DEF WorldInv, TypeOK

(* No observation makes the projection speak of a map other than the       *)
(* client's.                                                               *)
LEMMA MapScopedStep ==
  ASSUME WorldInv, Next
  PROVE  MapScopedFactsAreHere'
  <1> USE DEF WorldInv, TypeOK
  <1>1. CASE /\ UNCHANGED <<map, location, entities>>
             /\ client'.map = client.map
    BY <1>1
       DEF MapScopedFactsAreHere, IdentityIsHere, LocationIsHere,
           EntitiesAreHere, TilesAreHere, Here
  <1>2. CASE SessionStarted
    BY <1>2
       DEF SessionStarted, MapScopedFactsAreHere, IdentityIsHere,
           LocationIsHere, EntitiesAreHere, TilesAreHere, Identified,
           Attachment, NoTiles
  <1>3. CASE SeedMapIdentity
    <2>1. CASE Identified(map)
      BY <1>1, <1>3, <2>1 DEF SeedMapIdentity, ObserveIdentity, playerVars
    <2>2. CASE ~Identified(map)
      <3>1. scan.of = client.map
        BY <1>3, <2>2 DEF SeedMapIdentity, OutgrownReadingsAreCovered
      <3>2. Context(scan.of, Undescribed) \in Contexts
        BY <1>3 DEF SeedMapIdentity, ClientTypes, Scans, Context, Contexts
      <3>3. /\ map'.context = Context(client.map, Undescribed)
            /\ \A p \in Places : map'.tiles[p] = Nothing
        BY <1>3, <2>2, <3>1, <3>2, EnterIsMap
           DEF SeedMapIdentity, ObserveIdentity, MapTypes
      <3>4. QED
        BY <1>3, <3>3
           DEF SeedMapIdentity, Context, MapScopedFactsAreHere,
               IdentityIsHere, LocationIsHere, EntitiesAreHere, TilesAreHere,
               Here, playerVars
    <2>3. QED
      BY <2>1, <2>2
  <1>4. ASSUME NEW id \in Maps, NEW environment \in Environments,
               MapContext(id, environment)
        PROVE  MapScopedFactsAreHere'
    <2> DEFINE context == Context(id, environment)
    <2>1. context \in Contexts /\ context.id = id
      BY DEF Context, Contexts
    <2>2. client'.map = id /\ map' = ObserveContext(map, context)
      BY <1>4 DEF MapContext, ClientTypes, Clients
    <2>3. CASE InvalidatesScopedState(TransitionOf(map, context))
      <3>1. /\ map'.context = context
            /\ \A p \in Places : map'.tiles[p] = Nothing
        BY <2>1, <2>2, <2>3, ObservedContext, EnterIsMap DEF MapTypes
      <3>2. entities' = [e \in Entities |-> Nothing] /\ location' = Nothing
        BY <1>4, <2>3 DEF MapContext
      <3>3. QED
        BY <2>1, <2>2, <3>1, <3>2
           DEF MapScopedFactsAreHere, IdentityIsHere, LocationIsHere,
               EntitiesAreHere, TilesAreHere
    <2>4. CASE ~InvalidatesScopedState(TransitionOf(map, context))
      <3>1. /\ Identified(map) /\ map.context.id = id
            /\ map'.context = context /\ map'.tiles = map.tiles
        BY <2>1, <2>2, <2>4, ObservedContext DEF MapTypes
      <3>2. id = client.map
        BY <3>1 DEF MapScopedFactsAreHere, IdentityIsHere
      <3>3. UNCHANGED <<entities, location>>
        BY <1>4, <2>4 DEF MapContext
      <3>4. QED
        BY <2>1, <2>2, <3>1, <3>2, <3>3
           DEF MapScopedFactsAreHere, IdentityIsHere, LocationIsHere,
               EntitiesAreHere, TilesAreHere, Here
    <2>5. QED
      BY <2>3, <2>4
  <1> USE
          DEF MapScopedFactsAreHere, IdentityIsHere, LocationIsHere,
              EntitiesAreHere, TilesAreHere, Here
  <1>5. ASSUME NEW place \in Here, NEW ground \in Grounds,
               MapRegion(place, ground)
        PROVE  MapScopedFactsAreHere'
    BY <1>5
       DEF MapRegion, MergeTile, MapTypes, MapStates, Identified, playerVars
  <1>6. ASSUME NEW place \in Here, PlayerLocation(place)
        PROVE  MapScopedFactsAreHere'
    BY <1>6 DEF PlayerLocation
  <1>7. ASSUME NEW seen \in SUBSET Entities, NEW places \in [seen -> Here],
               EntityAppearances(places)
        PROVE  MapScopedFactsAreHere'
    BY <1>7 DEF EntityAppearances, playerVars
  <1>8. ASSUME NEW e \in Entities, NEW origin \in Here,
               NEW direction \in Directions, EntityMovement(e, origin, direction)
        PROVE  MapScopedFactsAreHere'
    BY <1>8, StepStaysOnMap DEF EntityMovement, MapTypes, playerVars
  <1>9. ASSUME NEW e \in Entities, EntityRemoval(e) \/ ActorVitality(e)
        PROVE  MapScopedFactsAreHere'
    BY <1>9
       DEF EntityRemoval, ActorVitality, MapTypes, EntityStates, playerVars
  <1>10. ASSUME NEW origin \in Here, NEW direction \in Directions,
                Movement(origin, direction)
         PROVE  MapScopedFactsAreHere'
    BY <1>10, StepStaysOnMap DEF Movement, Acted, Viewport
  <1>11. ASSUME NEW origin \in Here, NEW direction \in Directions,
                Obstruction(origin, direction)
         PROVE  MapScopedFactsAreHere'
    BY <1>11 DEF Obstruction, Acted, Viewport
  <1> USE DEF ClientTypes, Clients
  <1>12. CASE Adapter
    BY <1>1, <1>2, <1>3, <1>12
       DEF Adapter, TransportClosed, ReadClient, SeedResources, SeedInventory,
           worldVars, playerVars
  <1>13. CASE MapPacket
    BY <1>4, <1>5, <1>13 DEF MapPacket
  <1>14. CASE PlayerPacket
    BY <1>1, <1>6, <1>14
       DEF PlayerPacket, PlayerStatus, SpellbookEntry, InventorySlot,
           EquipmentSlot, CharacterProfile, playerVars
  <1>15. CASE EntityPacket
    BY <1>7, <1>8, <1>9, <1>15 DEF EntityPacket
  <1>16. CASE OtherPacket
    BY <1>1, <1>16
       DEF OtherPacket, TravelMenu, NoFact, Heartbeat, ActorAction, Message,
           playerVars
  <1>17. CASE ClientPacket
    BY <1>1, <1>10, <1>11, <1>17
       DEF ClientPacket, OtherAction, Disconnect, Facing, Acted
  <1>18. QED
    BY <1>12, <1>13, <1>14, <1>15, <1>16, <1>17 DEF Next

(* No observation leaves a known resource other than the client's.         *)
LEMMA ResourcesStep ==
  ASSUME WorldInv, Next
  PROVE  ResourcesAreTheClients'
  <1> USE DEF WorldInv, TypeOK, ResourcesAreTheClients
  <1>1. CASE UNCHANGED <<resourceVars, client>>
    BY <1>1 DEF resourceVars
  <1>2. CASE SessionStarted
    BY <1>2 DEF SessionStarted
  <1>3. CASE SeedResources
    BY <1>3 DEF SeedResources, Seeded, OutgrownReadingsAreCovered
  <1>4. ASSUME NEW blocks, NEW vita \in Amounts, NEW maximumVita \in Amounts,
               PlayerStatus(blocks, vita, maximumVita)
        PROVE  ResourcesAreTheClients'
    <2>1. \/ current' = <<vita, "PlayerStatus">> /\ client'.current = vita
          \/ UNCHANGED current /\ client'.current = client.current
      BY <1>4 DEF PlayerStatus, Reported, ClientTypes, Clients
    <2>2. \/ /\ maximum' = <<maximumVita, "PlayerStatus">>
             /\ client'.maximum = maximumVita
          \/ UNCHANGED maximum /\ client'.maximum = client.maximum
      BY <1>4 DEF PlayerStatus, Reported, ClientTypes, Clients
    <2>3. QED
      BY <2>1, <2>2
  <1>5. CASE /\ UNCHANGED resourceVars
             /\ client'.current = client.current
             /\ client'.maximum = client.maximum
    BY <1>5 DEF resourceVars
  <1> USE DEF ClientTypes, Clients
  <1>6. CASE Adapter
    BY <1>1, <1>2, <1>3, <1>6
       DEF Adapter, TransportClosed, ReadClient, SeedInventory,
           SeedMapIdentity, worldVars, playerVars
  <1>7. CASE MapPacket
    BY <1>5, <1>7 DEF MapPacket, MapContext, MapRegion, playerVars
  <1>8. CASE PlayerPacket
    BY <1>1, <1>4, <1>5, <1>8
       DEF PlayerPacket, PlayerLocation, SpellbookEntry, InventorySlot,
           EquipmentSlot, CharacterProfile, playerVars
  <1>9. CASE EntityPacket
    BY <1>1, <1>9
       DEF EntityPacket, EntityAppearances, EntityMovement, EntityRemoval,
           ActorVitality, playerVars
  <1>10. CASE OtherPacket
    BY <1>1, <1>10
       DEF OtherPacket, TravelMenu, NoFact, Heartbeat, ActorAction, Message,
           playerVars
  <1>11. CASE ClientPacket
    BY <1>1, <1>11
       DEF ClientPacket, Movement, Obstruction, OtherAction, Disconnect,
           Facing, Acted
  <1>12. QED
    BY <1>6, <1>7, <1>8, <1>9, <1>10, <1>11 DEF Next

(* No observation makes the equipment other than the client's.             *)
LEMMA EquipmentStep ==
  ASSUME WorldInv, Next
  PROVE  EquipmentIsTheClients'
  <1> USE DEF WorldInv, TypeOK, EquipmentIsTheClients
  <1>1. CASE /\ UNCHANGED <<equipment, equipmentComplete>>
             /\ client'.equipment = client.equipment
    BY <1>1
  <1>2. CASE SessionStarted
    BY <1>2 DEF SessionStarted, NoSlots
  <1>3. ASSUME NEW slot \in Slots, NEW item \in Items \cup {Nothing},
               EquipmentSlot(slot, item)
        PROVE  EquipmentIsTheClients'
    BY <1>3 DEF EquipmentSlot, PossessionTypes, ClientTypes, Clients
  <1>4. CASE CharacterProfile
    BY <1>4 DEF CharacterProfile
  <1> USE DEF ClientTypes, Clients, possessionVars
  <1>5. CASE Adapter
    BY <1>1, <1>2, <1>5
       DEF Adapter, TransportClosed, ReadClient, SeedResources, SeedInventory,
           SeedMapIdentity, worldVars
  <1>6. CASE MapPacket
    BY <1>1, <1>6 DEF MapPacket, MapContext, MapRegion
  <1>7. CASE PlayerPacket
    BY <1>1, <1>3, <1>4, <1>7
       DEF PlayerPacket, PlayerLocation, PlayerStatus, SpellbookEntry,
           InventorySlot
  <1>8. CASE EntityPacket
    BY <1>1, <1>8
       DEF EntityPacket, EntityAppearances, EntityMovement, EntityRemoval,
           ActorVitality
  <1>9. CASE OtherPacket
    BY <1>1, <1>9
       DEF OtherPacket, TravelMenu, NoFact, Heartbeat, ActorAction, Message
  <1>10. CASE ClientPacket
    BY <1>1, <1>10
       DEF ClientPacket, Movement, Obstruction, OtherAction, Disconnect,
           Facing, Acted
  <1>11. QED
    BY <1>5, <1>6, <1>7, <1>8, <1>9, <1>10 DEF Next

(* What outgrows a pending reading is projected by the same packet.        *)
LEMMA ReadingsStep ==
  ASSUME WorldInv, Next
  PROVE  OutgrownReadingsAreCovered'
  <1> USE DEF WorldInv, TypeOK, OutgrownReadingsAreCovered
  <1>1. CASE scan' = Nothing
    BY <1>1
  <1>2. CASE ReadClient
    BY <1>2 DEF ReadClient, Reading
  <1>3. CASE /\ UNCHANGED <<map, resourceVars, scan>>
             /\ client'.map = client.map
             /\ client'.current = client.current
             /\ client'.maximum = client.maximum
    BY <1>3 DEF Identified, resourceVars
  <1>4. ASSUME NEW id \in Maps, NEW environment \in Environments,
               MapContext(id, environment)
        PROVE  OutgrownReadingsAreCovered'
    <2> DEFINE context == Context(id, environment)
    <2>1. context \in Contexts
      BY DEF Context, Contexts
    <2>2. map'.context = context
      BY <1>4, <2>1, ObservedContext DEF MapContext, MapTypes
    <2>3. Identified(map')
      BY <2>1, <2>2, NothingAssumption DEF Identified
    <2>4. /\ UNCHANGED <<resourceVars, scan>>
          /\ client'.current = client.current
          /\ client'.maximum = client.maximum
      BY <1>4 DEF MapContext, ClientTypes, Clients
    <2>5. QED
      BY <2>3, <2>4 DEF resourceVars
  <1>5. ASSUME NEW place, NEW ground, MapRegion(place, ground)
        PROVE  OutgrownReadingsAreCovered'
    BY <1>5
       DEF MapRegion, MergeTile, Identified, MapTypes, MapStates, playerVars,
           resourceVars
  <1>6. ASSUME NEW blocks, NEW vita \in Amounts, NEW maximumVita \in Amounts,
               PlayerStatus(blocks, vita, maximumVita)
        PROVE  OutgrownReadingsAreCovered'
    <2>1. /\ UNCHANGED <<map, scan>>
          /\ client'.map = client.map
      BY <1>6 DEF PlayerStatus, ClientTypes, Clients
    <2>2. \/ current' = <<vita, "PlayerStatus">>
          \/ UNCHANGED current /\ client'.current = client.current
      BY <1>6 DEF PlayerStatus, Reported, ClientTypes, Clients
    <2>3. \/ maximum' = <<maximumVita, "PlayerStatus">>
          \/ UNCHANGED maximum /\ client'.maximum = client.maximum
      BY <1>6 DEF PlayerStatus, Reported, ClientTypes, Clients
    <2>4. \A amount \in Amounts : <<amount, "PlayerStatus">> # Nothing
      BY NothingIsNoItem
    <2>5. QED
      BY <2>1, <2>2, <2>3, <2>4 DEF Identified
  <1> USE DEF ClientTypes, Clients
  <1>7. CASE Adapter
    BY <1>1, <1>2, <1>3, <1>7
       DEF Adapter, SessionStarted, TransportClosed, SeedResources,
           SeedInventory, SeedMapIdentity, playerVars
  <1>8. CASE MapPacket
    BY <1>4, <1>5, <1>8 DEF MapPacket
  <1>9. CASE PlayerPacket
    BY <1>3, <1>6, <1>9
       DEF PlayerPacket, PlayerLocation, SpellbookEntry, InventorySlot,
           EquipmentSlot, CharacterProfile, playerVars
  <1>10. CASE EntityPacket
    BY <1>3, <1>10
       DEF EntityPacket, EntityAppearances, EntityMovement, EntityRemoval,
           ActorVitality, playerVars
  <1>11. CASE OtherPacket
    BY <1>3, <1>11
       DEF OtherPacket, TravelMenu, NoFact, Heartbeat, ActorAction, Message,
           playerVars
  <1>12. CASE ClientPacket
    BY <1>3, <1>12
       DEF ClientPacket, Movement, Obstruction, OtherAction, Disconnect,
           Facing, Acted
  <1>13. QED
    BY <1>7, <1>8, <1>9, <1>10, <1>11, <1>12 DEF Next

(* A step that changes nothing keeps the invariant.                        *)
LEMMA StutterKeepsWorldInv ==
  ASSUME WorldInv, UNCHANGED vars
  PROVE  WorldInv'
  <1> USE
          DEF WorldInv, vars, worldVars, playerVars, resourceVars,
              sessionVars, actionVars, actorVars, possessionVars
  <1>1. TypeOK'
    BY
       DEF TypeOK, ClientTypes, MapTypes, ResourceTypes, SessionTypes,
           HistoryTypes, Bounded, PossessionTypes
  <1>2. MapScopedFactsAreHere'
    BY
       DEF MapScopedFactsAreHere, IdentityIsHere, LocationIsHere,
           EntitiesAreHere, TilesAreHere, Here, Identified
  <1>3. /\ ResourcesAreTheClients' /\ EquipmentIsTheClients'
        /\ OutgrownReadingsAreCovered'
    BY
       DEF ResourcesAreTheClients, EquipmentIsTheClients,
           OutgrownReadingsAreCovered, Identified
  <1>4. QED
    BY <1>1, <1>2, <1>3

(* The inductive invariant of world.rs: the types, the three facts below,  *)
(* and that pending readings from memory are covered by what packets said  *)
(* since.                                                                  *)
THEOREM WorldInvariant == Spec => []WorldInv
  <1>1. Init => WorldInv
    BY InitWorldInv
  <1>2. ASSUME WorldInv, [Next]_vars
        PROVE  WorldInv'
    <2>1. CASE Next
      <3>1. TypeOK'
        BY <1>2, <2>1, ClientTypesStep, MapTypesStep, ResourceTypesStep,
           SessionTypesStep, HistoryTypesStep, PossessionTypesStep
           DEF WorldInv, TypeOK
      <3>2. QED
        BY <1>2, <2>1, <3>1, MapScopedStep, ResourcesStep, EquipmentStep,
           ReadingsStep
           DEF WorldInv
    <2>2. CASE UNCHANGED vars
      BY <1>2, <2>2, StutterKeepsWorldInv
    <2>3. QED
      BY <1>2, <2>1, <2>2
  <1>3. QED
    BY <1>1, <1>2, PTL DEF Spec

(* Identity, location, entities and coverage are those of the map the      *)
(* client is on, for any number of maps, sessions and observations.        *)
THEOREM ProjectionIsOfOneMap == Spec => []MapScopedFactsAreHere
  BY WorldInvariant, PTL DEF WorldInv

(* Resources seeded from an old memory reading never contradict the status *)
(* packets observed since.                                                 *)
THEOREM SeededResourcesAreCurrent == Spec => []ResourcesAreTheClients
  BY WorldInvariant, PTL DEF WorldInv

(* Equipment that is shown is worn, and complete equipment is all of it.   *)
THEOREM EquipmentIsHonest == Spec => []EquipmentIsTheClients
  BY WorldInvariant, PTL DEF WorldInv

(* Type correctness, with the bounds of all histories.                     *)
THEOREM WorldTypes == Spec => []TypeOK
  BY WorldInvariant, PTL DEF WorldInv

(* Within a session a step advances the epoch exactly if it changes the    *)
(* identity.                                                               *)
LEMMA EpochStep ==
  ASSUME WorldInv, Next, sessionEpoch' = sessionEpoch
  PROVE  /\ map'.epoch >= map.epoch
         /\ map'.epoch = map.epoch <=> Identity(map') = Identity(map)
  <1> DEFINE Goal == /\ map'.epoch >= map.epoch
                     /\ map'.epoch = map.epoch <=> Identity(map') = Identity(map)
  <1> USE DEF WorldInv, TypeOK, MapTypes
  <1>1. map.epoch \in Nat
    BY DEF MapStates
  <1>2. CASE UNCHANGED map
    BY <1>1, <1>2 DEF Identity, Identified
  <1>3. ASSUME NEW context \in Contexts, map' = Enter(map, context),
               context.id # Identity(map)
        PROVE  Goal
    BY <1>1, <1>3, EnterIsMap, NothingAssumption DEF Identity, Identified
  <1>4. CASE SeedMapIdentity
    <2>1. Context(scan.of, Undescribed) \in Contexts
      BY <1>4 DEF SeedMapIdentity, ClientTypes, Scans, Context, Contexts
    <2>2. CASE Identified(map)
      BY <1>2, <1>4, <2>2 DEF SeedMapIdentity, ObserveIdentity
    <2>3. CASE ~Identified(map)
      <3>1. Context(scan.of, Undescribed).id # Identity(map)
        BY <1>4, <2>3, NothingAssumption
           DEF SeedMapIdentity, ClientTypes, Scans, Context, Identity
      <3>2. QED
        BY <1>3, <1>4, <2>1, <2>3, <3>1 DEF SeedMapIdentity, ObserveIdentity
    <2>4. QED
      BY <2>2, <2>3
  <1>5. ASSUME NEW id \in Maps, NEW environment \in Environments,
               MapContext(id, environment)
        PROVE  Goal
    <2> DEFINE context == Context(id, environment)
    <2>1. /\ context \in Contexts /\ context.id = id
          /\ map' = ObserveContext(map, context)
      BY <1>5 DEF Context, Contexts, MapContext
    <2>2. CASE InvalidatesScopedState(TransitionOf(map, context))
      <3>1. context.id # Identity(map)
        BY <2>1, <2>2, NothingAssumption
           DEF TransitionOf, InvalidatesScopedState, Identity
      <3>2. QED
        BY <1>3, <2>1, <2>2, <3>1, ObservedContext
    <2>3. CASE ~InvalidatesScopedState(TransitionOf(map, context))
      BY <1>1, <2>1, <2>3, ObservedContext, NothingAssumption
         DEF Identity, Identified
    <2>4. QED
      BY <2>2, <2>3
  <1>6. ASSUME NEW place, NEW ground, MapRegion(place, ground)
        PROVE  Goal
    BY <1>1, <1>6 DEF MapRegion, MergeTile, Identity, Identified, MapStates
  <1>7. ~SessionStarted
    <2>1. sessionEpoch \in Nat
      BY DEF SessionTypes
    <2>2. SessionStarted => sessionEpoch' = sessionEpoch + 1
      BY DEF SessionStarted
    <2>3. QED
      BY <2>1, <2>2
  <1>8. CASE Adapter
    BY <1>2, <1>4, <1>7, <1>8
       DEF Adapter, TransportClosed, ReadClient, SeedResources, SeedInventory,
           worldVars
  <1>9. CASE MapPacket
    BY <1>5, <1>6, <1>9 DEF MapPacket
  <1>10. CASE PlayerPacket
    BY <1>2, <1>10
       DEF PlayerPacket, PlayerStatus, PlayerLocation, SpellbookEntry,
           InventorySlot, EquipmentSlot, CharacterProfile
  <1>11. CASE EntityPacket
    BY <1>2, <1>11
       DEF EntityPacket, EntityAppearances, EntityMovement, EntityRemoval,
           ActorVitality
  <1>12. CASE OtherPacket
    BY <1>2, <1>12
       DEF OtherPacket, TravelMenu, NoFact, Heartbeat, ActorAction, Message
  <1>13. CASE ClientPacket
    BY <1>2, <1>13
       DEF ClientPacket, Movement, Obstruction, OtherAction, Disconnect,
           Facing, Acted
  <1>14. QED
    BY <1>8, <1>9, <1>10, <1>11, <1>12, <1>13 DEF Next

(* Equal map epochs of one session are the same map.                       *)
THEOREM EpochsNameMaps == Spec => EpochNamesMap
  <1>1. ASSUME WorldInv, [Next]_vars, sessionEpoch' = sessionEpoch
        PROVE  /\ map'.epoch >= map.epoch
               /\ map'.epoch = map.epoch <=> Identity(map') = Identity(map)
    <2>1. CASE Next
      BY <1>1, <2>1, EpochStep
    <2>2. CASE UNCHANGED vars
      BY <1>1, <2>2
         DEF vars, worldVars, Identity, Identified, WorldInv, TypeOK,
             MapTypes, MapStates
    <2>3. QED
      BY <1>1, <2>1, <2>2
  <1>2. QED
    BY <1>1, WorldInvariant, PTL DEF Spec, EpochNamesMap

-----------------------------------------------------------------------------
(* An observation counts as Projected or as Recorded, never as both.       *)
LEMMA RecordedIsNotProjected ==
  ASSUME NEW projected \in BOOLEAN, NEW evidence, Observed(projected, evidence),
         change'.effect = "Recorded"
  PROVE  ~projected
  BY DEF Observed

(* A handler that reports Recorded has written what was there already, or   *)
(* is the one that closes the travel menu.                                  *)
LEMMA RecordedStep ==
  ASSUME TypeOK, Next, ~UNCHANGED worldVars, change'.effect = "Recorded"
  PROVE  UNCHANGED factVars /\ (UNCHANGED travelMenu \/ MenuClosed)
  <1> DEFINE Told == UNCHANGED factVars /\ (UNCHANGED travelMenu \/ MenuClosed)
  <1> USE DEF factVars, playerVars, resourceVars, sessionVars, actionVars,
              actorVars, possessionVars
  <1>1. CASE Adapter
    <2>1. CASE SessionStarted \/ TransportClosed
      BY <2>1, RecordedIsNotProjected DEF SessionStarted, TransportClosed
    <2>2. CASE ReadClient
      BY <2>2 DEF ReadClient
    <2>3. CASE SeedResources
      BY <2>3, RecordedIsNotProjected DEF SeedResources
    <2>4. CASE SeedInventory
      <3>1. ~(~inventoryComplete \/ inventory' # inventory)
        BY <2>4, RecordedIsNotProjected DEF SeedInventory, TypeOK, PossessionTypes
      <3>2. QED
        BY <2>4, <3>1 DEF SeedInventory
    <2>5. CASE SeedMapIdentity
      <3>1. Identified(map)
        BY <2>5, RecordedIsNotProjected DEF SeedMapIdentity, Identified
      <3>2. QED
        BY <2>5, <3>1 DEF SeedMapIdentity, ObserveIdentity
    <2>6. QED
      BY <1>1, <2>1, <2>2, <2>3, <2>4, <2>5 DEF Adapter
  <1>2. CASE MapPacket
    <2>1. ASSUME NEW id \in Maps, NEW environment \in Environments,
                 MapContext(id, environment)
          PROVE  Told
      <3> DEFINE context == Context(id, environment)
      <3>1. TransitionOf(map, context) = "Unchanged"
        BY <2>1, RecordedIsNotProjected DEF MapContext, Changes
      <3>2. Identified(map) /\ map.context = context
        BY <3>1 DEF TransitionOf
      <3>3. [map EXCEPT !.context = context] = map
        BY <3>2 DEF TypeOK, MapTypes, MapStates
      <3>4. map' = map
        BY <2>1, <3>1, <3>3 DEF MapContext, ObserveContext
      <3>5. UNCHANGED <<entities, location>>
        BY <2>1, <3>1 DEF MapContext, InvalidatesScopedState
      <3>6. QED
        BY <2>1, <3>2, <3>4, <3>5 DEF MapContext, MenuClosed, Observed
    <2>2. ASSUME NEW place, NEW ground, MapRegion(place, ground)
          PROVE  Told
      BY <2>2, RecordedIsNotProjected DEF MapRegion
    <2>3. QED
      BY <1>2, <2>1, <2>2 DEF MapPacket
  <1>3. CASE PlayerPacket
    <2>1. ASSUME NEW place, PlayerLocation(place) PROVE Told
      BY <2>1, RecordedIsNotProjected DEF PlayerLocation
    <2>2. ASSUME NEW blocks, NEW vita, NEW maximumVita,
                 PlayerStatus(blocks, vita, maximumVita)
          PROVE  Told
      BY <2>2, RecordedIsNotProjected DEF PlayerStatus
    <2>3. ASSUME NEW slot, SpellbookEntry(slot) PROVE Told
      BY <2>3, RecordedIsNotProjected DEF SpellbookEntry
    <2>4. ASSUME NEW slot, NEW item, InventorySlot(slot, item) \/ EquipmentSlot(slot, item)
          PROVE  Told
      BY <2>4, RecordedIsNotProjected DEF InventorySlot, EquipmentSlot
    <2>5. CASE CharacterProfile
      <3>1. ~(~equipmentComplete \/ equipment' # equipment)
        BY <2>5, RecordedIsNotProjected DEF CharacterProfile, TypeOK, PossessionTypes
      <3>2. QED
        BY <2>5, <3>1 DEF CharacterProfile
    <2>6. QED
      BY <1>3, <2>1, <2>2, <2>3, <2>4, <2>5 DEF PlayerPacket
  <1>4. CASE EntityPacket
    BY <1>4, RecordedIsNotProjected
       DEF EntityPacket, EntityAppearances, EntityMovement, EntityRemoval, ActorVitality
  <1>5. CASE OtherPacket
    BY <1>5, RecordedIsNotProjected
       DEF OtherPacket, ActorAction, Message, TravelMenu, NoFact, Heartbeat
  <1>6. CASE ClientPacket
    <2>1. ASSUME NEW combat, Acted(combat) PROVE FALSE
      BY <2>1, RecordedIsNotProjected DEF Acted
    <2>2. QED
      BY <1>6, <2>1 DEF ClientPacket, Movement, Obstruction, Facing, OtherAction,
                        Disconnect
  <1>7. QED
    BY <1>1, <1>2, <1>3, <1>4, <1>5, <1>6 DEF Next

(* Whoever is told that an observation was only recorded need not look at  *)
(* the snapshot again, unless for the travel menu: the one thing that may   *)
(* have happened to it is that a context of the same map closed it.         *)
THEOREM RecordedIsAlmostSilent == Spec => RecordedClosesAMenuAtMost
  <1>1. ASSUME WorldInv, [Next]_vars, ~UNCHANGED worldVars, change'.effect = "Recorded"
        PROVE  UNCHANGED factVars /\ (UNCHANGED travelMenu \/ MenuClosed)
    BY <1>1, RecordedStep DEF WorldInv, vars
  <1>2. WorldInv /\ [Next]_vars =>
          [change'.effect = "Recorded" =>
             /\ UNCHANGED factVars
             /\ UNCHANGED travelMenu \/ MenuClosed]_worldVars
    BY <1>1
  <1>3. QED
    BY <1>2, WorldInvariant, PTL DEF Spec, RecordedClosesAMenuAtMost

-----------------------------------------------------------------------------
(* A sequence whose elements are all of a set is a sequence over that set. *)
LEMMA NarrowedSequence ==
  ASSUME NEW larger, NEW smaller, NEW values \in Seq(larger),
         \A i \in 1..Len(values) : values[i] \in smaller
  PROVE  values \in Seq(smaller)
  <1>1. Len(values) \in Nat
    BY LenProperties
  <1>2. SubSeq(values, 1, Len(values)) \in Seq(smaller)
    BY <1>1, SubSeqProperties
  <1>3. QED
    BY <1>2, SubSeqFull

(* A history of one session stays one when that session pushes to it.      *)
LEMMA PushedIsOfThisSession ==
  ASSUME NEW epoch \in Nat, NEW values, NEW capacity \in Nat \ {0},
         Bounded(values, Nat, capacity),
         \A i \in 1..Len(values) : values[i] = epoch
  PROVE  LET pushed == PushBounded(values, epoch, capacity)
         IN \A i \in 1..Len(pushed) : pushed[i] = epoch
  <1>1. Bounded(values, {epoch}, capacity)
    BY NarrowedSequence DEF Bounded
  <1>2. PushBounded(values, epoch, capacity) \in Seq({epoch})
    BY <1>1, PushedIsBounded DEF Bounded
  <1>3. QED
    BY <1>2, ElementOfSeq

LEMMA ActedIsOfThisSession ==
  ASSUME TypeOK, OnlyThisSession, NEW combat \in BOOLEAN, Acted(combat)
  PROVE  /\ \A i \in 1..Len(recentActions') :
              recentActions'[i].session = sessionEpoch
         /\ \A i \in 1..Len(recentCombat') : recentCombat'[i] = sessionEpoch
  <1> DEFINE Mine == [combat : BOOLEAN, session : {sessionEpoch}]
  <1>1. sessionEpoch \in Nat
    BY DEF TypeOK, SessionTypes
  <1>2. Bounded(recentActions, Mine, HistoryCapacity)
    <2>1. /\ recentActions \in Seq([combat : BOOLEAN, session : Nat])
          /\ Len(recentActions) <= HistoryCapacity
      BY DEF TypeOK, HistoryTypes, Bounded
    <2>2. ASSUME NEW i \in 1..Len(recentActions)
          PROVE  recentActions[i] \in Mine
      <3>1. recentActions[i] \in [combat : BOOLEAN, session : Nat]
        BY <2>1, ElementOfSeq
      <3>2. recentActions[i].session = sessionEpoch
        BY DEF OnlyThisSession
      <3>3. QED
        BY <3>1, <3>2
    <2>3. QED
      BY <2>1, <2>2, NarrowedSequence DEF Bounded
  <1>3. recentActions' \in Seq(Mine)
    <2>1. [combat |-> combat, session |-> sessionEpoch] \in Mine
      OBVIOUS
    <2>2. QED
      BY <1>2, <2>1, PushedIsBounded, HistoryAssumption DEF Acted, Bounded
  <1>4. ASSUME NEW i \in 1..Len(recentActions')
        PROVE  recentActions'[i].session = sessionEpoch
    <2>1. recentActions'[i] \in Mine
      BY <1>3, ElementOfSeq
    <2>2. QED
      BY <2>1
  <1>5. \A i \in 1..Len(recentCombat') : recentCombat'[i] = sessionEpoch
    BY <1>1, PushedIsOfThisSession, HistoryAssumption
       DEF Acted, RetainCombat, TypeOK, HistoryTypes, OnlyThisSession,
           AllOfThisSession
  <1>6. QED
    BY <1>4, <1>5

(* Nothing but SessionStarted moves the session, and it forgets; the rest  *)
(* writes the session it is in.                                            *)
LEMMA OnlyThisSessionStep ==
  ASSUME TypeOK, OnlyThisSession, Next
  PROVE  OnlyThisSession'
  <1> USE HistoryAssumption
  <1>1. sessionEpoch \in Nat
    BY DEF TypeOK, SessionTypes
  <1> DEFINE kept == <<level, economy, heartbeat, spellbook>>
             histories == <<actionVars, actorVars>>
  <1>2. CASE UNCHANGED <<kept, histories, sessionEpoch>>
    BY <1>2 DEF OnlyThisSession, AllOfThisSession, actionVars, actorVars
  <1>3. CASE SessionStarted
    BY <1>3
       DEF SessionStarted, ForgetHistories, OnlyThisSession, AllOfThisSession,
           NoSlots
  <1>4. ASSUME NEW combat \in BOOLEAN, Acted(combat)
        PROVE  OnlyThisSession'
    BY <1>4, ActedIsOfThisSession
       DEF Acted, OnlyThisSession, AllOfThisSession, resourceVars, actorVars,
           possessionVars
  <1>5. CASE ActorAction
    <2>1. Bounded(actorActions, Nat, CombatCapacity) /\ AllOfThisSession(actorActions)
      BY DEF TypeOK, HistoryTypes, OnlyThisSession
    <2>2. /\ actorActions' = PushBounded(actorActions, sessionEpoch, CombatCapacity)
          /\ sessionEpoch' = sessionEpoch
      BY <1>5 DEF ActorAction, sessionVars
    <2>3. AllOfThisSession(actorActions)'
      BY <1>1, <2>1, <2>2, PushedIsOfThisSession DEF AllOfThisSession
    <2>4. QED
      BY <1>5, <2>3
         DEF ActorAction, OnlyThisSession, AllOfThisSession, playerVars,
             resourceVars, sessionVars, actionVars, possessionVars
  <1>6. ASSUME NEW e, ActorVitality(e)
        PROVE  OnlyThisSession'
    <2>1. Bounded(vitalityEvents, Nat, CombatCapacity) /\ AllOfThisSession(vitalityEvents)
      BY DEF TypeOK, HistoryTypes, OnlyThisSession
    <2>2. /\ vitalityEvents' = PushBounded(vitalityEvents, sessionEpoch, CombatCapacity)
          /\ sessionEpoch' = sessionEpoch
      BY <1>6 DEF ActorVitality, sessionVars
    <2>3. AllOfThisSession(vitalityEvents)'
      BY <1>1, <2>1, <2>2, PushedIsOfThisSession DEF AllOfThisSession
    <2>4. QED
      BY <1>6, <2>3
         DEF ActorVitality, OnlyThisSession, AllOfThisSession, playerVars,
             resourceVars, sessionVars, actionVars, possessionVars
  <1>7. CASE Message
    <2>1. Bounded(messages, Nat, HistoryCapacity) /\ AllOfThisSession(messages)
      BY DEF TypeOK, HistoryTypes, OnlyThisSession
    <2>2. /\ messages' = PushBounded(messages, sessionEpoch, HistoryCapacity)
          /\ sessionEpoch' = sessionEpoch
      BY <1>7 DEF Message, sessionVars
    <2>3. AllOfThisSession(messages)'
      BY <1>1, <2>1, <2>2, PushedIsOfThisSession DEF AllOfThisSession
    <2>4. QED
      BY <1>7, <2>3
         DEF Message, OnlyThisSession, AllOfThisSession, playerVars,
             resourceVars, sessionVars, actionVars, possessionVars
  <1>8. ASSUME NEW slot \in Slots, SpellbookEntry(slot)
        PROVE  OnlyThisSession'
    BY <1>8
       DEF SpellbookEntry, TypeOK, PossessionTypes, OnlyThisSession,
           AllOfThisSession, playerVars, resourceVars, sessionVars,
           actionVars, actorVars
  <1>9. ASSUME NEW blocks, NEW vita, NEW most, PlayerStatus(blocks, vita, most)
        PROVE  OnlyThisSession'
    BY <1>9
       DEF PlayerStatus, OnlyThisSession, AllOfThisSession, sessionVars,
           actionVars, actorVars, possessionVars
  <1>10. CASE Heartbeat
    BY <1>10
       DEF Heartbeat, OnlyThisSession, AllOfThisSession, playerVars,
           resourceVars, actionVars, actorVars, possessionVars
  <1>11. CASE Adapter
    BY <1>2, <1>3, <1>11
       DEF Adapter, TransportClosed, ReadClient, SeedResources, SeedInventory,
           SeedMapIdentity, worldVars, playerVars, resourceVars, sessionVars,
           possessionVars
  <1>12. CASE MapPacket
    BY <1>2, <1>12
       DEF MapPacket, MapContext, MapRegion, playerVars, resourceVars,
           sessionVars, possessionVars
  <1>13. CASE PlayerPacket
    <2>1. ASSUME NEW place, PlayerLocation(place)
          PROVE  OnlyThisSession'
      BY <1>2, <2>1 DEF PlayerLocation, resourceVars, sessionVars, possessionVars
    <2>2. ASSUME NEW slot, NEW item,
                 InventorySlot(slot, item) \/ EquipmentSlot(slot, item)
          PROVE  OnlyThisSession'
      BY <1>2, <2>2
         DEF InventorySlot, EquipmentSlot, playerVars, resourceVars,
             sessionVars
    <2>3. CASE CharacterProfile
      BY <1>2, <2>3
         DEF CharacterProfile, playerVars, resourceVars, sessionVars
    <2>4. QED
      BY <1>8, <1>9, <1>13, <2>1, <2>2, <2>3 DEF PlayerPacket
  <1>14. CASE EntityPacket
    BY <1>2, <1>6, <1>14
       DEF EntityPacket, EntityAppearances, EntityMovement, EntityRemoval,
           playerVars, resourceVars, sessionVars, possessionVars
  <1>15. CASE OtherPacket
    BY <1>2, <1>5, <1>7, <1>10, <1>15
       DEF OtherPacket, TravelMenu, NoFact, playerVars, resourceVars,
           sessionVars, possessionVars
  <1>16. CASE ClientPacket
    BY <1>4, <1>16
       DEF ClientPacket, Movement, Obstruction, OtherAction, Disconnect,
           Facing
  <1>17. QED
    BY <1>11, <1>12, <1>13, <1>14, <1>15, <1>16 DEF Next

(* begin_session leaves nothing of an earlier session to be read, the      *)
(* travel menu excepted, for any number of attachments.                    *)
THEOREM OneSessionAtATime == Spec => []OnlyThisSession
  <1>1. Init => OnlyThisSession
    BY DEF Init, OnlyThisSession, AllOfThisSession, NoSlots
  <1>2. ASSUME WorldInv, OnlyThisSession, [Next]_vars
        PROVE  OnlyThisSession'
    <2>1. CASE UNCHANGED vars
      BY <1>2, <2>1
         DEF OnlyThisSession, AllOfThisSession, vars, worldVars, playerVars,
             resourceVars, sessionVars, actionVars, actorVars, possessionVars
    <2>2. QED
      BY <1>2, <2>1, OnlyThisSessionStep DEF WorldInv
  <1>3. QED
    BY <1>1, <1>2, WorldInvariant, PTL DEF Spec

-----------------------------------------------------------------------------
(* The combat actions among those of a history, counted.                   *)
CombatAt(values) == {i \in 1..Len(values) : values[i].combat}
Combats(values) == Cardinality(CombatAt(values))

LEMMA NothingCounted == Combats(<<>>) = 0 /\ Len(<<>>) = 0
  <1>1. CombatAt(<<>>) = {}
    BY DEF CombatAt
  <1>2. QED
    BY <1>1, FS_EmptySet DEF Combats

LEMMA CombatsAreFinite ==
  ASSUME NEW set, NEW values \in Seq(set)
  PROVE  /\ IsFiniteSet(CombatAt(values))
         /\ Combats(values) \in Nat
         /\ Combats(values) <= Len(values)
  <1>1. Len(values) \in Nat
    BY LenProperties
  <1>2. /\ IsFiniteSet(1..Len(values))
        /\ Cardinality(1..Len(values)) = Len(values)
    BY <1>1, FS_Interval
  <1>3. CombatAt(values) \in SUBSET (1..Len(values))
    BY DEF CombatAt
  <1>4. QED
    BY <1>2, <1>3, FS_Subset, FS_CardinalityType DEF Combats

LEMMA AppendedCombat ==
  ASSUME NEW set, NEW values \in Seq(set), NEW entry \in set
  PROVE  /\ ~entry.combat => Combats(Append(values, entry)) = Combats(values)
         /\ Combats(Append(values, entry)) <= Combats(values) + 1
  <1> DEFINE next == Len(values) + 1
  <1>1. /\ Len(values) \in Nat
        /\ Append(values, entry) \in Seq(set)
        /\ Len(Append(values, entry)) = next
        /\ \A i \in 1..Len(values) : Append(values, entry)[i] = values[i]
        /\ Append(values, entry)[next] = entry
    BY LenProperties, AppendProperties
  <1>2. CombatAt(Append(values, entry)) =
          CombatAt(values) \cup (IF entry.combat THEN {next} ELSE {})
    BY <1>1 DEF CombatAt
  <1>3. IsFiniteSet(CombatAt(values)) /\ Combats(values) \in Nat
    BY CombatsAreFinite
  <1>4. CASE entry.combat
    <2>1. CombatAt(Append(values, entry)) = CombatAt(values) \cup {next}
      BY <1>2, <1>4
    <2>2. Cardinality(CombatAt(values) \cup {next}) =
            IF next \in CombatAt(values) THEN Combats(values)
                                         ELSE Combats(values) + 1
      BY <1>3, FS_AddElement DEF Combats
    <2>3. Combats(Append(values, entry)) <= Combats(values) + 1
      BY <1>3, <2>1, <2>2 DEF Combats
    <2>4. QED
      BY <1>4, <2>3
  <1>5. CASE ~entry.combat
    BY <1>2, <1>3, <1>5 DEF Combats
  <1>6. QED
    BY <1>4, <1>5

LEMMA DroppedCombat ==
  ASSUME NEW set, NEW values \in Seq(set), values # <<>>
  PROVE  Combats(Tail(values)) <= Combats(values)
  <1>1. /\ Len(values) \in Nat
        /\ Tail(values) \in Seq(set)
        /\ Len(Tail(values)) = Len(values) - 1
        /\ \A i \in 1..Len(Tail(values)) : Tail(values)[i] = values[i + 1]
    BY HeadTailProperties, LenProperties
  <1> DEFINE shift == [i \in CombatAt(Tail(values)) |-> i + 1]
  <1>2. \A i \in CombatAt(Tail(values)) : i \in Nat /\ i + 1 \in CombatAt(values)
    BY <1>1 DEF CombatAt
  <1>3. shift \in Injection(CombatAt(Tail(values)), CombatAt(values))
    BY <1>2 DEF Injection, IsInjective
  <1>4. IsFiniteSet(CombatAt(values))
    BY CombatsAreFinite
  <1>5. QED
    BY <1>3, <1>4, FS_Injection DEF Combats

(* A combat action enters both histories; the one that is bounded tighter  *)
(* cannot keep it longer.                                                  *)
LEMMA CombatStep ==
  ASSUME TypeOK, CombatHistoryKept, NEW combat \in BOOLEAN, Acted(combat)
  PROVE  CombatHistoryKept'
  <1> DEFINE Entries == [combat : BOOLEAN, session : Nat]
             entry == [combat |-> combat, session |-> sessionEpoch]
             kept == IF Len(recentActions) = HistoryCapacity
                       THEN Tail(recentActions)
                       ELSE recentActions
  <1>1. /\ recentActions \in Seq(Entries)
        /\ Len(recentActions) \in Nat /\ Len(recentActions) <= HistoryCapacity
        /\ recentCombat \in Seq(Nat)
        /\ Len(recentCombat) \in Nat /\ Len(recentCombat) <= CombatCapacity
        /\ entry \in Entries
    BY LenProperties DEF TypeOK, HistoryTypes, SessionTypes, Bounded
  <1>2. /\ HistoryCapacity \in Nat \ {0} /\ CombatCapacity \in Nat \ {0}
        /\ HistoryCapacity <= CombatCapacity
    BY HistoryAssumption
  <1>3. Combats(recentActions) \in Nat /\ Combats(recentActions) <= Len(recentCombat)
    BY <1>1, CombatsAreFinite DEF CombatHistoryKept, Combats, CombatAt
  <1>4. kept \in Seq(Entries) /\ Combats(kept) <= Combats(recentActions)
    <2>1. CASE Len(recentActions) = HistoryCapacity
      <3>1. recentActions # <<>>
        BY <1>1, <1>2, <2>1, EmptySeq
      <3>2. QED
        BY <1>1, <2>1, <3>1, HeadTailProperties, DroppedCombat
    <2>2. CASE Len(recentActions) # HistoryCapacity
      BY <1>1, <1>3, <2>2
    <2>3. QED
      BY <2>1, <2>2
  <1>5. recentActions' = Append(kept, entry)
    BY DEF Acted, PushBounded
  <1>6. Bounded(recentActions', Entries, HistoryCapacity)
    BY <1>1, <1>2, PushedIsBounded DEF Acted, Bounded
  <1>7. /\ Combats(recentActions') \in Nat
        /\ Combats(recentActions') <= HistoryCapacity
    BY <1>2, <1>6, CombatsAreFinite, LenProperties DEF Bounded
  <1>8. Combats(kept) \in Nat /\ Combats(kept) <= Len(recentCombat)
    <2>1. Combats(kept) \in Nat
      BY <1>4, CombatsAreFinite
    <2> HIDE DEF kept
    <2>2. QED
      BY <1>1, <1>3, <1>4, <2>1
  <1> SUFFICES Combats(recentActions') <= Len(recentCombat')
    BY DEF CombatHistoryKept, Combats, CombatAt
  <1>9. CASE ~combat
    <2>1. Combats(recentActions') = Combats(kept)
      BY <1>1, <1>4, <1>5, <1>9, AppendedCombat
    <2>2. recentCombat' = recentCombat
      BY <1>9 DEF Acted, RetainCombat
    <2>3. QED
      BY <1>8, <2>1, <2>2
  <1>10. CASE combat
    <2>1. recentCombat' = PushBounded(recentCombat, sessionEpoch, CombatCapacity)
      BY <1>10 DEF Acted, RetainCombat
    <2>2. Combats(recentActions') <= Combats(kept) + 1
      BY <1>1, <1>4, <1>5, AppendedCombat
    <2>3. sessionEpoch \in Nat
      BY DEF TypeOK, SessionTypes
    <2>4. CASE Len(recentCombat) = CombatCapacity
      <3>1. recentCombat # <<>>
        BY <1>1, <1>2, <2>4, EmptySeq
      <3>2. /\ Tail(recentCombat) \in Seq(Nat)
            /\ Len(Tail(recentCombat)) = CombatCapacity - 1
        BY <1>1, <2>4, <3>1, HeadTailProperties
      <3>3. recentCombat' = Append(Tail(recentCombat), sessionEpoch)
        BY <2>1, <2>4 DEF PushBounded
      <3>4. Len(recentCombat') = CombatCapacity
        BY <1>2, <2>3, <3>2, <3>3, AppendProperties
      <3>5. QED
        BY <1>2, <1>7, <3>4
    <2>5. CASE Len(recentCombat) # CombatCapacity
      <3>1. Len(recentCombat') = Len(recentCombat) + 1
        BY <1>1, <2>1, <2>3, <2>5, AppendProperties DEF PushBounded
      <3> HIDE DEF kept
      <3>2. QED
        BY <1>1, <1>7, <1>8, <2>2, <3>1
    <2>6. QED
      BY <2>4, <2>5
  <1>11. QED
    BY <1>9, <1>10

(* However busy the client is, an attack it made is forgotten by the       *)
(* history of combat no sooner than by the history of everything, for any  *)
(* capacities of which the first is not the smaller.                       *)
THEOREM CombatIsRetained == Spec => []CombatHistoryKept
  <1>1. Init => CombatHistoryKept
    BY NothingCounted DEF Init, CombatHistoryKept, Combats, CombatAt
  <1>2. ASSUME WorldInv, CombatHistoryKept, [Next]_vars
        PROVE  CombatHistoryKept'
    <2>1. CASE UNCHANGED actionVars
      BY <1>2, <2>1 DEF CombatHistoryKept, actionVars
    <2>2. ASSUME NEW combat \in BOOLEAN, Acted(combat)
          PROVE  CombatHistoryKept'
      BY <1>2, <2>2, CombatStep DEF WorldInv
    <2>3. CASE SessionStarted
      <3>1. recentActions' = <<>> /\ recentCombat' = <<>>
        BY <2>3 DEF SessionStarted, ForgetHistories
      <3>2. QED
        BY <3>1, NothingCounted DEF CombatHistoryKept, Combats, CombatAt
    <2>4. CASE Adapter
      BY <2>1, <2>3, <2>4
         DEF Adapter, TransportClosed, ReadClient, SeedResources,
             SeedInventory, SeedMapIdentity, worldVars
    <2>5. CASE MapPacket \/ PlayerPacket
      BY <2>1, <2>5
         DEF MapPacket, MapContext, MapRegion, PlayerPacket, PlayerLocation,
             PlayerStatus, SpellbookEntry, InventorySlot, EquipmentSlot,
             CharacterProfile
    <2>6. CASE EntityPacket \/ OtherPacket
      BY <2>1, <2>6
         DEF EntityPacket, EntityAppearances, EntityMovement, EntityRemoval,
             ActorVitality, OtherPacket, ActorAction, Message, TravelMenu,
             NoFact, Heartbeat
    <2>7. CASE ClientPacket
      BY <2>2, <2>7
         DEF ClientPacket, Movement, Obstruction, OtherAction, Disconnect,
             Facing
    <2>8. CASE UNCHANGED vars
      BY <2>1, <2>8 DEF vars, worldVars
    <2>9. QED
      BY <1>2, <2>4, <2>5, <2>6, <2>7, <2>8 DEF Next
  <1>3. QED
    BY <1>1, <1>2, WorldInvariant, PTL DEF Spec

-----------------------------------------------------------------------------
(* No observation but SessionStarted takes a prerequisite away, the        *)
(* connection and a position on a map that was left aside.                 *)
LEMMA RequirementsStep ==
  ASSUME TypeOK, Next, change'.evidence # "session",
         ~UNCHANGED worldVars
  PROVE  /\ sessionEpoch' = sessionEpoch
         /\ MapIdentified => MapIdentified'
         /\ PositionKnown => PositionKnown' \/ map'.epoch > map.epoch
         /\ ResourcesKnown => ResourcesKnown'
         /\ InventoryKnown => InventoryKnown'
         /\ EquipmentKnown => EquipmentKnown'
  <1> DEFINE Goal ==
               /\ sessionEpoch' = sessionEpoch
               /\ MapIdentified => MapIdentified'
               /\ PositionKnown => PositionKnown' \/ map'.epoch > map.epoch
               /\ ResourcesKnown => ResourcesKnown'
               /\ InventoryKnown => InventoryKnown'
               /\ EquipmentKnown => EquipmentKnown'
  <1> USE DEF MapIdentified, PositionKnown, ResourcesKnown, InventoryKnown,
              EquipmentKnown
  <1>1. CASE UNCHANGED <<map, location, current, maximum, sessionEpoch,
                         inventoryComplete, equipmentComplete>>
    BY <1>1 DEF Identified
  <1>2. ~SessionStarted /\ ~ReadClient
    BY DEF SessionStarted, ReadClient, Observed
  <1>3. CASE SeedResources
    <2>1. scan.of[1] \in Amounts /\ scan.of[2] \in Amounts
      BY <1>3 DEF SeedResources, TypeOK, ClientTypes, Scans
    <2>2. ASSUME NEW known, NEW amount \in Amounts, known # Nothing
          PROVE  Seeded(known, amount) # Nothing
      BY <2>2, NothingIsNoItem DEF Seeded
    <2>3. ResourcesKnown => ResourcesKnown'
      BY <1>3, <2>1, <2>2 DEF SeedResources
    <2>4. QED
      BY <1>3, <2>3 DEF SeedResources, sessionVars, possessionVars, Identified
  <1>4. CASE SeedInventory
    BY <1>4 DEF SeedInventory, playerVars, resourceVars, sessionVars, Identified
  <1>5. CASE SeedMapIdentity
    <2>1. MapIdentified => map' = map
      BY <1>5 DEF SeedMapIdentity, ObserveIdentity
    <2>2. QED
      BY <1>5, <2>1
         DEF SeedMapIdentity, playerVars, resourceVars, sessionVars,
             possessionVars
  <1>6. ASSUME NEW id \in Maps, NEW environment \in Environments,
               MapContext(id, environment)
        PROVE  Goal
    <2> DEFINE context == Context(id, environment)
    <2>1. /\ context \in Contexts
          /\ map' = ObserveContext(map, context)
          /\ map \in MapStates
      BY <1>6 DEF Context, Contexts, MapContext, TypeOK, MapTypes
    <2>2. Identified(map')
      BY <2>1, NothingAssumption
         DEF ObserveContext, Enter, Identified, MapStates
    <2>3. CASE InvalidatesScopedState(TransitionOf(map, context))
      <3>1. map'.epoch = map.epoch + 1 /\ map.epoch \in Nat
        BY <2>1, <2>3
           DEF InvalidatesScopedState, ObserveContext, Enter, MapStates
      <3>2. QED
        BY <1>6, <2>2, <3>1
           DEF MapContext, resourceVars, sessionVars, possessionVars
    <2>4. CASE ~InvalidatesScopedState(TransitionOf(map, context))
      BY <1>6, <2>2, <2>4
         DEF MapContext, resourceVars, sessionVars, possessionVars
    <2>5. QED
      BY <2>3, <2>4
  <1>7. ASSUME NEW place, NEW ground, MapRegion(place, ground)
        PROVE  Goal
    BY <1>7
       DEF MapRegion, MergeTile, Identified, playerVars, resourceVars,
           sessionVars, possessionVars, TypeOK, MapTypes, MapStates
  <1>8. ASSUME NEW blocks, NEW vita \in Amounts, NEW most \in Amounts,
               PlayerStatus(blocks, vita, most)
        PROVE  Goal
    <2>1. Reported(vita) # Nothing /\ Reported(most) # Nothing
      BY NothingIsNoItem DEF Reported
    <2>2. QED
      BY <1>8, <2>1 DEF PlayerStatus, sessionVars, possessionVars, Identified
  <1>9. ASSUME NEW place \in Here, PlayerLocation(place)
        PROVE  Goal
    <2>1. location' \in Locations
      BY <1>9 DEF PlayerLocation, Locations, Here
    <2>2. QED
      BY <1>9, <2>1, NothingIsNoLocation
         DEF PlayerLocation, resourceVars, sessionVars, possessionVars,
             Identified
  <1>10. ASSUME NEW origin \in Here, NEW direction \in Directions,
                Movement(origin, direction) \/ Obstruction(origin, direction)
         PROVE  Goal
    <2>1. Viewport \in Places \cup {Nothing}
      BY DEF Viewport, TypeOK, MapTypes, Locations
    <2>2. location' \in Locations \/ location' = location
      <3>1. CASE Movement(origin, direction)
        <4>1. Step(origin, direction) # Nothing => Step(origin, direction) \in Places
          BY DEF Step, Here, Places
        <4>2. QED
          BY <2>1, <3>1, <4>1 DEF Movement, Locations
      <3>2. CASE Obstruction(origin, direction)
        BY <2>1, <3>2 DEF Obstruction, Locations, Here
      <3>3. QED
        BY <1>10, <3>1, <3>2
    <2>3. PositionKnown => PositionKnown'
      BY <2>2, NothingIsNoLocation
    <2>4. \E combat \in BOOLEAN : Acted(combat)
      BY <1>10 DEF Movement, Obstruction
    <2>5. QED
      BY <2>3, <2>4 DEF Acted, resourceVars, possessionVars, Identified
  <1>11. CASE Adapter
    BY <1>1, <1>2, <1>3, <1>4, <1>5, <1>11
       DEF Adapter, TransportClosed, playerVars, resourceVars, possessionVars
  <1>12. CASE MapPacket
    BY <1>6, <1>7, <1>12 DEF MapPacket
  <1>13. CASE PlayerPacket
    BY <1>1, <1>8, <1>9, <1>13
       DEF PlayerPacket, SpellbookEntry, InventorySlot, EquipmentSlot,
           CharacterProfile, playerVars, resourceVars, sessionVars
  <1>14. CASE EntityPacket \/ OtherPacket
    BY <1>1, <1>14
       DEF EntityPacket, EntityAppearances, EntityMovement, EntityRemoval,
           ActorVitality, OtherPacket, ActorAction, Message, TravelMenu,
           NoFact, Heartbeat, playerVars, resourceVars, sessionVars,
           possessionVars
  <1>15. CASE ClientPacket
    BY <1>1, <1>10, <1>15
       DEF ClientPacket, OtherAction, Disconnect, Facing, Acted, resourceVars,
           possessionVars
  <1>16. QED
    BY <1>11, <1>12, <1>13, <1>14, <1>15 DEF Next

(* A prerequisite that was met is lost only to a new session, to a close,  *)
(* or, in the case of the position, to a new map.                          *)
THEOREM ReadinessLasts == Spec => ReadinessIsKept
  <1>1. ASSUME WorldInv, [Next]_vars, ~UNCHANGED worldVars,
               NEW r \in Missing(Requirements)' \ Missing(Requirements)
        PROVE  \/ change'.evidence = "session"
               \/ r = "Session" /\ connection' # "Active"
               \/ r = "Position" /\ map'.epoch > map.epoch
    <2>1. Next
      BY <1>1 DEF vars
    <2>2. r \in Requirements /\ IsMet(r) /\ ~IsMet(r)'
      BY <1>1 DEF Missing, Requirements
    <2>3. CASE change'.evidence # "session"
      <3>1. /\ sessionEpoch' = sessionEpoch
            /\ MapIdentified => MapIdentified'
            /\ PositionKnown => PositionKnown' \/ map'.epoch > map.epoch
            /\ ResourcesKnown => ResourcesKnown'
            /\ InventoryKnown => InventoryKnown'
            /\ EquipmentKnown => EquipmentKnown'
        BY <1>1, <2>1, <2>3, RequirementsStep DEF WorldInv
      <3>2. r = "Session" => connection' # "Active"
        BY <2>2, <3>1 DEF IsMet, SessionActive
      <3>3. QED
        BY <2>2, <3>1, <3>2 DEF IsMet
    <2>4. QED
      BY <2>3
  <1>2. WorldInv /\ [Next]_vars =>
          [\A r \in Missing(Requirements)' \ Missing(Requirements) :
             \/ change'.evidence = "session"
             \/ r = "Session" /\ connection' # "Active"
             \/ r = "Position" /\ map'.epoch > map.epoch]_worldVars
    BY <1>1
  <1>3. QED
    BY <1>2, WorldInvariant, PTL DEF Spec, ReadinessIsKept

(* An application that waited for every prerequisite acts on the client's  *)
(* own map, resources and equipment.                                       *)
THEOREM ReadyMeansCurrent == Spec => []ReadyIsCurrent
  <1>1. WorldInv => ReadyIsCurrent
    <2> SUFFICES ASSUME WorldInv, Ready(Requirements)
                 PROVE  /\ location.place[1] = map.context.id
                        /\ current[1] = client.current
                        /\ maximum[1] = client.maximum
                        /\ equipment = client.equipment
      BY DEF ReadyIsCurrent
    <2>1. \A r \in Requirements : IsMet(r)
      BY DEF Ready, Missing
    <2>2. /\ MapIdentified /\ PositionKnown /\ ResourcesKnown
          /\ EquipmentKnown
      BY <2>1 DEF Requirements, IsMet
    <2>3. location.place[1] = map.context.id
      BY <2>2
         DEF WorldInv, MapScopedFactsAreHere, IdentityIsHere, LocationIsHere,
             MapIdentified, PositionKnown, Here
    <2>4. current[1] = client.current /\ maximum[1] = client.maximum
      BY <2>2 DEF WorldInv, ResourcesAreTheClients, ResourcesKnown
    <2>5. equipment = client.equipment
      BY <2>2
         DEF WorldInv, EquipmentIsTheClients, EquipmentKnown, TypeOK,
             PossessionTypes, ClientTypes, Clients
    <2>6. QED
      BY <2>3, <2>4, <2>5
  <1>2. QED
    BY <1>1, WorldInvariant, PTL
=============================================================================
