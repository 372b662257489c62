------------------------------- MODULE World --------------------------------
(***************************************************************************)
(* The canonical world of crates/world/src/world.rs: one action for every  *)
(* observation the reducer can be given, each of them the whole handler.   *)
(* The map is MapKnowledge's.                                              *)
(*                                                                         *)
(* Two variables are not the program's.  client is the attached game       *)
(* client, whose own memory follows the packets it receives; scan is what  *)
(* the adapter has read from that memory and not yet submitted.  Packets   *)
(* may be observed in between, so a scan may be old when it is reduced; it *)
(* is never newer than the packets observed so far.                        *)
(*                                                                         *)
(* Payloads whose value is irrelevant (a spell, a message, an action, the  *)
(* economy) are named by the session in which they were observed.          *)
(***************************************************************************)
EXTENDS MapKnowledge, FiniteSets, Sequences

CONSTANTS Entities,        \* entity identifiers
          Slots,           \* slots of spellbook, inventory and equipment
          Items,           \* what a slot can hold
          Amounts,         \* values of a resource
          StatusBlocks,    \* the sets of blocks a 0x08 status may carry
          HistoryCapacity, \* action::CAPACITY and the 32-message bound
          CombatCapacity,  \* action::COMBAT_CAPACITY and the 128 bounds
          MayAttachTo(_), \* which clients a session may begin with
          MaxRevision,     \* bound on the observations of a behavior
          MaxSessions      \* bound on the sessions of a behavior

ASSUME HistoryAssumption ==
  /\ HistoryCapacity \in Nat \ {0}
  /\ CombatCapacity \in Nat \ {0}
  /\ HistoryCapacity <= CombatCapacity
ASSUME NothingIsNoItem ==
  /\ Nothing \notin Items \cup Amounts
  /\ Nothing \notin Items \X {"packet", "seed"}
  /\ Nothing \notin Amounts \X {"PlayerStatus", "ClientMemory"}

VARIABLES revision,
          change,        \* the Change returned for the last observation
          map,
          location, facing,              \* player::State
          current, maximum, level, economy,
          entities,
          sessionEpoch, connection, heartbeat,
          recentActions, recentCombat,   \* client actions, by is_combat
          actorActions, vitalityEvents, messages,
          spellbook, inventory, inventoryComplete,
          equipment, equipmentComplete,
          travelMenu,
          client, scan

resourceVars == <<current, maximum, level, economy>>
playerVars == <<location, facing, resourceVars>>
sessionVars == <<sessionEpoch, connection, heartbeat>>
actionVars == <<recentActions, recentCombat>>
actorVars == <<actorActions, vitalityEvents, messages>>
possessionVars == <<spellbook, inventory, inventoryComplete, equipment,
                    equipmentComplete>>
worldVars == <<revision, change, map, playerVars, entities, sessionVars,
               actionVars, actorVars, possessionVars, travelMenu>>
vars == <<worldVars, client, scan>>

(* player::Location, by the evidence that established it. *)
Locations ==
  [evidence : {"server", "movement", "obstruction"},
   place : Places, viewport : Places \cup {Nothing}]

ASSUME NothingIsNoLocation == Nothing \notin Locations

(* Knowledge<u32> with its Source. *)
Knowledge == (Amounts \X {"PlayerStatus", "ClientMemory"}) \cup {Nothing}

EntityStates ==
  [place : Places, appearance : {"unknown", "observed"}, hurt : BOOLEAN]

(* inventory::Item with its Source. *)
Carried == (Items \X {"packet", "seed"}) \cup {Nothing}

Clients ==
  [map : Maps, current : Amounts, maximum : Amounts,
   inventory : [Slots -> Items \cup {Nothing}],
   equipment : [Slots -> Items \cup {Nothing}]]

NoSlots == [s \in Slots |-> Nothing]

Scans ==
  [what : {"resources"}, of : Amounts \X Amounts]
    \cup [what : {"inventory"}, of : [Slots -> Items \cup {Nothing}]]
    \cup [what : {"map"}, of : Maps]

(* push_bounded: the oldest value makes room for a new one. *)
PushBounded(values, value, capacity) ==
  Append(IF Len(values) = capacity THEN Tail(values) ELSE values, value)

(* What the handlers have in common: a revision, and the Change returned. *)
Observed(projected, evidence) ==
  /\ revision < MaxRevision
  /\ revision' = revision + 1
  /\ change' = [effect |-> IF projected THEN "Projected" ELSE "Recorded",
                 evidence |-> evidence]
-----------------------------------------------------------------------------
Init ==
  /\ revision = 0
  /\ change = [effect |-> "Recorded", evidence |-> "none"]
  /\ map = Attachment
  /\ location = Nothing /\ facing = Nothing
  /\ current = Nothing /\ maximum = Nothing
  /\ level = Nothing /\ economy = Nothing
  /\ entities = [e \in Entities |-> Nothing]
  /\ sessionEpoch = 0 /\ connection = "Active" /\ heartbeat = Nothing
  /\ recentActions = <<>> /\ recentCombat = <<>>
  /\ actorActions = <<>> /\ vitalityEvents = <<>> /\ messages = <<>>
  /\ spellbook = NoSlots
  /\ inventory = NoSlots /\ inventoryComplete = FALSE
  /\ equipment = NoSlots /\ equipmentComplete = FALSE
  /\ travelMenu = Nothing
  /\ client \in {c \in Clients : MayAttachTo(c)}
  /\ scan = Nothing

-----------------------------------------------------------------------------
(* Mutant: combat actions outlive their session. *)
ForgetGeneralHistories ==
  /\ recentActions' = <<>>
  /\ UNCHANGED recentCombat
  /\ actorActions' = <<>> /\ vitalityEvents' = <<>> /\ messages' = <<>>

(* The part of begin_session that clears the bounded histories. *)
ForgetHistories ==
  /\ recentActions' = <<>> /\ recentCombat' = <<>>
  /\ actorActions' = <<>> /\ vitalityEvents' = <<>> /\ messages' = <<>>

(* World::begin_session, for an attachment to any client.  What the old     *)
(* attachment was reading goes with it; the travel menu stays.              *)
SessionStarted ==
  /\ sessionEpoch < MaxSessions
  /\ Observed(TRUE, "session")
  /\ map' = Attachment
  /\ location' = Nothing /\ facing' = Nothing
  /\ current' = Nothing /\ maximum' = Nothing
  /\ level' = Nothing /\ economy' = Nothing
  /\ entities' = [e \in Entities |-> Nothing]
  /\ sessionEpoch' = sessionEpoch + 1
  /\ connection' = "Active"
  /\ heartbeat' = Nothing
  /\ ForgetHistories
  /\ spellbook' = NoSlots
  /\ inventory' = NoSlots /\ inventoryComplete' = FALSE
  /\ equipment' = NoSlots /\ equipmentComplete' = FALSE
  /\ client' \in {c \in Clients : MayAttachTo(c)}
  /\ scan' = Nothing
  /\ UNCHANGED travelMenu

(* World::observe_transport_close. *)
TransportClosed ==
  /\ Observed(TRUE, "close")
  /\ connection' = "TransportClosed"
  /\ UNCHANGED <<map, playerVars, entities, sessionEpoch, heartbeat, actionVars,
                 actorVars, possessionVars, travelMenu, client, scan>>

-----------------------------------------------------------------------------
(* The adapter reads the client's resources, inventory or map.  The reading *)
(* is submitted by a later step.                                            *)
Reading == {[what |-> "resources", of |-> <<client.current, client.maximum>>],
            [what |-> "inventory", of |-> client.inventory],
            [what |-> "map", of |-> client.map]}

ReadClient ==
  /\ scan = Nothing
  /\ scan' \in Reading
  /\ UNCHANGED <<worldVars, client>>

(* Mutant: memory always wins. *)
SeededAlways(knowledge, amount) == <<amount, "ClientMemory">>

(* Pool::seed, for current or maximum. *)
Seeded(knowledge, amount) ==
  IF knowledge # Nothing /\ knowledge[2] = "PlayerStatus"
    THEN knowledge
    ELSE <<amount, "ClientMemory">>

SeedResources ==
  /\ scan # Nothing /\ scan.what = "resources"
  /\ current' = Seeded(current, scan.of[1])
  /\ maximum' = Seeded(maximum, scan.of[2])
  /\ Observed(<<current', maximum'>> # <<current, maximum>>, "seed")
  /\ scan' = Nothing
  /\ UNCHANGED <<map, location, facing, level, economy, entities, sessionVars,
                 actionVars, actorVars, possessionVars, travelMenu, client>>

SeedInventory ==
  /\ scan # Nothing /\ scan.what = "inventory"
  /\ inventory' = [s \in Slots |->
                     IF scan.of[s] = Nothing
                       THEN Nothing
                       ELSE <<scan.of[s], "seed">>]
  /\ inventoryComplete' = TRUE
  /\ Observed(~inventoryComplete \/ inventory' # inventory, "seed")
  /\ scan' = Nothing
  /\ UNCHANGED <<map, playerVars, entities, sessionVars, actionVars, actorVars,
                 spellbook, equipment, equipmentComplete, travelMenu, client>>

SeedMapIdentity ==
  /\ scan # Nothing /\ scan.what = "map"
  /\ map' = ObserveIdentity(map, scan.of)
  /\ Observed(~Identified(map), "seed")
  /\ scan' = Nothing
  /\ UNCHANGED <<playerVars, entities, sessionVars, actionVars, actorVars,
                 possessionVars, travelMenu, client>>

-----------------------------------------------------------------------------
(* The client is told which map it is on, the one it was on or another. *)
MapContext(id, environment) ==
  LET context == Context(id, environment)
      transition == TransitionOf(map, context)
  IN /\ Observed(Changes(transition), "packet")
     /\ map' = ObserveContext(map, context)
     /\ travelMenu' = Nothing
     /\ IF InvalidatesScopedState(transition)
          THEN /\ entities' = [e \in Entities |-> Nothing]
               /\ location' = Nothing
          ELSE UNCHANGED <<entities, location>>
     /\ client' = [client EXCEPT !.map = id]
     /\ UNCHANGED <<facing, resourceVars, sessionVars, actionVars, actorVars,
                    possessionVars, scan>>

(* Whatever else the server or the client says of places is said of the    *)
(* map the client is on.                                                   *)
Here == {p \in Places : p[1] = client.map}

MapRegion(place, ground) ==
  /\ map' = MergeTile(map, place, ground)
  /\ Observed(map' # map, "packet")
  /\ UNCHANGED <<playerVars, entities, sessionVars, actionVars, actorVars,
                 possessionVars, travelMenu, client, scan>>

(* A seed or a movement result.  Its viewport is named by the place it is   *)
(* sent with.                                                               *)
PlayerLocation(place) ==
  /\ location' = [evidence |-> "server", place |-> place, viewport |-> place]
  /\ Observed(location' # location, "packet")
  /\ UNCHANGED <<map, facing, resourceVars, entities, sessionVars, actionVars,
                 actorVars, possessionVars, travelMenu, client, scan>>

(* Pool::observe_current and observe_maximum, for a status packet. *)
Reported(amount) == <<amount, "PlayerStatus">>

(* player::State::observe_status: blocks the packet lacks say nothing.  The *)
(* client takes what it is told.                                           *)
PlayerStatus(blocks, vita, maximumVita) ==
  /\ current' = IF "resources" \in blocks THEN Reported(vita) ELSE current
  /\ maximum' = IF "full" \in blocks THEN Reported(maximumVita) ELSE maximum
  /\ level' = IF "full" \in blocks THEN sessionEpoch ELSE level
  /\ economy' = IF "economy" \in blocks THEN sessionEpoch ELSE economy
  /\ client' = [client EXCEPT
                  !.current = IF "resources" \in blocks THEN vita ELSE @,
                  !.maximum = IF "full" \in blocks THEN maximumVita ELSE @]
  /\ Observed(resourceVars' # resourceVars, "packet")
  /\ UNCHANGED <<map, location, facing, entities, sessionVars, actionVars,
                 actorVars, possessionVars, travelMenu, scan>>

-----------------------------------------------------------------------------
SpellbookEntry(slot) ==
  /\ spellbook' = [spellbook EXCEPT ![slot] = sessionEpoch]
  /\ Observed(spellbook' # spellbook, "packet")
  /\ UNCHANGED <<map, playerVars, entities, sessionVars, actionVars, actorVars,
                 inventory, inventoryComplete, equipment, equipmentComplete,
                 travelMenu, client, scan>>

(* InventoryItem, and InventoryCleared for the item Nothing. *)
InventorySlot(slot, item) ==
  /\ inventory' = [inventory EXCEPT ![slot] =
                     IF item = Nothing THEN Nothing ELSE <<item, "packet">>]
  /\ client' = [client EXCEPT !.inventory[slot] = item]
  /\ Observed(inventory' # inventory, "packet")
  /\ UNCHANGED <<map, playerVars, entities, sessionVars, actionVars, actorVars,
                 spellbook, inventoryComplete, equipment, equipmentComplete,
                 travelMenu, scan>>

(* Mutant: a cleared slot keeps its item. *)
EquipmentSlotFilled(slot, item) ==
  /\ equipment' = IF item = Nothing
                    THEN equipment
                    ELSE [equipment EXCEPT ![slot] = item]
  /\ client' = [client EXCEPT !.equipment[slot] = item]
  /\ Observed(equipment' # equipment, "packet")
  /\ UNCHANGED <<map, playerVars, entities, sessionVars, actionVars, actorVars,
                 spellbook, inventory, inventoryComplete, equipmentComplete,
                 travelMenu, scan>>

(* EquipmentItem, and EquipmentCleared for the item Nothing. *)
EquipmentSlot(slot, item) ==
  /\ equipment' = [equipment EXCEPT ![slot] = item]
  /\ client' = [client EXCEPT !.equipment[slot] = item]
  /\ Observed(equipment' # equipment, "packet")
  /\ UNCHANGED <<map, playerVars, entities, sessionVars, actionVars, actorVars,
                 spellbook, inventory, inventoryComplete, equipmentComplete,
                 travelMenu, scan>>

(* The profile lists everything the client wears. *)
CharacterProfile ==
  /\ equipment' = client.equipment
  /\ equipmentComplete' = TRUE
  /\ Observed(~equipmentComplete \/ equipment' # equipment, "packet")
  /\ UNCHANGED <<map, playerVars, entities, sessionVars, actionVars, actorVars,
                 spellbook, inventory, inventoryComplete, travelMenu, client,
                 scan>>

-----------------------------------------------------------------------------
ActorAction ==
  /\ actorActions' = PushBounded(actorActions, sessionEpoch, CombatCapacity)
  /\ Observed(TRUE, "packet")
  /\ UNCHANGED <<map, playerVars, entities, sessionVars, actionVars,
                 vitalityEvents, messages, possessionVars, travelMenu, client,
                 scan>>

(* An unknown actor's vitality is history, but makes no entity. *)
ActorVitality(e) ==
  /\ entities' = IF entities[e] = Nothing
                   THEN entities
                   ELSE [entities EXCEPT ![e].hurt = TRUE]
  /\ vitalityEvents' = PushBounded(vitalityEvents, sessionEpoch, CombatCapacity)
  /\ Observed(TRUE, "packet")
  /\ UNCHANGED <<map, playerVars, sessionVars, actionVars, actorActions,
                 messages, possessionVars, travelMenu, client, scan>>

Message ==
  /\ messages' = PushBounded(messages, sessionEpoch, HistoryCapacity)
  /\ Observed(TRUE, "packet")
  /\ UNCHANGED <<map, playerVars, entities, sessionVars, actionVars,
                 actorActions, vitalityEvents, possessionVars, travelMenu,
                 client, scan>>

TravelMenu ==
  /\ travelMenu' = sessionEpoch
  /\ Observed(travelMenu' # travelMenu, "packet")
  /\ UNCHANGED <<map, playerVars, entities, sessionVars, actionVars, actorVars,
                 possessionVars, client, scan>>

-----------------------------------------------------------------------------
WasHurt(e) == entities[e] # Nothing /\ entities[e].hurt

(* A batch of appearances; each keeps the vitality already known. *)
EntityAppearances(places) ==
  /\ entities' = [e \in Entities |->
                    IF e \in DOMAIN places
                      THEN [place |-> places[e], appearance |-> "observed",
                            hurt |-> WasHurt(e)]
                      ELSE entities[e]]
  /\ Observed(entities' # entities, "packet")
  /\ UNCHANGED <<map, playerVars, sessionVars, actionVars, actorVars,
                 possessionVars, travelMenu, client, scan>>

(* A movement may precede the appearance; one past the last coordinate is   *)
(* dropped.                                                                 *)
EntityMovement(e, origin, direction) ==
  LET destination == Step(origin, direction)
  IN /\ entities' =
          IF destination = Nothing
            THEN entities
            ELSE [entities EXCEPT ![e] =
                   [place |-> destination,
                    appearance |-> IF @ = Nothing THEN "unknown" ELSE @.appearance,
                    hurt |-> WasHurt(e)]]
     /\ Observed(entities' # entities, "packet")
     /\ UNCHANGED <<map, playerVars, sessionVars, actionVars, actorVars,
                    possessionVars, travelMenu, client, scan>>

EntityRemoval(e) ==
  /\ entities' = [entities EXCEPT ![e] = Nothing]
  /\ Observed(entities' # entities, "packet")
  /\ UNCHANGED <<map, playerVars, sessionVars, actionVars, actorVars,
                 possessionVars, travelMenu, client, scan>>

(* EntityControl, and a packet of either flow that was not recognised. *)
NoFact ==
  /\ Observed(FALSE, "packet")
  /\ UNCHANGED <<map, playerVars, entities, sessionVars, actionVars, actorVars,
                 possessionVars, travelMenu, client, scan>>

(* A challenge from the server or the client's answer to one. *)
Heartbeat ==
  /\ heartbeat' = sessionEpoch
  /\ Observed(TRUE, "packet")
  /\ UNCHANGED <<map, playerVars, entities, sessionEpoch, connection, actionVars,
                 actorVars, possessionVars, travelMenu, client, scan>>

-----------------------------------------------------------------------------
(* Mutant: one combat action too few is retained. *)
RetainFewer(combat) ==
  recentCombat' = IF combat
                    THEN PushBounded(recentCombat, sessionEpoch,
                                     CombatCapacity - 1)
                    ELSE recentCombat

(* The history of combat actions alone. *)
RetainCombat(combat) ==
  recentCombat' = IF combat
                    THEN PushBounded(recentCombat, sessionEpoch, CombatCapacity)
                    ELSE recentCombat

(* What apply_serverbound does with every client action.  A combat action   *)
(* is retained twice.                                                       *)
Acted(combat) ==
  /\ RetainCombat(combat)
  /\ recentActions' = PushBounded(recentActions,
                                  [combat |-> combat, session |-> sessionEpoch],
                                  HistoryCapacity)
  /\ Observed(TRUE, "packet")
  /\ UNCHANGED <<map, resourceVars, entities, sessionEpoch, heartbeat, actorVars,
                 possessionVars, travelMenu, client, scan>>

(* Location::viewport: kept from the last location the server sent. *)
Viewport == IF location = Nothing THEN Nothing ELSE location.viewport

(* The client predicts where its step leads.  Past the last coordinate only *)
(* the action is recorded.                                                  *)
Movement(origin, direction) ==
  /\ Acted(FALSE)
  /\ IF Step(origin, direction) = Nothing
       THEN UNCHANGED <<location, facing>>
       ELSE /\ location' = [evidence |-> "movement",
                            place |-> Step(origin, direction),
                            viewport |-> Viewport]
            /\ facing' = direction
  /\ UNCHANGED connection

Obstruction(origin, direction) ==
  /\ Acted(FALSE)
  /\ location' = [evidence |-> "obstruction", place |-> origin,
                  viewport |-> Viewport]
  /\ facing' = direction
  /\ UNCHANGED connection

Facing(direction) ==
  /\ Acted(FALSE)
  /\ facing' = direction
  /\ UNCHANGED <<location, connection>>

(* Attack and Cast; otherwise Pickup, Refresh, UseInventory, Speech,        *)
(* Interact, Dialog and TravelSelection.                                    *)
OtherAction(combat) ==
  /\ Acted(combat)
  /\ UNCHANGED <<location, facing, connection>>

Disconnect ==
  /\ Acted(FALSE)
  /\ connection' = "CloseObserved"
  /\ UNCHANGED <<location, facing>>

-----------------------------------------------------------------------------
MapPacket ==
  \/ \E id \in Maps, environment \in Environments : MapContext(id, environment)
  \/ \E place \in Here, ground \in Grounds : MapRegion(place, ground)

PlayerPacket ==
  \/ \E place \in Here : PlayerLocation(place)
  \/ \E blocks \in StatusBlocks, vita, maximumVita \in Amounts :
       PlayerStatus(blocks, vita, maximumVita)
  \/ \E slot \in Slots : SpellbookEntry(slot)
  \/ \E slot \in Slots, item \in Items \cup {Nothing} :
       InventorySlot(slot, item) \/ EquipmentSlot(slot, item)
  \/ CharacterProfile

EntityPacket ==
  \/ \E seen \in SUBSET Entities \ {{}} :
       \E places \in [seen -> Here] : EntityAppearances(places)
  \/ \E e \in Entities, origin \in Here, direction \in Directions :
       EntityMovement(e, origin, direction)
  \/ \E e \in Entities : EntityRemoval(e) \/ ActorVitality(e)

OtherPacket ==
  ActorAction \/ Message \/ TravelMenu \/ NoFact \/ Heartbeat

ClientPacket ==
  \/ \E origin \in Here, direction \in Directions :
       Movement(origin, direction) \/ Obstruction(origin, direction)
  \/ \E direction \in Directions : Facing(direction)
  \/ \E combat \in BOOLEAN : OtherAction(combat)
  \/ Disconnect

Adapter ==
  \/ SessionStarted \/ TransportClosed
  \/ ReadClient \/ SeedResources \/ SeedInventory \/ SeedMapIdentity

Next ==
  Adapter \/ MapPacket \/ PlayerPacket \/ EntityPacket \/ OtherPacket
    \/ ClientPacket

Spec == Init /\ [][Next]_vars

-----------------------------------------------------------------------------
Tags == Nat \cup {Nothing}

ClientTypes == client \in Clients /\ scan \in Scans \cup {Nothing}

MapTypes ==
  /\ map \in MapStates
  /\ location \in Locations \cup {Nothing}
  /\ facing \in Directions \cup {Nothing}
  /\ entities \in [Entities -> EntityStates \cup {Nothing}]

ResourceTypes ==
  /\ current \in Knowledge /\ maximum \in Knowledge
  /\ level \in Tags /\ economy \in Tags

SessionTypes ==
  /\ revision \in Nat
  /\ change \in [effect : {"Projected", "Recorded"},
                 evidence : {"none", "session", "close", "packet", "seed"}]
  /\ sessionEpoch \in Nat
  /\ connection \in {"Active", "CloseObserved", "TransportClosed"}
  /\ heartbeat \in Tags
  /\ travelMenu \in Tags

(* A history of values of the set, no longer than its capacity. *)
Bounded(values, set, capacity) ==
  values \in Seq(set) /\ Len(values) <= capacity

HistoryTypes ==
  /\ Bounded(recentActions, [combat : BOOLEAN, session : Nat], HistoryCapacity)
  /\ Bounded(recentCombat, Nat, CombatCapacity)
  /\ Bounded(actorActions, Nat, CombatCapacity)
  /\ Bounded(vitalityEvents, Nat, CombatCapacity)
  /\ Bounded(messages, Nat, HistoryCapacity)

PossessionTypes ==
  /\ spellbook \in [Slots -> Tags]
  /\ inventory \in [Slots -> Carried] /\ inventoryComplete \in BOOLEAN
  /\ equipment \in [Slots -> Items \cup {Nothing}]
  /\ equipmentComplete \in BOOLEAN

(* Every facet holds values of its kind, and no history outgrows its bound. *)
TypeOK ==
  /\ ClientTypes
  /\ MapTypes
  /\ ResourceTypes
  /\ SessionTypes
  /\ HistoryTypes
  /\ PossessionTypes

(* The projection never mixes two maps: the identity it shows is that of the *)
(* map the client is on, however old the memory reading that supplied it,    *)
(* and location, entities and coverage are all of that map, whether they     *)
(* arrived before the map was identified or after.                           *)
IdentityIsHere == Identified(map) => map.context.id = client.map

LocationIsHere ==
  location # Nothing =>
    /\ location.place \in Here
    /\ location.viewport \in Here \cup {Nothing}

EntitiesAreHere ==
  \A e \in Entities : entities[e] # Nothing => entities[e].place \in Here

TilesAreHere == \A p \in Places : map.tiles[p] # Nothing => p \in Here

MapScopedFactsAreHere ==
  /\ IdentityIsHere
  /\ LocationIsHere
  /\ EntitiesAreHere
  /\ TilesAreHere

(* A known resource is what the client has, although status packets are      *)
(* partial and a memory reading may be reduced after packets that outdate it.*)
ResourcesAreTheClients ==
  /\ current # Nothing => current[1] = client.current
  /\ maximum # Nothing => maximum[1] = client.maximum

(* Equipment shown is worn, and once complete, equipment worn is shown:      *)
(* the packets that follow a profile keep it complete.                       *)
EquipmentIsTheClients ==
  \A s \in Slots :
    \/ equipment[s] = client.equipment[s]
    \/ equipment[s] = Nothing /\ ~equipmentComplete

(* What makes the three inductive: a reading that the client has outgrown   *)
(* was outgrown by a packet, and the packet's word is already projected.    *)
OutgrownReadingsAreCovered ==
  scan # Nothing =>
    /\ scan.what = "map" /\ scan.of # client.map => Identified(map)
    /\ scan.what = "resources" =>
         /\ scan.of[1] # client.current =>
              current # Nothing /\ current[2] = "PlayerStatus"
         /\ scan.of[2] # client.maximum =>
              maximum # Nothing /\ maximum[2] = "PlayerStatus"

WorldInv ==
  /\ TypeOK
  /\ MapScopedFactsAreHere
  /\ ResourcesAreTheClients
  /\ EquipmentIsTheClients
  /\ OutgrownReadingsAreCovered

(* Nothing observed in an earlier session survives the start of the next;    *)
(* the travel menu does, which begin_session does not reset.                 *)
AllOfThisSession(values) ==
  \A i \in 1..Len(values) : values[i] = sessionEpoch

OnlyThisSession ==
  /\ {level, economy, heartbeat} \subseteq {sessionEpoch, Nothing}
  /\ \A s \in Slots : spellbook[s] \in {sessionEpoch, Nothing}
  /\ \A i \in 1..Len(recentActions) : recentActions[i].session = sessionEpoch
  /\ AllOfThisSession(recentCombat)
  /\ AllOfThisSession(actorActions)
  /\ AllOfThisSession(vitalityEvents)
  /\ AllOfThisSession(messages)

(* General activity never evicts a combat action before its own history      *)
(* does: every combat action still in the recent actions is retained.        *)
CombatHistoryKept ==
  Cardinality({i \in 1..Len(recentActions) : recentActions[i].combat})
    <= Len(recentCombat)

(* Within a session the map epoch only grows, and it grows exactly when the  *)
(* identity changes: equal epochs are the same map.                          *)
Identity(m) == IF Identified(m) THEN m.context.id ELSE Nothing

EpochNamesMap ==
  [][sessionEpoch' = sessionEpoch =>
       /\ map'.epoch >= map.epoch
       /\ map'.epoch = map.epoch <=> Identity(map') = Identity(map)]_vars

(* An observation that is reported as Recorded changes no fact a script can *)
(* read but one.  The exception: a map context that repeats the identified  *)
(* map's own closes the travel menu that is open, and is Recorded.  No seed *)
(* and no other packet changes anything unannounced, so a script that looks *)
(* again only when something was Projected can miss that close and no more. *)
factVars == <<map, playerVars, entities, sessionVars, actionVars, actorVars,
              possessionVars>>

MenuClosed ==
  /\ travelMenu # Nothing /\ travelMenu' = Nothing
  /\ Identified(map) /\ change'.evidence = "packet"

RecordedClosesAMenuAtMost ==
  [][change'.effect = "Recorded" =>
       /\ UNCHANGED factVars
       /\ UNCHANGED travelMenu \/ MenuClosed]_worldVars

-----------------------------------------------------------------------------
(* A promise of the documentation that the code breaks.                      *)

(* world.rs, lines 6 and 7: packet facts take precedence over memory seeds.  *)
(* An inventory scan replaces the slots that packets reported since.         *)
PacketItemsOutrankSeeds ==
  [][change'.evidence = "seed" =>
       \A s \in Slots :
         (inventory[s] # Nothing /\ inventory[s][2] = "packet") =>
           /\ inventory'[s] # Nothing
           /\ inventory'[s][1] = inventory[s][1]]_worldVars
=============================================================================
