-------------------------------- MODULE Wire --------------------------------
(***************************************************************************)
(* Plaintext bodies: what the agent writes for an intent of the adapter    *)
(* API (adapter-api/src/action.rs, agent.js), what protocol/src/decode     *)
(* makes of a body that the tap reports, and what the world makes of a     *)
(* decoded client packet (world/src/action.rs).                            *)
(*                                                                         *)
(* A body is a sequence of bytes, its opcode first; the source's offset n  *)
(* is position n + 1.  A decoded packet keeps the fields that the world    *)
(* keeps of it; of a server packet only its family is kept, World has the  *)
(* facts.  Texts are ASCII: the tables of Windows-1252 are left out.       *)
(***************************************************************************)
EXTENDS Integers, Sequences, SequencesExt, TLC

Bytes == 0..255
Words == {n \in Nat : n < 65536}
Ascii == 0..127
Directions == <<"up", "right", "down", "left">>  \* Direction::VARIANTS

U16(b, offset) == 256 * b[offset + 1] + b[offset + 2]
U32(b, offset) == 65536 * U16(b, offset) + U16(b, offset + 2)
FromOffset(b, offset) == SubSeq(b, offset + 1, Len(b))

U16Bytes(n) == <<n \div 256, n % 256>>
LowHalfFirst(e) == U16Bytes(e % 65536) \o U16Bytes(e \div 65536)  \* mutant
EntityBytes(e) == U16Bytes(e \div 65536) \o U16Bytes(e % 65536)

Malformed == [packet |-> "Malformed"]
Unknown == [packet |-> "Unknown"]

OneBytes(n) == [i \in 1..n |-> 1]
IsText(text) == text \in Seq(Ascii \ {0}) /\ Len(text) \in 1..255
IsEntity(e) == e \in Nat /\ e \div 65536 \in Words   \* EntityId
-----------------------------------------------------------------------------
(* The adapter API: what the constructors let through.                      *)

SpellSlots == 1..26
InventorySlots == 1..26

(* Speech::new, of which say is channel 0. *)
Speeches(channels, texts) ==
  [intent : {"Speak"}, channel : channels, text : {t \in texts : IsText(t)}]

(* DialogSelection::option, text and purchase; 0 stands for no quantity. *)
Selections(entities, commands, texts, quantities) ==
  [entity : entities, command : commands,
   argument : {<<>>}, quantity : {0}]
  \cup
  [entity : entities, command : commands,
   argument : {t \in texts : IsText(t)}, quantity : quantities \cup {0}]

IsSelection(s) ==
  /\ IsEntity(s.entity) /\ s.command \in Bytes /\ s.quantity \in Bytes
  /\ IF s.argument = <<>> THEN s.quantity = 0 ELSE IsText(s.argument)

(* DialogTransaction::new. *)
IsTransaction(entity, selections) ==
  /\ selections # <<>>
  /\ \A i \in DOMAIN selections : selections[i].entity = entity

(* AnsweredSpell::new. *)
AnsweredSpells(slots, texts) ==
  [intent : {"CastAnswered"}, slot : slots \cap SpellSlots,
   answer : {t \in texts : IsText(t)}]

(* What the types of an action that is bodies admit. *)
Submittable == {"Attack", "Face", "Pickup", "RequestProfile", "Interact",
                "Dialog", "DialogTransaction", "Speak", "CastAnswered"}
IsIntent(a) ==
  /\ a.intent \in Submittable
  /\ a.intent \in {"Attack", "Face"} => a.direction \in 0..3
  /\ a.intent = "Interact" => IsEntity(a.entity)
  /\ a.intent = "Dialog" => IsSelection(a.selection)
  /\ a.intent = "DialogTransaction" =>
       /\ IsEntity(a.entity) /\ IsTransaction(a.entity, a.selections)
       /\ a.selections \in Seq(Range(a.selections))
       /\ \A s \in Range(a.selections) : IsSelection(s)
  /\ a.intent = "Speak" => a.channel \in Bytes /\ IsText(a.text)
  /\ a.intent = "CastAnswered" => a.slot \in SpellSlots /\ IsText(a.answer)
-----------------------------------------------------------------------------
(* The agent: the bodies it submits for an intent.                          *)

(* String(quantity). *)
Digits(n) ==
  CASE n < 10 -> <<48 + n>>
    [] n \in 10..99 -> <<48 + n \div 10, 48 + (n % 10)>>
    [] OTHER -> <<48 + n \div 100, 48 + ((n \div 10) % 10), 48 + (n % 10)>>

InteractBody(entity) == <<67, 1>> \o EntityBytes(entity) \o <<0>>

DialogBody(s) ==
  <<57, 1>> \o EntityBytes(s.entity) \o <<0, s.command>>
    \o (IF s.argument = <<>> THEN <<0>>
        ELSE <<Len(s.argument)>> \o s.argument
               \o (IF s.quantity = 0 THEN <<0>>
                   ELSE <<Len(Digits(s.quantity))>> \o Digits(s.quantity)
                          \o <<0>>))

Bodies(a) ==
  CASE a.intent = "Face" -> <<<<17, a.direction, 0>>>>
    [] a.intent = "Attack" -> <<<<19, 0, 0>>>>
    [] a.intent = "Pickup" -> <<<<7, 1, 0>>>>
    [] a.intent = "RequestProfile" -> <<<<45, 0, 0>>>>
    [] a.intent = "Interact" -> <<InteractBody(a.entity)>>
    [] a.intent = "Dialog" -> <<DialogBody(a.selection)>>
    [] a.intent = "DialogTransaction" ->
         <<InteractBody(a.entity)>>
           \o [i \in DOMAIN a.selections |-> DialogBody(a.selections[i])]
    [] a.intent = "Speak" ->
         <<<<14, a.channel, Len(a.text)>> \o a.text \o <<0>>>>
    [] a.intent = "CastAnswered" ->
         <<<<15, a.slot>> \o a.answer \o <<0>>>>

(* What the client itself writes, as far as the decoders fix it. *)
NativeBodies(a) ==
  CASE a.intent = "Step" ->
         {<<50, a.direction, 7, 80>> \o U16Bytes(a.x) \o U16Bytes(a.y)
            \o OneBytes(2),
          <<6, a.direction, 7, 80>> \o U16Bytes(a.x) \o U16Bytes(a.y)
            \o OneBytes(9)}
    [] a.intent = "Obstructed" ->
         {<<105>> \o U16Bytes(a.x) \o U16Bytes(a.y) \o <<a.direction, 0>>}
    [] a.intent = "UseInventory" -> {<<28, a.slot>> \o OneBytes(5)}
    [] a.intent = "Cast" -> {<<15, a.slot, 0>>}
    [] a.intent = "RefreshMap" -> {<<56, 0>>}
    [] a.intent = "Disconnect" -> {<<11, 0>>}
    [] a.intent = "TravelOnMenu" ->
         {<<63>> \o U16Bytes(a.map) \o U16Bytes(a.x) \o U16Bytes(a.y) \o <<0>>}
-----------------------------------------------------------------------------
(* decode/action.rs: each family accepts a body or returns None.            *)

Facing(b) ==
  IF Len(b) = 3 /\ b[2] < 4
    THEN [packet |-> "Facing", direction |-> Directions[b[2] + 1]]
    ELSE Malformed

Attack(b) == IF Len(b) = 3 THEN [packet |-> "Attack"] ELSE Malformed

Pickup(b) == IF Len(b) = 3 THEN [packet |-> "Pickup"] ELSE Malformed

DisconnectOf(b) == IF Len(b) = 2 THEN [packet |-> "Disconnect"] ELSE Malformed

Refresh(b) == IF Len(b) = 2 THEN [packet |-> "Refresh"] ELSE Malformed

UseInventory(b) ==
  IF Len(b) = 7 /\ b[2] # 0
    THEN [packet |-> "UseInventory", slot |-> b[2]]
    ELSE Malformed

Movement(b) ==
  IF Len(b) \in {10, 17} /\ b[2] < 4
    THEN [packet |-> "Movement", direction |-> Directions[b[2] + 1],
          origin |-> <<U16(b, 4), U16(b, 6)>>]
    ELSE Malformed

Obstruction(b) ==
  IF Len(b) = 7 /\ b[6] < 4
    THEN [packet |-> "Obstruction", direction |-> Directions[b[6] + 1],
          origin |-> <<U16(b, 1), U16(b, 3)>>]
    ELSE Malformed

Cast(b) ==
  IF Len(b) >= 2 /\ b[2] # 0
    THEN [packet |-> "Cast", slot |-> b[2]]
    ELSE Malformed

SpeechOf(b) ==
  LET text == SubSeq(b, 4, Len(b) - 1)
  IN IF /\ Len(b) >= 3 /\ Len(FromOffset(b, 3)) = b[3] + 1
        /\ Last(b) = 0 /\ \A i \in DOMAIN text : text[i] \in Ascii
       THEN [packet |-> "Speech", text |-> text]
       ELSE Malformed

Interact(b) ==
  IF Len(b) = 7 THEN [packet |-> "Interact", entity |-> U32(b, 2)]
  ELSE Malformed

Dialog(b) ==
  IF /\ Len(b) >= 9 /\ 9 + b[9] <= Len(b)
     /\ \A i \in 10..(9 + b[9]) : b[i] \in Ascii
    THEN [packet |-> "Dialog", entity |-> U32(b, 2), command |-> b[8]]
    ELSE Malformed

TravelSelection(b) ==
  IF Len(b) = 8
    THEN [packet |-> "TravelSelection", map |-> U16(b, 1),
          position |-> <<U16(b, 3), U16(b, 5)>>]
    ELSE Malformed

Pong(b) == IF Len(b) = 18 THEN [packet |-> "Heartbeat"] ELSE Malformed

(* decode_serverbound. *)
Serverbound(b) ==
  CASE b[1] = 14 -> SpeechOf(b)
    [] b[1] = 7 -> Pickup(b)
    [] b[1] = 11 -> DisconnectOf(b)
    [] b[1] \in {6, 50} -> Movement(b)
    [] b[1] = 15 -> Cast(b)
    [] b[1] = 57 -> Dialog(b)
    [] b[1] = 63 -> TravelSelection(b)
    [] b[1] = 67 -> Interact(b)
    [] b[1] = 17 -> Facing(b)
    [] b[1] = 19 -> Attack(b)
    [] b[1] = 28 -> UseInventory(b)
    [] b[1] = 56 -> Refresh(b)
    [] b[1] = 105 -> Obstruction(b)
    [] b[1] = 117 -> Pong(b)
    [] OTHER -> Unknown
-----------------------------------------------------------------------------
(* The families of the server: whether a body has the layout of its opcode. *)

(* bytes::Cursor: the offset after the fields, or Nowhere.  A field is a    *)
(* number of bytes, or Text, which a length byte precedes.                  *)
Text == -1
Nowhere == -1
After(b, offset, fields) ==
  FoldLeft(LAMBDA at, field :
             LET size == IF field # Text THEN field
                         ELSE IF at < Len(b) THEN 1 + b[at + 1]
                         ELSE Len(b) + 1
             IN IF at = Nowhere \/ at + size > Len(b) THEN Nowhere
                ELSE at + size,
           offset, fields)

Times(n, fields) == FoldLeft(\o, <<>>, [i \in 1..n |-> fields])

(* "an opaque tail": up to eight bytes behind the core. *)
TailWithin8(b, core) == core # Nowhere /\ Len(b) - core <= 8

LocationLayout(b) == \/ b[1] = 4 /\ Len(b) = 13
                     \/ b[1] = 38 /\ Len(b) = 15

StatusLayout(b) ==
  /\ Len(b) >= 2 /\ (b[2] \div 8) % 2 = 1
  /\ After(b, 2, (IF (b[2] \div 64) % 2 = 1 THEN <<29>> ELSE <<>>)
                   \o (IF (b[2] \div 32) % 2 = 1 THEN <<4, 4>> ELSE <<>>)
                   \o (IF (b[2] \div 16) % 2 = 1 THEN <<4, 4, 1>> ELSE <<>>)
                   \o <<11>>) # Nowhere

RegionLayout(b) ==
  /\ Len(b) >= 8 /\ b[7] # 0 /\ b[8] # 0
  /\ TailWithin8(b, After(b, 8, <<6 * b[7] * b[8]>>))

ContextLayout(b) ==
  /\ Len(b) >= 10 /\ U16(b, 3) # 0 /\ U16(b, 5) # 0
  /\ TailWithin8(b, After(b, 9, <<Text, 2>>))

(* One record of an appearance batch: fifteen bytes and its animations. *)
AfterAppearance(b, at) ==
  IF at = Nowhere \/ at + 15 > Len(b) \/ b[at + 13] >= 4 THEN Nowhere
  ELSE After(b, at, <<15 + 4 * b[at + 15]>>)

AppearancesLayout(b) ==
  /\ Len(b) >= 3 /\ U16(b, 1) \in 1..512
  /\ LET records == FoldLeft(LAMBDA at, i : AfterAppearance(b, at), 3,
                             [i \in 1..U16(b, 1) |-> i])
     IN records # Nowhere /\ TailWithin8(b, After(b, records, <<1>>))

MovementLayout(b) == Len(b) = 15 /\ b[10] < 4

ItemLayout(b) ==
  /\ Len(b) >= 22 /\ b[2] # 0
  /\ After(b, 5, <<Text, Text, 4, 1, 4, 1, Text>>) # Nowhere

EquipmentLayout(b) ==
  Len(b) >= 15 /\ b[2] # 0 /\ After(b, 5, <<Text, Text, 4>>) # Nowhere

ProfileLayout(b) ==
  LET worn == After(b, 4, <<Text, Text, Text, Text, 1, 4, Text>>
                            \o Times(14, <<3, Text, Text, 4, 1>>) \o <<2, 2>>)
  IN /\ Len(b) >= 158 /\ worn # Nowhere
     /\ TailWithin8(b, After(b, worn, Times(U16(b, worn - 2),
                                            <<1, 1, Text>>)))

SpellbookLayout(b) ==
  Len(b) >= 5 /\ b[2] # 0 /\ After(b, 3, <<Text, Text>>) # Nowhere

MessageLayout(b) ==
  Len(b) >= 4 /\ TailWithin8(b, After(b, 4, <<U16(b, 2)>>))

(* decode_clientbound: the family of each opcode. *)
Families ==
  [opcode \in {4, 38} |-> "PlayerLocation"] @@ 6 :> "MapRegion"
  @@ 7 :> "EntityAppearances" @@ 8 :> "PlayerStatus" @@ 10 :> "Message"
  @@ 12 :> "EntityMovement" @@ 14 :> "EntityRemoval"
  @@ 15 :> "InventoryItem" @@ 16 :> "InventoryCleared"
  @@ 19 :> "ActorVitality" @@ 21 :> "MapContext" @@ 23 :> "SpellbookEntry"
  @@ 26 :> "ActorAction" @@ 46 :> "TravelMenu" @@ 55 :> "EquipmentItem"
  @@ 56 :> "EquipmentCleared" @@ 57 :> "CharacterProfile"
  @@ 88 :> "EntityControl" @@ 104 :> "Heartbeat"

Layout(b) ==
  CASE b[1] \in {4, 38} -> LocationLayout(b)
    [] b[1] = 6 -> RegionLayout(b)
    [] b[1] = 7 -> AppearancesLayout(b)
    [] b[1] = 8 -> StatusLayout(b)
    [] b[1] = 10 -> MessageLayout(b)
    [] b[1] = 12 -> MovementLayout(b)
    [] b[1] = 14 -> Len(b) = 9
    [] b[1] = 15 -> ItemLayout(b)
    [] b[1] = 16 -> Len(b) = 9 /\ b[2] # 0
    [] b[1] = 19 -> Len(b) = 15
    [] b[1] = 21 -> ContextLayout(b)
    [] b[1] = 23 -> SpellbookLayout(b)
    [] b[1] = 26 -> Len(b) \in 9..17
    [] b[1] = 46 -> TRUE
    [] b[1] = 55 -> EquipmentLayout(b)
    [] b[1] = 56 -> Len(b) = 6 /\ b[2] # 0
    [] b[1] = 57 -> ProfileLayout(b)
    [] b[1] = 88 -> Len(b) = 6
    [] b[1] = 104 -> Len(b) = 13

Clientbound(b) ==
  IF b[1] \notin DOMAIN Families THEN Unknown
  ELSE IF Layout(b) THEN [packet |-> Families[b[1]]]
  ELSE Malformed

(* codec::Codec::decode_eof of one body with its declared length. *)
Decode(flow, declared, b) ==
  IF declared # Len(b) \/ b = <<>> THEN Malformed
  ELSE IF flow = "clientbound" THEN Clientbound(b)
  ELSE Serverbound(b)
-----------------------------------------------------------------------------
(* world/src/action.rs: the action a decoded client packet is recorded as.  *)
NoAction == [action |-> "none"]
ActionOf(p) ==
  CASE p.packet = "Speech" -> [action |-> "Speak", text |-> p.text]
    [] p.packet = "Movement" ->
         [action |-> "Step", direction |-> p.direction, origin |-> p.origin]
    [] p.packet = "Obstruction" ->
         [action |-> "Obstruction", direction |-> p.direction,
          origin |-> p.origin]
    [] p.packet = "Facing" -> [action |-> "Face", direction |-> p.direction]
    [] p.packet \in {"Attack", "Pickup", "Refresh", "Disconnect"} ->
         [action |-> p.packet]
    [] p.packet \in {"UseInventory", "Cast"} ->
         [action |-> p.packet, slot |-> p.slot]
    [] p.packet = "Interact" ->
         [action |-> "Interact", entity |-> p.entity]
    [] p.packet = "Dialog" ->
         [action |-> "Dialog", entity |-> p.entity, command |-> p.command]
    [] p.packet = "TravelSelection" ->
         [action |-> "TravelSelection", map |-> p.map,
          position |-> p.position]
    [] OTHER -> NoAction
=============================================================================
