--------------------------- MODULE MCConfirmation ---------------------------
(* A small instance of Confirmation: one call, another script that performs *)
(* an intent of every kind of key and of body, and a player who attacks.    *)
EXTENDS Confirmation

MCHere == <<300, 4>>
Entity == 65536 * 513 + 70
Text255 == [i \in 1..255 |-> 1 + (i % 127)]

MCPlain ==
  {[intent |-> "RequestProfile"],
   [intent |-> "DialogTransaction", entity |-> Entity,
    selections |->
      <<[entity |-> Entity, command |-> 76, argument |-> <<>>,
         quantity |-> 0]>>]}

MCLimits ==
  [intent : {"Face", "Attack"}, direction : 0..3]
  \cup {[intent |-> "Pickup"]}
  \cup [intent : {"Interact"}, entity : {0, 255, Entity}]
  \cup [intent : {"Dialog"},
        selection : Selections({Entity}, {0, 255},
                               {<<>>, <<127>>, Text255}, {1, 10, 99, 255})]
  \cup Speeches({0, 255}, {<<>>, <<1>>, Text255, Append(Text255, 1)})
  \cup AnsweredSpells({0, 1, 26, 27}, {<<>>, <<65>>, Text255})

MCKeys ==
  {[intent |-> "Step", direction |-> 1], [intent |-> "Cast", slot |-> 26],
   [intent |-> "UseInventory", slot |-> 1], [intent |-> "RefreshMap"]}

MCOwnActs == {[intent |-> "Attack", direction |-> 0]}

MCConfirmed ==
  {[intent |-> [intent |-> "Face", direction |-> 1],
    query |-> [query |-> "facing", direction |-> "right"]]}
=============================================================================
