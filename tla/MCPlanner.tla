----------------------------- MODULE MCPlanner ------------------------------
(* Three by three positions, in two families of scenes: a map of known size *)
(* with any solid tiles, and a warm attachment that has seen a part of it,  *)
(* with one obstacle of every other kind.                                   *)
EXTENDS Planner

NoTiles == [p \in Positions |-> "unseen"]

Mazes ==
  {[origin |-> o, target |-> t, dimensions |-> size,
    tiles |-> [p \in Positions |-> IF p \in solid THEN "solid" ELSE "open"],
    fixtures |-> {}, occupied |-> {}, refused |-> {}, avoided |-> {}] :
     o \in {Nowhere, <<0, 0>>, <<1, 1>>}, t \in {<<0, 0>>, <<2, 0>>, <<2, 2>>},
     size \in {<<3, 3>>, <<0, 2>>}, solid \in SUBSET Positions}

(* What a warm attachment has seen: nothing, or up to two tiles, one of them*)
(* perhaps solid or perhaps with an object that is not entered from above.  *)
Coverage ==
  {[tiles |-> NoTiles, fixtures |-> {}]} \cup
  {[tiles |-> [NoTiles EXCEPT ![<<0, 0>>] = near, ![<<0, 1>>] = tile],
    fixtures |-> fixtures] :
     near \in {"unseen", "open"}, tile \in {"open", "solid"},
     fixtures \in {{}, {<<<<0, 1>>, "Down">>}}}

Warm ==
  {[origin |-> o, target |-> t, dimensions |-> Nowhere, tiles |-> seen.tiles,
    fixtures |-> seen.fixtures, occupied |-> occupied, refused |-> refused,
    avoided |-> avoided] :
     o \in {<<0, 0>>, <<1, 1>>, <<2, 1>>}, t \in {<<0, 2>>, <<2, 1>>},
     seen \in Coverage,
     occupied \in {{}, {<<1, 1>>}}, refused \in {{}, {<<<<0, 0>>, "Right">>}},
     avoided \in {{}, {<<0, 2>>}}}

MCScenes == Mazes \cup Warm
=============================================================================
