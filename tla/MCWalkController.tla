-------------------------- MODULE MCWalkController --------------------------
(* Two by two positions: two routes to the opposite corner, both of which   *)
(* may be refused, and on one of them a portal, where somebody may stand.   *)
EXTENDS WalkController

MCStart == {<<0, 0>>}
MCKnown == {[epoch |-> 0, localized |-> FALSE], [epoch |-> 1, localized |-> TRUE]}
MCTarget == <<1, 1>>
MCRefusals == {{}, {<<<<0, 0>>, "Right">>, <<<<0, 0>>, "Down">>}}
MCPassers == {<<1, 0>>}
MCPortals == {<<1, 0>>}
=============================================================================
