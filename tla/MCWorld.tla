------------------------------ MODULE MCWorld -------------------------------
(* World for TLC: two maps of two coordinates, one entity, one slot.        *)
EXTENDS Readiness, TLC

CONSTANTS m1, m2, a1, a2, i1

MCMaps == {m1, m2}
MCAmounts == {a1, a2}
MCItems == {i1}
MCDirections == {1}
MCStatusBlocks == {{"resources"}, {"full", "resources"}, {"economy"}}
(* current and maximum are never compared, nor inventory and equipment: one *)
(* choice of each pair stands for both.                                     *)
MCMayAttachTo(c) == c.current = c.maximum /\ c.inventory = c.equipment
MCSymmetry ==
  Permutations(MCMaps) \cup Permutations(MCAmounts)
=============================================================================
