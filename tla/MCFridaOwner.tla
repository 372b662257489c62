---------------------------- MODULE MCFridaOwner ----------------------------
(* An action of every kind; one dialog fits the queue and one does not. *)
EXTENDS FridaOwner

CONSTANTS dialog, large, attack, key, menu1, menu2

MCKind ==
  [c \in Calls |-> CASE c \in {dialog, large} -> "dialog"
                     [] c = attack -> "attack"
                     [] c = key -> "key"
                     [] c = menu1 -> "travelOnMenu"
                     [] c = menu2 -> "travel"]
MCSize ==
  [c \in Calls |-> CASE c = dialog -> 2 [] c = large -> 3 [] OTHER -> 1]
=============================================================================
