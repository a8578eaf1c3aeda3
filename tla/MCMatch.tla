------------------------------ MODULE MCMatch ------------------------------
(* Two small decks for Match.tla.  A player is asked for an option only    *)
(* while he holds a land he may play, so each deck has lands; and mana can *)
(* be spent only where a second one is still in hand, so that of the       *)
(* second deck gives none.                                                 *)
EXTENDS Match, TLC

CONSTANTS l1, l2, c1, k1, m1, c2, c3

mcOwner == [c \in Cards |-> IF c \in {m1, c2, c3} THEN 2 ELSE 1]
mcCostOf == [c \in Cards |-> IF c = k1 THEN 1 ELSE 0]
mcEffectOf == [c \in Cards |-> IF c = k1 THEN "damage" ELSE "none"]
mcAbilityOf == [c \in Cards |-> CASE c \in {l1, l2} -> "mana"
                                  [] c = c1 -> "draw"
                                  [] OTHER -> "none"]
mcAbilityCost == [c \in Cards |-> IF c = c1 THEN 1 ELSE 0]
mcPower == [c \in Creatures |-> 1]
mcToughness == [c \in Creatures |-> 1]
=============================================================================
