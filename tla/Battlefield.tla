---------------------------- MODULE Battlefield ----------------------------
(***************************************************************************)
(* What the board of one player promises, whatever it is kept in: what     *)
(* enters it stays, and in a combat exactly the creatures that the player  *)
(* selected attack, until the combat is over.                              *)
(***************************************************************************)
CONSTANTS Permanents, IsCreature(_)

VARIABLES board,      (* the permanents on it                              *)
          wanted,     (* the creatures selected to attack                  *)
          attacking   (* those that attack                                 *)

vars == <<board, wanted, attacking>>

Init == board = {} /\ wanted = {} /\ attacking = {}

Enter(c) ==
  /\ c \in Permanents \ board
  /\ attacking = {} /\ wanted = {}
  /\ board' = board \cup {c}
  /\ UNCHANGED <<wanted, attacking>>

Select ==
  /\ attacking = {} /\ wanted = {}
  /\ wanted' \in SUBSET {c \in board : IsCreature(c)}
  /\ UNCHANGED <<board, attacking>>

Declare == attacking = {} /\ attacking' = wanted /\ UNCHANGED <<board, wanted>>

EndCombat ==
  /\ attacking = wanted
  /\ attacking' = {} /\ wanted' = {}
  /\ UNCHANGED board

Next == Select \/ Declare \/ EndCombat \/ \E c \in Permanents : Enter(c)

Spec == Init /\ [][Next]_vars
=============================================================================
