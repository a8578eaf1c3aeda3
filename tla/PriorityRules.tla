--------------------------- MODULE PriorityRules ---------------------------
(***************************************************************************)
(* What a round of priority promises, without the way takeopts.cpp keeps   *)
(* count of it: one player holds priority, who either acts or passes; an   *)
(* act makes every earlier pass void; the top of the stack resolves, or    *)
(* the round closes on an empty stack, only when every player has passed   *)
(* since the last act.  Priority.tla is shown to implement this module.    *)
(***************************************************************************)
EXTENDS Naturals, Sequences

CONSTANTS Players,    (* the players of the game                           *)
          Objects,    (* what may lie on the stack: spells and abilities   *)
          Opp         (* the function that takes a player to the next one  *)
                      (* of the ring                                       *)

VARIABLES stack,      (* the objects waiting to resolve, the newest first  *)
          holder,     (* the player who holds priority                     *)
          passed,     (* the players who passed since the last act         *)
          open        (* a round is going on                               *)

vars == <<stack, holder, passed, open>>

Init ==
  /\ stack = <<>>
  /\ holder \in Players
  /\ passed = {}
  /\ open = FALSE

(* A round opens for the player whose phase it is.                         *)
Open(p) ==
  /\ ~open
  /\ open' = TRUE
  /\ holder' = p
  /\ passed' = {}
  /\ UNCHANGED stack

(* The holder puts an object on the stack, and keeps priority.             *)
Cast(o) ==
  /\ open
  /\ holder \notin passed
  /\ stack' = <<o>> \o stack
  /\ passed' = {}
  /\ UNCHANGED <<holder, open>>

(* The holder plays a land, which does not use the stack.                  *)
SpecialAction ==
  /\ open
  /\ holder \notin passed
  /\ passed' = {}
  /\ UNCHANGED <<stack, holder, open>>

(* The holder passes, and the next player of the ring holds priority.      *)
Pass ==
  /\ open
  /\ holder \notin passed
  /\ passed' = passed \cup {holder}
  /\ holder' = Opp[holder]
  /\ UNCHANGED <<stack, open>>

(* Everybody has passed: the newest object resolves and p, whose phase it  *)
(* is, holds priority.                                                     *)
Resolve(p) ==
  /\ open
  /\ passed = Players
  /\ stack # <<>>
  /\ stack' = Tail(stack)
  /\ holder' = p
  /\ passed' = {}
  /\ UNCHANGED open

(* Everybody has passed on an empty stack: the round is over.              *)
Close ==
  /\ open
  /\ passed = Players
  /\ stack = <<>>
  /\ open' = FALSE
  /\ passed' = {}
  /\ UNCHANGED <<stack, holder>>

Next ==
  \/ \E p \in Players : Open(p) \/ Resolve(p)
  \/ \E o \in Objects : Cast(o)
  \/ SpecialAction
  \/ Pass
  \/ Close

Spec == Init /\ [][Next]_vars
=============================================================================
