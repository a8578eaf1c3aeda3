------------------------------ MODULE Priority ------------------------------
(***************************************************************************)
(* The priority loop of control/takeopts.cpp: Player::choicephase offers   *)
(* every player of the ring the choice of an option, until all of them     *)
(* have passed in a row, then resolves the top of the stack and starts     *)
(* over; on an empty stack it returns and the phase goes on.               *)
(*                                                                         *)
(* The cards are abstract: a land, a spell that may be cast at any time    *)
(* (an instant, Card::hasFlash) or a spell of sorcery speed (a sorcery or  *)
(* a permanent).  Mana, life and the boards are left to Match.tla, which   *)
(* conjoins them to the actions of this module: here an option the player  *)
(* may pay for and one he may not are both possible, and "lost" is the set *)
(* of players whom Player::stateBasedActions would find dead.              *)
(***************************************************************************)
EXTENDS Naturals, Sequences, FiniteSets

CONSTANTS N,             (* the number of players                          *)
          Lands,         (* land cards                                     *)
          Instants,      (* spells for which hasFlash() holds              *)
          Sorceries,     (* every other card                               *)
          Targets,       (* what a spell or ability may be aimed at        *)
          MaxAbilities   (* bound: abilities waiting on the stack at once  *)

Cards == Lands \cup Instants \cup Sorceries

ASSUME PlayersAssumption == N \in Nat \ {0, 1}
ASSUME CardsAssumption ==
  /\ Lands \cap Instants = {}
  /\ Lands \cap Sorceries = {}
  /\ Instants \cap Sorceries = {}
ASSUME BoundAssumption == MaxAbilities \in Nat

(* Players are numbered by their place in Game::players, which is the      *)
(* order in which Game::play gives them turns.                             *)
Players == 1 .. N

(* The null Player* of lastActive.                                         *)
Nobody == 0

(* Game's constructor gives each player his predecessor in the list as     *)
(* nextopponent, and the first one the last: the ring of priority runs     *)
(* against the order of the turns.                                         *)
nextopponent == [p \in Players |-> IF p = 1 THEN N ELSE p - 1]

(* What lies on the stack: a Spell, or the Resolvable of an ability of the *)
(* permanent that "card" is.                                               *)
Objects == [kind : {"spell", "ability"}, card : Cards, ctrl : Players,
            tgt : Targets]

VARIABLES
  pc,          (* where the phase is: "idle" outside of choicephase,       *)
               (* "offer" about to call chooseAndUseOpt, "choose" inside   *)
               (* its loop, "resolve" after the do-while, "over" when the  *)
               (* game has returned                                        *)
  active,      (* choicephase's this                                       *)
  current,     (* the player whose chooseAndUseOpt is called               *)
  first,       (* it is the call of line 16, before the do-while           *)
  lastActive,  (* choicephase's lastActive                                 *)
  sorceryspeed, (* chooseAndUseOpt's sorceryspeed                          *)
  hasCastAnything,
  stack,       (* Stack::stack, the newest first                           *)
  hand,        (* Gamer::myHand                                            *)
  library,     (* the cards of the library; a shuffled order is arbitrary  *)
  landsLeft,   (* Gamer::nb_lands_remaining                                *)
  lost,        (* the players with no life left or who milled out          *)
  haswon       (* Game::haswon                                             *)

loopVars == <<active, current, first, lastActive>>
optVars  == <<sorceryspeed, hasCastAnything>>
cardVars == <<stack, hand, library, landsLeft>>
vars     == <<pc, loopVars, optVars, cardVars, lost, haswon>>

-----------------------------------------------------------------------------

(* The opening hands have been drawn: every card is in the hand or in the  *)
(* library of one player.                                                  *)
Init ==
  /\ pc = "idle"
  /\ active \in Players /\ current = active
  /\ first = TRUE /\ lastActive = Nobody
  /\ sorceryspeed = FALSE /\ hasCastAnything = FALSE
  /\ stack = <<>>
  /\ \E place \in [Cards -> {"hand", "library"} \X Players] :
       /\ hand = [p \in Players |-> {c \in Cards : place[c] = <<"hand", p>>}]
       /\ library =
            [p \in Players |-> {c \in Cards : place[c] = <<"library", p>>}]
  /\ landsLeft = [p \in Players |-> 1]
  /\ lost = {}
  /\ haswon = FALSE

(* Game::stateBasedActions: haswon never falls back.                       *)
stateBasedActions == haswon' = (haswon \/ lost # {})

canPlayLand(p) == landsLeft[p] # 0

(* OptionManager::hasOptions: only a land makes the player be asked.       *)
hasOptions(p) == canPlayLand(p) /\ hand[p] \cap Lands # {}

(* CardWrapper::isCastable, but for the mana.                              *)
isCastable(c) ==
  IF c \in Lands THEN canPlayLand(current)
                 ELSE sorceryspeed \/ c \in Instants

AbilitiesOnStack ==
  Cardinality({i \in DOMAIN stack : stack[i].kind = "ability"})

-----------------------------------------------------------------------------
(* The steps of a turn that matter to this loop, between two choicephases. *)

(* Seeded fault: a land drop is added, whatever was left over.             *)
FaultyUntapstep(p) ==
  /\ pc = "idle"
  /\ landsLeft' = [landsLeft EXCEPT ![p] = @ + 1]
  /\ UNCHANGED <<pc, loopVars, optVars, stack, hand, library, lost, haswon>>

(* Player::untapstep gives a player his land drop back.                    *)
untapstep(p) ==
  /\ pc = "idle"
  /\ landsLeft' = [landsLeft EXCEPT ![p] = 1]
  /\ UNCHANGED <<pc, loopVars, optVars, stack, hand, library, lost, haswon>>

(* Player::drawstep: a player who draws from an empty library has milled   *)
(* out, which the next state-based actions will notice.                    *)
drawstep(p) ==
  /\ pc = "idle"
  /\ \/ \E c \in library[p] :
          /\ library' = [library EXCEPT ![p] = @ \ {c}]
          /\ hand' = [hand EXCEPT ![p] = @ \cup {c}]
          /\ UNCHANGED lost
     \/ /\ library[p] = {}
        /\ lost' = lost \cup {p}
        /\ UNCHANGED <<hand, library>>
  /\ UNCHANGED <<pc, loopVars, optVars, stack, landsLeft, haswon>>

(* Player::damagestep hurts players and runs the state-based actions; the  *)
(* phase ends the game if someone died.                                    *)
damagestep ==
  /\ pc = "idle"
  /\ \E dead \in SUBSET Players : lost' = lost \cup dead
  /\ haswon' = (haswon \/ lost' # {})
  /\ pc' = IF haswon' THEN "over" ELSE "idle"
  /\ UNCHANGED <<loopVars, optVars, cardVars>>

(* Player::mainphasemainstep calls choicephase(true).                      *)
mainphasemainstep(p) ==
  /\ pc = "idle"
  /\ pc' = "offer"
  /\ active' = p /\ current' = p
  /\ first' = TRUE /\ lastActive' = Nobody
  /\ UNCHANGED <<optVars, cardVars, lost, haswon>>

-----------------------------------------------------------------------------
(* Seeded fault: a player who answers does not restart the lap.            *)
FaultyReturnsFirstCaster(cast) ==
  /\ lastActive' = IF cast /\ lastActive = Nobody THEN current ELSE lastActive
  /\ current' = nextopponent[current]
  /\ first' = FALSE
  /\ pc' = IF /\ ~first
              /\ \/ current' = lastActive'
                 \/ lastActive' = Nobody /\ current' = active
           THEN "resolve" ELSE "offer"
  /\ UNCHANGED active

(* Seeded fault: the do-while waits for lastActive even if nobody acted.   *)
FaultyReturnsNobodyActed(cast) ==
  /\ lastActive' = IF cast THEN current ELSE lastActive
  /\ current' = nextopponent[current]
  /\ first' = FALSE
  /\ pc' = IF ~first /\ current' = lastActive' THEN "resolve" ELSE "offer"
  /\ UNCHANGED active

(* chooseAndUseOpt has returned "cast" to choicephase, which goes on to the *)
(* next player, or leaves the do-while.                                     *)
returns(cast) ==
  /\ lastActive' = IF cast THEN current ELSE lastActive
  /\ current' = nextopponent[current]
  /\ first' = FALSE
  /\ pc' = IF /\ ~first
              /\ \/ current' = lastActive'
                 \/ lastActive' = Nobody /\ current' = active
           THEN "resolve" ELSE "offer"
  /\ UNCHANGED active

(* Seeded fault: whoever is asked may act at sorcery speed.                *)
FaultyGivePriority ==
  /\ pc = "offer"
  /\ hasOptions(current)
  /\ stateBasedActions
  /\ pc' = "choose"
  /\ sorceryspeed' = TRUE
  /\ hasCastAnything' = FALSE
  /\ UNCHANGED <<loopVars, cardVars, lost>>

(* chooseAndUseOpt up to its loop, for a player who may act.               *)
givePriority ==
  /\ pc = "offer"
  /\ hasOptions(current)
  /\ stateBasedActions
  /\ pc' = "choose"
  /\ sorceryspeed' = first
  /\ hasCastAnything' = FALSE
  /\ UNCHANGED <<loopVars, cardVars, lost>>

(* chooseAndUseOpt for a player without options, who is not asked.         *)
skipPlayer ==
  /\ pc = "offer"
  /\ ~hasOptions(current)
  /\ stateBasedActions
  /\ returns(FALSE)
  /\ UNCHANGED <<optVars, cardVars, lost>>

(* Seeded fault: the local copy of sorceryspeed is not turned off.         *)
FaultyUsed ==
  /\ hasCastAnything' = TRUE
  /\ UNCHANGED <<pc, loopVars, sorceryspeed, library, lost, haswon>>

(* An option has been used: the loop of chooseAndUseOpt goes on.           *)
used ==
  /\ hasCastAnything' = TRUE
  /\ sorceryspeed' = (sorceryspeed /\ stack' = <<>>)
  /\ UNCHANGED <<pc, loopVars, library, lost, haswon>>

(* Seeded fault: resolvePlayland does not use the land drop up.            *)
FaultyPlayLand(c) ==
  /\ pc = "choose"
  /\ c \in hand[current] \cap Lands
  /\ isCastable(c)
  /\ hand' = [hand EXCEPT ![current] = @ \ {c}]
  /\ UNCHANGED <<stack, landsLeft>>
  /\ used

(* CardWrapper::castOpt for a land: Player::resolvePlayland.               *)
playLand(c) ==
  /\ pc = "choose"
  /\ c \in hand[current] \cap Lands
  /\ isCastable(c)
  /\ landsLeft' = [landsLeft EXCEPT ![current] = @ - 1]
  /\ hand' = [hand EXCEPT ![current] = @ \ {c}]
  /\ UNCHANGED stack
  /\ used

(* CardWrapper::castOpt for a spell: it is paid for, goes on the stack and *)
(* leaves the hand.  An option refused for its cost changes nothing here.  *)
castSpell(c, t) ==
  /\ pc = "choose"
  /\ c \in hand[current] \ Lands
  /\ isCastable(c)
  /\ stack' = <<[kind |-> "spell", card |-> c, ctrl |-> current, tgt |-> t]>>
              \o stack
  /\ hand' = [hand EXCEPT ![current] = @ \ {c}]
  /\ UNCHANGED landsLeft
  /\ used

(* PermOption::castOpt: an ability of the permanent c, a card that has     *)
(* left hand, library and stack.                                           *)
activateAbility(c, t) ==
  /\ pc = "choose"
  /\ AbilitiesOnStack < MaxAbilities
  /\ c \notin Instants
  /\ \A p \in Players : c \notin hand[p] \cup library[p]
  /\ \A i \in DOMAIN stack : stack[i].kind = "spell" => stack[i].card # c
  /\ stack' = <<[kind |-> "ability", card |-> c, ctrl |-> current, tgt |-> t]>>
              \o stack
  /\ UNCHANGED <<hand, landsLeft>>
  /\ used

(* The agent answers with the null option.                                 *)
pass ==
  /\ pc = "choose"
  /\ returns(hasCastAnything)
  /\ UNCHANGED <<optVars, cardVars, lost, haswon>>

-----------------------------------------------------------------------------

(* popFromStack and Resolvable::resolve: its effects may make players draw *)
(* and die, or save one who would have died.  (An effect that counters a   *)
(* spell is left out: Stack::removeFromStack never returns.)  Then         *)
(* choicephase starts over, with its own sorceryspeed.                     *)
resolve ==
  /\ pc = "resolve"
  /\ stack # <<>>
  /\ stack' = Tail(stack)
  /\ \E p \in Players : \E drawn \in SUBSET library[p] :
       /\ library' = [library EXCEPT ![p] = @ \ drawn]
       /\ hand' = [hand EXCEPT ![p] = @ \cup drawn]
  /\ lost' \in SUBSET Players
  /\ lastActive' = Nobody
  /\ current' = active
  /\ first' = TRUE
  /\ pc' = "offer"
  /\ UNCHANGED <<active, optVars, landsLeft, haswon>>

(* Seeded fault: the phase does not look whether the game is over.         *)
FaultyNeverOver ==
  /\ pc = "resolve"
  /\ stack = <<>>
  /\ pc' = "idle"
  /\ UNCHANGED <<loopVars, optVars, cardVars, lost, haswon>>

(* Nothing to resolve: choicephase returns, and Phase::operator() looks    *)
(* whether the game is over.                                               *)
choicephaseReturns ==
  /\ pc = "resolve"
  /\ stack = <<>>
  /\ pc' = IF haswon THEN "over" ELSE "idle"
  /\ UNCHANGED <<loopVars, optVars, cardVars, lost, haswon>>

OtherSteps ==
  \/ \E p \in Players : untapstep(p) \/ drawstep(p) \/ mainphasemainstep(p)
  \/ damagestep

UseOption ==
  \/ \E c \in Cards : playLand(c)
  \/ \E c \in Cards, t \in Targets : castSpell(c, t) \/ activateAbility(c, t)

choicephase ==
  givePriority \/ skipPlayer \/ UseOption \/ pass \/ resolve
               \/ choicephaseReturns

Next == OtherSteps \/ choicephase

Spec == Init /\ [][Next]_vars

(* The server runs the loop on, and an agent that is asked ends up with an *)
(* answer that uses an option or passes: bot and network agents pass, the  *)
(* command line asks again after a refused option.                         *)
FairSpec == Spec /\ WF_vars(choicephase)

-----------------------------------------------------------------------------

TypeOK ==
  /\ pc \in {"idle", "offer", "choose", "resolve", "over"}
  /\ active \in Players /\ current \in Players
  /\ first \in BOOLEAN /\ lastActive \in Players \cup {Nobody}
  /\ sorceryspeed \in BOOLEAN /\ hasCastAnything \in BOOLEAN
  /\ stack \in Seq(Objects)
  /\ hand \in [Players -> SUBSET Cards]
  /\ library \in [Players -> SUBSET Cards]
  /\ landsLeft \in [Players -> {0, 1}]
  /\ lost \in SUBSET Players
  /\ haswon \in BOOLEAN

(* The player whose call of chooseAndUseOpt began the lap that is going on *)
(* around the ring.                                                        *)
lapStart == IF lastActive = Nobody THEN active ELSE lastActive

(* How many steps of the ring lead from p to q.                            *)
Dist(p, q) == IF q <= p THEN p - q ELSE p - q + N

(* The players who have passed since an option was last used, as the local *)
(* variables of the two functions tell it.                                 *)
passed ==
  CASE pc = "resolve" -> Players
    [] pc \in {"offer", "choose"} /\ ~first
         /\ ~(pc = "choose" /\ hasCastAnything)
         -> {p \in Players : Dist(lapStart, p) < Dist(lapStart, current)}
    [] OTHER -> {}

Rules == INSTANCE PriorityRules
           WITH Opp <- nextopponent, holder <- current,
                open <- pc \notin {"idle", "over"}

(* takeopts.cpp:6-11: the loop implements the rules of priority.           *)
ImplementsRules == Rules!Spec

(* takeopts.cpp:28: choicephase returns only when there is nothing left to  *)
(* resolve.  This is the guard of choicephaseReturns, kept for the proofs:  *)
(* a part of their inductive invariant, and no property of a run.           *)
StackEmptyBetweenPhases == pc \in {"idle", "over"} => stack = <<>>

(* castopts.cpp:22 with takeopts.cpp:19: a spell of sorcery speed on the   *)
(* stack was cast by the player whose phase it is, also when the others    *)
(* have answered it, it has been answered again, and some have resolved.   *)
SorceriesAreTheActivePlayers ==
  \A i \in DOMAIN stack :
    stack[i].kind = "spell" /\ stack[i].card \in Sorceries
      => stack[i].ctrl = active

(* takeopts.cpp:38-42: an option is played at sorcery speed by the active  *)
(* player only, when he is the first to be asked; and once one of his has  *)
(* filled the stack, not on top of it.  (choicephase passes its own        *)
(* sorceryspeed again after each resolution, whatever is still waiting.)   *)
SorcerySpeedIsSpent ==
  pc = "choose" /\ sorceryspeed =>
    first /\ current = active /\ (hasCastAnything => stack = <<>>)

(* phases.cpp:13-20: a game that goes on between two phases has not been   *)
(* won, and one that is over has.                                          *)
OverIffWon == pc \in {"idle", "over"} => (haswon <=> pc = "over")

(* takeopts.cpp:13-30: every round of priority ends, unless abilities are  *)
(* used for ever; the cards of the hands run out by themselves.            *)
ChoicephaseReturns ==
  \/ []<><<\E c \in Cards, t \in Targets : activateAbility(c, t)>>_vars
  \/ pc = "offer" ~> pc \in {"idle", "over"}
=============================================================================
