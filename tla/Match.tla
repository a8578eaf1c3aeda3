------------------------------- MODULE Match -------------------------------
(***************************************************************************)
(* A game, from the opening hands to the state-based action that ends it:  *)
(* the turns and steps of control/phases.cpp, combat.cpp, the cards of     *)
(* gameplay/ in their zones, mana, life and damage.  The two main phases   *)
(* are rounds of priority: the actions of Priority.tla, conjoined with     *)
(* what they do to the rest of the game.                                   *)
(*                                                                         *)
(* Abstractions: mana has one colour; an effect is a single AtomEffect,    *)
(* whose "you" is the controller and whose exile is its destroy;           *)
(* planeswalkers, triggers (Player::addTriggersToStack is never called)    *)
(* and effects that counter spells are left out; a library is a set, since *)
(* it was shuffled; a card never changes its controller.                   *)
(***************************************************************************)
EXTENDS Integers, Sequences, FiniteSets, FiniteSetsExt

CONSTANTS
  N,              (* the number of players                                 *)
  Lands, Instants, Sorceries,       (* the cards, as in Priority.tla       *)
  Creatures,      (* the creature cards, which are cast at sorcery speed   *)
  OtherPermanents, (* cards that become a permanent of no other kind       *)
  Owner,          (* the player in whose deck a card is                    *)
  CostOf,         (* the mana a card costs                                 *)
  EffectOf,       (* what a spell does when it resolves                    *)
  AbilityOf,      (* the effect of a permanent's ability, or "none"        *)
  AbilityCost,    (* the mana that ability costs, besides tapping          *)
  Power, Toughness,
  InitialLife,    (* Gamer's constructor: 20                               *)
  OpeningHand,    (* NB_STARTING_CARDS: 7                                  *)
  Amount,         (* how much an effect draws, hurts or heals              *)
  MaxAbilities    (* bound: abilities waiting on the stack at once         *)

Cards   == Lands \cup Instants \cup Sorceries
Players == 1 .. N
Targets == Players \cup Cards
Permanents == Lands \cup Creatures \cup OtherPermanents
Effects == {"none", "mana", "damage", "draw", "gain", "set", "destroy", "untap"}
Deck(p) == {c \in Cards : Owner[c] = p}

ASSUME CardsAreTyped ==
  /\ N \in Nat \ {0, 1} /\ MaxAbilities \in Nat
  /\ Lands \cap Instants = {} /\ Lands \cap Sorceries = {}
  /\ Instants \cap Sorceries = {}
  /\ Creatures \subseteq Sorceries
  /\ OtherPermanents \subseteq Sorceries \ Creatures
  /\ Owner \in [Cards -> Players]
  /\ CostOf \in [Cards -> Nat] /\ AbilityCost \in [Cards -> Nat]
  /\ EffectOf \in [Cards -> Effects] /\ AbilityOf \in [Cards -> Effects]
  /\ Power \in [Creatures -> Nat] /\ Toughness \in [Creatures -> Nat \ {0}]
  /\ InitialLife \in Nat \ {0} /\ OpeningHand \in Nat /\ Amount \in Nat

VARIABLES
  pc, active, current, first, lastActive, sorceryspeed, hasCastAnything,
  stack, hand, library, landsLeft, haswon,   (* see Priority.tla           *)
  who,         (* the player whose turn it is                              *)
  step,        (* the step of the turn that runs, an index of StepOrder    *)
  turns,       (* history: the turns each player has begun                 *)
  life,        (* Damageable::life of the players                          *)
  milledout,   (* the players whose milledout flag is set                  *)
  pool,        (* Gamer::manapool                                          *)
  board,       (* the cards whose permanents are in myboard                *)
  untapped,    (* the permanents that are untapped                         *)
  wounds,      (* minus Damageable::life of the creatures                  *)
  attackers,   (* myboard.myattackers                                      *)
  blocks,      (* for every creature, the attackers it was assigned to     *)
  is_block,    (* the creatures whose is_block flag is set                 *)
  graveyard,   (* the cards in a graveyard, or in exile                    *)
  duplicated   (* the cards that are there more than once                  *)

loopVars  == <<pc, active, current, first, lastActive, sorceryspeed,
               hasCastAnything>>
cardVars  == <<stack, hand, library, landsLeft>>
turnVars  == <<who, step, turns>>
fightVars == <<attackers, blocks, is_block>>
yardVars  == <<graveyard, duplicated>>
permVars  == <<board, untapped>>
vars == <<loopVars, cardVars, haswon, turnVars, life, milledout, pool, wounds,
          fightVars, yardVars, permVars>>

(* Whom Player::stateBasedActions finds dead.                              *)
lost == {p \in Players : life[p] <= 0} \cup milledout

P == INSTANCE Priority
PVars == <<loopVars, cardVars, haswon>>

nextopponent == P!nextopponent

(* Player::defaultPhaseOrder and the steps of its phases.                  *)
StepOrder ==
  <<"untap", "upkeep", "draw", "main", "attackers", "blockers", "damage",
    "main", "end", "cleanup">>

running(s) == pc = "idle" /\ StepOrder[step] = s

(* Game::play: the players take turns in the order of the list.            *)
Successor(p) == IF p = N THEN 1 ELSE p + 1

(* Phase::operator() after a step: the pool of the player whose turn it is *)
(* is emptied, and unless the game is won the next step or turn begins.    *)
stepEnds ==
  /\ pool' = [pool EXCEPT ![who] = 0]
  /\ IF haswon' THEN UNCHANGED turnVars
     ELSE IF step < Len(StepOrder)
       THEN step' = step + 1 /\ UNCHANGED <<who, turns>>
       ELSE /\ step' = 1
            /\ who' = Successor(who)
            /\ turns' = [turns EXCEPT ![who'] = @ + 1]

-----------------------------------------------------------------------------

Least(m, n) == IF m <= n THEN m ELSE n

(* Each deck was shuffled and its first cards drawn: Player's constructor, *)
(* where the agent keeps the first hand.                                   *)
Init ==
  /\ pc = "idle" /\ active = 1 /\ current = 1 /\ first = TRUE
  /\ lastActive = P!Nobody /\ sorceryspeed = FALSE /\ hasCastAnything = FALSE
  /\ stack = <<>>
  /\ \E drawn \in SUBSET Cards :
       /\ \A p \in Players : Cardinality(drawn \cap Deck(p))
                               = Least(OpeningHand, Cardinality(Deck(p)))
       /\ hand = [p \in Players |-> drawn \cap Deck(p)]
       /\ library = [p \in Players |-> Deck(p) \ drawn]
  /\ milledout = {p \in Players : Cardinality(Deck(p)) < OpeningHand}
  /\ landsLeft = [p \in Players |-> 1]
  /\ haswon = FALSE
  /\ who = 1 /\ step = 1 /\ turns = [p \in Players |-> IF p = 1 THEN 1 ELSE 0]
  /\ life = [p \in Players |-> InitialLife]
  /\ pool = [p \in Players |-> 0]
  /\ board = {} /\ untapped = {} /\ wounds = [c \in Creatures |-> 0]
  /\ attackers = {} /\ blocks = [c \in Creatures |-> {}] /\ is_block = {}
  /\ graveyard = {} /\ duplicated = {}

(* Gamer::putToZone of all these cards.                                    *)
putToZone(cards) ==
  /\ graveyard' = graveyard \cup cards
  /\ duplicated' = duplicated \cup (cards \cap graveyard)

(* Seeded fault: damage equal to its toughness leaves a creature alive.    *)
FaultyDying ==
  {c \in Creatures \cap board : Owner[c] \notin lost
                                /\ wounds[c] > Toughness[c]}

(* The creatures that Player::stateBasedActions destroys, which it looks   *)
(* for unless their player has lost.                                       *)
dying ==
  {c \in Creatures \cap board : Owner[c] \notin lost
                                /\ wounds[c] >= Toughness[c]}

-----------------------------------------------------------------------------
(* The steps without priority.                                             *)

(* Permanent::declareBeginturn of these permanents.                        *)
declareBeginturn(permanents) == untapped' = untapped \cup permanents

untapstep ==
  /\ running("untap")
  /\ UNCHANGED <<life, milledout>>
  /\ P!untapstep(who)
  /\ declareBeginturn({c \in board : Owner[c] = who})
  /\ stepEnds
  /\ UNCHANGED <<board, wounds, fightVars, yardVars>>

(* Player::upkeepstep and Player::endstep do nothing.                      *)
emptystep ==
  /\ running("upkeep") \/ running("end")
  /\ UNCHANGED <<loopVars, cardVars, haswon, life, milledout, permVars, wounds,
                 fightVars, yardVars>>
  /\ stepEnds

drawstep ==
  /\ running("draw")
  /\ milledout' = milledout \cup {p \in {who} : library[p] = {}}
  /\ UNCHANGED life
  /\ P!drawstep(who)
  /\ stepEnds
  /\ UNCHANGED <<permVars, wounds, fightVars, yardVars>>

(* The attacking player picks any of his creatures: BasicIO's              *)
(* chooseAttackers looks neither at the tapped nor at the new ones, and    *)
(* taps none.                                                              *)
declareattackersstep ==
  /\ running("attackers")
  /\ attackers' \in SUBSET {c \in Creatures \cap board : Owner[c] = who}
  /\ UNCHANGED <<loopVars, cardVars, haswon, life, milledout, permVars, wounds,
                 blocks, is_block, yardVars>>
  /\ stepEnds

(* Creature::addBlocker of attacker a, for each of these creatures; is_block *)
(* is reset by nothing.                                                    *)
addBlocker(a, defenders) ==
  /\ blocks' = [blocks EXCEPT ![a] = defenders]
  /\ is_block' = is_block \cup {a}

(* The agents of the command line, the network and the bot do not block;   *)
(* with GraphicalUI every creature of the next opponent blocks the first   *)
(* attacker.                                                               *)
declareblockersstep ==
  /\ running("blockers")
  /\ LET defenders == {c \in Creatures \cap board :
                         Owner[c] = nextopponent[who]}
     IN  \/ UNCHANGED <<blocks, is_block>>
         \/ \E a \in attackers : defenders # {} /\ addBlocker(a, defenders)
  /\ UNCHANGED <<loopVars, cardVars, haswon, life, milledout, permVars, wounds,
                 attackers, yardVars>>
  /\ stepEnds

PowerOf(cs) == MapThenSumSet(LAMBDA c : Power[c], cs)

(* Creature::splitDamage: what each of the creatures that block one        *)
(* attacker is assigned.                                                   *)
Splits ==
  {s \in [UNION {blocks[a] : a \in attackers} ->
            0 .. Max({0} \cup {Power[a] : a \in attackers})] :
     \A a \in attackers : MapThenSumSet(LAMBDA b : s[b], blocks[a]) <= Power[a]}

(* Creature::resolveAttack, for every attacker: the damage creature c is   *)
(* dealt as a blocker, all of it if it blocks alone, and as an attacker.   *)
DamageTo(c, split) ==
  (IF \E a \in attackers : blocks[a] = {c}
     THEN Power[CHOOSE a \in attackers : blocks[a] = {c}]
     ELSE IF c \in DOMAIN split THEN split[c] ELSE 0)
  + (IF c \in attackers THEN PowerOf(blocks[c]) ELSE 0)

(* The attackers that hit the player.                                      *)
unblocked == attackers \ is_block

(* Seeded fault: the attackers keep the blockers they were assigned.       *)
FaultyRestate == attackers' = {} /\ UNCHANGED blocks

(* StateTN::restate, and assigned_bl.clear() for every attacker.           *)
restate == attackers' = {} /\ blocks' = [c \in Creatures |-> {}]

damagestep ==
  /\ running("damage")
  /\ attackers # {}
  /\ life' = [life EXCEPT ![nextopponent[who]] = @ - PowerOf(unblocked)]
  /\ \E split \in Splits :
       wounds' = [c \in Creatures |-> wounds[c] + DamageTo(c, split)]
  /\ UNCHANGED <<milledout, permVars, is_block>>
  /\ restate
  /\ putToZone(dying')
  /\ P!damagestep
  /\ stepEnds

(* Without attackers damagestep returns before the state-based actions.    *)
nodamagestep ==
  /\ running("damage")
  /\ attackers = {}
  /\ UNCHANGED <<loopVars, cardVars, haswon, life, milledout, permVars, wounds,
                 fightVars, yardVars>>
  /\ stepEnds

(* The damage of the creatures of the player whose turn ends wears off.    *)
cleanupstep ==
  /\ running("cleanup")
  /\ wounds' = [c \in Creatures |->
                  IF c \in board /\ Owner[c] = who THEN 0 ELSE wounds[c]]
  /\ UNCHANGED <<loopVars, cardVars, haswon, life, milledout, permVars,
                 fightVars, yardVars>>
  /\ stepEnds

-----------------------------------------------------------------------------
(* The main phases.                                                        *)

mainphasemainstep ==
  /\ running("main")
  /\ UNCHANGED <<life, milledout>>
  /\ P!mainphasemainstep(who)
  /\ UNCHANGED <<turnVars, pool, permVars, wounds, fightVars, yardVars>>

(* chooseAndUseOpt runs the state-based actions, whether or not it goes on *)
(* to ask the player.                                                      *)
givePriority ==
  /\ putToZone(dying)
  /\ UNCHANGED <<life, milledout>>
  /\ P!givePriority \/ P!skipPlayer
  /\ UNCHANGED <<turnVars, pool, permVars, wounds, fightVars>>

(* The constructor of a permanent: it is untapped, and a creature has no   *)
(* damage.                                                                 *)
enter(cards, alsoUntapped) ==
  /\ board' = board \cup cards
  /\ untapped' = untapped \cup cards \cup alsoUntapped

(* Player::resolvePlayland.                                                *)
playLand(c) ==
  /\ UNCHANGED <<life, milledout>>
  /\ P!playLand(c)
  /\ enter({c}, {})
  /\ UNCHANGED <<turnVars, pool, wounds, fightVars, yardVars>>

(* What Agent::chooseTarget may answer for an effect of player p; the      *)
(* effects that concern their controller have no parameter.                *)
TargetsOf(e, p) ==
  CASE e = "damage" -> Players \cup (Creatures \cap board)
    [] e \in {"destroy", "untap"} -> board
    [] OTHER -> {p}

(* Seeded fault: one mana too few is enough.                               *)
FaultyCanPay(cost) == pool[current] + 1 >= cost

(* Player::pay.                                                            *)
canPay(cost) == pool[current] >= cost
pay(cost) == pool' = [pool EXCEPT ![current] = @ - cost]

(* CardWrapper::castOpt for a spell.  Where an effect could be aimed at     *)
(* nothing, chooseTarget returns a null pointer, which ends the program at  *)
(* the assertion of 9modifs.h:47; that cast is left out.                    *)
castSpell(c) ==
  /\ pc = "choose"
  /\ canPay(CostOf[c])
  /\ UNCHANGED <<life, milledout>>
  /\ \E t \in TargetsOf(EffectOf[c], current) : P!castSpell(c, t)
  /\ pay(CostOf[c])
  /\ UNCHANGED <<turnVars, permVars, wounds, fightVars, yardVars>>

(* PermOption::castOpt of an ability that taps its permanent.              *)
activateAbility(c) ==
  /\ pc = "choose"
  /\ c \in board \cap untapped /\ Owner[c] = current /\ AbilityOf[c] # "none"
  /\ canPay(AbilityCost[c])
  /\ UNCHANGED <<life, milledout>>
  /\ \E t \in TargetsOf(AbilityOf[c], current) : P!activateAbility(c, t)
  /\ pay(AbilityCost[c])
  /\ untapped' = untapped \ {c}
  /\ UNCHANGED <<turnVars, board, wounds, fightVars, yardVars>>

(* The same if it is tapped already: the cost has been paid when that is   *)
(* found out.                                                              *)
activateTapped(c) ==
  /\ pc = "choose"
  /\ c \in board \ untapped /\ Owner[c] = current /\ AbilityOf[c] # "none"
  /\ canPay(AbilityCost[c])
  /\ pay(AbilityCost[c])
  /\ UNCHANGED <<loopVars, cardVars, haswon, turnVars, life, milledout,
                 permVars, wounds, fightVars, yardVars>>

pass ==
  /\ UNCHANGED <<life, milledout>>
  /\ P!pass
  /\ UNCHANGED <<turnVars, pool, permVars, wounds, fightVars, yardVars>>

(* Player::draw: the player mills out if the library is too small.         *)
draw(p, n) ==
  /\ \E drawn \in kSubset(Least(n, Cardinality(library[p])), library[p]) :
       /\ library' = [library EXCEPT ![p] = @ \ drawn]
       /\ hand' = [hand EXCEPT ![p] = @ \cup drawn]
  /\ milledout' = milledout \cup {q \in {p} : n > Cardinality(library[p])}

(* AtomEffect::activate, but for what it does to the graveyards and to the *)
(* permanents: "p" is its controller and "t" its target.                   *)
activate(e, p, t) ==
  /\ life' = [q \in Players |->
                CASE e = "damage" /\ q = t -> life[q] - Amount
                  [] e = "gain" /\ q = p   -> life[q] + Amount
                  [] e = "set" /\ q = p    -> Amount
                  [] OTHER                 -> life[q]]
  /\ wounds' = [c \in Creatures |->
                  IF e = "damage" /\ c = t THEN wounds[c] + Amount
                                           ELSE wounds[c]]
  /\ pool' = IF e = "mana" THEN [pool EXCEPT ![p] = @ + 1] ELSE pool
  /\ IF e = "draw" THEN draw(p, Amount)
                   ELSE UNCHANGED <<library, hand, milledout>>

effectOf(o) == IF o.kind = "spell" THEN EffectOf[o.card] ELSE AbilityOf[o.card]
affected(o, e) == IF effectOf(o) = e THEN {o.tgt} ELSE {}
spellCard(o) == IF o.kind = "spell" THEN {o.card} ELSE {}

(* Seeded fault: the card of an instant is forgotten.                      *)
FaultyBuried(o) == affected(o, "destroy")

(* What goes to a graveyard when o resolves: the permanents it destroys,   *)
(* which stay on the board as Y_Hashtable::remove does nothing, and the    *)
(* card of a spell that does not become a permanent.                       *)
buried(o) == affected(o, "destroy") \cup (spellCard(o) \ Permanents)

(* Resolvable::resolve and Spell::resolve.                                 *)
resolve ==
  /\ pc = "resolve" /\ stack # <<>>
  /\ LET o == Head(stack) IN
       /\ activate(effectOf(o), o.ctrl, o.tgt)
       /\ putToZone(buried(o))
       /\ enter(spellCard(o) \cap Permanents, affected(o, "untap"))
  /\ P!resolve
  /\ UNCHANGED <<turnVars, fightVars>>

choicephaseReturns ==
  /\ UNCHANGED <<life, milledout>>
  /\ P!choicephaseReturns
  /\ stepEnds
  /\ UNCHANGED <<permVars, wounds, fightVars, yardVars>>

StepWithoutPriority ==
  untapstep \/ emptystep \/ drawstep \/ declareattackersstep
    \/ declareblockersstep \/ damagestep \/ nodamagestep \/ cleanupstep

choicephase ==
  \/ mainphasemainstep \/ givePriority \/ pass \/ resolve
  \/ choicephaseReturns
  \/ \E c \in Cards : playLand(c) \/ castSpell(c) \/ activateAbility(c)
                        \/ activateTapped(c)

Next == StepWithoutPriority \/ choicephase

Spec == Init /\ [][Next]_vars

(* The server's loop runs on and every agent ends up with an answer.       *)
FairSpec == Spec /\ WF_vars(Next)

-----------------------------------------------------------------------------

TypeOK ==
  /\ who \in Players /\ step \in 1 .. Len(StepOrder)
  /\ turns \in [Players -> Nat]
  /\ life \in [Players -> Int] /\ milledout \in SUBSET Players
  /\ pool \in [Players -> Nat]
  /\ board \subseteq Permanents /\ untapped \subseteq board
  /\ wounds \in [Creatures -> Nat]
  /\ attackers \subseteq Creatures \cap board
  /\ blocks \in [Creatures -> SUBSET Creatures]
  /\ is_block \subseteq Creatures
  /\ graveyard \subseteq Cards /\ duplicated \subseteq graveyard

onStack == {stack[i].card : i \in {j \in DOMAIN stack : stack[j].kind = "spell"}}

(* 5resolvables.h:43, "the source will be kept by the option, the spell    *)
(* and the permanent to finally go the graveyard": whatever is cast,       *)
(* answered, destroyed and drawn, no card of a deck gets lost, and none    *)
(* reaches two of the hand, the library, the stack and what comes after.   *)
CardsConserved ==
  \A p \in Players : \A c \in Deck(p) :
    LET places == {hand[p], library[p], onStack, board \cup graveyard}
    IN  /\ \E z \in places : c \in z
        /\ \A y, z \in places : c \in y \cap z => y = z

(* Gamer::nb_lands_remaining: a player plays one land for every turn he    *)
(* has begun, on whosever turn it is, and the one he starts with.          *)
LandsPerTurn ==
  \A p \in Players :
    Cardinality({c \in Lands \cap board : Owner[c] = p}) + landsLeft[p]
      <= turns[p] + 1

(* phases.cpp:13-30, takeopts.cpp:33: what the state-based actions are to   *)
(* notice is noticed in time, whichever of priority, combat or a spell has *)
(* killed: when a player is asked for an option, every creature with       *)
(* lethal damage is in a graveyard, and between a main phase and the next  *)
(* draw no player is dead in a game that goes on.                          *)
DeathsNoticedInTime ==
  /\ pc = "choose" =>
       \A c \in Creatures \cap board :
         Owner[c] \notin lost /\ wounds[c] >= Toughness[c] => c \in graveyard
  /\ pc = "idle" /\ StepOrder[step] \notin {"draw", "main"} => lost = {}

(* phases.cpp:48-60: attackers, all of the player whose turn it is, and    *)
(* the blockers they were assigned, of the next one, are gone after combat. *)
CombatEnds ==
  /\ attackers # {} => StepOrder[step] \in {"blockers", "damage"}
  /\ \A a \in attackers : Owner[a] = who
  /\ \A a \in Creatures : blocks[a] # {} =>
       /\ a \in attackers \cap is_block /\ StepOrder[step] = "damage"
       /\ \A b \in blocks[a] : Owner[b] = nextopponent[who]

(* phases.cpp:72-78: Game::play returns, as the libraries run out.         *)
GameEnds == <>(pc = "over")
=============================================================================
