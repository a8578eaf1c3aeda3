----------------------------- MODULE MatchProofs -----------------------------
(***************************************************************************)
(* Theorems about a game, for any number of players, any decks, costs,     *)
(* powers and effects.  IInv is the inductive invariant.  Its first part   *)
(* is that of the priority loop: every step of the game is one of          *)
(* Priority's, so what is proved of that module holds in the game, with    *)
(* "lost" the players whom the state-based actions would find dead.        *)
(* The last section is about the packed amounts of mana (Mana.tla), for    *)
(* any number of colours and any size of a field.                          *)
(***************************************************************************)
EXTENDS Match, Mana, FoldProofs

PP == INSTANCE PriorityProofs

(* The loop of priority in a main phase of the game.                       *)
LoopInv ==
  /\ PP!IInv /\ PP!OverIffWon
  /\ pc \notin {"idle", "over"} => StepOrder[step] = "main"

(* What the objects on the stack stand for: a spell is no land and is      *)
(* there once, and what is to be destroyed or untapped is on the board.    *)
StackWell(s, B) ==
  /\ \A i \in DOMAIN s :
       /\ s[i].kind = "spell" => s[i].card \notin Lands
       /\ effectOf(s[i]) \in {"destroy", "untap"} => s[i].tgt \in B
  /\ \A i, j \in DOMAIN s :
       s[i].kind = "spell" /\ s[j].kind = "spell" /\ s[i].card = s[j].card
         => i = j

StackInv == StackWell(stack, board)

(* The cards of the spells of a stack.                                     *)
SpellsOf(s) == {s[i].card : i \in {j \in DOMAIN s : s[j].kind = "spell"}}

(* A creature's blockers are among the permanents, which are finitely many. *)
BoardInv ==
  IsFiniteSet(board) /\ \A a \in Creatures : blocks[a] \subseteq board

(* Where a card can be: with its owner, on the stack or in play.           *)
PlacesInv ==
  /\ \A p \in Players :
       /\ hand[p] \subseteq Deck(p) /\ library[p] \subseteq Deck(p)
       /\ hand[p] \cap library[p] = {}
       /\ (hand[p] \cup library[p]) \cap (onStack \cup board \cup graveyard) = {}
  /\ onStack \cap (board \cup graveyard) = {}
  /\ \A c \in Cards : c \in hand[Owner[c]] \cup library[Owner[c]] \cup onStack
                              \cup board \cup graveyard

(* The player whose turn begins has his new land drop already counted.     *)
LandInv ==
  \A p \in Players :
    Cardinality({c \in Lands \cap board : Owner[c] = p}) + landsLeft[p]
      <= turns[p] + (IF p = who /\ step = 1 THEN 0 ELSE 1)

(* No deck is smaller than an opening hand.                                *)
DecksSuffice == {p \in Players : Cardinality(Deck(p)) < OpeningHand} = {}

(* After the state-based actions of a round of priority the game is won if *)
(* a player is dead.                                                       *)
DeathInv ==
  /\ DecksSuffice => DeathsNoticedInTime
  /\ pc \in {"choose", "resolve"} /\ lost # {} => haswon

IInv ==
  /\ LoopInv /\ TypeOK /\ BoardInv /\ StackInv /\ PlacesInv
  /\ LandInv /\ CombatEnds /\ DeathInv

-----------------------------------------------------------------------------

(* What is assumed of Match's constants is what Priority assumes.          *)
LEMMA PriorityAssumptions ==
  PP!PlayersAssumption /\ PP!CardsAssumption /\ PP!BoundAssumption
BY CardsAreTyped DEF PP!PlayersAssumption, PP!CardsAssumption, PP!BoundAssumption

(* The invariant of the priority loop is kept by its steps.                *)
LEMMA PriorityNext == PP!IInv /\ [PP!Next]_(PP!vars) => PP!IInv'
BY PP!NextIInv, PriorityAssumptions

(* The types of the variables that Match shares with Priority.             *)
LEMMA LoopTypes ==
  ASSUME PP!IInv
  PROVE  /\ pc \in {"idle", "offer", "choose", "resolve", "over"}
         /\ current \in Players /\ haswon \in BOOLEAN
         /\ hand \in [Players -> SUBSET Cards]
         /\ library \in [Players -> SUBSET Cards]
         /\ landsLeft \in [Players -> {0, 1}]
         /\ stack \in Seq([kind : {"spell", "ability"}, card : Cards,
                           ctrl : Players, tgt : Targets])
BY DEF PP!IInv, PP!TypeOK, PP!Players, PP!Cards, PP!Objects, Players, Cards

(* Permanents are cards, and creatures are permanents.                     *)
LEMMA PermanentsAreCards == Permanents \subseteq Cards /\ Creatures \subseteq Permanents
BY CardsAreTyped DEF Permanents, Cards

(* What an effect may be aimed at is a target in the sense of Priority.    *)
LEMMA TargetsAreTargets ==
  ASSUME TypeOK, NEW e, NEW p \in Players
  PROVE  TargetsOf(e, p) \subseteq Targets
BY PermanentsAreCards DEF TargetsOf, Targets, TypeOK

(* Every step of the game is a step of the priority loop, or changes       *)
(* nothing that it speaks of.                                              *)
LEMMA StepIsPriorityStep ==
  TypeOK /\ PP!IInv /\ [Next]_vars => [PP!Next]_(PP!vars)
<1> SUFFICES ASSUME TypeOK, PP!IInv, [Next]_vars PROVE [PP!Next]_(PP!vars)
  OBVIOUS
<1> USE DEF P!loopVars, P!optVars, P!cardVars, PP!loopVars, PP!optVars,
            PP!cardVars, P!Nobody, PP!Nobody
<1>0. who \in PP!Players /\ current \in Players
  BY LoopTypes DEF TypeOK, Players, PP!Players
<1>1. CASE untapstep
  <2>1. PP!untapstep(who)
    BY <1>1 DEF untapstep, P!untapstep, PP!untapstep
  <2>2. QED
    BY <1>0, <2>1 DEF PP!Next, PP!OtherSteps
<1>2. CASE drawstep
  <2>1. PP!drawstep(who)
    BY <1>2 DEF drawstep, P!drawstep, PP!drawstep
  <2>2. QED
    BY <1>0, <2>1 DEF PP!Next, PP!OtherSteps
<1>3. CASE damagestep
  <2>1. PP!damagestep
    BY <1>3 DEF damagestep, P!damagestep, PP!damagestep, P!Players, PP!Players
  <2>2. QED
    BY <2>1 DEF PP!Next, PP!OtherSteps
<1>4. CASE mainphasemainstep
  <2>1. PP!mainphasemainstep(who)
    BY <1>4 DEF mainphasemainstep, P!mainphasemainstep, PP!mainphasemainstep
  <2>2. QED
    BY <1>0, <2>1 DEF PP!Next, PP!OtherSteps
<1>5. CASE givePriority
  <2>1. PP!givePriority \/ PP!skipPlayer
    BY <1>5 DEF givePriority, P!givePriority, PP!givePriority, P!skipPlayer,
                PP!skipPlayer, P!hasOptions, PP!hasOptions, P!canPlayLand,
                PP!canPlayLand, P!stateBasedActions, PP!stateBasedActions,
                P!returns, PP!returns, P!nextopponent, PP!nextopponent,
                P!Players, PP!Players
  <2>2. QED
    BY <2>1 DEF PP!Next, PP!choicephase
<1>6. ASSUME NEW c \in Cards, playLand(c) PROVE [PP!Next]_(PP!vars)
  <2>1. PP!playLand(c) /\ c \in PP!Cards
    BY <1>6 DEF playLand, P!playLand, PP!playLand, P!isCastable, PP!isCastable,
                P!canPlayLand, PP!canPlayLand, P!used, PP!used, Cards, PP!Cards
  <2>2. QED
    BY <2>1 DEF PP!Next, PP!choicephase, PP!UseOption
<1>7. ASSUME NEW c \in Cards, castSpell(c) PROVE [PP!Next]_(PP!vars)
  <2>1. PICK t \in Targets : P!castSpell(c, t)
    BY <1>0, <1>7, TargetsAreTargets DEF castSpell
  <2>2. PP!castSpell(c, t) /\ c \in PP!Cards
    BY <2>1 DEF P!castSpell, PP!castSpell, P!isCastable, PP!isCastable,
                P!canPlayLand, PP!canPlayLand, P!used, PP!used, Cards, PP!Cards
  <2>3. QED
    BY <2>2 DEF PP!Next, PP!choicephase, PP!UseOption
<1>8. ASSUME NEW c \in Cards, activateAbility(c) PROVE [PP!Next]_(PP!vars)
  <2>1. PICK t \in Targets : P!activateAbility(c, t)
    BY <1>0, <1>8, TargetsAreTargets DEF activateAbility
  <2>2. P!AbilitiesOnStack = PP!AbilitiesOnStack /\ P!Players = PP!Players
    BY Zenon DEF P!AbilitiesOnStack, PP!AbilitiesOnStack, P!Players, PP!Players,
                 P!Cardinality, PP!Cardinality
  <2>3. PP!activateAbility(c, t)
    BY <2>1, <2>2, Zenon DEF P!activateAbility, PP!activateAbility, P!used,
                             PP!used
  <2>4. c \in PP!Cards
    BY DEF Cards, PP!Cards
  <2>5. QED
    BY <2>3, <2>4 DEF PP!Next, PP!choicephase, PP!UseOption
<1>9. CASE pass
  <2>1. PP!pass
    BY <1>9 DEF pass, P!pass, PP!pass, P!returns, PP!returns, P!nextopponent,
                PP!nextopponent, P!Players, PP!Players
  <2>2. QED
    BY <2>1 DEF PP!Next, PP!choicephase
<1>10. CASE resolve
  <2>1. PP!resolve
    BY <1>10 DEF resolve, P!resolve, PP!resolve, P!Players, PP!Players
  <2>2. QED
    BY <2>1 DEF PP!Next, PP!choicephase
<1>11. CASE choicephaseReturns
  <2>1. PP!choicephaseReturns
    BY <1>11 DEF choicephaseReturns, P!choicephaseReturns, PP!choicephaseReturns
  <2>2. QED
    BY <2>1 DEF PP!Next, PP!choicephase
<1>12. CASE UNCHANGED <<loopVars, cardVars, haswon, life, milledout>>
  BY <1>12 DEF loopVars, cardVars, PP!vars, lost, Players
<1>13. QED
  BY <1>1, <1>2, <1>3, <1>4, <1>5, <1>6, <1>7, <1>8, <1>9, <1>10, <1>11, <1>12
     DEF Next, StepWithoutPriority, choicephase, vars, emptystep,
         declareattackersstep, declareblockersstep, nodamagestep, cleanupstep,
         activateTapped
-----------------------------------------------------------------------------

(* The ten steps of a turn.                                                *)
LEMMA OrderOfSteps ==
  /\ Len(StepOrder) = 10
  /\ StepOrder[1] = "untap" /\ StepOrder[2] = "upkeep"
  /\ StepOrder[3] = "draw" /\ StepOrder[4] = "main"
  /\ StepOrder[5] = "attackers" /\ StepOrder[6] = "blockers"
  /\ StepOrder[7] = "damage" /\ StepOrder[8] = "main"
  /\ StepOrder[9] = "end" /\ StepOrder[10] = "cleanup"
BY DEF StepOrder

(* Every step keeps the loop's invariant, the game goes on while it is not *)
(* won, and is inside choicephase in the main phases only.                 *)
LEMMA LoopNext == TypeOK /\ LoopInv /\ [Next]_vars => LoopInv'
<1> SUFFICES ASSUME TypeOK, LoopInv, [Next]_vars PROVE LoopInv'
  OBVIOUS
<1>1. PP!IInv'
  BY StepIsPriorityStep, PriorityNext DEF LoopInv
<1>2. haswon \in BOOLEAN
  BY LoopTypes DEF LoopInv
<1>3. CASE damagestep
  <2>1. haswon' \in BOOLEAN
    BY <1>1, LoopTypes DEF PP!IInv, PP!TypeOK
  <2>2. QED
    BY <1>1, <1>3, <2>1 DEF LoopInv, PP!OverIffWon, damagestep, P!damagestep
<1>4. CASE choicephaseReturns
  BY <1>1, <1>2, <1>4 DEF LoopInv, PP!OverIffWon, choicephaseReturns,
                          P!choicephaseReturns
<1>5. CASE mainphasemainstep
  BY <1>1, <1>5 DEF LoopInv, PP!OverIffWon, mainphasemainstep,
                    P!mainphasemainstep, running, turnVars
<1>6. CASE untapstep \/ drawstep
  BY <1>1, <1>6 DEF LoopInv, PP!OverIffWon, untapstep, P!untapstep, running,
                    drawstep, P!drawstep
<1>7. CASE \/ emptystep \/ declareattackersstep \/ declareblockersstep
           \/ nodamagestep \/ cleanupstep
  BY <1>1, <1>7 DEF LoopInv, PP!OverIffWon, emptystep, declareattackersstep,
       declareblockersstep, nodamagestep, cleanupstep, running, loopVars
<1>8. CASE givePriority \/ pass \/ resolve
  BY <1>1, <1>8 DEF LoopInv, PP!OverIffWon, givePriority, P!givePriority,
       P!skipPlayer, pass, P!pass, resolve, P!resolve, P!returns, turnVars
<1>9. ASSUME NEW c \in Cards,
             playLand(c) \/ castSpell(c) \/ activateAbility(c)
      PROVE  LoopInv'
  <2>1. UNCHANGED <<pc, haswon, step>> /\ pc = "choose"
    BY <1>9 DEF playLand, P!playLand, castSpell, P!castSpell, activateAbility,
                P!activateAbility, P!used, turnVars
  <2>2. QED
    BY <1>1, <2>1 DEF LoopInv, PP!OverIffWon
<1>10. CASE UNCHANGED <<loopVars, haswon, turnVars>>
  BY <1>1, <1>10 DEF LoopInv, PP!OverIffWon, loopVars, turnVars
<1>11. QED
  BY <1>3, <1>4, <1>5, <1>6, <1>7, <1>8, <1>9, <1>10
     DEF Next, StepWithoutPriority, choicephase, vars, activateTapped

-----------------------------------------------------------------------------

(* The end of a step leaves the turn and the mana pools typed.             *)
LEMMA StepEndsTypes ==
  ASSUME TypeOK, stepEnds
  PROVE  /\ who' \in Players /\ step' \in 1 .. Len(StepOrder)
         /\ turns' \in [Players -> Nat] /\ pool' \in [Players -> Nat]
<1>1. pool' \in [Players -> Nat]
  BY DEF TypeOK, stepEnds
<1>2. Successor(who) \in Players
  BY CardsAreTyped DEF TypeOK, Successor, Players
<1>3. CASE UNCHANGED turnVars
  BY <1>1, <1>3 DEF TypeOK, turnVars
<1>4. CASE step < Len(StepOrder) /\ step' = step + 1 /\ UNCHANGED <<who, turns>>
  BY <1>1, <1>4, OrderOfSteps DEF TypeOK
<1>5. CASE step' = 1 /\ who' = Successor(who)
             /\ turns' = [turns EXCEPT ![who'] = @ + 1]
  BY <1>1, <1>2, <1>5, OrderOfSteps DEF TypeOK
<1>6. QED
  BY <1>3, <1>4, <1>5 DEF stepEnds

(* The attackers and their blockers are finitely many.                     *)
LEMMA FiniteParts ==
  ASSUME TypeOK, BoardInv
  PROVE  /\ IsFiniteSet(attackers)
         /\ \A c \in Creatures : IsFiniteSet(blocks[c])
<1>1. attackers \subseteq board
  BY DEF TypeOK
<1>2. QED
  BY <1>1, FS_Subset DEF BoardInv

(* The power of finitely many creatures is a natural number.               *)
LEMMA PowerOfType ==
  ASSUME NEW cs \in SUBSET Creatures, IsFiniteSet(cs)
  PROVE  PowerOf(cs) \in Nat
<1>1. \A x \in cs : Power[x] \in Nat
  BY CardsAreTyped
<1>2. SumOver(Power, cs) \in Nat
  BY <1>1, SumType
<1>3. PowerOf(cs) = SumOver(Power, cs)
  BY DEF PowerOf, SumOver, MapThenSumSet, MapThenFoldSet
<1>4. QED
  BY <1>2, <1>3

(* What a creature is dealt is a natural number.                           *)
LEMMA DamageType ==
  ASSUME TypeOK, BoardInv, NEW split \in Splits, NEW c \in Creatures
  PROVE  DamageTo(c, split) \in Nat
<1>1. c \in attackers => PowerOf(blocks[c]) \in Nat
  <2>1. blocks[c] \in SUBSET Creatures
    BY DEF TypeOK
  <2>2. QED
    BY <2>1, FiniteParts, PowerOfType
<1>2. ASSUME \E a \in attackers : blocks[a] = {c}
      PROVE  Power[CHOOSE a \in attackers : blocks[a] = {c}] \in Nat
  <2> DEFINE b == CHOOSE a \in attackers : blocks[a] = {c}
  <2>1. b \in attackers
    BY <1>2
  <2>2. b \in Creatures
    BY <2>1 DEF TypeOK
  <2>3. QED
    BY <2>2, CardsAreTyped
<1>3. c \in DOMAIN split => split[c] \in Nat
  <2>1. split \in [UNION {blocks[a] : a \in attackers} ->
                     0 .. Max({0} \cup {Power[a] : a \in attackers})]
    BY DEF Splits
  <2>2. ASSUME c \in DOMAIN split PROVE split[c] \in Nat
    <3> DEFINE m == Max({0} \cup {Power[a] : a \in attackers})
    <3> HIDE DEF m
    <3>1. split[c] \in 0 .. m
      BY <2>1, <2>2 DEF m
    <3>2. QED
      BY <3>1
  <2>3. QED
    BY <2>2
<1>4. QED
  BY <1>1, <1>2, <1>3 DEF DamageTo

(* What the state-based actions destroy is on the board.                   *)
LEMMA DyingAreCreatures ==
  TypeOK => dying \subseteq Creatures \cap board /\ dying \subseteq Cards
BY PermanentsAreCards DEF dying

(* What is about to resolve is typed, no land, and what it is to destroy   *)
(* or untap is on the board.                                               *)
LEMMA TopOfStack ==
  ASSUME LoopInv, StackInv, stack # <<>>, NEW o, o = Head(stack)
  PROVE  /\ o \in [kind : {"spell", "ability"}, card : Cards,
                   ctrl : Players, tgt : Targets]
         /\ o.kind = "spell" => o.card \notin Lands
         /\ effectOf(o) \in {"destroy", "untap"} => o.tgt \in board
<1> DEFINE T == [kind : {"spell", "ability"}, card : Cards, ctrl : Players,
                 tgt : Targets]
<1>1. stack \in Seq(T)
  BY LoopTypes DEF LoopInv
<1> HIDE DEF T
<1>2. o = stack[1] /\ 1 \in DOMAIN stack /\ o \in T
  BY <1>1
<1>3. QED
  BY <1>2 DEF StackInv, StackWell, T

(* Every step keeps the types.                                             *)
LEMMA TypeNext == TypeOK /\ LoopInv /\ BoardInv /\ StackInv /\ [Next]_vars => TypeOK'
<1> SUFFICES ASSUME TypeOK, LoopInv, BoardInv, StackInv, [Next]_vars
             PROVE  TypeOK'
  OBVIOUS
<1> DEFINE TurnType == /\ who \in Players /\ step \in 1 .. Len(StepOrder)
                       /\ turns \in [Players -> Nat]
                       /\ pool \in [Players -> Nat]
           LifeType == life \in [Players -> Int] /\ milledout \in SUBSET Players
           PermType == /\ board \subseteq Permanents /\ untapped \subseteq board
                       /\ wounds \in [Creatures -> Nat]
           FightType == /\ attackers \subseteq Creatures \cap board
                        /\ blocks \in [Creatures -> SUBSET Creatures]
                        /\ is_block \subseteq Creatures
           YardType == graveyard \subseteq Cards /\ duplicated \subseteq graveyard
<1>a. TurnType /\ LifeType /\ PermType /\ FightType /\ YardType
  BY DEF TypeOK
<1>b. SUFFICES TurnType' /\ LifeType' /\ PermType' /\ FightType' /\ YardType'
  BY DEF TypeOK
<1>c. stepEnds => TurnType'
  BY StepEndsTypes
<1>d. UNCHANGED <<life, milledout>> => LifeType'
  BY <1>a
<1>e. UNCHANGED <<permVars, wounds>> => PermType'
  BY <1>a DEF permVars
<1>f. board \subseteq board' /\ UNCHANGED fightVars => FightType'
  BY <1>a DEF fightVars
<1>g. UNCHANGED yardVars => YardType'
  BY <1>a DEF yardVars
<1>h. ASSUME NEW cs \in SUBSET Cards, putToZone(cs) PROVE YardType'
  BY <1>a, <1>h DEF putToZone
<1>i. UNCHANGED <<turnVars, pool>> => TurnType'
  BY <1>a DEF turnVars
<1> HIDE DEF TurnType, LifeType, YardType
<1>1. CASE untapstep
  <2>1. PermType'
    BY <1>1, <1>a DEF untapstep, declareBeginturn
  <2>2. QED
    BY <1>1, <1>c, <1>d, <1>f, <1>g, <2>1 DEF untapstep
<1>2. CASE emptystep
  BY <1>2, <1>c, <1>d, <1>e, <1>f, <1>g DEF emptystep, permVars
<1>3. CASE drawstep
  <2>1. LifeType'
    BY <1>3, <1>a DEF drawstep, LifeType, TurnType
  <2>2. QED
    BY <1>3, <1>c, <1>e, <1>f, <1>g, <2>1 DEF drawstep, permVars
<1>4. CASE declareattackersstep
  <2>1. FightType'
    BY <1>4, <1>a DEF declareattackersstep, permVars
  <2>2. QED
    BY <1>4, <1>c, <1>d, <1>e, <1>g, <2>1 DEF declareattackersstep
<1>5. CASE declareblockersstep
  <2>1. FightType'
    BY <1>5, <1>a DEF declareblockersstep, addBlocker, permVars
  <2>2. QED
    BY <1>5, <1>c, <1>d, <1>e, <1>g, <2>1 DEF declareblockersstep
<1>6. CASE damagestep
  <2>1. PowerOf(unblocked) \in Nat
    <3>1. unblocked \in SUBSET Creatures /\ unblocked \in SUBSET attackers
      BY <1>a DEF unblocked
    <3>2. IsFiniteSet(unblocked)
      BY <3>1, FiniteParts, FS_Subset
    <3>3. QED
      BY <3>1, <3>2, PowerOfType
  <2>2. LifeType'
    <3>1. PICK n \in Nat : n = PowerOf(unblocked)
      BY <2>1
    <3>2. life' = [life EXCEPT ![nextopponent[who]] = @ - n]
      BY <1>6, <3>1 DEF damagestep
    <3>3. life \in [Players -> Int] /\ milledout' = milledout
      BY <1>6, <1>a DEF damagestep, LifeType
    <3>4. life' \in [Players -> Int]
      <4>1. PICK d : d = nextopponent[who]
        OBVIOUS
      <4>2. life' = [life EXCEPT ![d] = @ - n]
        BY <3>2, <4>1
      <4>3. DOMAIN life' = Players /\ life' = [q \in Players |-> life'[q]]
        BY <3>3, <4>2
      <4>4. ASSUME NEW q \in Players PROVE life'[q] \in Int
        BY <3>1, <3>3, <4>2
      <4>5. QED
        BY <4>3, <4>4
    <3>5. QED
      BY <1>a, <3>3, <3>4 DEF LifeType
  <2>3. PermType'
    <3>1. PICK split \in Splits :
            wounds' = [c \in Creatures |-> wounds[c] + DamageTo(c, split)]
      BY <1>6 DEF damagestep
    <3>2. \A c \in Creatures : DamageTo(c, split) \in Nat
      BY DamageType
    <3>3. wounds' \in [Creatures -> Nat]
      BY <1>a, <3>1, <3>2
    <3>4. QED
      BY <1>6, <1>a, <3>3 DEF damagestep, permVars
  <2>4. FightType'
    BY <1>6, <1>a DEF damagestep, restate, permVars
  <2>5. YardType'
    <3>1. dying' \in SUBSET Cards
      BY <2>3, PermanentsAreCards DEF dying
    <3>2. PICK cs \in SUBSET Cards : cs = dying'
      BY <3>1
    <3>3. putToZone(cs)
      BY <1>6, <3>2 DEF damagestep, putToZone
    <3>4. QED
      BY <1>h, <3>3
  <2>6. QED
    BY <1>6, <1>c, <2>2, <2>3, <2>4, <2>5 DEF damagestep
<1>7. CASE nodamagestep
  BY <1>7, <1>c, <1>d, <1>e, <1>f, <1>g DEF nodamagestep, permVars
<1>8. CASE cleanupstep
  <2>1. PermType'
    BY <1>8, <1>a DEF cleanupstep, permVars
  <2>2. QED
    BY <1>8, <1>c, <1>d, <1>f, <1>g, <2>1 DEF cleanupstep, permVars
<1>9. CASE mainphasemainstep \/ pass
  BY <1>9, <1>i, <1>d, <1>e, <1>f, <1>g DEF mainphasemainstep, pass, permVars
<1>10. CASE givePriority
  <2>1. YardType'
    BY <1>10, <1>h, DyingAreCreatures DEF givePriority
  <2>2. QED
    BY <1>10, <1>i, <1>d, <1>e, <1>f, <2>1 DEF givePriority, permVars
<1>11. ASSUME NEW c \in Cards, playLand(c)
       PROVE TurnType' /\ LifeType' /\ PermType' /\ FightType' /\ YardType'
  <2>1. PermType'
    BY <1>11, <1>a DEF playLand, P!playLand, enter, Permanents
  <2>2. QED
    BY <1>11, <1>i, <1>d, <1>f, <1>g, <2>1 DEF playLand, enter
<1>12. ASSUME NEW c \in Cards, castSpell(c) \/ activateAbility(c)
                                 \/ activateTapped(c)
       PROVE TurnType' /\ LifeType' /\ PermType' /\ FightType' /\ YardType'
  <2>1. CostOf[c] \in Nat /\ AbilityCost[c] \in Nat /\ current \in Players
    BY CardsAreTyped, LoopTypes DEF LoopInv
  <2>2. TurnType'
    <3>1. pool \in [Players -> Nat]
      BY <1>a DEF TurnType
    <3>2. ASSUME NEW n \in Nat, canPay(n), pay(n) PROVE pool' \in [Players -> Nat]
      <4>1. pool[current] - n \in Nat
        BY <2>1, <3>1, <3>2 DEF canPay
      <4>2. QED
        BY <3>1, <3>2, <4>1 DEF pay
    <3>3. pool' \in [Players -> Nat] /\ UNCHANGED turnVars
      BY <1>12, <2>1, <3>2
         DEF castSpell, activateAbility, activateTapped, turnVars
    <3>4. QED
      BY <1>a, <3>3 DEF TurnType, turnVars
  <2>3. PermType'
    BY <1>a, <1>12 DEF castSpell, activateAbility, activateTapped, permVars
  <2>4. QED
    BY <1>12, <1>d, <1>f, <1>g, <2>2, <2>3
       DEF castSpell, activateAbility, activateTapped, permVars
<1>13. CASE resolve
  <2>1. PICK o : o = Head(stack)
    OBVIOUS
  <2>2. /\ stack # <<>> /\ activate(effectOf(o), o.ctrl, o.tgt)
        /\ putToZone(buried(o))
        /\ enter(spellCard(o) \cap Permanents, affected(o, "untap"))
        /\ UNCHANGED <<turnVars, fightVars>>
    BY <1>13, <2>1 DEF resolve
  <2>3. /\ o \in [kind : {"spell", "ability"}, card : Cards,
                  ctrl : Players, tgt : Targets]
        /\ effectOf(o) \in {"destroy", "untap"} => o.tgt \in board
    BY <2>1, <2>2, TopOfStack
  <2>4. TurnType'
    BY <1>a, <2>2, <2>3 DEF activate, TurnType, turnVars
  <2>5. LifeType'
    <3>1. Amount \in Nat
      BY CardsAreTyped
    <3>2. life' \in [Players -> Int]
      BY <1>a, <2>2, <3>1 DEF activate, LifeType
    <3>3. milledout' \in SUBSET Players
      BY <1>a, <2>2, <2>3 DEF activate, draw, LifeType
    <3>4. QED
      BY <3>2, <3>3 DEF LifeType
  <2>6. PermType'
    <3>1. wounds' \in [Creatures -> Nat]
      BY <1>a, <2>2, CardsAreTyped DEF activate
    <3>2. affected(o, "untap") \subseteq board
      BY <2>3 DEF affected
    <3>3. board' \subseteq Permanents /\ untapped' \subseteq board'
      BY <1>a, <2>2, <3>2 DEF enter
    <3>4. QED
      BY <3>1, <3>3
  <2>7. YardType'
    <3>1. affected(o, "destroy") \subseteq Cards /\ spellCard(o) \subseteq Cards
      BY <1>a, <2>3, PermanentsAreCards DEF affected, spellCard
    <3>2. buried(o) \in SUBSET Cards
      BY <3>1 DEF buried
    <3>3. QED
      BY <1>h, <2>2, <3>2
  <2>8. QED
    BY <1>f, <2>2, <2>4, <2>5, <2>6, <2>7 DEF enter
<1>14. CASE choicephaseReturns
  BY <1>14, <1>c, <1>d, <1>e, <1>f, <1>g DEF choicephaseReturns, permVars
<1>15. CASE UNCHANGED vars
  BY <1>15, <1>i, <1>d, <1>e, <1>f, <1>g DEF vars, permVars
<1>16. QED
  BY <1>1, <1>2, <1>3, <1>4, <1>5, <1>6, <1>7, <1>8, <1>9, <1>10, <1>11, <1>12,
     <1>13, <1>14, <1>15 DEF Next, StepWithoutPriority, choicephase

(* Every step adds finitely many permanents, and blockers are on the       *)
(* board.                                                                  *)
LEMMA BoardNext == TypeOK /\ BoardInv /\ [Next]_vars => BoardInv'
<1> SUFFICES ASSUME TypeOK, BoardInv, [Next]_vars PROVE BoardInv'
  OBVIOUS
<1>1. ASSUME board' = board, blocks' = blocks PROVE BoardInv'
  BY <1>1 DEF BoardInv
<1>2. CASE untapstep \/ emptystep \/ drawstep \/ declareattackersstep
             \/ nodamagestep \/ cleanupstep
  BY <1>1, <1>2 DEF untapstep, emptystep, drawstep, declareattackersstep,
                    nodamagestep, cleanupstep, fightVars, permVars
<1>3. CASE declareblockersstep
  BY <1>3 DEF BoardInv, declareblockersstep, addBlocker, permVars, TypeOK
<1>4. CASE damagestep
  BY <1>4 DEF BoardInv, damagestep, restate, permVars
<1>5. CASE mainphasemainstep \/ givePriority \/ pass \/ choicephaseReturns
  BY <1>1, <1>5 DEF mainphasemainstep, givePriority, pass, choicephaseReturns,
                    fightVars, permVars
<1>6. ASSUME NEW c \in Cards, playLand(c) PROVE BoardInv'
  <2>1. board' = board \cup {c} /\ blocks' = blocks
    BY <1>6 DEF playLand, enter, fightVars
  <2>2. QED
    BY <2>1, FS_AddElement DEF BoardInv
<1>7. ASSUME NEW c \in Cards,
             castSpell(c) \/ activateAbility(c) \/ activateTapped(c)
      PROVE  BoardInv'
  BY <1>1, <1>7 DEF castSpell, activateAbility, activateTapped, fightVars,
                    permVars
<1>8. CASE resolve
  <2>1. PICK cs : cs = spellCard(Head(stack)) \cap Permanents
    OBVIOUS
  <2>2. board' = board \cup cs /\ blocks' = blocks
    BY <1>8, <2>1 DEF resolve, enter, fightVars
  <2>3. IsFiniteSet(spellCard(Head(stack)))
    BY FS_Singleton, FS_EmptySet DEF spellCard
  <2>4. IsFiniteSet(cs)
    BY <2>1, <2>3, FS_Subset
  <2>5. QED
    BY <2>2, <2>4, FS_Union DEF BoardInv
<1>9. CASE UNCHANGED vars
  BY <1>1, <1>9 DEF vars, fightVars, permVars
<1>10. QED
  BY <1>2, <1>3, <1>4, <1>5, <1>6, <1>7, <1>8, <1>9
     DEF Next, StepWithoutPriority, choicephase

-----------------------------------------------------------------------------

(* A spell whose card is no land and not on the stack yet, or an ability,  *)
(* may be put on the stack.                                                *)
LEMMA StackPushed ==
  ASSUME NEW T, NEW s \in Seq(T), NEW o \in T, NEW t, t = <<o>> \o s
  PROVE  /\ SpellsOf(t) = SpellsOf(s) \cup spellCard(o)
         /\ \A B : /\ StackWell(s, B)
                   /\ o.kind = "spell" => o.card \notin Lands \cup SpellsOf(s)
                   /\ effectOf(o) \in {"destroy", "untap"} => o.tgt \in B
                   => StackWell(t, B)
<1>1. /\ DOMAIN t = 1 .. Len(s) + 1 /\ DOMAIN s = 1 .. Len(s)
      /\ Len(s) \in Nat /\ t[1] = o
      /\ \A i \in 2 .. Len(s) + 1 : t[i] = s[i - 1]
  OBVIOUS
<1>2. \A i \in DOMAIN t : i = 1 \/ (i - 1 \in DOMAIN s /\ t[i] = s[i - 1])
  BY <1>1
<1>3. \A i \in DOMAIN s : i + 1 \in DOMAIN t /\ t[i + 1] = s[i]
  BY <1>1
<1>4. 1 \in DOMAIN t
  BY <1>1
<1>5. SpellsOf(t) = SpellsOf(s) \cup spellCard(o)
  <2>1. ASSUME NEW x \in SpellsOf(t) PROVE x \in SpellsOf(s) \cup spellCard(o)
    <3>1. PICK i \in DOMAIN t : t[i].kind = "spell" /\ t[i].card = x
      BY DEF SpellsOf
    <3>2. QED
      BY <1>1, <1>2, <3>1 DEF SpellsOf, spellCard
  <2>2. ASSUME NEW x \in SpellsOf(s) PROVE x \in SpellsOf(t)
    <3>1. PICK i \in DOMAIN s : s[i].kind = "spell" /\ s[i].card = x
      BY DEF SpellsOf
    <3>2. QED
      BY <1>3, <3>1 DEF SpellsOf
  <2>3. ASSUME NEW x \in spellCard(o) PROVE x \in SpellsOf(t)
    BY <1>1, <1>4 DEF SpellsOf, spellCard
  <2>4. QED
    BY <2>1, <2>2, <2>3
<1>6. ASSUME NEW B, StackWell(s, B),
             o.kind = "spell" => o.card \notin Lands \cup SpellsOf(s),
             effectOf(o) \in {"destroy", "untap"} => o.tgt \in B
      PROVE  StackWell(t, B)
  <2>1. ASSUME NEW i \in DOMAIN t
        PROVE  /\ t[i].kind = "spell" => t[i].card \notin Lands
               /\ effectOf(t[i]) \in {"destroy", "untap"} => t[i].tgt \in B
    BY <1>1, <1>2, <1>6 DEF StackWell
  <2>2. ASSUME NEW i \in DOMAIN t, NEW j \in DOMAIN t, t[i].kind = "spell",
               t[j].kind = "spell", t[i].card = t[j].card
        PROVE  i = j
    <3>1. \A k \in DOMAIN s : s[k].kind = "spell" => s[k].card \in SpellsOf(s)
      BY DEF SpellsOf
    <3>2. CASE i = 1 \/ j = 1
      BY <1>1, <1>2, <1>6, <2>2, <3>1, <3>2
    <3>3. CASE i # 1 /\ j # 1
      <4>1. i - 1 = j - 1
        BY <1>2, <1>6, <2>2, <3>3 DEF StackWell
      <4>2. QED
        BY <1>1, <4>1
    <3>4. QED
      BY <3>2, <3>3
  <2>3. QED
    BY <2>1, <2>2 DEF StackWell
<1>7. QED
  BY <1>5, <1>6

(* The card of the spell on top of the stack is in no other place of it.   *)
LEMMA StackPopped ==
  ASSUME NEW T, NEW s \in Seq(T), s # <<>>, NEW o, o = Head(s),
         NEW t, t = Tail(s), NEW B, StackWell(s, B)
  PROVE  /\ StackWell(t, B)
         /\ SpellsOf(s) = SpellsOf(t) \cup spellCard(o)
         /\ SpellsOf(t) \cap spellCard(o) = {}
<1>1. /\ DOMAIN s = 1 .. Len(s) /\ Len(s) \in Nat \ {0} /\ s[1] = o
      /\ DOMAIN t = 1 .. Len(s) - 1
      /\ \A i \in DOMAIN t : t[i] = s[i + 1]
  OBVIOUS
<1>2. \A i \in DOMAIN t : i + 1 \in DOMAIN s /\ t[i] = s[i + 1]
  BY <1>1
<1>3. \A i \in DOMAIN s : i = 1 \/ (i - 1 \in DOMAIN t /\ t[i - 1] = s[i])
  BY <1>1
<1>4. 1 \in DOMAIN s
  BY <1>1
<1>5. StackWell(t, B)
  <2>1. ASSUME NEW i \in DOMAIN t, NEW j \in DOMAIN t, t[i].kind = "spell",
               t[j].kind = "spell", t[i].card = t[j].card
        PROVE  i = j
    <3>1. i + 1 = j + 1
      BY <1>2, <2>1 DEF StackWell
    <3>2. QED
      BY <1>1, <3>1
  <2>2. QED
    BY <1>2, <2>1 DEF StackWell
<1>6. SpellsOf(s) = SpellsOf(t) \cup spellCard(o)
  <2>1. ASSUME NEW x \in SpellsOf(s) PROVE x \in SpellsOf(t) \cup spellCard(o)
    <3>1. PICK i \in DOMAIN s : s[i].kind = "spell" /\ s[i].card = x
      BY DEF SpellsOf
    <3>2. QED
      BY <1>1, <1>3, <3>1, ZenonT(40) DEF SpellsOf, spellCard
  <2>2. ASSUME NEW x \in SpellsOf(t) PROVE x \in SpellsOf(s)
    <3>1. PICK i \in DOMAIN t : t[i].kind = "spell" /\ t[i].card = x
      BY DEF SpellsOf
    <3>2. QED
      BY <1>2, <3>1 DEF SpellsOf
  <2>3. ASSUME NEW x \in spellCard(o) PROVE x \in SpellsOf(s)
    BY <1>1, <1>4 DEF SpellsOf, spellCard
  <2>4. QED
    BY <2>1, <2>2, <2>3
<1>7. SpellsOf(t) \cap spellCard(o) = {}
  <2>1. SUFFICES ASSUME NEW i \in DOMAIN t, t[i].kind = "spell",
                        o.kind = "spell", t[i].card = o.card
                 PROVE  FALSE
    BY DEF SpellsOf, spellCard
  <2>2. i + 1 = 1
    BY <1>1, <1>2, <1>4, <2>1 DEF StackWell
  <2>3. QED
    BY <1>1, <2>2
<1>8. QED
  BY <1>5, <1>6, <1>7

(* A target that is on the board stays there.                              *)
LEMMA StackWellGrows ==
  ASSUME NEW s, NEW B, NEW C, B \subseteq C, StackWell(s, B)
  PROVE  StackWell(s, C)
BY DEF StackWell

(* What the stack holds.                                                   *)
StackObjects == [kind : {"spell", "ability"}, card : Cards, ctrl : Players,
                 tgt : Targets]

(* castSpell puts a card of the hand on the stack, with a target on the    *)
(* board.                                                                  *)
LEMMA CastSpellPushes ==
  ASSUME TypeOK, LoopInv, NEW c \in Cards, castSpell(c)
  PROVE  \E o \in StackObjects :
           /\ o.kind = "spell" /\ o.card = c
           /\ effectOf(o) \in {"destroy", "untap"} => o.tgt \in board
           /\ stack' = <<o>> \o stack
           /\ c \in hand[current] \ Lands
           /\ hand' = [hand EXCEPT ![current] = @ \ {c}] /\ UNCHANGED library
<1>1. current \in Players
  BY LoopTypes DEF LoopInv
<1>2. PICK t \in TargetsOf(EffectOf[c], current) : P!castSpell(c, t)
  BY DEF castSpell
<1>3. t \in Targets
  BY <1>1, TargetsAreTargets
<1>4. EffectOf[c] \in {"destroy", "untap"} => t \in board
  BY <1>2 DEF TargetsOf
<1> DEFINE o == [kind |-> "spell", card |-> c, ctrl |-> current, tgt |-> t]
<1>5. o \in StackObjects
  BY <1>1, <1>3 DEF StackObjects
<1>6. effectOf(o) = EffectOf[c]
  BY DEF effectOf
<1>7. QED
  BY <1>2, <1>4, <1>5, <1>6 DEF P!castSpell, P!used

(* activateAbility puts an ability on the stack, with a target on the      *)
(* board.                                                                  *)
LEMMA ActivatePushes ==
  ASSUME TypeOK, LoopInv, NEW c \in Cards, activateAbility(c)
  PROVE  \E o \in StackObjects :
           /\ o.kind = "ability"
           /\ effectOf(o) \in {"destroy", "untap"} => o.tgt \in board
           /\ stack' = <<o>> \o stack
<1>1. current \in Players
  BY LoopTypes DEF LoopInv
<1>2. PICK t \in TargetsOf(AbilityOf[c], current) : P!activateAbility(c, t)
  BY DEF activateAbility
<1>3. t \in Targets
  BY <1>1, TargetsAreTargets
<1>4. AbilityOf[c] \in {"destroy", "untap"} => t \in board
  BY <1>2 DEF TargetsOf
<1> DEFINE o == [kind |-> "ability", card |-> c, ctrl |-> current, tgt |-> t]
<1>5. o \in StackObjects
  BY <1>1, <1>3 DEF StackObjects
<1>6. effectOf(o) = AbilityOf[c]
  BY DEF effectOf
<1>7. QED
  BY <1>2, <1>4, <1>5, <1>6 DEF P!activateAbility

(* The stack is a sequence of objects.                                     *)
LEMMA StackTyped == LoopInv => stack \in Seq(StackObjects)
BY LoopTypes DEF LoopInv, StackObjects

(* Every step keeps StackInv.                                              *)
LEMMA StackNext == TypeOK /\ LoopInv /\ StackInv /\ PlacesInv /\ [Next]_vars => StackInv'
<1> SUFFICES ASSUME TypeOK, LoopInv, StackInv, PlacesInv, [Next]_vars
             PROVE  StackInv'
  OBVIOUS
<1>a. stack \in Seq(StackObjects)
  BY StackTyped
<1>b. ASSUME stack' = stack, board \subseteq board' PROVE StackInv'
  BY <1>b, StackWellGrows DEF StackInv
<1>1. CASE StepWithoutPriority
  BY <1>1, <1>b DEF StepWithoutPriority, untapstep, emptystep, drawstep,
       declareattackersstep, declareblockersstep, damagestep, nodamagestep,
       cleanupstep, P!untapstep, P!drawstep, P!damagestep, P!cardVars, cardVars,
       permVars
<1>2. CASE mainphasemainstep \/ givePriority \/ pass \/ choicephaseReturns
  BY <1>2, <1>b DEF mainphasemainstep, givePriority, pass, choicephaseReturns,
       P!mainphasemainstep, P!givePriority, P!skipPlayer, P!pass,
       P!choicephaseReturns, P!cardVars, permVars
<1>3. ASSUME NEW c \in Cards, playLand(c) PROVE StackInv'
  BY <1>3, <1>b DEF playLand, P!playLand, enter
<1>4. ASSUME NEW c \in Cards, castSpell(c) PROVE StackInv'
  <2>1. PICK o \in StackObjects :
           /\ o.kind = "spell" /\ o.card = c
           /\ effectOf(o) \in {"destroy", "untap"} => o.tgt \in board
           /\ stack' = <<o>> \o stack
           /\ c \in hand[current] \ Lands
    BY <1>4, CastSpellPushes
  <2>2. current \in Players
    BY LoopTypes DEF LoopInv
  <2>3. c \notin SpellsOf(stack)
    BY <2>1, <2>2 DEF PlacesInv, onStack, SpellsOf
  <2>4. board' = board
    BY <1>4 DEF castSpell, permVars
  <2>5. StackWell(stack', board)
    BY <1>a, <2>1, <2>3, StackPushed DEF StackInv
  <2>6. QED
    BY <2>4, <2>5 DEF StackInv
<1>5. ASSUME NEW c \in Cards, activateAbility(c) PROVE StackInv'
  <2>1. PICK o \in StackObjects :
           /\ o.kind = "ability"
           /\ effectOf(o) \in {"destroy", "untap"} => o.tgt \in board
           /\ stack' = <<o>> \o stack
    BY <1>5, ActivatePushes
  <2>2. board' = board
    BY <1>5 DEF activateAbility
  <2>3. StackWell(stack', board)
    BY <1>a, <2>1, StackPushed DEF StackInv
  <2>4. QED
    BY <2>2, <2>3 DEF StackInv
<1>6. CASE resolve
  <2>1. stack # <<>> /\ stack' = Tail(stack) /\ board \subseteq board'
    BY <1>6 DEF resolve, P!resolve, enter
  <2>2. StackWell(stack', board)
    BY <1>a, <2>1, StackPopped DEF StackInv
  <2>3. QED
    BY <2>1, <2>2, StackWellGrows DEF StackInv
<1>7. CASE UNCHANGED <<stack, board>>
  BY <1>7, <1>b
<1>8. QED
  BY <1>1, <1>2, <1>3, <1>4, <1>5, <1>6, <1>7
     DEF Next, choicephase, vars, cardVars, permVars, activateTapped

-----------------------------------------------------------------------------

(* PlacesInv, of any hands h, libraries l, spells s and cards r beyond.    *)
Placed(h, l, s, r) ==
  /\ \A p \in Players :
       /\ h[p] \subseteq Deck(p) /\ l[p] \subseteq Deck(p)
       /\ h[p] \cap l[p] = {} /\ (h[p] \cup l[p]) \cap (s \cup r) = {}
  /\ s \cap r = {}
  /\ \A c \in Cards : c \in h[Owner[c]] \cup l[Owner[c]] \cup s \cup r

(* The hands, libraries, spells and cards beyond are as Placed says.       *)
LEMMA PlacesArePlaced ==
  PlacesInv <=> Placed(hand, library, SpellsOf(stack), board \cup graveyard)
BY DEF PlacesInv, Placed, onStack, SpellsOf

(* Cards drawn go from a player's library to his hand.                     *)
LEMMA CardDrawn ==
  ASSUME NEW h \in [Players -> SUBSET Cards], NEW l \in [Players -> SUBSET Cards],
         NEW s, NEW r, Placed(h, l, s, r),
         NEW p \in Players, NEW d \in SUBSET l[p]
  PROVE  Placed([h EXCEPT ![p] = @ \cup d], [l EXCEPT ![p] = @ \ d], s, r)
<1> DEFINE hh == [h EXCEPT ![p] = @ \cup d]
           ll == [l EXCEPT ![p] = @ \ d]
<1>1. \A q \in Players : /\ hh[q] = IF q = p THEN h[p] \cup d ELSE h[q]
                         /\ ll[q] = IF q = p THEN l[p] \ d ELSE l[q]
  OBVIOUS
<1> HIDE DEF hh, ll
<1>2. ASSUME NEW q \in Players
      PROVE  /\ hh[q] \subseteq Deck(q) /\ ll[q] \subseteq Deck(q)
             /\ hh[q] \cap ll[q] = {} /\ (hh[q] \cup ll[q]) \cap (s \cup r) = {}
  BY <1>1 DEF Placed
<1>3. ASSUME NEW c \in Cards
      PROVE  c \in hh[Owner[c]] \cup ll[Owner[c]] \cup s \cup r
  <2>1. Owner[c] \in Players
    BY CardsAreTyped
  <2>2. QED
    BY <1>1, <2>1 DEF Placed
<1>4. Placed(hh, ll, s, r)
  BY <1>2, <1>3 DEF Placed
<1>5. QED
  BY <1>4 DEF hh, ll

(* A card used goes from a player's hand to the stack or beyond.           *)
LEMMA CardUsed ==
  ASSUME NEW h \in [Players -> SUBSET Cards], NEW l, NEW s, NEW r,
         Placed(h, l, s, r), NEW p \in Players, NEW c \in h[p]
  PROVE  /\ Placed([h EXCEPT ![p] = @ \ {c}], l, s \cup {c}, r)
         /\ Placed([h EXCEPT ![p] = @ \ {c}], l, s, r \cup {c})
<1> DEFINE hh == [h EXCEPT ![p] = @ \ {c}]
<1>1. \A q \in Players : hh[q] = IF q = p THEN h[p] \ {c} ELSE h[q]
  OBVIOUS
<1>2. c \in Cards /\ Owner[c] = p
  BY DEF Placed, Deck
<1> HIDE DEF hh
<1>3. ASSUME NEW q \in Players
      PROVE  /\ hh[q] \subseteq Deck(q) /\ l[q] \subseteq Deck(q)
             /\ hh[q] \cap l[q] = {}
             /\ (hh[q] \cup l[q]) \cap (s \cup r \cup {c}) = {}
  <2>1. q # p => c \notin Deck(q)
    BY <1>2 DEF Deck
  <2>2. QED
    BY <1>1, <2>1 DEF Placed
<1>4. ASSUME NEW x \in Cards
      PROVE  x \in hh[Owner[x]] \cup l[Owner[x]] \cup s \cup r \cup {c}
  <2>1. Owner[x] \in Players
    BY CardsAreTyped
  <2>2. QED
    BY <1>1, <1>2, <2>1 DEF Placed
<1>5. c \notin s \cup r
  BY DEF Placed
<1>6. Placed(hh, l, s \cup {c}, r) /\ Placed(hh, l, s, r \cup {c})
  BY <1>3, <1>4, <1>5 DEF Placed
<1>7. QED
  BY <1>6 DEF hh

(* A card that resolves goes from the stack to the cards beyond.           *)
LEMMA SpellResolved ==
  ASSUME NEW h, NEW l, NEW s, NEW r, NEW d, Placed(h, l, s, r),
         d \subseteq s
  PROVE  Placed(h, l, s \ d, r \cup d)
BY DEF Placed

(* Every step keeps PlacesInv: the cards destroyed are in play already and *)
(* stay on the board, and the card of a spell goes to one of both places.  *)
LEMMA PlacesNext ==
  TypeOK /\ LoopInv /\ StackInv /\ PlacesInv /\ [Next]_vars => PlacesInv'
<1> SUFFICES ASSUME TypeOK, LoopInv, StackInv, PlacesInv, [Next]_vars
             PROVE  PlacesInv'
  OBVIOUS
<1> DEFINE beyond == board \cup graveyard
<1>a. /\ hand \in [Players -> SUBSET Cards]
      /\ library \in [Players -> SUBSET Cards]
      /\ stack \in Seq(StackObjects) /\ current \in Players
  BY LoopTypes, StackTyped DEF LoopInv
<1>b. Placed(hand, library, SpellsOf(stack), beyond)
  BY PlacesArePlaced
<1>c. SUFFICES Placed(hand', library', SpellsOf(stack'), beyond')
  BY DEF PlacesInv, Placed, onStack, SpellsOf
<1> DEFINE Goal == Placed(hand', library', SpellsOf(stack'), beyond')
<1>d. ASSUME UNCHANGED <<hand, library, stack, board>>,
             NEW cs \in SUBSET board, graveyard' = graveyard \cup cs
      PROVE  Goal
  <2>1. beyond' = beyond
    BY <1>d
  <2>2. QED
    BY <1>b, <1>d, <2>1
<1>e. UNCHANGED <<hand, library, stack, board, graveyard>> => Goal
  BY <1>b
<1> HIDE DEF beyond, Goal
<1>1. CASE untapstep \/ emptystep \/ declareattackersstep
             \/ declareblockersstep \/ nodamagestep \/ cleanupstep
  BY <1>1, <1>e DEF untapstep, emptystep, declareattackersstep, nodamagestep,
       declareblockersstep, cleanupstep, P!untapstep, cardVars, yardVars,
       permVars, Goal
<1>2. CASE drawstep
  <2>1. UNCHANGED <<stack, board, graveyard>>
    BY <1>2 DEF drawstep, P!drawstep, permVars, yardVars
  <2>2. CASE UNCHANGED <<hand, library>>
    BY <1>e, <2>1, <2>2 DEF Goal
  <2>3. CASE \E c \in library[who] :
               /\ library' = [library EXCEPT ![who] = @ \ {c}]
               /\ hand' = [hand EXCEPT ![who] = @ \cup {c}]
    <3>1. PICK d \in SUBSET library[who] :
                 /\ library' = [library EXCEPT ![who] = @ \ d]
                 /\ hand' = [hand EXCEPT ![who] = @ \cup d]
      BY <2>3
    <3>2. who \in Players
      BY DEF TypeOK
    <3>3. QED
      BY <1>a, <1>b, <2>1, <3>1, <3>2, CardDrawn DEF beyond
  <2>4. QED
    BY <1>2, <2>2, <2>3 DEF drawstep, P!drawstep, Goal
<1>3. CASE damagestep
  <2>1. /\ UNCHANGED <<hand, library, stack, board>>
        /\ graveyard' = graveyard \cup dying' /\ dying' \subseteq board
    BY <1>3 DEF damagestep, P!damagestep, P!cardVars, permVars, putToZone, dying
  <2>2. QED
    BY <1>d, <2>1 DEF Goal
<1>4. CASE mainphasemainstep \/ pass \/ choicephaseReturns
  BY <1>4, <1>e DEF mainphasemainstep, pass, choicephaseReturns, Goal,
       P!mainphasemainstep, P!pass, P!choicephaseReturns, P!cardVars, permVars,
       yardVars
<1>5. CASE givePriority
  <2>1. /\ UNCHANGED <<hand, library, stack, board>>
        /\ graveyard' = graveyard \cup dying
    BY <1>5 DEF givePriority, P!givePriority, P!skipPlayer, P!cardVars,
                permVars, putToZone
  <2>2. QED
    BY <1>d, <2>1, DyingAreCreatures DEF Goal
<1>6. ASSUME NEW c \in Cards, playLand(c) PROVE Goal
  <2>1. /\ c \in hand[current] /\ hand' = [hand EXCEPT ![current] = @ \ {c}]
        /\ UNCHANGED <<library, stack>> /\ beyond' = beyond \cup {c}
    BY <1>6 DEF playLand, P!playLand, P!used, enter, yardVars, beyond
  <2>2. QED
    BY <1>a, <1>b, <2>1, CardUsed DEF Goal
<1>7. ASSUME NEW c \in Cards, castSpell(c) PROVE Goal
  <2>1. PICK o \in StackObjects :
           /\ o.kind = "spell" /\ o.card = c
           /\ stack' = <<o>> \o stack
           /\ c \in hand[current] \ Lands
           /\ hand' = [hand EXCEPT ![current] = @ \ {c}] /\ UNCHANGED library
    BY <1>7, CastSpellPushes
  <2>2. SpellsOf(stack') = SpellsOf(stack) \cup {c}
    BY <1>a, <2>1, StackPushed DEF spellCard
  <2>3. beyond' = beyond
    BY <1>7 DEF castSpell, permVars, yardVars, beyond
  <2>4. Placed(hand', library, SpellsOf(stack) \cup {c}, beyond)
    BY <1>a, <1>b, <2>1, CardUsed
  <2>5. QED
    BY <2>1, <2>2, <2>3, <2>4 DEF Goal
<1>8. ASSUME NEW c \in Cards, activateAbility(c) PROVE Goal
  <2>1. PICK o \in StackObjects : o.kind = "ability" /\ stack' = <<o>> \o stack
    BY <1>8, ActivatePushes
  <2>2. SpellsOf(stack') = SpellsOf(stack)
    BY <1>a, <2>1, StackPushed DEF spellCard
  <2>3. UNCHANGED <<hand, library>> /\ beyond' = beyond
    BY <1>8 DEF activateAbility, P!activateAbility, P!used, yardVars, beyond
  <2>4. QED
    BY <1>b, <2>2, <2>3 DEF Goal
<1>9. CASE resolve
  <2>1. PICK o : o = Head(stack)
    OBVIOUS
  <2>2. /\ stack # <<>> /\ stack' = Tail(stack)
        /\ activate(effectOf(o), o.ctrl, o.tgt)
        /\ putToZone(buried(o))
        /\ enter(spellCard(o) \cap Permanents, affected(o, "untap"))
    BY <1>9, <2>1 DEF resolve, P!resolve
  <2>3. /\ o \in StackObjects
        /\ effectOf(o) \in {"destroy", "untap"} => o.tgt \in board
    BY <2>1, <2>2, TopOfStack DEF StackObjects
  <2>4. /\ SpellsOf(stack) = SpellsOf(stack') \cup spellCard(o)
        /\ SpellsOf(stack') \cap spellCard(o) = {}
    BY <1>a, <2>1, <2>2, StackPopped DEF StackInv
  <2>5. beyond' = beyond \cup spellCard(o)
    <3>1. affected(o, "destroy") \subseteq board
      BY <2>3 DEF affected
    <3>2. /\ board' = board \cup (spellCard(o) \cap Permanents)
          /\ graveyard' = graveyard \cup affected(o, "destroy")
                            \cup (spellCard(o) \ Permanents)
      BY <2>2 DEF enter, putToZone, buried
    <3>3. QED
      BY <3>1, <3>2 DEF beyond
  <2>6. SpellsOf(stack') = SpellsOf(stack) \ spellCard(o)
    BY <2>4
  <2>7. Placed(hand', library', SpellsOf(stack), beyond)
    <3>1. CASE UNCHANGED <<hand, library>>
      BY <1>b, <3>1
    <3>2. CASE \E d \in SUBSET library[o.ctrl] :
                 /\ library' = [library EXCEPT ![o.ctrl] = @ \ d]
                 /\ hand' = [hand EXCEPT ![o.ctrl] = @ \cup d]
      <4>1. PICK p \in Players : p = o.ctrl
        BY <2>3 DEF StackObjects
      <4>2. PICK d \in SUBSET library[p] :
                 /\ library' = [library EXCEPT ![p] = @ \ d]
                 /\ hand' = [hand EXCEPT ![p] = @ \cup d]
        BY <3>2, <4>1
      <4>3. QED
        BY <1>a, <1>b, <4>2, CardDrawn
    <3>3. QED
      BY <2>2, <3>1, <3>2 DEF activate, draw, kSubset
  <2>8. spellCard(o) \subseteq SpellsOf(stack)
    BY <2>4
  <2>9. Placed(hand', library', SpellsOf(stack) \ spellCard(o),
               beyond \cup spellCard(o))
    BY <2>7, <2>8, SpellResolved
  <2>10. QED
    BY <2>5, <2>6, <2>9 DEF Goal
<1>10. CASE UNCHANGED <<hand, library, stack, board, graveyard>>
  BY <1>e, <1>10 DEF Goal
<1>11. QED
  BY <1>1, <1>2, <1>3, <1>4, <1>5, <1>6, <1>7, <1>8, <1>9, <1>10
     DEF Next, StepWithoutPriority, choicephase, vars, cardVars, permVars,
         yardVars, activateTapped, Goal, beyond

-----------------------------------------------------------------------------

(* The lands player p has in play.                                         *)
LandsOf(p) == {c \in Lands \cap board : Owner[c] = p}

(* A player has finitely many lands, and what is counted are numbers.      *)
LEMMA LandFacts ==
  ASSUME TypeOK, LoopInv, BoardInv, NEW p \in Players
  PROVE  /\ Cardinality(LandsOf(p)) \in Nat /\ landsLeft[p] \in {0, 1}
         /\ turns[p] \in Nat
<1>1. IsFiniteSet(LandsOf(p))
  <2>1. LandsOf(p) \subseteq board
    BY DEF LandsOf
  <2>2. QED
    BY <2>1, FS_Subset DEF BoardInv
<1>2. QED
  BY <1>1, FS_CardinalityType, LoopTypes DEF LoopInv, TypeOK

(* Every step keeps LandInv: the untap step gives back the land drop that  *)
(* the turn has been counted for, and a land played uses one up.           *)
LEMMA LandNext ==
  TypeOK /\ LoopInv /\ BoardInv /\ StackInv /\ PlacesInv /\ LandInv /\ [Next]_vars
    => LandInv'
<1> SUFFICES ASSUME TypeOK, LoopInv, BoardInv, StackInv, PlacesInv, LandInv,
                    [Next]_vars, NEW p \in Players
             PROVE  Cardinality(LandsOf(p)') + landsLeft'[p]
                      <= turns'[p] + (IF p = who' /\ step' = 1 THEN 0 ELSE 1)
  BY DEF LandInv, LandsOf
<1> DEFINE Goal == Cardinality(LandsOf(p)') + landsLeft'[p]
                     <= turns'[p] + (IF p = who' /\ step' = 1 THEN 0 ELSE 1)
<1> DEFINE n == Cardinality(LandsOf(p))
<1>a. /\ n \in Nat /\ landsLeft[p] \in {0, 1} /\ turns[p] \in Nat
      /\ n + landsLeft[p] <= turns[p] + (IF p = who /\ step = 1 THEN 0 ELSE 1)
  BY LandFacts DEF LandInv, LandsOf
<1>b. who \in Players /\ step \in 1 .. 10 /\ turns \in [Players -> Nat]
  BY OrderOfSteps DEF TypeOK
<1>c. landsLeft \in [Players -> {0, 1}] /\ current \in Players
  BY LoopTypes DEF LoopInv
<1>d. ASSUME board' = board PROVE Cardinality(LandsOf(p)') = n
  <2>1. LandsOf(p)' = LandsOf(p)
    BY <1>d DEF LandsOf
  <2>2. QED
    BY <2>1
<1> HIDE DEF n
<1>e. ASSUME stepEnds, board' = board, landsLeft' = landsLeft PROVE Goal
  <2>1. CASE UNCHANGED turnVars
    BY <1>a, <1>d, <1>e, <2>1 DEF turnVars
  <2>2. CASE step' = step + 1 /\ UNCHANGED <<who, turns>>
    BY <1>a, <1>b, <1>d, <1>e, <2>2
  <2>3. CASE /\ step' = 1 /\ who' = Successor(who) /\ step = 10
             /\ turns' = [turns EXCEPT ![who'] = @ + 1]
    <3>1. turns'[p] = IF p = who' THEN turns[p] + 1 ELSE turns[p]
      BY <1>b, <2>3
    <3>2. QED
      BY <1>a, <1>d, <1>e, <2>3, <3>1
  <2>4. QED
    BY <1>b, <1>e, <2>1, <2>2, <2>3, OrderOfSteps DEF stepEnds
<1>f. ASSUME UNCHANGED <<board, landsLeft, turnVars>> PROVE Goal
  BY <1>a, <1>d, <1>f DEF turnVars
<1> HIDE DEF Goal
<1>1. CASE untapstep
  <2>1. /\ pc = "idle" /\ step = 1 /\ haswon' = haswon /\ board' = board
        /\ landsLeft' = [landsLeft EXCEPT ![who] = 1] /\ stepEnds
    BY <1>1, <1>b, OrderOfSteps DEF untapstep, P!untapstep, running
  <2>2. step' = 2 /\ UNCHANGED <<who, turns>>
    <3>1. ~haswon'
      BY <2>1 DEF LoopInv, PP!OverIffWon
    <3>2. QED
      BY <2>1, <3>1, OrderOfSteps DEF stepEnds
  <2>3. landsLeft'[p] = IF p = who THEN 1 ELSE landsLeft[p]
    BY <1>c, <2>1
  <2>4. QED
    BY <1>a, <1>d, <2>1, <2>2, <2>3 DEF Goal
<1>2. CASE emptystep \/ drawstep \/ declareattackersstep
            \/ declareblockersstep \/ nodamagestep \/ cleanupstep
  BY <1>2, <1>e DEF emptystep, drawstep, P!drawstep, declareattackersstep,
       declareblockersstep, nodamagestep, cleanupstep, cardVars, permVars, Goal
<1>3. CASE damagestep \/ choicephaseReturns
  BY <1>3, <1>e DEF damagestep, P!damagestep, choicephaseReturns,
       P!choicephaseReturns, P!cardVars, permVars, Goal
<1>4. CASE mainphasemainstep \/ givePriority \/ pass
  BY <1>4, <1>f DEF mainphasemainstep, P!mainphasemainstep, givePriority,
       P!givePriority, P!skipPlayer, pass, P!pass, P!cardVars, permVars, Goal
<1>5. ASSUME NEW c \in Cards, playLand(c) PROVE Goal
  <2>1. /\ pc = "choose" /\ c \in hand[current] \cap Lands
        /\ landsLeft[current] # 0
        /\ landsLeft' = [landsLeft EXCEPT ![current] = @ - 1]
        /\ board' = board \cup {c} /\ UNCHANGED turnVars
    BY <1>5 DEF playLand, P!playLand, P!isCastable, P!canPlayLand, enter
  <2>2. Owner[c] = current
    BY <1>c, <2>1 DEF PlacesInv, Deck
  <2>3. step # 1
    BY <2>1, OrderOfSteps DEF LoopInv
  <2>4. CASE p = current
    <3>1. LandsOf(p)' = LandsOf(p) \cup {c}
      BY <2>1, <2>2, <2>4 DEF LandsOf
    <3>2. IsFiniteSet(LandsOf(p)) /\ Cardinality(LandsOf(p)) = n
      <4>1. LandsOf(p) \subseteq board
        BY DEF LandsOf
      <4>2. QED
        BY <4>1, FS_Subset DEF BoardInv, n
    <3>3. Cardinality(LandsOf(p) \cup {c}) <= n + 1
      <4>1. PICK S : S = LandsOf(p)
        OBVIOUS
      <4>2. Cardinality(S \cup {c}) = IF c \in S THEN Cardinality(S)
                                               ELSE Cardinality(S) + 1
        BY <3>2, <4>1, FS_AddElement
      <4>3. Cardinality(S) = n
        BY <3>2, <4>1
      <4>4. Cardinality(S \cup {c}) <= n + 1
        BY <1>a, <4>2, <4>3
      <4>5. QED
        BY <4>1, <4>4
    <3>4. Cardinality(LandsOf(p) \cup {c}) \in Nat
      BY <3>2, FS_AddElement, FS_CardinalityType
    <3>5. landsLeft'[p] = landsLeft[p] - 1
      BY <1>c, <2>1, <2>4
    <3>6. PICK m \in Nat : m = Cardinality(LandsOf(p)')
      BY <3>1, <3>4
    <3>7. m <= n + 1
      BY <3>1, <3>3, <3>6
    <3>8. QED
      BY <1>a, <2>1, <2>3, <2>4, <3>5, <3>6, <3>7 DEF Goal, turnVars
  <2>5. CASE p # current
    <3>1. LandsOf(p)' = LandsOf(p)
      BY <2>1, <2>2, <2>5 DEF LandsOf
    <3>2. landsLeft'[p] = landsLeft[p]
      BY <1>c, <2>1, <2>5
    <3>3. QED
      BY <1>a, <2>1, <3>1, <3>2 DEF Goal, turnVars, n
  <2>6. QED
    BY <2>4, <2>5
<1>6. ASSUME NEW c \in Cards,
             castSpell(c) \/ activateAbility(c) \/ activateTapped(c)
      PROVE  Goal
  BY <1>6, <1>f DEF castSpell, P!castSpell, activateAbility, P!activateAbility,
       activateTapped, cardVars, permVars, Goal
<1>7. CASE resolve
  <2>1. PICK o : o = Head(stack)
    OBVIOUS
  <2>2. /\ stack # <<>> /\ UNCHANGED <<turnVars, landsLeft>>
        /\ enter(spellCard(o) \cap Permanents, affected(o, "untap"))
    BY <1>7, <2>1 DEF resolve, P!resolve
  <2>3. o.kind = "spell" => o.card \notin Lands
    BY <2>1, <2>2, TopOfStack
  <2>4. LandsOf(p)' = LandsOf(p)
    BY <2>2, <2>3 DEF LandsOf, enter, spellCard
  <2>5. QED
    BY <1>a, <2>2, <2>4 DEF Goal, turnVars, n
<1>8. CASE UNCHANGED vars
  BY <1>8, <1>f DEF vars, cardVars, permVars, Goal
<1>9. QED
  BY <1>1, <1>2, <1>3, <1>4, <1>5, <1>6, <1>7, <1>8
     DEF Next, StepWithoutPriority, choicephase, Goal

-----------------------------------------------------------------------------

(* While the game is not won the next step follows, or the next turn.      *)
LEMMA NextStep ==
  ASSUME TypeOK, stepEnds, ~haswon'
  PROVE  \/ step < 10 /\ step' = step + 1 /\ who' = who
         \/ step = 10 /\ step' = 1
BY OrderOfSteps DEF TypeOK, stepEnds

(* Every step keeps CombatEnds: the attackers of the fifth step are gone   *)
(* after the seventh.                                                      *)
LEMMA CombatNext ==
  TypeOK /\ LoopInv /\ CombatEnds /\ [Next]_vars => CombatEnds'
<1> SUFFICES ASSUME TypeOK, LoopInv, CombatEnds, [Next]_vars PROVE CombatEnds'
  OBVIOUS
<1>a. step \in 1 .. 10 /\ attackers \subseteq Creatures
  BY OrderOfSteps DEF TypeOK
<1>b. pc = "idle" => ~haswon
  BY DEF LoopInv, PP!OverIffWon
<1>c. CombatEnds' <=>
        /\ attackers' # {} => StepOrder[step'] \in {"blockers", "damage"}
        /\ \A a \in attackers' : Owner[a] = who'
        /\ \A a \in Creatures : blocks'[a] # {} =>
             /\ a \in attackers' \cap is_block' /\ StepOrder[step'] = "damage"
             /\ \A b \in blocks'[a] : Owner[b] = nextopponent[who']
  BY DEF CombatEnds, nextopponent, P!nextopponent
<1>d. ASSUME attackers' = {}, blocks' = [c \in Creatures |-> {}]
      PROVE  CombatEnds'
  BY <1>c, <1>d
<1>e. ASSUME attackers = {} PROVE \A a \in Creatures : blocks[a] = {}
  BY <1>e DEF CombatEnds
<1>f. ASSUME UNCHANGED <<attackers, blocks>>, attackers = {} PROVE CombatEnds'
  BY <1>c, <1>e, <1>f
<1>g. ASSUME StepOrder[step] \notin {"blockers", "damage"} PROVE attackers = {}
  BY <1>g DEF CombatEnds
<1>h. ASSUME UNCHANGED <<turnVars, fightVars>> PROVE CombatEnds'
  BY <1>c, <1>h DEF CombatEnds, turnVars, fightVars
<1>1. CASE untapstep \/ emptystep \/ drawstep \/ cleanupstep
  <2>1. /\ StepOrder[step] \notin {"blockers", "damage"}
        /\ UNCHANGED <<attackers, blocks>>
    BY <1>1 DEF untapstep, emptystep, drawstep, cleanupstep, running, fightVars
  <2>2. QED
    BY <1>f, <1>g, <2>1
<1>2. CASE declareattackersstep
  <2>1. /\ pc = "idle" /\ StepOrder[step] = "attackers" /\ haswon' = haswon
        /\ \A a \in attackers' : Owner[a] = who
        /\ stepEnds /\ blocks' = blocks
    BY <1>2 DEF declareattackersstep, running
  <2>2. step = 5
    BY <1>a, <2>1, OrderOfSteps
  <2>3. step' = 6 /\ who' = who
    BY <1>b, <2>1, <2>2, NextStep
  <2>4. \A a \in Creatures : blocks[a] = {}
    BY <1>e, <1>g, <2>1
  <2>5. QED
    BY <1>c, <2>1, <2>3, <2>4, OrderOfSteps
<1>3. CASE declareblockersstep
  <2>1. /\ pc = "idle" /\ StepOrder[step] = "blockers" /\ haswon' = haswon
        /\ stepEnds /\ attackers' = attackers
    BY <1>3 DEF declareblockersstep, running
  <2>2. step = 6
    BY <1>a, <2>1, OrderOfSteps
  <2>3. step' = 7 /\ who' = who
    BY <1>b, <2>1, <2>2, NextStep
  <2>4. \A a \in Creatures : blocks[a] = {}
    BY <2>1 DEF CombatEnds
  <2>5. blocks \in [Creatures -> SUBSET Creatures]
    BY DEF TypeOK
  <2>6. \A a \in Creatures : blocks'[a] # {} =>
           /\ a \in attackers' \cap is_block'
           /\ \A b \in blocks'[a] : Owner[b] = nextopponent[who]
    <3>1. CASE UNCHANGED <<blocks, is_block>>
      BY <2>4, <3>1
    <3>2. CASE \E a \in attackers :
                 addBlocker(a, {c \in Creatures \cap board :
                                  Owner[c] = nextopponent[who]})
      BY <1>a, <2>1, <2>4, <2>5, <3>2 DEF addBlocker
    <3>3. QED
      BY <1>3, <3>1, <3>2 DEF declareblockersstep
  <2>7. \A a \in attackers' : Owner[a] = who'
    BY <2>1, <2>3 DEF CombatEnds
  <2>8. QED
    BY <1>c, <2>3, <2>6, <2>7, OrderOfSteps
<1>4. CASE damagestep
  BY <1>4, <1>d DEF damagestep, restate
<1>5. CASE nodamagestep
  BY <1>5, <1>f DEF nodamagestep, fightVars
<1>6. CASE mainphasemainstep \/ givePriority \/ pass \/ resolve
  BY <1>6, <1>h DEF mainphasemainstep, givePriority, pass, resolve
<1>7. ASSUME NEW c \in Cards, playLand(c) \/ castSpell(c)
                                \/ activateAbility(c) \/ activateTapped(c)
      PROVE  CombatEnds'
  BY <1>7, <1>h DEF playLand, castSpell, activateAbility, activateTapped
<1>8. CASE choicephaseReturns
  <2>1. pc = "resolve" /\ UNCHANGED fightVars
    BY <1>8 DEF choicephaseReturns, P!choicephaseReturns
  <2>2. StepOrder[step] = "main"
    BY <2>1 DEF LoopInv
  <2>3. QED
    BY <1>f, <1>g, <2>1, <2>2 DEF fightVars
<1>9. CASE UNCHANGED vars
  BY <1>9, <1>h DEF vars
<1>10. QED
  BY <1>1, <1>2, <1>3, <1>4, <1>5, <1>6, <1>7, <1>8, <1>9
     DEF Next, StepWithoutPriority, choicephase

-----------------------------------------------------------------------------

(* Every step keeps DeathInv: whoever is asked for an option has been      *)
(* preceded by the state-based actions, and choicephase returns to a game  *)
(* that goes on only if they found nobody dead.                            *)
LEMMA DeathNext ==
  TypeOK /\ LoopInv /\ PlacesInv /\ DeathInv /\ [Next]_vars => DeathInv'
<1> SUFFICES ASSUME TypeOK, LoopInv, PlacesInv, DeathInv, [Next]_vars
             PROVE  DeathInv'
  OBVIOUS
<1> DEFINE Buried == \A c \in Creatures \cap board :
                       Owner[c] \notin lost /\ wounds[c] >= Toughness[c]
                         => c \in graveyard
<1>a. step \in 1 .. 10
  BY OrderOfSteps DEF TypeOK
<1>b. pc = "idle" => ~haswon
  BY DEF LoopInv, PP!OverIffWon
<1>c. DeathInv <=> /\ DecksSuffice => /\ pc = "choose" => Buried
                                      /\ pc = "idle" /\ StepOrder[step] \notin {"draw", "main"}
                                           => lost = {}
                   /\ pc \in {"choose", "resolve"} /\ lost # {} => haswon
  BY DEF DeathInv, DeathsNoticedInTime
<1>d. DeathInv' <=>
        /\ DecksSuffice => /\ pc' = "choose" => Buried'
                           /\ pc' = "idle" /\ StepOrder[step'] \notin {"draw", "main"}
                                => lost' = {}
        /\ pc' \in {"choose", "resolve"} /\ lost' # {} => haswon'
  BY DEF DeathInv, DeathsNoticedInTime, DecksSuffice
<1>e. UNCHANGED <<life, milledout>> => lost' = lost
  BY DEF lost
<1>f. ASSUME pc = "idle", pc' = "idle", UNCHANGED <<haswon, life, milledout>>,
             stepEnds, StepOrder[step] \notin {"draw", "main"}
      PROVE  DeathInv'
  BY <1>c, <1>d, <1>e, <1>f
<1>1. CASE untapstep \/ emptystep \/ declareattackersstep
            \/ declareblockersstep \/ nodamagestep \/ cleanupstep
  BY <1>1, <1>f DEF untapstep, P!untapstep, emptystep, declareattackersstep,
       declareblockersstep, nodamagestep, cleanupstep, running, loopVars
<1>2. CASE drawstep
  <2>1. /\ pc = "idle" /\ pc' = "idle" /\ haswon' = haswon /\ stepEnds
        /\ StepOrder[step] = "draw"
    BY <1>2 DEF drawstep, P!drawstep, running
  <2>2. step' = 4
    BY <1>a, <1>b, <2>1, NextStep, OrderOfSteps
  <2>3. QED
    BY <1>d, <2>1, <2>2, OrderOfSteps
<1>3. CASE damagestep
  <2>1. /\ haswon' = (haswon \/ lost' # {})
        /\ pc' = IF haswon' THEN "over" ELSE "idle"
    BY <1>3 DEF damagestep, P!damagestep
  <2>2. QED
    BY <1>d, <2>1
<1>4. CASE mainphasemainstep
  <2>1. pc' = "offer"
    BY <1>4 DEF mainphasemainstep, P!mainphasemainstep
  <2>2. QED
    BY <1>d, <2>1
<1>5. CASE givePriority
  <2>1. /\ haswon' = (haswon \/ lost # {}) /\ lost' = lost
        /\ pc' \in {"choose", "offer", "resolve"} /\ UNCHANGED <<board, wounds>>
        /\ graveyard' = graveyard \cup dying
    BY <1>5, <1>e DEF givePriority, P!givePriority, P!skipPlayer, P!returns,
         P!stateBasedActions, putToZone, permVars
  <2>2. Buried'
    BY <2>1 DEF dying
  <2>3. QED
    BY <1>d, <2>1, <2>2
<1>6. ASSUME NEW c \in Cards, playLand(c) PROVE DeathInv'
  <2>1. /\ pc = "choose" /\ c \in hand[current] \cap Lands
        /\ pc' = pc /\ haswon' = haswon /\ lost' = lost
        /\ board' = board \cup {c} /\ UNCHANGED <<wounds, graveyard>>
    BY <1>6, <1>e DEF playLand, P!playLand, P!used, enter, yardVars
  <2>2. c \notin Creatures
    BY <2>1, CardsAreTyped
  <2>3. Buried => Buried'
    BY <2>1, <2>2
  <2>4. QED
    BY <1>c, <1>d, <2>1, <2>3
<1>7. ASSUME NEW c \in Cards,
             castSpell(c) \/ activateAbility(c) \/ activateTapped(c)
      PROVE  DeathInv'
  <2>1. /\ pc = "choose" /\ lost' = lost
        /\ UNCHANGED <<pc, haswon, board, wounds, graveyard>>
    BY <1>7, <1>e DEF castSpell, P!castSpell, activateAbility,
         P!activateAbility, P!used, activateTapped, loopVars, permVars, yardVars
  <2>2. Buried => Buried'
    BY <2>1
  <2>3. QED
    BY <1>c, <1>d, <2>1, <2>2
<1>8. CASE pass
  <2>1. /\ pc = "choose" /\ pc' \in {"resolve", "offer"} /\ haswon' = haswon
        /\ lost' = lost
    BY <1>8, <1>e DEF pass, P!pass, P!returns
  <2>2. QED
    BY <1>c, <1>d, <2>1
<1>9. CASE resolve
  <2>1. pc' = "offer"
    BY <1>9 DEF resolve, P!resolve
  <2>2. QED
    BY <1>d, <2>1
<1>10. CASE choicephaseReturns
  <2>1. /\ pc = "resolve" /\ haswon' = haswon /\ lost' = lost
        /\ pc' = IF haswon THEN "over" ELSE "idle"
    BY <1>10, <1>e DEF choicephaseReturns, P!choicephaseReturns
  <2>2. QED
    BY <1>c, <1>d, <2>1
<1>11. CASE UNCHANGED vars
  <2>1. /\ UNCHANGED <<pc, haswon, board, wounds, graveyard, step>>
        /\ lost' = lost
    BY <1>11, <1>e DEF vars, loopVars, permVars, yardVars, turnVars
  <2>2. Buried => Buried'
    BY <2>1
  <2>3. QED
    BY <1>c, <1>d, <2>1, <2>2
<1>12. QED
  BY <1>1, <1>2, <1>3, <1>4, <1>5, <1>6, <1>7, <1>8, <1>9, <1>10, <1>11
     DEF Next, StepWithoutPriority, choicephase

-----------------------------------------------------------------------------

(* The loop's invariant holds when the game begins.                        *)
LEMMA InitLoop == Init => LoopInv
<1> SUFFICES ASSUME Init PROVE LoopInv
  OBVIOUS
<1>1. 1 \in Players /\ N \in Nat \ {0, 1}
  BY CardsAreTyped DEF Players
<1>2. PICK drawn \in SUBSET Cards :
        /\ hand = [p \in Players |-> drawn \cap Deck(p)]
        /\ library = [p \in Players |-> Deck(p) \ drawn]
  BY DEF Init
<1>3. \A p \in Players : Deck(p) \subseteq Cards
  BY DEF Deck
<1>4. /\ hand \in [Players -> SUBSET Cards]
      /\ library \in [Players -> SUBSET Cards]
  BY <1>2, <1>3
<1>5. /\ landsLeft \in [Players -> {0, 1}] /\ stack = <<>>
      /\ pc = "idle" /\ active = 1 /\ current = 1 /\ first = TRUE
      /\ lastActive = 0 /\ sorceryspeed = FALSE /\ hasCastAnything = FALSE
      /\ haswon = FALSE
  BY DEF Init, P!Nobody
<1>6. lost \in SUBSET Players
  BY DEF lost, Init
<1>7. PP!TypeOK
  <2>1. first \in BOOLEAN /\ sorceryspeed \in BOOLEAN
        /\ hasCastAnything \in BOOLEAN /\ haswon \in BOOLEAN
    BY <1>5
  <2>2. stack \in Seq(PP!Objects)
    BY <1>5
  <2>3. PP!Players = Players /\ PP!Cards = Cards /\ PP!Nobody = 0
    BY DEF PP!Players, PP!Cards, PP!Nobody, Players, Cards
  <2>4. /\ pc \in {"idle", "offer", "choose", "resolve", "over"}
        /\ active \in Players /\ current \in Players
        /\ lastActive \in Players \cup {0}
    BY <1>1, <1>5
  <2>5. QED
    BY <1>4, <1>5, <1>6, <2>1, <2>2, <2>3, <2>4 DEF PP!TypeOK
<1>8. PP!LapInv /\ PP!StackEmptyBetweenPhases
  BY <1>5 DEF PP!LapInv, PP!StackEmptyBetweenPhases, PP!Nobody
<1>9. QED
  BY <1>5, <1>7, <1>8 DEF LoopInv, PP!IInv, PP!OverIffWon

(* IInv holds when the game begins.                                        *)
LEMMA InitIInv == Init => IInv
<1> SUFFICES ASSUME Init PROVE IInv
  OBVIOUS
<1>1. 1 \in Players /\ N \in Nat \ {0, 1}
  BY CardsAreTyped DEF Players
<1>2. PICK drawn \in SUBSET Cards :
        /\ hand = [p \in Players |-> drawn \cap Deck(p)]
        /\ library = [p \in Players |-> Deck(p) \ drawn]
  BY DEF Init
<1>3. /\ stack = <<>> /\ board = {} /\ graveyard = {} /\ attackers = {}
      /\ blocks = [c \in Creatures |-> {}] /\ pc = "idle" /\ who = 1 /\ step = 1
      /\ turns = [p \in Players |-> IF p = 1 THEN 1 ELSE 0]
      /\ landsLeft = [p \in Players |-> 1]
  BY DEF Init
<1>4. TypeOK
  <2>1. who \in Players /\ step \in 1 .. Len(StepOrder)
        /\ turns \in [Players -> Nat]
    BY <1>1, <1>3, OrderOfSteps
  <2>2. /\ life \in [Players -> Int] /\ pool \in [Players -> Nat]
        /\ wounds \in [Creatures -> Nat]
    BY CardsAreTyped DEF Init
  <2>3. milledout \in SUBSET Players
    BY DEF Init
  <2>4. QED
    BY <1>3, <2>1, <2>2, <2>3 DEF Init, TypeOK
<1>5. BoardInv
  BY <1>3, FS_EmptySet DEF BoardInv
<1>6. StackInv
  BY <1>3 DEF StackInv, StackWell
<1>7. PlacesInv
  <2>1. ASSUME NEW c \in Cards PROVE c \in hand[Owner[c]] \cup library[Owner[c]]
    <3>1. Owner[c] \in Players
      BY CardsAreTyped
    <3>2. QED
      BY <1>2, <3>1 DEF Deck
  <2>2. onStack = {}
    BY <1>3 DEF onStack
  <2>3. QED
    BY <1>2, <1>3, <2>1, <2>2 DEF PlacesInv
<1>8. LandInv
  <2>1. \A p \in Players : {c \in Lands \cap board : Owner[c] = p} = {}
    BY <1>3
  <2>2. QED
    BY <1>3, <2>1, FS_EmptySet DEF LandInv
<1>9. CombatEnds
  BY <1>3 DEF CombatEnds
<1>10. DeathInv
  <2>1. DecksSuffice => lost = {}
    BY CardsAreTyped DEF Init, lost, DecksSuffice
  <2>2. QED
    BY <1>3, <2>1 DEF DeathInv, DeathsNoticedInTime
<1>11. QED
  BY <1>4, <1>5, <1>6, <1>7, <1>8, <1>9, <1>10, InitLoop DEF IInv

(* Every step keeps IInv.                                                  *)
LEMMA NextIInv == IInv /\ [Next]_vars => IInv'
BY LoopNext, TypeNext, BoardNext, StackNext, PlacesNext, LandNext, CombatNext,
   DeathNext DEF IInv

(* phases.cpp, takeopts.cpp, combat.cpp: IInv holds throughout a game of   *)
(* any number of players, with any cards.                                  *)
THEOREM GameInvariant == Spec => []IInv
BY InitIInv, NextIInv, PTL DEF Spec

(* The state of a game is typed: no pool falls below zero, what is         *)
(* untapped or attacks is on the board, what is twice in the graveyards is *)
(* in them.                                                                *)
THEOREM TypeCorrect == Spec => []TypeOK
<1>1. IInv => TypeOK
  BY DEF IInv
<1>2. QED
  BY <1>1, GameInvariant, PTL

(* 5resolvables.h:43: no card of a deck is lost, and none is in two of the *)
(* hand, the library, the stack and what comes after, for any decks.       *)
THEOREM CardsStay == Spec => []CardsConserved
<1>1. ASSUME PlacesInv PROVE CardsConserved
  <2>1. SUFFICES ASSUME NEW p \in Players, NEW c \in Deck(p)
                 PROVE  LET places == {hand[p], library[p], onStack,
                                       board \cup graveyard}
                        IN /\ \E z \in places : c \in z
                           /\ \A y, z \in places : c \in y \cap z => y = z
    BY DEF CardsConserved
  <2>2. c \in Cards /\ Owner[c] = p
    BY DEF Deck
  <2>3. c \in hand[p] \cup library[p] \cup onStack \cup board \cup graveyard
    BY <1>1, <2>2 DEF PlacesInv
  <2>4. /\ hand[p] \cap library[p] = {}
        /\ (hand[p] \cup library[p]) \cap (onStack \cup board \cup graveyard) = {}
        /\ onStack \cap (board \cup graveyard) = {}
    BY <1>1 DEF PlacesInv
  <2>5. QED
    BY <2>3, <2>4
<1>2. QED
  BY <1>1, GameInvariant, PTL DEF IInv

(* phases.cpp:36, castopts.cpp:11: a player plays at most one land for     *)
(* every turn he has begun, and the one he starts with.                    *)
THEOREM OneLandEachTurn == Spec => []LandsPerTurn
<1>1. ASSUME IInv PROVE LandsPerTurn
  <2>1. SUFFICES ASSUME NEW p \in Players
                 PROVE  Cardinality(LandsOf(p)) + landsLeft[p] <= turns[p] + 1
    BY DEF LandsPerTurn, LandsOf
  <2>2. Cardinality(LandsOf(p)) + landsLeft[p]
          <= turns[p] + (IF p = who /\ step = 1 THEN 0 ELSE 1)
    BY <1>1 DEF IInv, LandInv, LandsOf
  <2>3. /\ Cardinality(LandsOf(p)) \in Nat /\ landsLeft[p] \in {0, 1}
        /\ turns[p] \in Nat
    BY <1>1, LandFacts DEF IInv
  <2>4. QED
    BY <2>2, <2>3
<1>2. QED
  BY <1>1, GameInvariant, PTL

(* phases.cpp:48-60: attackers and blockers are of the right players and   *)
(* gone after combat, whatever was declared.                               *)
THEOREM CombatIsOver == Spec => []CombatEnds
BY GameInvariant, PTL DEF IInv

(* phases.cpp:13-30, takeopts.cpp:33: deaths are noticed in time, unless a *)
(* deck is smaller than the opening hand: its player mills out before the  *)
(* game and is found dead in the first main phase only.                    *)
THEOREM DeathsNoticed ==
  ASSUME DecksSuffice PROVE Spec => []DeathsNoticedInTime
<1>1. IInv => DeathsNoticedInTime
  BY DecksSuffice DEF IInv, DeathInv
<1>2. QED
  BY <1>1, GameInvariant, PTL

(* control/takeopts.cpp as it is called by the game: every step of the     *)
(* game is a step of Priority's Next for the players found dead, or        *)
(* changes nothing Priority speaks of.                                     *)
THEOREM MainPhasesArePriority == Spec => [][PP!Next]_(PP!vars)
<1>1. IInv /\ [Next]_vars => [PP!Next]_(PP!vars)
  BY StepIsPriorityStep DEF IInv, LoopInv
<1>2. QED
  BY <1>1, GameInvariant, PTL DEF Spec

(* takeopts.cpp:6-11: the main phases of a whole game implement the rules  *)
(* of priority: an object of the stack resolves, and a phase ends, only    *)
(* when every player has passed since an option was last used.             *)
THEOREM MainPhasesFollowRules == Spec => PP!ImplementsRules
<1>1. Init => PP!Rules!Init
  <2>1. 1 \in Players
    BY CardsAreTyped DEF Players
  <2>2. QED
    BY <2>1 DEF Init, PP!Rules!Init, PP!passed, PP!Players, Players
<1>2. IInv /\ [Next]_vars => [PP!Rules!Next]_PP!Rules!vars
  BY StepIsPriorityStep, PriorityAssumptions, PP!NextRules DEF IInv, LoopInv
<1>3. QED
  BY <1>1, <1>2, GameInvariant, PTL DEF Spec, PP!ImplementsRules, PP!Rules!Spec

(* phases.cpp:13-20: between two steps the game is won just if it is over. *)
THEOREM GameOverIffWon == Spec => []PP!OverIffWon
BY GameInvariant, PTL DEF IInv, LoopInv

-----------------------------------------------------------------------------

(* The pool of a player, which Mana describes by itself.                   *)

(* Quotients and remainders.  Where these definitions are not expanded,    *)
(* the provers use what the next lemmas say and do not divide themselves.  *)
Quot(m, a) == m \div a
Rem(m, a)  == m % a

(* q is the quotient of m by a, r the remainder.                           *)
IsDivided(m, a, q, r) == q \in Int /\ r \in Nat /\ r < a /\ m = a * q + r

(* Dividing finds them, ...                                                *)
LEMMA Divided ==
  ASSUME NEW m \in Int, NEW a \in Nat, a # 0
  PROVE  IsDivided(m, a, Quot(m, a), Rem(m, a))
BY SMT DEF IsDivided, Quot, Rem

(* ... and there are no others.                                            *)
LEMMA DividedUnique ==
  ASSUME NEW m \in Int, NEW a \in Nat, a # 0, NEW q, NEW r, IsDivided(m, a, q, r)
  PROVE  Quot(m, a) = q /\ Rem(m, a) = r
BY SMT DEF IsDivided, Quot, Rem

(* Those of natural numbers.                                               *)
LEMMA DividedNat ==
  ASSUME NEW m \in Nat, NEW a \in Nat, a # 0
  PROVE  /\ Quot(m, a) \in Nat /\ Rem(m, a) \in Nat
         /\ Quot(m, a) = 0 <=> m < a
         /\ m < a => Rem(m, a) = m
BY SMT DEF Quot, Rem

(* To divide by a product is to divide by its factors in turn.             *)
LEMMA DividedTwice ==
  ASSUME NEW m \in Int, NEW a \in Nat, a # 0, NEW b \in Nat, b # 0
  PROVE  Quot(m, b * a) = Quot(Quot(m, a), b)
BY SMT DEF Quot

(* A multiple is added.                                                    *)
LEMMA MultipleAdded ==
  ASSUME NEW m \in Int, NEW a \in Nat, a # 0, NEW t \in Int
  PROVE  Quot(m + t * a, a) = Quot(m, a) + t /\ Rem(m + t * a, a) = Rem(m, a)
<1>1. PICK q, r : q = Quot(m, a) /\ r = Rem(m, a) /\ IsDivided(m, a, q, r)
  BY Divided
<1>2. PICK n \in Int : n = m + t * a
  OBVIOUS
<1>3. IsDivided(n, a, q + t, r)
  BY <1>1, <1>2 DEF IsDivided
<1>4. Quot(n, a) = q + t /\ Rem(n, a) = r
  BY <1>2, <1>3, DividedUnique
<1>5. QED
  BY <1>1, <1>2, <1>4

(* A digit changes if the others need not: ...                             *)
FitsIn(n, m, a, b, t) ==
  /\ n = m + t * a
  /\ m \in Nat /\ a \in Nat /\ a # 0 /\ b \in Nat /\ b # 0 /\ t \in Int
  /\ Rem(Quot(m, a), b) + t \in 0 .. b - 1

LEMMA AddInField ==
  ASSUME NEW n, NEW m, NEW a, NEW b, NEW t, FitsIn(n, m, a, b, t)
  PROVE  /\ n \in Nat
         /\ Rem(Quot(n, a), b) = Rem(Quot(m, a), b) + t
         /\ Quot(Quot(n, a), b) = Quot(Quot(m, a), b)
<1> m \in Nat /\ a \in Nat /\ a # 0 /\ b \in Nat /\ b # 0 /\ t \in Int
  BY DEF FitsIn
<1>0. Rem(Quot(m, a), b) + t \in 0 .. b - 1
  BY DEF FitsIn
<1>1. PICK q, r : q = Quot(m, a) /\ r = Rem(m, a) /\ IsDivided(m, a, q, r) /\ q \in Nat
  BY Divided, DividedNat
<1>2. PICK p, d : p = Quot(q, b) /\ d = Rem(q, b) /\ IsDivided(q, b, p, d) /\ p \in Nat
  BY <1>1, Divided, DividedNat
<1>3. d + t \in 0 .. b - 1
  BY <1>0, <1>1, <1>2
<1>4. n = m + t * a /\ n \in Int
  <2>1. n = m + t * a
    BY DEF FitsIn
  <2>2. QED
    BY <2>1
<1>5. Quot(n, a) = q + t
  BY <1>1, <1>4, MultipleAdded
<1>6. IsDivided(q + t, b, p, d + t) /\ q + t \in Int
  BY <1>1, <1>2, <1>3 DEF IsDivided
<1>7. Quot(q + t, b) = p /\ Rem(q + t, b) = d + t
  BY <1>6, DividedUnique
<1>8. n \in Nat
  <2>1. q + t \in Nat
    <3>1. b * p \in Nat
      BY <1>2
    <3>2. QED
      BY <1>3, <1>6, <3>1 DEF IsDivided
  <2>2. PICK k \in Nat : k = a * (q + t)
    BY <2>1
  <2>3. PICK x \in Int, y \in Int : x = a * q /\ y = t * a
    BY <1>1
  <2>4. k = x + y
    BY ONLY <2>2, <2>3, <1>1, a \in Nat, t \in Int
  <2>5. r \in Nat /\ m = x + r
    BY <1>1, <2>3 DEF IsDivided
  <2>6. n = m + y
    BY <1>4, <2>3
  <2>7. QED
    BY ONLY <2>4, <2>5, <2>6, k \in Nat, x \in Int, y \in Int
<1>9. QED
  BY <1>1, <1>2, <1>4, <1>5, <1>7, <1>8

(* ... those below it stay: n is m and a multiple of b * a.                 *)
IsAbove(n, m, t, u, b, a) == n = m + t * (u * (b * a))

(* What is added to m then leaves its digit at a.                           *)
LEMMA AddAbove ==
  ASSUME NEW m \in Int, NEW a \in Nat, a # 0, NEW b \in Nat, b # 0, NEW t \in Int,
         NEW u \in Nat, NEW n, IsAbove(n, m, t, u, b, a)
  PROVE  Rem(Quot(n, a), b) = Rem(Quot(m, a), b)
<1>1. PICK k \in Int : k = t * u
  OBVIOUS
<1>2. PICK s \in Int : s = k * b /\ t * (u * (b * a)) = s * a
  BY <1>1
<1>3. Quot(m + s * a, a) = Quot(m, a) + s
  BY MultipleAdded
<1>4. Quot(m, a) \in Int
  BY Divided DEF IsDivided
<1>5. Rem(Quot(m, a) + k * b, b) = Rem(Quot(m, a), b)
  BY <1>4, MultipleAdded
<1>6. QED
  BY <1>2, <1>3, <1>5 DEF IsAbove

(* A remainder is made of one digit and the remainder below it.            *)
LEMMA OneDigitMore ==
  ASSUME NEW m \in Nat, NEW a \in Nat, a # 0, NEW b \in Nat, b # 0, NEW c, c = b * a
  PROVE  Rem(m, c) = Rem(m, a) + Rem(Quot(m, a), b) * a
<1>1. PICK q \in Nat, r \in Nat : q = Quot(m, a) /\ r = Rem(m, a) /\ IsDivided(m, a, q, r)
  BY Divided, DividedNat
<1>2. PICK p \in Nat, d \in Nat : p = Quot(q, b) /\ d = Rem(q, b) /\ IsDivided(q, b, p, d)
  BY Divided, DividedNat
<1>3. r \in Nat /\ r <= a - 1 /\ d \in Nat /\ d <= b - 1 /\ m = a * q + r /\ q = b * p + d
  BY <1>1, <1>2 DEF IsDivided
<1>4. PICK x \in Nat : x = d * a
  BY <1>3
<1>5. c \in Nat /\ c # 0 /\ x + r < c
  <2>1. x <= (b - 1) * a
    BY ONLY <1>3, <1>4, a \in Nat, b \in Nat, b # 0
  <2>2. (b - 1) * a = c - a /\ c \in Nat /\ c # 0
    BY ONLY c = b * a, a \in Nat, b \in Nat, a # 0, b # 0
  <2>3. QED
    BY ONLY <1>3, <2>1, <2>2, x \in Nat, a \in Nat
<1>6. m = c * p + (x + r)
  <2>1. a * (b * p + d) = c * p + x
    <3>1. PICK y \in Nat, z \in Nat : y = b * p /\ z = a * y
      OBVIOUS
    <3>2. z = c * p
      BY ONLY <3>1, c = b * a, a \in Nat, b \in Nat, p \in Nat
    <3>3. a * (y + d) = z + x
      BY ONLY <3>1, <1>4, a \in Nat, y \in Nat, d \in Nat
    <3>4. QED
      BY <3>1, <3>2, <3>3, Zenon
  <2>2. PICK y \in Nat : y = c * p
    BY <1>2, <1>5
  <2>3. a * q = y + x
    BY <1>3, <2>1, <2>2
  <2>4. QED
    BY ONLY <1>3, <2>2, <2>3, x \in Nat, y \in Nat
<1>7. IsDivided(m, c, p, x + r)
  BY <1>2, <1>3, <1>5, <1>6 DEF IsDivided
<1>8. Rem(m, c) = x + r
  BY <1>5, <1>7, DividedUnique
<1>9. Rem(m, a) = r /\ Rem(Quot(m, a), b) * a = x
  BY <1>1, <1>2, <1>4, Zenon
<1>10. QED
  BY <1>8, <1>9

(* The field above the int.                                                *)
Top == COLORLESS + 2

(* The numbers the module names, as the provers need them.                 *)
LEMMA ManaNumbers ==
  /\ Base \in Nat /\ Base # 0 /\ Base # 1 /\ Base > 1
  /\ COLORLESS \in Nat /\ COLORLESS >= 2 /\ NbColors = COLORLESS - 1
  /\ Top \in Nat /\ GENERIC = 0 /\ Symbols = 1 .. COLORLESS
BY ManaAssumption, SMT DEF ManaAssumption, COLORLESS, Top, GENERIC, Symbols

(* Each field counts Base times what the one below it counts, ...          *)
LEMMA Units ==
  /\ unit[0] = 1
  /\ \A i \in 0 .. Top : unit[i] \in Nat /\ unit[i] # 0
  /\ \A i \in 1 .. Top : unit[i] = Base * unit[i - 1]
<1>1. PICK n \in Nat, b \in Nat : n = COLORLESS + 2 /\ b = Base /\ n = Top /\ b # 0
  BY ManaNumbers DEF Top
<1>2. \E f : f = [i \in 0 .. n |-> IF i = 0 THEN 1 ELSE b * f[i - 1]]
  BY PowersExist, Zenon
<1>3. unit = [i \in 0 .. n |-> IF i = 0 THEN 1 ELSE b * unit[i - 1]]
  BY <1>1, <1>2, Zenon DEF unit
<1>4. PICK w : w = unit
  OBVIOUS
<1>5. /\ w[0] = 1
      /\ \A i \in 1 .. n : w[i] = b * w[i - 1]
  <2>1. 0 \in 0 .. n /\ \A i \in 1 .. n : i \in 0 .. n /\ i # 0
    OBVIOUS
  <2>2. \A i \in 0 .. n : w[i] = IF i = 0 THEN 1 ELSE b * w[i - 1]
    BY <1>3, <1>4, Zenon
  <2>3. QED
    BY <2>1, <2>2, Zenon
<1> DEFINE A == {k \in Nat : k <= n => w[k] \in Nat /\ w[k] # 0}
<1>6. Nat \subseteq A
  <2>1. 0 \in A
    BY <1>5
  <2>2. ASSUME NEW k \in Nat, k \in A PROVE k + 1 \in A
    <3>1. SUFFICES ASSUME k + 1 <= n PROVE w[k + 1] \in Nat /\ w[k + 1] # 0
      OBVIOUS
    <3>2. w[k] \in Nat /\ w[k] # 0
      BY <2>2, <3>1
    <3>3. k + 1 \in 1 .. n /\ (k + 1) - 1 = k
      BY <3>1
    <3>4. w[k + 1] = b * w[k]
      BY <1>5, <3>3
    <3>5. QED
      BY <1>1, <3>2, <3>4
  <2> HIDE DEF A
  <2>3. QED
    BY <2>1, <2>2, SetInduction
<1>7. \A i \in 0 .. n : w[i] \in Nat /\ w[i] # 0
  BY <1>6
<1>8. QED
  BY <1>1, <1>4, <1>5, <1>7, Zenon

(* ... and so a multiple of Base times what any below it counts.           *)
LEMMA UnitsDivide ==
  ASSUME NEW i \in 0 .. Top, NEW j \in 0 .. Top, i < j
  PROVE  \E u \in Nat \ {0} : unit[j] = u * (Base * unit[i])
<1>1. PICK n \in Nat, b \in Nat : n = Top /\ b = Base /\ b # 0
  BY ManaNumbers
<1>a. PICK w : w = unit
  OBVIOUS
<1>2. /\ \A k \in 0 .. n : w[k] \in Nat /\ w[k] # 0
      /\ \A k \in 1 .. n : w[k] = b * w[k - 1]
  BY <1>1, <1>a, Units, Zenon
<1> DEFINE A == {k \in Nat : i < k /\ k <= n => \E u \in Nat \ {0} : w[k] = u * (b * w[i])}
<1>3. 0 \in A
  BY <1>1
<1>4. ASSUME NEW k \in Nat, k \in A PROVE k + 1 \in A
  <2>1. SUFFICES ASSUME i < k + 1, k + 1 <= n
                 PROVE  \E u \in Nat \ {0} : w[k + 1] = u * (b * w[i])
    OBVIOUS
  <2>2. k + 1 \in 1 .. n /\ (k + 1) - 1 = k /\ i \in 0 .. n
    BY <1>1, <2>1
  <2>3. w[k + 1] = b * w[k]
    BY <1>2, <2>2
  <2>4. PICK x \in Nat : x = w[i]
    BY <1>2, <2>2
  <2>5. CASE i = k
    <3>1. w[k + 1] = 1 * (b * w[i])
      BY <2>3, <2>4, <2>5
    <3>2. 1 \in Nat \ {0}
      OBVIOUS
    <3>3. QED
      BY <3>1, <3>2
  <2>6. CASE i # k
    <3>1. i < k /\ k <= n
      BY <1>1, <2>1, <2>6
    <3>2. PICK u \in Nat \ {0} : w[k] = u * (b * w[i])
      BY <1>4, <3>1
    <3>3. PICK v \in Nat \ {0} : v = b * u
      BY <1>1
    <3>4. w[k + 1] = v * (b * w[i])
      BY ONLY <2>3, <2>4, <3>2, <3>3, b \in Nat, u \in Nat \ {0}, x \in Nat
    <3>5. QED
      BY <3>4
  <2>7. QED
    BY <2>5, <2>6
<1>5. Nat \subseteq A
  <2> HIDE DEF A
  <2>1. QED
    BY <1>3, <1>4, SetInduction
<1>6. j \in Nat /\ j <= n
  BY <1>1
<1>7. QED
  BY <1>1, <1>a, <1>5, <1>6

(* MY_COLOR is a digit of the number.                                      *)
LEMMA Digits ==
  ASSUME NEW m \in Nat, NEW i \in 0 .. Top
  PROVE  /\ MY_COLOR(m, i) = Rem(Quot(m, unit[i]), Base)
         /\ MY_COLOR(m, i) \in Nat /\ MY_COLOR(m, i) < Base
<1>1. MY_COLOR(m, i) = Rem(Quot(m, unit[i]), Base)
  BY Zenon DEF MY_COLOR, Rem, Quot
<1>2. unit[i] \in Nat /\ unit[i] # 0
  BY Units
<1>3. Quot(m, unit[i]) \in Nat
  BY <1>2, DividedNat
<1>4. IsDivided(Quot(m, unit[i]), Base, Quot(Quot(m, unit[i]), Base), MY_COLOR(m, i))
  BY <1>1, <1>3, ManaNumbers, Divided
<1>5. QED
  BY <1>1, <1>4, ManaNumbers DEF IsDivided

(* An int whose fields it fills.                                           *)
LEMMA Filled ==
  ASSUME NEW m \in Nat
  PROVE  /\ m \in Ints <=> m < unit[Top]
         /\ m \in Ints <=> Quot(m, unit[Top]) = 0
         /\ m \in Ints => Wrapped(m) = m
         /\ Wrapped(m) \in Ints
<1>1. PICK a \in Nat : a = unit[Top] /\ a # 0
  BY Units, ManaNumbers
<1>2. m \in Ints <=> m < a
  BY <1>1 DEF Ints, Top
<1>3. Wrapped(m) = Rem(m, a)
  BY <1>1, Zenon DEF Wrapped, Rem, Top
<1>4. /\ Quot(m, a) = 0 <=> m < a
      /\ m < a => Rem(m, a) = m
  BY <1>1, DividedNat
<1>5. Rem(m, a) \in Nat /\ Rem(m, a) < a
  <2>1. IsDivided(m, a, Quot(m, a), Rem(m, a))
    BY <1>1, Divided
  <2>2. QED
    BY ONLY <2>1 DEF IsDivided
<1>6. Wrapped(m) \in Ints
  BY <1>1, <1>3, <1>5 DEF Ints, Top
<1>7. QED
  BY <1>1, <1>2, <1>3, <1>4, <1>6

(* m has the digits of n, but for field c.                                 *)
SameBut(m, n, c) == \A i \in GENERIC .. COLORLESS + 1 : i # c => MY_COLOR(m, i) = MY_COLOR(n, i)

(* A field is added to without a carry into others, or out of the int.     *)
LEMMA AddAt ==
  ASSUME NEW m \in Ints, NEW c \in GENERIC .. COLORLESS + 1, NEW t \in Int,
         MY_COLOR(m, c) + t \in 0 .. Base - 1,
         NEW n, n = m + t * unit[c]
  PROVE  /\ n \in Ints /\ MY_COLOR(n, c) = MY_COLOR(m, c) + t
         /\ SameBut(n, m, c)
<1>0. m \in Nat
  BY Units, ManaNumbers DEF Ints, Top
<1>1. PICK b \in Nat, a \in Nat : b = Base /\ a = unit[c] /\ b # 0 /\ a # 0
  <2>1. c \in 0 .. Top
    BY ManaNumbers DEF Top
  <2>2. QED
    BY <2>1, Units, ManaNumbers
<1>2. c \in 0 .. Top /\ c < Top /\ Top \in 0 .. Top
  BY ManaNumbers DEF Top
<1>3. \A i \in GENERIC .. COLORLESS + 1 : i \in 0 .. Top
  BY ManaNumbers DEF Top
<1>4. n = m + t * a
  BY <1>1
<1>5. MY_COLOR(m, c) = Rem(Quot(m, a), b)
  BY <1>0, <1>1, <1>2, Digits
<1>6. Rem(Quot(m, a), b) + t \in 0 .. b - 1
  BY <1>1, <1>5
<1>7. /\ n \in Nat
      /\ Rem(Quot(n, a), b) = Rem(Quot(m, a), b) + t
      /\ Quot(Quot(n, a), b) = Quot(Quot(m, a), b)
  <2>1. FitsIn(n, m, a, b, t)
    BY <1>0, <1>1, <1>4, <1>6, Zenon DEF FitsIn
  <2>2. QED
    BY ONLY <2>1, AddInField
<1>8. MY_COLOR(n, c) = MY_COLOR(m, c) + t
  <2>1. MY_COLOR(n, c) = Rem(Quot(n, a), b)
    BY <1>1, <1>2, <1>7, Digits
  <2>2. QED
    BY <1>5, <1>7, <2>1
<1>9. ASSUME NEW j \in 0 .. Top, c < j
      PROVE  Quot(n, unit[j]) = Quot(m, unit[j])
  <2>1. PICK u \in Nat \ {0} : unit[j] = u * (b * a)
    BY <1>1, <1>2, <1>9, UnitsDivide
  <2>2. PICK d \in Nat : d = b * a /\ d # 0
    BY <1>1
  <2>3. \A k \in Nat : Quot(k, u * d) = Quot(Quot(Quot(k, a), b), u)
    <3>1. SUFFICES ASSUME NEW k \in Nat PROVE Quot(k, u * d) = Quot(Quot(Quot(k, a), b), u)
      OBVIOUS
    <3>2. Quot(k, u * d) = Quot(Quot(k, d), u)
      BY <2>2, DividedTwice
    <3>3. Quot(k, d) = Quot(Quot(k, a), b)
      <4>1. k \in Int
        OBVIOUS
      <4>2. Quot(k, b * a) = Quot(Quot(k, a), b)
        BY <1>1, <4>1, DividedTwice, Zenon
      <4>3. QED
        BY <2>2, <4>2, Zenon
    <3>4. QED
      BY <3>2, <3>3
  <2>4. QED
    BY <1>0, <1>7, <2>1, <2>2, <2>3
<1>10. ASSUME NEW j \in GENERIC .. COLORLESS + 1, j # c
       PROVE  MY_COLOR(n, j) = MY_COLOR(m, j)
  <2>1. j \in 0 .. Top
    BY <1>3
  <2>2. /\ MY_COLOR(n, j) = Rem(Quot(n, unit[j]), b)
        /\ MY_COLOR(m, j) = Rem(Quot(m, unit[j]), b)
    BY <1>0, <1>1, <1>7, <2>1, Digits
  <2>3. CASE c < j
    BY <1>9, <2>1, <2>2, <2>3
  <2>4. CASE j < c
    <3>1. PICK u \in Nat \ {0} : a = u * (b * unit[j])
      BY <1>1, <1>2, <2>1, <2>4, UnitsDivide
    <3>2. PICK x \in Nat : x = unit[j] /\ x # 0
      BY <2>1, Units
    <3>3. IsAbove(n, m, t, u, b, x)
      BY <1>4, <3>1, <3>2 DEF IsAbove
    <3>4. Rem(Quot(n, x), b) = Rem(Quot(m, x), b)
      <4>1. x # 0 /\ b # 0 /\ m \in Int /\ u \in Nat
        BY <1>0, <1>1, <3>2
      <4>2. QED
        BY ONLY x \in Nat, b \in Nat, t \in Int, <3>3, <4>1, AddAbove
    <3>5. QED
      BY <2>2, <3>2, <3>4
  <2>5. QED
    BY <1>2, <1>10, <2>1, <2>3, <2>4
<1>11. n \in Ints
  BY <1>0, <1>2, <1>7, <1>9, Filled
<1>12. QED
  BY <1>8, <1>10, <1>11 DEF SameBut

(* An int is a natural number.                                             *)
LEMMA IntsAreNat == \A m \in Ints : m \in Nat
BY Units, ManaNumbers DEF Ints, Top

(* The fields below the j-th, alone.                                       *)
LEMMA LowFields ==
  ASSUME NEW m \in Ints, NEW j \in 0 .. Top, NEW r, r = Rem(m, unit[j])
  PROVE  /\ r \in Ints
         /\ \A i \in GENERIC .. COLORLESS + 1 :
              MY_COLOR(r, i) = IF i < j THEN MY_COLOR(m, i) ELSE 0
<1>1. PICK b \in Nat, a \in Nat : b = Base /\ a = unit[j] /\ b # 0 /\ a # 0 /\ 0 < b
  <2>1. unit[j] \in Nat /\ unit[j] # 0
    BY Units
  <2>2. QED
    BY <2>1, ManaNumbers
<1>2. m \in Nat
  BY IntsAreNat
<1>3. PICK q \in Int : r \in Nat /\ r < a /\ m = a * q + r
  <2>1. IsDivided(m, a, Quot(m, a), r)
    BY <1>1, <1>2, Divided
  <2>2. QED
    BY <2>1 DEF IsDivided
<1>4. \A i \in GENERIC .. COLORLESS + 1 : i \in 0 .. Top
  BY ManaNumbers DEF Top
<1>5. ASSUME NEW i \in 0 .. Top, i < j PROVE MY_COLOR(r, i) = MY_COLOR(m, i)
  <2>1. PICK u \in Nat \ {0} : a = u * (b * unit[i])
    BY <1>1, <1>5, UnitsDivide
  <2>2. PICK x \in Nat : x = unit[i] /\ x # 0
    BY Units
  <2>3. IsAbove(r, m, -q, u, b, x)
    <3>1. PICK y \in Int : y = a * q /\ y = q * a /\ (-q) * a = -y
      OBVIOUS
    <3>2. r = m + (-q) * a
      BY <1>2, <1>3, <3>1
    <3>3. QED
      BY <2>1, <2>2, <3>2 DEF IsAbove
  <2>4. Rem(Quot(r, x), b) = Rem(Quot(m, x), b)
    <3>1. x # 0 /\ b # 0 /\ m \in Int /\ u \in Nat /\ -q \in Int
      BY <1>1, <1>2, <2>2
    <3>2. QED
      BY ONLY x \in Nat, b \in Nat, <2>3, <3>1, AddAbove
  <2>5. QED
    BY <1>1, <1>2, <1>3, <2>2, <2>4, Digits
<1>6. ASSUME NEW i \in 0 .. Top, j <= i PROVE r < unit[i]
  <2>1. CASE i = j
    BY <1>1, <1>3, <2>1
  <2>2. CASE i # j
    <3>1. j < i
      BY <1>6, <2>2
    <3>2. PICK u \in Nat \ {0} : unit[i] = u * (b * a)
      BY <1>1, <3>1, UnitsDivide
    <3>3. a <= u * (b * a)
      BY ONLY <1>1, a \in Nat, b \in Nat, u \in Nat \ {0}
    <3>4. unit[i] \in Nat
      BY Units
    <3>5. QED
      BY ONLY <1>3, <3>2, <3>3, <3>4, a \in Nat
  <2>3. QED
    BY <2>1, <2>2
<1>7. ASSUME NEW i \in 0 .. Top, j <= i PROVE MY_COLOR(r, i) = 0
  <2>1. PICK x \in Nat : x = unit[i] /\ x # 0
    BY Units
  <2>2. Quot(r, x) = 0
    BY <1>3, <1>6, <1>7, <2>1, DividedNat
  <2>3. Rem(0, b) = 0
    BY <1>1, DividedNat
  <2>4. QED
    BY <1>1, <1>3, <2>1, <2>2, <2>3, Digits
<1>8. r \in Ints
  <2>1. Top \in 0 .. Top /\ j <= Top
    BY ManaNumbers
  <2>2. QED
    BY <1>3, <1>6, <2>1, Filled
<1>9. QED
  BY <1>4, <1>5, <1>7, <1>8

(* The first fields of cost are taken off those of m, if they are no more. *)
Less(n, m, cost, j) ==
  /\ n \in Ints
  /\ \A i \in GENERIC .. COLORLESS + 1 :
       MY_COLOR(n, i) = IF i < j THEN MY_COLOR(m, i) - MY_COLOR(cost, i) ELSE MY_COLOR(m, i)

(* Subtracting the fields a cost has borrows from none.                    *)
LEMMA Subtracted ==
  ASSUME NEW m \in Ints, NEW cost \in Ints, AtLeast(m, cost)
  PROVE  Less(m - Rem(cost, unit[COLORLESS + 1]), m, cost, COLORLESS + 1)
<1>1. PICK n \in Nat, b \in Nat : n = COLORLESS /\ b = Base /\ b # 0
  BY ManaNumbers
<1>2. m \in Nat /\ cost \in Nat
  BY IntsAreNat
<1> DEFINE A == {j \in Nat : j <= n + 1 => Less(m - Rem(cost, unit[j]), m, cost, j)}
<1>3. 0 \in A
  <2>1. Rem(cost, unit[0]) = 0
    <3>1. IsDivided(cost, 1, Quot(cost, 1), Rem(cost, 1))
      BY <1>2, Divided
    <3>2. Rem(cost, 1) = 0
      BY ONLY <3>1 DEF IsDivided
    <3>3. QED
      BY <3>2, Units
  <2>2. m - 0 = m
    BY <1>2
  <2>3. \A i \in GENERIC .. COLORLESS + 1 : ~(i < 0)
    BY ManaNumbers
  <2>4. Less(m, m, cost, 0)
    BY <2>3 DEF Less
  <2>5. QED
    BY <2>1, <2>2, <2>4
<1>4. ASSUME NEW j \in Nat, j \in A PROVE j + 1 \in A
  <2>1. SUFFICES ASSUME j + 1 <= n + 1
                 PROVE  Less(m - Rem(cost, unit[j + 1]), m, cost, j + 1)
    OBVIOUS
  <2>2. PICK k : k = m - Rem(cost, unit[j])
    OBVIOUS
  <2>3. Less(k, m, cost, j)
    BY <1>4, <2>1, <2>2
  <2>4. /\ j \in 0 .. Top /\ j \in GENERIC .. COLORLESS + 1 /\ j \in GENERIC .. COLORLESS
        /\ j + 1 \in 1 .. Top /\ (j + 1) - 1 = j /\ ~(j < j)
    BY <1>1, <2>1, ManaNumbers DEF Top
  <2>5. PICK a \in Nat, c \in Nat : a = unit[j] /\ a # 0 /\ c = unit[j + 1] /\ c = b * a
    <3>1. j + 1 \in 0 .. Top
      BY <2>4
    <3>2. QED
      BY <1>1, <2>4, <3>1, Units
  <2>6. PICK d \in Nat : d = MY_COLOR(cost, j) /\ d <= MY_COLOR(m, j)
    BY <1>2, <2>4, Digits DEF AtLeast
  <2>7. Rem(cost, c) = Rem(cost, a) + d * a
    <3>1. Rem(cost, c) = Rem(cost, a) + Rem(Quot(cost, a), b) * a
      BY <1>1, <1>2, <2>5, OneDigitMore
    <3>2. d = Rem(Quot(cost, a), b)
      BY <1>1, <1>2, <2>4, <2>5, <2>6, Digits
    <3>3. QED
      BY <3>1, <3>2
  <2>8. PICK p : p = m - Rem(cost, c)
    OBVIOUS
  <2>9. p = k + (-d) * unit[j]
    <3>1. PICK y \in Int : y = d * a /\ (-d) * a = -y
      OBVIOUS
    <3>2. PICK x \in Nat : x = Rem(cost, a)
      BY <1>2, <2>5, DividedNat
    <3>3. QED
      BY <1>2, <2>2, <2>5, <2>7, <2>8, <3>1, <3>2
  <2>10. MY_COLOR(k, j) = MY_COLOR(m, j) /\ MY_COLOR(m, j) \in Nat /\ MY_COLOR(m, j) < Base
    BY <1>2, <2>3, <2>4, Digits DEF Less
  <2>11. MY_COLOR(k, j) + (-d) \in 0 .. Base - 1 /\ -d \in Int
    BY <2>6, <2>10, ManaNumbers
  <2>12. p \in Ints /\ MY_COLOR(p, j) = MY_COLOR(k, j) + (-d) /\ SameBut(p, k, j)
    BY <2>3, <2>4, <2>9, <2>11, AddAt DEF Less
  <2>13. ASSUME NEW i \in GENERIC .. COLORLESS + 1
         PROVE  MY_COLOR(p, i) = IF i < j + 1 THEN MY_COLOR(m, i) - MY_COLOR(cost, i)
                                 ELSE MY_COLOR(m, i)
    <3>1. CASE i = j
      BY <2>6, <2>10, <2>12, <3>1
    <3>2. CASE i # j
      <4>1. MY_COLOR(p, i) = MY_COLOR(k, i)
        BY <2>12, <3>2 DEF SameBut
      <4>2. i < j + 1 <=> i < j
        BY <3>2, ManaNumbers
      <4>3. QED
        BY <2>3, <4>1, <4>2 DEF Less
    <3>3. QED
      BY <3>1, <3>2
  <2>14. QED
    BY <2>5, <2>8, <2>12, <2>13 DEF Less
<1>5. Nat \subseteq A
  <2> HIDE DEF A
  <2>1. QED
    BY <1>3, <1>4, SetInduction
<1>6. QED
  BY <1>1, <1>5

(* The fields of the colours, ...                                          *)
Of(m) == [i \in Symbols |-> MY_COLOR(m, i)]

(* They are digits.                                                        *)
LEMMA OfType ==
  ASSUME NEW m \in Ints
  PROVE  \A i \in 1 .. COLORLESS : /\ Of(m)[i] = MY_COLOR(m, i) /\ MY_COLOR(m, i) \in Nat
                                   /\ MY_COLOR(m, i) < Base
<1>1. \A i \in 1 .. COLORLESS : i \in Symbols /\ i \in 0 .. Top
  BY ManaNumbers DEF Top
<1>2. m \in Nat
  BY IntsAreNat
<1>3. QED
  BY <1>1, <1>2, Digits DEF Of

(* ... which Coloured adds up.                                             *)
LEMMA ColouredIsSum ==
  ASSUME NEW m \in Ints, NEW S \in SUBSET Symbols
  PROVE  Coloured(m, S) = SumOver(Of(m), S)
<1>1. PICK w : w = Of(m)
  OBVIOUS
<1>2. \A i \in S : w[i] = MY_COLOR(m, i) /\ w[i] \in Nat
  BY <1>1, OfType, ManaNumbers
<1>3. IsFiniteSet(S)
  <2>1. IsFiniteSet(1 .. COLORLESS)
    BY FS_Interval, ManaNumbers
  <2>2. QED
    BY <2>1, FS_Subset, ManaNumbers
<1> DEFINE pick(r) == CHOOSE x \in r : TRUE
           Is(g) == g = [r \in SUBSET S |-> IF r = {} THEN 0
                                       ELSE MY_COLOR(m, pick(r)) + g[r \ {pick(r)}]]
           F == CHOOSE g : Is(g)
<1>4. Coloured(m, S) = F[S]
  BY DEF Coloured, MapThenSumSet, MapThenFoldSet
<1>5. ASSUME NEW r \in SUBSET S, r # {}
      PROVE  MY_COLOR(m, pick(r)) = w[Pick(r)] /\ Rest(r) = r \ {pick(r)}
  <2>1. Pick(r) = pick(r)
    BY DEF Pick
  <2>2. Pick(r) \in S
    BY <1>5 DEF Pick
  <2>3. QED
    BY <1>2, <2>1, <2>2, Zenon DEF Rest
<1>6. ASSUME NEW g PROVE Is(g) <=> Sums(g, w, SUBSET S)
  <2>1. [r \in SUBSET S |-> IF r = {} THEN 0 ELSE MY_COLOR(m, pick(r)) + g[r \ {pick(r)}]]
          = [r \in SUBSET S |-> IF r = {} THEN 0 ELSE w[Pick(r)] + g[Rest(r)]]
    <3>1. ASSUME NEW r \in SUBSET S
          PROVE  (IF r = {} THEN 0 ELSE MY_COLOR(m, pick(r)) + g[r \ {pick(r)}])
                   = IF r = {} THEN 0 ELSE w[Pick(r)] + g[Rest(r)]
      <4>1. CASE r = {}
        BY <4>1, Zenon
      <4>2. CASE r # {}
        <5>1. MY_COLOR(m, pick(r)) = w[Pick(r)]
          BY <1>5, <4>2, Zenon
        <5>2. r \ {pick(r)} = Rest(r)
          BY <1>5, <4>2, Zenon
        <5>3. QED
          BY <4>2, <5>1, <5>2, Zenon
      <4>3. QED
        BY <4>1, <4>2, Zenon
    <3>2. QED
      BY <3>1, Zenon
  <2>2. QED
    BY <2>1, Zenon DEF Sums
<1> HIDE DEF Is
<1>7. \E g : Is(g)
  <2>1. PICK g \in [SUBSET S -> Nat] : Sums(g, w, SUBSET S)
    BY <1>2, <1>3, SumsExist
  <2>2. QED
    BY <1>6, <2>1, Zenon
<1>8. Sums(F, w, SUBSET S)
  BY <1>6, <1>7, Zenon
<1> HIDE DEF F
<1>9. S \in SUBSET S
  OBVIOUS
<1>10. SumOver(w, S) = F[S]
  BY <1>2, <1>3, <1>8, <1>9, SumIsSums
<1>11. QED
  BY <1>1, <1>4, <1>10

(* The first colours that are more than what is left, and how many of the  *)
(* last of them are too many.                                              *)
LEMMA FirstTooMany ==
  ASSUME NEW m \in Ints, NEW stops,
         stops = {o \in Symbols : Coloured(m, 1 .. o) >= cmc(m)}
  PROVE  /\ stops = {} => SumOver(Of(m), 1 .. COLORLESS) < cmc(m)
         /\ stops # {} =>
              \E o \in 1 .. COLORLESS, e \in Nat :
                /\ o = Min(stops) /\ e = Coloured(m, 1 .. o) - cmc(m)
                /\ e = SumOver(Of(m), 1 .. o) - cmc(m)
                /\ e <= MY_COLOR(m, o)
<1>0. PICK w : w = Of(m)
  OBVIOUS
<1>1. PICK n \in Nat, g \in Nat : n = COLORLESS /\ w = Of(m) /\ g = cmc(m) /\ 1 <= n
  <2>1. MY_COLOR(m, 0) \in Nat
    <3>1. m \in Nat /\ 0 \in 0 .. Top
      BY IntsAreNat, ManaNumbers
    <3>2. QED
      BY <3>1, Digits
  <2>2. cmc(m) \in Nat
    BY <2>1, ManaNumbers DEF cmc
  <2>3. COLORLESS \in Nat /\ 1 <= COLORLESS
    BY ManaNumbers
  <2>4. QED
    BY <1>0, <2>2, <2>3, Zenon
<1>2. \A i \in 1 .. n : w[i] \in Nat /\ w[i] = MY_COLOR(m, i)
  BY <1>1, OfType
<1>3. \A o \in 1 .. n : Coloured(m, 1 .. o) = SumOver(w, 1 .. o) /\ SumOver(w, 1 .. o) \in Nat
  <2>1. SUFFICES ASSUME NEW o \in 1 .. n
                 PROVE  Coloured(m, 1 .. o) = SumOver(w, 1 .. o) /\ SumOver(w, 1 .. o) \in Nat
    OBVIOUS
  <2>2. 1 .. o \in SUBSET Symbols
    BY <1>1, ManaNumbers
  <2>3. IsFiniteSet(1 .. o) /\ \A i \in 1 .. o : w[i] \in Nat
    BY <1>2, FS_Interval
  <2>4. QED
    BY <1>1, <2>2, <2>3, ColouredIsSum, SumType
<1>4. stops = {o \in 1 .. n : SumOver(w, 1 .. o) >= g}
  BY <1>1, <1>3, ManaNumbers
<1>5. ASSUME stops = {} PROVE SumOver(w, 1 .. n) < g
  <2>1. n \in 1 .. n
    BY <1>1
  <2>2. ~(SumOver(w, 1 .. n) >= g)
    BY <1>4, <1>5, <2>1
  <2>3. QED
    BY <1>1, <1>3, <2>1, <2>2
<1>6. ASSUME stops # {}
      PROVE  \E o \in 1 .. n, e \in Nat :
               /\ o = Min(stops) /\ e = Coloured(m, 1 .. o) - g
               /\ e = SumOver(w, 1 .. o) - g /\ e <= MY_COLOR(m, o)
  <2>1. stops \in SUBSET Nat
    BY <1>4
  <2>2. PICK o : o = Min(stops) /\ o \in stops /\ \A y \in stops : o <= y
    BY <1>6, <2>1, LeastExists
  <2>3. o \in 1 .. n /\ SumOver(w, 1 .. o) >= g
    BY <1>4, <2>2
  <2>4. PICK k \in Nat : o = k + 1
    BY <2>3
  <2>5. \A i \in 1 .. (k + 1) : w[i] \in Nat
    BY <1>2, <2>3, <2>4
  <2>6. SumOver(w, 1 .. o) = SumOver(w, 1 .. k) + w[o] /\ SumOver(w, 1 .. k) \in Nat
    BY <2>4, <2>5, SumUpTo
  <2>7. SumOver(w, 1 .. k) <= g
    <3>1. CASE k = 0
      BY <1>1, <3>1, SumUpToZero
    <3>2. CASE k # 0
      <4>1. k \in 1 .. n /\ ~(o <= k)
        BY <2>3, <2>4, <3>2
      <4>2. k \notin stops
        BY <2>2, <4>1
      <4>3. QED
        BY <1>4, <2>6, <4>1, <4>2
    <3>3. QED
      BY <3>1, <3>2
  <2>8. PICK e \in Nat : e = SumOver(w, 1 .. o) - g
    BY <1>3, <2>3
  <2>9. e <= w[o]
    BY <1>2, <2>3, <2>6, <2>7, <2>8
  <2>10. QED
    BY <1>2, <1>3, <2>2, <2>3, <2>8, <2>9
<1>7. QED
  BY <1>1, <1>5, <1>6

(* What is left of m after paying.                                         *)
Left(p, m, cost) ==
  /\ p \in Ints
  /\ cmc(p) = cmc(m) - cmc(cost)
  /\ \A i \in 1 .. COLORLESS : MY_COLOR(p, i) <= MY_COLOR(m, i) - MY_COLOR(cost, i)
  /\ \/ /\ \A i \in 1 .. COLORLESS : MY_COLOR(p, i) = MY_COLOR(m, i) - MY_COLOR(cost, i)
        /\ SumOver(Of(p), 1 .. COLORLESS) < cmc(p)
     \/ SumOver(Of(p), 1 .. COLORLESS) = cmc(p)

(* Minus leaves that.                                                      *)
LEMMA MinusLeaves ==
  ASSUME NEW m \in Ints, NEW cost \in Ints, AtLeast(m, cost)
  PROVE  Left(Minus(m, cost), m, cost)
<1>1. PICK n \in Nat : n = COLORLESS /\ 1 <= n
  BY ManaNumbers
<1>2. PICK k : k = m - Rem(cost, unit[COLORLESS + 1])
  OBVIOUS
<1>3. Less(k, m, cost, COLORLESS + 1)
  BY <1>2, Subtracted
<1>4. k \in Ints /\ k \in Nat /\ Wrapped(k) = k
  BY <1>3, IntsAreNat, Filled DEF Less
<1>5. k = Wrapped(m - (cost % unit[COLORLESS + 1]))
  BY <1>2, <1>4, Zenon DEF Rem
<1>6. /\ 0 \in GENERIC .. COLORLESS + 1 /\ 0 < COLORLESS + 1
      /\ \A i \in 1 .. n : i \in GENERIC .. COLORLESS + 1 /\ i < COLORLESS + 1
  BY <1>1, ManaNumbers
<1>7. /\ MY_COLOR(k, 0) = MY_COLOR(m, 0) - MY_COLOR(cost, 0)
      /\ \A i \in 1 .. n : MY_COLOR(k, i) = MY_COLOR(m, i) - MY_COLOR(cost, i)
  BY <1>3, <1>6, Zenon DEF Less
<1>8. cmc(k) = cmc(m) - cmc(cost)
  BY <1>7, ManaNumbers, Zenon DEF cmc
<1>9. PICK w : w = Of(k)
  OBVIOUS
<1>10. \A i \in 1 .. n : w[i] = MY_COLOR(k, i) /\ w[i] \in Nat /\ w[i] < Base
  BY <1>1, <1>4, <1>9, OfType
<1>11. PICK stops : stops = {o \in Symbols : Coloured(k, 1 .. o) >= cmc(k)}
  OBVIOUS
<1>12. CASE stops = {}
  <2>1. Minus(m, cost) = k
    BY <1>5, <1>11, <1>12, Zenon DEF Minus
  <2>2. SumOver(w, 1 .. n) < cmc(k)
    BY <1>1, <1>4, <1>9, <1>11, <1>12, FirstTooMany
  <2>3. \A i \in 1 .. n : MY_COLOR(k, i) <= MY_COLOR(m, i) - MY_COLOR(cost, i)
    BY <1>7, <1>10
  <2>4. QED
    BY <1>1, <1>4, <1>7, <1>8, <1>9, <2>1, <2>2, <2>3 DEF Left
<1>13. CASE stops # {}
  <2>1. PICK o \in 1 .. n, e \in Nat :
          /\ o = Min(stops) /\ e = Coloured(k, 1 .. o) - cmc(k)
          /\ e = SumOver(w, 1 .. o) - cmc(k)
          /\ e <= MY_COLOR(k, o)
    BY <1>1, <1>4, <1>9, <1>11, <1>13, FirstTooMany
  <2>2. PICK p : p = Minus(m, cost)
    OBVIOUS
  <2>3. p = Cut(k, o, e)
    BY <1>5, <1>11, <1>13, <2>1, <2>2, Zenon DEF Minus
  <2>4. PICK q : q = k + (-e) * unit[o]
    OBVIOUS
  <2>5. o \in GENERIC .. COLORLESS + 1 /\ o \in 0 .. Top /\ o + 1 \in 0 .. Top
    BY <1>1, ManaNumbers DEF Top
  <2>6. p = Rem(q, unit[o + 1])
    <3>1. PICK a \in Nat : a = unit[o]
      BY <2>5, Units
    <3>2. k - e * a = k + (-e) * a
      BY <1>4
    <3>3. QED
      BY <2>3, <2>4, <3>1, <3>2 DEF Cut, Rem
  <2>7. MY_COLOR(k, o) + (-e) \in 0 .. Base - 1 /\ -e \in Int
    BY <1>10, <2>1, ManaNumbers
  <2>8. q \in Ints /\ MY_COLOR(q, o) = MY_COLOR(k, o) + (-e) /\ SameBut(q, k, o)
    BY <1>4, <2>4, <2>5, <2>7, AddAt
  <2>9. /\ p \in Ints
        /\ \A i \in GENERIC .. COLORLESS + 1 :
             MY_COLOR(p, i) = IF i < o + 1 THEN MY_COLOR(q, i) ELSE 0
    BY <2>5, <2>6, <2>8, LowFields
  <2>10. \A i \in GENERIC .. COLORLESS + 1 :
            MY_COLOR(p, i) = IF i < o THEN MY_COLOR(k, i)
                             ELSE IF i = o THEN MY_COLOR(k, o) - e ELSE 0
    <3>1. SUFFICES ASSUME NEW i \in GENERIC .. COLORLESS + 1
                   PROVE  MY_COLOR(p, i) = IF i < o THEN MY_COLOR(k, i)
                             ELSE IF i = o THEN MY_COLOR(k, o) - e ELSE 0
      OBVIOUS
    <3>2. i \in Nat
      BY ManaNumbers
    <3>3. CASE i < o
      BY <2>8, <2>9, <3>2, <3>3 DEF SameBut
    <3>4. CASE i = o
      <4>1. MY_COLOR(p, i) = MY_COLOR(q, o)
        BY <2>9, <3>4
      <4>2. QED
        BY <1>10, <2>8, <3>4, <4>1
    <3>5. CASE i > o
      BY <2>9, <3>2, <3>5
    <3>6. QED
      BY <3>2, <3>3, <3>4, <3>5
  <2>11. cmc(p) = cmc(k)
    <3>1. 0 < o
      OBVIOUS
    <3>2. MY_COLOR(p, 0) = MY_COLOR(k, 0)
      BY <1>6, <2>10, <3>1
    <3>3. QED
      BY <3>2, ManaNumbers, Zenon DEF cmc
  <2>12. PICK v : v = Of(p)
    OBVIOUS
  <2>13. /\ \A i \in 1 .. n : v[i] = MY_COLOR(p, i) /\ v[i] \in Nat
         /\ \A i \in 1 .. n : i < o => v[i] = w[i]
         /\ \A i \in 1 .. n : i > o => v[i] = 0
         /\ v[o] = w[o] - e
    <3>1. \A i \in 1 .. n : v[i] = MY_COLOR(p, i) /\ v[i] \in Nat
      BY <1>1, <2>9, <2>12, OfType
    <3>2. \A i \in 1 .. n : v[i] = IF i < o THEN w[i] ELSE IF i = o THEN w[o] - e ELSE 0
      BY <1>6, <1>10, <2>10, <3>1
    <3>3. QED
      BY <3>1, <3>2
  <2>14. SumOver(v, 1 .. n) = SumOver(v, 1 .. o)
    <3>1. o \in 0 .. n /\ \A i \in (o + 1) .. n : i \in 1 .. n /\ i > o
      OBVIOUS
    <3>2. QED
      BY <2>13, <3>1, SumTail
  <2>15. PICK j \in Nat : o = j + 1
    OBVIOUS
  <2>16. /\ SumOver(v, 1 .. o) = SumOver(v, 1 .. j) + v[o]
         /\ SumOver(w, 1 .. o) = SumOver(w, 1 .. j) + w[o]
         /\ SumOver(v, 1 .. j) \in Nat /\ SumOver(w, 1 .. j) \in Nat
    <3>1. \A i \in 1 .. (j + 1) : i \in 1 .. n
      BY <2>15
    <3>2. \A i \in 1 .. (j + 1) : v[i] \in Nat /\ w[i] \in Nat
      BY <1>10, <2>13, <3>1
    <3>3. QED
      BY <2>15, <3>2, SumUpTo
  <2>17. SumOver(v, 1 .. j) = SumOver(w, 1 .. j)
    <3>1. \A i \in 1 .. j : i \in 1 .. n /\ i < o
      BY <2>15
    <3>2. \A i \in 1 .. j : v[i] \in Nat /\ v[i] = w[i]
      BY <2>13, <3>1
    <3>3. IsFiniteSet(1 .. j)
      BY FS_Interval
    <3>4. QED
      BY <3>2, <3>3, SumSame
  <2>18. SumOver(v, 1 .. n) = cmc(p)
    <3>1. cmc(k) \in Nat
      <4>1. 0 \in 0 .. Top
        BY ManaNumbers
      <4>2. QED
        BY <1>4, <4>1, Digits, ManaNumbers DEF cmc
    <3>2. w[o] \in Nat
      BY <1>10
    <3>3. QED
      BY <2>1, <2>11, <2>13, <2>14, <2>16, <2>17, <3>1, <3>2
  <2>19. \A i \in 1 .. n : MY_COLOR(p, i) <= MY_COLOR(m, i) - MY_COLOR(cost, i)
    <3>1. \A i \in 1 .. n : v[i] <= w[i]
      BY <1>10, <2>13
    <3>2. QED
      BY <1>7, <1>10, <2>13, <3>1
  <2>20. QED
    BY <1>1, <1>8, <2>2, <2>9, <2>11, <2>12, <2>18, <2>19 DEF Left
<1>14. QED
  BY <1>12, <1>13

(* What addMana adds, unless a field overflows.                            *)
Overflows(m, c) ==
  \/ MY_COLOR(m, c) = Base - 1
  \/ cmc(m) >= IF c = GENERIC THEN Base - 2 ELSE Base - 1

(* Plus adds one to a field and to the total, two if the field is the      *)
(* total.                                                                  *)
LEMMA PlusAdds ==
  ASSUME NEW m \in Ints, NEW c \in manatype
  PROVE  /\ Plus(m, c) \in Ints
         /\ ~Overflows(m, c) =>
              /\ cmc(Plus(m, c)) = cmc(m) + IF c = GENERIC THEN 2 ELSE 1
              /\ \A i \in 1 .. COLORLESS :
                   MY_COLOR(Plus(m, c), i) = IF i = c THEN MY_COLOR(m, i) + 1 ELSE MY_COLOR(m, i)
<1>1. m \in Nat /\ c \in Nat /\ c \in 0 .. Top /\ 0 \in 0 .. Top
      /\ c \in GENERIC .. COLORLESS + 1 /\ 0 \in GENERIC .. COLORLESS + 1
  BY IntsAreNat, ManaNumbers DEF manatype, Top
<1>2. PICK a \in Nat : a = unit[c] /\ unit[0] = 1
  BY <1>1, Units
<1>3. PICK n \in Nat : n = m + a + 1
  BY <1>1
<1>4. Plus(m, c) = Wrapped(n)
  BY <1>2, <1>3 DEF Plus
<1>5. Plus(m, c) \in Ints
  BY <1>4, Filled
<1>6. /\ cmc(m) = MY_COLOR(m, 0) /\ MY_COLOR(m, 0) \in Nat /\ MY_COLOR(m, 0) < Base
      /\ MY_COLOR(m, c) \in Nat /\ MY_COLOR(m, c) < Base
  BY <1>1, Digits, ManaNumbers DEF cmc
<1>7. ASSUME ~Overflows(m, c)
      PROVE  /\ n \in Ints /\ MY_COLOR(n, 0) = MY_COLOR(m, 0) + IF c = GENERIC THEN 2 ELSE 1
             /\ \A i \in 1 .. COLORLESS :
                  MY_COLOR(n, i) = IF i = c THEN MY_COLOR(m, i) + 1 ELSE MY_COLOR(m, i)
  <2>0. \A i \in 1 .. COLORLESS : i \in GENERIC .. COLORLESS + 1 /\ i # 0
    BY ManaNumbers
  <2>1. CASE c = 0
    <3>1. n = m + 2 * unit[0]
      BY <1>1, <1>2, <1>3, <2>1
    <3>2. MY_COLOR(m, 0) + 2 \in 0 .. Base - 1 /\ 2 \in Int
      BY <1>6, <1>7, <2>1, ManaNumbers DEF Overflows
    <3>3. n \in Ints /\ MY_COLOR(n, 0) = MY_COLOR(m, 0) + 2 /\ SameBut(n, m, 0)
      BY <1>1, <3>1, <3>2, AddAt
    <3>4. QED
      BY <2>0, <2>1, <3>3, ManaNumbers DEF SameBut
  <2>2. CASE c # 0
    <3>1. PICK k : k = m + 1 * unit[0]
      OBVIOUS
    <3>2. MY_COLOR(m, 0) + 1 \in 0 .. Base - 1 /\ 1 \in Int
      BY <1>6, <1>7, <2>2, ManaNumbers DEF Overflows
    <3>3. k \in Ints /\ MY_COLOR(k, 0) = MY_COLOR(m, 0) + 1 /\ SameBut(k, m, 0)
      BY <1>1, <3>1, <3>2, AddAt
    <3>4. MY_COLOR(k, c) = MY_COLOR(m, c)
      BY <1>1, <2>2, <3>3 DEF SameBut
    <3>5. MY_COLOR(k, c) + 1 \in 0 .. Base - 1
      BY <1>6, <1>7, <3>4, ManaNumbers DEF Overflows
    <3>6. n = k + 1 * unit[c]
      BY <1>1, <1>2, <1>3, <3>1
    <3>7. n \in Ints /\ MY_COLOR(n, c) = MY_COLOR(k, c) + 1 /\ SameBut(n, k, c)
      BY <1>1, <3>2, <3>3, <3>5, <3>6, AddAt
    <3>8. MY_COLOR(n, 0) = MY_COLOR(k, 0)
      BY <1>1, <2>2, <3>7 DEF SameBut
    <3>9. ASSUME NEW i \in 1 .. COLORLESS
          PROVE  MY_COLOR(n, i) = IF i = c THEN MY_COLOR(m, i) + 1 ELSE MY_COLOR(m, i)
      <4>1. MY_COLOR(k, i) = MY_COLOR(m, i)
        BY <2>0, <3>3 DEF SameBut
      <4>2. i # c => MY_COLOR(n, i) = MY_COLOR(k, i)
        BY <2>0, <3>7 DEF SameBut
      <4>3. QED
        BY <3>4, <3>7, <4>1, <4>2
    <3>10. QED
      BY <2>2, <3>3, <3>7, <3>8, <3>9, ManaNumbers
  <2>3. QED
    BY <2>1, <2>2
<1>8. ASSUME ~Overflows(m, c)
      PROVE  /\ Plus(m, c) = n
             /\ cmc(Plus(m, c)) = cmc(m) + IF c = GENERIC THEN 2 ELSE 1
  <2>1. Plus(m, c) = n
    BY <1>4, <1>7, <1>8, Filled
  <2>2. cmc(n) = MY_COLOR(n, 0)
    BY ManaNumbers DEF cmc
  <2>3. QED
    BY <1>6, <1>7, <1>8, <2>1, <2>2
<1>9. QED
  BY <1>5, <1>7, <1>8

(* A mana text, as the sum that Parsed wraps.                              *)
Adds(text) == [i \in Symbols |-> text.symbols[i] * (unit[i] + 1)]

(* The number and what each symbol counts are added up.                    *)
LEMMA ParsedIsSum ==
  ASSUME NEW text \in Texts
  PROVE  /\ Parsed(text) = Wrapped(text.number + SumOver(Adds(text), 1 .. COLORLESS))
         /\ text.number \in Nat
         /\ \A i \in 1 .. COLORLESS :
              /\ text.symbols[i] \in Nat /\ Adds(text)[i] \in Nat
              /\ Adds(text)[i] = text.symbols[i] * (unit[i] + 1)
<1>1. PICK w, x : w = Adds(text) /\ x = text.symbols
  OBVIOUS
<1>2. text.number \in Nat /\ \A i \in 1 .. COLORLESS : x[i] \in Nat
  BY <1>1, ManaAssumption, ManaNumbers DEF Texts, ManaAssumption
<1>3. \A i \in 1 .. COLORLESS : w[i] = x[i] * (unit[i] + 1) /\ w[i] \in Nat
  <2>1. SUFFICES ASSUME NEW i \in 1 .. COLORLESS
                 PROVE  w[i] = x[i] * (unit[i] + 1) /\ w[i] \in Nat
    OBVIOUS
  <2>2. i \in Symbols /\ i \in 0 .. Top
    BY ManaNumbers DEF Top
  <2>3. PICK a \in Nat, b \in Nat : a = unit[i] /\ b = x[i]
    BY <1>2, <2>2, Units
  <2>4. w[i] = x[i] * (unit[i] + 1)
    BY <1>1, <2>2 DEF Adds
  <2>5. b * (a + 1) \in Nat
    OBVIOUS
  <2>6. QED
    BY <2>3, <2>4, <2>5
<1>4. IsFiniteSet(Symbols)
  BY FS_Interval, ManaNumbers
<1> DEFINE pick(r) == CHOOSE s \in r : TRUE
           Is(g) == g = [r \in SUBSET Symbols |-> IF r = {} THEN 0
                           ELSE text.symbols[pick(r)] * (unit[pick(r)] + 1) + g[r \ {pick(r)}]]
           F == CHOOSE g : Is(g)
<1>5. Parsed(text) = Wrapped(text.number + F[Symbols])
  BY DEF Parsed, MapThenSumSet, MapThenFoldSet
<1>6. ASSUME NEW r \in SUBSET Symbols, r # {}
      PROVE  /\ text.symbols[pick(r)] * (unit[pick(r)] + 1) = w[Pick(r)]
             /\ Rest(r) = r \ {pick(r)}
  <2>1. Pick(r) = pick(r)
    BY DEF Pick
  <2>2. Pick(r) \in 1 .. COLORLESS
    BY <1>6, ManaNumbers DEF Pick
  <2>3. QED
    BY <1>1, <1>3, <2>1, <2>2, Zenon DEF Rest
<1>7. ASSUME NEW g PROVE Is(g) <=> Sums(g, w, SUBSET Symbols)
  <2>1. ASSUME NEW r \in SUBSET Symbols
        PROVE  (IF r = {} THEN 0
                ELSE text.symbols[pick(r)] * (unit[pick(r)] + 1) + g[r \ {pick(r)}])
                 = IF r = {} THEN 0 ELSE w[Pick(r)] + g[Rest(r)]
    <3>1. CASE r = {}
      BY <3>1, Zenon
    <3>2. CASE r # {}
      <4>1. text.symbols[pick(r)] * (unit[pick(r)] + 1) = w[Pick(r)]
        BY <1>6, <3>2, Zenon
      <4>2. r \ {pick(r)} = Rest(r)
        BY <1>6, <3>2, Zenon
      <4>3. QED
        BY <3>2, <4>1, <4>2, Zenon
    <3>3. QED
      BY <3>1, <3>2, Zenon
  <2>2. QED
    BY <2>1, Zenon DEF Sums
<1> HIDE DEF Is
<1>8. \E g : Is(g)
  <2>1. PICK g \in [SUBSET Symbols -> Nat] : Sums(g, w, SUBSET Symbols)
    BY <1>3, <1>4, SumsExist, ManaNumbers
  <2>2. QED
    BY <1>7, <2>1, Zenon
<1>9. Sums(F, w, SUBSET Symbols)
  BY <1>7, <1>8, Zenon
<1> HIDE DEF F
<1>10. Symbols \in SUBSET Symbols
  OBVIOUS
<1>11. SumOver(w, Symbols) = F[Symbols]
  <2>1. \A i \in Symbols : w[i] \in Nat
    BY <1>3, ManaNumbers
  <2>2. PICK S, f : S = Symbols /\ f = F
    OBVIOUS
  <2>3. /\ IsFiniteSet(S) /\ Sums(f, w, SUBSET S) /\ S \in SUBSET S
        /\ \A i \in S : w[i] \in Nat
    BY <1>4, <1>9, <2>1, <2>2
  <2>4. SumOver(w, S) = f[S]
    BY ONLY <2>3, SumIsSums
  <2>5. QED
    BY <2>2, <2>4
<1>12. QED
  BY <1>1, <1>2, <1>3, <1>5, <1>11, ManaNumbers

(* No mana: every field is 0.                                              *)
LEMMA NoMana ==
  /\ 0 \in Ints
  /\ \A i \in 0 .. Top : MY_COLOR(0, i) = 0
<1>1. 0 \in Ints
  BY Units, ManaNumbers, Filled
<1>2. ASSUME NEW i \in 0 .. Top PROVE MY_COLOR(0, i) = 0
  <2>1. PICK x \in Nat, b \in Nat : x = unit[i] /\ x # 0 /\ b = Base /\ b # 0
    BY Units, ManaNumbers
  <2>2. 0 < x /\ 0 < b
    BY <2>1
  <2>3. Quot(0, x) = 0 /\ Rem(0, b) = 0
    BY <2>1, <2>2, DividedNat
  <2>4. QED
    BY <2>1, <2>3, Digits
<1>3. QED
  BY <1>1, <1>2

(* The first symbols of a text, up to the k-th, in the fields of a number. *)
Holds(n, text, k) ==
  /\ n \in Ints
  /\ MY_COLOR(n, 0) = text.number + SumOver(text.symbols, 1 .. k)
  /\ \A i \in 1 .. COLORLESS :
       MY_COLOR(n, i) = IF i <= k THEN text.symbols[i] ELSE 0

(* A text whose number and symbols together fit in a field.                *)
IsCost(text) ==
  text \in Texts /\ text.number + SumOver(text.symbols, 1 .. COLORLESS) < Base

(* A text whose total fits in a field fills each field with its symbols.   *)
LEMMA ParsedHolds ==
  ASSUME NEW text, IsCost(text)
  PROVE  Holds(Parsed(text), text, COLORLESS)
<1>1. PICK n \in Nat, b \in Nat : n = COLORLESS /\ b = Base /\ b # 0
  BY ManaNumbers
<1>a. PICK d \in Nat : d = text.number
  BY ParsedIsSum DEF IsCost
<1>b. PICK x, w : x = text.symbols /\ w = Adds(text)
  OBVIOUS
<1>2. x = text.symbols /\ w = Adds(text) /\ d = text.number
  BY <1>a, <1>b
<1>3. /\ Parsed(text) = Wrapped(d + SumOver(w, 1 .. n))
      /\ \A i \in 1 .. n : x[i] \in Nat /\ w[i] \in Nat /\ w[i] = x[i] * (unit[i] + 1)
      /\ d + SumOver(x, 1 .. n) < b
  BY <1>1, <1>2, ParsedIsSum DEF IsCost
<1>4. \A k \in 0 .. n : SumOver(x, 1 .. k) \in Nat /\ d + SumOver(x, 1 .. k) < b
  <2>1. SUFFICES ASSUME NEW k \in 0 .. n
                 PROVE  SumOver(x, 1 .. k) \in Nat /\ d + SumOver(x, 1 .. k) < b
    OBVIOUS
  <2>2. SumOver(x, 1 .. k) <= SumOver(x, 1 .. n) /\ SumOver(x, 1 .. k) \in Nat
    BY <1>3, SumLonger
  <2>3. SumOver(x, 1 .. n) \in Nat
    BY <1>3, SumLonger
  <2>4. QED
    BY <1>3, <2>2, <2>3
<1> DEFINE V(k) == d + SumOver(w, 1 .. k)
           A == {k \in Nat : k <= n => Holds(V(k), text, k)}
<1>5. 0 \in A
  <2>1. V(0) = d /\ SumOver(x, 1 .. 0) = 0
    BY SumUpToZero
  <2>2. 0 \in 0 .. n
    OBVIOUS
  <2>3. d < b
    BY <1>4, <2>1, <2>2
  <2>4. /\ 0 \in Ints /\ MY_COLOR(0, 0) = 0
        /\ \A i \in 1 .. COLORLESS : MY_COLOR(0, i) = 0
        /\ 0 \in GENERIC .. COLORLESS + 1
        /\ \A i \in 1 .. COLORLESS : i \in GENERIC .. COLORLESS + 1 /\ i # 0
    <3>1. 0 \in 0 .. Top /\ 0 \in GENERIC .. COLORLESS + 1
      BY ManaNumbers
    <3>2. \A i \in 1 .. COLORLESS : i \in 0 .. Top
      BY ManaNumbers DEF Top
    <3>3. \A i \in 1 .. COLORLESS : i \in GENERIC .. COLORLESS + 1 /\ i # 0
      BY ManaNumbers
    <3>4. QED
      BY <3>1, <3>2, <3>3, NoMana
  <2>5. d = 0 + d * unit[0]
    BY Units
  <2>6. MY_COLOR(0, 0) + d \in 0 .. Base - 1 /\ d \in Int
    BY <1>1, <2>3, <2>4
  <2>7. d \in Ints /\ MY_COLOR(d, 0) = MY_COLOR(0, 0) + d /\ SameBut(d, 0, 0)
    BY <2>4, <2>5, <2>6, AddAt
  <2>8. \A i \in 1 .. COLORLESS : MY_COLOR(d, i) = 0 /\ ~(i <= 0)
    BY <2>4, <2>7 DEF SameBut
  <2>9. MY_COLOR(d, 0) = text.number + SumOver(x, 1 .. 0)
    BY <1>2, <2>1, <2>4, <2>7
  <2>10. Holds(V(0), text, 0)
    BY <1>2, <2>1, <2>7, <2>8, <2>9 DEF Holds
  <2>11. QED
    BY <2>10
<1>6. ASSUME NEW k \in Nat, k \in A PROVE k + 1 \in A
  <2>1. SUFFICES ASSUME k + 1 <= n PROVE Holds(V(k + 1), text, k + 1)
    OBVIOUS
  <2>2. PICK p : p = V(k)
    OBVIOUS
  <2>3. Holds(p, text, k)
    BY <1>6, <2>1, <2>2
  <2>4. /\ k + 1 \in 1 .. n /\ k + 1 \in 0 .. Top /\ k + 1 # 0 /\ ~(k + 1 <= k)
        /\ k + 1 \in 1 .. COLORLESS
        /\ k + 1 \in GENERIC .. COLORLESS + 1 /\ 0 \in GENERIC .. COLORLESS + 1
        /\ k \in 0 .. n /\ k + 1 \in 0 .. n
        /\ \A i \in 1 .. COLORLESS : i \in GENERIC .. COLORLESS + 1 /\ i # 0
    BY <1>1, <2>1, ManaNumbers DEF Top
  <2>5. PICK a \in Nat, t \in Nat : a = unit[k + 1] /\ t = x[k + 1] /\ w[k + 1] = t * (a + 1)
    BY <1>3, <2>4, Units
  <2>6. /\ SumOver(w, 1 .. (k + 1)) = SumOver(w, 1 .. k) + w[k + 1]
        /\ SumOver(w, 1 .. k) \in Nat
        /\ SumOver(x, 1 .. (k + 1)) = SumOver(x, 1 .. k) + t
    <3>1. \A i \in 1 .. (k + 1) : w[i] \in Nat /\ x[i] \in Nat
      BY <1>3, <2>1
    <3>2. QED
      BY <2>5, <3>1, SumUpTo
  <2>7. PICK q : q = p + t * unit[0]
    OBVIOUS
  <2>8. MY_COLOR(p, 0) + t \in 0 .. Base - 1
    <3>1. MY_COLOR(p, 0) = d + SumOver(x, 1 .. k)
      BY <1>2, <2>3 DEF Holds
    <3>2. SumOver(x, 1 .. k) \in Nat /\ d + SumOver(x, 1 .. (k + 1)) < b
      BY <1>4, <2>4
    <3>3. QED
      BY <1>1, <2>6, <3>1, <3>2
  <2>9. q \in Ints /\ MY_COLOR(q, 0) = MY_COLOR(p, 0) + t /\ SameBut(q, p, 0)
    BY <2>3, <2>4, <2>7, <2>8, AddAt DEF Holds
  <2>10. MY_COLOR(q, k + 1) = 0
    BY <2>3, <2>4, <2>9 DEF Holds, SameBut
  <2>11. PICK r : r = q + t * unit[k + 1]
    OBVIOUS
  <2>12. MY_COLOR(q, k + 1) + t \in 0 .. Base - 1
    <3>1. SumOver(x, 1 .. k) \in Nat /\ d + SumOver(x, 1 .. (k + 1)) < b
      BY <1>4, <2>4
    <3>2. QED
      BY <1>1, <2>6, <2>10, <3>1
  <2>13. r \in Ints /\ MY_COLOR(r, k + 1) = MY_COLOR(q, k + 1) + t /\ SameBut(r, q, k + 1)
    BY <2>4, <2>9, <2>11, <2>12, AddAt
  <2>14. r = V(k + 1)
    <3>1. PICK s \in Nat : s = SumOver(w, 1 .. k)
      BY <2>6
    <3>2. p = d + s /\ V(k + 1) = d + (s + t * (a + 1))
      BY <2>2, <2>5, <2>6, <3>1
    <3>3. t * (a + 1) = t * a + t /\ t * unit[0] = t /\ t * a \in Nat
      BY Units
    <3>4. r = (d + s + t) + t * a
      BY <2>5, <2>7, <2>11, <3>2, <3>3
    <3>5. QED
      BY ONLY <3>2, <3>3, <3>4, d \in Nat, s \in Nat, t \in Nat
  <2>15. MY_COLOR(r, 0) = d + SumOver(x, 1 .. (k + 1))
    <3>1. MY_COLOR(r, 0) = MY_COLOR(q, 0)
      BY <2>4, <2>13 DEF SameBut
    <3>2. MY_COLOR(p, 0) = d + SumOver(x, 1 .. k)
      BY <1>2, <2>3 DEF Holds
    <3>3. SumOver(x, 1 .. k) \in Nat
      BY <1>4, <2>4
    <3>4. QED
      BY <2>6, <2>9, <3>1, <3>2, <3>3
  <2>16. ASSUME NEW i \in 1 .. COLORLESS
         PROVE  MY_COLOR(r, i) = IF i <= k + 1 THEN x[i] ELSE 0
    <3>1. CASE i = k + 1
      BY <2>5, <2>10, <2>13, <3>1
    <3>2. CASE i # k + 1
      <4>1. MY_COLOR(r, i) = MY_COLOR(q, i)
        BY <2>4, <2>13, <3>2 DEF SameBut
      <4>2. MY_COLOR(q, i) = MY_COLOR(p, i)
        BY <2>4, <2>9 DEF SameBut
      <4>3. MY_COLOR(p, i) = IF i <= k THEN x[i] ELSE 0
        BY <1>2, <2>3 DEF Holds
      <4>4. i <= k + 1 <=> i <= k
        BY <1>1, <3>2
      <4>5. QED
        BY <4>1, <4>2, <4>3, <4>4
    <3>3. QED
      BY <3>1, <3>2
  <2> HIDE DEF V
  <2>17. QED
    BY <1>2, <2>13, <2>14, <2>15, <2>16 DEF Holds
<1>7. Nat \subseteq A
  <2> HIDE DEF A
  <2>1. QED
    BY <1>5, <1>6, SetInduction
<1>8. Holds(V(n), text, n)
  BY <1>7
<1>9. V(n) \in Ints
  BY <1>8 DEF Holds
<1>10. Parsed(text) = V(n)
  <2>1. V(n) \in Nat
    BY <1>9, IntsAreNat
  <2> HIDE DEF V
  <2>2. Wrapped(V(n)) = V(n)
    BY <1>9, <2>1, Filled
  <2>3. Parsed(text) = Wrapped(V(n))
    BY <1>3 DEF V
  <2>4. QED
    BY <2>2, <2>3
<1> HIDE DEF V
<1>11. QED
  BY <1>1, <1>8, <1>10

(* Paying leaves no more colours than the total, ...                       *)
LEMMA PaidLeaves ==
  ASSUME NEW m \in Ints, NEW cost \in Ints, AtLeast(m, cost)
  PROVE  /\ Minus(m, cost) \in Ints
         /\ Coloured(Minus(m, cost), Symbols) <= cmc(Minus(m, cost))
<1>1. PICK p : p = Minus(m, cost)
  OBVIOUS
<1>2. Left(p, m, cost)
  BY <1>1, MinusLeaves
<1>3. p \in Ints
  BY <1>2 DEF Left
<1>4. Coloured(p, Symbols) = SumOver(Of(p), 1 .. COLORLESS)
  BY <1>3, ColouredIsSum, ManaNumbers
<1>5. cmc(p) \in Nat
  <2>1. p \in Nat /\ 0 \in 0 .. Top
    BY <1>3, IntsAreNat, ManaNumbers
  <2>2. QED
    BY <2>1, Digits, ManaNumbers DEF cmc
<1>6. SumOver(Of(p), 1 .. COLORLESS) \in Int
  <2>1. PICK w, n : w = Of(p) /\ n = COLORLESS
    OBVIOUS
  <2>2. n \in Nat /\ \A i \in 1 .. n : w[i] \in Nat
    BY <1>3, <2>1, OfType, ManaNumbers
  <2>3. SumOver(w, 1 .. n) \in Nat
    BY <2>2, SumLonger
  <2>4. QED
    BY <2>1, <2>3
<1>7. QED
  BY <1>1, <1>2, <1>3, <1>4, <1>5, <1>6 DEF Left

(* ... nor does adding, unless a field overflows.                          *)
LEMMA AddedLeaves ==
  ASSUME NEW m \in Ints, NEW c \in manatype,
         Coloured(m, Symbols) <= cmc(m), ~Overflows(m, c)
  PROVE  Coloured(Plus(m, c), Symbols) <= cmc(Plus(m, c))
<1>1. PICK p : p = Plus(m, c)
  OBVIOUS
<1>2. /\ p \in Ints
      /\ cmc(p) = cmc(m) + IF c = GENERIC THEN 2 ELSE 1
      /\ \A i \in 1 .. COLORLESS :
           MY_COLOR(p, i) = IF i = c THEN MY_COLOR(m, i) + 1 ELSE MY_COLOR(m, i)
  BY <1>1, PlusAdds
<1>3. PICK n \in Nat : n = COLORLESS
  BY ManaNumbers
<1>4. PICK v, w : v = Of(m) /\ w = Of(p)
  OBVIOUS
<1>5. \A i \in 1 .. n : v[i] \in Nat /\ w[i] = IF i = c THEN v[i] + 1 ELSE v[i]
  BY <1>2, <1>3, <1>4, OfType
<1>6. /\ Coloured(m, Symbols) = SumOver(v, 1 .. n)
      /\ Coloured(p, Symbols) = SumOver(w, 1 .. n)
  BY <1>2, <1>3, <1>4, ColouredIsSum, ManaNumbers
<1>7. SumOver(v, 1 .. n) \in Nat /\ cmc(m) \in Nat
  <2>1. SumOver(v, 1 .. n) \in Nat
    BY <1>5, SumLonger
  <2>2. m \in Nat /\ 0 \in 0 .. Top
    BY IntsAreNat, ManaNumbers
  <2>3. QED
    BY <2>1, <2>2, Digits, ManaNumbers DEF cmc
<1>8. SumOver(w, 1 .. n) <= SumOver(v, 1 .. n) + 1
  <2>1. CASE c \in 1 .. n
    <3>1. /\ \A i \in 1 .. n : v[i] \in Nat /\ (i # c => w[i] = v[i])
          /\ w[c] = v[c] + 1
      BY <1>5, <2>1
    <3>2. SumOver(w, 1 .. n) = SumOver(v, 1 .. n) + 1
      BY ONLY n \in Nat, <2>1, <3>1, SumOneMore
    <3>3. QED
      BY <1>7, <3>2
  <2>2. CASE c \notin 1 .. n
    <3>1. \A i \in 1 .. n : v[i] \in Nat /\ v[i] = w[i]
      BY <1>5, <2>2
    <3>2. SumOver(v, 1 .. n) = SumOver(w, 1 .. n)
      <4>1. IsFiniteSet(1 .. n)
        BY FS_Interval
      <4>2. QED
        BY <3>1, <4>1, SumSame
    <3>3. QED
      BY <1>7, <3>2
  <2>3. QED
    BY <2>1, <2>2
<1>9. SumOver(w, 1 .. n) \in Nat
  <2>1. \A i \in 1 .. n : w[i] \in Nat
    BY <1>5
  <2>2. QED
    BY <2>1, SumLonger
<1>10. cmc(p) >= cmc(m) + 1
  BY <1>2, <1>7
<1>11. cmc(p) \in Int
  BY <1>2, <1>7
<1>12. Coloured(p, Symbols) <= cmc(p)
  BY <1>6, <1>7, <1>8, <1>9, <1>10, <1>11
<1>13. QED
  BY <1>1, <1>12

(* A text is an int, however much it asks for.                             *)
LEMMA ParsedIsInt == \A text \in Texts : Parsed(text) \in Ints
<1>1. SUFFICES ASSUME NEW text \in Texts PROVE Parsed(text) \in Ints
  OBVIOUS
<1>2. PICK d \in Nat : d = text.number
  BY ParsedIsSum
<1>3. PICK s \in Nat : s = SumOver(Adds(text), 1 .. COLORLESS)
  <2>1. PICK w, n : w = Adds(text) /\ n = COLORLESS
    OBVIOUS
  <2>2. n \in Nat /\ \A i \in 1 .. n : w[i] \in Nat
    BY <2>1, ParsedIsSum, ManaNumbers
  <2>3. SumOver(w, 1 .. n) \in Nat
    BY <2>2, SumLonger
  <2>4. QED
    BY <2>1, <2>3
<1>4. Parsed(text) = Wrapped(d + s)
  BY <1>2, <1>3, ParsedIsSum
<1>5. QED
  BY <1>4, Filled

(* What PoolTypeOK says, of any pool.                                      *)
IsPool(m, o) ==
  m \in Ints /\ o \in BOOLEAN /\ (~o => Coloured(m, Symbols) <= cmc(m))

(* mana.cpp:47-51: what addMana, payMana and emptyPool leave is an int,    *)
(* and until a field has overflowed its colours are no more than its       *)
(* total, for any number of colours and any width of a field.              *)
THEOREM PoolTypeCorrect == ManaSpec => []PoolTypeOK
<1>0. /\ PoolTypeOK <=> IsPool(manapool, overflowed)
      /\ PoolTypeOK' <=> IsPool(manapool', overflowed')
  BY DEF PoolTypeOK, IsPool
<1>1. IsPool(0, FALSE)
  <2>1. PICK w : w = Of(0)
    OBVIOUS
  <2>2. \A i \in 1 .. COLORLESS : w[i] \in Nat /\ w[i] = 0
    <3>1. \A i \in 1 .. COLORLESS : i \in 0 .. Top
      BY ManaNumbers DEF Top
    <3>2. QED
      BY <2>1, <3>1, NoMana, OfType
  <2>3. SumOver(w, 1 .. COLORLESS) = 0
    <3>1. 0 \in 0 .. COLORLESS /\ \A i \in (0 + 1) .. COLORLESS : w[i] = 0
      BY <2>2, ManaNumbers
    <3>2. SumOver(w, 1 .. COLORLESS) = SumOver(w, 1 .. 0)
      BY <2>2, <3>1, SumTail, ManaNumbers
    <3>3. QED
      BY <3>2, SumUpToZero
  <2>4. Coloured(0, Symbols) = 0 /\ cmc(0) = 0
    <3>1. Coloured(0, Symbols) = SumOver(w, 1 .. COLORLESS)
      BY <2>1, NoMana, ColouredIsSum, ManaNumbers
    <3>2. 0 \in 0 .. Top
      BY ManaNumbers
    <3>3. QED
      BY <2>3, <3>1, <3>2, NoMana, ManaNumbers DEF cmc
  <2>5. QED
    BY <2>4, NoMana DEF IsPool
<1>2. ManaInit => PoolTypeOK
  BY <1>0, <1>1 DEF ManaInit
<1>3. ASSUME PoolTypeOK, [ManaNext]_manaVars PROVE PoolTypeOK'
  <2>0. IsPool(manapool, overflowed)
    BY <1>0, <1>3
  <2>1. ASSUME NEW c \in manatype, addMana(c) PROVE IsPool(manapool', overflowed')
    <3>1. /\ ~overflowed /\ manapool' = Plus(manapool, c)
          /\ overflowed' = Overflows(manapool, c)
      BY <2>1 DEF addMana, Overflows
    <3>2. manapool \in Ints /\ Coloured(manapool, Symbols) <= cmc(manapool)
      BY <2>0, <3>1 DEF IsPool
    <3>3. manapool' \in Ints
      BY <3>1, <3>2, PlusAdds
    <3>4. overflowed' \in BOOLEAN
      BY <3>1 DEF Overflows
    <3>5. ~overflowed' => Coloured(manapool', Symbols) <= cmc(manapool')
      BY <3>1, <3>2, AddedLeaves
    <3>6. QED
      BY <3>3, <3>4, <3>5 DEF IsPool
  <2>2. ASSUME NEW text \in Texts, payMana(Parsed(text))
        PROVE  IsPool(manapool', overflowed')
    <3>1. PICK cost : cost = Parsed(text)
      OBVIOUS
    <3>2. AtLeast(manapool, cost) /\ manapool' = Minus(manapool, cost) /\ overflowed' = overflowed
      BY <2>2, <3>1 DEF payMana
    <3>3. cost \in Ints /\ manapool \in Ints /\ overflowed \in BOOLEAN
      BY <2>0, <3>1, ParsedIsInt DEF IsPool
    <3>4. manapool' \in Ints /\ Coloured(manapool', Symbols) <= cmc(manapool')
      BY <3>2, <3>3, PaidLeaves
    <3>5. QED
      BY <3>2, <3>3, <3>4 DEF IsPool
  <2>3. CASE emptyPool
    BY <1>0, <1>1, <2>3 DEF emptyPool
  <2>4. CASE UNCHANGED manaVars
    BY <1>0, <2>0, <2>4 DEF manaVars
  <2>5. QED
    BY <1>0, <1>3, <2>1, <2>2, <2>3, <2>4 DEF ManaNext
<1>4. QED
  BY <1>2, <1>3, PTL DEF ManaSpec

(* The colours of a cost are no more than its total.                       *)
LEMMA CostsCount ==
  \A cost \in Costs : cost \in Ints /\ SumOver(Of(cost), 1 .. COLORLESS) <= cmc(cost)
<1>1. SUFFICES ASSUME NEW cost \in Costs
               PROVE  cost \in Ints /\ SumOver(Of(cost), 1 .. COLORLESS) <= cmc(cost)
  OBVIOUS
<1>2. PICK text \in Texts :
        /\ cost = Parsed(text)
        /\ text.number + SumOver(text.symbols, Symbols) < Base
  BY <1>1 DEF Costs, SumOver
<1>3. IsCost(text)
  BY <1>2, ManaNumbers DEF IsCost
<1>4. Holds(cost, text, COLORLESS)
  BY <1>2, <1>3, ParsedHolds
<1>5. PICK n \in Nat, d \in Nat : n = COLORLESS /\ d = text.number
  BY ParsedIsSum, ManaNumbers
<1>6. PICK x, w : x = text.symbols /\ w = Of(cost)
  OBVIOUS
<1>7. /\ cost \in Ints /\ cmc(cost) = d + SumOver(x, 1 .. n)
      /\ \A i \in 1 .. n : MY_COLOR(cost, i) = x[i]
  BY <1>4, <1>5, <1>6, ManaNumbers DEF Holds, cmc
<1>8. \A i \in 1 .. n : w[i] \in Nat /\ w[i] = x[i]
  BY <1>5, <1>6, <1>7, OfType
<1>9. SumOver(w, 1 .. n) = SumOver(x, 1 .. n) /\ SumOver(w, 1 .. n) \in Nat
  <2>1. IsFiniteSet(1 .. n)
    BY FS_Interval
  <2>2. QED
    BY <1>8, <2>1, SumSame, SumType
<1>10. QED
  BY <1>5, <1>6, <1>7, <1>9

(* What is spent of each kind is what a payment asks, said with sums.      *)
LEMMA PaymentSums ==
  ASSUME NEW m \in Ints, NEW cost \in Ints, NEW spent
  PROVE  spent \in Payments(m, cost) <=>
           /\ spent \in [Symbols -> 0 .. Base - 1]
           /\ \A s \in Symbols : spent[s] \in MY_COLOR(cost, s) .. MY_COLOR(m, s)
           /\ cmc(cost) - SumOver(spent, Symbols)
                \in 0 .. cmc(m) - SumOver(Of(m), Symbols)
<1>1. Coloured(m, Symbols) = SumOver(Of(m), Symbols)
  BY ColouredIsSum
<1>2. IsPayment(spent, m, cost) <=>
        /\ \A s \in Symbols : spent[s] \in MY_COLOR(cost, s) .. MY_COLOR(m, s)
        /\ cmc(cost) - SumOver(spent, Symbols)
             \in 0 .. cmc(m) - Coloured(m, Symbols)
  BY DEF IsPayment, SumOver
<1>3. spent \in Payments(m, cost) <=>
        spent \in [Symbols -> 0 .. Base - 1] /\ IsPayment(spent, m, cost)
  BY Zenon DEF Payments
<1>4. QED
  BY <1>1, <1>2, <1>3, Zenon

(* The total is the lowest digit.                                          *)
LEMMA CmcType == \A m \in Ints : cmc(m) \in Nat /\ cmc(m) = MY_COLOR(m, 0)
<1>1. 0 \in 0 .. Top
  BY ManaNumbers
<1>2. QED
  BY <1>1, IntsAreNat, Digits, ManaNumbers DEF cmc

(* The payment that Minus makes.                                           *)
LEMMA MinusPays ==
  ASSUME NEW m \in Ints, NEW cost \in Costs, AtLeast(m, cost),
         Coloured(m, Symbols) <= cmc(m)
  PROVE  [s \in Symbols |-> MY_COLOR(m, s) - MY_COLOR(Minus(m, cost), s)] \in Payments(m, cost)
<1>1. cost \in Ints /\ SumOver(Of(cost), 1 .. COLORLESS) <= cmc(cost)
  BY CostsCount
<1>2. PICK p : p = Minus(m, cost)
  OBVIOUS
<1>3. Left(p, m, cost)
  BY <1>1, <1>2, MinusLeaves
<1>4. p \in Ints /\ cmc(p) = cmc(m) - cmc(cost)
  BY <1>3 DEF Left
<1>5. PICK n \in Nat, b \in Nat : n = COLORLESS /\ b = Base
  BY ManaNumbers
<1>6. PICK u, v, w : u = Of(m) /\ v = Of(cost) /\ w = Of(p)
  OBVIOUS
<1>7. \A i \in 1 .. n : /\ u[i] = MY_COLOR(m, i) /\ u[i] \in Nat /\ u[i] < b
                        /\ v[i] = MY_COLOR(cost, i) /\ v[i] \in Nat
                        /\ w[i] = MY_COLOR(p, i) /\ w[i] \in Nat
  BY <1>1, <1>4, <1>5, <1>6, OfType
<1>8. /\ \A i \in 1 .. n : w[i] <= u[i] - v[i]
      /\ \/ /\ \A i \in 1 .. n : w[i] = u[i] - v[i]
            /\ SumOver(w, 1 .. n) < cmc(p)
         \/ SumOver(w, 1 .. n) = cmc(p)
  BY <1>3, <1>5, <1>6, <1>7 DEF Left
<1>9. PICK f : f = [s \in Symbols |-> MY_COLOR(m, s) - MY_COLOR(p, s)]
  OBVIOUS
<1>10. \A i \in 1 .. n : f[i] = u[i] - w[i] /\ f[i] \in Nat /\ u[i] = f[i] + w[i]
  <2>1. \A i \in 1 .. n : f[i] = u[i] - w[i]
    BY <1>5, <1>7, <1>9, ManaNumbers
  <2>2. ASSUME NEW i \in 1 .. n PROVE f[i] \in Nat /\ u[i] = f[i] + w[i]
    <3>1. /\ u[i] \in Nat /\ v[i] \in Nat /\ w[i] \in Nat
          /\ w[i] <= u[i] - v[i] /\ f[i] = u[i] - w[i]
      BY <1>7, <1>8, <2>1
    <3>2. QED
      BY ONLY <3>1
  <2>3. QED
    BY <2>1, <2>2
<1>11. /\ SumOver(f, 1 .. n) \in Nat /\ SumOver(w, 1 .. n) \in Nat
       /\ SumOver(u, 1 .. n) = SumOver(f, 1 .. n) + SumOver(w, 1 .. n)
  BY <1>7, <1>10, SumPlus
<1>12. SumOver(v, 1 .. n) \in Nat
  BY <1>7, SumLonger
<1>13. SumOver(u, 1 .. n) <= cmc(m)
  BY <1>5, <1>6, ColouredIsSum, ManaNumbers
<1>14. cmc(m) \in Nat /\ cmc(cost) \in Nat /\ cmc(p) \in Nat
  BY <1>1, <1>4, CmcType
<1>15. SumOver(f, 1 .. n) <= cmc(cost)
  <2>1. CASE SumOver(w, 1 .. n) = cmc(p)
    BY <1>4, <1>11, <1>13, <1>14, <2>1
  <2>2. CASE \A i \in 1 .. n : w[i] = u[i] - v[i]
    <3>1. \A i \in 1 .. n : f[i] \in Nat /\ f[i] = v[i]
      BY <1>7, <1>10, <2>2
    <3>2. IsFiniteSet(1 .. n)
      BY FS_Interval
    <3>3. SumOver(f, 1 .. n) = SumOver(v, 1 .. n)
      BY <3>1, <3>2, SumSame
    <3>4. QED
      BY <1>1, <1>5, <1>6, <3>3
  <2>3. QED
    BY <1>8, <2>1, <2>2
<1>16. SumOver(w, 1 .. n) <= cmc(p)
  BY <1>8, <1>11, <1>14
<1>17. cmc(cost) - SumOver(f, 1 .. n) \in 0 .. cmc(m) - SumOver(u, 1 .. n)
  BY <1>4, <1>11, <1>13, <1>14, <1>15, <1>16
<1>18. f \in [Symbols -> 0 .. Base - 1]
  <2>1. \A i \in 1 .. n : f[i] \in 0 .. b - 1
    BY <1>7, <1>10
  <2>2. QED
    BY <1>5, <1>9, <2>1, ManaNumbers
<1>19. \A s \in Symbols : f[s] \in MY_COLOR(cost, s) .. MY_COLOR(m, s)
  <2>1. \A i \in 1 .. n : f[i] \in v[i] .. u[i]
    BY <1>7, <1>8, <1>10
  <2>2. QED
    BY <1>5, <1>7, <2>1, ManaNumbers
<1>20. f \in Payments(m, cost)
  BY <1>1, <1>5, <1>6, <1>17, <1>18, <1>19, PaymentSums, ManaNumbers
<1>21. QED
  BY <1>2, <1>9, <1>20

(* A payment needs as much as the cost.                                    *)
LEMMA PaymentNeeds ==
  ASSUME NEW m \in Ints, NEW cost \in Ints, NEW f \in Payments(m, cost),
         Coloured(m, Symbols) <= cmc(m)
  PROVE  AtLeast(m, cost)
<1>1. PICK n \in Nat : n = COLORLESS
  BY ManaNumbers
<1>2. PICK u, v : u = Of(m) /\ v = Of(cost)
  OBVIOUS
<1>3. \A i \in 1 .. n : /\ u[i] = MY_COLOR(m, i) /\ u[i] \in Nat
                        /\ v[i] = MY_COLOR(cost, i) /\ v[i] \in Nat
  BY <1>1, <1>2, OfType
<1>4. /\ \A i \in 1 .. n : f[i] \in v[i] .. u[i]
      /\ cmc(cost) - SumOver(f, 1 .. n) \in 0 .. cmc(m) - SumOver(u, 1 .. n)
  BY <1>1, <1>2, <1>3, PaymentSums, ManaNumbers
<1>5. PICK h : h = [i \in 1 .. n |-> u[i] - f[i]]
  OBVIOUS
<1>6. \A i \in 1 .. n : f[i] \in Nat /\ h[i] \in Nat /\ u[i] = f[i] + h[i] /\ v[i] <= u[i]
  <2>1. \A i \in 1 .. n : f[i] \in Nat /\ f[i] <= u[i] /\ v[i] <= f[i]
    BY <1>3, <1>4
  <2>2. QED
    BY <1>3, <1>5, <2>1
<1>7. /\ SumOver(f, 1 .. n) \in Nat /\ SumOver(h, 1 .. n) \in Nat
      /\ SumOver(u, 1 .. n) = SumOver(f, 1 .. n) + SumOver(h, 1 .. n)
  BY <1>6, SumPlus
<1>8. /\ cmc(m) \in Nat /\ cmc(m) = MY_COLOR(m, 0)
      /\ cmc(cost) \in Nat /\ cmc(cost) = MY_COLOR(cost, 0)
  BY CmcType
<1>9. MY_COLOR(cost, 0) <= MY_COLOR(m, 0)
  BY <1>4, <1>7, <1>8
<1>10. \A i \in 1 .. n : MY_COLOR(cost, i) <= MY_COLOR(m, i)
  BY <1>3, <1>6
<1>11. \A i \in GENERIC .. COLORLESS : i = 0 \/ i \in 1 .. n
  BY <1>1, ManaNumbers
<1>12. QED
  BY <1>9, <1>10, <1>11 DEF AtLeast

(* mana.cpp:7-12: comparing field by field, the total among them, decides  *)
(* whether the pool can pay for a cost.                                    *)
THEOREM EnoughToPay == ManaSpec => []EnoughIffPayable
<1>1. ASSUME PoolTypeOK PROVE EnoughIffPayable
  <2>1. SUFFICES ASSUME ~overflowed, NEW cost \in Costs
                 PROVE  AtLeast(manapool, cost) <=> Payments(manapool, cost) # {}
    BY DEF EnoughIffPayable
  <2>2. manapool \in Ints /\ Coloured(manapool, Symbols) <= cmc(manapool)
    BY <1>1, <2>1 DEF PoolTypeOK
  <2>3. AtLeast(manapool, cost) => Payments(manapool, cost) # {}
    BY <2>2, MinusPays
  <2>4. Payments(manapool, cost) # {} => AtLeast(manapool, cost)
    BY <2>2, CostsCount, PaymentNeeds
  <2>5. QED
    BY <2>3, <2>4
<1>2. QED
  BY <1>1, PoolTypeCorrect, PTL

(* mana.cpp:34-47: what payMana takes from the pool pays for the cost: no  *)
(* field borrows, every colour gives what is asked of it, and no colour is *)
(* taken beyond the total.                                                 *)
THEOREM PaymentMade == ManaSpec => PaysTheCost
<1> DEFINE Pays == \A cost \in Costs : payMana(cost) /\ ~overflowed =>
                     [s \in Symbols |-> MY_COLOR(manapool, s) - MY_COLOR(manapool', s)]
                       \in Payments(manapool, cost)
<1>1. ASSUME PoolTypeOK PROVE Pays
  <2>1. SUFFICES ASSUME NEW cost \in Costs, payMana(cost), ~overflowed
                 PROVE  [s \in Symbols |-> MY_COLOR(manapool, s) - MY_COLOR(manapool', s)]
                          \in Payments(manapool, cost)
    OBVIOUS
  <2>2. AtLeast(manapool, cost) /\ manapool' = Minus(manapool, cost)
    BY <2>1 DEF payMana
  <2>3. manapool \in Ints /\ Coloured(manapool, Symbols) <= cmc(manapool)
    BY <1>1, <2>1 DEF PoolTypeOK
  <2>4. [s \in Symbols |-> MY_COLOR(manapool, s) - MY_COLOR(Minus(manapool, cost), s)]
          \in Payments(manapool, cost)
    BY <2>2, <2>3, MinusPays
  <2>5. QED
    BY <2>2, <2>4
<1>2. ManaSpec => [][Pays]_manaVars
  <2>1. ASSUME PoolTypeOK, [ManaNext]_manaVars PROVE [Pays]_manaVars
    BY <1>1, <2>1
  <2> HIDE DEF Pays
  <2>2. QED
    BY <2>1, PoolTypeCorrect, PTL DEF ManaSpec
<1>3. QED
  BY <1>2 DEF PaysTheCost
=============================================================================
