--------------------------- MODULE PriorityProofs ---------------------------
(***************************************************************************)
(* Theorems about the priority loop, for any number of players and any     *)
(* cards.  IInv is the inductive invariant: TypeOK, what is known between   *)
(* two phases, and where in the lap of the ring the loop is.               *)
(***************************************************************************)
EXTENDS Priority, TLAPS

(* Inside the do-while the player on offer is never the one the lap began  *)
(* with; the call before it is the active player's own.                    *)
LapInv ==
  pc \in {"offer", "choose"} =>
    IF first THEN current = active /\ lastActive = Nobody
             ELSE current # lapStart

IInv == TypeOK /\ LapInv /\ StackEmptyBetweenPhases

-----------------------------------------------------------------------------
(* The ring.                                                               *)

(* nextopponent leads from player to player, and from none to himself.     *)
LEMMA RingType ==
  /\ nextopponent \in [Players -> Players]
  /\ \A p \in Players : nextopponent[p] # p
BY PlayersAssumption DEF nextopponent, Players

(* The distance along the ring tells the players apart.                    *)
LEMMA DistProperties ==
  ASSUME NEW p \in Players
  PROVE  /\ Dist(p, p) = 0
         /\ \A q \in Players : Dist(p, q) \in 0 .. N - 1
         /\ \A q, r \in Players : Dist(p, q) = Dist(p, r) => q = r
BY PlayersAssumption DEF Dist, Players

(* One step along the ring is one further from p, until it is p again.     *)
LEMMA DistStep ==
  ASSUME NEW p \in Players, NEW q \in Players
  PROVE  IF nextopponent[q] = p THEN Dist(p, q) = N - 1
                                ELSE Dist(p, nextopponent[q]) = Dist(p, q) + 1
BY PlayersAssumption DEF Dist, Players, nextopponent

LEMMA LapStartType == TypeOK => lapStart \in Players
BY DEF TypeOK, lapStart

-----------------------------------------------------------------------------

(* Putting an object on the stack and taking one off keeps it a stack.     *)
LEMMA StackType ==
  ASSUME NEW s \in Seq(Objects), NEW o \in Objects
  PROVE  /\ <<o>> \o s \in Seq(Objects)
         /\ <<o>> \o s # <<>>
         /\ s # <<>> => Tail(s) \in Seq(Objects)
<1>1. <<o>> \o s \in Seq(Objects)
  OBVIOUS
<1>2. Len(<<o>> \o s) = 1 + Len(s)
  OBVIOUS
<1>3. <<o>> \o s # <<>>
  BY <1>2
<1>4. s # <<>> => Tail(s) \in Seq(Objects)
  OBVIOUS
<1>5. QED
  BY <1>1, <1>3, <1>4

(* The end of a call of chooseAndUseOpt keeps the loop's variables typed   *)
(* and leaves the do-while exactly when the lap is complete.               *)
LEMMA ReturnsInv ==
  ASSUME IInv, pc \in {"offer", "choose"}, NEW cast \in BOOLEAN, returns(cast)
  PROVE  /\ pc' \in {"offer", "resolve"}
         /\ current' \in Players /\ active' \in Players
         /\ lastActive' \in Players \cup {Nobody} /\ first' = FALSE
         /\ pc' = "offer" => current' # lapStart'
<1>1. current' \in Players /\ current' # current
  BY RingType DEF returns, IInv, TypeOK
<1>2. Nobody \notin Players
  BY PlayersAssumption DEF Nobody, Players
<1>3. ASSUME pc' = "offer" PROVE current' # lapStart'
  <2>1. CASE first
    BY <1>1, <1>2, <1>3, <2>1 DEF returns, lapStart, IInv, LapInv, TypeOK
  <2>2. CASE ~first
    BY <1>1, <1>2, <1>3, <2>2 DEF returns, lapStart, IInv, LapInv, TypeOK
  <2>3. QED
    BY <2>1, <2>2 DEF IInv, TypeOK
<1>4. QED
  BY <1>1, <1>3 DEF returns, IInv, TypeOK

-----------------------------------------------------------------------------

LEMMA InitIInv == Init => IInv
<1>1. ASSUME Init PROVE TypeOK
  <2>1. /\ pc \in {"idle", "offer", "choose", "resolve", "over"}
        /\ active \in Players /\ current \in Players
        /\ lastActive \in Players \cup {Nobody}
        /\ hand \in [Players -> SUBSET Cards]
        /\ library \in [Players -> SUBSET Cards]
        /\ lost \in SUBSET Players
    BY <1>1 DEF Init
  <2>2. first \in BOOLEAN /\ sorceryspeed \in BOOLEAN
        /\ hasCastAnything \in BOOLEAN /\ haswon \in BOOLEAN
    BY <1>1 DEF Init
  <2>3. stack \in Seq(Objects)
    BY <1>1 DEF Init
  <2>4. landsLeft \in [Players -> {0, 1}]
    BY <1>1 DEF Init
  <2>5. QED
    BY <2>1, <2>2, <2>3, <2>4 DEF TypeOK
<1>2. Init => LapInv /\ StackEmptyBetweenPhases
  BY DEF Init, LapInv, StackEmptyBetweenPhases
<1>3. QED
  BY <1>1, <1>2 DEF IInv

(* Every step of the phase or of the game around it keeps IInv.            *)
LEMMA NextIInv == IInv /\ [Next]_vars => IInv'
<1> SUFFICES ASSUME IInv, [Next]_vars PROVE IInv'
  OBVIOUS
<1> USE DEF IInv
<1>1. ASSUME NEW p \in Players, untapstep(p) PROVE IInv'
  BY <1>1 DEF untapstep, TypeOK, LapInv, StackEmptyBetweenPhases, loopVars,
              optVars, lapStart
<1>2. ASSUME NEW p \in Players, drawstep(p) PROVE IInv'
  BY <1>2 DEF drawstep, TypeOK, LapInv, StackEmptyBetweenPhases, loopVars,
              optVars, lapStart
<1>3. ASSUME NEW p \in Players, mainphasemainstep(p) PROVE IInv'
  BY <1>3 DEF mainphasemainstep, TypeOK, LapInv, StackEmptyBetweenPhases,
              optVars, cardVars, lapStart, Nobody
<1>4. CASE damagestep
  BY <1>4 DEF damagestep, TypeOK, LapInv, StackEmptyBetweenPhases, loopVars,
              optVars, cardVars, lapStart
<1>5. CASE givePriority
  BY <1>5 DEF givePriority, stateBasedActions, TypeOK, LapInv, lapStart,
              StackEmptyBetweenPhases, loopVars, cardVars
<1>6. CASE skipPlayer
  <2>1. returns(FALSE) /\ pc = "offer"
    BY <1>6 DEF skipPlayer
  <2>2. TypeOK'
    BY <1>6, <2>1, ReturnsInv
       DEF skipPlayer, stateBasedActions, TypeOK, optVars, cardVars
  <2>3. LapInv' /\ StackEmptyBetweenPhases'
    BY <2>1, ReturnsInv DEF LapInv, StackEmptyBetweenPhases
  <2>4. QED
    BY <2>2, <2>3
<1>7. ASSUME NEW c \in Cards, playLand(c) PROVE IInv'
  <2>1. landsLeft' \in [Players -> {0, 1}]
    BY <1>7 DEF playLand, isCastable, canPlayLand, TypeOK
  <2>2. TypeOK'
    BY <1>7, <2>1 DEF playLand, used, TypeOK, loopVars
  <2>3. QED
    BY <1>7, <2>2 DEF playLand, used, LapInv, StackEmptyBetweenPhases,
                      loopVars, lapStart
<1>8. ASSUME NEW c \in Cards, NEW t \in Targets, castSpell(c, t) PROVE IInv'
  <2> DEFINE o == [kind |-> "spell", card |-> c, ctrl |-> current, tgt |-> t]
  <2>1. o \in Objects
    BY DEF Objects, TypeOK
  <2>2. stack' \in Seq(Objects)
    BY <1>8, <2>1, StackType DEF castSpell, TypeOK
  <2>3. TypeOK'
    BY <1>8, <2>2 DEF castSpell, used, TypeOK, loopVars
  <2>4. QED
    BY <1>8, <2>3 DEF castSpell, used, LapInv, StackEmptyBetweenPhases,
                      loopVars, lapStart
<1>9. ASSUME NEW c \in Cards, NEW t \in Targets, activateAbility(c, t)
      PROVE  IInv'
  <2> DEFINE o == [kind |-> "ability", card |-> c, ctrl |-> current, tgt |-> t]
  <2>1. o \in Objects
    BY DEF Objects, TypeOK
  <2>2. stack' \in Seq(Objects)
    BY <1>9, <2>1, StackType DEF activateAbility, TypeOK
  <2>3. TypeOK'
    BY <1>9, <2>2 DEF activateAbility, used, TypeOK, loopVars
  <2>4. QED
    BY <1>9, <2>3 DEF activateAbility, used, LapInv, StackEmptyBetweenPhases,
                      loopVars, lapStart
<1>10. CASE pass
  <2>1. returns(hasCastAnything) /\ pc = "choose"
    BY <1>10 DEF pass
  <2>2. hasCastAnything \in BOOLEAN
    BY DEF TypeOK
  <2>3. TypeOK'
    BY <1>10, <2>1, <2>2, ReturnsInv DEF pass, TypeOK, optVars, cardVars
  <2>4. LapInv' /\ StackEmptyBetweenPhases'
    BY <2>1, <2>2, ReturnsInv DEF LapInv, StackEmptyBetweenPhases
  <2>5. QED
    BY <2>3, <2>4
<1>11. CASE resolve
  <2>1. stack' \in Seq(Objects)
    BY <1>11 DEF resolve, TypeOK
  <2>2. TypeOK'
    BY <1>11, <2>1 DEF resolve, TypeOK, optVars
  <2>3. QED
    BY <1>11, <2>2 DEF resolve, LapInv, StackEmptyBetweenPhases
<1>12. CASE choicephaseReturns
  BY <1>12 DEF choicephaseReturns, TypeOK, LapInv, StackEmptyBetweenPhases,
               loopVars, optVars, cardVars
<1>13. CASE UNCHANGED vars
  BY <1>13 DEF vars, loopVars, optVars, cardVars, TypeOK, LapInv, lapStart,
               StackEmptyBetweenPhases
<1>14. QED
  BY <1>1, <1>2, <1>3, <1>4, <1>5, <1>6, <1>7, <1>8, <1>9, <1>10, <1>11,
     <1>12, <1>13 DEF Next, OtherSteps, choicephase, UseOption

(* The invariant on which the other theorems rest.                         *)
THEOREM InductiveInvariant == Spec => []IInv
BY InitIInv, NextIInv, PTL DEF Spec

(* The variables of the priority loop keep their types; in particular a    *)
(* player has one land drop or none, whatever is played in answer to what. *)
THEOREM TypeCorrect == Spec => []TypeOK
<1>1. IInv => TypeOK
  BY DEF IInv
<1>2. QED
  BY <1>1, InductiveInvariant, PTL

-----------------------------------------------------------------------------
(* Sorcery speed.                                                          *)

(* That only the active player acts at sorcery speed, and only where it is *)
(* due, keeps the sorceries of the stack his.                              *)
SInv == SorcerySpeedIsSpent /\ SorceriesAreTheActivePlayers

(* A spell of the active player's on top, or one of any speed but sorcery, *)
(* keeps the sorceries of the stack his.                                   *)
LEMMA PushSorcery ==
  ASSUME IInv, SorceriesAreTheActivePlayers, NEW o \in Objects,
         stack' = <<o>> \o stack, active' = active,
         o.kind = "spell" /\ o.card \in Sorceries => o.ctrl = active
  PROVE  SorceriesAreTheActivePlayers'
<1>1. stack \in Seq(Objects)
  BY DEF IInv, TypeOK
<1>2. /\ DOMAIN stack' = 1 .. Len(stack) + 1
      /\ stack'[1] = o
      /\ \A i \in 2 .. Len(stack) + 1 : stack'[i] = stack[i - 1]
  BY <1>1
<1>3. ASSUME NEW i \in DOMAIN stack', stack'[i].kind = "spell",
             stack'[i].card \in Sorceries
      PROVE  stack'[i].ctrl = active
  <2>1. CASE i = 1
    BY <1>2, <1>3, <2>1
  <2>2. CASE i # 1
    <3>1. i - 1 \in DOMAIN stack /\ stack'[i] = stack[i - 1]
      BY <1>1, <1>2, <2>2
    <3>2. QED
      BY <1>3, <3>1 DEF SorceriesAreTheActivePlayers
  <2>3. QED
    BY <2>1, <2>2
<1>4. QED
  BY <1>3 DEF SorceriesAreTheActivePlayers

(* Every step keeps SInv.                                                  *)
LEMMA NextSInv == IInv /\ SInv /\ [Next]_vars => SInv'
<1> SUFFICES ASSUME IInv, SInv, [Next]_vars PROVE SInv'
  OBVIOUS
<1> USE DEF SInv
<1>1. ASSUME UNCHANGED <<stack, active>> PROVE SorceriesAreTheActivePlayers'
  BY <1>1 DEF SorceriesAreTheActivePlayers
<1>2. CASE OtherSteps
  <2>1. ASSUME NEW p \in Players, untapstep(p) \/ drawstep(p) PROVE SInv'
    BY <1>1, <2>1 DEF untapstep, drawstep, loopVars, optVars,
                      SorcerySpeedIsSpent
  <2>2. ASSUME NEW p \in Players, mainphasemainstep(p) PROVE SInv'
    <3>1. stack' = <<>>
      BY <2>2 DEF mainphasemainstep, IInv, StackEmptyBetweenPhases, cardVars
    <3>2. QED
      BY <2>2, <3>1 DEF mainphasemainstep, SorceriesAreTheActivePlayers,
                        SorcerySpeedIsSpent
  <2>3. CASE damagestep
    BY <1>1, <2>3 DEF damagestep, loopVars, optVars, cardVars,
                      SorcerySpeedIsSpent
  <2>4. QED
    BY <1>2, <2>1, <2>2, <2>3 DEF OtherSteps
<1>3. CASE givePriority
  BY <1>1, <1>3 DEF givePriority, loopVars, cardVars, SorcerySpeedIsSpent,
                    IInv, LapInv
<1>4. CASE skipPlayer \/ pass
  BY <1>1, <1>4 DEF skipPlayer, pass, returns, cardVars, SorcerySpeedIsSpent
<1>5. ASSUME NEW c \in Cards, playLand(c) PROVE SInv'
  BY <1>1, <1>5 DEF playLand, used, loopVars, SorcerySpeedIsSpent
<1>6. ASSUME NEW c \in Cards, NEW t \in Targets, castSpell(c, t) PROVE SInv'
  <2> DEFINE o == [kind |-> "spell", card |-> c, ctrl |-> current, tgt |-> t]
  <2>1. o \in Objects
    BY DEF Objects, IInv, TypeOK
  <2>2. c \in Sorceries => current = active
    BY <1>6, CardsAssumption DEF castSpell, isCastable, SorcerySpeedIsSpent
  <2>3. stack' = <<o>> \o stack /\ active' = active
    BY <1>6 DEF castSpell, used, loopVars
  <2>4. SorceriesAreTheActivePlayers'
    BY <2>1, <2>2, <2>3, PushSorcery
  <2>5. QED
    BY <1>6, <2>4 DEF castSpell, used, loopVars, SorcerySpeedIsSpent
<1>7. ASSUME NEW c \in Cards, NEW t \in Targets, activateAbility(c, t)
      PROVE  SInv'
  <2> DEFINE o == [kind |-> "ability", card |-> c, ctrl |-> current, tgt |-> t]
  <2>1. o \in Objects
    BY DEF Objects, IInv, TypeOK
  <2>2. stack' = <<o>> \o stack /\ active' = active
    BY <1>7 DEF activateAbility, used, loopVars
  <2>3. SorceriesAreTheActivePlayers'
    BY <2>1, <2>2, PushSorcery
  <2>4. QED
    BY <1>7, <2>3 DEF activateAbility, used, loopVars, SorcerySpeedIsSpent
<1>8. CASE resolve
  <2>1. stack \in Seq(Objects) /\ stack # <<>> /\ stack' = Tail(stack)
    BY <1>8 DEF resolve, IInv, TypeOK
  <2>2. \A i \in DOMAIN stack' : i + 1 \in DOMAIN stack
                                   /\ stack'[i] = stack[i + 1]
    BY <2>1
  <2>3. QED
    BY <1>8, <2>2 DEF resolve, SorceriesAreTheActivePlayers, SorcerySpeedIsSpent
<1>9. CASE choicephaseReturns
  BY <1>1, <1>9 DEF choicephaseReturns, loopVars, optVars, cardVars,
                    SorcerySpeedIsSpent
<1>10. CASE UNCHANGED vars
  BY <1>1, <1>10 DEF vars, loopVars, optVars, cardVars, SorcerySpeedIsSpent
<1>11. QED
  BY <1>2, <1>3, <1>4, <1>5, <1>6, <1>7, <1>8, <1>9, <1>10
     DEF Next, choicephase, UseOption

(* castopts.cpp:22 with takeopts.cpp:19: a spell of sorcery speed on the   *)
(* stack is the active player's, for any number of players.                *)
THEOREM SorceriesActive == Spec => []SorceriesAreTheActivePlayers
<1>1. Init => SInv
  BY DEF Init, SInv, SorcerySpeedIsSpent, SorceriesAreTheActivePlayers
<1>2. SInv => SorceriesAreTheActivePlayers
  BY DEF SInv
<1>3. QED
  BY <1>1, <1>2, NextSInv, InductiveInvariant, PTL DEF Spec

(* takeopts.cpp:38-42: sorcery speed is the active player's, asked first,  *)
(* and is spent by what he leaves on the stack, for any number of players. *)
THEOREM SorcerySpeedSpent == Spec => []SorcerySpeedIsSpent
<1>1. Init => SInv
  BY DEF Init, SInv, SorcerySpeedIsSpent, SorceriesAreTheActivePlayers
<1>2. SInv => SorcerySpeedIsSpent
  BY DEF SInv
<1>3. QED
  BY <1>1, <1>2, NextSInv, InductiveInvariant, PTL DEF Spec

(* phases.cpp:13-20: between two phases the game is won just if it is over. *)
THEOREM OverWhenWon == Spec => []OverIffWon
<1>1. Init => OverIffWon
  BY DEF Init, OverIffWon
<1>2. ASSUME IInv, OverIffWon, [Next]_vars PROVE OverIffWon'
  <2> USE DEF OverIffWon
  <2>1. ASSUME NEW p \in Players, untapstep(p) PROVE OverIffWon'
    BY <1>2, <2>1 DEF untapstep
  <2>2. ASSUME NEW p \in Players, drawstep(p) PROVE OverIffWon'
    BY <1>2, <2>2 DEF drawstep
  <2>3. ASSUME NEW p \in Players, mainphasemainstep(p) PROVE OverIffWon'
    BY <2>3 DEF mainphasemainstep
  <2>4. CASE damagestep \/ choicephaseReturns
    BY <2>4 DEF damagestep, choicephaseReturns, IInv, TypeOK
  <2>5. CASE givePriority \/ skipPlayer \/ pass \/ resolve
    BY <2>5 DEF givePriority, skipPlayer, pass, resolve, returns
  <2>6. CASE UseOption
    BY <2>6 DEF UseOption, playLand, castSpell, activateAbility, used
  <2>7. CASE UNCHANGED vars
    BY <1>2, <2>7 DEF vars
  <2>8. QED
    BY <1>2, <2>1, <2>2, <2>3, <2>4, <2>5, <2>6, <2>7
       DEF Next, OtherSteps, choicephase
<1>3. QED
  BY <1>1, <1>2, InductiveInvariant, PTL DEF Spec

-----------------------------------------------------------------------------
(* The loop implements the rules of priority.                              *)

(* A call of chooseAndUseOpt that ends without an option, or after the     *)
(* last one, is a pass of the rules; when it completes the lap, everybody  *)
(* has passed since an option was last used.                               *)
LEMMA ReturnsIsPass ==
  ASSUME IInv, pc \in {"offer", "choose"},
         NEW cast \in BOOLEAN, returns(cast),
         cast <=> pc = "choose" /\ hasCastAnything
  PROVE  /\ current \notin passed
         /\ passed' = passed \cup {current}
         /\ current' = nextopponent[current]
<1> USE DEF IInv
<1>0. /\ current \in Players /\ active \in Players /\ lapStart \in Players
      /\ first \in BOOLEAN /\ active' = active /\ first' = FALSE
      /\ current' = nextopponent[current] /\ current' \in Players
      /\ current' # current
  BY LapStartType, RingType DEF TypeOK, returns
<1>1. Nobody \notin Players
  BY PlayersAssumption DEF Nobody, Players
<1>2. pc' \in {"offer", "resolve"}
  BY DEF returns
<1>3. CASE first \/ cast
  (* The lap begins with this player: his is the first pass.               *)
  <2>1. passed = {}
    BY <1>3 DEF passed
  <2>2. pc' = "offer" /\ lapStart' = current
    BY <1>0, <1>1, <1>3 DEF returns, lapStart, LapInv, TypeOK
  <2>3. Dist(current, current') = 1
    <3>1. CASE nextopponent[current'] = current
      BY <1>0, PlayersAssumption, DistStep, DistProperties DEF nextopponent, Dist, Players
    <3>2. QED
      BY <1>0, DistStep, DistProperties
  <2>4. passed' = {p \in Players : Dist(current, p) < 1}
    BY <1>0, <2>2, <2>3 DEF passed
  <2>5. \A p \in Players : Dist(current, p) < 1 <=> p = current
    BY <1>0, DistProperties
  <2>6. passed' = {current}
    BY <1>0, <2>4, <2>5
  <2>7. QED
    BY <1>0, <2>1, <2>6
<1>4. CASE ~first /\ ~cast
  <2> DEFINE s == lapStart
             d == Dist(s, current)
  <2>1. passed = {p \in Players : Dist(s, p) < d} /\ d \in Nat
    BY <1>0, <1>4, DistProperties DEF passed
  <2>2. lapStart' = s
    BY <1>0, <1>4 DEF returns, lapStart
  <2>3. pc' = "resolve" <=> current' = s
    BY <1>0, <1>1, <1>4 DEF returns, lapStart
  <2>4. \A p \in Players : Dist(s, p) \in Nat /\ (Dist(s, p) = d <=> p = current)
    BY <1>0, DistProperties
  <2>5. passed \cup {current} = {p \in Players : Dist(s, p) < d + 1}
    BY <1>0, <2>1, <2>4
  <2>6. CASE current' = s
    <3>1. d = N - 1
      BY <1>0, <2>6, DistStep
    <3>2. \A p \in Players : Dist(s, p) < d + 1
      BY <1>0, <3>1, DistProperties, PlayersAssumption
    <3>3. passed' = Players
      BY <2>3, <2>6 DEF passed
    <3>4. QED
      BY <1>0, <2>1, <2>5, <3>2, <3>3
  <2>7. CASE current' # s
    <3>1. Dist(s, current') = d + 1
      BY <1>0, <2>7, DistStep
    <3>2. passed' = {p \in Players : Dist(s, p) < d + 1}
      BY <1>0, <1>2, <2>2, <2>3, <2>7, <3>1 DEF passed
    <3>3. QED
      BY <1>0, <2>1, <2>5, <3>2
  <2>8. QED
    BY <2>6, <2>7
<1>5. QED
  BY <1>3, <1>4

LEMMA InitRules == Init => Rules!Init
BY DEF Init, Rules!Init, passed

(* Every step is a step of the rules, or changes nothing they speak of.    *)
LEMMA NextRules == IInv /\ [Next]_vars => [Rules!Next]_Rules!vars
<1> SUFFICES ASSUME IInv, [Next]_vars PROVE [Rules!Next]_Rules!vars
  OBVIOUS
<1> USE DEF IInv
<1>1. ASSUME NEW p \in Players, untapstep(p) PROVE UNCHANGED Rules!vars
  BY <1>1 DEF untapstep, loopVars, optVars, Rules!vars, passed
<1>2. ASSUME NEW p \in Players, drawstep(p) PROVE UNCHANGED Rules!vars
  BY <1>2 DEF drawstep, loopVars, optVars, Rules!vars, passed
<1>3. ASSUME NEW p \in Players, mainphasemainstep(p) PROVE Rules!Open(p)
  BY <1>3 DEF mainphasemainstep, optVars, cardVars, Rules!Open, passed
<1>4. CASE damagestep
  <2>1. pc' \in {"idle", "over"} /\ pc = "idle"
    BY <1>4 DEF damagestep
  <2>2. UNCHANGED Rules!vars
    BY <1>4, <2>1 DEF damagestep, loopVars, cardVars, Rules!vars, passed
  <2>3. QED
    BY <2>2
<1>5. CASE givePriority
  <2>1. passed' = passed /\ pc = "offer" /\ pc' = "choose"
    BY <1>5 DEF givePriority, loopVars, passed, lapStart
  <2>2. UNCHANGED Rules!vars
    BY <1>5, <2>1 DEF givePriority, loopVars, cardVars, Rules!vars
  <2>3. QED
    BY <2>2
<1>6. CASE skipPlayer
  <2>1. /\ pc = "offer" /\ pc' \in {"offer", "resolve"}
        /\ returns(FALSE) /\ UNCHANGED stack
    BY <1>6 DEF skipPlayer, returns, cardVars
  <2>2. /\ current \notin passed
        /\ passed' = passed \cup {current}
        /\ current' = nextopponent[current]
    BY <2>1, ReturnsIsPass
  <2>3. Rules!Pass
    BY <2>1, <2>2 DEF Rules!Pass
  <2>4. QED
    BY <2>3 DEF Rules!Next
<1>7. ASSUME NEW c \in Cards, playLand(c)
      PROVE  Rules!SpecialAction
  <2>1. current \notin passed
    BY <1>7, LapStartType, DistProperties
       DEF playLand, passed, TypeOK, LapInv
  <2>2. pc = "choose" /\ pc' = "choose" /\ passed' = {}
    BY <1>7 DEF playLand, used, loopVars, passed
  <2>3. QED
    BY <1>7, <2>1, <2>2 DEF playLand, used, loopVars, Rules!SpecialAction
<1>8. ASSUME NEW c \in Cards, NEW t \in Targets,
             castSpell(c, t) \/ activateAbility(c, t)
      PROVE  Rules!Next
  <2>1. PICK o \in Objects : stack' = <<o>> \o stack
    <3>1. CASE castSpell(c, t)
      <4>1. [kind |-> "spell", card |-> c, ctrl |-> current, tgt |-> t]
              \in Objects
        BY DEF Objects, TypeOK
      <4>2. QED
        BY <3>1, <4>1 DEF castSpell
    <3>2. CASE activateAbility(c, t)
      <4>1. [kind |-> "ability", card |-> c, ctrl |-> current, tgt |-> t]
              \in Objects
        BY DEF Objects, TypeOK
      <4>2. QED
        BY <3>2, <4>1 DEF activateAbility
    <3>3. QED
      BY <1>8, <3>1, <3>2
  <2>2. pc = "choose" /\ used
    BY <1>8 DEF castSpell, activateAbility
  <2>3. current \notin passed
    BY <2>2, LapStartType, DistProperties DEF passed, TypeOK, LapInv
  <2>4. pc' = "choose" /\ passed' = {} /\ UNCHANGED current
    BY <2>2 DEF used, loopVars, passed
  <2>5. Rules!Cast(o)
    BY <2>1, <2>2, <2>3, <2>4 DEF Rules!Cast
  <2>6. QED
    BY <2>5 DEF Rules!Next
<1>9. CASE pass
  <2>1. /\ pc = "choose" /\ pc' \in {"offer", "resolve"}
        /\ returns(hasCastAnything) /\ UNCHANGED stack
        /\ hasCastAnything \in BOOLEAN
    BY <1>9 DEF pass, returns, cardVars, TypeOK
  <2>2. /\ current \notin passed
        /\ passed' = passed \cup {current}
        /\ current' = nextopponent[current]
    BY <2>1, ReturnsIsPass
  <2>3. Rules!Pass
    BY <2>1, <2>2 DEF Rules!Pass
  <2>4. QED
    BY <2>3 DEF Rules!Next
<1>10. CASE resolve
  <2>1. Rules!Resolve(active)
    BY <1>10 DEF resolve, passed, Rules!Resolve
  <2>2. active \in Players
    BY DEF TypeOK
  <2>3. QED
    BY <2>1, <2>2 DEF Rules!Next
<1>11. CASE choicephaseReturns
  <2>1. pc = "resolve" /\ pc' \in {"idle", "over"}
    BY <1>11 DEF choicephaseReturns
  <2>2. Rules!Close
    BY <1>11, <2>1
       DEF choicephaseReturns, loopVars, cardVars, passed, Rules!Close
  <2>3. QED
    BY <2>2 DEF Rules!Next
<1>12. CASE UNCHANGED vars
  BY <1>12 DEF vars, loopVars, optVars, cardVars, Rules!vars, passed, lapStart
<1>13. QED
  BY <1>1, <1>2, <1>3, <1>4, <1>5, <1>6, <1>7, <1>8, <1>9, <1>10, <1>11,
     <1>12 DEF Next, OtherSteps, choicephase, UseOption, Rules!Next

(* takeopts.cpp:6-11: for any number of players, an object of the stack    *)
(* resolves, and the phase goes on, only when every player has passed      *)
(* since an option was last used.                                          *)
THEOREM PriorityImplementsRules == Spec => ImplementsRules
BY InitRules, InductiveInvariant, NextRules, PTL
   DEF Spec, ImplementsRules, Rules!Spec
=============================================================================
