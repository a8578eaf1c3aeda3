-------------------------------- MODULE Mana --------------------------------
(***************************************************************************)
(* Amounts of mana as include/Mana/mana.cpp packs them in one int, four    *)
(* bits a field: the total in the lowest, then one field for each colour   *)
(* and one for colourless mana; and the pool of a player, which abilities  *)
(* fill and costs empty.                                                   *)
(***************************************************************************)
EXTENDS Integers, Functions, FiniteSetsExt

CONSTANTS Base,         (* what a field is counted by: 16                  *)
          NbColors,     (* the colours: 5                                  *)
          MaxNumber, MaxSymbols  (* bounds: the number in a cost, and how  *)
                        (* often it has a symbol                           *)

ASSUME ManaAssumption ==
  /\ Base \in Nat \ {0, 1} /\ NbColors \in Nat \ {0}
  /\ MaxNumber \in Nat /\ MaxSymbols \in Nat

(* Mana::positions.                                                        *)
GENERIC   == 0
COLORLESS == NbColors + 1
Symbols   == 1 .. COLORLESS

(* mtg::manatype, which counts the colours from 0.                         *)
manatype  == 0 .. NbColors

(* A mana text such as "2WW": a number, and how often each symbol comes.   *)
Texts == [number : 0 .. MaxNumber, symbols : [Symbols -> 0 .. MaxSymbols]]

VARIABLES
  manapool,    (* Gamer::manapool                                          *)
  overflowed   (* history: a field has been full when it was added to,     *)
               (* since the pool was last empty                            *)

manaVars == <<manapool, overflowed>>

ManaInit == manapool = 0 /\ overflowed = FALSE

-----------------------------------------------------------------------------
(* The operators of Mana.                                                  *)

(* 1 << 4*i: what counts one in field i.                                   *)
unit[i \in 0 .. COLORLESS + 2] == IF i = 0 THEN 1 ELSE Base * unit[i - 1]

(* The seven fields, and the one above them, fill the int.                 *)
Ints == 0 .. unit[COLORLESS + 2] - 1
Wrapped(n) == n % unit[COLORLESS + 2]

MY_COLOR(m, i) == (m \div unit[i]) % Base

cmc(m) == MY_COLOR(m, GENERIC)

Plus(m, color) == Wrapped(m + unit[color] + 1)

(* Mana(const char* ): the number, then Plus for every symbol.             *)
Parsed(text) ==
  Wrapped(text.number +
            MapThenSumSet(LAMBDA s : text.symbols[s] * (unit[s] + 1), Symbols))

(* Seeded fault: colourless mana is forgotten.                             *)
FaultyAtLeast(m, cost) ==
  \A i \in GENERIC .. NbColors : MY_COLOR(cost, i) <= MY_COLOR(m, i)

AtLeast(m, cost) ==
  \A i \in GENERIC .. COLORLESS : MY_COLOR(cost, i) <= MY_COLOR(m, i)

Coloured(m, kinds) == MapThenSumSet(LAMBDA i : MY_COLOR(m, i), kinds)

(* Seeded fault: the fields above the last one kept are left.              *)
FaultyCut(m, offset, excess) == m - excess * unit[offset]

(* The excess of a field is taken off, and the fields above it masked out. *)
Cut(m, offset, excess) == (m - excess * unit[offset]) % unit[offset + 1]

(* Seeded fault: the field that is cut keeps what it has.                  *)
FaultyMinus(m, cost) ==
  LET rest  == Wrapped(m - (cost % unit[COLORLESS + 1]))
      stops == {o \in Symbols : Coloured(rest, 1 .. o) >= cmc(rest)}
  IN  IF stops = {} THEN rest ELSE Cut(rest, Min(stops), 0)

(* operator-=: what the cost asks for is subtracted field by field; of the *)
(* colours, the first ones are kept as far as the total that is left goes. *)
Minus(m, cost) ==
  LET rest  == Wrapped(m - (cost % unit[COLORLESS + 1]))
      stops == {o \in Symbols : Coloured(rest, 1 .. o) >= cmc(rest)}
      o     == Min(stops)
  IN  IF stops = {} THEN rest
                    ELSE Cut(rest, o, Coloured(rest, 1 .. o) - cmc(rest))

-----------------------------------------------------------------------------

(* The effect add_mana hands its manatype to operator+= as a position.     *)
(* Bound: nothing is added to a pool that has overflowed.                  *)
addMana(c) ==
  /\ ~overflowed
  /\ manapool' = Plus(manapool, c)
  /\ overflowed' = \/ MY_COLOR(manapool, c) = Base - 1
                   \/ cmc(manapool) >= IF c = GENERIC THEN Base - 2 ELSE Base - 1

(* Player::pay, of the cost of a card or an ability; it returns false, and *)
(* nothing changes, if the pool is not enough.                             *)
payMana(cost) ==
  /\ AtLeast(manapool, cost)
  /\ manapool' = Minus(manapool, cost)
  /\ UNCHANGED overflowed

emptyPool == manapool' = 0 /\ overflowed' = FALSE

ManaNext ==
  \/ \E c \in manatype : addMana(c)
  \/ \E text \in Texts : payMana(Parsed(text))
  \/ emptyPool

ManaSpec == ManaInit /\ [][ManaNext]_manaVars

-----------------------------------------------------------------------------

(* mana.cpp:47-51: until a field overflows, no sequence of abilities and   *)
(* payments leaves more coloured mana than the total has.                  *)
PoolTypeOK ==
  /\ manapool \in Ints /\ overflowed \in BOOLEAN
  /\ ~overflowed => Coloured(manapool, Symbols) <= cmc(manapool)

(* A way to pay for a cost: how much mana of each kind is spent, the rest  *)
(* being mana of no kind.                                                  *)
IsPayment(spent, m, cost) ==
  LET all == MapThenSumSet(LAMBDA s : spent[s], Symbols)
  IN  /\ \A s \in Symbols : spent[s] \in MY_COLOR(cost, s) .. MY_COLOR(m, s)
      /\ cmc(cost) - all \in 0 .. cmc(m) - Coloured(m, Symbols)

Payments(m, cost) ==
  {spent \in [Symbols -> 0 .. Base - 1] : IsPayment(spent, m, cost)}

Costs == {Parsed(text) : text \in {t \in Texts :
            t.number + MapThenSumSet(LAMBDA s : t.symbols[s], Symbols) < Base}}

(* mana.cpp:7-12: an amount is enough for a cost exactly if some of its    *)
(* mana, coloured as the cost asks, pays for it.                           *)
EnoughIffPayable ==
  ~overflowed =>
    \A cost \in Costs : AtLeast(manapool, cost) <=> Payments(manapool, cost) # {}

(* mana.cpp:34-47, castopts.cpp:55-59: what pay() takes off the pool is    *)
(* one of the ways to pay for the cost, and no more.                       *)
PaysTheCost ==
  [][\A cost \in Costs : payMana(cost) /\ ~overflowed =>
       [s \in Symbols |-> MY_COLOR(manapool, s) - MY_COLOR(manapool', s)]
         \in Payments(manapool, cost)]_manaVars
=============================================================================
