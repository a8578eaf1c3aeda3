----------------------------- MODULE Yggdrasil -----------------------------
(***************************************************************************)
(* The board of one player as yggdrasil/ keeps it: three hash tables of    *)
(* collections, one for each kind of permanent.  For a combat the table of *)
(* the creatures is unfolded to twice its size, and a StateTN views the    *)
(* half that attacks.  Iterators are stacks of tree nodes that are built   *)
(* and destroyed while the iterator moves.                                 *)
(***************************************************************************)
EXTENDS Integers, Sequences, FiniteSetsExt, SequencesExt

CONSTANTS Permanents,   (* the permanents that may enter the board         *)
          Table         (* the table for the type of each                  *)

Tables == {"artos", "creas", "superfriends"}

nullptr == "nullptr"     (* no leaf: the end of every range                *)
climbing == "climbing"   (* next() has been called on the innermost node   *)

ASSUME YggdrasilAssumption ==
  /\ IsFiniteSet(Permanents) /\ Table \in [Permanents -> Tables]
  /\ {nullptr, climbing} \cap Permanents = {}

VARIABLES
  ht,            (* Y_Hashtable::ht, the collections of each table         *)
  multiplicity,  (* StateTN of myattackers; 0 while its parent is null     *)
  step,          (* the step of the owner's turn                           *)
  doing,         (* the loop over an iterator that runs, or "none"         *)
  frames,        (* its iterator: the nodes above the leaf, outermost      *)
  leaf,          (* first; and the permanent the leaf points to            *)
  selected,      (* chooseAttackers: what has been selected, in the order  *)
  turn,          (* of stay, and what of it the loop has gone through      *)
  visited        (* history: how often the loop has come to a permanent,   *)
                 (* two standing for more                                  *)

treeVars == <<ht, multiplicity>>
iterVars == <<frames, leaf, visited>>
chooseVars == <<selected, turn>>
vars == <<treeVars, step, doing, iterVars, chooseVars>>

Never == [c \in Permanents |-> 0]

Init ==
  /\ ht = [t \in Tables |-> << <<>> >>]
  /\ multiplicity = 0
  /\ step = "untap" /\ doing = "none"
  /\ frames = <<>> /\ leaf = nullptr /\ visited = Never
  /\ selected = <<>> /\ turn = 0

-----------------------------------------------------------------------------
(* The tables.  Collections are numbered from 0, as in the code.           *)

coll(t, i) == ht[t][i + 1]
HT_SIZE(t) == Len(ht[t])
ht_size_log == CHOOSE n \in 0 .. HT_SIZE("creas") : 2^n = HT_SIZE("creas")
members(t) == FlattenSeq(ht[t])
board == UNION {Range(members(t)) : t \in Tables}

BLOCKSIZE == 2^(multiplicity - 1)
PATTERNSIZE == 2^multiplicity
nbBlocks == HT_SIZE("creas") \div PATTERNSIZE

(* Y_Hashtable::getChild: the place of a child of a StateTN.               *)
child(block, i, first) == block * PATTERNSIZE + i + IF first THEN 0 ELSE BLOCKSIZE

(* The collections a StateTN views, in the order of its iterators.         *)
views(first) == [n \in 1 .. nbBlocks * BLOCKSIZE |->
                   child((n - 1) \div BLOCKSIZE, (n - 1) % BLOCKSIZE, first)]

(* firstNonEmpty, partialSize: what a StateTN contains.  myattackers keeps *)
(* the first = false of its constructor.                                   *)
contains(first) ==
  IF multiplicity = 0 THEN <<>>
  ELSE FlattenSeq([n \in DOMAIN views(first) |-> coll("creas", views(first)[n])])

attackers == contains(FALSE)
stay      == contains(TRUE)

unfolded(t) == ht[t] \o [i \in 1 .. HT_SIZE(t) |-> <<>>]

(* Seeded fault: what has attacked is not merged back.                     *)
FaultyRefolded == [i \in 1 .. HT_SIZE("creas") \div 2 |-> ht["creas"][i]]

(* merge() appends what was in the other half.                             *)
refolded ==
  [i \in 1 .. HT_SIZE("creas") \div 2 |->
     LET k == child((i - 1) \div BLOCKSIZE, (i - 1) % BLOCKSIZE, TRUE)
     IN  coll("creas", k) \o coll("creas", k + BLOCKSIZE)]

-----------------------------------------------------------------------------
(* Iterators.  A node of one is a board, a table, a state or a collection  *)
(* with the place it is at; a place of a collection is one of its list.    *)

boardFrame(pos)     == [node |-> "board", at |-> pos]
tableFrame(t)       == [node |-> "hashtable", of |-> t, at |-> 0]
stateFrame(b, i)    == [node |-> "state", at |-> <<b, i>>]
collFrame(t, i)     == [node |-> "collection", of |-> t, child |-> i, at |-> 1]
order               == <<"artos", "creas", "superfriends">>

NoStart == [frames |-> <<>>, leaf |-> nullptr]

(* CollectionTN::createStart, below the nodes fs.                          *)
collStart(fs, t, i) ==
  IF coll(t, i) = <<>> THEN NoStart
  ELSE [frames |-> Append(fs, collFrame(t, i)), leaf |-> Head(coll(t, i))]

(* Y_Hashtable::createStart: whichever collection is the first not to be   *)
(* empty, the new node is at position 0.                                   *)
tableStart(fs, t) ==
  LET full == {i \in 0 .. HT_SIZE(t) - 1 : coll(t, i) # <<>>}
  IN  IF full = {} THEN NoStart
      ELSE collStart(Append(fs, tableFrame(t)), t, Min(full))

(* StateTN::createStart: the new node is at the first block, too.          *)
stateStart(first) ==
  LET full == {n \in DOMAIN views(first) : coll("creas", views(first)[n]) # <<>>}
  IN  IF multiplicity = 0 \/ full = {} THEN NoStart
      ELSE collStart(<<stateFrame(0, 0)>>, "creas", views(first)[Min(full)])

(* Seeded fault: the node is at the artifacts, wherever the loop starts.   *)
FaultyBoardStart ==
  LET full == {n \in 1 .. 3 : members(order[n]) # <<>>}
  IN  IF full = {} THEN NoStart
      ELSE tableStart(<<boardFrame(0)>>, order[Min(full)])

(* BoardN::createStart: here an empty table is passed over.                *)
boardStart ==
  LET full == {n \in 1 .. 3 : members(order[n]) # <<>>}
  IN  IF full = {} THEN NoStart
      ELSE tableStart(<<boardFrame(Min(full) - 1)>>, order[Min(full)])

(* Seeded fault: the node of a collection does not move on.                *)
FaultyAdvance(f) ==
  CASE f.node = "state"      -> [f EXCEPT !.at = <<f.at[1] + 1, 0>>]
    [] f.node = "collection" -> f
    [] OTHER                 -> [f EXCEPT !.at = @ + 1]

(* advance(), of each kind of node.                                        *)
advance(f) ==
  CASE f.node = "state" -> [f EXCEPT !.at =
                              IF f.at[2] + 1 = BLOCKSIZE THEN <<f.at[1] + 1, 0>>
                              ELSE <<f.at[1], f.at[2] + 1>>]
    [] OTHER -> [f EXCEPT !.at = @ + 1]

isEnd(f) ==
  CASE f.node = "board"      -> f.at = 3
    [] f.node = "hashtable"  -> f.at >= HT_SIZE(f.of)
    [] f.node = "state"      -> f.at[1] = nbBlocks
    [] f.node = "collection" -> f.at > Len(coll(f.of, f.child))

(* down(), of a node that is not at its end: the first leaf below it.      *)
(* Board, table and state look for it where they are, and find none if     *)
(* nothing is there.                                                       *)
down(fs, first) ==
  LET f == Last(fs)
  IN  CASE f.node = "board"      -> tableStart(fs, order[f.at + 1])
        [] f.node = "hashtable"  -> tableStart(fs, f.of)
        [] f.node = "state"      -> collStart(fs, "creas", child(f.at[1], f.at[2], first))
        [] f.node = "collection" -> [frames |-> fs, leaf |-> coll(f.of, f.child)[f.at]]

-----------------------------------------------------------------------------
(* The loops over iterators.                                               *)

came(c) == [visited EXCEPT ![c] = Min({2, @ + 1})]

(* begin(): a loop starts where a range does.                              *)
begin(what, start) ==
  /\ doing' = what
  /\ frames' = start.frames /\ leaf' = start.leaf
  /\ visited' = IF start.leaf = nullptr THEN Never ELSE [Never EXCEPT ![start.leaf] = 1]

(* iterator::operator++ on a leaf asks the node above it, if it has one.   *)
increment ==
  /\ doing \notin {"none", "choose"} /\ leaf \in Permanents
  /\ leaf' = climbing
  /\ UNCHANGED <<treeVars, step, doing, frames, visited, chooseVars>>

(* The node above goes on, also where an AdapterLeaf stands between a node *)
(* of creatures and one of permanents; above the outermost is the end.     *)
handedUp == IF Len(frames) = 1 THEN nullptr ELSE climbing

(* inner_iterator::next: what goes beyond its end asks the node above it.  *)
climb ==
  /\ leaf = climbing
  /\ LET on    == Append(Front(frames), advance(Last(frames)))
         found == down(on, FALSE)
     IN  IF isEnd(Last(on))
           THEN /\ frames' = Front(frames)
                /\ leaf' = handedUp
                /\ UNCHANGED visited
           ELSE /\ frames' = found.frames /\ leaf' = found.leaf
                /\ visited' = IF found.leaf = nullptr THEN visited ELSE came(found.leaf)
  /\ UNCHANGED <<treeVars, step, doing, chooseVars>>

(* operator== with end(): the loop is over, and the step goes on.          *)
over(what) == doing = what /\ leaf = nullptr
ends(next) == doing' = "none" /\ step' = next /\ UNCHANGED iterVars

-----------------------------------------------------------------------------
(* The steps of a turn.                                                    *)

at(s) == step = s /\ doing = "none"

untapstep ==
  \/ /\ at("untap")
     /\ begin("untapping", boardStart)
     /\ UNCHANGED <<treeVars, step, chooseVars>>
  \/ /\ over("untapping")
     /\ ends("main")
     /\ UNCHANGED <<treeVars, chooseVars>>

(* BoardN::insert, when a land is played or a permanent resolves.          *)
insert(c) ==
  /\ at("main")
  /\ c \notin board
  /\ ht' = [ht EXCEPT ![Table[c]][1] = Append(@, c)]
  /\ UNCHANGED <<multiplicity, step, doing, iterVars, chooseVars>>

(* The walk of Player::stateBasedActions, before each option and after a   *)
(* combat.  What it destroys stays where it is: BoardN::remove does        *)
(* nothing.                                                                *)
stateBasedActions ==
  \/ /\ at("main") \/ at("sba")
     /\ begin("checking", tableStart(<<>>, "creas"))
     /\ UNCHANGED <<treeVars, step, chooseVars>>
  \/ /\ over("checking")
     /\ ends(IF step = "sba" THEN "cleanup" ELSE step)
     /\ UNCHANGED <<treeVars, chooseVars>>

declareattackersstep ==
  /\ at("main")
  /\ ht' = [ht EXCEPT !["creas"] = unfolded("creas")]
  /\ multiplicity' = ht_size_log + 1
  /\ step' = "attackers"
  /\ UNCHANGED <<doing, iterVars, chooseVars>>

(* The choice of attackers starts at the first creature that stays; which  *)
(* are selected is the player's answer.                                    *)
chooseAttackers ==
  /\ at("attackers")
  /\ IF members("creas") = <<>>
       THEN step' = "damage" /\ UNCHANGED <<doing, iterVars, chooseVars>>
       ELSE /\ begin("choose", stateStart(TRUE))
            /\ selected' \in [1 .. Len(stay) -> BOOLEAN]
            /\ turn' = 1
            /\ UNCHANGED step
  /\ UNCHANGED treeVars

(* iterator::findFor: the iterator's node of one kind.                     *)
findFor(kind) == frames[CHOOSE n \in DOMAIN frames : frames[n].node = kind]

(* StateTN::splice: the creature the iterator is at moves to the front of  *)
(* the collection opposite.                                                *)
moved ==
  LET s  == findFor("state").at
      f  == findFor("collection")
      to == child(s[1], s[2], FALSE)
  IN  [ht EXCEPT !["creas"][f.child + 1] = RemoveAt(@, f.at),
                 !["creas"][to + 1] = <<coll("creas", f.child)[f.at]>> \o @]

(* Seeded fault: the iterator is left at the creature that has moved away, *)
(* and goes on from the first of the other half.                           *)
FaultySplice(i) == [frames EXCEPT ![Len(frames)].at = i + 1]

(* CollectionTN::splice makes the iterator's node point to the next one of *)
(* its list, which takes the place of the one that moves.                  *)
spliced(i) == [frames EXCEPT ![Len(frames)].at = i]

(* One round of the loop at the end of BasicIO::chooseAttackers: a         *)
(* selected creature moves; the iterator passes any other one.             *)
splice ==
  /\ doing = "choose" /\ leaf # climbing /\ turn \in DOMAIN selected
  /\ turn' = turn + 1
  /\ IF selected[turn]
       THEN /\ ht' = moved
            /\ frames' = spliced(findFor("collection").at)
            /\ UNCHANGED leaf
       ELSE /\ leaf' = climbing
            /\ UNCHANGED <<ht, frames>>
  /\ UNCHANGED <<multiplicity, step, doing, visited, selected>>

attackersChosen ==
  /\ doing = "choose" /\ leaf # climbing /\ turn \notin DOMAIN selected
  /\ doing' = "none" /\ step' = "damage"
  /\ frames' = <<>> /\ leaf' = nullptr
  /\ selected' = <<>> /\ turn' = 0
  /\ UNCHANGED <<treeVars, visited>>

restate == ht' = [ht EXCEPT !["creas"] = refolded] /\ multiplicity' = 0

damagestep ==
  \/ /\ at("damage") /\ attackers = <<>>
     /\ restate
     /\ step' = "cleanup"
     /\ UNCHANGED <<doing, iterVars, chooseVars>>
  \/ /\ at("damage") /\ attackers # <<>>
     /\ begin("splitting", stateStart(FALSE))
     /\ UNCHANGED <<treeVars, step, chooseVars>>
  \/ /\ over("splitting")
     /\ begin("resolving", stateStart(FALSE))
     /\ UNCHANGED <<treeVars, step, chooseVars>>
  \/ /\ over("resolving")
     /\ restate
     /\ ends("sba")
     /\ UNCHANGED chooseVars

cleanupstep ==
  \/ /\ at("cleanup")
     /\ begin("healing", tableStart(<<>>, "creas"))
     /\ UNCHANGED <<treeVars, step, chooseVars>>
  \/ /\ over("healing")
     /\ ends("untap")
     /\ UNCHANGED <<treeVars, chooseVars>>

(* The machine's own steps; the player's are to play permanents and to end *)
(* the main phase.                                                         *)
loop == \/ untapstep \/ increment \/ climb \/ chooseAttackers \/ splice
        \/ attackersChosen \/ damagestep \/ cleanupstep \/ stateBasedActions

Next == loop \/ declareattackersstep \/ \E c \in Permanents : insert(c)

Spec == Init /\ [][Next]_vars /\ WF_vars(loop)

-----------------------------------------------------------------------------

(* hashtable_tn.h:52-72, collection_tn.h:80-91: however often the table is *)
(* unfolded, its children moved and refolded, every permanent is in one    *)
(* collection of the table for its type, the table is unfolded exactly     *)
(* while there are attackers to be chosen, and an iterator stays inside.   *)
TypeOK ==
  /\ \A t \in Tables : /\ IsInjective(members(t))
                       /\ \A c \in Range(members(t)) : Table[c] = t
  /\ HT_SIZE("creas") = 2^multiplicity
  /\ multiplicity > 0 <=> step \in {"attackers", "damage"}
  /\ leaf \in Permanents \cup {nullptr, climbing}
  /\ \A n \in DOMAIN frames :
       frames[n].node = "collection" =>
         frames[n].at \in 1 .. Len(coll(frames[n].of, frames[n].child)) + 1

(* What a loop has to come to.                                             *)
due == CASE doing = "untapping" -> board
         [] doing \in {"splitting", "resolving"} -> Range(attackers)
         [] OTHER -> Range(members("creas"))

(* untapstep stops at a table of creatures that is empty.                  *)
unreached == {c \in board : /\ doing = "untapping"
                            /\ Table[c] = "superfriends"
                            /\ members("creas") = <<>> /\ members("artos") # <<>>}

(* iterators.h:42-46 with every next(): the loops that deal damage, heal   *)
(* and destroy come to each creature they are about once, in whatever      *)
(* order combats have left the creatures; and the untap step to all but    *)
(* the planeswalkers behind an empty table.                                *)
LoopsComeToEachOnce ==
  \A what \in {"untapping", "checking", "splitting", "resolving", "healing"} :
    over(what) => \A c \in Permanents :
                    visited[c] = IF c \in due \ unreached THEN 1 ELSE 0

(* What the player has selected, as chooseAttackers displayed it.          *)
wanted == Range(attackers) \cup
            {stay[n - turn + 1 + Cardinality({m \in 1 .. turn - 1 : ~selected[m]})] :
               n \in {m \in DOMAIN selected : m >= turn /\ selected[m]}}

(* The whole dance of splices is one step of the battlefield: exactly the  *)
(* creatures selected attack, and nothing on the board is lost.            *)
B == INSTANCE Battlefield WITH
       IsCreature <- LAMBDA c : Table[c] = "creas",
       attacking  <- IF doing = "choose" THEN {} ELSE Range(attackers)
ImplementsBattlefield == B!Spec

(* phases.cpp:35, 61, 82 and combat.cpp:20, 23: every loop over an         *)
(* iterator ends.                                                          *)
LoopsEnd == doing # "none" ~> doing = "none"
=============================================================================
