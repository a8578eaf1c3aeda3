------------------------------- MODULE Oracle -------------------------------
(***************************************************************************)
(* A deck from its text to the client's screen: Agent::getDeck splits the  *)
(* file into lines, PlainFileReader makes a CardOracle of a line, and      *)
(* BinaryWriter and BinaryReader take it to the client (oracles/).  A text *)
(* is a sequence of tokens: single characters, and words, numbers and      *)
(* mana costs as a whole.                                                  *)
(***************************************************************************)
EXTENDS Integers, FiniteSetsExt, SequencesExt

CONSTANTS Decks,      (* the files: sequences of lines [nb, text, said],   *)
                      (* where said is the card a line describes, if any   *)
          Names,      (* card names, of less than 30 characters            *)
          Database,   (* the names in database/oracles.txt                 *)
          Costs,      (* the mana texts                                    *)
          CostSize    (* tokens in one cost: 30 characters                 *)

(* A line has a number of copies: -1 for what is read of an empty one.     *)
Lines == UNION {Range(d) : d \in Decks}
ASSUME DecksAssumption ==
  (\A d \in Decks : d \in Seq(Lines)) /\ (\A l \in Lines : l.nb \in Int)

VARIABLES
  pc,        (* the function that runs, or how it ended                    *)
  file,      (* lines of the deck file not yet read                        *)
  descrs,    (* Agent::descriptors                                         *)
  text,      (* PlainFileReader::ifile, what is left of it                 *)
  oracle,    (* the CardOracle that is read                                *)
  section,   (* readAll: section_name, and the objects left to read        *)
  phrases,
  atom,      (* readAtomEffect: its type, what it still wants, its params  *)
  deck,      (* Deck of the server                                         *)
  wire,      (* what connectDeck has sent                                  *)
  client,    (* OlympusClient::deck                                        *)
  shown      (* allText of the client's oracles                            *)

readVars == <<text, oracle, section, phrases, atom>>
oracleVars == <<pc, file, descrs, readVars, deck, wire, client, shown>>

quote == "\""
EOF   == "EOF"

(* CardOracle as it is constructed.                                        *)
NewOracle == [name |-> "", type |-> {}, underlying |-> "flagged", cost |-> "0",
              actabs |-> <<>>, stats |-> <<>>, flavor |-> <<>>]
NewAbility == [cost |-> "0", tapsymbol |-> FALSE, ismana |-> FALSE,
               effects |-> <<>>, slots |-> <<>>]
NoDeck == [oracles |-> <<>>, cards |-> <<>>]

OracleInit ==
  /\ pc = "getDeck" /\ file \in Decks /\ descrs = <<>>
  /\ text = <<>> /\ oracle = NewOracle /\ section = "none" /\ phrases = 0
  /\ atom = [type |-> "none", wants |-> <<>>, params |-> <<>>]
  /\ deck = NoDeck /\ wire = NoDeck /\ client = NoDeck /\ shown = <<>>

-----------------------------------------------------------------------------
(* The words of the texts.                                                 *)

(* target_type: the bits of a flag_t.  An index of allassignedvariables    *)
(* has the upper four of them.                                             *)
card         == {64, 1}
permanent    == {64, 32}
resolvable   == {16}
player       == {128, 1}
creature     == {128, 64, 32, 2}
planeswalker == {128, 64, 32, 4}
upper(types) == types \cap {128, 64, 32, 16}

(* readTypeofTarget looks at a few letters: whatever begins neither like   *)
(* creature nor like spell nor with a p is a card.                         *)
readTypeofTarget ==
  [creature |-> creature, planeswalker |-> planeswalker, player |-> player,
   permanent |-> permanent, spell |-> resolvable, local |-> card, any |-> card]

(* dict_abiltypes gives the place of a word among twelve, which is taken   *)
(* for one of the eleven of effect_type and looked up in target_types and  *)
(* target_numbers, of ten and eleven.  The last two words read past them.  *)
dict_abiltypes ==
  [ping |-> [type |-> "deal_damage", wants |-> <<"target", "nonnegative">>],
   draw |-> [type |-> "draw", wants |-> <<"target", "nonnegative">>],
   add_life |-> [type |-> "gain_life", wants |-> <<"target", "number">>],
   set_life |-> [type |-> "set_life", wants |-> <<"target", "number">>],
   add |-> [type |-> "add_mana", wants |-> <<"target", "added_mana">>],
   destroy |-> [type |-> "destroy", wants |-> <<"target">>],
   myExile |-> [type |-> "exile", wants |-> <<"target">>],
   counter |-> [type |-> "counter", wants |-> <<"target">>],
   p_power |-> [type |-> "put_counter", wants |-> <<"target">>],
   p_toughness |-> [type |-> "untap", wants |-> <<"target">>]]
unmatched == {"put_counter", "untap"}

dict_trigtypes == {"etb", "ltb", "attacks"}
dict_selectors == {"type", "ctrl"}

(* The section names; what there is to read in the last two is a TODO.     *)
sections == [o |-> "onresolve", a |-> "activated", x |-> "flavor",
             t |-> "triggered", s |-> "astatic", z |-> "altcosts"]

numbers == ("-1" :> -1) @@ ("0" :> 0) @@ ("1" :> 1) @@ ("2" :> 2)

manatype == [W |-> 0, U |-> 1, B |-> 2, R |-> 3, G |-> 4, C |-> 5]

(* A short int, a flag_t or a char: the last byte.                         *)
byte(n) == n % 256

(* Mana(const char* ): other symbols end the text.                         *)
Mana(word) == IF word \in Costs THEN word ELSE "0"

-----------------------------------------------------------------------------
(* The stream.                                                             *)

get(n) == IF n \in DOMAIN text THEN text[n] ELSE EOF
until(n, stops) == Min({m \in n .. Len(text) : text[m] \in stops} \cup {Len(text) + 1})
rest(n) == SubSeq(text, n, Len(text))
nextWord == Min({m \in DOMAIN text : text[m] # " "} \cup {Len(text) + 1})

(* Whatever the reader throws ends it.                                     *)
raiseError == pc' = "refused" /\ UNCHANGED readVars
undefined  == pc' = "undefined" /\ UNCHANGED readVars
forever    == pc' = "forever" /\ UNCHANGED readVars

goOn(next, n) == pc' = next /\ text' = rest(n)

reading == UNCHANGED <<file, descrs, deck, wire, client, shown>>

-----------------------------------------------------------------------------
(* Agent::getDeck.  peek() is compared with eof(), a bool: only a failure  *)
(* ends the loop, and a last line that ends in a newline is followed by an *)
(* empty one, for which the assertion fails (nb < 0).                      *)
getDeck ==
  /\ pc = "getDeck"
  /\ IF file = <<>> THEN pc' = "parseDeck" /\ UNCHANGED <<file, descrs>>
     ELSE IF Head(file).nb < 0 THEN pc' = "crashed" /\ UNCHANGED <<file, descrs>>
     ELSE /\ file' = Tail(file)
          /\ descrs' = Append(descrs, Head(file))
          /\ UNCHANGED pc
  /\ UNCHANGED <<readVars, deck, wire, client, shown>>

(* With each name it knows it stores the string it gave to the stream of   *)
(* the writer, which is still empty.                                       *)
refreshDatabase == [n \in Database |-> ""]

(* parseDeck: a line that does not begin with a quote is the name of a     *)
(* card between two characters, of which the second has to be '>'.  What   *)
(* BinaryReader makes of an empty string, or of what is behind a line      *)
(* without '>', is not defined.  The model is of one deck: the pointer to  *)
(* the database is static, and a second deck would use it after its delete.*)
parseDeck ==
  /\ pc = "parseDeck"
  /\ IF Len(deck.oracles) = Len(descrs)
       THEN pc' = "connectDeck" /\ UNCHANGED readVars
     ELSE LET initializer == descrs[Len(deck.oracles) + 1].text
              close  == SelectInSeq(initializer, LAMBDA c : c = ">")
              stored == {n \in Database : SubSeq(initializer, 2, close - 1) = <<n>>}
          IN  IF initializer # <<>> /\ Head(initializer) = quote
                THEN /\ pc' = "name" /\ text' = initializer
                     /\ oracle' = NewOracle /\ section' = "none"
                     /\ UNCHANGED <<phrases, atom>>
              ELSE IF close # 0 /\ stored = {} THEN raiseError
              ELSE /\ \A n \in stored : refreshDatabase[n] = ""
                   /\ undefined
  /\ reading

visitName ==
  /\ pc = "name"
  /\ IF \E n \in Names : IsPrefix(<<quote, n, quote, " ">>, text)
       THEN /\ goOn("type", 5)
            /\ oracle' = [oracle EXCEPT !.name = text[2]]
            /\ UNCHANGED <<section, phrases, atom>>
     ELSE raiseError
  /\ reading

(* visit(card_type): the letters come in this order, each at most once.    *)
flags   == <<"legendary", "snow", "shift", "enchantment", "artifact", "land">>
letters == <<"L", "W", "B", "E", "A", "L">>
underlying == [I |-> "sorcery", P |-> "planeswalker", C |-> "creature", S |-> "sorcery"]

visitType ==
  LET eaten[k \in 0 .. 6] ==
        IF k = 0 THEN 0
        ELSE eaten[k - 1] + IF get(eaten[k - 1] + 1) = letters[k] THEN 1 ELSE 0
      a     == get(eaten[6] + 1)
      type  == {flags[k] : k \in {j \in 1 .. 6 : eaten[j] > eaten[j - 1]}}
                 \cup IF a = "I" THEN {"shift"} ELSE {}
      known == a \in DOMAIN underlying
  IN  /\ pc = "type"
      /\ IF a = " " \/ (known /\ get(eaten[6] + 2) = " ")
           THEN /\ goOn(IF "land" \in type THEN "readAll" ELSE "cost",
                        eaten[6] + IF known THEN 3 ELSE 2)
                /\ oracle' = [oracle EXCEPT !.type = type,
                                !.underlying = IF known THEN underlying[a] ELSE "flagged"]
                /\ UNCHANGED <<section, phrases, atom>>
         ELSE raiseError
      /\ reading

visitMana ==
  LET end == until(nextWord, {" "})
  IN  /\ pc = "cost"
      /\ goOn("readAll", end + 1)
      /\ oracle' = [oracle EXCEPT !.cost = Mana(get(nextWord))]
      /\ UNCHANGED <<section, phrases, atom>>
      /\ reading

(* readAll up to its loop.  After "{}" another '}' is expected.            *)
readAll ==
  /\ pc = "readAll"
  /\ IF IsPrefix(<<"{", "}">>, text) /\ get(3) = "}"
       THEN goOn("stats", 4) /\ UNCHANGED <<oracle, section, phrases, atom>>
     ELSE IF IsPrefix(<<"{", " ">>, text)
       THEN /\ goOn("section", 3)
            /\ section' = IF oracle.underlying = "sorcery" THEN "onresolve" ELSE "activated"
            /\ UNCHANGED <<oracle, phrases, atom>>
     ELSE raiseError
  /\ reading

-----------------------------------------------------------------------------
(* The sections.                                                           *)

endOfSection == until(1, {"<", "}"})
nb_phrases == Cardinality({n \in 1 .. endOfSection - 1 : text[n] = "."})

(* readArray of triggers and statics: the first object.  The effects of a  *)
(* trigger are a null pointer; a selector's value is never found, and what *)
(* is not found is used.                                                   *)
triggerKnown  == get(1) \in dict_trigtypes /\ get(2) = ":"
selectorKnown == get(1) = "(" /\ get(2) \in dict_selectors /\ get(3) = "="
readUnfinished ==
  IF nb_phrases = 0 THEN pc' = "sectionEnd" /\ UNCHANGED readVars
  ELSE IF IF section = "triggered" THEN triggerKnown ELSE selectorKnown THEN undefined
  ELSE raiseError

(* readSectionFlavor: get() fails on an empty text and leaves the last     *)
(* character of one that ends at a '<'.                                    *)
readSectionFlavor ==
  IF endOfSection = 1 \/ get(endOfSection) = "<" THEN raiseError
  ELSE /\ goOn("sectionEnd", endOfSection)
       /\ oracle' = [oracle EXCEPT !.flavor = SubSeq(text, 1, endOfSection - 1)]
       /\ UNCHANGED <<section, phrases, atom>>

(* The switch of readAll; without an end, nb_phrases and the loop of the   *)
(* flavor text read the end of the file for ever.                          *)
readSection ==
  /\ pc = "section"
  /\ IF get(1) = "<" \/ section \in {"onresolve", "altcosts"}
       THEN pc' = "sectionEnd" /\ UNCHANGED readVars
     ELSE IF endOfSection > Len(text) THEN forever
     ELSE CASE section = "flavor" -> readSectionFlavor
            [] section = "activated" ->
                 /\ pc' = "readArray" /\ phrases' = nb_phrases
                 /\ oracle' = [oracle EXCEPT !.actabs = <<>>]
                 /\ UNCHANGED <<text, section, atom>>
            [] OTHER -> readUnfinished
  /\ reading

(* Seeded fault: the brace that ends the text begins another section.      *)
FaultyNextSection ==
  /\ pc = "sectionEnd"
  /\ IF get(1) = "}" THEN pc' = "section" /\ UNCHANGED readVars
     ELSE raiseError
  /\ reading

nextSection ==
  /\ pc = "sectionEnd"
  /\ IF get(1) = "}" THEN goOn("stats", 2) /\ UNCHANGED <<oracle, section, phrases, atom>>
     ELSE IF get(1) = "<" /\ get(2) \in DOMAIN sections /\ get(3) = ">"
       THEN /\ goOn("section", 4) /\ section' = sections[text[2]]
            /\ UNCHANGED <<oracle, phrases, atom>>
     ELSE raiseError
  /\ reading

-----------------------------------------------------------------------------
(* Abilities.  The last of oracle.actabs is the one that is read.          *)

abilityRead == Len(oracle.actabs)

(* readActAb with readCosts: costs up to a ':', each ended by a ','.  A    *)
(* cost of mana replaces the one before.  The character behind the ':' is  *)
(* not looked at; of a word it is the first.                               *)
costEnd(n) == until(n, {",", ":"})

readCosts ==
  /\ pc \in {"readArray", "readCosts"}
  /\ IF pc = "readArray" /\ phrases = 0 THEN pc' = "sectionEnd" /\ UNCHANGED readVars
     ELSE IF costEnd(1) > Min({Len(text), CostSize}) THEN raiseError
     ELSE LET abs  == IF pc = "readCosts" THEN oracle.actabs
                      ELSE Append(oracle.actabs, NewAbility)
              paid == IF get(1) = "T" THEN [Last(abs) EXCEPT !.tapsymbol = TRUE]
                      ELSE [Last(abs) EXCEPT !.cost = Mana(get(1))]
              done == get(costEnd(1)) = ":"
          IN  /\ pc' = IF done THEN "readActAb" ELSE "readCosts"
              /\ text' = rest(costEnd(1) + 1)
              /\ oracle' = [oracle EXCEPT !.actabs = Append(Front(abs), paid)]
              /\ UNCHANGED <<section, phrases, atom>>
  /\ reading

readActAb ==
  /\ pc = "readActAb"
  /\ pc' = "readAtomEffect"
  /\ text' = IF get(1) \in DOMAIN dict_abiltypes \cup unmatched
               THEN <<"tail">> \o rest(2) ELSE rest(2)
  /\ oracle' = [oracle EXCEPT !.actabs[abilityRead].ismana = (get(1) = ":")]
  /\ UNCHANGED <<section, phrases, atom>>
  /\ reading

(* readAbilityType and the tables.                                         *)
readAtomEffect ==
  /\ pc = "readAtomEffect"
  /\ LET word == SubSeq(text, nextWord, until(nextWord, {" "}) - 1)
     IN  IF \E w \in DOMAIN dict_abiltypes : word = <<w>>
           THEN /\ goOn("readAbilityParameter", nextWord + 1)
                /\ atom' = [type   |-> dict_abiltypes[word[1]].type,
                            wants  |-> dict_abiltypes[word[1]].wants,
                            params |-> <<>>]
                /\ UNCHANGED <<oracle, section, phrases>>
         ELSE IF \E w \in unmatched : word = <<w>> THEN undefined
         ELSE raiseError
  /\ reading

(* Seeded fault: only another number is another target.                    *)
FaultySameSlot(a, b) == a.nb = b.nb

(* The index of allassignedvariables.                                      *)
SameSlot(a, b) == upper(a.types) = upper(b.types) /\ a.nb = b.nb

slots == IF oracle.actabs = <<>> THEN <<>> ELSE Last(oracle.actabs).slots

(* Seeded fault: a target that is named again is another one.              *)
FaultySlotOf(t) == Len(slots) + 1

(* The place of a target among the parameters, from 1: that of the first   *)
(* with its index, or the next.                                            *)
slotOf(t) ==
  LET same == {k \in DOMAIN slots : SameSlot(slots[k], t)}
  IN  IF same = {} THEN Len(slots) + 1 ELSE Min(same)

(* The types between '%' and the number.  Where a name has no letters, the *)
(* characters looked at are not initialized: each such name may stand for  *)
(* any of the types, or for none.                                          *)
typesEnd == Min({m \in 3 .. Len(text) + 1 :
                   get(m) \notin DOMAIN readTypeofTarget \cup {"|"}})
namesOfTypes == {m \in 3 .. typesEnd : m = 3 \/ get(m - 1) = "|"}
typesRead ==
  LET named == {m \in namesOfTypes : get(m) \in DOMAIN readTypeofTarget}
      known == UNION {readTypeofTarget[get(m)] : m \in named}
      unnamed == Cardinality(namesOfTypes \ named)
  IN  {known \cup UNION more :
         more \in {s \in SUBSET Range(readTypeofTarget) : Cardinality(s) <= unnamed}}

takes(param, n) ==
  /\ goOn("readAbilityParameter", n)
  /\ atom' = [atom EXCEPT !.wants = Tail(atom.wants), !.params = Append(atom.params, param)]
  /\ UNCHANGED <<section, phrases>>

(* namespace targets: the last three bytes.                                *)
targets == [you |-> byte(-1), this |-> byte(-2), enchanted |-> byte(-3)]

read_mana_to_add(a) == IF a \in DOMAIN manatype THEN manatype[a] ELSE manatype["C"]

readNumber(a, can_be_negative) ==
  IF a \in DOMAIN numbers /\ (can_be_negative \/ numbers[a] >= 0)
    THEN takes(byte(numbers[a]), 3) /\ UNCHANGED oracle
  ELSE raiseError

(* A target that is chosen gets an entry, unless one is the same.  Four    *)
(* bits hold the place of it: a sixteenth is written in front of the table *)
(* as soon as the ability has been read.                                   *)
LastPlace == 15

readTarget ==
  IF get(typesEnd) \in DOMAIN numbers /\ numbers[get(typesEnd)] >= 1
    THEN \E types \in typesRead :
           LET t == [types |-> types, nb |-> numbers[get(typesEnd)]]
           IN  IF slotOf(t) > LastPlace THEN undefined
               ELSE /\ takes(slotOf(t), typesEnd + 1)
                    /\ oracle' = [oracle EXCEPT !.actabs[abilityRead].slots =
                                    IF slotOf(t) > Len(slots) THEN Append(slots, t) ELSE slots]
  ELSE raiseError

readAbilityParameter ==
  /\ pc = "readAbilityParameter" /\ atom.wants # <<>>
  /\ LET wanted == Head(atom.wants)
         a      == get(2)
     IN  IF get(1) # " " THEN raiseError
         ELSE IF wanted = "added_mana"
           THEN takes(read_mana_to_add(a), 3) /\ UNCHANGED oracle
         ELSE IF wanted # "target" THEN readNumber(a, wanted = "number")
         ELSE IF a \in DOMAIN targets THEN takes(targets[a], 3) /\ UNCHANGED oracle
         ELSE IF a = "%" THEN readTarget
         ELSE raiseError
  /\ reading

(* What readAtomEffect finds behind the parameters.                        *)
atomEnds == get(1) \in {";", "."} /\ get(2) = " "

(* The loop of readEffect, which puts every effect before the others, and  *)
(* ends with a '.'.                                                        *)
readEffect ==
  /\ pc = "readAbilityParameter" /\ atom.wants = <<>>
  /\ IF atomEnds
       THEN LET over == get(1) = "."
            IN  /\ goOn(IF over THEN "readArray" ELSE "readAtomEffect", 3)
                /\ oracle' = [oracle EXCEPT !.actabs[abilityRead].effects =
                                <<[type |-> atom.type, params |-> atom.params]>> \o @]
                /\ phrases' = IF over THEN phrases - 1 ELSE phrases
                /\ UNCHANGED <<section, atom>>
     ELSE raiseError
  /\ reading

-----------------------------------------------------------------------------
(* The numbers behind the text.  A number that is missing at the end of    *)
(* the line leaves its variable as it was, one that is not there is 0.     *)
loneNumber(n) ==
  LET m == Min({k \in n .. Len(text) : text[k] # " "} \cup {Len(text) + 1})
  IN  IF m > Len(text) THEN {numbers[d] : d \in DOMAIN numbers}
      ELSE {IF text[m] \in DOMAIN numbers THEN numbers[text[m]] ELSE 0}

hasStats(stats) ==
  /\ deck' = [oracles |-> Append(deck.oracles, [oracle EXCEPT !.stats = stats]),
              cards   |-> deck.cards \o
                          [k \in 1 .. byte(descrs[Len(deck.oracles) + 1].nb) |->
                             Len(deck.oracles)]]
  /\ pc' = "parseDeck"
  /\ UNCHANGED readVars

readStats ==
  /\ pc = "stats"
  /\ CASE oracle.underlying = "creature" ->
            IF get(nextWord) \in DOMAIN numbers /\ get(nextWord + 1) = "/"
              THEN \E toughness \in loneNumber(nextWord + 2) :
                     hasStats(<<byte(numbers[get(nextWord)]), byte(toughness)>>)
            ELSE raiseError /\ UNCHANGED deck
       [] oracle.underlying = "planeswalker" ->
            IF /\ IsPrefix(<<" ", "\\">>, text)
               /\ get(3) \in DOMAIN numbers /\ get(4) = "/"
              THEN hasStats(<<byte(numbers[get(3)])>>)
            ELSE raiseError /\ UNCHANGED deck
       [] OTHER -> hasStats(<<>>)
  /\ UNCHANGED <<file, descrs, wire, client, shown>>

-----------------------------------------------------------------------------
(* To the client.                                                          *)

(* BinaryWriter.  The numbers come first in flavor_text, where for strlen  *)
(* it ends at the first that is 0; a land has no cost.                     *)
bit(b, value) == IF b THEN value ELSE 0

writeActAb(a) ==
  [cost |-> a.cost, slots |-> a.slots, effects |-> a.effects,
   twobools |-> bit(a.tapsymbol, 1) + bit(a.ismana, 2) + 4]

writeText(c) ==
  LET zero == SelectInSeq(c.stats, LAMBDA b : b = 0)
  IN  IF zero = 0 THEN [stats |-> c.stats, flavor |-> c.flavor]
      ELSE [stats |-> SubSeq(c.stats, 1, zero - 1), flavor |-> <<>>]

writeOracle(c) ==
  [name |-> c.name, type |-> c.type, underlying |-> c.underlying,
   cost   |-> IF "land" \in c.type THEN <<>> ELSE <<c.cost>>,
   flags  |-> bit(c.actabs # <<>>, 1) + bit(c.stats # <<>> \/ c.flavor # <<>>, 16),
   actabs |-> [n \in DOMAIN c.actabs |-> writeActAb(c.actabs[n])],
   text   |-> writeText(c)]

(* BinaryReader puts every effect before the others, too.                  *)
effectsRead(effects) == Reverse(effects)

(* Seeded fault: the bits of the two bools are taken for each other.       *)
FaultyActAbRead(w) ==
  [cost |-> w.cost, slots |-> w.slots, effects |-> effectsRead(w.effects),
   tapsymbol |-> (w.twobools \div 2) % 2 = 1, ismana |-> w.twobools % 2 = 1]

actAbRead(w) ==
  [cost |-> w.cost, slots |-> w.slots, effects |-> effectsRead(w.effects),
   tapsymbol |-> w.twobools % 2 = 1, ismana |-> (w.twobools \div 2) % 2 = 1]

oracleRead(w) ==
  LET has(flag) == (w.flags \div flag) % 2 = 1
  IN  [name |-> w.name, type |-> w.type, underlying |-> w.underlying,
       cost   |-> IF w.cost = <<>> THEN "0" ELSE Head(w.cost),
       actabs |-> IF has(1) THEN [n \in DOMAIN w.actabs |-> actAbRead(w.actabs[n])]
                  ELSE <<>>,
       stats  |-> IF has(16) THEN w.text.stats ELSE <<>>,
       flavor |-> IF has(16) THEN w.text.flavor ELSE <<>>]

connectDeck ==
  /\ pc = "connectDeck"
  /\ pc' = "start"
  /\ wire' = [oracles |-> [n \in DOMAIN deck.oracles |-> writeOracle(deck.oracles[n])],
              cards   |-> deck.cards]
  /\ UNCHANGED <<file, descrs, readVars, deck, client, shown>>

(* OlympusClient::start up to the first hand.                              *)
start ==
  /\ pc = "start"
  /\ pc' = "allText"
  /\ client' = [oracles |-> [n \in DOMAIN wire.oracles |-> oracleRead(wire.oracles[n])],
                cards   |-> wire.cards]
  /\ UNCHANGED <<file, descrs, readVars, deck, wire, shown>>

(* What is printed of an effect: its number, params[1], which effects on a *)
(* permanent or a spell do not have.                                       *)
describeAtom(e) == <<e.type, IF Len(e.params) = 2 THEN e.params[2] ELSE -1>>

describe(a) ==
  [cost |-> a.cost, tapsymbol |-> a.tapsymbol,
   effects |-> [n \in DOMAIN a.effects |-> describeAtom(a.effects[n])]]

(* CardOracle::allText.  A text that was sent has no NUL behind it, so     *)
(* that any character may follow; one that was not sent is a null pointer. *)
allText ==
  /\ pc = "allText"
  /\ IF Len(shown) = Len(client.oracles) THEN pc' = "shown" /\ UNCHANGED shown
     ELSE LET c == client.oracles[Len(shown) + 1]
              null == c.stats = <<>> /\ c.flavor = <<>>
          IN  IF null /\ c.underlying \in {"creature", "planeswalker"}
                THEN pc' = "undefined" /\ UNCHANGED shown
              ELSE \E more \in BOOLEAN :
                     /\ more => ~null
                     /\ shown' = Append(shown,
                          [actabs |-> [n \in DOMAIN c.actabs |-> describe(c.actabs[n])],
                           stats  |-> c.stats, flavor |-> c.flavor, more |-> more])
                     /\ UNCHANGED pc
  /\ UNCHANGED <<file, descrs, readVars, deck, wire, client>>

OracleNext ==
  \/ getDeck \/ parseDeck \/ visitName \/ visitType \/ visitMana \/ readAll
  \/ readSection \/ nextSection \/ readCosts \/ readActAb \/ readAtomEffect
  \/ readAbilityParameter \/ readEffect \/ readStats
  \/ connectDeck \/ start \/ allText

OracleSpec == OracleInit /\ [][OracleNext]_oracleVars /\ WF_oracleVars(OracleNext)

-----------------------------------------------------------------------------
Oracles == Range(deck.oracles) \cup {oracle}
Abilities == UNION {Range(c.actabs) : c \in Oracles}

(* readwords.cpp:104-113, rules_text.cpp:122-132: however the effects of   *)
(* an ability name their targets, the table of its parameters is dense:    *)
(* every entry is one target, no two entries are the same one, and no      *)
(* effect has more parameters than its type.                               *)
OracleTypeOK ==
  /\ \A a \in Abilities :
       /\ \A k, l \in DOMAIN a.slots : SameSlot(a.slots[k], a.slots[l]) => k = l
       /\ \A e \in Range(a.effects) : /\ Len(e.params) \in 1 .. 2
                                      /\ e.params[1] \in DOMAIN a.slots \cup 253 .. 255
  /\ \A k \in DOMAIN slots : \E e \in Range(Last(oracle.actabs).effects) \cup {atom} :
       e.params # <<>> /\ e.params[1] = k
  /\ pc = "sectionEnd" => phrases = 0
  /\ \A n \in DOMAIN deck.cards : deck.cards[n] < Len(deck.oracles)

(* What a line says: its abilities in its order, each with its costs; to   *)
(* is what an effect is done to, much the number.                          *)
typesSaid(to) == UNION {readTypeofTarget[to[n]] :
                          n \in {m \in DOMAIN to : to[m] \in DOMAIN readTypeofTarget}}

doesAs(e, does, a) ==
  /\ dict_abiltypes[does.word].type = e.type
  /\ CASE does.to = <<"you">>  -> e.params[1] = byte(-1)
       [] does.to = <<"this">> -> e.params[1] = byte(-2)
       [] OTHER -> LET t == a.slots[e.params[1]]
                   IN  /\ upper(t.types) = upper(typesSaid(does.to))
                       /\ t.nb = numbers[Last(does.to)]
  /\ \A n \in DOMAIN does.much :
       e.params[2] = IF does.word = "add" THEN manatype[does.much[n]]
                     ELSE byte(numbers[does.much[n]])

means(a, said) ==
  /\ a.tapsymbol = ("T" \in Range(said.costs))
  /\ LET mana == SelectSeq(said.costs, LAMBDA c : c # "T")
     IN  a.cost = IF mana = <<>> THEN "0" ELSE Last(mana)
  /\ a.ismana = said.ismana
  /\ Len(a.effects) = Len(said.effects)
  /\ \A n \in DOMAIN said.effects :
       doesAs(Reverse(a.effects)[n], said.effects[n], a)

(* reader.cpp:9-13 with plain/: of a line in the format that the functions *)
(* of the reader themselves ask for (which is not that of the repository's *)
(* tests, see AsInTests in MCOracle) the oracle read is the card it        *)
(* describes, whatever the order of its effects, the targets they share    *)
(* and the sections it has.                                                *)
ReaderMeansText ==
  \A n \in DOMAIN descrs : descrs[n].said # {} =>
    LET said == CHOOSE c \in descrs[n].said : TRUE
        c    == deck.oracles[n]
    IN  /\ n = Len(deck.oracles) + 1 => pc \notin {"refused", "undefined", "forever"}
        /\ n \in DOMAIN deck.oracles =>
             /\ c.name = said.name /\ c.type = said.type
             /\ c.underlying = said.underlying
             /\ "land" \notin c.type => c.cost = said.cost
             /\ c.stats = said.stats /\ c.flavor = said.flavor
             /\ Len(c.actabs) = Len(said.actabs)
             /\ \A k \in DOMAIN c.actabs : means(c.actabs[k], said.actabs[k])

(* networkagent.cpp:62, OlympusClient.cpp:60, describe.cpp:61: the client  *)
(* has the server's deck, and shows every card with the server's costs,    *)
(* types, abilities and targets; it has them with their effects the other  *)
(* way round, and without numbers and text only if one of the numbers is 0 *)
(* (a power or loyalty of 0 is a null pointer to it).                      *)
ClientSeesTheCard ==
  LET zero(n) == 0 \in Range(deck.oracles[n].stats)
  IN  /\ pc \in {"allText", "shown"} =>
           /\ client.cards = deck.cards
           /\ \A n \in DOMAIN deck.oracles :
                LET s == deck.oracles[n]
                    c == client.oracles[n]
                IN  /\ c.name = s.name /\ c.type = s.type
                    /\ "land" \notin s.type => c.cost = s.cost
                    /\ c.underlying = s.underlying
                    /\ Len(c.actabs) = Len(s.actabs)
                    /\ \A k \in DOMAIN s.actabs :
                         [s.actabs[k] EXCEPT !.effects = Reverse(@)] = c.actabs[k]
                    /\ ~zero(n) => c.stats = s.stats /\ c.flavor = s.flavor
      /\ pc = "undefined" /\ wire # NoDeck => zero(Len(shown) + 1)

(* abilities.cpp:42: the place in list_of_targets that an effect acts on.  *)
target1(param) == param - 3

(* 1effects.h:17: "x+1 is 'the target number x in the parameter list of    *)
(* the Resolvable'".                                                       *)
EffectsHitTheirTargets ==
  \A a \in Abilities : \A e \in Range(a.effects) :
    e.params[1] \in DOMAIN a.slots => target1(e.params[1]) = e.params[1] - 1

(* rules_text.cpp:20-44, 115, 232-242: the reader comes to an end of every *)
(* deck whose texts are closed.                                            *)
closed == \A l \in Range(file) \cup Range(descrs) : l.nb < 0 \/ "}" \in Range(l.text)
ReadingEnds ==
  closed ~> pc \in {"shown", "refused", "undefined", "crashed"}
=============================================================================
