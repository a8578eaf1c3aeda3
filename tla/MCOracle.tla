------------------------------ MODULE MCOracle ------------------------------
(* The decks: cards in the format that plain/filereader.cpp and            *)
(* rules_text.cpp ask for, with all their characters or without one of     *)
(* them.  The name is in quotes, as in material/decks/syntax_guide.txt,    *)
(* there are no subtypes, and a space follows the '{'.  The format of the  *)
(* repository's tests (plain/test.cpp:14-19) is another, which the reader  *)
(* refuses: AsInTests.                                                     *)
EXTENDS Oracle

effect(word, to, much) == [word |-> word, to |-> to, much |-> much]
ability(costs, ismana, effects) == [costs |-> costs, ismana |-> ismana, effects |-> effects]

joined(seqs, separator) ==
  FlattenSeq([n \in DOMAIN seqs |-> IF n = 1 THEN seqs[n] ELSE separator \o seqs[n]])

writtenEffect(e) == <<e.word, " ">> \o e.to \o IF e.much = <<>> THEN <<>> ELSE <<" ">> \o e.much

writtenAbility(a) ==
  joined([n \in DOMAIN a.costs |-> <<a.costs[n]>>], <<",">>)
    \o <<":", IF a.ismana THEN ":" ELSE " ">>
    \o joined([n \in DOMAIN a.effects |-> writtenEffect(a.effects[n])], <<";", " ">>)
    \o <<".", " ">>

number(n) == CHOOSE d \in DOMAIN numbers : numbers[d] = n

written(c) ==
  <<quote, c.name, quote, " ">>
    \o FlattenSeq([k \in 1 .. 6 |-> IF flags[k] \in c.type /\ ~(c.underlying = "sorcery" /\ k = 3)
                                      THEN <<letters[k]>> ELSE <<>>])
    \o (CASE c.underlying = "sorcery" -> IF "shift" \in c.type THEN <<"I">> ELSE <<"S">>
          [] c.underlying = "creature" -> <<"C">>
          [] c.underlying = "planeswalker" -> <<"P">>
          [] OTHER -> <<>>)
    \o <<" ">> \o (IF "land" \in c.type THEN <<>> ELSE <<c.cost, " ">>)
    \o <<"{", " ">>
    \o (IF c.underlying = "sorcery" /\ c.actabs # <<>> THEN <<"<", "a", ">">> ELSE <<>>)
    \o FlattenSeq([n \in DOMAIN c.actabs |-> writtenAbility(c.actabs[n])])
    \o (IF c.flavor = <<>> THEN <<>> ELSE <<"<", "x", ">">> \o c.flavor)
    \o <<"}">>
    \o (CASE c.underlying = "creature" -> <<" ", number(c.stats[1]), "/", number(c.stats[2])>>
          [] c.underlying = "planeswalker" -> <<" ", "\\", number(c.stats[1]), "/">>
          [] OTHER -> <<>>)

drawTwo  == ability(<<"T">>, FALSE, <<effect("draw", <<"you">>, <<"2">>)>>)
addMana  == ability(<<"T">>, TRUE, <<effect("add", <<"you">>, <<"U">>)>>)
twoCosts == ability(<<"W", "T">>, FALSE, <<effect("myExile", <<"this">>, <<>>)>>)
shared   == ability(<<"W">>, FALSE,
              <<effect("ping", <<"%", "creature", "|", "player", "1">>, <<"1">>),
                effect("add_life", <<"%", "player", "1">>, <<"-1">>),
                effect("destroy", <<"%", "permanent", "2">>, <<>>)>>)
same     == ability(<<"W", "2">>, FALSE,
              <<effect("destroy", <<"%", "creature", "1">>, <<>>),
                effect("ping", <<"%", "creature", "1">>, <<"2">>),
                effect("ping", <<"%", "player", "1">>, <<"2">>)>>)

Kinds == {[type |-> {"shift", "land"}, underlying |-> "flagged", stats |-> <<>>],
          [type |-> {"artifact"}, underlying |-> "flagged", stats |-> <<>>],
          [type |-> {"legendary"}, underlying |-> "creature", stats |-> <<2, 1>>],
          [type |-> {}, underlying |-> "creature", stats |-> <<0, 1>>],
          [type |-> {}, underlying |-> "creature", stats |-> <<1, 0>>],
          [type |-> {}, underlying |-> "planeswalker", stats |-> <<2>>],
          [type |-> {"shift"}, underlying |-> "sorcery", stats |-> <<>>],
          [type |-> {}, underlying |-> "sorcery", stats |-> <<>>]}

Cards == {[name |-> "Ismaru", type |-> k.type, underlying |-> k.underlying,
           cost |-> "W", actabs |-> abs, stats |-> k.stats, flavor |-> f] :
            k \in Kinds, f \in {<<>>, <<"Arigato", ".">>},
            abs \in {<<>>, <<addMana>>, <<drawTwo, shared>>, <<twoCosts, same>>}}

line(nb, tokens, said) == [nb |-> nb, text |-> tokens, said |-> said]
right(c) == line(2, written(c), {c})
wrong(c) == {line(1, RemoveAt(written(c), n), {}) : n \in DOMAIN written(c)}

island == CHOOSE c \in Cards : "land" \in c.type /\ c.actabs = <<addMana>> /\ c.flavor = <<>>

inText(tokens) == line(1, <<quote, "Ismaru", quote, " ", "A", " ", "W", " ", "{", " ">>
                            \o tokens \o <<"}">>, {})
Odd == {inText(t) : t \in
          {<<"<", "t", ">", "you", ":", " ", "draw", " ", "you", " ", "1", ".", " ">>,
           <<"<", "t", ">", "etb", ":", " ", "draw", " ", "you", " ", "1", ".", " ">>,
           <<"<", "s", ">", "(", "ctrl", "=", "you", ")", ":", " ", "anthem", ".", " ">>,
           <<"<", "s", ">", "<", "z", ">", "<", "o", ">", "<", "t", ">">>,
           <<"T", ":", " ", "untap", " ", "this", ".", " ">>,
           <<"T", ":", " ", "p_power", " ", "this", ".", " ", "<", "a", ">">>,
           <<"<", "x", ">", "Arigato", "<", "a", ">">>}}
       \cup {line(1, <<"<", "Plains", ">">>, {}), line(1, <<"<", "Swamp", ">">>, {}),
             line(1, <<"<", "Plains">>, {}), line(-1, <<>>, {}),
             line(1, <<quote, "Ismaru", quote, " ", "A", " ", "W", " ", "{", "}">>, {}),
             line(1, <<quote, "Ismaru", quote, " ", "A", " ", "W", " ", "{", "}", "}">>, {})}

(* Cards in the format of plain/test.cpp, and the same with quotes.        *)
AsInTests ==
  {line(1, <<open, "Ismaru", close, " ", "C", " ", "+", "Hound", " ", "W", " ",
             "{", "<", "x", ">", "Arigato", "}", " ", "2", "/", "2">>, {}) :
     <<open, close>> \in {<<"<", ">">>, <<quote, quote>>}}
  \cup {line(1, <<open, "Ismaru", close, " ", "B", "L", " ", "+", "Island", " ", "{", " ",
                  "T", ":", ":", "add", " ", "you", " ", "U", ".", " ", "}">>, {}) :
          <<open, close>> \in {<<"<", ">">>, <<quote, quote>>}}

MCDecks == {<<right(c)>> : c \in Cards} \cup {<<l>> : l \in UNION {wrong(c) : c \in Cards}}
             \cup {<<right(island), l>> : l \in Odd \cup AsInTests}
             \cup {<<right(c), right(island)>> : c \in Cards}

=============================================================================
