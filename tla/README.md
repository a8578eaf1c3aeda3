# Verification of olympusMTG

olympusMTG plays a game of the Magic kind: a server runs the rules, players sit at a terminal,
at a graphical display or at a client connected over TCP. This directory holds TLA+ models of the
rules engine, of mana, of the tree the board is kept in, of the cards' way from their text to the
client, of the way the server gathers its players, of the file protocol and the dialogue between
server and client, and of what a player at the server's own machine is asked; TLC checks them on
small instances, and TLAPS proves, for every number of players, cards, clients and packets, every
length of files and hands, every deck and every field of an amount of mana, that the safety
properties of these models hold, with one exception (section 5), and that the priority loop and the
tree implement their abstract specifications.

Paths are relative to `src/src/`. Run `tlc -config X.cfg M` and `tlapm XProofs.tla` here;
`PROJECT.json` lists the runs, what each definition models, the hazards, the mutants and the
theorems.

## 1. Inventory

| Component | State it keeps | Operations | What makes it correct |
|---|---|---|---|
| Turn structure (`control/phases.cpp`, `game.cpp`, `combat.cpp`) | whose turn, which step, `haswon`, attackers and blockers | `turn`, the steps, `choicephase`, `stateBasedActions`, `play` | steps in order, nobody plays on dead, combat ends with its step, every game ends |
| Priority and the stack (`control/takeopts.cpp`, `gameplay/castopts.cpp`, `resolvables/`) | the stack, who is asked, who acted last | offer, cast, activate, play a land, pass, resolve | the top resolves only when all have passed since the last act; empty stack between phases |
| Permanents (`gameplay/permanents/`) | tapped, attacking, blocked, damage | tap, untap, attack, block, damage, destroy | a destroyed permanent leaves the board; a block lasts one combat |
| Zones (`gameplay/cards.cpp`, `2cards.h`) | library, hand, graveyard, exile | draw, put, shuffle | every card is in one place |
| Mana (`include/Mana/`) | amounts packed in 4 bits a colour | add, subtract, compare, parse | no borrow or carry between colours |
| Targets and modifiers (`9modifs.h`, `ueot.cpp`) | targeters registered with what they aim at | choose, follow, release | a targeter never outlives its target |
| Yggdrasil (`yggdrasil/`) | three hash tables of collections, the view of the attackers, the nodes of an iterator | insert, iterate, unfold, splice, refold; `remove` is empty | it holds the permanents it was given; a walk comes to each once and ends; the creatures selected are those that attack |
| Connecting players (`network/server/`, `server/`, `agents/agent.h`) | `orphan_clients`, per agent a socket, a state, a queue | declare, accept, connect, wait, read | every agent has one client of its own; the game starts with all decks, and does start |
| File transfer (`network/network.cpp`) | the Sender's buffer and write head | add a chunk or a line, send, close, receive | what is sent comes out |
| Session (`agents/network/`, `client/OlympusClient.cpp`) | the client's hand with the server's addresses | deck, opening hand, draw, discard, option, message | client and server in step; the client knows its hand |
| Card descriptions (`oracles/`) | the text left, the oracle being read, the variables of an ability | split a deck file, read, write, read again, describe | a card in the reader's format is read as it is meant, reading any other ends; the client shows the server's card |
| Local agents, command line (`agents/`, `frontend/io_nano.cpp`, `frontend/cli/`) | the list asked about and its marks, the context of the prompt | ask for text, a choice, a number, a selection; read a command | what is returned was selected; the context is what the prompt shows |
| Graphics (`frontend/graphical/`) | the layout, the sprites, the path of the iteration | the same questions by keys, walk over the windows | damage is split within the power; windows do not overlap |
| Start-up (`server/main.cpp`, `client/client.cpp`) | arguments | | |

### How they interact

`Server::addPlayers` makes an `Agent` for each player. A network agent declares itself to the
`NetworkManager`, which hands it to a client from the network thread; a setup thread for each agent
waits for that and reads the deck. `Game`'s constructor makes the `Player`s, which draw their
opening hands by asking their agents; `Game::play` then runs the turns. A main phase calls
`Player::choicephase`, which asks the agents for options round the table, puts them on the global
`Stack` and resolves it; spells and abilities act on zones, life and permanents. A `NetworkAgent`
turns each question into a message and waits for the answer; an `OlympusClient` does the opposite. A
`LocalAgent` passes it on to the front end, on the server as on the client, and a `BotAgent` answers
by itself. Decks reach the game through `Agent::getDeck` and `parseDeck`, and the client through the
binary writer and reader. The attackers a player selects are spliced from one half of his table of
creatures to the other while he selects them.
Once the game has started a single thread of the server runs all of it.

### What is hard here

* **Threads** only before the game: main thread, network thread and one setup thread for each agent
  share `orphan_clients` (without a lock) and one queue per agent (with one).
* **Order of answers**: who is asked after whom, when players answer each other, and what the
  local variables of two nested functions know of it.
* **State kept too long**: `sorceryspeed`, `is_block`, land drops, addresses on the client.
* **Half-done operations**: `destroy` buries a card and leaves its permanent, an ability is paid
  and not activated.
* **No frames**: a read may return one message, part of one or two at once.
* **Boundaries**: the buffer's last characters, an empty library, one mulligan too many, the last
  item of a list, a power of zero.
* **Iterators**: stacks of nodes built while they move, over tables whose halves are merged and whose
  children change list meanwhile.
* **Texts**: a card is read by half a dozen functions that each stop at their own characters; one
  that stops too early leaves the rest to the next.
* **No recovery**: nothing is stored, and a client that disconnects is never waited for again. So
  there is no crash and restart to model.

The hazards are in `PROJECT.json`, each with its line and the properties aimed at it.

## 2. Modules

The proofs about a module `X` are in `XProofs`, which extends it; those about `Mana` and `Oracle`,
which share no variable with them, are the last sections of `MatchProofs` and `YggdrasilProofs`. What
proofs need about sequences of sequences, sums and orders of finite sets is in `FoldProofs`. Section 5
is about them.

### PriorityRules, Priority

`PriorityRules` says what a round of priority promises: one player holds priority; an act makes
every earlier pass void; the top of the stack resolves, or the round closes on an empty stack, only
when every player has passed since the last act. It has a set of players who passed and no counter.

`Priority` is `takeopts.cpp` itself: `choicephase` with its pointer `lastActive` and its do-while
loop, `chooseAndUseOpt` with its local `sorceryspeed` and `hasCastAnything`. `pc` says where the two
are; `current` is the player asked, `first` tells the call of line 16 from those of the loop. One
action is one offer (with the state-based actions), one option used, one pass, one resolution. Cards
are lands, instants and sorceries; mana is the choice of castable or not, and `lost` the set of
players the state-based actions would find dead. `nextopponent` is built as `Game`'s constructor
does: the ring of priority runs against that of the turns. The refinement mapping derives the set of
those who passed from `lastActive` and the distance round the ring (`passed`).

### Match

A whole game of `N` players: the steps of `phases.cpp`, `combat.cpp`, the zones, life, mana, damage,
`stateBasedActions` and `Game::play`. The main phases are the actions of `Priority` (`P!castSpell`
and so on, INSTANCE) conjoined with what they do to the rest, so that what is said of the loop holds
for what runs in a game. `StepOrder` and `step` are the list of steps; `board` and `graveyard` may
hold the same card because `destroy` does not remove the permanent (`Y_Hashtable::remove` is empty),
and `duplicated` records what has been put into a graveyard again.

Abstracted: mana has one colour; a library is a set, since it was shuffled; an effect is one
`AtomEffect`; planeswalkers, triggers and countered spells are left out (`addTriggersToStack` is
never called). A spell whose effect could be aimed at nothing is not cast: there `chooseTarget` returns
a null pointer, which fails the assertion of `9modifs.h:47`. An ability of a tapped permanent is
paid for and refused (`activateTapped`), as in `castopts.cpp:40`.

### Connection

Main thread, network thread, one setup thread for each agent, and the clients. What runs under
`protectReadingQueue` is one action; `push_back` and `pop_back` of `orphan_clients`, which take no
lock, read the end of the vector and write it in two. Condition variables may wake up without
reason, `await_reconnect` may time out, clients come before or after the agents are declared
(`early`), more of them than agents, and a read of the socket returns one packet or several.
`crashed` is an assertion that fails, an exception that leaves a thread, or an empty vector whose
end is used. `on_connect` reads that end for `back()` and again for `pop_back()`; the model reads it
once, which differs only for a client that comes while agents are still being declared.

### Transfer

The Sender's buffer character by character: `addLine` and `addLastLine` are the branches of
`try_add_chunk` with `getline`'s NUL and its lost newline, `sendFullBuffer` the one that sends what
fits and moves the rest to the front, `add_chunk`, `send_chunks` and `close` those of messages;
`receive` is a step of `receiveLongMessage_sync`, whose read returns any beginning of what has come,
part of a block, one, or several, up to the size of its buffer.
`content` is what is sent; a letter tells its place, so that loss, doubling and reordering differ.
The model is of a build with assertions, which is the default (`CMakeLists.txt:28`); with `NDEBUG` the
second try of line 100 falls away, and the next round of `sendFile`'s loop reads the rest of the line.

### Session

One server and one client. `server` and `client` say what each is about to send or waits for;
`wire` and `answers` are the messages on the way, `hand` the server's wrappers by address, `view`
the client's pairs of card and address. A freed address may be given to a new wrapper. A read
returns any number of the messages that have come; what the code makes of the surplus differs: a
deck, a message and an option pass over it, the other readers assert that there is none.

Abstracted: the game between two questions is a draw or nothing, an option is one of the cards of
the hand; a message is not cut in two by a read (`Transfer` has that); the player does not close the
client. Where the code is undefined (the splice of a list into another at its own iterator after a
mulligan, an option of a freed wrapper) the server stops in "undefined".

### Mana

The one `int` of `Mana` as a number whose digits to the base `Base` (16 in the code) are the fields:
the total, the colours, colourless mana; `unit[i]` is what counts one in field `i`. `Plus`, `Parsed`, `AtLeast` and `Minus` are its
operators; `Minus` subtracts the cost field by field and then cuts the colours down to the total that
is left, with the masks and shifts as remainders and units. `manapool` is filled by the effect
`add_mana`, which passes a `manatype` where a position is expected (`addMana`), and emptied by
`Player::pay` (`payMana`) and `emptyPool`. `PoolTypeOK` bounds its colours by its total. `EnoughIffPayable` and `PaysTheCost` compare with `Payments`, a definition of the ways
to pay for a cost that knows nothing of the fields. `Match` abstracts from all this: its mana has one
colour.

### Battlefield, Yggdrasil

`Battlefield` is what a board promises: a set of permanents, the creatures selected, those that
attack. `Yggdrasil` is how it is kept. `ht` holds the collections of the three tables;
`unfolded` and `refolded` are the two changes of a table's size, `spliced` the move of a creature
between the halves, `multiplicity` the `StateTN` of the attackers (0 while its parent is null).

An iterator is `frames`, the stack of its nodes with the outermost first, and `leaf`. One step of a
loop is two actions: `increment` calls `next()` on the leaf, and `climb` is one node of
`inner_iterator::next` that advances, goes down or hands over to the node above; `handedUp` is the
`AdapterLeaf` where the board's iterator of permanents holds one of creatures or planeswalkers. The
adapter has nodes on both sides; the model keeps them in one stack. Loops are those the game has:
untapping over the board, healing and the state-based actions over the creatures, both loops of damage
over the attackers, the selection of attackers. The refinement mapping makes the board the union of the tables, `attackers` the view.
Backward iteration and `split()` have no caller and are left out.

### Oracle

A deck from the lines of its file to what the client shows. `getDeck` splits
the file into lines; `refreshDatabase` is what the database holds for a reference; `visitName`, `visitType`, `visitMana`, `readSection`, `readCosts`,
`readAbilityParameter`, `readStats` and the others are the functions of the plain reader, one action
each, on a text of tokens: characters where the code looks at one, words and numbers as a whole.
`atom` is the effect being read, with the variables of its ability (`slots`): effects that name the
same target share one, and a target that would be the sixteenth does not fit in the four bits of a
place (`LastPlace`) and ends as undefined. `Lines` are the lines a deck may have, of which
`DecksAssumption` says only that a number of copies is a number. The model is of one deck: `parseDeck`
keeps the pointer to the database it has deleted, which a second deck would use (`readfile.cpp:53`). `OracleTypeOK` says which places of
its table of targets an ability may name. `connectDeck` writes the deck as `BinaryWriter` does, `start` reads it as
`BinaryReader` does, `allText` describes it. `pc` ends in a deck shown, in a text refused
(`DeckbuildingError`), in a failed assertion, or in what the code leaves undefined.
`EffectsHitTheirTargets` compares the slot an effect names with the one `abilities.cpp` looks at.

### Menus, Windows, Terminal, LocalAgent

`Menus` has the questions (a selection from a list, a number, a split of damage, a choice of two, a
text) and how Nano, Ncurses and Allegro ask them: keys move a position and an iterator, mark and
commit. `Windows` has the layout of the screen, computed with the widths of a `Rect`'s fields, and
`TemplateGallery::iterate`: `path` is the stack of galleries being iterated. `Terminal` reads
command lines with their context of players and zone. `LocalAgent` composes the three with the
questions of `Agent` and the bot that answers them without a front end. `returned` is the loop of
`checklist` that splices runs of marked items out, `inOrder` the order in which what was spliced out
lies in the new list. The mark of the position behind the last item, which lies outside of the code's
`vector<bool>`, is one like the others: it is a bit of the same word for lists shorter than 63. Drawing, colours and wording
are left out; a letter typed where a number is asked is read as 0, as `>>` does.

## 3. Runs

| Run | Shows | Bounds |
|---|---|---|
| `Priority_rules` | the loop implements `PriorityRules`; a sorcery on the stack is the active player's, who is offered one only where sorcery speed is due, the game is over exactly if won, every round ends | 3 players, 2 lands, 1 sorcery, 1 ability at a time |
| `Match_game` | no card lost, one land a turn, who dies is noticed and what dies is buried before anyone is asked, combat ends with its step, every game ends | 2 players, 7 cards, 2 life |
| `Connection_setup` | each agent gets its own client, its whole deck in order; no game without decks; it starts | 2 agents, 3 clients, 2 packets a deck |
| `Transfer_blocks` | letters and messages arrive in order and whole, receiver in step, the sender gives up only on lines that fill the buffer, the transfer ends | buffer of 6, reads of 7, files up to 10 characters, 3 chunks |
| `Session_turns` | client and server in step, the client knows its hand, the kept one included, every question is answered | 4 cards, hand of 2, 4 addresses, 3 messages on the wire |
| `Mana_pool` | an amount is enough for a cost exactly if it can pay for it, `pay` takes such a payment, the colours stay within the total | fields of base 8, 2 colours, costs up to 8 with 2 of each symbol |
| `Yggdrasil_board` | the tree implements `Battlefield`; every loop comes to what it is about once and ends | a land, a planeswalker, 3 creatures, any number of turns |
| `Oracle_decks` | a card in the format the reader asks for is read as it is meant, the client shows the server's cards; with one that lacks a token, too, parameters stay in order and reading ends, unless the rules text is never closed | 64 cards, each whole and with each one of its tokens left out; decks of one and two lines; odd texts, and texts in the format of the repository's tests, which are refused |
| `LocalAgent_questions` | a selection returns cards that were marked, damage is split within the power, the prompt's players are those it names, windows keep apart | 3 cards, 2 creatures, powers 0 and 3, one opponent, a window of Allegro and a terminal of Ncurses |
| `Transfer_asis`, `Oracle_targets`, `LocalAgent_checklist` | a disagreement of the code with a comment, see section 6 | as above, files up to 8 characters |

Why the bounds are enough to be interesting:

* Three players are the fewest for which "everyone since the last act" differs from "the other one",
  and for which an act by the second player leaves some who passed before and must be asked again.
  One sorcery, one ability and two lands let every player be the last to act and let the stack hold
  two objects. Players are asked only while they hold a land they may play
  (`OptionManager::hasOptions`), hence the lands. The proofs drop these bounds.
* In a match, a creature of each side with power and toughness 1, a spell that deals damage and
  2 life let players die by combat, by spells and by drawing; decks of three and four cards make the
  libraries run out after several turns; two creatures on one side allow a double block and a split
  of damage, two lands on one side a second land in a turn.
* Two agents and three clients: one client too many, and one agent connected while the other is
  pushed. Two packets a deck let a read return a part of it or all.
* A buffer of six characters holds, with its marker, lines of zero to five: each branch of
  `try_add_chunk` at each distance from the end; ten characters take up to three blocks.
* Two colours and colourless mana need every case of the subtraction: the total used up by the first
  field, in between, or by none. Base 8 lets a pool hold seven before it overflows.
* A hand of two admits zero to three refusals, with every outcome of the mulligan loop, and a
  library that still has two cards to draw into freed addresses.
* Three creatures make the table of the creatures hold them in one collection or, in combat, in two
  with every distribution between the halves: none, some or all of either; a land and a planeswalker
  give the walk over the board each combination of empty tables at its start, middle and end.
* The 64 cards have every type letter the readers distinguish, powers and toughnesses of zero on
  either side, no ability, one, and two abilities with shared and with different targets, with and
  without a flavour text. `CostSize` is 12 tokens where the code has 30 characters: texts that lose
  their end of a cost are longer than that.
* Three cards are the fewest of which two that do not touch can be marked, which is where
  `checklist` splits its runs; the position behind the last is among those marked. Powers 0 and 3 are
  the one for which nothing is asked and one that two creatures can share unequally. The two
  resolutions are those of `io_allegro.cpp` and a terminal in which one line is one row.

`CHECK_DEADLOCK FALSE` is set in all but `Yggdrasil_board`: games, transfers and dialogues end, and
a server that waits for clients which never come does nothing. No run uses symmetry.

## 4. Fairness

* `Priority`: `WF(choicephase)`. One thread runs the loop, and every agent answers in the end; bots
  and network agents pass, the command line asks again. Nothing makes a player stop using an ability
  that is free: `ChoicephaseReturns` excepts a game in which abilities are used for ever.
* `Match`: `WF(Next)`: the server runs on. It suffices because cards, mana and land drops run out.
* `Connection`: weak fairness of each thread and each client that has come. Clients need not
  come: `GameStarts` assumes that every agent has one. Spurious wakeups and timeouts are not fair.
* `Yggdrasil`: weak fairness of the loop that runs; entering the next step is not fair.
* `Oracle`: `WF(Next)`: one thread reads on until the deck is shown or refused.
* `LocalAgent`: none, its properties are about safety. A person need not answer, and Nano may hang.
* `Transfer`, `Session`: weak fairness of both sides: what is sent arrives, and a player who is
  asked answers. `AnswerComes` excepts what two messages read at once and the eighth mulligan lead to.

## 5. Proofs

Each proof module states an inductive invariant (`IInv`), the conjunction of what its properties
need to survive a step, which TLC checked as an invariant of the run's instance before it was proved.
The theorem `Spec => []IInv` (`Init => IInv`, `IInv /\ [Next]_vars => IInv'`, one step per action)
carries the others.
The constants have the assumptions their modules name and no others; TLC's bounds (`MaxFile`,
`MaxWire`, `MaxTyped`, `MaxAbilities`) are any numbers there, too.

| Module | Theorems | For every |
|---|---|---|
| `PriorityProofs` | `TypeCorrect`, `SorceriesActive`, `SorcerySpeedSpent`, `OverWhenWon`, `PriorityImplementsRules` | players (two and more), cards |
| `MatchProofs` | `TypeCorrect`, `CardsStay`, `OneLandEachTurn`, `CombatIsOver`, `DeathsNoticed`, `MainPhasesArePriority`, `MainPhasesFollowRules`, `GameOverIffWon` | players, decks, costs, powers, effects |
| `MatchProofs`, about `Mana` | `PoolTypeCorrect`, `EnoughToPay`, `PaymentMade` | size of a field, number of colours, costs |
| `ConnectionProofs` | `NothingLost`, `DecksComplete`, `OneClientEach`, `LateClientFindsFreeAgent` | agents, clients, length of decks, reads |
| `TransferProofs` | `LettersInOrder`, `BlocksInStep` | buffer of four and more, file, message, reads |
| `SessionProofs` | `TypeCorrect`, `InStepAlways`, `KnowsHand` | deck, size of a hand, number of addresses |
| `YggdrasilProofs` | `TypeCorrect`, `LoopsReachAll`, `BoardIsBattlefield` | permanents, number of combats |
| `YggdrasilProofs`, about `Oracle` | `TargetsShareEntries`, `ServersCardShown` | deck of the model's tokens, well or badly written |
| `LocalAgentProofs` | `TypeCorrect`, `DamageSplit`, `PlayersNamedAlways`, `ChecklistMarked`, `WindowsApart` | hand, creatures, powers, opponents, command lines, screens |

### Priority and Match

The invariant of the loop is `TypeOK /\ LapInv /\ StackEmptyBetweenPhases`. The last part repeats the
guard of `choicephaseReturns` and is there because the rules close a round on an empty stack only; no
run lists it as a property. `LapInv` is what
the do-while loop relies on without saying so: inside the loop the player asked is never the one
whose call began the lap (`current # lapStart`), and the loop variable `first` goes with an unset
`lastActive`. Without it nothing says that the condition of line 21 is reached with all players
passed; with it, each step round the ring adds exactly one player to `passed` (lemmas
`DistProperties`, `DistStep` on distances in the ring), and the ring closes when all `N` are in it.
`SorceriesActive` needs that `sorceryspeed` is only ever true for the active player, part of
`SorcerySpeedIsSpent`, which is proved with it.

`MatchProofs` does not repeat this. `StepIsPriorityStep` shows that every step of a game is a step of
`Priority`, with `lost` the players the state-based actions would find dead, or leaves its variables
alone; so the loop's invariant holds in games (`LoopInv`), and a whole game implements
`PriorityRules` (`MainPhasesFollowRules`). To it come where a card can be (`PlacesInv`), what objects
on the stack stand for (`StackInv`: a spell is no land and is there once, else resolving it would
double the card), lands in play against turns begun (`LandInv`), and when deaths have been noticed
(`DeathInv`). `DeathsNoticed` has the hypothesis `DecksSuffice`, that no deck is smaller than an
opening hand: the owner of a smaller one mills out before the first turn, where nobody looks.

### Mana

An `int` is a number below `unit[COLORLESS + 2]`, and a field is a digit of it. `PlusAdds` says what
`Plus` makes of the digits while no field is full; `ParsedHolds` that a cost whose symbols and number
are fewer than `Base` has them as its digits and their sum as its total, by adding one symbol after
the other. `Subtracted` is the heart: if every digit of the cost is at most that of the pool, the
subtraction of the numbers borrows nowhere, so each digit is the difference. `operator-=` then stops
at the first field at which the colours exceed the total (`FirstTooMany`) and cuts there: fields below
stay, that field loses the excess and those above become 0, and what is left of the colours is the
total exactly. So the invariant `PoolTypeOK`, that colours do not exceed the total, is inductive
without help, and what `payMana` takes is a payment. `EnoughToPay` has as its witness one that spends
the symbols of the cost and then colours of any kind.

### Connection

That packets are in order needs that no two agents have one client (`HandedOnce`), that nothing
empty is queued, and for the end of a deck that no setup thread is left when the game runs. `InOrder`
says of each agent: deck, queue and wire, one after the other, are what its client has sent.
`LateClients` is about clients that come after all agents are declared: then `orphan_clients` is the
agents in their order up to the last one free, whatever the two threads remember of its end; so the
assertion of `on_connect` holds (`LateClientFindsFreeAgent`). For early clients it does not.

### Transfer

`LettersInv`: the letters received, on the wire, buffered and not yet read, one after the other, are
those of the content. It says nothing of newlines, which the code loses (section 6). `MarkInv` says
how a full buffer ends, with a newline in a file, with a marker in a message, which is why
`sendFullBuffer` loses no letter when it writes over the last character. `WholeInv`: as long as every
read has returned one block, the blocks on the wire end with the marker that belongs there.
`ExactInv`: what has one line or fits in one block is unchanged on its way, since for it
`sendFullBuffer` is never called. `BufferSize` of at least four and a read that takes a
whole block are the assumptions.

### Session

`InDialogue` lists, for each thing the client may expect, where the server is and which messages are
under way; it holds until two messages are read at once (`merged`) or a hand too many is refused,
and these are the two exceptions `InStep` has. `TurnInv` keeps it inductive: a question is the last
message on the wire, and an answer is alone. `KnowsInv` puts the server's hand between what the
client knows or is about to learn, and that without the cards it has played.

### Yggdrasil

`TreeInv`: each table is one list, that of the creatures two in combat; no list has a permanent
twice, nor one of another table. `LoopInv` and `ChooseInv` say where an iterator's nodes are for what
a loop has gone through; `ChooseInv` is the one a reader would doubt, as the loop of `chooseAttackers`
splices the permanent it is at into the other list and goes on: what is left in the list before the
iterator are those gone through and not selected (`Kept`). The assumption is that `nullptr` and the
value for a node that hands over are not permanents. `BoardIsBattlefield` is the refinement:
`insert` is `Enter`, `chooseAttackers` is `Select`, `attackersChosen` is `Declare` and `restate` is `EndCombat`;
every other step, the splices among them, stutters.

### Oracle

`OracleTypeOK` is not inductive as it stands: it says nothing of the effect that is half read. In
`OracleInv`, `IsReading` says that each entry of an ability's table is the target of an effect stored
or of the one being read, and that only while it is read; and that what an effect still wants goes
with the parameters it has, since `readAbilityParameter` takes the first of them for a place. With it
an entry is never left over, and no effect names a place the table lacks, whatever
the text: the theorem is about refused and unfinished texts, too. `DeckRead` says that the numbers of
a deck's list stand for its oracles and that a creature has its numbers, `LinesRead` that there is an
oracle for each line and one less while a line is read. `ServersCardShown` follows from `IsSent`, which says at each stage of the
dialogue what file, wire and client have in common: an effect's parameters and a target's kind are
packed in bits and come out as they went in, as long as there are places for them, and a
power, toughness or loyalty of zero is what ends in "undefined". The theorem's decks are all
sequences of lines of the model's tokens.

### LocalAgent

`ListInv` and `HandInv`: marks belong to the list asked about, no answer leaves any, and the hand has
each card once. `SplitInv`: what is given and what is left make no more than the power, and the
number shown no more than what is left; a byte of what is given is never more than it. `PathInv`: the
path leads from the screen down, each window part of the one above. `ContextInv`: the players of a
context are a function of its name, so that commands taken back or refused cannot part them.
`ChecklistMarked` is an action property. The loop of `checklist` has invariants of its own, by
induction over its rounds: whatever is taken is marked (`RoundInv`), and with one run of marks the
loop is before it, in it or behind it (`RunInv`). `TerminalAssumption` says that the opponents are
finitely many and not oneself. `WindowsApart` takes the rows of the screen one after the other: how
far each window reaches, whatever is lost in rounding, that none leaves its row or column, and that
the coordinates fit in the 11 and 16 bits of a `Rect`. Its hypothesis `ScreensSuffice` is that a screen
has the ten lines which the log and what is below it take from its right bar, and a height of less
than 2^16: on a lower screen the height left for the options is less than zero, and wraps.

### Only model-checked

* Liveness under fairness, in all modules: `ChoicephaseReturns`, `GameStarts`, `AnswerComes` and the
  others; the provers have no rules for `WF` and `ENABLED`.
* `GivesUpOnLongLines` of `Transfer`, whose `WholeLine` looks for the last newline read.
* `ReaderMeansText` of `Oracle`: it compares what is read with what the author of a deck meant, which
  is true only of texts written as `written` in `MCOracle` writes them, the format that the reader's
  functions ask for; the texts of the repository's tests are refused (section 6). What a run of the reader makes
  of such a text, token after token, is an induction over the text with one case for every prefix,
  which TLC does on its 64 cards by running it.

Recursion of the library (`FlattenSeq`, `MapThenSumSet`) and of the models (`Total`, `returned`,
`unit`) is dealt with by induction over a set of numbers (`SetInduction` in `FoldProofs`): that a function
with its equations exists, that it has the property, and that the definition picks such a one.

## 6. Where the code disagrees with its comments and tests

Three of the disagreements have a run that TLC refutes:

1. `Transfer_asis`: a file of more than one block is damaged (`network.cpp:91`), which is to be
   transmitted "as-is" (line 82).
2. `Oracle_targets`: the effects of an ability look for their targets at `params[0]-3`
   (`abilities.cpp:42`), the reader numbers them from 1 (`readwords.cpp:106`), as `1effects.h:17`
   says. `Match` models effects that hit the target chosen, as that comment has it.
3. `LocalAgent_checklist`: of three cards with the first and the third marked only the first is
   returned (`basicIO.h:100`), though the player was told how many to select (line 95).

**The reader refuses the cards of its own tests.** Each text of
`oracles/filereader/plain/test.cpp:14-19` and of `oracles/test.cpp:11` is refused at its first `<`,
where the reader wants a quote (`plain/filereader.cpp:18`). With quotes all would be refused further
on: subtypes are not read (`reader.cpp:44`), so that `+Hound` is taken for the cost and `+Island`
stands where a `{` should; `{<x>` and `{<k>` lack a space (`rules_text.cpp:17`); the effects of a spell
are not read (`rules_text.cpp:263`). `oracles/filereader/test.cpp:12` has the format of the tests, too,
with a number in front, and cannot be compiled. `material/decks/syntax_guide.txt` has quotes, but also
a `!` before two of them, `-Phyrexian-Praetor`, `{<k>`, a text of several lines and words that no table
has: none of its cards with a text is read. The model refuses what the code refuses. So
`ReaderMeansText` is about the format which the code of the reader has, and says nothing in favour of
the texts of the tests; `AsInTests` of `MCOracle` puts two of these, and the same with quotes, among the
decks of `Oracle_decks`, for `OracleTypeOK` and `ReadingEnds`.

Five more break what a comment says over several steps:

* When a spell has resolved and another waits below it, the active player may cast a sorcery
  (`takeopts.cpp:16`), which `isCastable` is to filter out (`8options.h:18`). `SorcerySpeedIsSpent`
  states the exception.
* A destroyed permanent's card is in the graveyard (`5resolvables.h:43`: "finally") and the permanent
  still on the board (`hashtable_tn.h:148`, "TODO CRITICAL implement"), where it may be destroyed again.
* A creature that was blocked once and attacks without being blocked hits nobody (`creature.cpp:10`),
  as `is_block`, "used for both blocking and blocked" (`4permanents.h:60`), is never reset.
* A line that would fit in an empty buffer ends the server if it comes second (`network.cpp:100`:
  "there's no reason it should fail this time"): the buffer it is tried with holds its beginning and
  `getline`'s NUL. `GivesUpOnLongLines` bounds this to lines that fill the buffer but for two characters.
* The client offers cards that were played, as nothing tells it to delete them (`protocol.h:8`), and
  the address of one may by then be that of another card, which the server takes for the one chosen
  (`networkagent.cpp:120`); an agent "chooses opt, pops it and returns it" (`takeopts.cpp:38`).

Noticed in reading or in modelling besides. In the rules:

* An ability of a tapped permanent is paid for and refused, with the mana gone (`castopts.cpp:40`).
* An ability adds mana of the wrong colour, white becomes two of none: a `manatype` is passed for a
  position (`mana.cpp:49`, `abilities.cpp:8`). The mana of the players whose turn it is not lasts
  (`phases.cpp:16`).
* The walk over a board whose table of creatures is empty does not come to the planeswalkers behind
  it (`3player_board.h:25`): they stay tapped. `LoopsComeToEachOnce` says what the walk does reach.
* `SpecificTargeter::setTarget` does not register the targeter with its target (`9modifs.h:46`), and
  the copy of a targeter that a list of blockers keeps (`4permanents.h:73`) is not the one registered:
  nothing tells either when the target is freed. Permanents and players never are; what waits on the
  stack is, once it has resolved.

In the network:

* The list of free agents is shared without a lock, and an agent that has a client is handed out
  again (`networkmanager.cpp:78, 96`).
* A spurious wakeup in `await_reconnect` fails the assertion behind it (`async.cpp:64`); work is
  done inside an `assert` (`network.cpp:100`); a marker is written behind the buffer
  (`network.cpp:83`).
* A list is spliced into another at its own iterator
  (`networkagent.cpp:51`). The seventh mulligan stands against `networkagent.cpp:27`. The client may
  read deck and hand, or hand and discard, at once (`OlympusClient.cpp:61, 132`).

In the card descriptions:

* An empty rules text has to be written "{ }" or with its section: "{}" is refused. The flavour text
  must be the last section. A plain "L" before the space is a legendary card, not a land.
* A creature target and a planeswalker target with the same number share a slot
  (`readwords.cpp:104`); triggers and static abilities with a phrase lead to undefined
  behaviour.
* The place of a target has four bits (`rules_text.cpp:129`): the sixteenth of an ability is written in
  front of its table. No card has so many.
* There are twelve names of abilities for eleven effects (`dictholder.cpp:12`).
* The order of effects is reversed between server and client, as each reader pushes to the front.
* A power, toughness or loyalty of zero ends the string it is written in
  (`binarywriter.cpp:35`): what follows is not sent. Negative amounts become bytes.
* `refreshDatabase` stores an empty string for every card, since the stream it writes to has a copy of
  `binary` (`database.cpp:34`). A deck file that ends in a newline
  fails an assertion (`agent.cpp:27, 39`). A `DeckbuildingError` is caught nowhere.

At the player's machine:

* Nano asks for ever when a number is 0 or a word (`io_nano.cpp:134`). The newline that `>>` leaves
  makes the next line read an empty one.
* The position behind the last item can be reached and marked, and counts (`baseIO.cpp:17`), and
  moving the iterator there dereferences null; `operator--` of the iterator increments
  (`basicIO.h:35`).
* A line that is refused keeps the context it named. `:zone` followed by an argument loses the
  argument's first character (`cliUI_terminal.cpp:117`): `sel :hand 12` selects 2. `#none` and a
  selection take the first of an empty vector.
* A walk over the windows that enters an empty gallery, such as the stack or a row without cards,
  goes through its end; LEFT goes back in vertical galleries and UP in horizontal ones, against RIGHT
  and DOWN (`window.h:108`); `chooseTarget` may return null
  where a target is needed; a header is accepted for any type of target.
* Sprites of cards that left the hand dangle (`graphical_ui.cpp:24`).
* The hint shown by Allegro is part of the answer (`io_allegro_input.cpp:25`).
* The two sides of the board overlap by two lines, and the stack's window leaves the screen at the
  bottom: `WindowsKeepApart` speaks of the others.
* The program ends by an exception when the window is closed: only `OlympusClient.cpp:111` catches
  it.

## 7. Not modelled, and plan

| Step | Module | About |
|---|---|---|
| done | PriorityRules, Priority, PriorityProofs | the core: rounds of priority, and their proof |
| done | Match | whole games, composing Priority |
| done | Connection, Transfer, Session | the server and its clients |
| done | Mana | packed amounts of mana |
| done | Battlefield, Yggdrasil | the tree of permanents and its iterators |
| done | Oracle | cards from text to client |
| done | Menus, Windows, Terminal, LocalAgent | the player at the machine |
| done | MatchProofs, ConnectionProofs, TransferProofs, SessionProofs, YggdrasilProofs, LocalAgentProofs | their safety properties, each from an inductive invariant that TLC checked first; `Match` implements the rules of priority, `Yggdrasil` the battlefield |
| done | MatchProofs, YggdrasilProofs, LocalAgentProofs | the packed amounts of `Mana`, the cards of `Oracle`, the layout of `Windows` |
| next | Targets | `SpecificTargeter` (`9modifs.h`): registered with what it aims at, across destruction and resolution |

Abstract specifications worth stating: a FIFO channel that `Transfer` should implement where no line
crosses a block, a dialogue of questions and answers for `Session`.

Left out for good: drawing (ncurses and Allegro), logging, the JSON reader and writer (which only the
database uses), command line arguments and start-up, `addTriggersToStack` and effects until the end
of the turn, which nothing calls. Questions that `NetworkAgent` answers without asking (targets,
attackers, blockers, damage) do not reach the client.
