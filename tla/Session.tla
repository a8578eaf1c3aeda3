------------------------------ MODULE Session ------------------------------
(***************************************************************************)
(* The dialogue of the server with one client: NetworkAgent turns the      *)
(* questions of the rules engine into messages, OlympusClient reads them,  *)
(* lets its player answer and keeps a copy of his hand.  The connection    *)
(* keeps the order of the messages, but has no frames: what the server     *)
(* sends twice in a row may be read at once.                               *)
(*                                                                         *)
(* An option crosses the connection as its address.  The server's wrapper  *)
(* of a card is freed when the card leaves the hand, and its address may   *)
(* be given to another.                                                    *)
(***************************************************************************)
EXTENDS Naturals, Sequences, SequencesExt, FiniteSets, FiniteSetsExt, Functions

CONSTANTS Cards,       (* the deck, of at least HandSize cards             *)
          NbAddresses, (* bound: the places where a CardWrapper may lie    *)
          HandSize,    (* NB_STARTING_CARDS: 7                             *)
          MaxWire      (* bound: the messages under way                    *)

ASSUME SessionAssumption ==
  /\ IsFiniteSet(Cards) /\ HandSize \in 1 .. Cardinality(Cards)
  /\ NbAddresses \in Nat /\ NbAddresses >= Cardinality(Cards)
  /\ MaxWire \in Nat /\ MaxWire >= 2

nullptr == 0
Addresses == 1 .. NbAddresses

VARIABLES
  server,     (* "deck", "keepsHand", "draw", "discard", "option": about   *)
              (* to send that; "keeps?", "discards?", "option?": waiting   *)
              (* for that answer; "game": the game goes on; "assertion",   *)
              (* "undefined": it has come to grief                         *)
  refused,    (* the i of drawStartingHand                                 *)
  library,    (* Gamer::myLibrary                                          *)
  hand,       (* Gamer::myHand: the cards of the wrappers, by address      *)
  wire,       (* the messages under way to the client                      *)
  answers,    (* those under way to the server                             *)
  client,     (* what OlympusClient expects: "deck", "hand", "drawn",      *)
              (* "discard", or "play"; or "assertion"                      *)
  shown,      (* the cards of the hand the player last decided about       *)
  view,       (* OlympusClient's myHand with its optionMapping: pairs of a *)
              (* card and an address                                       *)
  played,     (* history: the pairs that have left the hand                *)
  merged      (* history: two messages have been read at once              *)

serverVars == <<server, refused, library, hand, played>>
clientVars == <<client, shown, view, merged>>
vars == <<serverVars, wire, answers, clientVars>>

(* A player with a shuffled library; the client has sent its deck.         *)
Init ==
  /\ server = "deck" /\ refused = 0
  /\ library \in SetToSeqs(Cards)
  /\ hand = <<>> /\ played = {}
  /\ wire = <<>> /\ answers = <<>>
  /\ client = "deck" /\ shown = {} /\ view = {}
  /\ merged = FALSE

Wrappers(cards) == {<<cards[a], a>> : a \in DOMAIN cards}

-----------------------------------------------------------------------------
(* The server.                                                             *)

send(message) ==
  /\ Len(wire) < MaxWire
  /\ wire' = Append(wire, message)

(* receiveMessage_sync of an answer of this kind.                          *)
answered(op) ==
  /\ answers # <<>>
  /\ Head(answers).op = op
  /\ answers' = Tail(answers)

(* NetworkAgent::connectDeck.                                              *)
connectDeck ==
  /\ server = "deck"
  /\ send([op |-> "deck"])
  /\ server' = "keepsHand"
  /\ UNCHANGED <<refused, library, hand, played, answers, clientVars>>

(* NetworkAgent::keepsHand sends what lies on top of the library ...       *)
keepsHand ==
  /\ server = "keepsHand"
  /\ send([op |-> "hand", cards |-> {library[i] : i \in 1 .. HandSize}])
  /\ server' = "keeps?"
  /\ UNCHANGED <<refused, library, hand, played, answers, clientVars>>

(* ... and returns the answer to drawStartingHand.                         *)
handKept ==
  /\ server = "keeps?"
  /\ answered("keeps") /\ Head(answers).keeps
  /\ server' = "draw"
  /\ UNCHANGED <<refused, library, hand, played, wire, clientVars>>

(* Seeded fault: after a refusal the new hand is not shown.                *)
FaultyHandRefused ==
  /\ server = "keeps?"
  /\ answered("keeps") /\ ~Head(answers).keeps
  /\ library' \in SetToSeqs(Cards)
  /\ refused' = refused + 1
  /\ server' = "draw"
  /\ UNCHANGED <<hand, played, wire, clientVars>>

(* Seeded fault: a player may refuse as often as he likes.                 *)
FaultyMulligan ==
  /\ server = "keeps?"
  /\ answered("keeps") /\ ~Head(answers).keeps
  /\ library' \in SetToSeqs(Cards)
  /\ refused' = refused + 1
  /\ server' = "keepsHand"
  /\ UNCHANGED <<hand, played, wire, clientVars>>

(* A refused hand is shuffled away; after HandSize + 1 of them the game    *)
(* begins without one.                                                     *)
handRefused ==
  /\ server = "keeps?"
  /\ answered("keeps") /\ ~Head(answers).keeps
  /\ library' \in SetToSeqs(Cards)
  /\ refused' = refused + 1
  /\ server' = IF refused = HandSize THEN "game" ELSE "keepsHand"
  /\ UNCHANGED <<hand, played, wire, clientVars>>

(* Player::draw: the cards on top get wrappers at free addresses, and      *)
(* Viewer::onDraw tells the client.                                        *)
drawCards(n) ==
  \E at \in Injection(1 .. n, Addresses \ DOMAIN hand) :
    LET new == [a \in Range(at) |-> library[CHOOSE i \in 1 .. n : at[i] = a]]
    IN  /\ hand' = [a \in DOMAIN hand \cup Range(at) |->
                     IF a \in DOMAIN hand THEN hand[a] ELSE new[a]]
        /\ library' = SubSeq(library, n + 1, Len(library))
        /\ send([op |-> "drawn", cards |-> Wrappers(new)])

drawStartingHand ==
  /\ server = "draw"
  /\ drawCards(HandSize)
  /\ server' = "discard"
  /\ UNCHANGED <<refused, played, answers, clientVars>>

(* Seeded fault: nothing is sent where nothing is asked.                   *)
FaultyNotAsked ==
  /\ server = "discard"
  /\ CASE refused = 0 -> server' = "game" /\ UNCHANGED wire
       [] refused \in 1 .. HandSize - 1 ->
            /\ send([op |-> "discard", size |-> HandSize, number |-> refused])
            /\ server' = "discards?"
       [] OTHER -> server' = "assertion" /\ UNCHANGED wire
  /\ UNCHANGED <<refused, library, hand, played, answers, clientVars>>

(* Seeded fault: it waits for an answer to every question.                 *)
FaultyWaits ==
  /\ server = "discard"
  /\ IF HandSize > refused
       THEN /\ send([op |-> "discard", size |-> HandSize, number |-> refused])
            /\ server' = "discards?"
       ELSE /\ server' = "assertion"
            /\ UNCHANGED wire
  /\ UNCHANGED <<refused, library, hand, played, answers, clientVars>>

(* NetworkAgent::chooseCardsToKeep asks to discard a card for every refused *)
(* hand and asserts that one is left; it waits only if there are any.      *)
chooseCardsToKeep ==
  /\ server = "discard"
  /\ IF HandSize > refused
       THEN /\ send([op |-> "discard", size |-> HandSize, number |-> refused])
            /\ server' = IF refused = 0 THEN "game" ELSE "discards?"
       ELSE /\ server' = "assertion"
            /\ UNCHANGED wire
  /\ UNCHANGED <<refused, library, hand, played, answers, clientVars>>

(* A card found in the list is spliced with the whole list it is in, which *)
(* is undefined.                                                           *)
discardsChosen ==
  /\ server = "discards?"
  /\ answered("discards")
  /\ server' = "undefined"
  /\ UNCHANGED <<refused, library, hand, played, wire, clientVars>>

(* The draw step, or the effect of a spell, on anyone's turn; to draw from *)
(* an empty library ends the game.                                         *)
draw ==
  /\ server = "game" /\ library # <<>>
  /\ drawCards(1)
  /\ UNCHANGED <<server, refused, played, answers, clientVars>>

(* chooseAndUseOpt comes to this player, who holds a land he may play.     *)
givePriority ==
  /\ server = "game" /\ hand # <<>>
  /\ server' = "option"
  /\ UNCHANGED <<refused, library, hand, played, wire, answers, clientVars>>

(* NetworkAgent::chooseOpt.                                                *)
chooseOpt ==
  /\ server = "option"
  /\ send([op |-> "option"])
  /\ server' = "option?"
  /\ UNCHANGED <<refused, library, hand, played, answers, clientVars>>

passed ==
  /\ server = "option?"
  /\ answered("option") /\ Head(answers).option = nullptr
  /\ server' = "game"
  /\ UNCHANGED <<refused, library, hand, played, wire, clientVars>>

(* The option is cast: its card leaves the hand, its wrapper is freed, and *)
(* the player may go on.                                                   *)
optionCast ==
  /\ server = "option?"
  /\ answered("option") /\ Head(answers).option \in DOMAIN hand
  /\ LET option == Head(answers).option
     IN  /\ hand' = Restrict(hand, DOMAIN hand \ {option})
         /\ played' = played \cup {<<hand[option], option>>}
  /\ server' = "option"
  /\ UNCHANGED <<refused, library, wire, clientVars>>

(* It is not castable, or not paid for, and he is told so.                 *)
optionRefused ==
  /\ server = "option?"
  /\ answered("option") /\ Head(answers).option \in DOMAIN hand
  /\ send([op |-> "message"])
  /\ server' = "option"
  /\ UNCHANGED <<refused, library, hand, played, clientVars>>

(* The pointer leads to a wrapper that has been freed.                     *)
optionFreed ==
  /\ server = "option?"
  /\ answered("option") /\ Head(answers).option \in Addresses \ DOMAIN hand
  /\ server' = "undefined"
  /\ UNCHANGED <<refused, library, hand, played, wire, clientVars>>

serverNext ==
  \/ connectDeck \/ keepsHand \/ handKept \/ handRefused
  \/ drawStartingHand \/ chooseCardsToKeep \/ discardsChosen
  \/ draw \/ givePriority \/ chooseOpt
  \/ passed \/ optionCast \/ optionRefused \/ optionFreed

-----------------------------------------------------------------------------
(* The client.                                                             *)

(* receiveMessage_sync returns n messages at once.                         *)
received(n) ==
  /\ wire' = SubSeq(wire, n + 1, Len(wire))
  /\ merged' = (merged \/ n > 1)

answer(message) == answers' = Append(answers, message)

assertionFails(n) ==
  /\ received(n)
  /\ client' = "assertion"
  /\ UNCHANGED <<serverVars, answers, shown, view>>

(* start: the deck ends where a read ends with END_OF_FILE, as those of    *)
(* the next messages do; what has come with it is passed over.             *)
receiveDeck(n) ==
  /\ client = "deck"
  /\ received(n)
  /\ client' = "hand"
  /\ UNCHANGED <<serverVars, answers, shown, view>>

(* A hand, until the player keeps one.                                     *)
receiveHand ==
  /\ client = "hand" /\ Head(wire).op = "hand"
  /\ received(1)
  /\ shown' = Head(wire).cards
  /\ \E keeps \in BOOLEAN :
       /\ answer([op |-> "keeps", keeps |-> keeps])
       /\ client' = IF keeps THEN "drawn" ELSE "hand"
  /\ UNCHANGED <<serverVars, view>>

(* drawCards: what is in the client's hand once these cards are.           *)
Known(cards) == view \cup cards

receiveStartingHand ==
  /\ client = "drawn" /\ Head(wire).op = "drawn"
  /\ received(1)
  /\ view' = Known(Head(wire).cards)
  /\ client' = "discard"
  /\ UNCHANGED <<serverVars, answers, shown>>

(* discardCards.  What the player discards makes no difference any more.   *)
discardCards ==
  /\ client = "discard" /\ Head(wire).op = "discard"
  /\ Head(wire).size = Cardinality(view)
  /\ received(1)
  /\ IF Head(wire).number = 0 THEN UNCHANGED answers
                              ELSE answer([op |-> "discards"])
  /\ client' = "play"
  /\ UNCHANGED <<serverVars, shown, view>>

(* Where another message is expected, or more is read than the one.        *)
unexpected(n) ==
  /\ \/ client \in {"hand", "drawn", "discard"} /\ n > 1
     \/ client \in {"hand", "drawn", "discard"} /\ Head(wire).op # client
     \/ client = "play" /\ Head(wire).op = "drawn" /\ n > 1
  /\ assertionFails(n)

(* play: the display shows a message and whatever has come behind it.      *)
message(n) ==
  /\ client = "play" /\ Head(wire).op = "message"
  /\ received(n)
  /\ UNCHANGED <<serverVars, answers, client, shown, view>>

create ==
  /\ client = "play" /\ Head(wire).op = "drawn"
  /\ received(1)
  /\ view' = Known(Head(wire).cards)
  /\ UNCHANGED <<serverVars, answers, client, shown>>

(* The player passes, or chooses one of the cards the client shows.        *)
getOption ==
  /\ client = "play" /\ Head(wire).op = "option"
  /\ received(1)
  /\ \E option \in {choice[2] : choice \in view} \cup {nullptr} :
       answer([op |-> "option", option |-> option])
  /\ UNCHANGED <<serverVars, client, shown, view>>

clientNext ==
  /\ wire # <<>>
  /\ \/ receiveHand \/ receiveStartingHand \/ discardCards
     \/ create \/ getOption
     \/ \E n \in 1 .. Len(wire) : receiveDeck(n) \/ unexpected(n) \/ message(n)

Next == serverNext \/ clientNext

Spec == Init /\ [][Next]_vars

(* The server's main thread runs on, what it has sent arrives, and the     *)
(* player answers.                                                         *)
FairSpec == Spec /\ WF_vars(serverNext) /\ WF_vars(clientNext)

-----------------------------------------------------------------------------

Messages ==
  [op : {"deck", "option", "message"}]
    \cup [op : {"hand"}, cards : SUBSET Cards]
    \cup [op : {"drawn"}, cards : SUBSET (Cards \X Addresses)]
    \cup [op : {"discard"}, size : {HandSize}, number : 0 .. HandSize - 1]

Answers ==
  [op : {"keeps"}, keeps : BOOLEAN] \cup [op : {"discards"}]
    \cup [op : {"option"}, option : Addresses \cup {nullptr}]

Waiting == {"keeps?", "discards?", "option?"}

(* One answer at most is under way, and only to a server that waits: the   *)
(* two never speak out of turn.                                            *)
TypeOK ==
  /\ server \in Waiting \cup {"deck", "keepsHand", "draw", "discard", "option",
                              "game", "assertion", "undefined"}
  /\ refused \in 0 .. HandSize + 1
  /\ Range(library) \subseteq Cards
  /\ DOMAIN hand \subseteq Addresses /\ Range(hand) \subseteq Cards
  /\ Range(wire) \subseteq Messages
  /\ Len(answers) <= 1 /\ Range(answers) \subseteq Answers
  /\ answers # <<>> => server \in Waiting
  /\ client \in {"deck", "hand", "drawn", "discard", "play", "assertion"}
  /\ shown \subseteq Cards
  /\ view \cup played \subseteq Cards \X Addresses
  /\ merged \in BOOLEAN

(* OlympusClient.cpp:60-133, networkagent.cpp:26-151: as long as every     *)
(* read returns one message, the client gets what it expects, unless the   *)
(* server begins the game without a hand.                                  *)
InStep == client = "assertion" => merged \/ refused > HandSize

(* phases.cpp:116-131, OlympusClient.cpp:116-133: the hand that is drawn   *)
(* is the one the player has been shown when he kept it, however many he   *)
(* has refused before; and when he is asked for an option his client knows *)
(* the addresses of all cards of his hand, and the others it takes for     *)
(* options are of cards that he has played.                                *)
ClientKnowsItsHand ==
  /\ server = "discard" => Range(hand) = shown
  /\ server = "option?" /\ client = "play" /\ wire = <<>> /\ ~merged =>
       /\ Wrappers(hand) \subseteq view
       /\ view \subseteq Wrappers(hand) \cup played

(* networkagent.cpp:41, 104, 116: no question is left without an answer,   *)
(* unless messages are read at once or the game begins without a hand.     *)
AnswerComes ==
  server \in Waiting ~> server \notin Waiting \/ merged \/ refused > HandSize
=============================================================================
