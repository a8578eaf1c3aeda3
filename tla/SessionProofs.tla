--------------------------- MODULE SessionProofs ---------------------------
(***************************************************************************)
(* Theorems about the dialogue of the server with a client, for any deck,  *)
(* any size of a hand and any number of addresses.                         *)
(***************************************************************************)
EXTENDS Session, FiniteSetTheorems, TLAPS

(* The types, with those of the sequences that TypeOK leaves out.          *)
TypeInv ==
  /\ server \in Waiting \cup {"deck", "keepsHand", "draw", "discard", "option",
                              "game", "assertion", "undefined"}
  /\ refused \in 0 .. HandSize + 1
  /\ server \in {"deck", "keepsHand", "keeps?"} => refused <= HandSize
  /\ library \in Seq(Cards)
  /\ hand \in [DOMAIN hand -> Cards] /\ DOMAIN hand \subseteq Addresses
  /\ wire \in Seq(Messages) /\ answers \in Seq(Answers)
  /\ client \in {"deck", "hand", "drawn", "discard", "play", "assertion"}
  /\ shown \subseteq Cards
  /\ view \cup played \subseteq Cards \X Addresses
  /\ merged \in BOOLEAN

(* What the server waits for when it has sent m, or that needs no answer.  *)
AskedBy(m) ==
  CASE m.op = "hand"                      -> "keeps?"
    [] m.op = "option"                    -> "option?"
    [] m.op = "discard" /\ m.number # 0   -> "discards?"
    [] OTHER                              -> "nothing"

Awaits == [keeps |-> "keeps?", discards |-> "discards?", option |-> "option?"]

(* A question is the last message under way, its answer the only one, and  *)
(* nothing is sent until it has come.                                      *)
TurnInv ==
  /\ \A i \in DOMAIN wire : AskedBy(wire[i]) # "nothing" =>
       /\ server = AskedBy(wire[i]) /\ i = Len(wire) /\ answers = <<>>
  /\ answers # <<>> =>
       /\ server = Awaits[Head(answers).op] /\ Len(answers) = 1 /\ wire = <<>>

(* The cards on top of the library, which are offered as a hand.           *)
Top == {library[i] : i \in 1 .. HandSize}

(* The hand shown is the one on top of the library, until it is drawn.     *)
HandInv ==
  /\ server \in {"deck", "keepsHand", "keeps?", "draw"} =>
       hand = <<>> /\ Len(library) >= HandSize
  /\ \A i \in DOMAIN wire : wire[i].op = "hand" => wire[i].cards = Top
  /\ answers # <<>> /\ Head(answers).op = "keeps" => shown = Top
  /\ server = "draw" => shown = Top
  /\ server = "discard" => Range(hand) = shown

(* A hand h with new cards.                                                *)
Extended(h, new) == [a \in DOMAIN h \cup DOMAIN new |->
                       IF a \in DOMAIN h THEN h[a] ELSE new[a]]

(* The cards that are on their way to the client.                          *)
Coming == UNION {wire[i].cards : i \in {j \in DOMAIN wire : wire[j].op = "drawn"}}

(* What the client knows, or is about to, is what is in the hand or was.   *)
KnowsInv ==
  ~merged /\ client # "assertion" =>
    /\ Wrappers(hand) \subseteq view \cup Coming
    /\ view \cup Coming \subseteq Wrappers(hand) \cup played

Playing == {"discards?", "game", "option", "option?", "undefined"}

(* From the i-th message on the client gets what belongs to the game.      *)
PlayFrom(i) ==
  \A j \in DOMAIN wire : j >= i => wire[j].op \in {"drawn", "option", "message"}

(* The state of the server, the messages under way and what the client     *)
(* expects fit together.                                                   *)
InDialogue ==
  /\ client # "assertion"
  /\ client = "deck" =>
       \/ server = "deck" /\ wire = <<>>
       \/ server = "keepsHand" /\ Len(wire) = 1 /\ wire[1].op = "deck"
       \/ /\ server = "keeps?" /\ Len(wire) = 2
          /\ wire[1].op = "deck" /\ wire[2].op = "hand"
  /\ client = "hand" =>
       \/ server = "keepsHand" /\ wire = <<>>
       \/ server = "keeps?" /\ Len(wire) = 1 /\ wire[1].op = "hand"
       \/ /\ server = "keeps?" /\ wire = <<>>
          /\ answers # <<>> /\ Head(answers).op = "keeps" /\ ~Head(answers).keeps
  /\ client = "drawn" =>
       /\ view = {}
       /\ \/ /\ server = "keeps?" /\ wire = <<>>
             /\ answers # <<>> /\ Head(answers).op = "keeps" /\ Head(answers).keeps
          \/ server = "draw" /\ wire = <<>>
          \/ /\ wire # <<>> /\ wire[1].op = "drawn"
             /\ Cardinality(wire[1].cards) = HandSize
             /\ \/ server \in {"discard", "assertion"} /\ Len(wire) = 1
                \/ /\ server \in Playing /\ Len(wire) >= 2
                   /\ wire[2].op = "discard" /\ PlayFrom(3)
  /\ client = "discard" =>
       /\ Cardinality(view) = HandSize
       /\ \/ server \in {"discard", "assertion"} /\ wire = <<>>
          \/ /\ server \in Playing /\ wire # <<>>
             /\ wire[1].op = "discard" /\ PlayFrom(2)
  /\ client = "play" => server \in Playing /\ PlayFrom(1)

(* A client that waits for the deck has refused no hand, and the two are   *)
(* in step until messages are read at once or no hand is left to refuse.   *)
DialogueInv ==
  /\ client = "deck" => answers = <<>> /\ refused = 0
  /\ client \in {"deck", "hand", "drawn"} => view = {}
  /\ ~merged /\ refused <= HandSize => InDialogue

IInv == TypeInv /\ TurnInv /\ HandInv /\ KnowsInv /\ DialogueInv

-----------------------------------------------------------------------------

(* A shuffled library is a sequence of the cards, as long as the deck and  *)
(* so long enough for a hand.                                              *)
LEMMA ShuffledType ==
  ASSUME NEW s \in SetToSeqs(Cards)
  PROVE  s \in Seq(Cards) /\ Len(s) = Cardinality(Cards) /\ Len(s) >= HandSize
<1>1. Cardinality(Cards) \in Nat
  BY SessionAssumption, FS_CardinalityType
<1>2. s \in [1 .. Cardinality(Cards) -> Cards]
  BY DEF SetToSeqs
<1>3. QED
  BY <1>1, <1>2, SessionAssumption

(* A sent message is appended; those before it stay where they are.        *)
LEMMA SentFacts ==
  ASSUME wire \in Seq(Messages), NEW m \in Messages, send(m)
  PROVE  /\ wire' \in Seq(Messages) /\ Len(wire') = Len(wire) + 1
         /\ Len(wire) \in Nat
         /\ DOMAIN wire = 1 .. Len(wire) /\ DOMAIN wire' = 1 .. Len(wire) + 1
         /\ wire'[Len(wire) + 1] = m
         /\ \A i \in DOMAIN wire : wire'[i] = wire[i]
BY DEF send

(* A read takes the first n messages; the others move up.                  *)
LEMMA ReceivedFacts ==
  ASSUME wire \in Seq(Messages), NEW n \in 1 .. Len(wire), received(n)
  PROVE  /\ wire' \in Seq(Messages) /\ Len(wire') = Len(wire) - n
         /\ Len(wire) \in Nat
         /\ DOMAIN wire = 1 .. Len(wire) /\ DOMAIN wire' = 1 .. Len(wire) - n
         /\ \A i \in DOMAIN wire' : i + n \in DOMAIN wire /\ wire'[i] = wire[i + n]
BY DEF received

(* What there is to read first.                                            *)
LEMMA HeadFacts ==
  ASSUME wire \in Seq(Messages), wire # <<>>
  PROVE  /\ Head(wire) = wire[1] /\ 1 \in DOMAIN wire /\ Head(wire) \in Messages
         /\ 1 \in 1 .. Len(wire)
OBVIOUS

(* The first answer is one, and what is left are answers.                  *)
LEMMA AnswerFacts ==
  ASSUME answers \in Seq(Answers), answers # <<>>
  PROVE  Head(answers) \in Answers /\ Tail(answers) \in Seq(Answers)
OBVIOUS

(* What the fields of a message of each kind are.                          *)
LEMMA MessageKinds ==
  ASSUME NEW m \in Messages
  PROVE  /\ m.op \in {"deck", "option", "message", "hand", "drawn", "discard"}
         /\ m.op = "hand" => m.cards \subseteq Cards
         /\ m.op = "drawn" => m.cards \subseteq Cards \X Addresses
         /\ m.op = "discard" => m.size = HandSize /\ m.number \in 0 .. HandSize - 1
BY DEF Messages

(* What the server sends are messages.                                     *)
LEMMA MessagesSent ==
  /\ [op |-> "deck"] \in Messages /\ [op |-> "option"] \in Messages
  /\ [op |-> "message"] \in Messages
  /\ \A cs \in SUBSET Cards : [op |-> "hand", cards |-> cs] \in Messages
  /\ \A cs \in SUBSET (Cards \X Addresses) :
       [op |-> "drawn", cards |-> cs] \in Messages
  /\ \A n \in 0 .. HandSize - 1 :
       [op |-> "discard", size |-> HandSize, number |-> n] \in Messages
BY DEF Messages

(* Player::draw of n cards: they get wrappers at addresses of which none   *)
(* holds a card of the hand, n in number, and the client is told of        *)
(* exactly these.                                                          *)
LEMMA DrawFacts ==
  ASSUME TypeInv, NEW n \in 1 .. Len(library), drawCards(n)
  PROVE  \E new :
           /\ new \in [DOMAIN new -> Cards]
           /\ DOMAIN new \subseteq Addresses \ DOMAIN hand
           /\ Range(new) = {library[i] : i \in 1 .. n}
           /\ Cardinality(Wrappers(new)) = n
           /\ Wrappers(new) \in SUBSET (Cards \X Addresses)
           /\ hand' = Extended(hand, new)
           /\ library' \in Seq(Cards)
           /\ send([op |-> "drawn", cards |-> Wrappers(new)])
<1> DEFINE newAt(at) == [a \in Range(at) |->
                           library[CHOOSE i \in 1 .. n : at[i] = a]]
<1>1. PICK at \in Injection(1 .. n, Addresses \ DOMAIN hand) :
        /\ hand' = [a \in DOMAIN hand \cup Range(at) |->
                      IF a \in DOMAIN hand THEN hand[a] ELSE newAt(at)[a]]
        /\ library' = SubSeq(library, n + 1, Len(library))
        /\ send([op |-> "drawn", cards |-> Wrappers(newAt(at))])
  BY DEF drawCards
<1> DEFINE new == newAt(at)
<1>2. /\ at \in [1 .. n -> Addresses \ DOMAIN hand]
      /\ \A i, j \in 1 .. n : at[i] = at[j] => i = j
  BY DEF Injection, IsInjective
<1>3. n \in Nat /\ library \in Seq(Cards)
  BY DEF TypeInv
<1>4. \A i \in 1 .. n : library[i] \in Cards
  BY <1>3
<1>5. DOMAIN new = {at[i] : i \in 1 .. n}
  BY <1>2 DEF Range
<1>6. \A i \in 1 .. n : new[at[i]] = library[i]
  <2>1. SUFFICES ASSUME NEW i \in 1 .. n PROVE new[at[i]] = library[i]
    OBVIOUS
  <2>2. (CHOOSE j \in 1 .. n : at[j] = at[i]) = i
    BY <1>2
  <2>3. at[i] \in Range(at)
    BY <1>2 DEF Range
  <2>4. QED
    BY <2>2, <2>3
<1>d. DOMAIN new = Range(at) /\ new = [a \in DOMAIN new |-> new[a]]
  OBVIOUS
<1> HIDE DEF new
<1>7. new \in [DOMAIN new -> Cards] /\ DOMAIN new \subseteq Addresses \ DOMAIN hand
  BY <1>2, <1>4, <1>5, <1>6, <1>d
<1>8. Range(new) = {library[i] : i \in 1 .. n}
  BY <1>5, <1>6, SMTT(30) DEF Range
<1>9. Cardinality(Wrappers(new)) = n
  <2> DEFINE f == [i \in 1 .. n |-> <<library[i], at[i]>>]
  <2>1. Wrappers(new) = {<<library[i], at[i]>> : i \in 1 .. n}
    BY <1>5, <1>6, SMTT(30) DEF Wrappers
  <2>2. f \in [1 .. n -> Wrappers(new)]
    BY <2>1
  <2>3. \A i, j \in 1 .. n : f[i] = f[j] => i = j
    BY <1>2
  <2>4. \A w \in Wrappers(new) : \E i \in 1 .. n : f[i] = w
    BY <2>1
  <2> HIDE DEF f
  <2>5. f \in Bijection(1 .. n, Wrappers(new))
    BY <2>2, <2>3, <2>4 DEF Bijection, Injection, Surjection, IsInjective
  <2>6. ExistsBijection(1 .. n, Wrappers(new))
    BY <2>5 DEF ExistsBijection
  <2>7. QED
    BY <1>3, <2>6, FS_CountingElements
<1>10. Wrappers(new) \in SUBSET (Cards \X Addresses)
  BY <1>7 DEF Wrappers
<1>11. library' \in Seq(Cards)
  BY <1>1, <1>3
<1>12. /\ hand' = Extended(hand, new)
       /\ send([op |-> "drawn", cards |-> Wrappers(new)])
  BY <1>1, <1>d DEF new, Extended
<1>13. QED
  BY <1>7, <1>8, <1>9, <1>10, <1>11, <1>12

(* The new cards are added to the hand, and no address is taken away from  *)
(* another card.                                                           *)
LEMMA HandExtended ==
  ASSUME NEW h, h \in [DOMAIN h -> Cards], DOMAIN h \subseteq Addresses,
         NEW new, new \in [DOMAIN new -> Cards],
         DOMAIN new \subseteq Addresses \ DOMAIN h, NEW g, g = Extended(h, new)
  PROVE  /\ g \in [DOMAIN g -> Cards] /\ DOMAIN g \subseteq Addresses
         /\ Wrappers(g) = Wrappers(h) \cup Wrappers(new)
         /\ h = <<>> => Range(g) = Range(new)
<1>1. /\ DOMAIN g = DOMAIN h \cup DOMAIN new
      /\ \A a \in DOMAIN h : g[a] = h[a]
      /\ \A a \in DOMAIN new : g[a] = new[a]
      /\ g = [a \in DOMAIN g |-> g[a]]
  BY DEF Extended
<1>2. g \in [DOMAIN g -> Cards] /\ DOMAIN g \subseteq Addresses
  BY <1>1
<1>3. Wrappers(g) = Wrappers(h) \cup Wrappers(new)
  BY <1>1 DEF Wrappers
<1>4. h = <<>> => Range(g) = Range(new)
  BY <1>1 DEF Range
<1>5. QED
  BY <1>2, <1>3, <1>4

(* Every step keeps the types. That a hand of HandSize cards can be drawn  *)
(* from the library, and that the refused hands stay countable, is what    *)
(* HandInv and TypeInv say of it.                                          *)
LEMMA TypeNext == TypeInv /\ TurnInv /\ HandInv /\ [Next]_vars => TypeInv'
<1> SUFFICES ASSUME TypeInv, TurnInv, HandInv, [Next]_vars PROVE TypeInv'
  OBVIOUS
<1> DEFINE Control ==
             /\ server \in Waiting \cup {"deck", "keepsHand", "draw", "discard",
                                 "option", "game", "assertion", "undefined"}
             /\ refused \in 0 .. HandSize + 1
             /\ server \in {"deck", "keepsHand", "keeps?"} => refused <= HandSize
           Held == /\ library \in Seq(Cards)
                   /\ hand \in [DOMAIN hand -> Cards]
                   /\ DOMAIN hand \subseteq Addresses
                   /\ played \subseteq Cards \X Addresses
           Sent == wire \in Seq(Messages)
           Said == answers \in Seq(Answers)
           Client == /\ client \in {"deck", "hand", "drawn", "discard", "play",
                                    "assertion"}
                     /\ shown \subseteq Cards /\ view \subseteq Cards \X Addresses
                     /\ merged \in BOOLEAN
<1>a. Control /\ Held /\ Sent /\ Said /\ Client
  BY DEF TypeInv
<1> DEFINE Goal == Control' /\ Held' /\ Sent' /\ Said' /\ Client'
<1>b. SUFFICES Goal
  BY DEF TypeInv
<1>c. ASSUME NEW m \in Messages, send(m) PROVE Sent'
  BY <1>a, <1>c, SentFacts
<1>d. UNCHANGED <<library, hand, played>> => Held'
  BY <1>a
<1>e. UNCHANGED clientVars => Client'
  BY <1>a DEF clientVars
<1>f. ASSUME NEW op, answered(op) PROVE Said'
  BY <1>a, <1>f, AnswerFacts DEF answered
<1>g. ASSUME NEW n \in 1 .. Len(library), drawCards(n), played' = played
      PROVE  Held' /\ Sent'
  <2>1. PICK new :
           /\ new \in [DOMAIN new -> Cards]
           /\ DOMAIN new \subseteq Addresses \ DOMAIN hand
           /\ Wrappers(new) \in SUBSET (Cards \X Addresses)
           /\ hand' = Extended(hand, new)
           /\ library' \in Seq(Cards)
           /\ send([op |-> "drawn", cards |-> Wrappers(new)])
    BY <1>g, DrawFacts
  <2>2. Sent'
    BY <1>c, <2>1, MessagesSent
  <2>3. hand' \in [DOMAIN hand' -> Cards] /\ DOMAIN hand' \subseteq Addresses
    BY <1>a, <2>1, HandExtended
  <2>4. QED
    BY <1>a, <1>g, <2>1, <2>2, <2>3
<1>h. UNCHANGED wire => Sent'
  BY <1>a
<1>i. UNCHANGED answers => Said'
  BY <1>a
<1>j. HandSize \in Nat \ {0} /\ Cardinality(Cards) \in Nat
  BY SessionAssumption, FS_CardinalityType
<1>k. ASSUME NEW n \in 1 .. Len(wire), received(n)
      PROVE  Sent' /\ merged' \in BOOLEAN
  <2>1. Sent'
    BY <1>a, <1>k, ReceivedFacts
  <2>2. merged' \in BOOLEAN
    BY <1>k DEF received
  <2>3. QED
    BY <2>1, <2>2
<1>l. ASSUME NEW x \in Answers, answer(x) PROVE Said'
  BY <1>a, <1>l DEF answer
<1>m. UNCHANGED serverVars => Control' /\ Held'
  BY <1>a DEF serverVars
<1>n. wire # <<>> => Head(wire) \in Messages /\ 1 \in 1 .. Len(wire)
  BY <1>a, HeadFacts
<1> HIDE DEF Held, Sent, Said, Client
<1> USE DEF Waiting
<1>1. CASE connectDeck
  <2>1. Sent'
    BY <1>1, <1>c, MessagesSent DEF connectDeck
  <2>2. QED
    BY <1>1, <1>a, <1>d, <1>e, <1>i, <2>1 DEF connectDeck
<1>2. CASE keepsHand
  <2>1. {library[i] : i \in 1 .. HandSize} \in SUBSET Cards
    BY <1>2, <1>a, <1>j DEF HandInv, Held, keepsHand
  <2>2. Sent'
    BY <1>2, <1>c, <2>1, MessagesSent DEF keepsHand
  <2>3. QED
    BY <1>2, <1>a, <1>d, <1>e, <1>i, <2>2 DEF keepsHand
<1>3. CASE handKept
  BY <1>3, <1>a, <1>d, <1>e, <1>f, <1>h DEF handKept
<1>4. CASE handRefused
  <2>1. Held'
    BY <1>4, <1>a, ShuffledType DEF handRefused, Held
  <2>2. Control'
    BY <1>4, <1>a, <1>j DEF handRefused
  <2>3. QED
    BY <1>4, <1>e, <1>f, <1>h, <2>1, <2>2 DEF handRefused
<1>5. CASE drawStartingHand
  <2>1. HandSize \in 1 .. Len(library)
    BY <1>5, <1>a, <1>j DEF HandInv, Held, drawStartingHand
  <2>2. Held' /\ Sent'
    BY <1>5, <1>g, <2>1 DEF drawStartingHand
  <2>3. QED
    BY <1>5, <1>a, <1>e, <1>i, <2>2 DEF drawStartingHand
<1>6. CASE chooseCardsToKeep
  <2>1. CASE HandSize > refused
    <3>1. refused \in 0 .. HandSize - 1
      BY <1>a, <1>j, <2>1
    <3>2. Sent'
      BY <1>6, <1>c, <2>1, <3>1, MessagesSent DEF chooseCardsToKeep
    <3>3. QED
      BY <1>6, <1>a, <1>d, <1>e, <1>i, <2>1, <3>2 DEF chooseCardsToKeep
  <2>2. CASE ~(HandSize > refused)
    BY <1>6, <1>a, <1>d, <1>e, <1>i, <1>h, <2>2 DEF chooseCardsToKeep
  <2>3. QED
    BY <2>1, <2>2
<1>7. CASE discardsChosen \/ passed
  BY <1>7, <1>a, <1>d, <1>e, <1>f, <1>h DEF discardsChosen, passed
<1>8. CASE draw
  <2>1. 1 \in 1 .. Len(library)
    BY <1>8, <1>a DEF Held, draw
  <2>2. Held' /\ Sent'
    BY <1>8, <1>g, <2>1 DEF draw
  <2>3. QED
    BY <1>8, <1>a, <1>e, <1>i, <2>2 DEF draw
<1>9. CASE givePriority
  BY <1>9, <1>a, <1>d, <1>e, <1>h, <1>i DEF givePriority
<1>10. CASE chooseOpt
  <2>1. Sent'
    BY <1>10, <1>c, MessagesSent DEF chooseOpt
  <2>2. QED
    BY <1>10, <1>a, <1>d, <1>e, <1>i, <2>1 DEF chooseOpt
<1>11. CASE optionCast
  <2>1. Held'
    BY <1>11, <1>a DEF optionCast, Held, Restrict
  <2>2. QED
    BY <1>11, <1>a, <1>e, <1>f, <1>h, <2>1 DEF optionCast
<1>12. CASE optionRefused
  <2>1. Sent'
    BY <1>12, <1>c, MessagesSent DEF optionRefused
  <2>2. QED
    BY <1>12, <1>a, <1>d, <1>e, <1>f, <2>1 DEF optionRefused
<1>13. CASE optionFreed
  BY <1>13, <1>a, <1>d, <1>e, <1>f, <1>h DEF optionFreed
<1>14. ASSUME wire # <<>>, receiveHand PROVE Goal
  <2>1. Sent' /\ merged' \in BOOLEAN
    BY <1>14, <1>k, <1>n DEF receiveHand
  <2>2. \A k \in BOOLEAN : [op |-> "keeps", keeps |-> k] \in Answers
    BY DEF Answers
  <2>3. Said'
    BY <1>14, <1>l, <2>2 DEF receiveHand
  <2>4. Head(wire).cards \subseteq Cards
    BY <1>14, <1>n, MessageKinds DEF receiveHand
  <2>5. Client'
    BY <1>14, <1>a, <2>1, <2>4 DEF receiveHand, Client
  <2>6. Control' /\ Held'
    BY <1>14, <1>m DEF receiveHand
  <2>7. QED
    BY <2>1, <2>3, <2>5, <2>6
<1>15. ASSUME wire # <<>>, receiveStartingHand \/ create PROVE Goal
  <2>1. Sent' /\ merged' \in BOOLEAN
    BY <1>15, <1>k, <1>n DEF receiveStartingHand, create
  <2>2. Head(wire).cards \subseteq Cards \X Addresses
    BY <1>15, <1>n, MessageKinds DEF receiveStartingHand, create
  <2>3. Client'
    BY <1>15, <1>a, <2>1, <2>2 DEF receiveStartingHand, create, Known, Client
  <2>4. Control' /\ Held' /\ Said'
    BY <1>15, <1>i, <1>m DEF receiveStartingHand, create
  <2>5. QED
    BY <2>1, <2>3, <2>4
<1>16. ASSUME wire # <<>>, discardCards PROVE Goal
  <2>1. Sent' /\ merged' \in BOOLEAN
    BY <1>16, <1>k, <1>n DEF discardCards
  <2>2. [op |-> "discards"] \in Answers
    BY DEF Answers
  <2>3. Said'
    BY <1>16, <1>i, <1>l, <2>2 DEF discardCards
  <2>4. Client'
    BY <1>16, <1>a, <2>1 DEF discardCards, Client
  <2>5. Control' /\ Held'
    BY <1>16, <1>m DEF discardCards
  <2>6. QED
    BY <2>1, <2>3, <2>4, <2>5
<1>17. ASSUME wire # <<>>, getOption PROVE Goal
  <2>1. Sent' /\ merged' \in BOOLEAN
    BY <1>17, <1>k, <1>n DEF getOption
  <2>2. {choice[2] : choice \in view} \subseteq Addresses
    BY <1>a DEF Client
  <2>3. \A o \in Addresses \cup {nullptr} : [op |-> "option", option |-> o] \in Answers
    BY DEF Answers
  <2>4. Said'
    BY <1>17, <1>l, <2>2, <2>3 DEF getOption
  <2>5. Client'
    BY <1>17, <1>a, <2>1 DEF getOption, Client
  <2>6. Control' /\ Held'
    BY <1>17, <1>m DEF getOption
  <2>7. QED
    BY <2>1, <2>4, <2>5, <2>6
<1>18. ASSUME NEW n \in 1 .. Len(wire), receiveDeck(n) \/ unexpected(n) \/ message(n)
       PROVE  Goal
  <2>1. Sent' /\ merged' \in BOOLEAN
    BY <1>18, <1>k DEF receiveDeck, unexpected, assertionFails, message
  <2>2. Client'
    BY <1>18, <1>a, <2>1
       DEF receiveDeck, unexpected, assertionFails, message, Client
  <2>3. Control' /\ Held' /\ Said'
    BY <1>18, <1>i, <1>m DEF receiveDeck, unexpected, assertionFails, message
  <2>4. QED
    BY <2>1, <2>2, <2>3
<1>19. CASE UNCHANGED vars
  BY <1>19, <1>e, <1>h, <1>i, <1>m DEF vars
<1>20. QED
  BY <1>1, <1>2, <1>3, <1>4, <1>5, <1>6, <1>7, <1>8, <1>9, <1>10, <1>11, <1>12,
     <1>13, <1>14, <1>15, <1>16, <1>17, <1>18, <1>19
     DEF Next, serverNext, clientNext

-----------------------------------------------------------------------------

(* Which messages want which answer.                                       *)
LEMMA QuestionKinds ==
  ASSUME NEW m
  PROVE  /\ AskedBy(m) \in Waiting \cup {"nothing"}
         /\ m.op = "hand" => AskedBy(m) = "keeps?"
         /\ m.op = "option" => AskedBy(m) = "option?"
         /\ m.op = "discard" /\ m.number # 0 => AskedBy(m) = "discards?"
         /\ m.op = "discard" /\ m.number = 0 => AskedBy(m) = "nothing"
         /\ m.op \in {"deck", "message", "drawn"} => AskedBy(m) = "nothing"
BY DEF AskedBy, Waiting

(* Which answer a server waits for.                                        *)
LEMMA AnswerKinds ==
  ASSUME NEW x \in Answers
  PROVE  /\ Awaits[x.op] \in Waiting
         /\ x.op \in {"keeps", "discards", "option"}
         /\ x.op = "keeps" => Awaits[x.op] = "keeps?" /\ x.keeps \in BOOLEAN
         /\ x.op = "discards" => Awaits[x.op] = "discards?"
         /\ x.op = "option" => Awaits[x.op] = "option?"
BY DEF Awaits, Answers, Waiting

(* While the server waits for nothing there is neither a question nor an   *)
(* answer under way.                                                       *)
LEMMA NotWaiting ==
  ASSUME TypeInv, TurnInv, server \notin Waiting
  PROVE  answers = <<>> /\ \A i \in DOMAIN wire : AskedBy(wire[i]) = "nothing"
<1>1. answers = <<>>
  BY AnswerFacts, AnswerKinds DEF TypeInv, TurnInv
<1>2. QED
  BY <1>1, QuestionKinds DEF TurnInv

(* A server that waits for nothing may send a message, if it then waits    *)
(* for what the message asks for.                                          *)
LEMMA TurnSend ==
  ASSUME TypeInv, TurnInv, server \notin Waiting, NEW m \in Messages, send(m),
         answers' = answers, AskedBy(m) \in {"nothing", server'}
  PROVE  TurnInv'
<1>1. answers = <<>> /\ \A i \in DOMAIN wire : AskedBy(wire[i]) = "nothing"
  BY NotWaiting
<1>2. /\ wire \in Seq(Messages) /\ Len(wire') = Len(wire) + 1
      /\ Len(wire) \in Nat
      /\ DOMAIN wire = 1 .. Len(wire) /\ DOMAIN wire' = 1 .. Len(wire) + 1
      /\ wire'[Len(wire) + 1] = m
      /\ \A i \in DOMAIN wire : wire'[i] = wire[i]
  BY SentFacts DEF TypeInv
<1>3. ASSUME NEW i \in DOMAIN wire', AskedBy(wire'[i]) # "nothing"
      PROVE  server' = AskedBy(wire'[i]) /\ i = Len(wire') /\ answers' = <<>>
  <2>1. CASE i \in DOMAIN wire
    BY <1>1, <1>2, <1>3, <2>1
  <2>2. CASE i \notin DOMAIN wire
    <3>1. i = Len(wire) + 1
      BY <1>2, <2>2
    <3>2. wire'[i] = m
      BY <1>2, <3>1
    <3>3. QED
      BY <1>1, <1>2, <1>3, <3>1, <3>2
  <2>3. QED
    BY <2>1, <2>2
<1>4. QED
  BY <1>1, <1>3 DEF TurnInv, AskedBy

(* When an answer is read nothing else is under way, in either direction.  *)
LEMMA TurnAnswered ==
  ASSUME TypeInv, TurnInv, NEW op, answered(op)
  PROVE  /\ wire = <<>> /\ answers' = <<>> /\ server = Awaits[op]
         /\ wire' = wire => TurnInv'
<1>1. /\ wire = <<>> /\ Len(answers) = 1 /\ answers \in Seq(Answers)
      /\ server = Awaits[op] /\ answers' = Tail(answers)
  BY DEF TypeInv, TurnInv, answered
<1>2. answers' = <<>>
  BY <1>1
<1>3. wire' = wire => TurnInv'
  BY <1>1, <1>2 DEF TurnInv, AskedBy
<1>4. QED
  BY <1>1, <1>2, <1>3

(* To read messages without answering changes nothing of who is to speak.  *)
LEMMA TurnReceived ==
  ASSUME TypeInv, TurnInv, NEW n \in 1 .. Len(wire), received(n),
         UNCHANGED <<answers, server>>
  PROVE  TurnInv'
<1>1. /\ wire \in Seq(Messages) /\ Len(wire') = Len(wire) - n
      /\ Len(wire) \in Nat
      /\ DOMAIN wire = 1 .. Len(wire) /\ DOMAIN wire' = 1 .. Len(wire) - n
      /\ \A i \in DOMAIN wire' : i + n \in DOMAIN wire /\ wire'[i] = wire[i + n]
  BY ReceivedFacts DEF TypeInv
<1>2. answers = <<>>
  BY <1>1 DEF TurnInv
<1>3. ASSUME NEW i \in DOMAIN wire', AskedBy(wire'[i]) # "nothing"
      PROVE  server' = AskedBy(wire'[i]) /\ i = Len(wire') /\ answers' = <<>>
  <2>1. PICK j \in DOMAIN wire : j = i + n /\ wire'[i] = wire[j]
    BY <1>1, <1>3
  <2>2. server = AskedBy(wire[j]) /\ j = Len(wire)
    BY <1>3, <2>1 DEF TurnInv
  <2>3. QED
    BY <1>1, <1>2, <2>1, <2>2
<1>4. QED
  BY <1>2, <1>3 DEF TurnInv, AskedBy

(* An answer to the question that has been read is the only message under  *)
(* way.                                                                    *)
LEMMA TurnReply ==
  ASSUME TypeInv, TurnInv, wire # <<>>, received(1), server' = server,
         AskedBy(Head(wire)) # "nothing",
         NEW x \in Answers, answer(x), Awaits[x.op] = AskedBy(Head(wire))
  PROVE  /\ TurnInv' /\ wire' = <<>> /\ answers' = <<x>>
         /\ server = AskedBy(Head(wire)) /\ Len(wire) = 1
<1>1. Head(wire) = wire[1] /\ 1 \in DOMAIN wire /\ 1 \in 1 .. Len(wire)
  BY HeadFacts DEF TypeInv
<1>2. server = AskedBy(Head(wire)) /\ Len(wire) = 1 /\ answers = <<>>
  BY <1>1 DEF TurnInv
<1>3. wire' \in Seq(Messages) /\ Len(wire') = 0
  BY <1>1, <1>2, ReceivedFacts DEF TypeInv
<1>4. wire' = <<>>
  BY <1>3
<1>5. answers' = <<x>> /\ Head(answers') = x /\ Len(answers') = 1
  BY <1>2 DEF answer
<1>6. TurnInv'
  BY <1>2, <1>4, <1>5 DEF TurnInv, AskedBy
<1>7. QED
  BY <1>2, <1>4, <1>5, <1>6

(* Every step keeps the turns of the dialogue.                             *)
LEMMA TurnNext == TypeInv /\ TurnInv /\ HandInv /\ [Next]_vars => TurnInv'
<1> SUFFICES ASSUME TypeInv, TurnInv, HandInv, [Next]_vars PROVE TurnInv'
  OBVIOUS
<1> USE DEF Waiting
<1>j. HandSize \in Nat \ {0}
  BY SessionAssumption, FS_CardinalityType
<1>n. wire # <<>> => Head(wire) \in Messages /\ 1 \in 1 .. Len(wire)
  BY HeadFacts DEF TypeInv
<1>d. ASSUME NEW n \in 1 .. Len(library), drawCards(n), server \notin Waiting,
             answers' = answers
      PROVE  TurnInv'
  <2>1. PICK new : /\ Wrappers(new) \in SUBSET (Cards \X Addresses)
                   /\ send([op |-> "drawn", cards |-> Wrappers(new)])
    BY <1>d, DrawFacts
  <2>2. PICK m \in Messages : m.op = "drawn" /\ send(m)
    BY <2>1, MessagesSent
  <2>3. QED
    BY <1>d, <2>2, QuestionKinds, TurnSend
<1>1. CASE connectDeck
  BY <1>1, MessagesSent, QuestionKinds, TurnSend DEF connectDeck
<1>2. CASE keepsHand
  <2>1. {library[i] : i \in 1 .. HandSize} \in SUBSET Cards
    BY <1>2, <1>j DEF HandInv, TypeInv, keepsHand
  <2>2. PICK m \in Messages : m.op = "hand" /\ send(m)
    BY <1>2, <2>1, MessagesSent DEF keepsHand
  <2>3. QED
    BY <1>2, <2>2, QuestionKinds, TurnSend DEF keepsHand
<1>3. CASE handKept \/ handRefused \/ discardsChosen \/ passed \/ optionCast
             \/ optionFreed
  BY <1>3, TurnAnswered DEF handKept, handRefused, discardsChosen, passed,
                            optionCast, optionFreed
<1>4. CASE drawStartingHand
  <2>1. HandSize \in 1 .. Len(library)
    BY <1>4, <1>j DEF HandInv, TypeInv, drawStartingHand
  <2>2. QED
    BY <1>4, <1>d, <2>1 DEF drawStartingHand
<1>5. CASE draw
  <2>1. 1 \in 1 .. Len(library)
    BY <1>5 DEF TypeInv, draw
  <2>2. QED
    BY <1>5, <1>d, <2>1 DEF draw
<1>6. CASE chooseCardsToKeep
  <2>1. CASE HandSize > refused
    <3>1. refused \in 0 .. HandSize - 1
      BY <1>j, <2>1 DEF TypeInv
    <3>2. PICK m \in Messages : m.op = "discard" /\ m.number = refused /\ send(m)
      BY <1>6, <2>1, <3>1, MessagesSent DEF chooseCardsToKeep
    <3>3. AskedBy(m) \in {"nothing", server'}
      BY <1>6, <2>1, <3>2, QuestionKinds DEF chooseCardsToKeep
    <3>4. QED
      BY <1>6, <3>2, <3>3, TurnSend DEF chooseCardsToKeep
  <2>2. CASE ~(HandSize > refused)
    BY <1>6, <2>2, NotWaiting DEF chooseCardsToKeep, TurnInv, AskedBy
  <2>3. QED
    BY <2>1, <2>2
<1>7. CASE givePriority
  BY <1>7, NotWaiting DEF givePriority, TurnInv, AskedBy
<1>8. CASE chooseOpt
  BY <1>8, MessagesSent, QuestionKinds, TurnSend DEF chooseOpt
<1>9. CASE optionRefused
  <2>1. wire = <<>> /\ answers' = <<>>
    BY <1>9, TurnAnswered DEF optionRefused
  <2>2. wire' = <<[op |-> "message"]>>
    BY <1>9, <2>1 DEF optionRefused, send
  <2>3. \A i \in DOMAIN wire' : AskedBy(wire'[i]) = "nothing"
    BY <2>2, QuestionKinds
  <2>4. QED
    BY <2>1, <2>3 DEF TurnInv, AskedBy
<1>10. ASSUME wire # <<>>, receiveHand PROVE TurnInv'
  <2>1. PICK x \in Answers : x.op = "keeps" /\ answer(x)
    BY <1>10 DEF receiveHand, Answers
  <2>2. QED
    BY <1>10, <2>1, AnswerKinds, QuestionKinds, TurnReply
       DEF receiveHand, serverVars
<1>11. ASSUME wire # <<>>, discardCards PROVE TurnInv'
  <2>1. CASE Head(wire).number = 0
    BY <1>11, <1>n, <2>1, TurnReceived DEF discardCards, serverVars
  <2>2. CASE Head(wire).number # 0
    <3>1. PICK x \in Answers : x.op = "discards" /\ answer(x)
      BY <1>11, <2>2 DEF discardCards, Answers
    <3>2. QED
      BY <1>11, <2>2, <3>1, AnswerKinds, QuestionKinds, TurnReply
         DEF discardCards, serverVars
  <2>3. QED
    BY <2>1, <2>2
<1>12. ASSUME wire # <<>>, getOption PROVE TurnInv'
  <2>1. {choice[2] : choice \in view} \subseteq Addresses
    BY DEF TypeInv
  <2>2. PICK x \in Answers : x.op = "option" /\ answer(x)
    BY <1>12, <2>1 DEF getOption, Answers
  <2>3. QED
    BY <1>12, <2>2, AnswerKinds, QuestionKinds, TurnReply
       DEF getOption, serverVars
<1>13. ASSUME wire # <<>>, receiveStartingHand \/ create PROVE TurnInv'
  BY <1>13, <1>n, TurnReceived DEF receiveStartingHand, create, serverVars
<1>14. ASSUME NEW n \in 1 .. Len(wire),
              receiveDeck(n) \/ unexpected(n) \/ message(n)
       PROVE  TurnInv'
  BY <1>14, TurnReceived
     DEF receiveDeck, unexpected, assertionFails, message, serverVars
<1>15. CASE UNCHANGED <<wire, answers, server>>
  BY <1>15 DEF TurnInv, AskedBy
<1>16. QED
  BY <1>1, <1>2, <1>3, <1>4, <1>5, <1>6, <1>7, <1>8, <1>9, <1>10, <1>11, <1>12,
     <1>13, <1>14, <1>15 DEF Next, serverNext, clientNext, vars, serverVars

-----------------------------------------------------------------------------

(* Whatever is under way was so before, or is what has been sent.          *)
LEMMA SentLast ==
  ASSUME wire \in Seq(Messages), NEW m \in Messages, send(m),
         NEW i \in DOMAIN wire'
  PROVE  \/ i \in DOMAIN wire /\ wire'[i] = wire[i]
         \/ i = Len(wire) + 1 /\ wire'[i] = m
BY SentFacts

(* No hand is under way once something else is sent.                       *)
LEMMA SendNoHand ==
  ASSUME TypeInv, TurnInv, server \notin Waiting, NEW m \in Messages, send(m),
         m.op # "hand"
  PROVE  \A i \in DOMAIN wire' : wire'[i].op # "hand"
<1>1. \A i \in DOMAIN wire : wire[i].op # "hand"
  BY NotWaiting, QuestionKinds
<1>2. QED
  BY <1>1, SentLast DEF TypeInv

(* Every step keeps the hand shown on top of the library, until it is      *)
(* drawn; a refused hand is put back with all others before the next is    *)
(* shown.                                                                  *)
LEMMA HandNext == TypeInv /\ TurnInv /\ HandInv /\ [Next]_vars => HandInv'
<1> SUFFICES ASSUME TypeInv, TurnInv, HandInv, [Next]_vars PROVE HandInv'
  OBVIOUS
<1>j. HandSize \in Nat \ {0}
  BY SessionAssumption, FS_CardinalityType
<1>n. /\ wire \in Seq(Messages)
      /\ wire # <<>> => /\ Head(wire) \in Messages /\ 1 \in 1 .. Len(wire)
                        /\ Head(wire) = wire[1] /\ 1 \in DOMAIN wire
  BY HeadFacts DEF TypeInv
<1>w. ASSUME server \notin Waiting, answers' = answers,
             \A i \in DOMAIN wire' : wire'[i].op # "hand",
             server' = "draw" => shown' = Top',
             server' = "discard" => Range(hand') = shown',
             server' \in {"deck", "keepsHand", "keeps?", "draw"} =>
               hand' = <<>> /\ Len(library') >= HandSize
      PROVE  HandInv'
  <2>1. answers' = <<>>
    BY <1>w, NotWaiting
  <2>2. QED
    BY <1>w, <2>1 DEF HandInv
<1>d. ASSUME NEW n \in 1 .. Len(library), drawCards(n), server \notin Waiting
      PROVE  /\ \A i \in DOMAIN wire' : wire'[i].op # "hand"
             /\ hand = <<>> => Range(hand') = {library[i] : i \in 1 .. n}
  <2>1. PICK new : /\ new \in [DOMAIN new -> Cards]
                   /\ DOMAIN new \subseteq Addresses \ DOMAIN hand
                   /\ Range(new) = {library[i] : i \in 1 .. n}
                   /\ Wrappers(new) \in SUBSET (Cards \X Addresses)
                   /\ hand' = Extended(hand, new)
                   /\ send([op |-> "drawn", cards |-> Wrappers(new)])
    BY <1>d, DrawFacts
  <2>2. PICK m \in Messages : m.op = "drawn" /\ send(m)
    BY <2>1, MessagesSent
  <2>3. \A i \in DOMAIN wire' : wire'[i].op # "hand"
    BY <1>d, <2>2, SendNoHand
  <2>4. hand = <<>> => Range(hand') = Range(new)
    BY <2>1, HandExtended DEF TypeInv
  <2>5. QED
    BY <2>1, <2>3, <2>4
<1>r. ASSUME NEW n \in 1 .. Len(wire), received(n), UNCHANGED <<serverVars, shown>>,
             \/ answers' = answers
             \/ answers' # <<>> /\ Head(answers').op # "keeps"
      PROVE  HandInv'
  <2>1. \A i \in DOMAIN wire' : i + n \in DOMAIN wire /\ wire'[i] = wire[i + n]
    BY <1>n, <1>r, ReceivedFacts
  <2>2. \A i \in DOMAIN wire' : wire'[i].op = "hand" => wire'[i].cards = Top
    BY <2>1 DEF HandInv
  <2>3. Top' = Top
    BY <1>r DEF Top, serverVars
  <2>4. QED
    BY <1>r, <2>2, <2>3 DEF HandInv, serverVars
<1>1. CASE connectDeck
  <2>1. \A i \in DOMAIN wire' : wire'[i].op # "hand"
    BY <1>1, MessagesSent, SendNoHand DEF connectDeck, Waiting
  <2>2. QED
    BY <1>1, <1>w, <2>1 DEF connectDeck, HandInv, Waiting
<1>2. CASE keepsHand
  <2>1. Top \in SUBSET Cards
    BY <1>2, <1>j DEF HandInv, TypeInv, keepsHand, Top
  <2>2. PICK m \in Messages : m.op = "hand" /\ m.cards = Top /\ send(m)
    BY <1>2, <2>1, MessagesSent DEF keepsHand, Top
  <2>3. Top' = Top
    BY <1>2 DEF keepsHand, Top
  <2>4. \A i \in DOMAIN wire' : wire'[i].op = "hand" => wire'[i].cards = Top
    BY <1>n, <2>2, SentLast DEF HandInv
  <2>5. answers = <<>>
    BY <1>2, NotWaiting DEF keepsHand, Waiting
  <2>6. QED
    BY <1>2, <2>3, <2>4, <2>5 DEF HandInv, keepsHand
<1>3. CASE handKept
  <2>1. wire = <<>> /\ answers' = <<>>
    BY <1>3, TurnAnswered DEF handKept
  <2>2. shown' = Top' /\ hand = <<>> /\ Len(library) >= HandSize
    BY <1>3 DEF handKept, HandInv, answered, clientVars, Top
  <2>3. QED
    BY <1>3, <2>1, <2>2 DEF HandInv, handKept
<1>4. CASE handRefused
  <2>1. wire = <<>> /\ answers' = <<>>
    BY <1>4, TurnAnswered DEF handRefused
  <2>2. Len(library') >= HandSize
    BY <1>4, ShuffledType DEF handRefused
  <2>3. hand = <<>>
    BY <1>4 DEF HandInv, handRefused
  <2>4. server' \in {"game", "keepsHand"} /\ hand' = hand /\ wire' = wire
    BY <1>4 DEF handRefused
  <2>5. QED
    BY <2>1, <2>2, <2>3, <2>4 DEF HandInv
<1>5. CASE drawStartingHand
  <2>1. HandSize \in 1 .. Len(library)
    BY <1>5, <1>j DEF HandInv, TypeInv, drawStartingHand
  <2>2. hand = <<>> /\ shown = Top
    BY <1>5 DEF HandInv, drawStartingHand
  <2>3. server = "draw" /\ drawCards(HandSize) /\ server' = "discard"
        /\ answers' = answers /\ shown' = shown
    BY <1>5 DEF drawStartingHand, clientVars
  <2>4. Range(hand') = shown' /\ \A i \in DOMAIN wire' : wire'[i].op # "hand"
    BY <1>d, <2>1, <2>2, <2>3 DEF Top, Waiting
  <2>5. QED
    BY <1>w, <2>3, <2>4 DEF Waiting
<1>6. CASE draw
  <2>1. 1 \in 1 .. Len(library)
    BY <1>6 DEF TypeInv, draw
  <2>2. server = "game" /\ drawCards(1) /\ server' = "game" /\ answers' = answers
    BY <1>6 DEF draw
  <2>3. \A i \in DOMAIN wire' : wire'[i].op # "hand"
    BY <1>d, <2>1, <2>2 DEF Waiting
  <2>4. QED
    BY <1>w, <2>2, <2>3 DEF Waiting
<1>7. CASE chooseCardsToKeep
  <2>1. server = "discard" /\ server' \in {"game", "discards?", "assertion"}
        /\ answers' = answers
    BY <1>7 DEF chooseCardsToKeep
  <2>2. CASE HandSize > refused
    <3>1. refused \in 0 .. HandSize - 1
      BY <1>j, <2>2 DEF TypeInv
    <3>2. PICK m \in Messages : m.op = "discard" /\ send(m)
      BY <1>7, <2>2, <3>1, MessagesSent DEF chooseCardsToKeep
    <3>3. \A i \in DOMAIN wire' : wire'[i].op # "hand"
      BY <2>1, <3>2, SendNoHand DEF Waiting
    <3>4. QED
      BY <1>w, <2>1, <3>3 DEF Waiting
  <2>3. CASE ~(HandSize > refused)
    <3>1. wire' = wire
      BY <1>7, <2>3 DEF chooseCardsToKeep
    <3>2. \A i \in DOMAIN wire' : wire'[i].op # "hand"
      BY <2>1, <3>1, NotWaiting, QuestionKinds DEF Waiting
    <3>3. QED
      BY <1>w, <2>1, <3>2 DEF Waiting
  <2>4. QED
    BY <2>2, <2>3
<1>8. CASE givePriority
  <2>1. server = "game" /\ server' = "option" /\ UNCHANGED <<wire, answers>>
    BY <1>8 DEF givePriority
  <2>2. \A i \in DOMAIN wire' : wire'[i].op # "hand"
    BY <2>1, NotWaiting, QuestionKinds DEF Waiting
  <2>3. QED
    BY <1>w, <2>1, <2>2 DEF Waiting
<1>9. CASE chooseOpt
  <2>1. server = "option" /\ server' = "option?" /\ answers' = answers
        /\ send([op |-> "option"])
    BY <1>9 DEF chooseOpt
  <2>2. \A i \in DOMAIN wire' : wire'[i].op # "hand"
    BY <2>1, MessagesSent, SendNoHand DEF Waiting
  <2>3. QED
    BY <1>w, <2>1, <2>2 DEF Waiting
<1>10. CASE discardsChosen \/ passed \/ optionCast \/ optionFreed
  <2>1. wire = <<>> /\ answers' = <<>>
    BY <1>10, TurnAnswered DEF discardsChosen, passed, optionCast, optionFreed
  <2>2. server' \in {"undefined", "game", "option"} /\ wire' = wire
    BY <1>10 DEF discardsChosen, passed, optionCast, optionFreed
  <2>3. QED
    BY <2>1, <2>2 DEF HandInv
<1>11. CASE optionRefused
  <2>1. wire = <<>> /\ answers' = <<>>
    BY <1>11, TurnAnswered DEF optionRefused
  <2>2. wire' = <<[op |-> "message"]>> /\ server' = "option"
    BY <1>11, <2>1 DEF optionRefused, send
  <2>3. QED
    BY <2>1, <2>2 DEF HandInv
<1>12. ASSUME wire # <<>>, receiveHand PROVE HandInv'
  <2>1. PICK x \in Answers : x.op = "keeps" /\ answer(x)
    BY <1>12 DEF receiveHand, Answers
  <2>2. /\ wire' = <<>> /\ answers' = <<x>> /\ server = "keeps?"
    BY <1>12, <2>1, AnswerKinds, QuestionKinds, TurnReply
       DEF receiveHand, serverVars
  <2>3. shown' = Top
    BY <1>12, <1>n DEF receiveHand, HandInv
  <2>4. UNCHANGED serverVars /\ Top' = Top
    BY <1>12 DEF receiveHand, serverVars, Top
  <2>5. QED
    BY <2>2, <2>3, <2>4 DEF HandInv, serverVars
<1>13. ASSUME wire # <<>>, discardCards \/ getOption PROVE HandInv'
  <2>1. \/ answers' = answers
        \/ \E x : answers' = Append(answers, x) /\ x.op # "keeps"
    <3>1. CASE discardCards
      <4>1. [op |-> "discards"].op # "keeps"
        OBVIOUS
      <4>2. QED
        BY <3>1, <4>1 DEF discardCards, answer
    <3>2. CASE getOption
      <4>1. PICK o : answer([op |-> "option", option |-> o])
        BY <3>2 DEF getOption
      <4>2. [op |-> "option", option |-> o].op # "keeps"
        OBVIOUS
      <4>3. QED
        BY <4>1, <4>2 DEF answer
    <3>3. QED
      BY <1>13, <3>1, <3>2
  <2>2. answers = <<>>
    BY <1>13 DEF TurnInv
  <2>3. \/ answers' = answers
        \/ answers' # <<>> /\ Head(answers').op # "keeps"
    BY <2>1, <2>2
  <2>4. QED
    BY <1>13, <1>n, <1>r, <2>3 DEF discardCards, getOption
<1>14. ASSUME wire # <<>>, receiveStartingHand \/ create PROVE HandInv'
  BY <1>14, <1>n, <1>r DEF receiveStartingHand, create
<1>15. ASSUME NEW n \in 1 .. Len(wire),
              receiveDeck(n) \/ unexpected(n) \/ message(n)
       PROVE  HandInv'
  BY <1>15, <1>r DEF receiveDeck, unexpected, assertionFails, message
<1>16. CASE UNCHANGED vars
  BY <1>16 DEF HandInv, Top, vars, serverVars, clientVars
<1>17. QED
  BY <1>1, <1>2, <1>3, <1>4, <1>5, <1>6, <1>7, <1>8, <1>9, <1>10, <1>11, <1>12,
     <1>13, <1>14, <1>15, <1>16 DEF Next, serverNext, clientNext

-----------------------------------------------------------------------------

(* Cards come to the client when "drawn" is sent, and by nothing else.     *)
LEMMA ComingSent ==
  ASSUME wire \in Seq(Messages), NEW m \in Messages, send(m)
  PROVE  Coming' = Coming \cup (IF m.op = "drawn" THEN m.cards ELSE {})
<1>1. /\ Len(wire) \in Nat /\ DOMAIN wire = 1 .. Len(wire)
      /\ DOMAIN wire' = 1 .. Len(wire) + 1
      /\ wire'[Len(wire) + 1] = m
      /\ \A i \in DOMAIN wire : wire'[i] = wire[i]
  BY SentFacts
<1>2. ASSUME NEW x \in Coming'
      PROVE  x \in Coming \cup (IF m.op = "drawn" THEN m.cards ELSE {})
  <2>1. PICK i \in DOMAIN wire' : wire'[i].op = "drawn" /\ x \in wire'[i].cards
    BY DEF Coming
  <2>2. QED
    BY <2>1, SentLast DEF Coming
<1>3. ASSUME NEW x \in Coming PROVE x \in Coming'
  <2>1. PICK i \in DOMAIN wire : wire[i].op = "drawn" /\ x \in wire[i].cards
    BY DEF Coming
  <2>2. i \in DOMAIN wire' /\ wire'[i] = wire[i]
    BY <1>1, <2>1
  <2>3. QED
    BY <2>1, <2>2 DEF Coming
<1>4. ASSUME m.op = "drawn", NEW x \in m.cards PROVE x \in Coming'
  <2>1. PICK i \in DOMAIN wire' : wire'[i] = m
    BY <1>1
  <2>2. QED
    BY <1>4, <2>1 DEF Coming
<1>5. QED
  BY <1>2, <1>3, <1>4

(* A message that is read takes its cards off the wire, and no others.     *)
LEMMA ComingReceived ==
  ASSUME wire \in Seq(Messages), wire # <<>>, received(1)
  PROVE  Coming = Coming' \cup (IF Head(wire).op = "drawn" THEN Head(wire).cards
                                                          ELSE {})
<1>1. /\ Len(wire) \in Nat \ {0} /\ DOMAIN wire = 1 .. Len(wire)
      /\ DOMAIN wire' = 1 .. Len(wire) - 1
      /\ \A i \in DOMAIN wire' : i + 1 \in DOMAIN wire /\ wire'[i] = wire[i + 1]
      /\ Head(wire) = wire[1] /\ 1 \in DOMAIN wire
  BY HeadFacts, ReceivedFacts
<1>2. ASSUME NEW x \in Coming
      PROVE  x \in Coming' \cup (IF Head(wire).op = "drawn" THEN Head(wire).cards
                                                            ELSE {})
  <2>1. PICK i \in DOMAIN wire : wire[i].op = "drawn" /\ x \in wire[i].cards
    BY DEF Coming
  <2>2. CASE i = 1
    BY <1>1, <2>1, <2>2
  <2>3. CASE i # 1
    <3>1. PICK j \in DOMAIN wire' : wire'[j] = wire[i]
      <4>1. i - 1 \in DOMAIN wire' /\ wire'[i - 1] = wire[i]
        BY <1>1, <2>3
      <4>2. QED
        BY <4>1
    <3>2. QED
      BY <2>1, <3>1 DEF Coming
  <2>4. QED
    BY <2>2, <2>3
<1>3. ASSUME NEW x \in Coming' PROVE x \in Coming
  <2>1. PICK i \in DOMAIN wire' : wire'[i].op = "drawn" /\ x \in wire'[i].cards
    BY DEF Coming
  <2>2. PICK j \in DOMAIN wire : wire'[i] = wire[j]
    BY <1>1
  <2>3. QED
    BY <2>1, <2>2 DEF Coming
<1>4. ASSUME Head(wire).op = "drawn", NEW x \in Head(wire).cards PROVE x \in Coming
  BY <1>1, <1>4 DEF Coming
<1>5. QED
  BY <1>2, <1>3, <1>4

(* Every step keeps what the client knows. That it passes over no cards    *)
(* when it reads the deck is what DialogueInv says.                        *)
LEMMA KnowsNext ==
  TypeInv /\ TurnInv /\ HandInv /\ KnowsInv /\ DialogueInv /\ [Next]_vars
    => KnowsInv'
<1> SUFFICES ASSUME TypeInv, TurnInv, HandInv, KnowsInv, DialogueInv,
                    [Next]_vars, ~merged', client' # "assertion"
             PROVE  /\ Wrappers(hand') \subseteq view' \cup Coming'
                    /\ view' \cup Coming' \subseteq Wrappers(hand') \cup played'
  <2>1. Wrappers(hand)' = Wrappers(hand')
    BY DEF Wrappers
  <2>2. QED
    BY <2>1 DEF KnowsInv
<1> DEFINE Goal == /\ Wrappers(hand') \subseteq view' \cup Coming'
                   /\ view' \cup Coming' \subseteq Wrappers(hand') \cup played'
<1>g. SUFFICES Goal
  OBVIOUS
<1>j. HandSize \in Nat \ {0}
  BY SessionAssumption, FS_CardinalityType
<1>n. wire \in Seq(Messages)
  BY DEF TypeInv
<1>k. ASSUME client # "assertion", ~merged
      PROVE  /\ Wrappers(hand) \subseteq view \cup Coming
             /\ view \cup Coming \subseteq Wrappers(hand) \cup played
  BY <1>k DEF KnowsInv
<1>s. ASSUME NEW m \in Messages, send(m), m.op # "drawn",
             UNCHANGED <<hand, view, played, client, merged>>
      PROVE  Goal
  <2>1. Coming' = Coming
    BY <1>n, <1>s, ComingSent
  <2>2. QED
    BY <1>k, <1>s, <2>1
<1>u. ASSUME UNCHANGED <<hand, view, played, client, merged, wire>> PROVE Goal
  <2>1. Coming' = Coming
    BY <1>u DEF Coming
  <2>2. QED
    BY <1>k, <1>u, <2>1
<1>d. ASSUME NEW n \in 1 .. Len(library), drawCards(n),
             UNCHANGED <<view, played, client, merged>>
      PROVE  Goal
  <2>1. PICK new : /\ new \in [DOMAIN new -> Cards]
                   /\ DOMAIN new \subseteq Addresses \ DOMAIN hand
                   /\ Wrappers(new) \in SUBSET (Cards \X Addresses)
                   /\ hand' = Extended(hand, new)
                   /\ send([op |-> "drawn", cards |-> Wrappers(new)])
    BY <1>d, DrawFacts
  <2>2. PICK m \in Messages : m.op = "drawn" /\ m.cards = Wrappers(new) /\ send(m)
    BY <2>1, MessagesSent
  <2>3. Coming' = Coming \cup Wrappers(new)
    BY <1>n, <2>2, ComingSent
  <2>4. Wrappers(hand') = Wrappers(hand) \cup Wrappers(new)
    BY <2>1, HandExtended DEF TypeInv
  <2>5. QED
    BY <1>k, <1>d, <2>3, <2>4
<1>r. ASSUME wire # <<>>, received(1), UNCHANGED <<hand, played>>,
             client # "assertion",
             view' = IF Head(wire).op = "drawn" THEN view \cup Head(wire).cards
                                                ELSE view
      PROVE  Goal
  <2>1. ~merged
    BY <1>r DEF received, TypeInv
  <2>2. view \cup Coming = view' \cup Coming'
    BY <1>n, <1>r, ComingReceived
  <2>3. QED
    BY <1>k, <1>r, <2>1, <2>2
<1> HIDE DEF Goal
<1>1. CASE connectDeck \/ chooseOpt \/ optionRefused
  BY <1>1, <1>s, MessagesSent DEF connectDeck, chooseOpt, optionRefused, clientVars
<1>2. CASE keepsHand
  <2>1. {library[i] : i \in 1 .. HandSize} \in SUBSET Cards
    BY <1>2, <1>j DEF HandInv, TypeInv, keepsHand
  <2>2. QED
    BY <1>2, <1>s, <2>1, MessagesSent DEF keepsHand, clientVars
<1>3. CASE chooseCardsToKeep
  <2>1. CASE HandSize > refused
    <3>1. refused \in 0 .. HandSize - 1
      BY <1>j, <2>1 DEF TypeInv
    <3>2. QED
      BY <1>3, <1>s, <2>1, <3>1, MessagesSent DEF chooseCardsToKeep, clientVars
  <2>2. CASE ~(HandSize > refused)
    BY <1>3, <1>u, <2>2 DEF chooseCardsToKeep, clientVars
  <2>3. QED
    BY <2>1, <2>2
<1>4. CASE drawStartingHand
  <2>1. HandSize \in 1 .. Len(library)
    BY <1>4, <1>j DEF HandInv, TypeInv, drawStartingHand
  <2>2. QED
    BY <1>4, <1>d, <2>1 DEF drawStartingHand, clientVars
<1>5. CASE draw
  <2>1. 1 \in 1 .. Len(library)
    BY <1>5 DEF TypeInv, draw
  <2>2. QED
    BY <1>5, <1>d, <2>1 DEF draw, clientVars
<1>6. CASE handKept \/ handRefused \/ discardsChosen \/ givePriority \/ passed
             \/ optionFreed
  BY <1>6, <1>u DEF handKept, handRefused, discardsChosen, givePriority, passed,
                    optionFreed, clientVars
<1>7. CASE optionCast
  <2>1. PICK a \in DOMAIN hand :
          /\ hand' = [b \in DOMAIN hand \ {a} |-> hand[b]]
          /\ played' = played \cup {<<hand[a], a>>}
          /\ UNCHANGED <<view, wire, client, merged>>
    BY <1>7 DEF optionCast, Restrict, clientVars
  <2>2. Wrappers(hand) = Wrappers(hand') \cup {<<hand[a], a>>}
    BY <2>1 DEF Wrappers
  <2>3. Coming' = Coming
    BY <2>1 DEF Coming
  <2>4. QED
    BY <1>k, <2>1, <2>2, <2>3 DEF Goal
<1>8. ASSUME wire # <<>>, receiveHand \/ discardCards \/ getOption PROVE Goal
  BY <1>8, <1>r DEF receiveHand, discardCards, getOption, serverVars
<1>9. ASSUME wire # <<>>, receiveStartingHand \/ create PROVE Goal
  BY <1>9, <1>r DEF receiveStartingHand, create, serverVars, Known
<1>10. ASSUME NEW n \in 1 .. Len(wire), receiveDeck(n) \/ message(n) PROVE Goal
  <2>1. n = 1
    <3>1. ~(n > 1)
      BY <1>10 DEF receiveDeck, message, received
    <3>2. QED
      BY <3>1
  <2>2. wire # <<>> /\ received(1) /\ client # "assertion"
        /\ UNCHANGED <<hand, played, view>>
    BY <1>10, <2>1 DEF receiveDeck, message, serverVars
  <2>3. Head(wire).op # "drawn"
    <3>1. ~merged
      BY <2>2 DEF received, TypeInv
    <3>2. client = "deck" => Head(wire) = wire[1] /\ wire[1].op = "deck"
      BY <1>j, <1>n, <2>2, <3>1, HeadFacts DEF DialogueInv, InDialogue
    <3>3. QED
      BY <1>10, <3>2 DEF receiveDeck, message
  <2>4. QED
    BY <1>r, <2>2, <2>3
<1>11. ASSUME NEW n \in 1 .. Len(wire), unexpected(n) PROVE Goal
  BY <1>11 DEF unexpected, assertionFails
<1>12. CASE UNCHANGED vars
  BY <1>12, <1>u DEF vars, serverVars, clientVars
<1>13. QED
  BY <1>1, <1>2, <1>3, <1>4, <1>5, <1>6, <1>7, <1>8, <1>9, <1>10, <1>11, <1>12
     DEF Next, serverNext, clientNext, Goal

-----------------------------------------------------------------------------

(* A client that waits for the deck has answered nothing, and one that has *)
(* not been given its starting hand knows no card.                         *)
LEMMA EarlyNext ==
  TypeInv /\ TurnInv /\ DialogueInv /\ [Next]_vars
    => /\ client' = "deck" => answers' = <<>> /\ refused' = 0
       /\ client' \in {"deck", "hand", "drawn"} => view' = {}
<1> SUFFICES ASSUME TypeInv, TurnInv, DialogueInv, [Next]_vars
             PROVE  /\ client' = "deck" => answers' = <<>> /\ refused' = 0
                    /\ client' \in {"deck", "hand", "drawn"} => view' = {}
  OBVIOUS
<1>1. CASE serverNext
  <2>1. UNCHANGED clientVars
    BY <1>1 DEF serverNext, connectDeck, keepsHand, handKept, handRefused,
       drawStartingHand, chooseCardsToKeep, discardsChosen, draw, givePriority,
       chooseOpt, passed, optionCast, optionRefused, optionFreed
  <2>2. answers = <<>> => UNCHANGED <<answers, refused>>
    BY <1>1 DEF serverNext, connectDeck, keepsHand, handKept, handRefused,
       drawStartingHand, chooseCardsToKeep, discardsChosen, draw, givePriority,
       chooseOpt, passed, optionCast, optionRefused, optionFreed, answered
  <2>3. QED
    BY <2>1, <2>2 DEF DialogueInv, clientVars
<1>2. CASE clientNext
  <2>1. client' # "deck"
    BY <1>2 DEF clientNext, receiveHand, receiveStartingHand, discardCards, create,
       getOption, receiveDeck, unexpected, assertionFails, message
  <2>2. client' \in {"hand", "drawn"} => view' = view /\ client \in {"deck", "hand"}
    BY <1>2 DEF clientNext, receiveHand, receiveStartingHand, discardCards, create,
       getOption, receiveDeck, unexpected, assertionFails, message
  <2>3. QED
    BY <2>1, <2>2 DEF DialogueInv
<1>3. CASE UNCHANGED vars
  BY <1>3 DEF DialogueInv, vars, serverVars, clientVars
<1>4. QED
  BY <1>1, <1>2, <1>3 DEF Next

(* While the game goes on, a step of the server that sends nothing changes *)
(* nothing of the dialogue.                                                *)
LEMMA PlayingStays ==
  ASSUME InDialogue, server \in Playing, server' \in Playing,
         UNCHANGED <<wire, client, view>>
  PROVE  InDialogue'
<1>1. \A i : PlayFrom(i)' = PlayFrom(i)
  BY DEF PlayFrom
<1>2. client \notin {"deck", "hand"}
  BY DEF InDialogue, Playing
<1>3. QED
  BY <1>1, <1>2 DEF InDialogue, Playing

(* What belongs to the game may be sent behind what belongs to the game.   *)
LEMMA PlayFromSent ==
  ASSUME wire \in Seq(Messages), NEW m \in Messages, send(m), NEW k \in Nat,
         PlayFrom(k), m.op \in {"drawn", "option", "message"}
  PROVE  PlayFrom(k)'
BY SentLast DEF PlayFrom

(* When a message has been read, those behind it have moved up by one.     *)
LEMMA PlayFromReceived ==
  ASSUME wire \in Seq(Messages), wire # <<>>, received(1), NEW k \in Nat,
         PlayFrom(k + 1)
  PROVE  PlayFrom(k)'
<1>1. /\ Len(wire) \in Nat /\ DOMAIN wire' = 1 .. Len(wire) - 1
      /\ \A i \in DOMAIN wire' : i + 1 \in DOMAIN wire /\ wire'[i] = wire[i + 1]
  BY HeadFacts, ReceivedFacts
<1>2. QED
  BY <1>1 DEF PlayFrom

(* While the game goes on, what the server sends is what the client will   *)
(* expect once it has read what comes before.                              *)
LEMMA PlayingSends ==
  ASSUME InDialogue, wire \in Seq(Messages), server \in Playing, server' \in Playing,
         NEW m \in Messages, send(m), m.op \in {"drawn", "option", "message"},
         UNCHANGED <<client, view>>
  PROVE  InDialogue'
<1>1. \A k \in Nat : PlayFrom(k) => PlayFrom(k)'
  BY PlayFromSent
<1>2. PlayFrom(1) \/ PlayFrom(2) \/ PlayFrom(3) =>
        /\ PlayFrom(1) => PlayFrom(1)'
        /\ PlayFrom(2) => PlayFrom(2)'
        /\ PlayFrom(3) => PlayFrom(3)'
  BY <1>1
<1>3. /\ Len(wire') = Len(wire) + 1 /\ Len(wire) \in Nat
      /\ wire' \in Seq(Messages)
      /\ \A i \in 1 .. Len(wire) : wire'[i] = wire[i]
  BY SentFacts
<1>4. client \notin {"deck", "hand", "assertion"}
  BY DEF InDialogue, Playing
<1>5. CASE client = "drawn"
  <2>1. /\ view = {} /\ wire # <<>> /\ wire[1].op = "drawn"
        /\ Cardinality(wire[1].cards) = HandSize
        /\ Len(wire) >= 2 /\ wire[2].op = "discard" /\ PlayFrom(3)
    BY <1>5 DEF InDialogue, Playing
  <2>2. wire' # <<>> /\ wire'[1] = wire[1] /\ wire'[2] = wire[2] /\ Len(wire') >= 2
    BY <1>3, <2>1
  <2>3. QED
    BY <1>2, <1>5, <2>1, <2>2 DEF InDialogue
<1>6. CASE client = "discard"
  <2>1. /\ Cardinality(view) = HandSize
        /\ wire # <<>> /\ wire[1].op = "discard" /\ PlayFrom(2)
    BY <1>6 DEF InDialogue, Playing
  <2>2. wire' # <<>> /\ wire'[1] = wire[1]
    BY <1>3, <2>1
  <2>3. QED
    BY <1>2, <1>6, <2>1, <2>2 DEF InDialogue
<1>7. CASE client \notin {"drawn", "discard"}
  BY <1>2, <1>4, <1>7 DEF InDialogue
<1>8. QED
  BY <1>5, <1>6, <1>7

(* No step of the server takes the two out of step, as long as there is a  *)
(* hand left to refuse.                                                    *)
LEMMA ServerKeepsStep ==
  TypeInv /\ TurnInv /\ HandInv /\ InDialogue /\ serverNext /\ refused' <= HandSize
    => InDialogue'
<1> SUFFICES ASSUME TypeInv, TurnInv, HandInv, InDialogue, serverNext,
                    refused' <= HandSize
             PROVE  InDialogue'
  OBVIOUS
<1>j. HandSize \in Nat \ {0}
  BY SessionAssumption, FS_CardinalityType
<1>n. wire \in Seq(Messages) /\ Len(wire) \in Nat
  BY DEF TypeInv
<1>s. ASSUME NEW m \in Messages, send(m)
      PROVE  /\ wire' \in Seq(Messages) /\ Len(wire') = Len(wire) + 1
             /\ wire' # <<>>
             /\ Len(wire) = 0 => Len(wire') = 1 /\ wire'[1] = m
             /\ Len(wire) = 1 => /\ Len(wire') = 2 /\ wire'[1] = wire[1]
                                 /\ wire'[2] = m
  <2>1. /\ wire' \in Seq(Messages) /\ Len(wire') = Len(wire) + 1
        /\ wire'[Len(wire) + 1] = m
        /\ \A i \in 1 .. Len(wire) : wire'[i] = wire[i]
    BY <1>n, <1>s, SentFacts
  <2>2. wire' # <<>>
    BY <1>n, <2>1
  <2>3. Len(wire) = 0 => Len(wire') = 1 /\ wire'[1] = m
    BY <2>1
  <2>4. Len(wire) = 1 => Len(wire') = 2 /\ wire'[1] = wire[1] /\ wire'[2] = m
    <3>1. Len(wire) = 1 => /\ wire'[1 + 1] = m /\ 1 \in 1 .. Len(wire)
                           /\ Len(wire') = 2
      BY <2>1
    <3>2. QED
      BY <2>1, <3>1
  <2>5. QED
    BY <2>1, <2>2, <2>3, <2>4
<1>1. CASE connectDeck
  <2>1. client = "deck" /\ Len(wire) = 0
    BY <1>1 DEF InDialogue, connectDeck, Playing, TypeInv
  <2>2. Len(wire') = 1 /\ wire'[1].op = "deck"
    BY <1>1, <1>s, <2>1, MessagesSent DEF connectDeck
  <2>3. QED
    BY <1>1, <2>1, <2>2 DEF InDialogue, connectDeck, clientVars
<1>2. CASE keepsHand
  <2>1. {library[i] : i \in 1 .. HandSize} \in SUBSET Cards
    BY <1>2, <1>j DEF HandInv, TypeInv, keepsHand
  <2>2. PICK m \in Messages : m.op = "hand" /\ send(m)
    BY <1>2, <2>1, MessagesSent DEF keepsHand
  <2>3. \/ client = "deck" /\ Len(wire) = 1 /\ wire[1].op = "deck"
        \/ client = "hand" /\ Len(wire) = 0
    BY <1>2 DEF InDialogue, keepsHand, Playing, TypeInv
  <2>4. \/ /\ client = "deck" /\ Len(wire') = 2 /\ wire'[1].op = "deck"
           /\ wire'[2].op = "hand"
        \/ client = "hand" /\ Len(wire') = 1 /\ wire'[1].op = "hand"
    BY <1>s, <2>2, <2>3
  <2>5. QED
    BY <1>2, <2>4 DEF InDialogue, keepsHand, clientVars
<1>3. CASE handKept \/ handRefused
  <2>1. wire = <<>> /\ server = "keeps?" /\ wire' = <<>> /\ answers # <<>>
    BY <1>3, TurnAnswered DEF handKept, handRefused, answered
  <2>2. \/ client = "hand" /\ ~Head(answers).keeps
        \/ client = "drawn" /\ Head(answers).keeps /\ view = {}
    <3>1. Len(wire) = 0
      BY <2>1
    <3>2. QED
      BY <2>1, <3>1 DEF InDialogue, Playing, TypeInv
  <2>3. CASE handKept
    BY <2>1, <2>2, <2>3 DEF handKept, InDialogue, clientVars
  <2>4. CASE handRefused
    <3>1. server' = "keepsHand"
      BY <1>j, <2>4 DEF handRefused, TypeInv
    <3>2. QED
      BY <2>1, <2>2, <2>4, <3>1 DEF handRefused, InDialogue, clientVars
  <2>5. QED
    BY <1>3, <2>3, <2>4
<1>4. CASE drawStartingHand
  <2>1. HandSize \in 1 .. Len(library)
    BY <1>4, <1>j DEF HandInv, TypeInv, drawStartingHand
  <2>2. PICK new : /\ Cardinality(Wrappers(new)) = HandSize
                   /\ Wrappers(new) \in SUBSET (Cards \X Addresses)
                   /\ send([op |-> "drawn", cards |-> Wrappers(new)])
    BY <1>4, <2>1, DrawFacts DEF drawStartingHand
  <2>3. PICK m \in Messages : /\ m.op = "drawn" /\ m.cards = Wrappers(new)
                              /\ send(m)
    BY <2>2, MessagesSent
  <2>4. client = "drawn" /\ view = {} /\ Len(wire) = 0
    BY <1>4 DEF InDialogue, drawStartingHand, Playing, TypeInv
  <2>5. Len(wire') = 1 /\ wire'[1] = m /\ wire' # <<>>
    BY <1>s, <2>3, <2>4
  <2>6. QED
    BY <1>4, <2>2, <2>3, <2>4, <2>5 DEF InDialogue, drawStartingHand, clientVars
<1>5. CASE chooseCardsToKeep
  <2>1. \/ /\ client = "drawn" /\ view = {} /\ wire # <<>> /\ Len(wire) = 1
           /\ wire[1].op = "drawn" /\ Cardinality(wire[1].cards) = HandSize
        \/ client = "discard" /\ Cardinality(view) = HandSize /\ Len(wire) = 0
    BY <1>5 DEF InDialogue, chooseCardsToKeep, Playing, TypeInv
  <2>2. CASE HandSize > refused
    <3>1. refused \in 0 .. HandSize - 1
      BY <1>j, <2>2 DEF TypeInv
    <3>2. PICK m \in Messages : m.op = "discard" /\ send(m)
      BY <1>5, <2>2, <3>1, MessagesSent DEF chooseCardsToKeep
    <3>3. \/ /\ client = "drawn" /\ Len(wire') = 2 /\ wire'[1] = wire[1]
             /\ wire'[2] = m
          \/ client = "discard" /\ Len(wire') = 1 /\ wire'[1] = m
      BY <1>s, <2>1, <3>2
    <3>4. wire' # <<>> /\ wire' \in Seq(Messages)
      BY <1>s, <3>2
    <3>5. /\ client = "drawn" => PlayFrom(3)'
          /\ client = "discard" => PlayFrom(2)'
      BY <3>3, <3>4 DEF PlayFrom
    <3>6. server' \in Playing /\ client' = client /\ view' = view
      BY <1>5, <2>2 DEF chooseCardsToKeep, Playing, clientVars
    <3>7. CASE client = "drawn"
      BY <2>1, <3>2, <3>3, <3>4, <3>5, <3>6, <3>7 DEF InDialogue
    <3>8. CASE client = "discard"
      BY <2>1, <3>2, <3>3, <3>4, <3>5, <3>6, <3>8 DEF InDialogue
    <3>9. QED
      BY <2>1, <3>7, <3>8
  <2>3. CASE ~(HandSize > refused)
    <3>1. server' = "assertion" /\ wire' = wire /\ client' = client /\ view' = view
      BY <1>5, <2>3 DEF chooseCardsToKeep, clientVars
    <3>2. QED
      BY <2>1, <3>1 DEF InDialogue
  <2>4. QED
    BY <2>2, <2>3
<1>6. CASE discardsChosen \/ givePriority \/ passed \/ optionCast \/ optionFreed
  BY <1>6, PlayingStays, TurnAnswered
     DEF discardsChosen, givePriority, passed, optionCast, optionFreed, Playing,
         clientVars
<1>7. CASE draw
  <2>1. 1 \in 1 .. Len(library)
    BY <1>7 DEF TypeInv, draw
  <2>2. PICK new : /\ Wrappers(new) \in SUBSET (Cards \X Addresses)
                   /\ send([op |-> "drawn", cards |-> Wrappers(new)])
    BY <1>7, <2>1, DrawFacts DEF draw
  <2>3. PICK m \in Messages : m.op = "drawn" /\ send(m)
    BY <2>2, MessagesSent
  <2>4. QED
    BY <1>7, <1>n, <2>3, PlayingSends DEF draw, Playing, clientVars
<1>8. CASE chooseOpt
  BY <1>8, <1>n, MessagesSent, PlayingSends DEF chooseOpt, Playing, clientVars
<1>9. CASE optionRefused
  BY <1>9, <1>n, MessagesSent, PlayingSends DEF optionRefused, Playing, clientVars
<1>10. QED
  BY <1>1, <1>2, <1>3, <1>4, <1>5, <1>6, <1>7, <1>8, <1>9 DEF serverNext

(* No step of the client takes the two out of step, as long as every read  *)
(* returns one message: in particular it never finds a message it does not *)
(* expect.                                                                 *)
LEMMA ClientKeepsStep ==
  TypeInv /\ TurnInv /\ InDialogue /\ DialogueInv /\ clientNext /\ ~merged'
    => InDialogue'
<1> SUFFICES ASSUME TypeInv, TurnInv, InDialogue, DialogueInv, clientNext, ~merged'
             PROVE  InDialogue'
  OBVIOUS
<1>n. /\ wire \in Seq(Messages) /\ Len(wire) \in Nat /\ wire # <<>>
      /\ Head(wire) = wire[1] /\ 1 \in 1 .. Len(wire)
  BY HeadFacts DEF TypeInv, clientNext
<1>r. ASSUME received(1)
      PROVE  /\ wire' \in Seq(Messages) /\ Len(wire') = Len(wire) - 1
             /\ Len(wire) >= 2 => wire'[1] = wire[2] /\ wire' # <<>>
             /\ Len(wire) = 2 => wire'[1] = wire[2] /\ Len(wire') = 1
             /\ Len(wire) = 1 => wire' = <<>>
  <2>1. /\ wire' \in Seq(Messages) /\ Len(wire') = Len(wire) - 1
        /\ DOMAIN wire' = 1 .. Len(wire) - 1
        /\ \A i \in DOMAIN wire' : wire'[i] = wire[i + 1]
    BY <1>n, <1>r, ReceivedFacts
  <2>2. Len(wire) >= 2 => wire'[1] = wire[2] /\ wire' # <<>>
    BY <1>n, <2>1
  <2>3. Len(wire) = 1 => wire' = <<>>
    BY <2>1
  <2>4. Len(wire) = 2 => wire'[1] = wire[2] /\ Len(wire') = 1
    BY <2>1, <2>2
  <2>5. QED
    BY <2>1, <2>2, <2>3, <2>4
<1>1. CASE receiveHand
  <2>1. PICK k \in BOOLEAN : /\ answer([op |-> "keeps", keeps |-> k])
                             /\ client' = IF k THEN "drawn" ELSE "hand"
    BY <1>1 DEF receiveHand
  <2>2. PICK x \in Answers : x = [op |-> "keeps", keeps |-> k]
    BY DEF Answers
  <2>3. x.op = "keeps" /\ x.keeps = k
    BY <2>2
  <2>4. wire' = <<>> /\ answers' = <<x>> /\ server = "keeps?"
    BY <1>1, <1>n, <2>1, <2>2, <2>3, AnswerKinds, QuestionKinds, TurnReply
       DEF receiveHand, serverVars
  <2>5. answers' # <<>> /\ Head(answers') = x
    BY <2>4
  <2>6. server' = "keeps?" /\ view' = {}
    BY <1>1, <2>4 DEF receiveHand, serverVars, DialogueInv
  <2>7. QED
    BY <2>1, <2>3, <2>4, <2>5, <2>6 DEF InDialogue
<1>2. CASE receiveStartingHand
  <2>1. /\ received(1) /\ view' = view \cup wire[1].cards /\ client' = "discard"
        /\ server' = server /\ client = "drawn"
    BY <1>1, <1>2, <1>n DEF receiveStartingHand, Known, serverVars
  <2>2. /\ view = {} /\ Cardinality(wire[1].cards) = HandSize
        /\ \/ server \in {"discard", "assertion"} /\ Len(wire) = 1
           \/ /\ server \in Playing /\ Len(wire) >= 2
              /\ wire[2].op = "discard" /\ PlayFrom(3)
    BY <1>n, <2>1 DEF InDialogue
  <2>3. Cardinality(view') = HandSize
    BY <2>1, <2>2
  <2>4. PlayFrom(3) => PlayFrom(2)'
    <3>1. PlayFrom(3) => PlayFrom(2 + 1)
      OBVIOUS
    <3>2. QED
      BY <1>n, <2>1, <3>1, PlayFromReceived
  <2>5. QED
    BY <1>r, <2>1, <2>2, <2>3, <2>4 DEF InDialogue
<1>3. CASE discardCards
  <2>1. received(1) /\ client = "discard" /\ client' = "play" /\ server' = server
    BY <1>3 DEF discardCards, serverVars
  <2>2. server \in Playing /\ PlayFrom(2)
    BY <1>n, <2>1 DEF InDialogue
  <2>3. PlayFrom(1)'
    <3>1. PlayFrom(1 + 1)
      BY <2>2
    <3>2. QED
      BY <1>n, <2>1, <3>1, PlayFromReceived
  <2>4. QED
    BY <2>1, <2>2, <2>3 DEF InDialogue
<1>4. ASSUME received(1), client = "play", client' = "play", server' = server
      PROVE  InDialogue'
  <2>1. server \in Playing /\ PlayFrom(1)
    BY <1>4 DEF InDialogue
  <2>2. PlayFrom(1 + 1)
    BY <1>n, <2>1 DEF PlayFrom
  <2>3. PlayFrom(1)'
    BY <1>4, <1>n, <2>2, PlayFromReceived
  <2>4. QED
    BY <1>4, <2>1, <2>3 DEF InDialogue
<1>5. CASE create \/ getOption
  BY <1>4, <1>5 DEF create, getOption, serverVars
<1>6. ASSUME NEW n \in 1 .. Len(wire),
             receiveDeck(n) \/ unexpected(n) \/ message(n)
      PROVE  InDialogue'
  <2>1. n = 1 /\ received(1)
    <3>1. received(n) /\ ~(n > 1)
      BY <1>6 DEF receiveDeck, unexpected, assertionFails, message, received
    <3>2. n = 1
      BY <3>1
    <3>3. QED
      BY <3>1, <3>2
  <2>2. CASE receiveDeck(n)
    <3>1. client = "deck" /\ client' = "hand" /\ server' = server
      BY <2>2 DEF receiveDeck, serverVars
    <3>2. \/ server = "keepsHand" /\ Len(wire) = 1
          \/ server = "keeps?" /\ Len(wire) = 2 /\ wire[2].op = "hand"
      BY <1>n, <3>1 DEF InDialogue
    <3>3. \/ server' = "keepsHand" /\ wire' = <<>>
          \/ server' = "keeps?" /\ Len(wire') = 1 /\ wire'[1].op = "hand"
      BY <1>r, <2>1, <3>1, <3>2
    <3>4. QED
      BY <3>1, <3>3 DEF InDialogue
  <2>3. CASE unexpected(n)
    <3>1. client \in {"hand", "drawn", "discard"} /\ wire[1].op # client
      BY <1>n, <2>1, <2>3 DEF unexpected
    <3>2. QED
      BY <1>n, <3>1 DEF InDialogue
  <2>4. CASE message(n)
    BY <1>4, <2>1, <2>4 DEF message, serverVars
  <2>5. QED
    BY <1>6, <2>2, <2>3, <2>4
<1>7. QED
  BY <1>1, <1>2, <1>3, <1>5, <1>6 DEF clientNext

(* Every step keeps the dialogue.                                          *)
LEMMA DialogueNext ==
  TypeInv /\ TurnInv /\ HandInv /\ DialogueInv /\ [Next]_vars => DialogueInv'
<1> SUFFICES ASSUME TypeInv, TurnInv, HandInv, DialogueInv, [Next]_vars
             PROVE  DialogueInv'
  OBVIOUS
<1>1. /\ client' = "deck" => answers' = <<>> /\ refused' = 0
      /\ client' \in {"deck", "hand", "drawn"} => view' = {}
  BY EarlyNext
<1>2. ASSUME ~merged', refused' <= HandSize PROVE InDialogue'
  <2>1. CASE serverNext
    <3>1. merged' = merged /\ (refused' = refused \/ refused' = refused + 1)
      BY <2>1 DEF clientVars, serverNext, connectDeck, keepsHand, handKept,
         handRefused, drawStartingHand, chooseCardsToKeep, discardsChosen, draw,
         givePriority, chooseOpt, passed, optionCast, optionRefused, optionFreed
    <3>2. InDialogue
      BY <1>2, <3>1, SessionAssumption, FS_CardinalityType DEF DialogueInv, TypeInv
    <3>3. QED
      BY <1>2, <2>1, <3>2, ServerKeepsStep
  <2>2. CASE clientNext
    <3>1. refused' = refused
      BY <2>2 DEF serverVars, clientNext, receiveHand, receiveStartingHand,
         discardCards, create, getOption, receiveDeck, unexpected, assertionFails,
         message
    <3>2. ~merged
      BY <1>2, <2>2 DEF clientNext, receiveHand, receiveStartingHand,
         discardCards, create, getOption, receiveDeck, unexpected, assertionFails,
         message, received, TypeInv
    <3>3. QED
      BY <1>2, <2>2, <3>1, <3>2, ClientKeepsStep DEF DialogueInv
  <2>3. CASE UNCHANGED vars
    <3>1. InDialogue
      BY <1>2, <2>3 DEF DialogueInv, vars, serverVars, clientVars
    <3>2. QED
      BY <2>3, <3>1
         DEF InDialogue, PlayFrom, vars, serverVars, clientVars
  <2>4. QED
    BY <2>1, <2>2, <2>3 DEF Next
<1>3. QED
  BY <1>1, <1>2 DEF DialogueInv

-----------------------------------------------------------------------------

(* The invariant holds when the client has sent its deck.                  *)
LEMMA InitIInv == Init => IInv
<1> SUFFICES ASSUME Init PROVE IInv
  OBVIOUS
<1>1. HandSize \in Nat \ {0}
  BY SessionAssumption, FS_CardinalityType
<1>2. library \in Seq(Cards) /\ Len(library) >= HandSize
  BY ShuffledType DEF Init
<1>3. hand \in [DOMAIN hand -> Cards] /\ DOMAIN hand = {}
  BY DEF Init
<1>4. TypeInv
  <2>1. wire \in Seq(Messages) /\ answers \in Seq(Answers)
    BY DEF Init
  <2>2. view \cup played = {} /\ shown = {} /\ refused \in 0 .. HandSize + 1
    BY <1>1 DEF Init
  <2>3. QED
    <3>1. /\ server = "deck" /\ client = "deck" /\ merged = FALSE
          /\ refused <= HandSize
      BY <1>1 DEF Init
    <3>2. DOMAIN hand \subseteq Addresses /\ hand \in [DOMAIN hand -> Cards]
      BY <1>3
    <3> QED
      BY <1>2, <2>1, <2>2, <3>1, <3>2 DEF TypeInv
<1>5. TurnInv
  BY DEF Init, TurnInv, AskedBy
<1>6. HandInv
  BY <1>2 DEF Init, HandInv
<1>7. KnowsInv
  BY <1>3 DEF Init, KnowsInv, Coming, Wrappers
<1>8. DialogueInv
  BY DEF Init, DialogueInv, InDialogue
<1>9. QED
  BY <1>4, <1>5, <1>6, <1>7, <1>8 DEF IInv

(* It is inductive.                                                        *)
LEMMA NextIInv == IInv /\ [Next]_vars => IInv'
BY TypeNext, TurnNext, HandNext, KnowsNext, DialogueNext DEF IInv

(* networkagent.cpp:26-151, OlympusClient.cpp:60-144: what is under way,   *)
(* what the server waits for and what the client expects fit together in   *)
(* every reachable state.                                                  *)
THEOREM DialogueInvariant == Spec => []IInv
BY InitIInv, NextIInv, PTL DEF Spec

(* networkagent.cpp:26-151: the types, and the turns: at most one answer   *)
(* is under way, and only to a server that waits for one.                  *)
THEOREM TypeCorrect == Spec => []TypeOK
<1>1. IInv => TypeOK
  <2> SUFFICES ASSUME IInv PROVE TypeOK
    OBVIOUS
  <2> USE DEF IInv
  <2>1. Range(library) \subseteq Cards /\ Range(wire) \subseteq Messages
        /\ Range(answers) \subseteq Answers /\ Range(hand) \subseteq Cards
    BY DEF TypeInv, Range
  <2>2. Len(answers) <= 1 /\ (answers # <<>> => server \in Waiting)
    <3>1. CASE answers = <<>>
      BY <3>1
    <3>2. CASE answers # <<>>
      <4>1. Head(answers) \in Answers
        BY <3>2, AnswerFacts DEF TypeInv
      <4>2. server = Awaits[Head(answers).op] /\ Len(answers) = 1
        BY <3>2 DEF TurnInv
      <4>3. QED
        BY <4>1, <4>2, AnswerKinds
    <3>3. QED
      BY <3>1, <3>2
  <2>3. QED
    BY <2>1, <2>2 DEF TypeInv, TypeOK
<1>2. QED
  BY <1>1, DialogueInvariant, PTL

(* OlympusClient.cpp:60-133, networkagent.cpp:26-151: as long as every     *)
(* read returns one message, no assertion of the client fails, unless all  *)
(* HandSize + 1 hands have been refused.                                   *)
THEOREM InStepAlways == Spec => []InStep
<1>1. IInv => InStep
  BY SessionAssumption, FS_CardinalityType
     DEF IInv, TypeInv, DialogueInv, InDialogue, InStep
<1>2. QED
  BY <1>1, DialogueInvariant, PTL

(* phases.cpp:116-131, OlympusClient.cpp:116-133: the hand that is drawn   *)
(* is the one that was shown when it was kept; and whoever is asked for an *)
(* option knows the addresses of all his cards, and no others but those of *)
(* cards he has played.                                                    *)
THEOREM KnowsHand == Spec => []ClientKnowsItsHand
<1>1. IInv => ClientKnowsItsHand
  <2> SUFFICES ASSUME IInv PROVE ClientKnowsItsHand
    OBVIOUS
  <2>1. wire = <<>> => Coming = {}
    BY DEF Coming
  <2>2. QED
    BY <2>1 DEF IInv, HandInv, KnowsInv, ClientKnowsItsHand
<1>2. QED
  BY <1>1, DialogueInvariant, PTL
=============================================================================
