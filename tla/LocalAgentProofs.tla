-------------------------- MODULE LocalAgentProofs --------------------------
(***************************************************************************)
(* Theorems about the questions a front end asks, for any number of cards  *)
(* and creatures, any screen and any lines that are typed.                 *)
(***************************************************************************)
EXTENDS LocalAgent, FoldProofs

Kinds == {"none", "text", "deck", "keep", "checklist", "attackers", "blockers",
          "split", "target", "option"}

Questions == [kind : Kinds, size : Nat, min : Nat, max : Nat,
              type : DOMAIN TargetTypes \cup {"none"}]

(* The list of a question, and the marks in it; there are none where no    *)
(* list is asked about, so that the next list is asked about without any.  *)
ListInv ==
  /\ io \in {"Bot", "Nano", "Allegro", "Ncurses"}
  /\ status \in {"running", "closed", "hung", "undefined"}
  /\ question \in Questions /\ (question.kind = "none" => question = NoQuestion)
  /\ pos \in 0 .. question.size
  /\ selected \in SUBSET (0 .. question.size)
  /\ question.kind \notin lists => pos = 0 /\ selected = {} /\ nbSelected = 0
  /\ question.kind = "checklist" => nbSelected = Cardinality(selected)

(* The player has each card once; the cards he selects from are all those  *)
(* he has, and only a list that is shown has marks.                        *)
HandInv ==
  /\ Len(hand) \in Nat /\ DOMAIN hand = 1 .. Len(hand) /\ IsInjective(hand)
  /\ question.kind = "checklist" =>
       /\ question.size = Len(hand)
       /\ io = "Bot" \/ notShown => selected = {}

(* The sum of a sequence.                                                  *)
Sum(s) == SumOver(s, DOMAIN s)

(* What is given and what is left make no more than the power; the number  *)
(* getInt shows is no more than what is left; and nothing is given but for *)
(* a split, or in the answer to one.                                       *)
SplitInv ==
  /\ split \in [power : Nat, left : Nat, given : Seq(Nat)]
  /\ Sum(split.given) + split.left <= split.power
  /\ question.kind \notin {"keep", "split"} => number = 0
  /\ question.kind = "split" =>
       number \in 0 .. split.left /\ Len(split.given) <= question.size
  /\ question.kind \notin {"none", "split"} => split.given = <<>>
  /\ question.kind = "none" => split.given = <<>> \/ answer.cards = split.given
  /\ ~graphical => split.given = <<>>

(* The windows, and those that come in pairs, one for each side, or in any *)
(* number.                                                                 *)
Singles == {"screen", "leftBar", "board", "rightBar", "poster", "stack",
            "optionZone", "messageZone", "logbookZone"}
Numbered == {"side", "header", "boardside", "card", "attacker", "creature",
             "planeswalker", "artifact", "land"}
Window == {<<s>> : s \in Singles} \cup {<<s, n>> : s \in Numbered, n \in Nat}

(* A path that leads from the screen down, each window part of the last.   *)
IsPath(q) ==
  /\ q \in Seq(Window)
  /\ q # <<>> => q[1] = <<"screen">>
  /\ \A n \in 2 .. Len(q) : q[n] \in Range(parts(q[n - 1]))

PathInv ==
  /\ sprites \in Seq(Nat)
  /\ IsPath(path)
  /\ path # <<>> => question.kind = "target"

(* The players a context has, when it is the one of who.                   *)
playersOf(who) ==
  (IF "you" \in Who[who] THEN <<"me">> ELSE <<>>)
    \o (IF "opponent" \in Who[who] THEN SetToSeq(Opponents) ELSE <<>>)

ContextSet == [where : Zones, who : DOMAIN Who, players : Seq({"me"} \cup Opponents)]

ContextInv ==
  \A c \in {context, temp} : c \in ContextSet /\ c.players = playersOf(c.who)

(* A question that is asked has no answer yet.                             *)
AnswerInv == question.kind # "none" => answer.to = "none"

IInv == ListInv /\ HandInv /\ SplitInv /\ PathInv /\ ContextInv /\ AnswerInv

-----------------------------------------------------------------------------
(* Contexts.                                                               *)

(* The opponents in a sequence, each once.                                 *)
LEMMA OpponentsSequence ==
  /\ SetToSeq(Opponents) \in Seq(Opponents)
  /\ Len(SetToSeq(Opponents)) = Cardinality(Opponents)
  /\ Range(SetToSeq(Opponents)) = Opponents
<1> DEFINE n == Cardinality(Opponents)
<1>1. IsFiniteSet(Opponents) /\ n \in Nat
  BY TerminalAssumption, FS_CardinalityType
<1>2. IsFiniteSet(1 .. n) /\ Cardinality(1 .. n) = n
  BY <1>1, FS_Interval
<1>3. \E f \in [1 .. n -> Opponents] : IsInjective(f)
  <2>1. ExistsBijection(1 .. n, Opponents)
    BY <1>1, FS_CardinalityType
  <2>2. QED
    BY <2>1 DEF ExistsBijection, Bijection, Injection, IsInjective
<1>4. PICK f : f = SetToSeq(Opponents)
  OBVIOUS
<1>5. f \in [1 .. n -> Opponents] /\ IsInjective(f)
  BY <1>3, <1>4, Zenon DEF SetToSeq
<1>6. f \in Injection(1 .. n, Opponents)
  BY <1>5 DEF Injection
<1>7. f \in Surjection(1 .. n, Opponents)
  BY <1>1, <1>2, <1>6, FS_Injection
<1>8. Range(f) = Opponents
  BY <1>7 DEF Surjection, Range
<1> HIDE DEF n
<1>9. f \in Seq(Opponents) /\ Len(f) = n
  BY <1>1, <1>5
<1>10. QED
  BY <1>4, <1>8, <1>9 DEF n

(* The players of a context are a sequence of players, ...                 *)
LEMMA PlayersType ==
  ASSUME NEW who \in DOMAIN Who
  PROVE  playersOf(who) \in Seq({"me"} \cup Opponents)
<1>1. PICK s : s = SetToSeq(Opponents)
  OBVIOUS
<1>2. s \in Seq({"me"} \cup Opponents) /\ <<"me">> \in Seq({"me"} \cup Opponents)
  BY <1>1, OpponentsSequence
<1>3. <<"me">> \o s \in Seq({"me"} \cup Opponents)
  BY <1>2
<1>4. playersOf(who) \in {<<>> \o <<>>, <<"me">> \o <<>>, <<>> \o s, <<"me">> \o s}
  BY <1>1 DEF playersOf
<1>5. <<>> \o s = s /\ <<"me">> \o <<>> = <<"me">>
      /\ <<>> \in Seq({"me"} \cup Opponents)
  BY <1>2
<1>6. <<>> \o <<>> = <<>>
  OBVIOUS
<1>7. QED
  BY <1>2, <1>3, <1>4, <1>5, <1>6

(* ... those that its name says, each once.                                *)
LEMMA PlayersNamed ==
  ASSUME NEW who \in DOMAIN Who
  PROVE  /\ Range(playersOf(who)) = (IF "you" \in Who[who] THEN {"me"} ELSE {})
                             \cup (IF "opponent" \in Who[who] THEN Opponents ELSE {})
         /\ Len(playersOf(who)) = Cardinality(Range(playersOf(who)))
<1>1. PICK s : s = SetToSeq(Opponents)
  OBVIOUS
<1>2. /\ s \in Seq(Opponents) /\ Len(s) = Cardinality(Opponents)
      /\ Range(s) = Opponents
  BY <1>1, OpponentsSequence
<1>3. IsFiniteSet(Opponents) /\ "me" \notin Opponents
  BY TerminalAssumption
<1>4. PICK p : p = playersOf(who)
  OBVIOUS
<1>5. CASE "you" \notin Who[who] /\ "opponent" \notin Who[who]
  <2>1. p = <<>>
    BY <1>4, <1>5 DEF playersOf
  <2>2. Range(p) = {} /\ Len(p) = 0
    BY <2>1 DEF Range
  <2>3. QED
    BY <1>4, <1>5, <2>2, FS_EmptySet
<1>6. CASE "you" \in Who[who] /\ "opponent" \notin Who[who]
  <2>1. p = <<"me">>
    BY <1>4, <1>6 DEF playersOf
  <2>2. Range(p) = {"me"} /\ Len(p) = 1
    BY <2>1 DEF Range
  <2>3. QED
    BY <1>4, <1>6, <2>2, FS_Singleton
<1>7. CASE "you" \notin Who[who] /\ "opponent" \in Who[who]
  <2>1. p = s
    BY <1>1, <1>2, <1>4, <1>7 DEF playersOf
  <2>2. QED
    BY <1>2, <1>4, <1>7, <2>1
<1>8. CASE "you" \in Who[who] /\ "opponent" \in Who[who]
  <2>1. p = <<"me">> \o s
    BY <1>1, <1>4, <1>8 DEF playersOf
  <2>2. Len(p) = 1 + Len(s) /\ p[1] = "me" /\ \A i \in 1 .. Len(s) : p[i + 1] = s[i]
    BY <1>2, <2>1
  <2>3. Range(p) = {"me"} \cup Opponents
    <3>1. DOMAIN p = 1 .. (1 + Len(s)) /\ DOMAIN s = 1 .. Len(s) /\ Len(s) \in Nat
      BY <1>2, <2>1
    <3>2. \A i \in DOMAIN p : p[i] \in {"me"} \cup Opponents
      BY <1>2, <2>1
    <3>3. \A x \in Opponents : \E i \in DOMAIN p : p[i] = x
      <4> SUFFICES ASSUME NEW x \in Opponents PROVE \E i \in DOMAIN p : p[i] = x
        OBVIOUS
      <4>1. PICK j \in 1 .. Len(s) : s[j] = x
        BY <1>2, <3>1 DEF Range
      <4>2. j + 1 \in DOMAIN p /\ p[j + 1] = x
        BY <2>2, <3>1, <4>1
      <4>3. QED
        BY <4>2
    <3>4. 1 \in DOMAIN p
      BY <3>1
    <3>5. QED
      BY <2>2, <3>2, <3>3, <3>4 DEF Range
  <2>4. Cardinality(Opponents \cup {"me"}) = Cardinality(Opponents) + 1
    BY <1>3, FS_AddElement
  <2>5. Opponents \cup {"me"} = {"me"} \cup Opponents /\ Cardinality(Opponents) \in Nat
    BY <1>3, FS_CardinalityType
  <2>6. Len(p) = Cardinality(Range(p))
    <3>1. Cardinality(Range(p)) = Cardinality(Opponents) + 1
      BY <2>3, <2>4, <2>5
    <3>2. Len(p) = 1 + Cardinality(Opponents)
      BY <1>2, <2>2
    <3>3. QED
      BY <2>5, <3>1, <3>2
  <2>7. QED
    BY <1>4, <1>8, <2>3, <2>6
<1>9. QED
  BY <1>5, <1>6, <1>7, <1>8

(* setWho and readContext keep the players those of the name.              *)
LEMMA ContextKept ==
  ASSUME NEW c \in ContextSet, c.players = playersOf(c.who), NEW l \in Lines
  PROVE  /\ readContext(l, c) \in ContextSet
         /\ readContext(l, c).players = playersOf(readContext(l, c).who)
<1> DEFINE d == IF l.who \in DOMAIN Who THEN setWho(c, l.who) ELSE c
<1>1. d \in ContextSet /\ d.players = playersOf(d.who)
  <2>1. CASE l.who \in DOMAIN Who /\ l.who # c.who
    <3>1. d = [c EXCEPT !.who = l.who, !.players = playersOf(l.who)]
      BY <2>1 DEF setWho, playersOf
    <3>2. playersOf(l.who) \in Seq({"me"} \cup Opponents)
      BY <2>1, PlayersType
    <3> HIDE DEF d
    <3>3. QED
      BY <2>1, <3>1, <3>2 DEF ContextSet
  <2>2. CASE ~(l.who \in DOMAIN Who /\ l.who # c.who)
    BY <2>2 DEF setWho
  <2>3. QED
    BY <2>1, <2>2
<1> HIDE DEF d
<1>2. readContext(l, c) = IF l.who # "?" /\ l.zone \in Zones
                          THEN [d EXCEPT !.where = l.zone] ELSE d
  BY DEF readContext, d
<1>3. QED
  BY <1>1, <1>2 DEF ContextSet

-----------------------------------------------------------------------------
(* Positions in order.                                                     *)

rank(S, i) == Cardinality({j \in S : j <= i})

(* Numbers have as many ranks as there are.                                *)
LEMMA RanksExist ==
  ASSUME NEW n \in Nat
  PROVE  \A S \in SUBSET Nat : IsFiniteSet(S) /\ Cardinality(S) = n =>
           \A k \in 1 .. n : \E i \in S : rank(S, i) = k
<1> DEFINE A == {m \in Nat : \A S \in SUBSET Nat : IsFiniteSet(S) /\ Cardinality(S) = m =>
                   \A k \in 1 .. m : \E i \in S : rank(S, i) = k}
<1>1. 0 \in A
  OBVIOUS
<1>2. ASSUME NEW m \in Nat, m \in A PROVE m + 1 \in A
  <2> SUFFICES ASSUME NEW S \in SUBSET Nat, IsFiniteSet(S), Cardinality(S) = m + 1,
                      NEW k \in 1 .. (m + 1)
               PROVE  \E i \in S : rank(S, i) = k
    OBVIOUS
  <2>1. S # {}
    BY FS_EmptySet
  <2>2. PICK l : l = Min(S)
    OBVIOUS
  <2>3. l \in S /\ \A y \in S : l <= y
    BY <2>1, <2>2, LeastExists
  <2>4. PICK T : T = S \ {l}
    OBVIOUS
  <2>5. IsFiniteSet(T) /\ Cardinality(T) = m /\ T \in SUBSET Nat
    BY <2>3, <2>4, FS_RemoveElement
  <2>6. CASE k = 1
    <3>1. {j \in S : j <= l} = {l}
      <4>1. \A j \in S : j <= l <=> j = l
        BY <2>3
      <4>2. QED
        BY <2>3, <4>1
    <3>2. rank(S, l) = 1
      BY <3>1, FS_Singleton DEF rank
    <3>3. QED
      BY <2>3, <2>6, <3>2
  <2>7. CASE k # 1
    <3>1. k - 1 \in 1 .. m
      BY <2>7
    <3>2. PICK i \in T : rank(T, i) = k - 1
      BY <1>2, <2>5, <3>1
    <3>3. i \in S
      BY <2>4
    <3>4. {j \in S : j <= i} = {j \in T : j <= i} \cup {l} /\ l \notin {j \in T : j <= i}
      BY <2>3, <2>4, <3>3
    <3>5. IsFiniteSet({j \in T : j <= i})
      BY <2>5, FS_Subset
    <3>6. rank(S, i) = rank(T, i) + 1
      BY <3>4, <3>5, FS_AddElement DEF rank
    <3>7. QED
      BY <3>2, <3>3, <3>6
  <2>8. QED
    BY <2>6, <2>7
<1>3. Nat \subseteq A
  <2> HIDE DEF A
  <2>1. QED
    BY <1>1, <1>2, SetInduction
<1>4. QED
  BY <1>3

(* inOrder has every position once.                                        *)
LEMMA InOrderProperties ==
  ASSUME NEW S \in SUBSET Nat, IsFiniteSet(S)
  PROVE  /\ inOrder(S) \in [1 .. Cardinality(S) -> S]
         /\ IsInjective(inOrder(S))
         /\ Range(inOrder(S)) = S
<1>1. PICK n \in Nat : n = Cardinality(S)
  BY FS_CardinalityType
<1>2. \A k \in 1 .. n : \E i \in S : rank(S, i) = k
  BY <1>1, RanksExist
<1>3. PICK f : f = inOrder(S)
  OBVIOUS
<1>4. f = [k \in 1 .. n |-> CHOOSE i \in S : rank(S, i) = k]
  BY <1>1, <1>3 DEF inOrder, rank
<1>5. \A k \in 1 .. n : f[k] \in S /\ rank(S, f[k]) = k
  BY <1>2, <1>4
<1>6. f \in [1 .. n -> S]
  BY <1>4, <1>5
<1>7. IsInjective(f)
  BY <1>5, <1>6 DEF IsInjective
<1>8. f \in Injection(1 .. n, S)
  BY <1>6, <1>7 DEF Injection
<1>9. IsFiniteSet(1 .. n) /\ Cardinality(1 .. n) = n
  BY FS_Interval
<1>10. f \in Surjection(1 .. n, S)
  BY <1>1, <1>8, <1>9, FS_Injection
<1>11. Range(f) = S
  BY <1>10 DEF Surjection, Range
<1>12. QED
  BY <1>1, <1>3, <1>6, <1>7, <1>11

(* The cards at some positions: those cards, each once.                    *)
LEMMA CardsAtProperties ==
  ASSUME NEW list, NEW n \in Nat, DOMAIN list = 1 .. n, NEW at
  PROVE  /\ Len(cardsAt(list, at)) \in Nat
         /\ DOMAIN cardsAt(list, at) = 1 .. Len(cardsAt(list, at))
         /\ Range(cardsAt(list, at)) = {list[i] : i \in {j \in 1 .. n : j - 1 \in at}}
         /\ IsInjective(list) => IsInjective(cardsAt(list, at))
<1>1. PICK S : S = {i \in 1 .. n : i - 1 \in at}
  OBVIOUS
<1>2. S \in SUBSET Nat /\ S \subseteq 1 .. n /\ IsFiniteSet(S) /\ Cardinality(S) \in Nat
  <2>1. S \in SUBSET Nat /\ S \in SUBSET (1 .. n)
    BY <1>1
  <2>2. IsFiniteSet(1 .. n)
    BY FS_Interval
  <2>3. IsFiniteSet(S)
    BY <2>1, <2>2, FS_Subset
  <2>4. QED
    BY <2>1, <2>3, FS_CardinalityType
<1>3. PICK m \in Nat : m = Cardinality(S)
  BY <1>2
<1>4. PICK f \in [1 .. m -> S] :
        f = inOrder(S) /\ IsInjective(f) /\ Range(f) = S
  BY <1>2, <1>3, InOrderProperties
<1>5. PICK c : c = cardsAt(list, at)
  OBVIOUS
<1>6. c = [k \in 1 .. m |-> list[f[k]]]
  BY <1>1, <1>3, <1>4, <1>5 DEF cardsAt
<1>7. c \in Seq({list[i] : i \in S}) /\ Len(c) = m
  BY <1>6
<1>8. Range(c) = {list[i] : i \in S}
  BY <1>4, <1>6 DEF Range
<1>9. IsInjective(list) => IsInjective(c)
  <2> SUFFICES ASSUME IsInjective(list), NEW a \in 1 .. m, NEW b \in 1 .. m,
                      c[a] = c[b]
               PROVE  a = b
    BY <1>6 DEF IsInjective
  <2>1. f[a] \in 1 .. n /\ f[b] \in 1 .. n
    BY <1>2, <1>4
  <2>2. f[a] = f[b]
    BY <1>6, <2>1 DEF IsInjective
  <2>3. QED
    BY <1>4, <2>2 DEF IsInjective
<1>10. QED
  BY <1>1, <1>5, <1>6, <1>7, <1>8, <1>9

-----------------------------------------------------------------------------
(* What steps do to the question.                                          *)

Stati == {"running", "closed", "hung", "undefined"}

(* The question and its marks stay as they are, ...                        *)
Kept == UNCHANGED <<io, question, pos, selected, nbSelected>> /\ status' \in Stati

(* ... or it is answered.                                                  *)
Answered == question' = NoQuestion /\ reset /\ io' = io /\ status' \in Stati

(* What is answered without asking leaves everything else alone.           *)
LEMMA AnswersAre ==
  ASSUME ListInv, blockers \/ nothing \/ botAnswers
  PROVE  Answered /\ UNCHANGED <<hand, split, sprites, context, temp>> /\ path' = <<>>
BY DEF ListInv, Stati, blockers, nothing, botAnswers, give, unasked, Answered,
       terminalVars

(* A step of a menu moves the cursor or marks an item, shows another       *)
(* number, gives damage, answers, or changes no more than text and status. *)
LEMMA MenuSteps ==
  ASSUME ListInv, menuStep, io' = io
  PROVE  \/ moveCursor
         \/ change
         \/ commitChecklist /\ Answered /\ split' = split
         \/ chosenUnasked /\ Answered /\ split' = split
         \/ gives /\ (Kept \/ Answered) /\ hand' = hand
         \/ adjust /\ Kept /\ UNCHANGED <<hand, split, answer>>
         \/ switchChoice /\ Kept /\ UNCHANGED <<hand, split, answer>>
         \/ Kept /\ UNCHANGED <<hand, split, number, answer>>
         \/ Answered /\ UNCHANGED <<hand, split>> /\ question.kind \in {"attackers", "keep", "text", "deck"}
<1>1. CASE close
  BY <1>1 DEF close, asking, Kept, Stati
<1>2. CASE zeroTyped
  BY <1>2 DEF zeroTyped, loses, asking, Kept, Stati
<1>3. CASE chosenUnasked
  BY <1>3 DEF ListInv, chosenUnasked, give, Answered, Stati
<1>4. CASE commitChecklist
  BY <1>4 DEF ListInv, commitChecklist, give, asking, Answered, Kept, Stati
<1>5. CASE commitAttackers
  BY <1>5 DEF ListInv, commitAttackers, waitsFor, give, Answered, Stati
<1>6. CASE adjust
  BY <1>6 DEF ListInv, adjust, Kept, Stati
<1>7. CASE gives
  <2>1. reset /\ UNCHANGED <<question, answer>> => question' = question
    OBVIOUS
  <2>2. ~(Len(split.given) + 1 = question.size) => question' = question /\ reset
    BY <1>7 DEF gives
  <2>3. question.kind = "split"
    BY <1>7 DEF gives, splitting, waitsFor
  <2>4. QED
    BY <1>7, <2>2, <2>3 DEF ListInv, gives, give, reset, lists, Answered, Kept, Stati
<1>8. CASE switchChoice
  BY <1>8 DEF ListInv, switchChoice, Kept, Stati
<1>9. CASE choose
  BY <1>9 DEF ListInv, choose, waitsFor, give, Answered, Stati
<1>10. CASE type
  BY <1>10 DEF ListInv, type, asking, Kept, Stati
<1>11. CASE enterText
  BY <1>11 DEF ListInv, enterText, waitsFor, give, asking, Answered, Kept, Stati
<1>12. QED
  BY <1>1, <1>2, <1>3, <1>4, <1>5, <1>6, <1>7, <1>8, <1>9, <1>10, <1>11 DEF menuStep

(* A step of the windows is taken while a target is asked for; it leaves   *)
(* the question or answers it.                                             *)
LEMMA WindowSteps ==
  ASSUME ListInv, windowStep, io' = io
  PROVE  /\ question.kind = "target" /\ UNCHANGED <<hand, split, sprites>>
         /\ \/ Kept /\ UNCHANGED <<number, answer>>
            \/ Answered /\ path' = <<>>
<1>1. CASE enterGallery
  BY <1>1 DEF ListInv, enterGallery, iterating, waitsFor, asking, Kept, Stati
<1>2. CASE pressKey
  BY <1>2 DEF ListInv, pressKey, iterating, waitsFor, give, asking, Answered, Kept, Stati
<1>3. CASE leaveElement
  BY <1>3 DEF ListInv, leaveElement, iterating, waitsFor, give, asking, Answered, Kept, Stati
<1>4. QED
  BY <1>1, <1>2, <1>3 DEF windowStep

(* So does a line at the terminal, while an option is asked for.           *)
LEMMA TerminalSteps ==
  ASSUME ListInv, (\E l \in Lines : command(l)) \/ emptyLine, io' = io
  PROVE  /\ question.kind = "option" /\ UNCHANGED <<hand, split>>
         /\ \/ Kept /\ UNCHANGED <<number, answer>>
            \/ Answered
<1>1. CASE \E l \in Lines : command(l)
  <2>1. PICK l \in Lines : command(l)
    BY <1>1
  <2>2. status' \in Stati
    BY <2>1 DEF ListInv, command, Stati
  <2>3. QED
    BY <2>1, <2>2 DEF command, waitsFor, give, asking, Answered, Kept
<1>2. CASE emptyLine
  BY <1>2 DEF ListInv, emptyLine, waitsFor, asking, Kept, Stati
<1>3. QED
  BY <1>1, <1>2

(* Every question.                                                         *)
LEMMA AskSteps ==
  ASSUME ListInv, HandInv, ask
  PROVE  /\ question.kind = "none" /\ question' \in Questions
         /\ question'.kind = "checklist" => question'.size = Len(hand)
         /\ UNCHANGED <<io, status, pos, selected, nbSelected, hand, sprites, context, temp>>
         /\ question'.kind \notin {"keep"} => number' = number
         /\ question'.kind # "split" => split' = NoSplit
         /\ question'.kind = "split" =>
              \E p \in Powers : split' = [power |-> p, left |-> p, given |-> <<>>]
         /\ question'.kind # "none"
         /\ path' = path \/ (question'.kind = "target" /\ path' = << <<"screen">> >>)
<1> USE LocalAgentAssumption DEF ListInv, HandInv, asks, idle, waitsFor, same, Asked, Questions, Kinds
<1>1. CASE askText
  BY <1>1 DEF askText
<1>2. CASE keepsHand
  BY <1>2 DEF keepsHand
<1>3. CASE chooseCardsToKeep
  BY <1>3 DEF chooseCardsToKeep
<1>4. CASE chooseAttackers
  BY <1>4 DEF chooseAttackers
<1>5. CASE chooseBlockers
  BY <1>5 DEF chooseBlockers
<1>6. CASE splitDamage
  BY <1>6 DEF splitDamage
<1>7. CASE chooseTarget
  BY <1>7 DEF chooseTarget, iterateScreen
<1>8. CASE chooseOpt
  BY <1>8 DEF chooseOpt
<1>9. QED
  BY <1>1, <1>2, <1>3, <1>4, <1>5, <1>6, <1>7, <1>8 DEF ask

-----------------------------------------------------------------------------
(* The lists.                                                              *)

(* Where question and marks stay, so does what is said of them.            *)
LEMMA KeptListInv ==
  ASSUME ListInv, Kept
  PROVE  ListInv'
BY DEF ListInv, Kept, Stati

(* An answer takes all marks away.                                         *)
LEMMA AnsweredListInv ==
  ASSUME ListInv, Answered
  PROVE  ListInv'
<1>1. question'.kind = "none" /\ question'.size = 0 /\ question' \in Questions
  BY DEF Answered, NoQuestion, Questions, Kinds
<1>2. question' = NoQuestion
  BY DEF Answered
<1>3. QED
  BY <1>1, <1>2 DEF ListInv, Answered, reset, Stati, lists

(* The cursor stays inside the list or just behind it.                     *)
LEMMA MovedListInv ==
  ASSUME ListInv, moveCursor, io' = io
  PROVE  ListInv'
<1>1. question.size \in Nat /\ question.kind \in lists
  BY DEF ListInv, Questions, moveCursor, listShown, waitsFor
<1>2. pos' \in 0 .. question.size
  BY <1>1 DEF ListInv, moveCursor, atEnd
<1>3. status' \in Stati
  BY DEF ListInv, moveCursor, Stati
<1>4. question' = question /\ selected' = selected /\ nbSelected' = nbSelected
  BY DEF moveCursor
<1>5. QED
  BY <1>1, <1>2, <1>3, <1>4 DEF ListInv, Stati

(* A mark that is set or taken away is counted.                            *)
LEMMA ChangedListInv ==
  ASSUME ListInv, change, io' = io
  PROVE  ListInv'
<1>1. question.size \in Nat /\ question.kind \in lists
  BY DEF ListInv, Questions, change, listShown, waitsFor
<1>2. PICK p \in 0 .. question.size :
        /\ pos' = p /\ selected' = SymDiff(selected, {p})
        /\ nbSelected' = IF question.kind # "checklist" THEN 0
                         ELSE IF p \in selected THEN nbSelected - 1 ELSE nbSelected + 1
  BY DEF change
<1>3. question' = question /\ status' = status
  BY DEF change
<1>4. selected' = IF p \in selected THEN selected \ {p} ELSE selected \cup {p}
  BY <1>2 DEF SymDiff
<1>5. selected' \in SUBSET (0 .. question.size)
  BY <1>2, <1>4 DEF ListInv
<1>6. IsFiniteSet(0 .. question.size)
  BY <1>1, FS_Interval
<1>7. IsFiniteSet(selected) /\ Cardinality(selected) \in Nat
  BY <1>6, FS_Subset, FS_CardinalityType DEF ListInv
<1>8. question.kind = "checklist" => nbSelected' = Cardinality(selected')
  <2> SUFFICES ASSUME question.kind = "checklist"
               PROVE  nbSelected' = Cardinality(selected')
    OBVIOUS
  <2>1. nbSelected = Cardinality(selected)
    BY DEF ListInv
  <2>2. CASE p \in selected
    <3>1. Cardinality(selected \ {p}) = Cardinality(selected) - 1
      BY <1>7, <2>2, FS_RemoveElement
    <3>2. QED
      BY <1>2, <1>4, <2>1, <2>2, <3>1
  <2>3. CASE p \notin selected
    <3>1. Cardinality(selected \cup {p}) = Cardinality(selected) + 1
      BY <1>7, <2>3, FS_AddElement
    <3>2. QED
      BY <1>2, <1>4, <2>1, <2>3, <3>1
  <2>4. QED
    BY <2>2, <2>3
<1>9. QED
  BY <1>1, <1>2, <1>3, <1>5, <1>8 DEF ListInv

(* Every step keeps ListInv: a question is asked only when there is none,  *)
(* so that there are no marks yet.                                         *)
LEMMA NextListInv ==
  ASSUME ListInv, HandInv, [Next]_vars
  PROVE  ListInv'
<1>1. CASE draw
  BY <1>1 DEF ListInv, draw, idle, asking
<1>2. CASE ask
  <2>1. pos' = 0 /\ selected' = {} /\ nbSelected' = 0 /\ Cardinality({}) = 0
    BY <1>2, AskSteps, FS_EmptySet DEF ListInv, lists
  <2>2. question' \in Questions /\ question'.kind # "none" /\ question'.size \in Nat /\ UNCHANGED <<io, status>>
    BY <1>2, AskSteps DEF Questions
  <2>3. QED
    BY <2>1, <2>2 DEF ListInv
<1>3. CASE blockers \/ nothing \/ botAnswers
  BY <1>3, AnswersAre, AnsweredListInv
<1>4. CASE menuStep /\ io' = io
  BY <1>4, MenuSteps, KeptListInv, AnsweredListInv, MovedListInv, ChangedListInv
<1>5. CASE windowStep /\ io' = io
  BY <1>5, WindowSteps, KeptListInv, AnsweredListInv
<1>6. CASE ((\E l \in Lines : command(l)) \/ emptyLine) /\ io' = io
  BY <1>6, TerminalSteps, KeptListInv, AnsweredListInv
<1>7. CASE UNCHANGED vars
  BY <1>7 DEF ListInv, vars, menuVars, asking
<1>8. QED
  BY <1>1, <1>2, <1>3, <1>4, <1>5, <1>6, <1>7 DEF Next

-----------------------------------------------------------------------------
(* The hand.                                                               *)

(* Where hand, question and marks stay, so does what is said of them.      *)
LEMMA KeptHandInv ==
  ASSUME HandInv, UNCHANGED <<hand, io, question, selected>>
  PROVE  HandInv'
BY DEF HandInv, IsInjective, notShown

(* An answer that leaves the hand alone ends the selection from it.        *)
LEMMA AnsweredHandInv ==
  ASSUME HandInv, Answered, hand' = hand
  PROVE  HandInv'
<1>1. question'.kind = "none"
  BY DEF Answered, NoQuestion
<1>2. QED
  BY <1>1 DEF HandInv, IsInjective, notShown

(* Every step keeps HandInv: cards that are spliced out, and those that    *)
(* are left, are still there once.                                         *)
LEMMA NextHandInv ==
  ASSUME ListInv, HandInv, [Next]_vars
  PROVE  HandInv'
<1>1. CASE draw
  <2>1. PICK n \in 1 .. Cards : hand' = [i \in 1 .. n |-> i]
    BY <1>1 DEF draw
  <2>2. n \in Nat
    BY LocalAgentAssumption, <2>1
  <2>3. Len(hand') = n /\ DOMAIN hand' = 1 .. n /\ IsInjective(hand')
    BY <2>1, <2>2 DEF IsInjective
  <2>4. question'.kind = "none"
    BY <1>1 DEF draw, idle, waitsFor
  <2>5. QED
    BY <2>2, <2>3, <2>4 DEF HandInv
<1>2. CASE ask
  BY <1>2, AskSteps DEF ListInv, HandInv, IsInjective, lists
<1>3. CASE blockers \/ nothing \/ botAnswers
  BY <1>3, AnswersAre, AnsweredHandInv
<1>4. CASE io # "Bot" /\ menuStep /\ io' = io
  <2>1. CASE moveCursor
    BY <1>4, <2>1, KeptHandInv DEF moveCursor
  <2>2. CASE change
    <3>1. io # "Bot" /\ (question.kind = "checklist" => ~notShown)
      BY <1>4, <2>2 DEF change, listShown
    <3>2. UNCHANGED <<io, question, hand>>
      BY <1>4, <2>2 DEF change
    <3>3. QED
      BY <3>1, <3>2 DEF HandInv, IsInjective, notShown
  <2>3. CASE commitChecklist /\ Answered
    <3>1. PICK at : hand' = cardsAt(hand, at) \/ hand' = hand
      BY <2>3 DEF commitChecklist
    <3>2. /\ Len(hand') \in Nat /\ DOMAIN hand' = 1 .. Len(hand')
          /\ IsInjective(hand')
      BY <3>1, CardsAtProperties DEF HandInv
    <3>3. question'.kind = "none"
      BY <2>3 DEF Answered, NoQuestion
    <3>4. QED
      BY <3>2, <3>3 DEF HandInv
  <2>4. CASE chosenUnasked /\ Answered
    <3>1. hand' = hand \/ hand' = <<>>
      BY <2>4 DEF chosenUnasked
    <3>2. /\ Len(hand') \in Nat /\ DOMAIN hand' = 1 .. Len(hand')
          /\ IsInjective(hand')
      BY <3>1 DEF HandInv, IsInjective
    <3>3. question'.kind = "none"
      BY <2>4 DEF Answered, NoQuestion
    <3>4. QED
      BY <3>2, <3>3 DEF HandInv
  <2>5. CASE (Kept \/ Answered) /\ hand' = hand
    BY <2>5, KeptHandInv, AnsweredHandInv DEF Kept
  <2>6. QED
    BY <1>4, <2>1, <2>2, <2>3, <2>4, <2>5, MenuSteps
<1>5. CASE windowStep /\ io' = io
  BY <1>5, WindowSteps, KeptHandInv, AnsweredHandInv DEF Kept
<1>6. CASE ((\E l \in Lines : command(l)) \/ emptyLine) /\ io' = io
  BY <1>6, TerminalSteps, KeptHandInv, AnsweredHandInv DEF Kept
<1>7. CASE UNCHANGED vars
  BY <1>7, KeptHandInv DEF vars, menuVars, asking
<1>8. QED
  BY <1>1, <1>2, <1>3, <1>4, <1>5, <1>6, <1>7 DEF Next

-----------------------------------------------------------------------------
(* The split of damage.                                                    *)

Splits == [power : Nat, left : Nat, given : Seq(Nat)]

(* Nothing given is a sum of zero.                                         *)
LEMMA SumNothing == Sum(<<>>) = 0
<1>1. DOMAIN <<>> = {}
  OBVIOUS
<1>2. QED
  BY <1>1, SumEmpty DEF Sum

(* A quotient as a number: what a byte keeps of a number is no more than   *)
(* that number.                                                            *)
LEMMA ByteAtMost ==
  ASSUME NEW n \in Nat
  PROVE  n % 256 \in Nat /\ n % 256 <= n
OBVIOUS

(* clamp returns a number from 0 to what is left.                          *)
LEMMA ClampBounds ==
  ASSUME split \in Splits, NEW n \in Int
  PROVE  clamp(n) \in 0 .. split.left
<1>1. PICK l \in Nat : l = split.left
  BY DEF Splits
<1>2. PICK m : m = Max({0, n})
  OBVIOUS
<1>3. m \in {0, n} /\ m >= 0 /\ m >= n
  <2>1. \E x \in {0, n} : \A y \in {0, n} : x >= y
    <3>1. CASE n >= 0
      BY <3>1
    <3>2. CASE ~(n >= 0)
      BY <3>2
    <3>3. QED
      BY <3>1, <3>2
  <2>2. m \in {0, n} /\ \A y \in {0, n} : m >= y
    BY <1>2, <2>1 DEF Max
  <2>3. QED
    BY <2>2
<1>4. PICK k : k = Min({l, m})
  OBVIOUS
<1>5. k \in {l, m} /\ k <= l
  <2>1. \E x \in {l, m} : \A y \in {l, m} : x <= y
    <3>1. CASE l <= m
      BY <1>3, <3>1
    <3>2. CASE ~(l <= m)
      BY <1>3, <3>2
    <3>3. QED
      BY <3>1, <3>2
  <2>2. k \in {l, m} /\ \A y \in {l, m} : k <= y
    BY <1>4, <2>1 DEF Min
  <2>3. QED
    BY <2>2
<1>6. clamp(n) = k
  BY <1>1, <1>2, <1>4 DEF clamp
<1>7. QED
  BY <1>1, <1>3, <1>5, <1>6

(* What one blocker is given.                                              *)
LEMMA GivenSplit ==
  ASSUME split \in Splits, Sum(split.given) + split.left <= split.power,
         NEW n \in 0 .. split.left
  PROVE  /\ given(n) \in Splits
         /\ Sum(given(n).given) + given(n).left <= given(n).power
         /\ Len(given(n).given) = Len(split.given) + 1
<1>1. PICK p \in Nat, l \in Nat : p = split.power /\ l = split.left
  BY DEF Splits
<1>2. PICK s \in Seq(Nat) : s = split.given
  BY DEF Splits
<1>3. PICK b \in Nat : b = n % 256 /\ b <= n /\ n \in Nat /\ n <= l
  BY <1>1, ByteAtMost
<1>4. split = [power |-> p, left |-> l, given |-> s]
  BY <1>1, <1>2 DEF Splits
<1>5. given(n) = [power |-> p, left |-> l - n, given |-> Append(s, b)]
  <2>1. given(n) = [split EXCEPT !.left = l - n, !.given = Append(s, b)]
    BY <1>1, <1>2, <1>3 DEF given
  <2>2. QED
    BY <1>4, <2>1, Zenon
<1>6. PICK k \in Nat : k = Sum(s)
  <2>1. IsFiniteSet(DOMAIN s) /\ \A i \in DOMAIN s : s[i] \in Nat
    BY FS_Interval
  <2>2. QED
    BY <2>1, SumType DEF Sum
<1>7. Sum(Append(s, b)) = k + b
  BY <1>6, SumAppend DEF Sum
<1>8. k + l <= p
  BY <1>1, <1>2, <1>6
<1>9. /\ given(n).power = p /\ given(n).left = l - n /\ given(n).given = Append(s, b)
      /\ l - n \in Nat /\ Append(s, b) \in Seq(Nat) /\ Len(Append(s, b)) = Len(s) + 1
  BY <1>3, <1>5
<1>10. k + b + (l - n) <= p
  BY <1>3, <1>8
<1>11. QED
  BY <1>2, <1>5, <1>7, <1>9, <1>10 DEF Splits

(* Where split, number and answer stay, so does what is said of them.      *)
LEMMA KeptSplitInv ==
  ASSUME SplitInv, UNCHANGED <<io, question, split, number, answer>>
  PROVE  SplitInv'
BY DEF SplitInv, graphical

(* An answer to something else than a split, or when nothing is given.     *)
LEMMA AnsweredSplitInv ==
  ASSUME SplitInv, Answered, split' = split, split.given = <<>>
  PROVE  SplitInv'
<1>1. question'.kind = "none" /\ number' = 0
  BY DEF Answered, NoQuestion, reset
<1>2. QED
  BY <1>1 DEF SplitInv

(* What a blocker is given is taken from what is left, also when it is the *)
(* last one and the answer is complete.                                    *)
LEMMA GivesSplitInv ==
  ASSUME ListInv, SplitInv, gives, io' = io
  PROVE  SplitInv'
<1>1. question.kind = "split" /\ graphical /\ Len(split.given) < question.size
  BY DEF gives, splitting, waitsFor
<1>2. split \in Splits /\ number \in 0 .. split.left /\ split.left \in Nat
  BY <1>1 DEF SplitInv, Splits
<1>3. PICK n \in CASE ~toSplit         -> {0}
                   [] io = "Allegro"   -> {number, 0}
                   [] OTHER            -> 0 .. split.left :
        /\ split' = given(n)
        /\ IF Len(split.given) + 1 = question.size THEN give(split'.given, 0, <<>>)
           ELSE reset /\ UNCHANGED <<question, answer>>
  BY DEF gives
<1>4. n \in 0 .. split.left
  BY <1>2, <1>3
<1>5. /\ split' \in Splits
      /\ Sum(split'.given) + split'.left <= split'.power
      /\ Len(split'.given) = Len(split.given) + 1
  BY <1>2, <1>3, <1>4, GivenSplit DEF SplitInv
<1>6. number' = 0
  BY <1>3 DEF give, reset
<1>7. graphical'
  BY <1>1 DEF graphical
<1>8. CASE Len(split.given) + 1 = question.size
  <2>1. question'.kind = "none" /\ answer'.cards = split'.given
    BY <1>3, <1>8 DEF give, NoQuestion
  <2>2. QED
    BY <1>5, <1>6, <1>7, <2>1 DEF SplitInv, Splits
<1>9. CASE ~(Len(split.given) + 1 = question.size)
  <2>1. question' = question
    BY <1>3, <1>9
  <2>2. Len(split.given) \in Nat /\ question.size \in Nat
    BY <1>2 DEF Splits, ListInv, Questions
  <2>3. Len(split'.given) <= question'.size
    BY <1>1, <1>5, <2>1, <2>2
  <2>4. number' \in 0 .. split'.left
    BY <1>5, <1>6 DEF Splits
  <2>5. QED
    BY <1>1, <1>5, <1>6, <1>7, <2>1, <2>3, <2>4 DEF SplitInv, Splits
<1>10. QED
  BY <1>8, <1>9

(* Every step keeps SplitInv.                                              *)
LEMMA NextSplitInv ==
  ASSUME ListInv, HandInv, SplitInv, [Next]_vars
  PROVE  SplitInv'
<1>1. CASE draw
  BY <1>1, KeptSplitInv DEF draw, asking
<1>2. CASE ask
  <2>1. question.kind = "none" /\ number = 0
    BY <1>2, AskSteps DEF SplitInv
  <2>2. /\ question' \in Questions /\ question'.kind # "none" /\ question'.size \in Nat
        /\ question'.kind # "keep" => number' = 0
    BY <1>2, <2>1, AskSteps DEF Questions
  <2>3. CASE question'.kind # "split"
    <3>1. split' = NoSplit
      BY <1>2, <2>3, AskSteps
    <3>2. /\ split' \in Splits /\ split'.given = <<>> /\ split'.left = 0 /\ split'.power = 0
      BY <3>1 DEF NoSplit, Splits
    <3>3. QED
      BY <2>2, <2>3, <3>2, SumNothing DEF SplitInv, Splits
  <2>4. CASE question'.kind = "split"
    <3>1. PICK p \in Powers : split' = [power |-> p, left |-> p, given |-> <<>>]
      BY <1>2, <2>4, AskSteps
    <3>2. p \in Nat
      BY LocalAgentAssumption, <3>1
    <3>3. /\ split' \in Splits /\ split'.given = <<>> /\ split'.left = p /\ split'.power = p
      BY <3>1, <3>2 DEF Splits
    <3>4. Len(split'.given) = 0 /\ number' = 0
      BY <2>2, <2>4, <3>3
    <3>5. Sum(split'.given) + split'.left <= split'.power
      BY <3>2, <3>3, SumNothing
    <3>6. number' \in 0 .. split'.left /\ Len(split'.given) <= question'.size
      BY <2>2, <3>2, <3>3, <3>4
    <3>7. QED
      BY <2>4, <3>3, <3>5, <3>6 DEF SplitInv, Splits
  <2>5. QED
    BY <2>3, <2>4
<1>3. CASE blockers \/ nothing \/ botAnswers
  <2>1. split.given = <<>>
    <3>1. CASE question.kind # "split"
      <4>1. question.kind # "none"
        BY <1>3, <3>1 DEF blockers, nothing, botAnswers, waitsFor, NoQuestion, ListInv, Questions
      <4>2. QED
        BY <3>1, <4>1 DEF SplitInv
    <3>2. CASE question.kind = "split" /\ graphical
      <4>1. question.size = 0
        BY <1>3, <3>2 DEF blockers, nothing, botAnswers, waitsFor, graphical, KeyDirection
      <4>2. split.given \in Seq(Nat) /\ Len(split.given) <= 0
        BY <3>2, <4>1 DEF SplitInv
      <4>3. QED
        BY <4>2, EmptySeq
    <3>3. CASE ~graphical
      BY <3>3 DEF SplitInv
    <3>4. QED
      BY <3>1, <3>2, <3>3
  <2>2. QED
    BY <1>3, <2>1, AnswersAre, AnsweredSplitInv
<1>4. CASE menuStep /\ io' = io
  <2>1. CASE moveCursor
    BY <1>4, <2>1, KeptSplitInv DEF moveCursor
  <2>2. CASE change
    BY <1>4, <2>2, KeptSplitInv DEF change
  <2>3. CASE (commitChecklist \/ chosenUnasked) /\ Answered /\ split' = split
    <3>1. question.kind = "checklist"
      BY <2>3 DEF commitChecklist, chosenUnasked, waitsFor
    <3>2. QED
      BY <2>3, <3>1, AnsweredSplitInv DEF SplitInv
  <2>4. CASE gives
    BY <1>4, <2>4, GivesSplitInv
  <2>5. CASE adjust /\ Kept /\ UNCHANGED <<hand, split, answer>>
    <3>1. question.kind = "split"
      BY <2>5 DEF adjust, splitting, waitsFor
    <3>2. PICK d \in {-5, -1, 1, 5} : number' = clamp(number + d)
      BY <2>5 DEF adjust
    <3>3. split \in Splits /\ number \in 0 .. split.left /\ split.left \in Nat
      BY <3>1 DEF SplitInv, Splits
    <3>4. number + d \in Int
      BY <3>2, <3>3
    <3>5. number' \in 0 .. split.left
      BY <3>2, <3>3, <3>4, ClampBounds
    <3>6. QED
      BY <2>5, <3>1, <3>5 DEF SplitInv, Kept, graphical
  <2>6. CASE switchChoice /\ Kept /\ UNCHANGED <<hand, split, answer>>
    <3>1. question.kind = "keep"
      BY <2>6 DEF switchChoice, waitsFor
    <3>2. QED
      BY <2>6, <3>1 DEF SplitInv, Kept, graphical
  <2>7. CASE Kept /\ UNCHANGED <<hand, split, number, answer>>
    BY <2>7, KeptSplitInv DEF Kept
  <2>8. CASE /\ Answered /\ UNCHANGED <<hand, split>>
             /\ question.kind \in {"attackers", "keep", "text", "deck"}
    BY <2>8, AnsweredSplitInv DEF SplitInv
  <2>9. QED
    BY <1>4, <2>1, <2>2, <2>3, <2>4, <2>5, <2>6, <2>7, <2>8, MenuSteps
<1>5. CASE windowStep /\ io' = io
  BY <1>5, WindowSteps, KeptSplitInv, AnsweredSplitInv DEF SplitInv, Kept
<1>6. CASE ((\E l \in Lines : command(l)) \/ emptyLine) /\ io' = io
  BY <1>6, TerminalSteps, KeptSplitInv, AnsweredSplitInv DEF SplitInv, Kept
<1>7. CASE UNCHANGED vars
  BY <1>7, KeptSplitInv DEF vars, menuVars, asking
<1>8. QED
  BY <1>1, <1>2, <1>3, <1>4, <1>5, <1>6, <1>7 DEF Next

-----------------------------------------------------------------------------
(* The path.                                                               *)

(* A window is one of a kind, or has a number.                             *)
LEMMA WindowProperties ==
  /\ \A s \in Singles : <<s>> \in Window
  /\ \A s \in Numbered, n \in Nat : <<s, n>> \in Window
  /\ \A w \in Window : /\ w[1] \in Singles \cup Numbered
                       /\ w[1] \in Numbered => w[2] \in Nat
<1>1. /\ \A s \in Singles : <<s>> \in Window
      /\ \A s \in Numbered, n \in Nat : <<s, n>> \in Window
  BY DEF Window
<1>2. ASSUME NEW w \in Window
      PROVE  /\ w[1] \in Singles \cup Numbered
             /\ w[1] \in Numbered => w[2] \in Nat
  <2>1. CASE w \in {<<s>> : s \in Singles}
    BY <2>1 DEF Singles, Numbered
  <2>2. CASE w \in {<<s, n>> : s \in Numbered, n \in Nat}
    BY <2>2
  <2>3. QED
    BY <2>1, <2>2 DEF Window
<1>3. QED
  BY <1>1, <1>2

(* The parts of a window are windows.                                      *)
LEMMA PartsType ==
  ASSUME sprites \in Seq(Nat), NEW w \in Window
  PROVE  parts(w) \in Seq(Window)
<1>1. objects(w) \in Seq(Window)
  <2>1. CASE w[1] = "screen"
    BY <2>1, WindowProperties DEF objects, Singles
  <2>2. CASE w[1] = "leftBar"
    BY <2>2, WindowProperties DEF objects, Singles
  <2>3. CASE w[1] = "side"
    <3>1. <<"header", w[2]>> \in Window /\ <<"boardside", w[2]>> \in Window
      BY <2>3, WindowProperties DEF Numbered
    <3>2. QED
      BY <2>3, <3>1 DEF objects
  <2>4. CASE w[1] = "rightBar"
    BY <2>4, WindowProperties DEF objects, Singles
  <2>5. CASE w[1] \notin {"screen", "leftBar", "side", "rightBar"}
    BY <2>5 DEF objects
  <2>6. QED
    BY <2>1, <2>2, <2>3, <2>4, <2>5
<1>2. contained(w) \in Seq(Window)
  <2>1. CASE w[1] = "board"
    <3>1. <<"side", 1>> \in Window /\ <<"side", 2>> \in Window
      BY WindowProperties DEF Numbered
    <3>2. QED
      BY <2>1, <3>1 DEF contained
  <2>2. CASE w[1] = "boardside"
    <3>1. w[2] \in Nat
      BY <2>2, WindowProperties DEF Numbered
    <3>2. ASSUME NEW n \in 1 .. 5 PROVE <<Rows[n], w[2]>> \in Window
      <4>1. Rows[n] \in Numbered
        BY DEF Rows, Numbered
      <4>2. QED
        BY <3>1, <4>1, WindowProperties
    <3>3. contained(w) = [n \in 1 .. 5 |-> <<Rows[n], w[2]>>]
      BY <2>2 DEF contained
    <3>4. QED
      BY <3>2, <3>3
  <2>3. CASE w[1] = "optionZone"
    <3>1. ASSUME NEW n \in DOMAIN sprites PROVE <<"card", sprites[n]>> \in Window
      <4>1. sprites[n] \in Nat
        OBVIOUS
      <4>2. QED
        BY <4>1, WindowProperties DEF Numbered
    <3>2. contained(w) = [n \in 1 .. Len(sprites) |-> <<"card", sprites[n]>>]
      BY <2>3 DEF contained
    <3>3. QED
      BY <3>1, <3>2
  <2>4. CASE w[1] \notin {"board", "boardside", "optionZone"}
    BY <2>4 DEF contained
  <2>5. QED
    BY <2>1, <2>2, <2>3, <2>4
<1>3. QED
  BY <1>1, <1>2 DEF parts

(* A path goes on to a part of its last window ...                         *)
LEMMA LongerPath ==
  ASSUME sprites \in Seq(Nat), NEW q, IsPath(q), q # <<>>,
         NEW x \in Range(parts(q[Len(q)]))
  PROVE  IsPath(Append(q, x))
<1>1. q \in Seq(Window) /\ Len(q) \in Nat \ {0} /\ q[Len(q)] \in Window
  BY DEF IsPath
<1>2. PICK w \in Window : w = q[Len(q)]
  BY <1>1
<1>3. parts(w) \in Seq(Window)
  BY PartsType
<1>4. x \in Window
  BY <1>2, <1>3 DEF Range
<1>5. PICK r : r = Append(q, x)
  OBVIOUS
<1>6. /\ r \in Seq(Window) /\ Len(r) = Len(q) + 1 /\ r[Len(q) + 1] = x
      /\ \A i \in 1 .. Len(q) : r[i] = q[i]
  BY <1>1, <1>4, <1>5
<1>7. r[1] = <<"screen">>
  BY <1>1, <1>6 DEF IsPath
<1>8. ASSUME NEW n \in 2 .. Len(r) PROVE r[n] \in Range(parts(r[n - 1]))
  <2>1. n - 1 \in 1 .. Len(q) /\ r[n - 1] = q[n - 1]
    <3>1. PICK k \in Nat : k = Len(q)
      BY <1>1
    <3>2. n \in 2 .. k + 1
      BY <1>6, <3>1
    <3>3. n - 1 \in 1 .. k
      BY <3>2
    <3>4. QED
      BY <1>6, <3>1, <3>3
  <2>2. CASE n = Len(q) + 1
    <3>1. r[n] = x /\ n - 1 = Len(q)
      BY <1>1, <1>6, <2>2
    <3>2. QED
      BY <2>1, <3>1
  <2>3. CASE n # Len(q) + 1
    <3>1. n \in 2 .. Len(q) /\ r[n] = q[n]
      BY <1>1, <1>6, <2>3
    <3>2. QED
      BY <2>1, <3>1 DEF IsPath
  <2>4. QED
    BY <2>2, <2>3
<1>9. QED
  BY <1>5, <1>6, <1>7, <1>8 DEF IsPath

(* ... and back to the window that is part of.                             *)
LEMMA ShorterPath ==
  ASSUME NEW q, IsPath(q), q # <<>>, Len(q) # 1
  PROVE  IsPath(Front(q)) /\ Front(q) # <<>>
<1>1. q \in Seq(Window) /\ Len(q) \in Nat /\ Len(q) > 1
  <2>1. q \in Seq(Window)
    BY DEF IsPath
  <2>2. Len(q) \in Nat /\ Len(q) # 0
    BY <2>1, EmptySeq
  <2>3. PICK k \in Nat : k = Len(q)
    BY <2>2
  <2>4. k > 1
    BY <2>2, <2>3
  <2>5. QED
    BY <2>1, <2>3, <2>4
<1>2. PICK r : r = Front(q)
  OBVIOUS
<1>3. /\ r \in Seq(Window) /\ Len(r) = Len(q) - 1 /\ r # <<>>
      /\ \A i \in 1 .. Len(q) - 1 : r[i] = q[i]
  <2>1. PICK m \in Nat : m = Len(q) - 1 /\ m > 0 /\ m < Len(q)
    <3>1. PICK k \in Nat : k = Len(q) /\ k > 1
      BY <1>1
    <3>2. k - 1 \in Nat /\ k - 1 > 0 /\ k - 1 < k
      BY <3>1
    <3>3. QED
      BY <3>1, <3>2
  <2>2. r = SubSeq(q, 1, m)
    BY <1>2, <2>1 DEF Front
  <2>3. r = [i \in 1 .. m |-> q[i]] /\ \A i \in 1 .. m : q[i] \in Window
    BY <1>1, <2>1, <2>2
  <2>4. r \in Seq(Window) /\ Len(r) = m
    BY <2>1, <2>3
  <2>5. r # <<>>
    <3>1. Len(<<>>) = 0 /\ Len(r) # 0
      BY <2>1, <2>4
    <3>2. QED
      BY <3>1
  <2>6. QED
    BY <2>1, <2>3, <2>4, <2>5
<1>4. r[1] = <<"screen">>
  BY <1>1, <1>3 DEF IsPath
<1>5. ASSUME NEW n \in 2 .. Len(r) PROVE r[n] \in Range(parts(r[n - 1]))
  <2>1. r[n - 1] = q[n - 1] /\ r[n] = q[n] /\ n \in 2 .. Len(q)
    BY <1>1, <1>3
  <2>2. QED
    BY <2>1 DEF IsPath
<1>6. QED
  BY <1>2, <1>3, <1>4, <1>5 DEF IsPath

(* What a path is depends on the sprites.                                  *)
LEMMA SamePath ==
  ASSUME sprites' = sprites, IsPath(path')
  PROVE  IsPath(path)'
BY DEF IsPath, parts, contained

(* No path is a path, whatever is asked.                                   *)
LEMMA EmptyPath ==
  ASSUME sprites' \in Seq(Nat), path' = <<>>
  PROVE  PathInv'
BY DEF PathInv, IsPath

(* Where path and kind of question stay, so does what is said of them.     *)
LEMMA KeptPathInv ==
  ASSUME PathInv, UNCHANGED <<sprites, path>>, question'.kind = question.kind
  PROVE  PathInv'
<1>1. IsPath(path)'
  BY SamePath DEF PathInv
<1>2. QED
  BY <1>1 DEF PathInv

(* A step of the windows goes to a part, to the next part of the window    *)
(* above, back, or ends the walk.                                          *)
LEMMA WindowPathInv ==
  ASSUME ListInv, PathInv, windowStep, io' = io
  PROVE  PathInv'
<1>1. /\ question.kind = "target" /\ sprites' = sprites
      /\ question' = question \/ path' = <<>>
  BY WindowSteps DEF Kept
<1>2. sprites \in Seq(Nat) /\ IsPath(path)
  BY DEF PathInv
<1>3. path # <<>>
  BY DEF windowStep, enterGallery, pressKey, leaveElement, iterating
<1>4. PICK q : q = path
  OBVIOUS
<1>5. q \in Seq(Window) /\ q[Len(q)] \in Window /\ Len(q) \in Nat
  BY <1>2, <1>3, <1>4 DEF IsPath
<1>6. path' = <<>> \/ IsPath(path')
  <2>1. CASE enterGallery
    <3>1. PICK ps : ps = parts(q[Len(q)])
      OBVIOUS
    <3>2. ps \in Seq(Window)
      BY <1>2, <1>5, <3>1, PartsType
    <3>3. here = q[Len(q)]
      BY <1>4 DEF here, Last
    <3>4. \/ path' = path
          \/ ps # <<>> /\ path' \in {Append(path, Head(ps)), Append(path, Last(ps))}
      BY <2>1, <3>1, <3>3 DEF enterGallery
    <3>5. CASE path' = path
      BY <1>2, <3>5
    <3>6. CASE ps # <<>> /\ path' \in {Append(path, Head(ps)), Append(path, Last(ps))}
      <4>1. Head(ps) \in Range(ps) /\ Last(ps) \in Range(ps)
        BY <3>2, <3>6 DEF Range, Last
      <4>2. PICK x \in Range(ps) : path' = Append(q, x)
        BY <1>4, <3>6, <4>1
      <4>3. QED
        BY <1>2, <1>3, <1>4, <3>1, <4>2, LongerPath
    <3>7. QED
      BY <3>4, <3>5, <3>6
  <2>2. CASE pressKey
    <3>1. path' = path \/ path' = <<>>
      BY <2>2 DEF pressKey
    <3>2. QED
      BY <1>2, <3>1
  <2>3. CASE leaveElement
    <3>1. CASE Len(path) = 1
      BY <2>3, <3>1 DEF leaveElement
    <3>2. CASE Len(path) # 1
      <4>1. PICK above : above = Front(path)
        OBVIOUS
      <4>2. IsPath(above) /\ above # <<>>
        BY <1>2, <1>3, <1>4, <3>2, <4>1, ShorterPath
      <4>3. PICK ps : ps = parts(above[Len(above)])
        OBVIOUS
      <4>4. \/ path' = above
            \/ \E to \in DOMAIN ps : path' = Append(above, ps[to])
        BY <2>3, <3>2, <4>1, <4>3 DEF leaveElement, Last
      <4>5. CASE path' = above
        BY <4>2, <4>5
      <4>6. CASE \E to \in DOMAIN ps : path' = Append(above, ps[to])
        <5>1. PICK x \in Range(ps) : path' = Append(above, x)
          BY <4>6 DEF Range
        <5>2. QED
          BY <1>2, <4>2, <4>3, <5>1, LongerPath
      <4>7. QED
        BY <4>4, <4>5, <4>6
    <3>3. QED
      BY <3>1, <3>2
  <2>4. QED
    BY <2>1, <2>2, <2>3 DEF windowStep
<1>7. CASE path' = <<>>
  BY <1>1, <1>2, <1>7, EmptyPath
<1>8. CASE IsPath(path') /\ question' = question
  <2>1. IsPath(path)'
    BY <1>1, <1>8, SamePath
  <2>2. QED
    BY <1>1, <1>2, <1>8, <2>1 DEF PathInv
<1>9. QED
  BY <1>1, <1>6, <1>7, <1>8

(* Every step keeps PathInv: the path is given up with the question.       *)
LEMMA NextPathInv ==
  ASSUME ListInv, HandInv, PathInv, [Next]_vars
  PROVE  PathInv'
<1>0. sprites \in Seq(Nat) /\ (path # <<>> => question.kind = "target")
  BY DEF PathInv
<1>1. CASE draw
  <2>1. path = <<>> /\ path' = path
    BY <1>0, <1>1 DEF draw, idle, waitsFor, moving
  <2>2. PICK n \in 1 .. Cards : addCards([i \in 1 .. n |-> i])
    BY <1>1 DEF draw
  <2>3. PICK cards : cards = [i \in 1 .. n |-> i]
    OBVIOUS
  <2>4. cards \in Seq(Nat)
    <3>1. n \in Nat /\ \A i \in 1 .. n : i \in Nat
      BY LocalAgentAssumption
    <3>2. QED
      BY <2>3, <3>1
  <2>5. sprites' = sprites \/ sprites' = sprites \o cards
    BY <2>2, <2>3 DEF addCards
  <2>6. sprites' \in Seq(Nat)
    <3>1. sprites \o cards \in Seq(Nat)
      BY <1>0, <2>4
    <3>2. QED
      BY <1>0, <2>5, <3>1
  <2>7. QED
    BY <2>1, <2>6, EmptyPath
<1>2. CASE ask
  <2>1. path = <<>> /\ sprites' = sprites
    BY <1>0, <1>2, AskSteps
  <2>2. CASE path' = path
    BY <1>0, <2>1, <2>2, EmptyPath
  <2>3. CASE question'.kind = "target" /\ path' = << <<"screen">> >>
    <3>1. <<"screen">> \in Window
      BY WindowProperties DEF Singles
    <3>2. IsPath(path')
      BY <2>3, <3>1 DEF IsPath
    <3>3. IsPath(path)'
      BY <2>1, <3>2, SamePath
    <3>4. QED
      BY <1>0, <2>1, <2>3, <3>3 DEF PathInv
  <2>4. QED
    BY <1>2, <2>2, <2>3, AskSteps
<1>3. CASE blockers \/ nothing \/ botAnswers
  BY <1>0, <1>3, AnswersAre, EmptyPath
<1>4. CASE menuStep /\ UNCHANGED <<io, windowVars>>
  <2>1. UNCHANGED <<io, sprites, path>>
    BY <1>4 DEF windowVars
  <2>2. question' = question \/ question.kind # "target"
    <3>1. CASE moveCursor \/ change
      BY <3>1 DEF moveCursor, change
    <3>2. CASE commitChecklist \/ chosenUnasked \/ gives
      BY <3>2 DEF commitChecklist, chosenUnasked, gives, splitting, waitsFor
    <3>3. CASE Kept
      BY <3>3 DEF Kept
    <3>4. CASE question.kind \in {"attackers", "keep", "text", "deck"}
      BY <3>4
    <3>5. QED
      BY <1>4, <2>1, <3>1, <3>2, <3>3, <3>4, MenuSteps
  <2>3. CASE question' = question
    BY <2>1, <2>3, KeptPathInv
  <2>4. CASE question.kind # "target"
    BY <1>0, <2>1, <2>4, EmptyPath
  <2>5. QED
    BY <2>2, <2>3, <2>4
<1>5. CASE windowStep /\ io' = io
  BY <1>5, WindowPathInv
<1>6. CASE ((\E l \in Lines : command(l)) \/ emptyLine) /\ UNCHANGED <<io, windowVars>>
  <2>1. question.kind = "option"
    BY <1>6, TerminalSteps
  <2>2. path = <<>> /\ UNCHANGED <<sprites, path>>
    BY <1>0, <1>6, <2>1 DEF windowVars
  <2>3. QED
    BY <1>0, <2>2, EmptyPath
<1>7. CASE UNCHANGED vars
  BY <1>7, KeptPathInv DEF vars, menuVars, windowVars
<1>8. QED
  BY <1>1, <1>2, <1>3, <1>4, <1>5, <1>6, <1>7 DEF Next

-----------------------------------------------------------------------------
(* The contexts.                                                           *)

(* A context that has the players its name says.                           *)
Named(c) == c \in ContextSet /\ c.players = playersOf(c.who)

(* A command line leaves both contexts with the players of their names.    *)
LEMMA CommandContexts ==
  ASSUME ContextInv, NEW l \in Lines, command(l)
  PROVE  ContextInv'
<1>1. PICK c : c = IF l.cmd = "?" THEN temp ELSE readContext(l, temp)
  OBVIOUS
<1>2. Named(context) /\ Named(temp)
  BY DEF ContextInv, Named
<1>3. PICK t : t = temp
  OBVIOUS
<1>4. Named(readContext(l, t))
  BY <1>2, <1>3, ContextKept DEF Named
<1>5. Named(c)
  BY <1>1, <1>2, <1>3, <1>4
<1>6. context' \in {c, context} /\ temp' \in {c, context'}
  BY <1>1 DEF command
<1>7. PICK k, t2 : k = context' /\ t2 = temp'
  OBVIOUS
<1>8. Named(k) /\ Named(t2)
  BY <1>2, <1>5, <1>6, <1>7
<1>9. Named(context') /\ Named(temp')
  BY <1>7, <1>8
<1>10. QED
  BY <1>9 DEF ContextInv, Named

(* Every step keeps ContextInv.                                            *)
LEMMA NextContextInv ==
  ASSUME ListInv, HandInv, ContextInv, [Next]_vars
  PROVE  ContextInv'
<1>1. CASE \E l \in Lines : command(l)
  BY <1>1, CommandContexts
<1>2. CASE ~\E l \in Lines : command(l)
  <2>1. UNCHANGED <<context, temp>>
    <3>1. CASE ask
      BY <3>1, AskSteps
    <3>2. CASE blockers \/ nothing \/ botAnswers
      BY <3>2, AnswersAre
    <3>3. CASE draw \/ emptyLine \/ UNCHANGED vars \/ UNCHANGED terminalVars
      BY <3>3 DEF draw, emptyLine, vars, terminalVars
    <3>4. QED
      BY <1>2, <3>1, <3>2, <3>3 DEF Next
  <2>2. QED
    BY <2>1 DEF ContextInv
<1>3. QED
  BY <1>1, <1>2

-----------------------------------------------------------------------------
(* The answer.                                                             *)

(* Every step keeps AnswerInv: to ask forgets the last answer.             *)
LEMMA NextAnswerInv ==
  ASSUME ListInv, HandInv, AnswerInv, [Next]_vars
  PROVE  AnswerInv'
<1>1. CASE draw
  BY <1>1 DEF AnswerInv, draw
<1>2. CASE ask
  <2>1. answer' = NoAnswer
    BY <1>2 DEF ask, askText, keepsHand, chooseCardsToKeep, chooseAttackers, chooseBlockers,
                splitDamage, chooseTarget, chooseOpt, asks
  <2>2. QED
    BY <2>1 DEF AnswerInv, NoAnswer
<1>3. CASE Answered
  BY <1>3 DEF AnswerInv, Answered, NoQuestion
<1>4. CASE UNCHANGED <<question, answer>>
  BY <1>4 DEF AnswerInv
<1>5. CASE blockers \/ nothing \/ botAnswers
  BY <1>3, <1>5, AnswersAre
<1>6. CASE menuStep /\ io' = io
  <2>1. CASE moveCursor \/ change \/ adjust \/ switchChoice
    BY <1>4, <2>1 DEF moveCursor, change, adjust, switchChoice
  <2>2. CASE gives /\ Kept
    <3>1. UNCHANGED <<question, answer>> \/ question'.kind = "none"
      BY <2>2 DEF gives, give, NoQuestion
    <3>2. QED
      BY <1>4, <3>1 DEF AnswerInv
  <2>3. CASE Kept /\ UNCHANGED <<hand, split, number, answer>>
    BY <1>4, <2>3 DEF Kept
  <2>4. QED
    BY <1>3, <1>6, <2>1, <2>2, <2>3, MenuSteps
<1>7. CASE windowStep /\ io' = io
  BY <1>3, <1>4, <1>7, WindowSteps DEF Kept
<1>8. CASE ((\E l \in Lines : command(l)) \/ emptyLine) /\ io' = io
  BY <1>3, <1>4, <1>8, TerminalSteps DEF Kept
<1>9. CASE UNCHANGED vars
  BY <1>4, <1>9 DEF vars, menuVars
<1>10. QED
  BY <1>1, <1>2, <1>5, <1>6, <1>7, <1>8, <1>9 DEF Next

-----------------------------------------------------------------------------
(* The items checklist returns.                                            *)

RoundStart == [from |-> -1, taken |-> {}]

(* What the loop of checklist makes of s at item k.                        *)
Round(size, marked, s, k) ==
  IF k >= size - Cardinality(s.taken) \/ ~boundary(marked, k) THEN s
  ELSE IF s.from = -1 THEN [s EXCEPT !.from = k]
  ELSE [from |-> -1, taken |-> s.taken \cup s.from .. k - 1]

(* f has what the loop has found before each of the first n items.         *)
Rounds(f, size, marked, n) ==
  /\ f[0] = RoundStart
  /\ \A k \in 0 .. n - 1 : f[k + 1] = Round(size, marked, f[k], k)

(* returned makes its last round of the items that are left.               *)
LastRound(size, s) ==
  IF s.from = -1 THEN s.taken
  ELSE s.taken \cup s.from .. size - Cardinality(s.taken) - 1

(* There is a function of what the loop has found, ...                     *)
LEMMA RoundsExist ==
  ASSUME NEW size, NEW marked, NEW n \in Nat
  PROVE  \E f : DOMAIN f = 0 .. n /\ f = [i \in 0 .. n |-> f[i]] /\ Rounds(f, size, marked, n)
<1> DEFINE A == {m \in Nat : \E f : /\ DOMAIN f = 0 .. m /\ f = [i \in 0 .. m |-> f[i]]
                                    /\ Rounds(f, size, marked, m)}
<1>1. 0 \in A
  <2> DEFINE f == [i \in 0 .. 0 |-> RoundStart]
  <2>1. DOMAIN f = 0 .. 0 /\ f = [i \in 0 .. 0 |-> f[i]] /\ Rounds(f, size, marked, 0)
    BY DEF Rounds
  <2> HIDE DEF f
  <2>2. QED
    BY <2>1
<1>2. ASSUME NEW m \in Nat, m \in A PROVE m + 1 \in A
  <2>1. PICK f : DOMAIN f = 0 .. m /\ Rounds(f, size, marked, m)
    BY <1>2
  <2> DEFINE g == [i \in 0 .. m + 1 |-> IF i = m + 1 THEN Round(size, marked, f[m], m) ELSE f[i]]
  <2>2. DOMAIN g = 0 .. m + 1 /\ g = [i \in 0 .. m + 1 |-> g[i]] /\ g[0] = RoundStart
    BY <2>1 DEF Rounds
  <2>3. ASSUME NEW k \in 0 .. m PROVE g[k + 1] = Round(size, marked, g[k], k)
    <3>1. g[k] = f[k]
      OBVIOUS
    <3>2. CASE k = m
      <4>1. g[k + 1] = Round(size, marked, f[m], m)
        BY <3>2
      <4>2. QED
        BY <3>1, <3>2, <4>1
    <3>3. CASE k # m
      <4>1. k \in 0 .. m - 1 /\ g[k + 1] = f[k + 1]
        BY <3>3
      <4>2. QED
        BY <2>1, <3>1, <4>1 DEF Rounds
    <3>4. QED
      BY <3>2, <3>3
  <2> HIDE DEF g
  <2>4. Rounds(g, size, marked, m + 1)
    <3>1. 0 .. (m + 1) - 1 = 0 .. m
      OBVIOUS
    <3>2. QED
      BY <2>2, <2>3, <3>1 DEF Rounds
  <2>5. QED
    BY <2>2, <2>4
<1>3. Nat \subseteq A
  <2> HIDE DEF A
  <2>1. QED
    BY <1>1, <1>2, SetInduction
<1>4. QED
  BY <1>3

(* ... and returned is computed from one.                                  *)
LEMMA ReturnedRounds ==
  ASSUME NEW size \in Nat, NEW marked
  PROVE  \E f : Rounds(f, size, marked, size) /\ returned(size, marked) = LastRound(size, f[size])
<1> DEFINE Is(f) == f = [i \in 0 .. size |->
                           IF i = 0 THEN [from |-> -1, taken |-> {}]
                           ELSE LET s == f[i - 1]
                                IN  IF i - 1 >= size - Cardinality(s.taken) \/ ~boundary(marked, i - 1) THEN s
                                    ELSE IF s.from = -1 THEN [s EXCEPT !.from = i - 1]
                                    ELSE [from |-> -1, taken |-> s.taken \cup s.from .. i - 2]]
           F == CHOOSE f : Is(f)
<1>1. returned(size, marked) = LastRound(size, F[size])
  BY DEF returned, LastRound
<1>2. \E f : Is(f)
  <2>1. PICK f : /\ DOMAIN f = 0 .. size /\ f = [i \in 0 .. size |-> f[i]]
                 /\ Rounds(f, size, marked, size)
    BY RoundsExist
  <2>2. ASSUME NEW i \in 0 .. size, i # 0
        PROVE  f[i] = LET s == f[i - 1]
                      IN  IF i - 1 >= size - Cardinality(s.taken) \/ ~boundary(marked, i - 1) THEN s
                          ELSE IF s.from = -1 THEN [s EXCEPT !.from = i - 1]
                          ELSE [from |-> -1, taken |-> s.taken \cup s.from .. i - 2]
    <3>1. PICK k \in 0 .. size - 1 : k = i - 1 /\ i = k + 1 /\ i - 2 = k - 1
      BY <2>2
    <3>2. f[i] = Round(size, marked, f[k], k)
      BY <2>1, <3>1 DEF Rounds
    <3>3. QED
      BY <3>1, <3>2 DEF Round
  <2>3. f[0] = [from |-> -1, taken |-> {}]
    BY <2>1 DEF Rounds, RoundStart
  <2>4. Is(f)
    BY <2>1, <2>2, <2>3
  <2>5. QED
    BY <2>4
<1>3. Is(F)
  BY <1>2, Zenon
<1> HIDE DEF F
<1>4. F[0] = RoundStart
  BY <1>3 DEF RoundStart
<1>5. ASSUME NEW k \in 0 .. size - 1 PROVE F[k + 1] = Round(size, marked, F[k], k)
  <2>1. PICK i \in 0 .. size : i = k + 1 /\ i # 0 /\ i - 1 = k /\ i - 2 = k - 1
    OBVIOUS
  <2>2. F[i] = LET s == F[i - 1]
               IN  IF i - 1 >= size - Cardinality(s.taken) \/ ~boundary(marked, i - 1) THEN s
                   ELSE IF s.from = -1 THEN [s EXCEPT !.from = i - 1]
                   ELSE [from |-> -1, taken |-> s.taken \cup s.from .. i - 2]
    BY <1>3, <2>1
  <2>3. QED
    BY <2>1, <2>2 DEF Round
<1>6. Rounds(F, size, marked, size)
  BY <1>4, <1>5 DEF Rounds
<1>7. QED
  BY <1>1, <1>6

(* Before item k the loop has taken marked items only; where it has begun  *)
(* a run, all its items are marked so far, and where not, the last item is *)
(* not marked.  It goes on up to item Limit.                               *)
Limit(size, s) == size - Cardinality(s.taken)

RoundInv(size, marked, s, k) ==
  /\ DOMAIN s = {"from", "taken"} /\ s = [from |-> s.from, taken |-> s.taken]
  /\ s.taken \subseteq marked \cap 0 .. size - 1
  /\ s.from = -1 => (k - 1 < Limit(size, s) => k - 1 \notin marked)
  /\ s.from # -1 => /\ s.from \in Nat /\ s.from < k /\ s.from < Limit(size, s)
                    /\ \A j \in Nat : s.from <= j /\ j < k /\ j < Limit(size, s) => j \in marked

(* The loop goes no further than the list is long.                         *)
LEMMA LimitType ==
  ASSUME NEW size \in Nat, NEW s, s.taken \subseteq 0 .. size - 1
  PROVE  Limit(size, s) \in Int /\ Limit(size, s) <= size
<1>1. IsFiniteSet(0 .. size - 1) /\ s.taken \in SUBSET (0 .. size - 1)
  BY FS_Interval
<1>2. IsFiniteSet(s.taken)
  BY <1>1, FS_Subset
<1>3. Cardinality(s.taken) \in Nat
  BY <1>2, FS_CardinalityType
<1>4. QED
  BY <1>3 DEF Limit

(* A boundary is between a marked item and one that is not.                *)
LEMMA BoundaryIs ==
  ASSUME NEW marked, NEW k
  PROVE  boundary(marked, k) <=> ~((k - 1 \in marked) <=> (k \in marked))
BY DEF boundary

(* A round of the loop keeps RoundInv.                                     *)
LEMMA RoundKeeps ==
  ASSUME NEW size \in Nat, NEW marked \in SUBSET (0 .. size), NEW k \in 0 .. size - 1,
         NEW s, RoundInv(size, marked, s, k)
  PROVE  RoundInv(size, marked, Round(size, marked, s, k), k + 1)
<1>1. PICK t : t = Round(size, marked, s, k)
  OBVIOUS
<1>2. PICK lim \in Int : lim = Limit(size, s) /\ lim <= size
  BY LimitType DEF RoundInv
<1>3. /\ s.taken \subseteq marked \cap 0 .. size - 1
      /\ s.from = -1 => (k - 1 < lim => k - 1 \notin marked)
      /\ s.from # -1 => /\ s.from \in Nat /\ s.from < k /\ s.from < lim
                        /\ \A j \in Nat : s.from <= j /\ j < k /\ j < lim => j \in marked
  BY <1>2 DEF RoundInv
<1>4. t = IF k >= lim \/ ~boundary(marked, k) THEN s
          ELSE IF s.from = -1 THEN [s EXCEPT !.from = k]
          ELSE [from |-> -1, taken |-> s.taken \cup s.from .. k - 1]
  BY <1>1, <1>2 DEF Round, Limit
<1>5. CASE k >= lim
  <2>1. t = s
    BY <1>4, <1>5
  <2>2. s.from = -1 => ((k + 1) - 1 < lim => (k + 1) - 1 \notin marked)
    BY <1>2, <1>5
  <2>3. s.from # -1 => /\ s.from < k + 1
                       /\ \A j \in Nat : s.from <= j /\ j < k + 1 /\ j < lim => j \in marked
    BY <1>2, <1>3, <1>5
  <2>4. QED
    BY <1>1, <1>2, <1>3, <2>1, <2>2, <2>3 DEF RoundInv
<1>6. CASE k < lim /\ ~boundary(marked, k)
  <2>1. t = s
    BY <1>4, <1>6
  <2>2. (k - 1 \in marked) <=> (k \in marked)
    BY <1>6, BoundaryIs
  <2>3. s.from = -1 => ((k + 1) - 1 < lim => (k + 1) - 1 \notin marked)
    BY <1>2, <1>3, <1>6, <2>2
  <2>4. s.from # -1 => /\ s.from < k + 1
                       /\ \A j \in Nat : s.from <= j /\ j < k + 1 /\ j < lim => j \in marked
    <3> SUFFICES ASSUME s.from # -1, NEW j \in Nat, s.from <= j, j < k + 1, j < lim
                 PROVE  s.from < k + 1 /\ j \in marked
      BY <1>3
    <3>1. s.from \in Nat /\ s.from < k
      BY <1>3
    <3>2. k - 1 \in Nat /\ s.from <= k - 1 /\ k - 1 < k /\ k - 1 < lim
      BY <1>2, <1>6, <3>1
    <3>3. k \in marked
      BY <1>3, <2>2, <3>2
    <3>4. j = k \/ j < k
      OBVIOUS
    <3>5. QED
      BY <1>3, <3>1, <3>3, <3>4
  <2>5. QED
    BY <1>1, <1>2, <1>3, <2>1, <2>3, <2>4 DEF RoundInv
<1>7. CASE k < lim /\ boundary(marked, k) /\ s.from = -1
  <2>1. t = [from |-> k, taken |-> s.taken]
    BY <1>4, <1>7 DEF RoundInv
  <2>2. t.from = k /\ t.taken = s.taken
    BY <2>1
  <2>3. k \in marked
    <3>1. k - 1 < lim
      BY <1>2, <1>7
    <3>2. k - 1 \notin marked
      BY <1>3, <1>7, <3>1
    <3>3. QED
      BY <1>7, <3>2, BoundaryIs
  <2>4. Limit(size, t) = lim
    BY <1>2, <2>2 DEF Limit
  <2>5. \A j \in Nat : k <= j /\ j < k + 1 /\ j < lim => j \in marked
    BY <2>3
  <2>6. k # -1 /\ k \in Nat /\ k < k + 1 /\ k < lim
    BY <1>7
  <2>7. QED
    BY <1>1, <1>3, <2>1, <2>2, <2>4, <2>5, <2>6 DEF RoundInv
<1>8. CASE k < lim /\ boundary(marked, k) /\ s.from # -1
  <2>1. t = [from |-> -1, taken |-> s.taken \cup s.from .. k - 1]
    BY <1>4, <1>8
  <2>2. t.from = -1 /\ t.taken = s.taken \cup s.from .. k - 1
    BY <2>1
  <2>3. s.from \in Nat /\ s.from < k
    BY <1>3, <1>8
  <2>4. ASSUME NEW j \in s.from .. k - 1 PROVE j \in marked \cap 0 .. size - 1
    <3>1. j \in Nat /\ s.from <= j /\ j < k /\ j < lim /\ j \in 0 .. size - 1
      BY <1>2, <1>8, <2>3
    <3>2. QED
      BY <1>3, <1>8, <3>1
  <2>5. t.taken \subseteq marked \cap 0 .. size - 1
    BY <1>3, <2>2, <2>4
  <2>6. k - 1 \in s.from .. k - 1
    BY <2>3
  <2>7. k - 1 \in marked
    BY <2>4, <2>6
  <2>8. k \notin marked
    BY <1>8, <2>7, BoundaryIs
  <2>9. (k + 1) - 1 \notin marked
    BY <2>8
  <2>10. QED
    BY <1>1, <2>1, <2>2, <2>5, <2>9 DEF RoundInv
<1>9. QED
  BY <1>2, <1>5, <1>6, <1>7, <1>8

(* What checklist returns was marked.                                      *)
LEMMA ReturnedMarked ==
  ASSUME NEW size \in Nat, NEW marked \in SUBSET (0 .. size)
  PROVE  returned(size, marked) \subseteq marked \cap 0 .. size - 1
<1>1. PICK f : Rounds(f, size, marked, size) /\ returned(size, marked) = LastRound(size, f[size])
  BY ReturnedRounds
<1> DEFINE A == {k \in Nat : k <= size => RoundInv(size, marked, f[k], k)}
<1>2. 0 \in A
  <2>1. -1 \notin marked
    OBVIOUS
  <2>2. f[0] = RoundStart
    BY <1>1 DEF Rounds
  <2>3. RoundInv(size, marked, RoundStart, 0)
    BY <2>1 DEF RoundStart, RoundInv
  <2>4. QED
    BY <2>2, <2>3
<1>3. ASSUME NEW k \in Nat, k \in A PROVE k + 1 \in A
  <2> SUFFICES ASSUME k + 1 <= size PROVE RoundInv(size, marked, f[k + 1], k + 1)
    OBVIOUS
  <2>1. k \in 0 .. size - 1 /\ RoundInv(size, marked, f[k], k)
    BY <1>3
  <2>2. f[k + 1] = Round(size, marked, f[k], k)
    BY <1>1, <2>1 DEF Rounds
  <2>3. QED
    BY <2>1, <2>2, RoundKeeps
<1>4. Nat \subseteq A
  <2> HIDE DEF A
  <2>1. QED
    BY <1>2, <1>3, SetInduction
<1>5. PICK s : s = f[size]
  OBVIOUS
<1>6. RoundInv(size, marked, s, size)
  BY <1>4, <1>5
<1> HIDE DEF A
<1>7. PICK lim \in Int : lim = Limit(size, s) /\ lim <= size
  BY <1>6, LimitType DEF RoundInv
<1>8. CASE s.from = -1
  BY <1>1, <1>5, <1>6, <1>8 DEF LastRound, RoundInv
<1>9. CASE s.from # -1
  <2>1. returned(size, marked) = s.taken \cup s.from .. lim - 1
    BY <1>1, <1>5, <1>7, <1>9 DEF LastRound, Limit
  <2>2. s.from \in Nat
    BY <1>6, <1>9 DEF RoundInv
  <2>3. ASSUME NEW j \in s.from .. lim - 1 PROVE j \in marked \cap 0 .. size - 1
    <3>1. j \in Nat /\ s.from <= j /\ j < size /\ j < lim /\ j \in 0 .. size - 1
      BY <1>7, <2>2
    <3>2. QED
      BY <1>6, <1>7, <1>9, <3>1 DEF RoundInv
  <2>4. QED
    BY <1>6, <2>1, <2>3 DEF RoundInv
<1>10. QED
  BY <1>8, <1>9

(* The loop in one run of marked items, from a to b.                       *)
RunInv(s, k, a, b) ==
  /\ k <= a => s = RoundStart
  /\ a < k /\ k <= b + 1 => s = [from |-> a, taken |-> {}]
  /\ b + 1 < k => s = [from |-> -1, taken |-> a .. b]

(* A round of the loop keeps RunInv.                                       *)
LEMMA RunKeeps ==
  ASSUME NEW size \in Nat, NEW marked \in SUBSET (0 .. size),
         NEW a \in Nat, NEW b \in Nat, a <= b, b < size,
         \A j \in 0 .. size - 1 : j \in marked <=> a <= j /\ j <= b,
         NEW k \in 0 .. size - 1, NEW s, RunInv(s, k, a, b)
  PROVE  RunInv(Round(size, marked, s, k), k + 1, a, b)
<1>1. PICK t : t = Round(size, marked, s, k)
  OBVIOUS
<1>2. Cardinality({}) = 0
  BY FS_EmptySet
<1>3. k - 1 \in marked <=> a <= k - 1 /\ k - 1 <= b
  <2>1. CASE k = 0
    BY <2>1
  <2>2. CASE k # 0
    <3>1. k - 1 \in 0 .. size - 1
      BY <2>2
    <3>2. QED
      BY <3>1
  <2>3. QED
    BY <2>1, <2>2
<1>4. k \in marked <=> a <= k /\ k <= b
  OBVIOUS
<1>5. CASE k < a
  <2>1. s = RoundStart /\ ~boundary(marked, k)
    <3>1. k - 1 \notin marked /\ k \notin marked
      BY <1>3, <1>4, <1>5
    <3>2. QED
      BY <1>5, <3>1, BoundaryIs DEF RunInv
  <2>2. t = RoundStart
    BY <1>1, <2>1 DEF Round
  <2>3. QED
    BY <1>1, <1>5, <2>2 DEF RunInv
<1>6. CASE k = a
  <2>1. s = RoundStart /\ boundary(marked, k)
    <3>1. k - 1 \notin marked /\ k \in marked
      BY <1>3, <1>4, <1>6
    <3>2. QED
      BY <1>6, <3>1, BoundaryIs DEF RunInv
  <2>2. s.from = -1 /\ s.taken = {}
    BY <2>1 DEF RoundStart
  <2>3. ~(k >= size - Cardinality(s.taken))
    BY <1>2, <2>2
  <2>4. t = [RoundStart EXCEPT !.from = a]
    BY <1>1, <1>6, <2>1, <2>2, <2>3 DEF Round
  <2>5. t = [from |-> a, taken |-> {}]
    BY <2>4 DEF RoundStart
  <2>6. QED
    BY <1>1, <1>6, <2>5 DEF RunInv
<1>7. CASE a < k /\ k <= b
  <2>1. s = [from |-> a, taken |-> {}] /\ ~boundary(marked, k)
    <3>1. k - 1 \in marked /\ k \in marked
      BY <1>3, <1>4, <1>7
    <3>2. k <= b + 1
      BY <1>7
    <3>3. QED
      BY <1>7, <3>1, <3>2, BoundaryIs DEF RunInv
  <2>2. t = [from |-> a, taken |-> {}]
    BY <1>1, <2>1 DEF Round
  <2>3. ~(k + 1 <= a) /\ ~(b + 1 < k + 1)
    BY <1>7
  <2>4. QED
    BY <1>1, <2>2, <2>3 DEF RunInv
<1>8. CASE k = b + 1
  <2>1. s = [from |-> a, taken |-> {}] /\ boundary(marked, k)
    <3>1. k - 1 \in marked /\ k \notin marked
      BY <1>3, <1>4, <1>8
    <3>2. a < k /\ k <= b + 1
      BY <1>8
    <3>3. QED
      BY <3>1, <3>2, BoundaryIs DEF RunInv
  <2>2. s.from = a /\ s.taken = {} /\ s.from # -1
    BY <2>1
  <2>3. ~(k >= size - Cardinality(s.taken))
    BY <1>2, <2>2
  <2>4. k - 1 = b /\ {} \cup a .. b = a .. b
    BY <1>8
  <2>5. t = [from |-> -1, taken |-> s.taken \cup s.from .. k - 1]
    BY <1>1, <2>1, <2>2, <2>3 DEF Round
  <2>6. t = [from |-> -1, taken |-> a .. b]
    BY <2>2, <2>4, <2>5
  <2>7. QED
    BY <1>1, <1>8, <2>6 DEF RunInv
<1>9. CASE b + 1 < k
  <2>1. s = [from |-> -1, taken |-> a .. b] /\ ~boundary(marked, k)
    <3>1. k - 1 \notin marked /\ k \notin marked
      BY <1>3, <1>4, <1>9
    <3>2. QED
      BY <1>9, <3>1, BoundaryIs DEF RunInv
  <2>2. t = s
    BY <1>1, <2>1 DEF Round
  <2>3. QED
    BY <1>1, <1>9, <2>1, <2>2 DEF RunInv
<1>10. QED
  BY <1>5, <1>6, <1>7, <1>8, <1>9

(* One run of marked items comes out whole.                                *)
LEMMA ReturnedRun ==
  ASSUME NEW size \in Nat, NEW marked \in SUBSET (0 .. size),
         NEW a \in Nat, NEW b \in Nat, a <= b, b < size,
         \A j \in 0 .. size - 1 : j \in marked <=> a <= j /\ j <= b
  PROVE  returned(size, marked) = a .. b
<1>1. PICK f : Rounds(f, size, marked, size) /\ returned(size, marked) = LastRound(size, f[size])
  BY ReturnedRounds
<1> DEFINE A == {k \in Nat : k <= size => RunInv(f[k], k, a, b)}
<1>2. 0 \in A
  <2>1. f[0] = RoundStart
    BY <1>1 DEF Rounds
  <2>2. RunInv(f[0], 0, a, b)
    BY <2>1 DEF RunInv
  <2>3. QED
    BY <2>2
<1>3. ASSUME NEW k \in Nat, k \in A PROVE k + 1 \in A
  <2> SUFFICES ASSUME k + 1 <= size PROVE RunInv(f[k + 1], k + 1, a, b)
    OBVIOUS
  <2>1. k \in 0 .. size - 1 /\ RunInv(f[k], k, a, b)
    BY <1>3
  <2>2. f[k + 1] = Round(size, marked, f[k], k)
    BY <1>1, <2>1 DEF Rounds
  <2>3. RunInv(Round(size, marked, f[k], k), k + 1, a, b)
    BY <2>1, RunKeeps
  <2>4. QED
    BY <2>2, <2>3
<1>4. Nat \subseteq A
  <2> HIDE DEF A
  <2>1. QED
    BY <1>2, <1>3, SetInduction
<1>5. PICK s : s = f[size]
  OBVIOUS
<1>6. RunInv(s, size, a, b)
  BY <1>4, <1>5
<1> HIDE DEF A
<1>7. CASE size = b + 1
  <2>1. s = [from |-> a, taken |-> {}]
    BY <1>6, <1>7 DEF RunInv
  <2>2. Cardinality({}) = 0
    BY FS_EmptySet
  <2>3. s.from = a /\ s.taken = {} /\ a # -1
    BY <2>1
  <2>4. returned(size, marked) = s.taken \cup s.from .. size - Cardinality(s.taken) - 1
    BY <1>1, <1>5, <2>3 DEF LastRound
  <2>5. size - 0 - 1 = b
    BY <1>7
  <2>6. returned(size, marked) = {} \cup a .. b
    BY <2>2, <2>3, <2>4, <2>5
  <2>7. QED
    BY <2>6
<1>8. CASE size # b + 1
  <2>1. s = [from |-> -1, taken |-> a .. b]
    BY <1>6, <1>8 DEF RunInv
  <2>2. s.from = -1 /\ s.taken = a .. b
    BY <2>1
  <2>3. QED
    BY <1>1, <1>5, <2>2 DEF LastRound
<1>9. QED
  BY <1>7, <1>8

(* Numbers up to n have a greatest one, which Max chooses.                 *)
LEMMA GreatestExists ==
  ASSUME NEW n \in Nat, NEW S \in SUBSET (0 .. n), S # {}
  PROVE  Max(S) \in S /\ \A y \in S : Max(S) >= y
<1>1. PICK T : T = {n - y : y \in S}
  OBVIOUS
<1>2. T \in SUBSET Nat /\ T # {}
  <2>1. ASSUME NEW y \in S PROVE n - y \in Nat
    <3>1. y \in 0 .. n
      OBVIOUS
    <3>2. QED
      BY <3>1
  <2>2. PICK y \in S : TRUE
    OBVIOUS
  <2>3. n - y \in T
    BY <1>1, <2>2
  <2>4. QED
    BY <1>1, <2>1, <2>3
<1>3. PICK l : l = Min(T)
  OBVIOUS
<1>4. l \in T /\ \A y \in T : l <= y
  BY <1>2, <1>3, LeastExists
<1>5. PICK x \in S : l = n - x
  BY <1>1, <1>4
<1>6. ASSUME NEW y \in S PROVE x >= y
  <2>1. n - y \in T /\ x \in 0 .. n /\ y \in 0 .. n
    BY <1>1
  <2>2. n - x <= n - y
    BY <1>4, <1>5, <2>1
  <2>3. QED
    BY <2>1, <2>2
<1>7. QED
  BY <1>6 DEF Max

(* A selection with marks is answered by commitChecklist.                  *)
LEMMA ChecklistAnswer ==
  ASSUME ListInv, HandInv, AnswerInv, [Next]_vars,
         question.kind = "checklist", answer'.to = "checklist", selected # {}
  PROVE  /\ answer'.cards = cardsAt(hand, returned(question.size, selected))
         /\ hand' = cardsAt(hand, (0 .. question.size - 1) \ returned(question.size, selected))
<1>1. answer' # answer
  BY DEF AnswerInv
<1>2. io # "Bot" /\ ~notShown
  BY DEF HandInv
<1>3. question # NoQuestion
  BY DEF NoQuestion
<1>4. menuStep
  <2>1. ~draw /\ ~ask
    BY AskSteps DEF draw, idle, waitsFor
  <2>2. ~(blockers \/ nothing \/ botAnswers)
    BY <1>2 DEF blockers, nothing, botAnswers, waitsFor
  <2>3. ~(windowStep /\ io' = io)
    BY WindowSteps
  <2>4. ~(((\E l \in Lines : command(l)) \/ emptyLine) /\ io' = io)
    BY TerminalSteps
  <2>5. ~UNCHANGED vars
    BY <1>1 DEF vars, menuVars
  <2>6. QED
    BY <2>1, <2>2, <2>3, <2>4, <2>5 DEF Next
<1>5. commitChecklist
  <2>1. ~close /\ ~zeroTyped /\ ~moveCursor /\ ~change /\ ~adjust /\ ~switchChoice /\ ~type
    BY <1>1 DEF close, zeroTyped, loses, moveCursor, change, adjust, switchChoice, type
  <2>2. ~chosenUnasked
    BY <1>2 DEF chosenUnasked
  <2>3. ~commitAttackers /\ ~gives /\ ~choose /\ ~enterText
    BY DEF commitAttackers, gives, splitting, choose, enterText, waitsFor
  <2>4. QED
    BY <1>4, <2>1, <2>2, <2>3 DEF menuStep
<1>6. QED
  BY <1>1, <1>5 DEF commitChecklist, give

(* The cards of a list that are among those at some positions are those at *)
(* these positions, if no card is twice in the list.                       *)
LEMMA PositionsBack ==
  ASSUME NEW list, NEW n \in Nat, DOMAIN list = 1 .. n, IsInjective(list),
         NEW at \in SUBSET (0 .. n - 1)
  PROVE  {i \in 0 .. n - 1 : list[i + 1] \in Range(cardsAt(list, at))} = at
<1>1. PICK C : C = Range(cardsAt(list, at))
  OBVIOUS
<1>2. C = {list[i] : i \in {j \in 1 .. n : j - 1 \in at}}
  BY <1>1, CardsAtProperties
<1>3. ASSUME NEW i \in 0 .. n - 1, list[i + 1] \in C PROVE i \in at
  <2>1. PICK j \in 1 .. n : j - 1 \in at /\ list[i + 1] = list[j]
    BY <1>2, <1>3
  <2>2. i + 1 \in 1 .. n
    OBVIOUS
  <2>3. i + 1 = j
    BY <2>1, <2>2 DEF IsInjective
  <2>4. j - 1 = i
    BY <2>3
  <2>5. QED
    BY <2>1, <2>4
<1>4. ASSUME NEW i \in at PROVE i \in 0 .. n - 1 /\ list[i + 1] \in C
  <2>1. PICK j \in 1 .. n : j = i + 1 /\ j - 1 = i
    OBVIOUS
  <2>2. QED
    BY <1>2, <2>1
<1>5. QED
  BY <1>1, <1>3, <1>4

-----------------------------------------------------------------------------
(* The invariant.                                                          *)

(* The invariant holds at first, ...                                       *)
LEMMA InitIInv == Init => IInv
<1> SUFFICES ASSUME Init PROVE IInv
  OBVIOUS
<1>1. io \in {"Bot", "Nano", "Allegro", "Ncurses"}
  BY LocalAgentAssumption DEF Init
<1>2. /\ question = NoQuestion /\ question \in Questions /\ question.kind = "none"
      /\ question.size = 0
  BY DEF Init, NoQuestion, Questions, Kinds
<1>3. ListInv
  BY <1>1, <1>2 DEF Init, ListInv, lists
<1>4. HandInv
  BY <1>2 DEF Init, HandInv, IsInjective
<1>5. SplitInv
  BY <1>2, SumNothing DEF Init, SplitInv, NoSplit
<1>6. PathInv
  BY DEF Init, PathInv, IsPath
<1>7. ContextInv
  <2>1. playersOf("you") = <<"me">>
    BY DEF playersOf, Who
  <2>2. startContext \in ContextSet /\ startContext.players = playersOf(startContext.who)
    BY <2>1 DEF startContext, ContextSet, Who, Zones
  <2>3. QED
    BY <2>2 DEF Init, ContextInv
<1>8. AnswerInv
  BY <1>2 DEF AnswerInv
<1>9. QED
  BY <1>3, <1>4, <1>5, <1>6, <1>7, <1>8 DEF IInv

(* ... and every step keeps it.                                            *)
LEMMA NextIInv == IInv /\ [Next]_vars => IInv'
BY NextListInv, NextHandInv, NextSplitInv, NextPathInv, NextContextInv, NextAnswerInv
DEF IInv

(* basicIO.h:70-118, graphical_ui.cpp:28-36, window.h:78-127,              *)
(* cliUI_terminal.cpp:50-143: what a front end shows and counts belongs to *)
(* the question it is asked, whatever is pressed or typed.                 *)
THEOREM QuestionInvariant == Spec => []IInv
BY InitIInv, NextIInv, PTL DEF Spec

(* basicIO.h:70-98, window.h:78-127: the marks belong to the list that is  *)
(* asked about and are as many as are counted, and the path of windows     *)
(* leads from the screen down, while a target is asked for.                *)
THEOREM TypeCorrect == Spec => []TypeOK
<1>1. IInv => TypeOK
  <2> SUFFICES ASSUME IInv PROVE TypeOK
    OBVIOUS
  <2>1. ListInv /\ SplitInv /\ PathInv
    BY DEF IInv
  <2>2. question.kind \in Kinds
    BY <2>1 DEF ListInv, Questions
  <2>3. split.left \in 0 .. split.power
    <3>1. split \in Splits /\ Sum(split.given) + split.left <= split.power
      BY <2>1 DEF SplitInv, Splits
    <3>2. PICK s \in Seq(Nat) : s = split.given
      BY <3>1 DEF Splits
    <3>3. Sum(s) \in Nat
      <4>1. IsFiniteSet(DOMAIN s) /\ \A i \in DOMAIN s : s[i] \in Nat
        BY FS_Interval
      <4>2. QED
        BY <4>1, SumType DEF Sum
    <3>4. QED
      BY <3>1, <3>2, <3>3 DEF Splits
  <2>4. /\ path # <<>> => question.kind = "target" /\ Head(path) = <<"screen">>
        /\ \A n \in 2 .. Len(path) : path[n] \in Range(parts(path[n - 1]))
    BY <2>1 DEF PathInv, IsPath
  <2>5. QED
    BY <2>1, <2>2, <2>3, <2>4 DEF ListInv, Kinds, TypeOK
<1>2. QED
  BY <1>1, QuestionInvariant, PTL

(* graphical_ui.cpp:28-36: whatever keys are pressed, the blockers of an   *)
(* attacker get no more than its power between them.                       *)
THEOREM DamageSplit == Spec => []DamageWithinPower
<1>1. IInv => DamageWithinPower
  <2> SUFFICES ASSUME IInv PROVE DamageWithinPower
    OBVIOUS
  <2>1. split \in Splits /\ Sum(split.given) + split.left <= split.power
    BY DEF IInv, SplitInv, Splits
  <2>2. PICK s \in Seq(Nat) : s = split.given
    BY <2>1 DEF Splits
  <2>3. Sum(s) \in Nat
    <3>1. IsFiniteSet(DOMAIN s) /\ \A i \in DOMAIN s : s[i] \in Nat
      BY FS_Interval
    <3>2. QED
      BY <3>1, SumType DEF Sum
  <2>4. Sum(split.given) <= split.power
    BY <2>1, <2>2, <2>3 DEF Splits
  <2>5. MapThenSumSet(LAMBDA n : split.given[n], DOMAIN split.given) = Sum(split.given)
    BY DEF Sum, SumOver, MapThenSumSet, MapThenFoldSet
  <2>6. Len(split.given) <= question.size \/ answer.cards = split.given
    <3>1. split.given = <<>> => Len(split.given) <= question.size
      BY DEF IInv, ListInv, Questions
    <3>2. QED
      BY <3>1 DEF IInv, SplitInv
  <2>7. QED
    BY <2>4, <2>5, <2>6 DEF DamageWithinPower
<1>2. QED
  BY <1>1, QuestionInvariant, PTL

(* cliUI_terminal.cpp:50-66, 143: after any commands the players of a      *)
(* context are those its name says, each once.                             *)
THEOREM PlayersNamedAlways == Spec => []PlayersMatchWho
<1>1. IInv => PlayersMatchWho
  <2> SUFFICES ASSUME IInv, NEW c \in {context, temp}
               PROVE  /\ Range(c.players) = (IF "you" \in Who[c.who] THEN {"me"} ELSE {})
                             \cup (IF "opponent" \in Who[c.who] THEN Opponents ELSE {})
                      /\ Len(c.players) = Cardinality(Range(c.players))
    BY DEF PlayersMatchWho
  <2>1. c \in ContextSet /\ c.players = playersOf(c.who)
    BY DEF IInv, ContextInv
  <2>2. PICK who \in DOMAIN Who : who = c.who
    BY <2>1 DEF ContextSet
  <2>3. QED
    BY <2>1, <2>2, PlayersNamed
<1>2. QED
  BY <1>1, QuestionInvariant, PTL

(* basicIO.h:99-117: what checklist splices out of the list are items that *)
(* are marked; they and the rest make up the list, in its order; and one   *)
(* run of marked items comes out whole.                                    *)
THEOREM ChecklistMarked == Spec => ChecklistReturnsMarked
<1> DEFINE Returns ==
      (question.kind = "checklist" /\ answer'.to = "checklist" /\ selected # {}) =>
       LET marked == selected \cap 0 .. question.size - 1
           out    == {i \in 0 .. question.size - 1 : hand[i + 1] \in Range(answer'.cards)}
       IN  /\ out \subseteq marked
           /\ answer'.cards = cardsAt(hand, out)
           /\ hand' = cardsAt(hand, (0 .. question.size - 1) \ out)
           /\ (marked # {} /\ marked = Min(marked) .. Max(marked)) => out = marked
<1>1. IInv /\ [Next]_vars => [Returns]_vars
  <2> SUFFICES ASSUME ListInv, HandInv, AnswerInv, [Next]_vars,
                      question.kind = "checklist", answer'.to = "checklist", selected # {}
               PROVE  Returns
    BY DEF IInv
  <2>1. PICK size \in Nat : size = question.size /\ size = Len(hand)
    BY DEF HandInv
  <2>2. PICK S \in SUBSET (0 .. size) : S = selected
    BY <2>1 DEF ListInv
  <2>3. PICK marked \in SUBSET (0 .. size - 1) : marked = S \cap 0 .. size - 1
    OBVIOUS
  <2>4. PICK taken : taken = returned(size, S)
    OBVIOUS
  <2>5. taken \subseteq marked /\ taken \in SUBSET (0 .. size - 1)
    BY <2>3, <2>4, ReturnedMarked
  <2>6. /\ answer'.cards = cardsAt(hand, taken)
        /\ hand' = cardsAt(hand, (0 .. size - 1) \ taken)
    BY <2>1, <2>2, <2>4, ChecklistAnswer
  <2>7. DOMAIN hand = 1 .. size /\ IsInjective(hand)
    BY <2>1 DEF HandInv
  <2>8. PICK list : list = hand
    OBVIOUS
  <2>9. {i \in 0 .. size - 1 : hand[i + 1] \in Range(answer'.cards)} = taken
    BY <2>5, <2>6, <2>7, <2>8, PositionsBack
  <2>10. ASSUME marked # {}, marked = Min(marked) .. Max(marked)
        PROVE  taken = marked
    <3>1. marked \in SUBSET Nat /\ marked \in SUBSET (0 .. size)
      BY <2>3
    <3>2. PICK a \in Nat : a = Min(marked) /\ a \in marked
      BY <2>10, <3>1, LeastExists
    <3>3. PICK b \in Nat : b = Max(marked) /\ b \in marked /\ \A y \in marked : b >= y
      BY <2>10, <3>1, GreatestExists
    <3>4. a <= b /\ b < size
      BY <3>2, <3>3, <2>3
    <3>5. marked = a .. b
      BY <2>10, <3>2, <3>3
    <3>6. \A j \in 0 .. size - 1 : j \in S <=> a <= j /\ j <= b
      BY <2>3, <3>5
    <3>7. returned(size, S) = a .. b
      BY <3>4, <3>6, ReturnedRun
    <3>8. QED
      BY <2>4, <3>5, <3>7
  <2>11. QED
    BY <2>1, <2>2, <2>3, <2>5, <2>6, <2>9, <2>10
<1>2. Spec => [][Next]_vars
  BY DEF Spec
<1>3. QED
  BY <1>1, <1>2, QuestionInvariant, PTL DEF ChecklistReturnsMarked

-----------------------------------------------------------------------------
(* The windows of the graphical front ends.                                *)

(* What the fields of a Rect can hold.                                     *)
Narrow == 2^11
Wide   == 2^16

(* Said once, so that no prover has to count up to them.                   *)
LEMMA FieldSizes == Narrow \in Nat /\ Wide \in Nat
BY SMT DEF Narrow, Wide

(* Where a window is.                                                      *)
IsAt(r, y, z, width, height) == r = [y |-> y, z |-> z, width |-> width, height |-> height]

(* A Rect that is given numbers its fields can hold has them.              *)
LEMMA RectFits ==
  ASSUME NEW y \in Nat, NEW z \in Nat, NEW width \in Nat, NEW height \in Nat,
         y < Narrow, z < Wide, width < Wide, height < Wide
  PROVE  IsAt(Rect(y, z, width, height), y, z, width, height)
<1>1. \A m \in Nat, n \in Nat : m < n => m % n = m
  BY SMT
<1>2. y % Narrow = y /\ z % Wide = z /\ width % Wide = width /\ height % Wide = height
  BY <1>1, FieldSizes
<1>3. QED
  BY <1>2, Zenon DEF Rect, Narrow, Wide, IsAt

(* Shifting a Rect down the screen wraps nothing while it stays in it.     *)
LEMMA ShiftFits ==
  ASSUME NEW y \in Nat, NEW z \in Nat, NEW width \in Nat, NEW height \in Nat, NEW dz \in Nat,
         y < Narrow, z + dz < Wide, width < Wide, height < Wide,
         NEW r, IsAt(r, y, z, width, height)
  PROVE  IsAt(shift(r, 0, dz), y, z + dz, width, height)
<1>1. /\ r.y + 0 = y /\ r.z + dz = z + dz /\ r.width = width /\ r.height = height
      /\ z + dz \in Nat
  BY DEF IsAt
<1>2. shift(r, 0, dz) = Rect(y, z + dz, width, height)
  BY <1>1, Zenon DEF shift
<1>3. QED
  BY <1>1, <1>2, RectFits

(* The numbers sideLayout works with.                                      *)
SizesOf(H, l, playerH, size, margin) ==
  /\ playerH = Max({3 * (H \div 13), 2 * l})
  /\ size = LET sixth == quotient(H - 2 * playerH, 6)
            IN  IF sixth < 3 * l THEN quotient(H - 2 * playerH, 5) ELSE sixth
  /\ margin = quotient(H - playerH - 5 * size, 5)

(* The rows of a side of the screen fit into its height.                   *)
LEMMA SideNumbers ==
  ASSUME NEW H \in Nat, NEW l \in Nat, 4 * l <= H,
         NEW playerH, NEW size, NEW margin, SizesOf(H, l, playerH, size, margin)
  PROVE  /\ playerH \in Nat /\ size \in Nat /\ margin \in Nat
         /\ playerH + 5 * size + 5 * margin <= H
<1>1. playerH \in Nat /\ 2 * playerH <= H
  <2>1. PICK a \in Nat : a = 3 * (H \div 13) /\ 2 * a <= H
    OBVIOUS
  <2>2. \A y \in {a, 2 * l} : y \in Int
    OBVIOUS
  <2>3. Max({a, 2 * l}) \in {a, 2 * l}
    <3>1. CASE a >= 2 * l
      BY <3>1 DEF Max
    <3>2. CASE a < 2 * l
      BY <3>2 DEF Max
    <3>3. QED
      BY <3>1, <3>2
  <2>4. QED
    BY <2>1, <2>3 DEF SizesOf
<1>2. size \in Nat /\ 5 * size <= H - 2 * playerH
  <2>1. PICK b \in Nat : b = H - 2 * playerH
    BY <1>1
  <2>2. quotient(b, 6) = b \div 6 /\ quotient(b, 5) = b \div 5
    BY DEF quotient
  <2>3. size = b \div 6 \/ size = b \div 5
    BY <2>1, <2>2 DEF SizesOf
  <2>4. QED
    BY <2>1, <2>3
<1>3. margin \in Nat /\ 5 * margin <= H - playerH - 5 * size
  <2>1. PICK c \in Nat : c = H - playerH - 5 * size
    BY <1>1, <1>2
  <2>2. quotient(c, 5) = c \div 5
    BY DEF quotient
  <2>3. QED
    BY <2>1, <2>2 DEF SizesOf
<1>4. QED
  BY <1>1, <1>2, <1>3

(* The header, and five rows one margin apart, come one below the other.   *)
IsColumn(top, high, Z, playerH, size, margin) ==
  /\ top = [n \in 1 .. 6 |-> IF n = 1 THEN Z
                             ELSE Z + playerH + margin + (n - 2) * (size + margin)]
  /\ high = [n \in 1 .. 6 |-> IF n = 1 THEN playerH ELSE size]

(* A row of a column begins below those above it and lies in the column.   *)
LEMMA RowPlaces ==
  ASSUME NEW Z \in Nat, NEW H \in Nat, NEW playerH \in Nat, NEW size \in Nat,
         NEW margin \in Nat, playerH + 5 * size + 5 * margin <= H,
         NEW top, NEW high, IsColumn(top, high, Z, playerH, size, margin)
  PROVE  \A n \in 1 .. 6 :
           /\ top[n] \in Nat /\ high[n] \in Nat
           /\ Z <= top[n] /\ top[n] + high[n] <= Z + H
           /\ \A m \in 1 .. 6 : m < n => top[m] + high[m] <= top[n]
<1>1. PICK start \in Nat : start = Z + playerH + margin
  OBVIOUS
<1>2. /\ top[1] = Z /\ high[1] = playerH
      /\ top[2] = start /\ high[2] = size
      /\ top[3] = start + size + margin /\ high[3] = size
      /\ top[4] = start + 2 * size + 2 * margin /\ high[4] = size
      /\ top[5] = start + 3 * size + 3 * margin /\ high[5] = size
      /\ top[6] = start + 4 * size + 4 * margin /\ high[6] = size
  BY <1>1 DEF IsColumn
<1>3. \A m \in 1 .. 6 : m = 1 \/ m = 2 \/ m = 3 \/ m = 4 \/ m = 5 \/ m = 6
  OBVIOUS
<1>4. ASSUME NEW n \in 1 .. 6, NEW m \in 1 .. 6
      PROVE  /\ top[n] \in Nat /\ high[n] \in Nat
             /\ Z <= top[n] /\ top[n] + high[n] <= Z + H
             /\ m < n => top[m] + high[m] <= top[n]
  BY ONLY <1>1, <1>2, <1>3, Z \in Nat, playerH \in Nat, size \in Nat, margin \in Nat, H \in Nat, playerH + 5 * size + 5 * margin <= H
<1>5. ASSUME NEW n \in 1 .. 6
      PROVE  /\ top[n] \in Nat /\ high[n] \in Nat
             /\ Z <= top[n] /\ top[n] + high[n] <= Z + H
  <2>1. 1 \in 1 .. 6
    OBVIOUS
  <2>2. QED
    BY <1>4, <2>1, Zenon
<1>6. QED
  BY <1>4, <1>5, Zenon

(* A rectangle in which there is place for a side.                         *)
IsSide(r, Y, Z, W, H) ==
  /\ Y \in Nat /\ Z \in Nat /\ W \in Nat /\ H \in Nat
  /\ Y < Narrow /\ W < Wide /\ Z + H < Wide
  /\ linesize \in Nat /\ 4 * linesize <= H /\ IsAt(r, Y, Z, W, H)

(* The header and the five rows of a side, one below the other in it.      *)
AreStripes(side, Y, Z, W, H) ==
  \E playerH \in Nat, size \in Nat, margin \in Nat :
     /\ playerH + 5 * size + 5 * margin <= H
     /\ IsAt(side.header, Y, Z, W, playerH)
     /\ DOMAIN side.rows = 1 .. 5
     /\ \A n \in 1 .. 5 :
          IsAt(side.rows[n], Y, Z + playerH + margin + (n - 1) * (size + margin), W, size)

(* sideLayout makes such of it.                                            *)
LEMMA SideStripes ==
  ASSUME NEW Y, NEW Z, NEW W, NEW H, NEW r, IsSide(r, Y, Z, W, H)
  PROVE  AreStripes(sideLayout(r), Y, Z, W, H)
<1> Y \in Nat /\ Z \in Nat /\ W \in Nat /\ H \in Nat
  BY DEF IsSide
<1> PICK l \in Nat : l = linesize
  BY DEF IsSide
<1> Y < Narrow /\ W < Wide /\ Z + H < Wide /\ 4 * l <= H /\ IsAt(r, Y, Z, W, H)
  BY DEF IsSide
<1>1. r.y = Y /\ r.z = Z /\ r.width = W /\ r.height = H
  BY DEF IsAt
<1>2. PICK playerH, size, margin : SizesOf(H, l, playerH, size, margin)
  BY DEF SizesOf
<1>3. /\ playerH \in Nat /\ size \in Nat /\ margin \in Nat
      /\ playerH + 5 * size + 5 * margin <= H
  BY <1>2, SideNumbers
<1>4. PICK first : first = Rect(Y, Z + playerH + margin, W, size)
  OBVIOUS
<1>5. /\ sideLayout(r).header = Rect(Y, Z, W, playerH)
      /\ sideLayout(r).rows = [n \in 1 .. 5 |-> shift(first, 0, (n - 1) * (size + margin))]
  <2>1. /\ sideLayout(r).header = Rect(r.y, r.z, r.width, playerH)
        /\ sideLayout(r).rows =
             [n \in 1 .. 5 |-> shift(Rect(r.y, r.z + playerH + margin, r.width, size),
                                     0, (n - 1) * (size + margin))]
    BY <1>1, <1>2, ZenonT(60) DEF sideLayout, SizesOf
  <2>2. QED
    BY <1>1, <1>4, <2>1, Zenon
<1>6. PICK start \in Nat : start = Z + playerH + margin
  BY <1>3
<1>7. /\ start < Wide /\ playerH < Wide /\ size < Wide /\ Z < Wide
      /\ start + 4 * size + 4 * margin < Wide
  BY <1>3, <1>6, FieldSizes
<1>8. IsAt(Rect(Y, Z, W, playerH), Y, Z, W, playerH)
  BY <1>3, <1>7, RectFits
<1>9. IsAt(first, Y, start, W, size)
  BY <1>3, <1>4, <1>6, <1>7, RectFits
<1>10. ASSUME NEW n \in 1 .. 5
       PROVE  IsAt(shift(first, 0, (n - 1) * (size + margin)),
                   Y, start + (n - 1) * (size + margin), W, size)
  <2>1. PICK dz \in Nat : dz = (n - 1) * (size + margin) /\ start + dz < Wide
    <3>1. n = 1 \/ n = 2 \/ n = 3 \/ n = 4 \/ n = 5
      OBVIOUS
    <3>2. /\ (n - 1) * (size + margin) \in Nat
          /\ (n - 1) * (size + margin) <= 4 * size + 4 * margin
      BY <1>3, <3>1
    <3>3. QED
      BY <1>3, <1>7, <3>2, FieldSizes
  <2>2. IsAt(shift(first, 0, dz), Y, start + dz, W, size)
    BY <1>3, <1>7, <1>9, <2>1, ShiftFits
  <2>3. QED
    BY <2>1, <2>2, Zenon
<1>11. PICK rows : rows = sideLayout(r).rows
  OBVIOUS
<1>12. /\ DOMAIN rows = 1 .. 5
       /\ \A n \in 1 .. 5 : IsAt(rows[n], Y, start + (n - 1) * (size + margin), W, size)
  BY <1>5, <1>10, <1>11, Zenon
<1>13. /\ IsAt(sideLayout(r).header, Y, Z, W, playerH)
       /\ DOMAIN sideLayout(r).rows = 1 .. 5
       /\ \A n \in 1 .. 5 :
            IsAt(sideLayout(r).rows[n],
                 Y, Z + playerH + margin + (n - 1) * (size + margin), W, size)
  BY <1>5, <1>6, <1>8, <1>11, <1>12, Zenon
<1>14. QED
  BY <1>3, <1>13, Zenon DEF AreStripes

(* One element in front of five.                                           *)
LEMMA FiveBehindOne ==
  ASSUME NEW a, NEW S, NEW s \in Seq(S), Len(s) = 5
  PROVE  /\ DOMAIN Cat(<<a>>, s) = 1 .. 6 /\ Cat(<<a>>, s)[1] = a
         /\ \A n \in 2 .. 6 : Cat(<<a>>, s)[n] = s[n - 1]
<1>1. PICK T : T = S \cup {a}
  OBVIOUS
<1>2. s \in Seq(T) /\ <<a>> \in Seq(T) /\ Len(<<a>>) = 1 /\ <<a>>[1] = a
  BY <1>1
<1>3. PICK c : c = Cat(<<a>>, s)
  OBVIOUS
<1>4. Len(c) = 6 /\ c \in Seq(T)
  <2>1. c \in Seq(T) /\ Len(c) = Len(<<a>>) + Len(s)
    BY <1>2, <1>3, CatType, Zenon
  <2>2. QED
    BY <1>2, <2>1
<1>5. ASSUME NEW n \in 1 .. 6
      PROVE  c[n] = IF n = 1 THEN a ELSE s[n - 1]
  BY <1>2, <1>3 DEF Cat
<1>6. \A n \in 2 .. 6 : n \in 1 .. 6 /\ n # 1
  OBVIOUS
<1>7. c[1] = a /\ \A n \in 2 .. 6 : c[n] = s[n - 1]
  <2>1. 1 \in 1 .. 6
    OBVIOUS
  <2>2. QED
    BY <1>5, <1>6, <2>1, Zenon
<1>8. DOMAIN c = 1 .. 6
  BY <1>4
<1>9. QED
  BY <1>3, <1>7, <1>8, Zenon

(* Windows one below the other are apart, ...                              *)
LEMMA BelowIsApart ==
  ASSUME NEW rs, \A m, n \in DOMAIN rs : m < n => bottom(rs[m]) <= rs[n].z
  PROVE  allApart(rs)
BY DEF allApart, apart

(* ... as the header and the rows of a side are, inside it.                *)
LEMMA SideKeepsApart ==
  ASSUME NEW Y \in Nat, NEW Z \in Nat, NEW W \in Nat, NEW H \in Nat,
         Y < Narrow, W < Wide, Z + H < Wide,
         NEW l \in Nat, l = linesize, 4 * l <= H, NEW r, IsAt(r, Y, Z, W, H)
  PROVE  /\ allApart(<<sideLayout(r).header>> \o sideLayout(r).rows)
         /\ \A n \in DOMAIN (<<sideLayout(r).header>> \o sideLayout(r).rows) :
              inside((<<sideLayout(r).header>> \o sideLayout(r).rows)[n], r)
<1>1. PICK header, rows, stripes :
        header = sideLayout(r).header /\ rows = sideLayout(r).rows
        /\ stripes = Cat(<<header>>, rows)
  OBVIOUS
<1>2. PICK playerH \in Nat, size \in Nat, margin \in Nat :
           /\ playerH + 5 * size + 5 * margin <= H
           /\ IsAt(header, Y, Z, W, playerH)
           /\ DOMAIN rows = 1 .. 5
           /\ \A n \in 1 .. 5 :
                IsAt(rows[n], Y, Z + playerH + margin + (n - 1) * (size + margin), W, size)
  <2>1. IsSide(r, Y, Z, W, H)
    BY DEF IsSide
  <2>2. AreStripes(sideLayout(r), Y, Z, W, H)
    BY <2>1, SideStripes
  <2>3. QED
    BY <1>1, <2>2, Zenon DEF AreStripes
<1>3. rows \in Seq(Range(rows)) /\ Len(rows) = 5
  <2>1. rows = [n \in 1 .. 5 |-> rows[n]]
    BY <1>1, <1>2, Zenon DEF sideLayout
  <2>2. QED
    BY ONLY <1>2, <2>1 DEF Range
<1>4. /\ DOMAIN stripes = 1 .. 6 /\ stripes[1] = header
      /\ \A n \in 2 .. 6 : stripes[n] = rows[n - 1]
  <2>1. /\ DOMAIN Cat(<<header>>, rows) = 1 .. 6 /\ Cat(<<header>>, rows)[1] = header
        /\ \A n \in 2 .. 6 : Cat(<<header>>, rows)[n] = rows[n - 1]
    BY ONLY <1>3, FiveBehindOne
  <2>2. QED
    BY <1>1, <2>1, Zenon
<1>5. PICK top, high : IsColumn(top, high, Z, playerH, size, margin)
  BY DEF IsColumn
<1>6. \A n \in 1 .. 6 :
           /\ top[n] \in Nat /\ high[n] \in Nat
           /\ Z <= top[n] /\ top[n] + high[n] <= Z + H
           /\ \A m \in 1 .. 6 : m < n => top[m] + high[m] <= top[n]
  BY <1>2, <1>5, RowPlaces
<1>7. ASSUME NEW n \in 1 .. 6 PROVE IsAt(stripes[n], Y, top[n], W, high[n])
  <2>1. CASE n = 1
    <3>1. top[1] = Z /\ high[1] = playerH
      BY ONLY <1>5 DEF IsColumn
    <3>2. QED
      BY <1>2, <1>4, <2>1, <3>1, Zenon
  <2>2. CASE n # 1
    <3>1. /\ n - 1 \in 1 .. 5 /\ n \in 2 .. 6
          /\ top[n] = Z + playerH + margin + ((n - 1) - 1) * (size + margin)
          /\ high[n] = size
      <4>1. n \in 2 .. 6 /\ n - 1 \in 1 .. 5 /\ (n - 1) - 1 = n - 2
        BY ONLY <2>2, n \in 1 .. 6
      <4>2. QED
        BY ONLY <1>5, <2>2, <4>1 DEF IsColumn
    <3>2. QED
      BY <1>2, <1>4, <3>1, Zenon
  <2>3. QED
    BY <2>1, <2>2
<1>8. allApart(stripes)
  <2>1. ASSUME NEW m \in 1 .. 6, NEW n \in 1 .. 6, m < n
        PROVE  bottom(stripes[m]) <= stripes[n].z
    <3>1. top[m] + high[m] <= top[n]
      BY <1>6, <2>1, Zenon
    <3>2. bottom(stripes[m]) = top[m] + high[m] /\ stripes[n].z = top[n]
      BY ONLY <1>7 DEF bottom, IsAt
    <3>3. QED
      BY <3>1, <3>2, Zenon
  <2>2. QED
    BY <1>4, <2>1, BelowIsApart, Zenon
<1>9. ASSUME NEW n \in 1 .. 6 PROVE inside(stripes[n], r)
  <2>1. /\ r.y = Y /\ r.z = Z /\ right(r) = Y + W /\ bottom(r) = Z + H
    BY DEF right, bottom, IsAt
  <2>2. /\ right(stripes[n]) = Y + W /\ bottom(stripes[n]) = top[n] + high[n]
        /\ stripes[n].y = Y /\ stripes[n].z = top[n]
    BY ONLY <1>7 DEF right, bottom, IsAt
  <2>3. top[n] >= Z /\ top[n] + high[n] <= Z + H /\ Y >= Y /\ Y + W <= Y + W
    BY ONLY <1>6, Y \in Nat, Z \in Nat, W \in Nat
  <2>4. QED
    BY <2>1, <2>2, <2>3, Zenon DEF inside
<1>10. QED
  BY <1>1, <1>4, <1>8, <1>9, Zenon DEF Cat

(* A screen whose windows fit: a Rect can hold its numbers, and it has the *)
(* ten lines of the message and the log.                                   *)
ScreenFits(w, h, l) == w < Narrow /\ h < Wide /\ 10 * l <= h

(* The bars, side by side on the screen.                                   *)
LEMMA BarsBeside ==
  ASSUME NEW w \in Nat, NEW h \in Nat, NEW l \in Nat, ScreenFits(w, h, l),
         w = resolution.width, h = resolution.height
  PROVE  \E b \in Nat, left \in Nat, rest \in Nat :
           /\ b + left + rest = w
           /\ IsAt(initScreen.board, 0, 0, b, h)
           /\ IsAt(initScreen.leftBar, b, 0, left, h)
           /\ IsAt(initScreen.rightBar, b + left, 0, rest, h)
<1>1. PICK left \in Nat, rest \in Nat : left = w \div 4 /\ rest = w \div 5
  OBVIOUS
<1>2. PICK b \in Nat : b = w - left - rest
  BY <1>1
<1>3. /\ 0 < Narrow /\ 0 < Wide /\ b < Wide /\ h < Wide
      /\ b < Narrow /\ left < Wide /\ b + left < Narrow /\ rest < Wide
      /\ b + left \in Nat /\ b + left + rest = w
  <2>1. Narrow <= Wide /\ 0 < Narrow
    BY SMT DEF Narrow, Wide
  <2>2. QED
    BY <1>2, <2>1, FieldSizes DEF ScreenFits
<1>4. IsAt(Rect(0, 0, b, h), 0, 0, b, h)
  BY <1>3, RectFits
<1>5. IsAt(Rect(b, 0, left, h), b, 0, left, h)
  BY <1>3, RectFits
<1>6. IsAt(Rect(b + left, 0, rest, h), b + left, 0, rest, h)
  BY <1>3, RectFits
<1>7. /\ Rect(0, 0, b, h).width = b
      /\ right(Rect(b, 0, left, h)) = b + left
  BY ONLY <1>4, <1>5 DEF IsAt, right
<1>8. /\ initScreen.board = Rect(0, 0, b, h)
      /\ initScreen.leftBar = Rect(b, 0, left, h)
      /\ initScreen.rightBar = Rect(b + left, 0, rest, h)
  BY <1>1, <1>2, <1>7, Zenon DEF initScreen
<1>9. QED
  BY <1>3, <1>4, <1>5, <1>6, <1>8, Zenon

(* The zones of the right bar.                                             *)
LEMMA BarZones ==
  ASSUME NEW Y \in Nat, NEW W \in Nat, NEW H \in Nat, NEW l \in Nat,
         Y < Narrow, W < Wide, H < Wide, 10 * l <= H, l = linesize,
         NEW r, IsAt(r, Y, 0, W, H)
  PROVE  \E z \in Nat :
           /\ z + 10 * l = H
           /\ IsAt(rightLayout(r).options, Y, 0, W, z)
           /\ IsAt(rightLayout(r).message, Y, z, W, 3 * l)
           /\ IsAt(rightLayout(r).logbook, Y, z + 3 * l, W, 7 * l)
<1>1. PICK z \in Nat : z = H - (3 + 7) * l
  OBVIOUS
<1>2. r.y = Y /\ r.z = 0 /\ r.width = W /\ r.height = H
  BY DEF IsAt
<1>3. /\ 3 * l \in Nat /\ 7 * l \in Nat /\ z + 3 * l \in Nat
      /\ z < Wide /\ 3 * l < Wide /\ 7 * l < Wide /\ z + 3 * l < Wide
      /\ 0 < Wide /\ z + 10 * l = H
  BY <1>1, FieldSizes
<1>4. IsAt(Rect(Y, 0, W, z), Y, 0, W, z)
  BY <1>3, RectFits
<1>5. IsAt(Rect(Y, z, W, 3 * l), Y, z, W, 3 * l)
  BY <1>3, RectFits
<1>6. IsAt(Rect(Y, z + 3 * l, W, 7 * l), Y, z + 3 * l, W, 7 * l)
  BY <1>3, RectFits
<1>7. bottom(Rect(Y, 0, W, z)) = z
  BY ONLY <1>4, z \in Nat DEF bottom, IsAt
<1>8. /\ rightLayout(r).options = Rect(Y, 0, W, z)
      /\ rightLayout(r).message = Rect(Y, z, W, 3 * l)
      /\ rightLayout(r).logbook = Rect(Y, z + 3 * l, W, 7 * l)
  BY <1>1, <1>2, <1>7, Zenon DEF rightLayout, LOGLEN
<1>9. QED
  BY <1>3, <1>4, <1>5, <1>6, <1>8, Zenon

(* The sides of the two players.                                           *)
LEMMA SidesOverlap ==
  ASSUME NEW W \in Nat, NEW H \in Nat, NEW l \in Nat,
         W < Wide, H < Wide, 10 * l <= H, l = linesize,
         NEW r, IsAt(r, 0, 0, W, H)
  PROVE  \E z \in Nat, high \in Nat :
           /\ z + high <= H /\ high <= z + 2 * l /\ 4 * l <= high
           /\ IsAt(sideRect(r, 1), 0, 0, W, high)
           /\ IsAt(sideRect(r, 2), 0, z, W, high)
<1>1. PICK half \in Nat : half = H \div 2
  OBVIOUS
<1>2. PICK z \in Nat, high \in Nat : z = half - l /\ high = half + l
  BY <1>1
<1>3. r.y = 0 /\ r.z = 0 /\ r.width = W /\ r.height = H
  BY DEF IsAt
<1>4. /\ z + high <= H /\ high <= z + 2 * l /\ 4 * l <= high
      /\ 0 < Narrow /\ 0 < Wide /\ high < Wide /\ 0 + z < Wide /\ 0 + z = z
  <2>1. 0 < Narrow
    BY SMT DEF Narrow
  <2>2. QED
    BY <1>1, <1>2, <2>1, FieldSizes
<1>5. PICK child : child = Rect(0, 0, W, high)
  OBVIOUS
<1>6. IsAt(child, 0, 0, W, high)
  BY <1>4, <1>5, RectFits
<1>7. IsAt(shift(child, 0, z), 0, z, W, high)
  BY <1>4, <1>6, ShiftFits
<1>8. sideRect(r, 1) = child /\ sideRect(r, 2) = shift(child, 0, z)
  <2>1. 2 # 1
    OBVIOUS
  <2>2. QED
    BY <1>1, <1>2, <1>3, <1>5, <2>1, Zenon DEF sideRect
<1>9. QED
  BY <1>4, <1>6, <1>7, <1>8, Zenon

(* Three windows.                                                          *)
LEMMA ThreeWindows ==
  ASSUME NEW a, NEW b, NEW c, NEW r, apart(a, b), apart(a, c), apart(b, c),
         inside(a, r), inside(b, r), inside(c, r)
  PROVE  allApart(<<a, b, c>>) /\ \A n \in DOMAIN <<a, b, c>> : inside(<<a, b, c>>[n], r)
<1>1. PICK s : s = <<a, b, c>>
  OBVIOUS
<1>2. DOMAIN s = 1 .. 3 /\ s[1] = a /\ s[2] = b /\ s[3] = c
  BY <1>1
<1>3. \A n \in 1 .. 3 : n = 1 \/ n = 2 \/ n = 3
  OBVIOUS
<1>4. allApart(s)
  <2>1. \A m, n \in 1 .. 3 : m < n => (m = 1 /\ n \in {2, 3}) \/ (m = 2 /\ n = 3)
    OBVIOUS
  <2>2. QED
    BY <1>2, <2>1 DEF allApart
<1>5. \A n \in DOMAIN s : inside(s[n], r)
  BY <1>2, <1>3, Zenon
<1>6. QED
  BY <1>1, <1>4, <1>5, Zenon

(* Where the windows are, on a screen that fits.                           *)
LEMMA AllWindows ==
  ASSUME NEW w \in Nat, NEW h \in Nat, NEW l \in Nat, ScreenFits(w, h, l),
         w = resolution.width, h = resolution.height, l = linesize
  PROVE  WindowsKeepApart
<1>1. PICK b \in Nat, left \in Nat, rest \in Nat :
           /\ b + left + rest = w
           /\ IsAt(initScreen.board, 0, 0, b, h)
           /\ IsAt(initScreen.leftBar, b, 0, left, h)
           /\ IsAt(initScreen.rightBar, b + left, 0, rest, h)
  BY BarsBeside, Zenon
<1>2. PICK board, leftBar, rightBar :
        board = initScreen.board /\ leftBar = initScreen.leftBar
        /\ rightBar = initScreen.rightBar
  OBVIOUS
<1>3. /\ IsAt(board, 0, 0, b, h) /\ IsAt(leftBar, b, 0, left, h)
      /\ IsAt(rightBar, b + left, 0, rest, h)
  BY <1>1, <1>2, Zenon
<1>4. /\ b < Narrow /\ b + left < Narrow /\ b < Wide /\ rest < Wide /\ w < Wide /\ h < Wide
      /\ 0 < Narrow /\ 0 < Wide /\ b + left \in Nat /\ 10 * l <= h
  <2>1. Narrow <= Wide /\ 0 < Narrow
    BY SMT DEF Narrow, Wide
  <2>2. QED
    BY <1>1, <2>1, FieldSizes DEF ScreenFits
<1>5. PICK whole : whole = Rect(0, 0, w, h)
  OBVIOUS
<1>6. IsAt(whole, 0, 0, w, h)
  BY <1>4, <1>5, RectFits
<1>7. /\ allApart(<<leftBar, board, rightBar>>)
      /\ \A n \in DOMAIN <<leftBar, board, rightBar>> :
           inside(<<leftBar, board, rightBar>>[n], whole)
  <2>1. /\ apart(leftBar, board) /\ apart(leftBar, rightBar) /\ apart(board, rightBar)
    BY ONLY <1>1, <1>3 DEF IsAt, apart, right, bottom
  <2>2. inside(leftBar, whole) /\ inside(board, whole) /\ inside(rightBar, whole)
    BY ONLY <1>1, <1>3, <1>6, h \in Nat, w \in Nat DEF IsAt, inside, right, bottom
  <2>3. QED
    BY <2>1, <2>2, ThreeWindows
<1>8. PICK options, message, logbook :
        options = rightLayout(rightBar).options /\ message = rightLayout(rightBar).message
        /\ logbook = rightLayout(rightBar).logbook
  OBVIOUS
<1>9. PICK z \in Nat :
           /\ z + 10 * l = h
           /\ IsAt(options, b + left, 0, rest, z)
           /\ IsAt(message, b + left, z, rest, 3 * l)
           /\ IsAt(logbook, b + left, z + 3 * l, rest, 7 * l)
  BY <1>3, <1>4, <1>8, BarZones
<1>10. /\ allApart(<<options, message, logbook>>)
       /\ \A n \in DOMAIN <<options, message, logbook>> :
            inside(<<options, message, logbook>>[n], rightBar)
  <2>1. /\ apart(options, message) /\ apart(options, logbook) /\ apart(message, logbook)
    BY ONLY <1>9, l \in Nat DEF IsAt, apart, bottom, right
  <2>2. inside(options, rightBar) /\ inside(message, rightBar) /\ inside(logbook, rightBar)
    BY ONLY <1>3, <1>9, h \in Nat, l \in Nat DEF IsAt, inside, right, bottom
  <2>3. QED
    BY <2>1, <2>2, ThreeWindows
<1>11. PICK over \in Nat, high \in Nat :
           /\ over + high <= h /\ high <= over + 2 * l /\ 4 * l <= high
           /\ IsAt(sideRect(board, 1), 0, 0, b, high)
           /\ IsAt(sideRect(board, 2), 0, over, b, high)
  BY <1>3, <1>4, SidesOverlap
<1>12. ASSUME NEW i \in {1, 2}
       PROVE  /\ allApart(<<sideLayout(sideRect(board, i)).header>>
                             \o sideLayout(sideRect(board, i)).rows)
              /\ \A n \in DOMAIN (<<sideLayout(sideRect(board, i)).header>>
                                    \o sideLayout(sideRect(board, i)).rows) :
                   inside((<<sideLayout(sideRect(board, i)).header>>
                             \o sideLayout(sideRect(board, i)).rows)[n], sideRect(board, i))
  <2>1. PICK side : side = sideRect(board, i)
    OBVIOUS
  <2>2. PICK Z \in Nat : IsAt(side, 0, Z, b, high) /\ Z + high < Wide
    <3>1. 0 + high < Wide /\ over + high < Wide
      BY <1>4, <1>11, FieldSizes
    <3>2. QED
      BY <1>11, <2>1, <3>1, Zenon
  <2>3. 0 < Narrow /\ b < Wide /\ 4 * l <= high
    BY <1>4, <1>11, Zenon
  <2>4. /\ allApart(<<sideLayout(side).header>> \o sideLayout(side).rows)
        /\ \A n \in DOMAIN (<<sideLayout(side).header>> \o sideLayout(side).rows) :
             inside((<<sideLayout(side).header>> \o sideLayout(side).rows)[n], side)
    BY <2>2, <2>3, SideKeepsApart
  <2>5. QED
    BY <2>1, <2>4, Zenon
<1>13. bottom(sideRect(board, 1)) - sideRect(board, 2).z <= 2 * linesize + 1
  <2>1. bottom(sideRect(board, 1)) = high /\ sideRect(board, 2).z = over
    BY ONLY <1>11 DEF bottom, IsAt
  <2>2. high - over <= 2 * l + 1
    BY <1>11
  <2>3. QED
    BY <2>1, <2>2
<1>14. QED
  BY <1>2, <1>5, <1>7, <1>8, <1>10, <1>12, <1>13, Zenon DEF WindowsKeepApart

(* The libraries tell of a screen that has these lines, and that a Rect    *)
(* can hold.                                                               *)
ScreensSuffice ==
  \A r \in Resolutions : (3 + LOGLEN) * r.linesize <= r.height /\ r.height < Wide

(* The screen of a graphical front end is what its library told.           *)
ScreenInv == graphical => resolution \in Resolutions

(* The screen is one of those the model has.                               *)
LEMMA InitScreenInv == Init => ScreenInv
<1>1. SUFFICES ASSUME Init, graphical PROVE resolution \in Resolutions
  BY DEF ScreenInv
<1>2. io \notin {"Bot", "Nano"}
  BY <1>1 DEF graphical, KeyDirection
<1>3. QED
  BY <1>1, <1>2 DEF Init

(* No step changes the screen, or the front end.                           *)
LEMMA NextScreenInv == ScreenInv /\ [Next]_vars => ScreenInv'
<1>1. [Next]_vars => UNCHANGED <<io, resolution>>
  <2>1. draw => UNCHANGED <<io, resolution>>
    BY DEF draw
  <2>2. ask => UNCHANGED <<io, resolution>>
    BY DEF ask, askText, keepsHand, chooseCardsToKeep, chooseAttackers, chooseBlockers,
           splitDamage, chooseTarget, chooseOpt, asks
  <2>3. blockers \/ nothing \/ botAnswers => UNCHANGED <<io, resolution>>
    BY DEF blockers, nothing, botAnswers, unasked
  <2>4. windowStep => UNCHANGED resolution
    BY DEF windowStep, enterGallery, pressKey, leaveElement
  <2>5. UNCHANGED vars => UNCHANGED <<io, resolution>>
    BY DEF vars, windowVars
  <2>6. QED
    BY <2>1, <2>2, <2>3, <2>4, <2>5 DEF Next, windowVars
<1>2. QED
  BY <1>1 DEF ScreenInv, graphical

(* argus.cpp:8-77, and the setCoords they call: on any screen              *)
(* of at least ten lines no window lies on another, but for the two lines  *)
(* the sides share, and none leaves what it is part of, whatever the       *)
(* rounding and the 11 and 16 bits of a Rect make of the numbers.          *)
THEOREM WindowsApart ==
  ASSUME ScreensSuffice PROVE Spec => []WindowsKeepApart
<1>1. ScreenInv => WindowsKeepApart
  <2>1. CASE ~graphical
    BY <2>1, Zenon DEF WindowsKeepApart
  <2>2. CASE graphical
    <3>1. SUFFICES ASSUME ScreenInv PROVE WindowsKeepApart
      OBVIOUS
    <3>2. PICK r \in Resolutions : r = resolution
      BY <2>2, <3>1 DEF ScreenInv
    <3>3. /\ r.width \in Nat /\ r.height \in Nat /\ r.linesize \in Nat
          /\ r.width < Narrow
      <4>1. PICK top \in Nat : top = 2047
        OBVIOUS
      <4>2. r \in [io : {"Allegro", "Ncurses"}, width : 0 .. top, height : Nat, linesize : Nat]
        BY ONLY r \in Resolutions, LocalAgentAssumption, <4>1 DEF LocalAgentAssumption
      <4>3. r.width \in 0 .. top /\ r.height \in Nat /\ r.linesize \in Nat
        BY ONLY <4>2
      <4>4. top < Narrow
        BY <4>1, SMT DEF Narrow
      <4>5. QED
        BY ONLY <4>3, <4>4, top \in Nat, FieldSizes
    <3>4. ScreenFits(r.width, r.height, r.linesize)
      <4>1. (3 + LOGLEN) * r.linesize <= r.height /\ r.height < Wide
        BY ScreensSuffice DEF ScreensSuffice
      <4>2. QED
        BY ONLY <3>3, <4>1 DEF ScreenFits, LOGLEN
    <3>5. r.linesize = linesize
      BY <3>2 DEF linesize
    <3>6. QED
      BY <3>2, <3>3, <3>4, <3>5, AllWindows
  <2>3. QED
    BY <2>1, <2>2
<1>2. QED
  BY <1>1, InitScreenInv, NextScreenInv, PTL DEF Spec
=============================================================================
