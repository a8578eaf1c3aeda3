------------------------------- MODULE Menus -------------------------------
(***************************************************************************)
(* The questions a front end puts to the player at the machine, and how    *)
(* the three input libraries ask them: Nano reads standard input, Ncurses  *)
(* and Allegro read keys.  One question is asked at a time, by the thread  *)
(* that plays.                                                             *)
(***************************************************************************)
EXTENDS Integers, Sequences, FiniteSets, FiniteSetsExt, SequencesExt

CONSTANT MaxTyped   (* bound: characters the player adds to a text         *)

VARIABLES
  io,          (* the library, or "Bot": BotAgent answers without one      *)
  status,      (* running; closed by UIClosedException; hung in a loop     *)
               (* that never ends; or undefined, after undefined behaviour *)
  question,    (* what is asked                                            *)
  pos, moves,  (* the position in the list, and how often the iterator of  *)
               (* the list has been moved                                  *)
  selected, nbSelected,
  number,      (* what getInt or simpleChoice shows                        *)
  split,       (* the split of damage: power, what is left, what is given  *)
  text,        (* the text shown: what is left of the hint, what is typed  *)
  cin,         (* whether the rest of a line is left on standard input     *)
  hand,        (* the cards the player has                                 *)
  answer

asking == <<pos, moves, selected, nbSelected, number>>
menuVars == <<status, question, asking, split, text, cin, hand, answer>>

NoQuestion == [kind |-> "none", size |-> 0, min |-> 0, max |-> 0, type |-> "none"]
NoAnswer == [to |-> "none", cards |-> <<>>, number |-> 0, what |-> <<>>]

NoSplit == [power |-> 0, left |-> 0, given |-> <<>>]

Hint == 17   (* characters in "Type something..."                          *)

waitsFor(kinds) == status = "running" /\ question.kind \in kinds

-----------------------------------------------------------------------------
(* Keys.  get_direction_key returns at a key of its library's table, and   *)
(* goes on waiting at any other.                                           *)

KeyDirection ==
  [Allegro |-> [down |-> "DOWN", up |-> "UP", enter |-> "ENTER", space |-> "BACK",
                right |-> "RIGHT", left |-> "LEFT", other |-> "NOT_RECOGNIZED",
                mouse |-> "MOUSE", button |-> "ENTER"],
   Ncurses |-> [down |-> "DOWN", up |-> "UP", space |-> "ENTER", enter |-> "BACK",
                right |-> "RIGHT", left |-> "LEFT", mouse |-> "MOUSE",
                button |-> "ENTER"]]

graphical == io \in DOMAIN KeyDirection

direction_key(d) ==
  graphical /\ \E k \in DOMAIN KeyDirection[io] : KeyDirection[io][k] = d

(* The window of Allegro may be closed whenever it waits for an event.     *)
close ==
  /\ waitsFor({"checklist", "attackers", "split", "keep", "text", "deck", "target"})
  /\ io = "Allegro"
  /\ question.kind = "checklist" => ~(question.max = 0 \/ question.min = question.size)
  /\ question.kind = "split" => split.left > 0 /\ Len(split.given) < question.size
  /\ status' = "closed"
  /\ UNCHANGED <<question, asking, split, text, cin, hand, answer>>

-----------------------------------------------------------------------------
(* Standard input, of which the end is left out.  Numbers out of the       *)
(* bounds are asked for again; letters are read as 0, within all of them.  *)

numberRead(lower, upper, w) == io = "Nano" /\ w \in lower .. upper /\ cin' = TRUE

(* A line begins at what reading a number or a letter has left of one.     *)
lineRead(typed) ==
  /\ io = "Nano"
  /\ cin => typed = 0
  /\ cin' = FALSE

-----------------------------------------------------------------------------
(* Answers.                                                                *)

reset == pos' = 0 /\ moves' = 0 /\ selected' = {} /\ nbSelected' = 0 /\ number' = 0

give(cards, n, what) ==
  /\ question' = NoQuestion /\ reset
  /\ answer' = [to |-> question.kind, cards |-> cards, number |-> n, what |-> what]

loses(how) ==
  /\ status' = how
  /\ UNCHANGED <<question, asking, split, text, hand, answer>>

-----------------------------------------------------------------------------
(* The lists: checklist and chooseAttackers call getNextPosition until it  *)
(* commits.  chooseAmong would too, but no option that can be chosen asks. *)

lists == {"checklist", "attackers"}

(* A checklist of as many as there are, or of none, is not shown.          *)
notShown == question.max = 0 \/ question.min = question.size
listShown == waitsFor(lists) /\ (question.kind = "checklist" => ~notShown)

(* In Nano the loops that bring position to a number end one before it.    *)
nextPosition(action, p) ==
  \/ /\ graphical /\ p = pos /\ UNCHANGED cin
     /\ \E d \in IF action = "change" THEN {"UP", "DOWN"} ELSE {"ENTER", "BACK"} :
          direction_key(d)
  \/ \E w \in {-1} \cup 1 .. question.size :
       /\ numberRead(-1, question.size, w)
       /\ action = IF w = -1 THEN "commit" ELSE "change"
       /\ p = IF w = -1 THEN pos ELSE w - 1

(* At 0, or letters, the second loop of Nano waits for an unsigned number  *)
(* below 0.                                                                *)
zeroTyped ==
  /\ listShown
  /\ numberRead(-1, question.size, 0)
  /\ loses("hung")

(* Seeded fault: the end is noticed when it has been passed.               *)
FaultyAtEnd == pos > question.size

atEnd == pos = question.size

(* LEFT and RIGHT: the iterator of the list moves on either way, for       *)
(* operator-- increments.  That of a std::list goes round, but one over    *)
(* creatures is nullptr at the end, and the next move dereferences it.     *)
moveCursor ==
  /\ listShown
  /\ \/ direction_key("LEFT") /\ pos # 0 /\ pos' = pos - 1
     \/ direction_key("RIGHT") /\ ~atEnd /\ pos' = pos + 1
  /\ LET past == question.kind = "attackers" /\ moves = question.size
     IN  /\ moves' = IF question.kind # "attackers" \/ past THEN moves ELSE moves + 1
         /\ status' = IF past THEN "undefined" ELSE status
  /\ UNCHANGED <<question, selected, nbSelected, number, split, text, cin, hand, answer>>

(* change: position question.size, behind the last item, can be marked     *)
(* like the others, and counts.  Its mark is selected[size + 1], one place *)
(* behind the vector<bool>: taken for a mark of its own, as it is one more *)
(* bit of the vector's last word for lists of less than 63 items.          *)
change ==
  /\ listShown
  /\ \E p \in 0 .. question.size :
       /\ nextPosition("change", p)
       /\ pos' = p
       /\ selected' = SymDiff(selected, {p})
       /\ nbSelected' = IF question.kind # "checklist" THEN 0
                        ELSE IF p \in selected THEN nbSelected - 1 ELSE nbSelected + 1
  /\ UNCHANGED <<status, question, moves, number, split, text, hand, answer>>

(* Seeded fault: an item is compared with the one after the next.          *)
FaultyBoundary(marked, i) == (i - 1 \in marked) # (i + 1 \in marked)

(* selected[i] != selected[i + 1]: a run begins or ends before item i.      *)
boundary(marked, i) == (i - 1 \in marked) # (i \in marked)

(* The items checklist returns: each run of marked ones is spliced out     *)
(* when its end is met.  The loop compares its index with what is left of  *)
(* the list, so it ends that many items early, at a run that has begun or  *)
(* before one that has not.  Items are numbered from 0.                    *)
returned(size, marked) ==
  LET round[i \in 0 .. size] ==
        IF i = 0 THEN [from |-> -1, taken |-> {}]
        ELSE LET s == round[i - 1]
             IN  IF i - 1 >= size - Cardinality(s.taken) \/ ~boundary(marked, i - 1) THEN s
                 ELSE IF s.from = -1 THEN [s EXCEPT !.from = i - 1]
                 ELSE [from |-> -1, taken |-> s.taken \cup s.from .. i - 2]
      last == round[size]
  IN  IF last.from = -1 THEN last.taken
      ELSE last.taken \cup last.from .. size - Cardinality(last.taken) - 1

(* Positions, from the first one in the list to the last: the n-th has n   *)
(* of them up to itself.                                                   *)
inOrder(at) ==
  [n \in 1 .. Cardinality(at) |-> CHOOSE i \in at : Cardinality({j \in at : j <= i}) = n]

(* The cards of a list at the positions in at, in order.                   *)
cardsAt(list, at) ==
  LET kept == inOrder({i \in DOMAIN list : i - 1 \in at})
  IN  [n \in DOMAIN kept |-> list[kept[n]]]

chosenUnasked ==
  /\ waitsFor({"checklist"}) /\ notShown
  /\ IF question.max = 0 THEN give(<<>>, 0, <<>>) /\ UNCHANGED hand
     ELSE give(hand, 0, <<>>) /\ hand' = <<>>
  /\ UNCHANGED <<status, split, text, cin>>

commitChecklist ==
  /\ listShown /\ question.kind = "checklist"
  /\ nextPosition("commit", pos)
  /\ IF question.min <= nbSelected /\ nbSelected <= question.max
     THEN LET out == returned(question.size, selected)
          IN  /\ give(cardsAt(hand, out), 0, <<>>)
              /\ hand' = cardsAt(hand, (0 .. question.size - 1) \ out)
     ELSE UNCHANGED <<question, asking, hand, answer>>
  /\ UNCHANGED <<status, split, text>>

(* chooseAttackers splices the marked creatures over.                      *)
commitAttackers ==
  /\ waitsFor({"attackers"})
  /\ nextPosition("commit", pos)
  /\ give(inOrder(selected \cap 0 .. question.size - 1), 0, <<>>)
  /\ UNCHANGED <<status, split, text, hand>>

-----------------------------------------------------------------------------
(* getInt, for GraphicalUI::splitDamage: the damage of an attacker goes to *)
(* its blockers one after the other.                                       *)

splitting == waitsFor({"split"}) /\ graphical /\ Len(split.given) < question.size
toSplit == split.left > 0

clamp(n) == Min({split.left, Max({0, n})})

adjust ==
  /\ splitting /\ toSplit /\ io = "Allegro"
  /\ \E d \in {-5, -1, 1, 5} : number' = clamp(number + d)
  /\ UNCHANGED <<status, question, pos, moves, selected, nbSelected, split, text, cin, hand, answer>>

(* Seeded fault: what is given is not taken from what is left.             *)
FaultyGiven(n) == [split EXCEPT !.given = Append(@, n % 256)]

(* power -= i; pair.first = i, a byte.                                     *)
given(n) == [split EXCEPT !.left = @ - n, !.given = Append(@, n % 256)]

(* Without damage left getInt returns at once.  In Allegro a key that is   *)
(* neither an arrow nor ENTER returns 0, whatever is shown; Ncurses scans  *)
(* a number, and one out of the bounds is asked for again.                 *)
gives ==
  /\ splitting
  /\ \E n \in IF ~toSplit THEN {0}
               ELSE IF io = "Allegro" THEN {number, 0}
               ELSE 0 .. split.left :
       /\ split' = given(n)
       /\ IF Len(split.given) + 1 = question.size THEN give(split'.given, 0, <<>>)
          ELSE reset /\ UNCHANGED <<question, answer>>
  /\ UNCHANGED <<status, text, cin, hand>>

-----------------------------------------------------------------------------
(* simpleChoice, for "Keep Hand" and "Mulligan".  In Allegro the arrows    *)
(* switch and ENTER returns; Ncurses and Nano read one character.          *)

switchChoice ==
  /\ waitsFor({"keep"}) /\ io = "Allegro"
  /\ direction_key("UP")
  /\ number' = 1 - number
  /\ UNCHANGED <<status, question, pos, moves, selected, nbSelected, split, text, cin, hand, answer>>

choose ==
  /\ waitsFor({"keep"})
  /\ \E b \in IF io = "Allegro" THEN {number} ELSE {0, 1} : give(<<>>, b, <<>>)
  /\ cin' = (cin \/ io = "Nano")
  /\ UNCHANGED <<status, split, text, hand>>

-----------------------------------------------------------------------------
(* getTextInput.  In Allegro the hint is part of the text: what is typed   *)
(* is appended to it, and is taken back before it.                         *)

type ==
  /\ waitsFor({"text", "deck"}) /\ io = "Allegro"
  /\ \/ text.typed < MaxTyped /\ text' = [text EXCEPT !.typed = @ + 1]
     \/ text.typed > 0 /\ text' = [text EXCEPT !.typed = @ - 1]
     \/ text.typed = 0 /\ text.hint > 0 /\ text' = [text EXCEPT !.hint = @ - 1]
  /\ UNCHANGED <<status, question, asking, split, cin, hand, answer>>

(* What it returns, as the characters of the hint and of the player.  A    *)
(* word that Ncurses scans has at least one.                               *)
textRead(t) ==
  \/ io = "Allegro" /\ t = text /\ UNCHANGED cin
  \/ io = "Ncurses" /\ t \in [hint : {0}, typed : 1 .. MaxTyped] /\ UNCHANGED cin
  \/ t \in [hint : {0}, typed : 0 .. MaxTyped] /\ lineRead(t.typed)

shownText == [hint |-> IF io = "Allegro" THEN Hint ELSE 0, typed |-> 0]

(* getName, getLogin: any text will do.  getDeckFile asks until a file     *)
(* opens; no file is called by the hint or by nothing.                     *)
enterText ==
  /\ waitsFor({"text", "deck"})
  /\ \E t \in [hint : 0 .. Hint, typed : 0 .. MaxTyped] :
       /\ textRead(t)
       /\ \/ /\ question.kind = "text" \/ (t.hint = 0 /\ t.typed > 0)
             /\ give(<<>>, t.typed, <<>>)
          \/ question.kind = "deck" /\ UNCHANGED <<question, asking, answer>>
       /\ text' = shownText
  /\ UNCHANGED <<status, split, hand>>

menuStep ==
  \/ close \/ zeroTyped \/ moveCursor \/ change
  \/ chosenUnasked \/ commitChecklist \/ commitAttackers
  \/ adjust \/ gives \/ switchChoice \/ choose \/ type \/ enterText
=============================================================================
