----------------------------- MODULE LocalAgent -----------------------------
(***************************************************************************)
(* A player at the machine of the server.  The game asks its LocalAgent,   *)
(* which passes the question on to the front end: the terminal, over Nano, *)
(* or the graphical one, over Allegro or Ncurses.  A BotAgent takes its    *)
(* place for a player without a person.                                    *)
(***************************************************************************)
EXTENDS Windows, Terminal

CONSTANTS
  Cards,        (* bound: cards the player draws, 1 .. Cards               *)
  Creatures,    (* bound: creatures that may attack, or block one attacker *)
  Powers,       (* the powers of attackers                                 *)
  Resolutions   (* what getResolution of each library may tell             *)

ASSUME LocalAgentAssumption ==
  /\ Cards \in Nat /\ Creatures \in Nat \ {0} /\ Powers \subseteq 0 .. 255
  /\ Resolutions \subseteq [io : {"Allegro", "Ncurses"}, width : 0 .. 2047,
                            height : Nat, linesize : Nat]

vars == <<io, menuVars, windowVars, terminalVars>>

Blank == [io |-> "Nano", width |-> 0, height |-> 0, linesize |-> 0]

Init ==
  /\ \/ io \in {"Bot", "Nano"} /\ resolution = Blank
     \/ \E r \in Resolutions : io = r.io /\ resolution = r
  /\ status = "running" /\ question = NoQuestion /\ answer = NoAnswer
  /\ pos = 0 /\ moves = 0 /\ selected = {} /\ nbSelected = 0 /\ number = 0
  /\ split = NoSplit
  /\ text = [hint |-> 0, typed |-> 0]
  /\ cin = FALSE
  /\ hand = <<>> /\ sprites = <<>>
  /\ direction = "NOT_RECOGNIZED" /\ path = <<>> /\ leaving = FALSE
  /\ context = startContext /\ temp = startContext
  /\ line = NoLine

-----------------------------------------------------------------------------
(* The game asks.                                                          *)

idle == waitsFor({"none"})

Asked(kind, size, min, max) ==
  [kind |-> kind, size |-> size, min |-> min, max |-> max, type |-> "none"]

asks(q) ==
  /\ idle
  /\ question' = q
  /\ answer' = NoAnswer /\ line' = NoLine
  /\ UNCHANGED <<io, status, selected, pos, moves, nbSelected, cin, hand, resolution,
                 sprites, direction, context, temp>>

same == split' = NoSplit /\ UNCHANGED <<text, number, path, leaving>>

(* Player::draw, once for the opening hand: Viewer::onDraw first.          *)
draw ==
  /\ idle /\ hand = <<>> /\ sprites = <<>>
  /\ \E n \in 1 .. Cards :
       /\ hand' = [i \in 1 .. n |-> i]
       /\ addCards([i \in 1 .. n |-> i])
  /\ UNCHANGED <<io, status, question, asking, split, text, cin, answer, resolution,
                 moving, terminalVars>>

(* getName, getDeckFile.                                                   *)
askText ==
  /\ \E kind \in {"text", "deck"} : asks(Asked(kind, 0, 0, 0))
  /\ text' = shownText /\ split' = NoSplit
  /\ UNCHANGED <<number, path, leaving>>

(* keepsHand.  simpleChoice of Allegro starts from the first choice.       *)
keepsHand ==
  /\ asks(Asked("keep", 0, 0, 0))
  /\ number' = IF io = "Allegro" THEN 1 ELSE 0
  /\ split' = NoSplit
  /\ UNCHANGED <<text, path, leaving>>

(* chooseCardsToKeep: as many as there have been mulligans.                *)
chooseCardsToKeep ==
  /\ \E n \in 0 .. Len(hand) : asks(Asked("checklist", Len(hand), n, n))
  /\ same

(* chooseAttackers, if there are creatures.                                *)
chooseAttackers ==
  /\ \E n \in 1 .. Creatures : asks(Asked("attackers", n, 0, n))
  /\ same

(* chooseBlockers; there are attackers.                                    *)
chooseBlockers ==
  /\ \E n \in 0 .. Creatures : asks(Asked("blockers", n, 0, 0))
  /\ same

splitDamage ==
  /\ \E n \in 0 .. Creatures, p \in Powers :
       /\ asks(Asked("split", n, 0, 0))
       /\ split' = [power |-> p, left |-> p, given |-> <<>>]
  /\ UNCHANGED <<text, number, path, leaving>>

chooseTarget ==
  /\ \E t \in DOMAIN TargetTypes :
       asks([Asked("target", 0, 0, 0) EXCEPT !.type = t])
  /\ IF graphical THEN iterateScreen ELSE UNCHANGED <<path, leaving>>
  /\ split' = NoSplit
  /\ UNCHANGED <<text, number>>

chooseOpt == asks(Asked("option", 0, 0, 0)) /\ same

ask == \/ askText \/ keepsHand \/ chooseCardsToKeep \/ chooseAttackers
       \/ chooseBlockers \/ splitDamage \/ chooseTarget \/ chooseOpt

-----------------------------------------------------------------------------
(* Answers that are not asked for.                                         *)

unasked ==
  /\ UNCHANGED <<io, status, split, text, cin, hand, resolution, sprites, direction,
                 leaving, terminalVars>>
  /\ path' = <<>>

(* GraphicalUI::chooseblockers: every creature blocks the first attacker.  *)
(* CliUI does not block.                                                   *)
blockers ==
  /\ waitsFor({"blockers"}) /\ io # "Bot"
  /\ give(IF graphical THEN [n \in 1 .. question.size |-> 1] ELSE <<>>, 0, <<>>)
  /\ unasked

(* CliUI chooses no target and gives no damage, GraphicalUI no option; and *)
(* there is nothing to give without blockers.                              *)
nothing ==
  /\ \/ waitsFor({"target", "split"}) /\ io = "Nano"
     \/ waitsFor({"split"}) /\ question.size = 0
     \/ waitsFor({"option"}) /\ graphical
  /\ io # "Bot"
  /\ give(<<>>, 0, <<>>)
  /\ unasked

(* BotAgent: keeps its hand, and returns nothing of all else.  It opens    *)
(* one deck file, once.                                                    *)
botAnswers ==
  /\ status = "running" /\ question # NoQuestion /\ io = "Bot"
  /\ give(<<>>, IF question.kind = "keep" THEN 1 ELSE 0, <<>>)
  /\ unasked

-----------------------------------------------------------------------------
Next ==
  \/ draw \/ ask \/ blockers \/ nothing \/ botAnswers
  \/ io # "Bot" /\ menuStep /\ UNCHANGED <<io, windowVars, terminalVars>>
  \/ windowStep /\ UNCHANGED <<io, terminalVars>>
  \/ ((\E l \in Lines : command(l)) \/ emptyLine)
     /\ UNCHANGED <<io, windowVars>>

Spec == Init /\ [][Next]_vars

-----------------------------------------------------------------------------
(* Properties.                                                             *)

(* A front end is in the middle of at most one question, and what it shows *)
(* belongs to that question: a position inside the list, marks only in a   *)
(* list, and a path of windows from the screen down only for a target.     *)
TypeOK ==
  /\ status \in {"running", "closed", "hung", "undefined"}
  /\ question.kind \in {"none", "text", "deck", "keep", "checklist", "attackers",
                        "blockers", "split", "target", "option"}
  /\ pos \in 0 .. question.size
  /\ selected # {} => question.kind \in lists /\ selected \subseteq 0 .. question.size
  /\ question.kind = "checklist" => nbSelected = Cardinality(selected)
  /\ path # <<>> => question.kind = "target" /\ Head(path) = <<"screen">>
  /\ \A n \in 2 .. Len(path) : path[n] \in Range(parts(path[n - 1]))
  /\ split.left \in 0 .. split.power

(* What BasicIO::checklist splices out of a list (basicIO.h:99) are marked *)
(* items; they and the rest are the list, each once and in order; and one  *)
(* run of marked items comes out whole, wherever it is.                    *)
ChecklistReturnsMarked ==
  [][(question.kind = "checklist" /\ answer'.to = "checklist" /\ selected # {}) =>
       LET marked == selected \cap 0 .. question.size - 1
           out    == {i \in 0 .. question.size - 1 : hand[i + 1] \in Range(answer'.cards)}
       IN  /\ out \subseteq marked
           /\ answer'.cards = cardsAt(hand, out)
           /\ hand' = cardsAt(hand, (0 .. question.size - 1) \ out)
           /\ (marked # {} /\ marked = Min(marked) .. Max(marked)) => out = marked]_vars

(* GraphicalUI::splitDamage (graphical_ui.cpp:28) gives the blockers of an *)
(* attacker no more than its power between them, whatever keys are pressed *)
(* while getInt waits.                                                     *)
DamageWithinPower ==
  /\ MapThenSumSet(LAMBDA n : split.given[n], DOMAIN split.given) <= split.power
  /\ Len(split.given) <= question.size \/ answer.cards = split.given

(* The prompt tells Context::who; the cards that sel counts are those of   *)
(* Context::players (cliUI_terminal.cpp:143).  After any commands, cd and  *)
(* refused ones too, these are the players the prompt names, each once.    *)
PlayersMatchWho ==
  \A c \in {context, temp} :
    /\ Range(c.players) = (IF "you" \in Who[c.who] THEN {"me"} ELSE {})
                             \cup (IF "opponent" \in Who[c.who] THEN Opponents ELSE {})
    /\ Len(c.players) = Cardinality(Range(c.players))

apart(r, s)  == right(r) <= s.y \/ right(s) <= r.y \/ bottom(r) <= s.z \/ bottom(s) <= r.z
inside(r, s) == r.y >= s.y /\ right(r) <= right(s) /\ r.z >= s.z /\ bottom(r) <= bottom(s)
allApart(rs) == \A m, n \in DOMAIN rs : m < n => apart(rs[m], rs[n])

(* Screen::initScreen and the setCoords it calls (argus.cpp:8) put the     *)
(* three bars side by side on the screen, the zones of the right bar and   *)
(* the header and rows of each side one below the other, each inside what  *)
(* it is part of.  Where the sides of the two players overlap, it is in    *)
(* their two common lines only.                                            *)
WindowsKeepApart ==
  graphical =>
    LET screen == initScreen
        bars   == <<screen.leftBar, screen.board, screen.rightBar>>
        zones  == rightLayout(screen.rightBar)
        shown  == <<zones.options, zones.message, zones.logbook>>
        side(i) == sideLayout(sideRect(screen.board, i))
        stripes(i) == <<side(i).header>> \o side(i).rows
    IN  /\ allApart(bars) /\ allApart(shown)
        /\ \A n \in DOMAIN bars :
             inside(bars[n], Rect(0, 0, resolution.width, resolution.height))
        /\ \A n \in DOMAIN shown : inside(shown[n], screen.rightBar)
        /\ \A i \in {1, 2} :
             /\ allApart(stripes(i))
             /\ \A n \in DOMAIN stripes(i) : inside(stripes(i)[n], sideRect(screen.board, i))
        /\ bottom(sideRect(screen.board, 1)) - sideRect(screen.board, 2).z <= 2 * linesize + 1

(* BasicIO::checklist asks to "select between %d and %d" cards             *)
(* (basicIO.h:95): it returns that many.                                   *)
ReturnsAsManyAsAsked ==
  [][(io # "Bot" /\ question.kind = "checklist" /\ answer'.to = "checklist") =>
       Len(answer'.cards) \in question.min .. question.max]_vars
=============================================================================
