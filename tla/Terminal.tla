------------------------------ MODULE Terminal ------------------------------
(***************************************************************************)
(* The command line of the terminal front end, by which its player chooses *)
(* options.  The prompt shows a context, whose cards and in which zone;    *)
(* a command may name another one.                                         *)
(***************************************************************************)
EXTENDS Menus

CONSTANTS
  Opponents,   (* the other players of CliUI::players                      *)
  OthersHand,  (* how many cards each of them has                          *)
  Lines        (* the lines that are typed                                 *)

ASSUME TerminalAssumption ==
  /\ IsFiniteSet(Opponents) /\ "me" \notin Opponents
  /\ OthersHand \in Nat

VARIABLES
  context,  (* the static Context of CliUI::chooseOpt                      *)
  temp,     (* temporaryContext                                            *)
  line      (* history: the line the last answer is given to               *)

terminalVars == <<context, temp, line>>

Commands == {"sel", "pass", "exit", "ls", "view", "cd", "help", "profile"}
Zones == {"hand", "graveyard", "battlefield", "stack", "exile", "commandzone"}

(* Context::descriptions: a number of two bits, you and the opponents.     *)
Who == [none |-> {}, you |-> {"you"}, opponent |-> {"opponent"},
        all |-> {"you", "opponent"}]

startContext == [where |-> "hand", who |-> "you", players |-> <<"me">>]

-----------------------------------------------------------------------------
(* A line, as far as it is read: a command, [#PLAYERS], [:ZONE] and        *)
(* [ARGUMENTS]; "" stands for a part that is left out and "?" for a word   *)
(* that is not known.                                                      *)

ASSUME LinesAssumption ==
  Lines \subseteq [cmd : Commands \cup {"?"}, who : DOMAIN Who \cup {"", "?"},
                  zone : Zones \cup {"", "?"}, arg : Seq(0 .. 9)]

NoLine == [cmd |-> "", who |-> "", zone |-> "", arg |-> <<>>]

(* Seeded fault: the players are added to those of the last context.       *)
FaultySetWho(c, l) ==
  IF l = c.who THEN c
  ELSE [c EXCEPT !.who = l,
                 !.players = c.players \o (IF "you" \in Who[l] THEN <<"me">> ELSE <<>>)
                             \o (IF "opponent" \in Who[l] THEN SetToSeq(Opponents) ELSE <<>>)]

(* Context::setWho.                                                        *)
setWho(c, l) ==
  IF l = c.who THEN c
  ELSE [c EXCEPT !.who = l,
                 !.players = (IF "you" \in Who[l] THEN <<"me">> ELSE <<>>)
                             \o (IF "opponent" \in Who[l] THEN SetToSeq(Opponents) ELSE <<>>)]

(* readContext.  A word after # that is not known stops the reading, and   *)
(* one after : is left to be read as the argument.                         *)
readContext(l, c) ==
  LET players == IF l.who \in DOMAIN Who THEN setWho(c, l.who) ELSE c
  IN  IF l.who # "?" /\ l.zone \in Zones THEN [players EXCEPT !.where = l.zone] ELSE players

(* What is left of the argument.  The loop that skips the blanks after a   *)
(* zone has moved past the character that ends it, the first of the        *)
(* argument.                                                               *)
argument(l) ==
  IF "?" \in {l.who, l.zone} THEN <<>>
  ELSE IF l.zone \in Zones /\ l.arg # <<>> THEN Tail(l.arg)
  ELSE l.arg

(* Behind a line that ends with its zone, readTarget reads what memory     *)
(* holds there.                                                            *)
beyondTheLine(l) == l.who # "?" /\ l.zone \in Zones /\ l.arg = <<>>

numeral(digits) == FoldLeft(LAMBDA n, d : 10 * n + d, 0, digits)

handOf(p) == IF p = "me" THEN Len(hand) ELSE OthersHand

(* readTarget: the player and the place of a card, or nothing.  Numbers    *)
(* start from 1, and only hands are implemented.                           *)
readTarget(l, c) ==
  LET n == numeral(argument(l))
  IN  IF n = 0 \/ c.where # "hand" \/ c.players = <<>> THEN <<>>
      ELSE IF n > handOf(c.players[1]) THEN <<>>
      ELSE <<c.players[1], n>>

(* Without players there is no pl[0].                                      *)
targetUndefined(l, c) ==
  \/ beyondTheLine(l)
  \/ numeral(argument(l)) # 0 /\ c.where = "hand" /\ c.players = <<>>

-----------------------------------------------------------------------------
(* One round of CliUI::chooseOpt.  A line that readCommand refuses is read *)
(* again into the same temporaryContext, with what it has changed there.   *)

readsTarget(l) == l.cmd \in {"sel", "view"}

refused(l, c) == l.cmd = "?" \/ (readsTarget(l) /\ readTarget(l, c) = <<>>)

command(l) ==
  LET c == IF l.cmd = "?" THEN temp ELSE readContext(l, temp)
  IN  /\ waitsFor({"option"}) /\ io = "Nano"
      /\ lineRead(1)
      /\ IF readsTarget(l) /\ targetUndefined(l, c) THEN status' = "undefined"
         ELSE status' = IF l.cmd = "exit" THEN "closed" ELSE status
      /\ context' = IF l.cmd = "cd" THEN c ELSE context
      /\ temp' = IF refused(l, c) THEN c ELSE context'
      /\ IF status' = "running" /\ (l.cmd = "pass" \/ (l.cmd = "sel" /\ ~refused(l, c)))
         THEN /\ give(<<>>, 0, IF l.cmd = "pass" THEN <<>> ELSE readTarget(l, c))
              /\ line' = l
         ELSE UNCHANGED <<question, asking, answer, line>>
      /\ UNCHANGED <<split, text, hand>>

(* An empty line is not a command.                                         *)
emptyLine ==
  /\ waitsFor({"option"}) /\ io = "Nano"
  /\ lineRead(0)
  /\ UNCHANGED <<status, question, asking, split, text, hand, answer, terminalVars>>
=============================================================================
