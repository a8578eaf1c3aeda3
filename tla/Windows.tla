------------------------------ MODULE Windows ------------------------------
(***************************************************************************)
(* The screen of the graphical front end: where its windows are, and how   *)
(* the player moves from one to the next to choose a target.  A window is  *)
(* named by its class, with the number of the side it is on.               *)
(***************************************************************************)
EXTENDS Menus

VARIABLES
  resolution,  (* width, height and line size, from getResolution          *)
  sprites,     (* the cards the option zone has a sprite of                *)
  direction,   (* UIElement::direction, which outlives a question          *)
  path,        (* the galleries being iterated, and the element, from the  *)
               (* screen on                                                *)
  leaving      (* the last of path has returned nullptr                    *)

windowVars == <<resolution, sprites, direction, path, leaving>>
moving == <<direction, path, leaving>>

-----------------------------------------------------------------------------
(* Layout.  A Rect keeps y in 11 bits and the rest in 16.                  *)

Rect(y, z, width, height) ==
  [y |-> y % 2^11, z |-> z % 2^16, width |-> width % 2^16, height |-> height % 2^16]

shift(r, dy, dz) == Rect(r.y + dy, r.z + dz, r.width, r.height)
right(r)  == r.y + r.width
bottom(r) == r.z + r.height

(* Division as in C++, towards zero.                                       *)
quotient(a, b) == IF a >= 0 THEN a \div b ELSE -((-a) \div b)

linesize == resolution.linesize
LOGLEN == 7

(* Board::setCoords: the sides share two lines.                            *)
sideRect(board, i) ==
  LET child == Rect(board.y, board.z, board.width, board.height \div 2 + linesize)
  IN  IF i = 1 THEN child ELSE shift(child, 0, board.height \div 2 - linesize)

(* PlayerSide::setCoords, BoardSidePolicy::init.                           *)
sideLayout(r) ==
  LET playerH == Max({3 * (r.height \div 13), 2 * linesize})
      sixth   == quotient(r.height - 2 * playerH, 6)
      size    == IF sixth < 3 * linesize THEN quotient(r.height - 2 * playerH, 5) ELSE sixth
      margin  == quotient(r.height - playerH - 5 * size, 5)
      start   == r.z + playerH + margin
      first   == Rect(r.y, start, r.width, size)
  IN  [header |-> Rect(r.y, r.z, r.width, playerH),
       rows   |-> [n \in 1 .. 5 |-> shift(first, 0, (n - 1) * (size + margin))]]

(* LeftBar::setCoords.                                                     *)
leftLayout(r) ==
  LET poster == Rect(r.y, r.z, r.width, (6 * r.height) \div 10)
  IN  [poster |-> poster, stack |-> shift(poster, 0, poster.height + 2 * linesize)]

(* Seeded fault: the log is put where the message is.                      *)
FaultyRightLayout(r) ==
  LET options == Rect(r.y, r.z, r.width, r.height - (3 + LOGLEN) * linesize)
      at(z, lines) == Rect(r.y, z, r.width, lines * linesize)
  IN  [options |-> options,
       message |-> at(bottom(options), 3),
       logbook |-> at(bottom(options), LOGLEN)]

(* RightBar::setCoords.                                                    *)
rightLayout(r) ==
  LET options == Rect(r.y, r.z, r.width, r.height - (3 + LOGLEN) * linesize)
      at(z, lines) == Rect(r.y, z, r.width, lines * linesize)
  IN  [options |-> options,
       message |-> at(bottom(options), 3),
       logbook |-> at(bottom(options) + 3 * linesize, LOGLEN)]

(* Screen::initScreen.                                                     *)
initScreen ==
  LET w == resolution.width   h == resolution.height
      board   == Rect(0, 0, w - w \div 4 - w \div 5, h)
      leftBar == Rect(board.width, 0, w \div 4, h)
  IN  [board |-> board, leftBar |-> leftBar, rightBar |-> Rect(right(leftBar), 0, w \div 5, h)]

-----------------------------------------------------------------------------
(* The tree of windows.  Nothing is ever put into the stack and the rows.  *)

Rows == <<"attacker", "creature", "planeswalker", "artifact", "land">>

(* The two or three objects of a policy, and what a container holds.       *)
objects(w) ==
  CASE w[1] = "screen"     -> << <<"leftBar">>, <<"board">>, <<"rightBar">> >>
    [] w[1] = "leftBar"    -> << <<"poster">>, <<"stack">> >>
    [] w[1] = "side"       -> << <<"header", w[2]>>, <<"boardside", w[2]>> >>
    [] w[1] = "rightBar"   -> << <<"optionZone">>, <<"messageZone">>, <<"logbookZone">> >>
    [] OTHER               -> <<>>

contained(w) ==
  CASE w[1] = "board"      -> << <<"side", 1>>, <<"side", 2>> >>
    [] w[1] = "boardside"  -> [n \in 1 .. 5 |-> <<Rows[n], w[2]>>]
    [] w[1] = "optionZone" -> [n \in DOMAIN sprites |-> <<"card", sprites[n]>>]
    [] OTHER               -> <<>>

parts(w) == objects(w) \o contained(w)

isGallery(w) == w[1] \notin {"poster", "messageZone", "logbookZone", "header", "card"}

(* BoardRow declares its orientation horizontal, but the galleries iterate *)
(* by a member of TemplateGallery, which takes that of its policy.         *)
vertical(w) == w[1] # "screen"

(* GraphicalUI::addCards: sprites are added and never taken away.          *)
addCards(cards) == sprites' = IF graphical THEN sprites \o cards ELSE sprites

-----------------------------------------------------------------------------
(* iterate().                                                              *)

iterating == waitsFor({"target"}) /\ path # <<>>
here == Last(path)

noTarget == <<>>

(* GraphicalUI::chooseTarget.  direction is that of the last question.     *)
iterateScreen == path' = << <<"screen">> >> /\ leaving' = FALSE

(* A gallery begins at one of its ends.  In an empty one, that is none.    *)
enterGallery ==
  /\ iterating /\ ~leaving /\ isGallery(here)
  /\ LET ps == parts(here)
     IN  IF ps = <<>>
         THEN status' = "undefined" /\ UNCHANGED path
         ELSE /\ path' = Append(path, IF direction \in {"RIGHT", "DOWN"} THEN Head(ps)
                                      ELSE Last(ps))
              /\ UNCHANGED status
  /\ UNCHANGED <<question, asking, split, text, cin, hand, answer>>
  /\ UNCHANGED <<resolution, sprites, direction, leaving>>

(* Flags of the types a question can ask for, and of what can be pointed   *)
(* at.  No Gamer sets its type, so a header has no flags.                  *)
TargetTypes ==
  [player   |-> {"damageable", "1"},
   creature |-> {"damageable", "optionable", "permanent", "2"},
   card     |-> {"optionable", "1"}]

targetType(w) == IF w[1] = "card" THEN TargetTypes["card"] ELSE {}

B_is_a_A(a, b) == b \subseteq a

(* getTarget: a Rectangle has none, a Sprite has what it points at.        *)
getTarget(w) ==
  IF /\ w[1] \in {"header", "card"}
     /\ B_is_a_A(TargetTypes[question.type], targetType(w))
  THEN w ELSE noTarget

dangling(w) == w[1] = "card" /\ w[2] \notin Range(hand)

(* LowestUIElement::iterate: ENTER returns a target if there is one; BACK  *)
(* does nothing while a target is needed, and chooseTarget needs one.  At  *)
(* any other direction, a move of the mouse among them, the element is     *)
(* left.  The sprite of a card that is gone points at freed memory.        *)
pressKey ==
  /\ iterating /\ ~leaving /\ ~isGallery(here)
  /\ \E d \in {"UP", "DOWN", "LEFT", "RIGHT", "BACK", "ENTER", "MOUSE", "NOT_RECOGNIZED"} :
       /\ direction_key(d)
       /\ direction' = d
       /\ leaving' = (d \notin {"ENTER", "NOT_RECOGNIZED", "BACK"})
       /\ IF d = "ENTER" /\ dangling(here)
          THEN status' = "undefined" /\ UNCHANGED <<question, asking, answer, path>>
          ELSE /\ UNCHANGED status
               /\ IF d = "ENTER" /\ getTarget(here) # noTarget
                  THEN give(<<>>, 0, getTarget(here)) /\ path' = <<>>
                  ELSE UNCHANGED <<question, asking, answer, path>>
  /\ UNCHANGED <<split, text, cin, hand, resolution, sprites>>

(* TemplateGallery::iterate goes on when its element returns nullptr: LEFT *)
(* goes back in a vertical gallery and UP in a horizontal one.  Past its   *)
(* ends, or in another direction, it returns nullptr itself; and so does   *)
(* chooseTarget when the screen does.                                      *)
leaveElement ==
  /\ iterating /\ leaving
  /\ IF Len(path) = 1
     THEN give(<<>>, 0, noTarget) /\ path' = <<>> /\ leaving' = FALSE
     ELSE LET above == Front(path)
              ps    == parts(Last(above))
              i     == CHOOSE n \in DOMAIN ps : ps[n] = here
              to    == CASE direction = (IF vertical(Last(above)) THEN "LEFT" ELSE "UP") -> i - 1
                         [] direction = (IF vertical(Last(above)) THEN "DOWN" ELSE "RIGHT") -> i + 1
                         [] OTHER -> 0
          IN  /\ leaving' = (to \notin DOMAIN ps)
              /\ path' = IF to \in DOMAIN ps THEN Append(above, ps[to]) ELSE above
              /\ UNCHANGED <<question, asking, answer>>
  /\ UNCHANGED <<status, split, text, cin, hand, resolution, sprites, direction>>

windowStep == enterGallery \/ pressKey \/ leaveElement
=============================================================================
