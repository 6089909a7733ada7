------------------------------ MODULE Farmhouse ------------------------------
(***************************************************************************)
(* The Abandoned Farm House Adventure (programs/farmhouse): a game whose   *)
(* rules are spread over the handlers of its commands, what happens after  *)
(* every line whatever it said (doActions), and the loops around them.     *)
(*                                                                         *)
(* A line is a sequence of words in lower case, one blank between two; of  *)
(* a word the code looks at the first letter, or at all of it.  The texts  *)
(* the player sees are left out but for how a game ends.                   *)
(***************************************************************************)
EXTENDS Integers, Sequences
LOCAL INSTANCE SequencesExt

MAXITEMS == 5

DescriptionOfItem ==
  <<<<"key">>, <<"pitchfork">>, <<"flashlight">>, <<"lamp">>, <<"oil">>, <<"candybar">>, <<"bottle">>, <<"doll">>,
    <<"toy", "car">>, <<"matches">>, <<"gold", "coin">>, <<"silver", "coin">>, <<"stale", "meat">>, <<"book">>,
    <<"cheese">>, <<"old", "radio">>>>
Items == DOMAIN DescriptionOfItem
NoItem == 0
Flashlight == 3

\* The places that are more than a place; one is a number, as in the map.
Locations == 1 .. 31
NoLocation == 0
Driveway1 == 1
MasterBedroom == 17
ServantsQuarters == 18
VacantRoom == 21
Cistern == 22
Tunnel == 23
WolfTree == 27

\* From a place to the north, south, east and west, up and down.
Move ==
  <<<< 2, 0, 0, 0, 0, 0>>, << 4, 1, 3, 5, 0, 0>>, << 0, 0, 6, 2, 0, 0>>, << 7, 2, 0, 0, 0, 0>>, << 0, 0, 2, 9, 0, 0>>,
    << 0, 0, 0, 3, 0, 0>>, << 0, 4, 0, 0, 8, 0>>, << 0, 0, 0, 0, 0, 7>>, << 0,10, 5, 0, 0,19>>, << 9, 0, 0,11, 0, 0>>,
    << 0, 0,10,12,14, 0>>, <<13, 0,11, 0, 0, 0>>, << 0,12, 0, 0, 0, 0>>, <<16, 0,15,17, 0,11>>, << 0, 0, 0,14, 0, 0>>,
    << 0,14, 0, 0, 0, 0>>, << 0, 0,14, 0, 0, 0>>, << 0, 0, 0, 0, 0,13>>, << 0, 0, 0,20, 9, 0>>, <<21, 0,19, 0, 0, 0>>,
    << 0,20, 0,22, 0, 0>>, << 0, 0,21, 0, 0, 0>>, <<24,21, 0, 0, 0, 0>>, <<29,23, 0,26, 0, 0>>, <<26, 0,24, 0, 0, 0>>,
    <<27,25,29, 0, 0, 0>>, << 0,26,28, 0, 0, 0>>, << 0,29,31,27, 0, 0>>, <<28,24,30,26, 0, 0>>, <<31, 0, 0,29, 0, 0>>,
    << 0,30, 0,29, 0, 0>>>>
Directions == <<"n", "s", "e", "w", "u", "d">>
DescriptionOfDirection == <<"north", "south", "east", "west", "up", "down">>
\* The two doors of the map, to be opened, lead north.
DoorTo == [loc \in {MasterBedroom, VacantRoom} |-> IF loc = MasterBedroom THEN ServantsQuarters ELSE Tunnel]

\* A new game.  `asking' is the question the next line answers, "" if it is a command;
\* `ends' is what the player is told the game ends by.
initialize ==
  [currentLocation |-> Driveway1, opened |-> {}, turnsPlayed |-> 0,
   lampLit |-> FALSE, lampFilled |-> FALSE, ateFood |-> FALSE, drankWater |-> FALSE, ratAttack |-> 0, wolfState |-> 0,
   Inventory |-> [k \in 1 .. MAXITEMS |-> IF k = 1 THEN Flashlight ELSE NoItem],
   locationOfItem |-> <<1, 8, NoLocation, 7, 6, 9, 2, 16, 15, 18, 25, 29, 10, 12, 19, 17>>,
   gameOver |-> FALSE, asking |-> "", ends |-> ""]

------------------------------------------------------------------------------
(* The commands. *)

Letter1(word) == SubSeq(word, 1, 1)
First1(line) == IF line = <<>> THEN "" ELSE Letter1(Head(line))
\* What is behind the first blank, and whether there is one.
Object(line) == Tail(line)
HasObject(line) == Len(line) > 1

carryingItem(g, item) == \E k \in 1 .. MAXITEMS : g.Inventory[k] # NoItem /\ DescriptionOfItem[g.Inventory[k]] = item
itemIsHere(g, item) == \E i \in Items : DescriptionOfItem[i] = item /\ g.locationOfItem[i] = g.currentLocation
AtHand(g, item) == carryingItem(g, item) \/ itemIsHere(g, item)

Turn(g) == [g EXCEPT !.turnsPlayed = @ + 1]
Over(g) == [g EXCEPT !.gameOver = TRUE]
Smallest(S) == CHOOSE k \in S : \A j \in S : k <= j

doDrop(g, line) ==
  LET slots == {k \in 1 .. MAXITEMS : g.Inventory[k] # NoItem /\ DescriptionOfItem[g.Inventory[k]] = Object(line)}
      slot == Smallest(slots)
  IN IF ~HasObject(line) \/ slots = {} THEN g
     ELSE Turn([g EXCEPT !.locationOfItem[g.Inventory[slot]] = g.currentLocation, !.Inventory[slot] = NoItem])

doTake(g, line) ==
  LET here == {i \in Items : DescriptionOfItem[i] = Object(line) /\ g.locationOfItem[i] = g.currentLocation}
      free == {k \in 1 .. MAXITEMS : g.Inventory[k] = NoItem}
      item == Smallest(here)
  IN IF ~HasObject(line) \/ carryingItem(g, Object(line)) \/ here = {} \/ free = {} THEN g
     ELSE Turn([g EXCEPT !.Inventory[Smallest(free)] = item, !.locationOfItem[item] = NoLocation])

\* The direction is the first letter of the last word; an open door is an exit.
ExitTo(g, dir) ==
  IF dir = 1 /\ g.currentLocation \in g.opened THEN DoorTo[g.currentLocation] ELSE Move[g.currentLocation][dir]
doGo(g, line) ==
  LET named == {dir \in DOMAIN Directions : Directions[dir] = Letter1(Last(line))}
      to == ExitTo(g, Smallest(named))
  IN IF named = {} \/ to = NoLocation THEN g ELSE Turn([g EXCEPT !.currentLocation = to])

\* The bookcase opens wherever it is examined.
doExamine(g, line) ==
  IF ~HasObject(line) THEN g
  ELSE Turn(IF Object(line) = <<"bookcase">> THEN [g EXCEPT !.opened = @ \cup {MasterBedroom}] ELSE g)

\* What using an item at hand changes besides the turn.
Used(g, item) ==
  CASE item = <<"key">> /\ g.currentLocation = VacantRoom -> [g EXCEPT !.opened = @ \cup {VacantRoom}]
    [] item = <<"pitchfork">> /\ g.currentLocation = WolfTree /\ g.wolfState = 0 -> [g EXCEPT !.wolfState = 1]
    [] item = <<"toy", "car">> /\ g.currentLocation = WolfTree /\ g.wolfState = 1 -> [g EXCEPT !.wolfState = 2]
    [] item = <<"oil">> /\ carryingItem(g, <<"lamp">>) -> [g EXCEPT !.lampFilled = TRUE]
    [] item = <<"matches">> /\ carryingItem(g, <<"lamp">>) /\ g.lampFilled -> [g EXCEPT !.lampLit = TRUE]
    [] item = <<"candybar">> -> [g EXCEPT !.ateFood = TRUE]
    [] item = <<"bottle">> /\ g.currentLocation = Cistern -> [g EXCEPT !.drankWater = TRUE]
    [] item = <<"stale", "meat">> -> Over(g)
    [] OTHER -> g
doUse(g, line) ==
  IF ~HasObject(line) \/ ~AtHand(g, Object(line)) THEN g ELSE Turn(Used(g, Object(line)))

\* A line that is a direction is one before its first letter is a command's.
Directed(line) == Len(line) = 1 /\ \E k \in DOMAIN Directions : line[1] \in {Directions[k], DescriptionOfDirection[k]}
Commanded(g, line) ==
  LET letter == First1(line)
  IN IF letter = "g" \/ Directed(line) THEN doGo(g, line)
     ELSE CASE letter = "t" -> doTake(g, line)
            [] letter = "e" -> doExamine(g, line)
            [] letter = "u" -> doUse(g, line)
            [] letter = "d" -> doDrop(g, line)
            [] letter = "q" -> [g EXCEPT !.asking = "quit"]
            [] OTHER -> g

------------------------------------------------------------------------------
(* What happens after every line. *)

Ended(g, how) == [g EXCEPT !.gameOver = TRUE, !.ends = how]
Dark(g) == g.turnsPlayed >= 60 /\ (~g.lampLit \/ ~AtHand(g, <<"lamp">>))
AtTree(g) == IF g.currentLocation = WolfTree /\ g.wolfState = 2 THEN Ended(g, "won") ELSE g
InTunnel(g) ==
  IF g.currentLocation # Tunnel \/ itemIsHere(g, <<"cheese">>) THEN AtTree(g)
  ELSE IF g.ratAttack < 3 THEN AtTree([g EXCEPT !.ratAttack = @ + 1]) ELSE Ended(g, "rats")
doActions(g) ==
  IF Dark(g) THEN Ended(g, "dark")
  ELSE IF g.turnsPlayed = 50 /\ ~g.drankWater THEN Ended(g, "thirst")
  ELSE IF g.turnsPlayed = 40 /\ ~g.ateFood THEN Ended(g, "hunger")
  ELSE InTunnel(g)

\* A line is a command or answers the question whether to quit, or to play again; the
\* second comes as soon as a game is over.
Asked(g) == IF g.gameOver THEN [g EXCEPT !.asking = "again"] ELSE g
doQuit(g, line) == IF First1(line) = "y" THEN Over(g) ELSE g
main(g, line) ==
  CASE g.asking = "left" -> g
    [] g.asking = "again" -> IF First1(line) = "n" THEN [g EXCEPT !.asking = "left"] ELSE initialize
    [] g.asking = "quit" -> Asked(doActions(doQuit([g EXCEPT !.asking = ""], line)))
    [] OTHER -> LET done == Commanded(g, line) IN IF done.asking = "quit" THEN done ELSE Asked(doActions(done))

\* The game before the first line and after every line.
Played(lines) == FoldLeft(LAMBDA games, line : Append(games, main(Last(games), line)), <<initialize>>, lines)
==============================================================================
