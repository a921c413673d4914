------------------------------- MODULE Tournament -----------------------------
(***************************************************************************)
(* java-solutions/game: the tournament of Game.  Neighbours in the list    *)
(* turnir play, who loses is removed from temp; when all pairs have        *)
(* played, turnir becomes temp, not a copy of it, so that from then on a   *)
(* removal shortens the list the pairs are taken from.  The board is left  *)
(* out: a game is won by a player, lost by a wrong move, or a draw.        *)
(***************************************************************************)
EXTENDS Naturals, Sequences, SequencesExt, FiniteSets

CONSTANTS
  Counts,       \* the numbers of players
  MaxDraws      \* bound: games that end in a draw

VARIABLES
  count,        \* the number of players
  turnir, temp,
  aliased,      \* turnir and temp are one list
  thisPlayers,  \* where the next pair is
  res,          \* for every game, the players it has removed: one, or none
  over,         \* play has returned false
  robbed        \* history: the players removed for a wrong move of the other

gamevars == <<count, turnir, temp, aliased, thisPlayers, res, over, robbed>>

\* Collections.shuffle; a single player has nobody to play with.
GameInit ==
  /\ count \in Counts /\ turnir \in SetToSeqs(1 .. count)
  /\ temp = turnir /\ aliased = FALSE /\ thisPlayers = 1 /\ res = <<>>
  /\ over = (Len(turnir) < 2) /\ robbed = {}

Out == UNION ToSet(res)

\* What move returns for player no; count + 1 - no is the other player when
\* there are two.
move(no, how) ==
  CASE how = "WIN" -> no [] how = "LOSE" -> count + 1 - no [] how = "DRAW" -> 0

\* The player who is removed after no, against other, has ended the game
Losers(no, other, how) ==
  LET result == move(no, how)
  IN  IF result = 0 THEN {} ELSE IF result = no THEN {other} ELSE {no}

endOfStep(rest) ==
  LET list == IF aliased THEN rest ELSE turnir
      wrap == thisPlayers + 2 >= Len(list)
      next == IF wrap THEN rest ELSE list
  IN  /\ temp' = rest /\ turnir' = next
      /\ aliased' = (aliased \/ wrap)
      /\ thisPlayers' = IF wrap THEN 1 ELSE thisPlayers + 2
      /\ over' = (Len(next) = 1)

play ==
  /\ ~over /\ thisPlayers < Len(turnir)
  /\ \E s \in {0, 1}, how \in {"WIN", "LOSE", "DRAW"} :
       LET no == turnir[thisPlayers + s]
           other == turnir[thisPlayers + 1 - s]
           losers == Losers(no, other, how)
       IN  /\ how = "DRAW" => Cardinality({i \in DOMAIN res : res[i] = {}}) < MaxDraws
           /\ res' = Append(res, losers)
           /\ robbed' = robbed \union (IF how = "LOSE" THEN losers \ {no} ELSE {})
           /\ endOfStep(IF losers = {} THEN temp ELSE RemoveFirst(temp, CHOOSE p \in losers : TRUE))
  /\ UNCHANGED count

GameNext == play

-------------------------------------------------------------------------------
(* Nobody who is out plays again, everybody is in or out once, the end comes *)
(* with the last player; and a wrong move costs its player the tournament,   *)
(* unless he has the middle number of an odd count.                          *)
TournamentSound ==
  /\ \A i, j \in DOMAIN res : i # j => res[i] \intersect res[j] = {}
  /\ IsInjective(temp) /\ Out \intersect ToSet(temp) = {} /\ Out \union ToSet(temp) = 1 .. count
  /\ over <=> Len(temp) <= 1
  /\ ~over => /\ thisPlayers < Len(turnir)
              /\ {turnir[thisPlayers], turnir[thisPlayers + 1]} \subseteq ToSet(temp)
  /\ \A p \in robbed : \E no \in 1 .. count : 2 * no = count + 1 /\ p # no
===============================================================================
