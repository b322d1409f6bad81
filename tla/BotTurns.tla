------------------------------ MODULE BotTurns ------------------------------
(***************************************************************************)
(* Turns of a player on the cells of one LegalPlacementCache.  Between     *)
(* turns the cache changes by any of its operations; a turn reads it,      *)
(* fills one of its cells and removes it.  The player is a human, who may  *)
(* do whatever the rules allow, or a bot whose solver decides on the       *)
(* buffer it keeps from turn to turn: greedily (play_heuristic_turn,       *)
(* play_nn_turn, nn_play_turn, the distillation worker), exploring         *)
(* (self-play) or after rollouts (mc_play_turn).                           *)
(*                                                                         *)
(* A player has always a cell open (Engine!MoverCanPlace), and every open  *)
(* cell a request for its scratch, so that the branches of the bots for an *)
(* empty list of requests are never taken; they are left out.  For the     *)
(* same reason the plain cells are used up when none is open.              *)
(***************************************************************************)
EXTENDS LegalCache, TurnReview

CONSTANT Valuations   \* what a network may say: [Cells -> [points -> value]]

\* A network says a number, no worse than having no cell at all.
ASSUME ValuationAssumption ==
  \A v \in Valuations, c \in Cells, d \in Throws :
    \A n \in {Points[c][d], BonusPoints[c]} : v[c][n] \in Int /\ v[c][n] >= NoValue

VARIABLES
  seat,       \* who plays: "human" or one of the bots
  moving,     \* the turn is being played
  dice,
  rollsLeft,
  requests,   \* SolverBuffers::requests: the cells enumerated
  evs,        \* SolverBuffers::evs
  dp,         \* the buffer the layers were built from, or NoLayers
  entry       \* the human's turn as recorded (TurnRecord)

bufferVars == <<requests, evs, dp>>
turnVars == <<seat, moving, dice, rollsLeft, bufferVars, entry>>
allVars == <<vars, turnVars>>

Bots == {"greedy", "exploring", "rollouts"}

NoLayers == [cells |-> {}, evs |-> <<>>]   \* dp_computed = false

NoDice == <<>>

NoEntry == [cells |-> {}, throws |-> <<>>, masks |-> <<>>, cell |-> NoCell, points |-> 0]

\* get_legal_placements() for the throws left
Legal(r) ==
  IF r > 0 \/ Entries \subseteq Turbo THEN Entries ELSE Entries \ Turbo

CanReroll == rollsLeft > 0 /\ ~(rollsLeft = 1 /\ Entries \subseteq Turbo)

TurnInit ==
  /\ Init
  /\ seat \in Bots \union {"human"}
  /\ moving = FALSE
  /\ dice = NoDice
  /\ rollsLeft = 0
  /\ requests = {}
  /\ evs = <<>>
  /\ dp = NoLayers
  /\ entry = NoEntry

\* Placements elsewhere and rebuilds, between two turns of this player.
CacheChanges ==
  /\ ~moving /\ entry = NoEntry
  /\ Next
  /\ UNCHANGED turnVars

\* Mutant of Ask: the layers of the last turn are still marked as computed.
AskKeepingLayers(r) ==
  /\ requests' = Legal(r)
  /\ evs' \in Valuations
  /\ UNCHANGED dp

\* solver_get_requests() and the network's answer, with dp_computed reset.
Ask(r) ==
  /\ requests' = Legal(r)
  /\ evs' \in Valuations
  /\ dp' = NoLayers

\* start_turn()
Start ==
  /\ ~moving /\ entry = NoEntry
  /\ count > 0
  /\ moving' = TRUE
  /\ dice' \in Throws
  /\ rollsLeft' = 2
  /\ UNCHANGED <<vars, seat>>

BotTurn ==
  /\ seat \in Bots
  /\ Start
  /\ Ask(2)
  /\ UNCHANGED entry

HumanTurn ==
  /\ seat = "human"
  /\ Start
  /\ entry' = [NoEntry EXCEPT !.cells = Entries, !.throws = <<dice'>>]
  /\ UNCHANGED bufferVars

\* The buffer the answer of solver_resolve() comes from.
Layers == IF dp = NoLayers THEN [cells |-> requests, evs |-> evs] ELSE dp

Decisions ==
  IF seat = "rollouts" THEN RolloutResults(Layers, dice, rollsLeft)
  ELSE Resolve(Layers, dice, rollsLeft, seat = "exploring")

\* perform_reroll()
Rethrow(m) ==
  /\ rollsLeft' = rollsLeft - 1
  /\ dice' \in {d \in Throws : ChanceTable[Moves[dice][m]][d] > 0}
  /\ UNCHANGED <<vars, seat, moving>>

\* The rollout bot asks again for each throw; the others keep their layers.
BotHolds(m) ==
  /\ Rethrow(m)
  /\ IF seat = "rollouts"
     THEN requests' = Legal(rollsLeft') /\ dp' = NoLayers
     ELSE dp' = Layers /\ UNCHANGED requests
  /\ UNCHANGED <<evs, entry>>

\* perform_placement() and the end of the turn.  The next start_turn() throws
\* again before anyone reads the dice.
Fill(c) ==
  /\ Remove(c)
  /\ moving' = FALSE
  /\ dice' = NoDice /\ rollsLeft' = 0
  /\ UNCHANGED seat

BotPlaces(c) ==
  /\ Fill(c)
  /\ dp' = IF BonusActive(dice, rollsLeft) THEN dp ELSE Layers
  /\ UNCHANGED <<requests, evs, entry>>

BotDecides ==
  /\ moving /\ seat \in Bots
  /\ \E a \in Decisions : IF a.place THEN BotPlaces(a.cell) ELSE BotHolds(a.mask)

HumanHolds(m) ==
  /\ moving /\ seat = "human"
  /\ CanReroll
  /\ Rethrow(m)
  /\ entry' = [entry EXCEPT !.masks = Append(@, m), !.throws = Append(@, dice')]
  /\ UNCHANGED bufferVars

WrittenPoints(c) ==
  IF BonusActive(dice, rollsLeft) THEN BonusPoints[c] ELSE Points[c][dice]

HumanPlaces(c) ==
  /\ moving /\ seat = "human"
  /\ c \in Legal(rollsLeft)
  /\ Fill(c)
  /\ entry' = [entry EXCEPT !.cell = c, !.points = WrittenPoints(c)]
  /\ UNCHANGED bufferVars

\* The record is moved to the history.
FileEntry ==
  /\ ~moving /\ entry # NoEntry
  /\ entry' = NoEntry
  /\ UNCHANGED <<vars, seat, moving, dice, rollsLeft, bufferVars>>

TurnNext ==
  \/ CacheChanges
  \/ BotTurn
  \/ HumanTurn
  \/ BotDecides
  \/ \E m \in Masks : HumanHolds(m)
  \/ \E c \in Cells : HumanPlaces(c)
  \/ FileEntry

TurnSpec == TurnInit /\ [][TurnNext]_allVars

-----------------------------------------------------------------------------
(* Properties. *)

\* Whatever a bot decides, and however it explores, the rules allow it: the
\* cell is open for the throws left and a hold is made only when can_reroll()
\* agrees, as the loops assert (session_manager.h:1395 and 1503).
DecisionIsAllowed ==
  moving /\ seat \in Bots =>
    \A a \in Decisions : IF a.place THEN a.cell \in Legal(rollsLeft) ELSE CanReroll

\* The best expectation the rules leave to a player, by the values of this
\* turn's network: fill a cell that is legal now or, if allowed, throw again.
BestWith(r, next) ==
  Table([d \in Throws |->
     Max({evs[c][Points[c][d]] : c \in Legal(r)}
           \union (IF r = 0 \/ (r = 1 /\ Entries \subseteq Turbo) THEN {}
                   ELSE {Mean(Moves[d][m], next) : m \in Masks}))])

BestLast == BestWith(0, <<>>)
BestOfOne == BestWith(1, BestLast)

Expectation ==
  CASE rollsLeft = 0 -> BestLast
    [] rollsLeft = 1 -> BestOfOne
    [] OTHER -> BestWith(2, BestOfOne)

\* Greedy play takes an action of the highest expectation, and the rollout bot
\* has it among its candidates: the layers are of this turn's cells and values,
\* of the right number of throws, and Turbo counts only while a throw is left.
\* A first-roll yams is placed without the comparison.
PlaysTheBest ==
  moving /\ seat \in {"greedy", "rollouts"} /\ ~BonusActive(dice, rollsLeft) =>
    LET best == Expectation[dice]
        worth == {Worth(Layers, dice, rollsLeft, a) : a \in Decisions}
    IN  IF seat = "greedy" THEN worth = {best} ELSE Max(worth) = best

Reviewed == ~moving /\ entry # NoEntry

TurboIsOpen(t) == t.cells \cap Turbo # {}

\* What a reviewed turn lost is what its holds and its placement gave up, less
\* the luck of its throws: the deltas, the lucks and the layers of the solver
\* account for the whole way from the first throw to the value written.  Two
\* things spoil it and are excluded: a first-roll yams that was thrown again,
\* and a Turbo cell that was missed by the enumeration or counts although no
\* throw was left for it.
ReviewAddsUp ==
  Reviewed =>
    \A v \in Valuations, g \in Garbage :
      LET b == Buffer(entry, v, g)
          n == Rerolls(entry)
      IN  /\ TurboIsOpen(entry) => g # 0 /\ n < 2
          /\ ~BonusActive(entry.throws[1], 2)
          => /\ HasPlace(b, entry)
             /\ TwoLeft(b)[entry.throws[1]] - v[entry.cell][entry.points]
                  = SumFunction([k \in 1..n |-> HoldDeltas(b, entry)[k]])
                      - SumFunction([k \in 1..n |-> Luck(b, entry, k + 1)])
                      + PlaceDelta(b, entry)

\* session_manager.h:778-779: "Each returned delta is in win-probability units
\* (0..1), [...] and is >= 0 (best minus chosen)."
NoLossIsNegative ==
  Reviewed =>
    \A v \in Valuations, g \in Garbage :
      LET b == Buffer(entry, v, g)
      IN  /\ \A k \in DOMAIN HoldDeltas(b, entry) : HoldDeltas(b, entry)[k] >= 0
          /\ HasPlace(b, entry) => PlaceDelta(b, entry) >= 0

\* The chance of a score in a row, which the tensor takes from the tables, is
\* what the solver would give to a turn that is worth 1 with that score in that
\* row and 0 without it (build_probability_tables against solver_resolve).
ChancesAreTheSolvers ==
  ~moving /\ entry = NoEntry =>
    \A c \in Entries \ Turbo, n \in {1, 2} :
      LET scores == {Points[c][d] : d \in Throws}
          b == [cells |-> {c},
                evs |-> [x \in {c} |-> [k \in scores |-> IF k >= n THEN Unit ELSE 0]]]
      IN  /\ ProbThreeRolls(Points[c], n) = PreRoll(b)
          /\ ProbTwoRolls(Points[c], n) = Mean(Nothing, OneLeft(b))

=============================================================================
