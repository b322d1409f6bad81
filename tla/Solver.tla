------------------------------- MODULE Solver -------------------------------
(***************************************************************************)
(* What to do with a throw (src/solver/solver.cc, src/solver/mc_bot.cc).   *)
(* A network has valued every afterstate, a legal cell with the points it  *)
(* may get; the solver averages those values over the throws still to      *)
(* come and takes the best action, or one at random when it explores.      *)
(*                                                                         *)
(* `Points' is the rules' answer, the score a throw makes in a cell or 0   *)
(* for a scratch (Engine.tla compares the solver's own enumeration of the  *)
(* scores with the engine's).  A buffer b is what SolverBuffers holds of   *)
(* one position: the cells that were enumerated and the value b.evs[c][n]  *)
(* of n points in cell c.                                                  *)
(***************************************************************************)
EXTENDS DiceTables

CONSTANTS
  Turbo,        \* the cells of the Turbo column
  Points,       \* Points[c][d]: what throw d scores in cell c
  BonusPoints,  \* BonusPoints[c]: what a first-roll yams scores in cell c
  Yams,         \* the throws of equal dice
  YamsRule,     \* GameRules::yams_first_roll_bonus
  MaxCandidates \* MCConfig::max_candidates

ASSUME SolverAssumption == MaxCandidates \in Nat \ {0}

\* Minus infinity, which every average of it is again.
NoValue == -1000 * Unit

Place(c) == [place |-> TRUE, cell |-> c]
Hold(m) == [place |-> FALSE, mask |-> m]

\* The afterstate of throw d in cell c: its score if that was enumerated, else
\* the scratch.
ValueIn(b, c, d) == b.evs[c][Points[c][d]]

BestOf(cells, Value(_)) == {c \in cells : \A x \in cells : Value(x) <= Value(c)}

-----------------------------------------------------------------------------
(* The layers of the dynamic programme.                                     *)

\* v0: no throw left, so no Turbo
LastValue(b) ==
  Table([d \in Throws |->
           Max({NoValue} \union {ValueIn(b, c, d) : c \in b.cells \ Turbo})])

\* stop_value: to place now with a throw left
StopValue(b) ==
  Table([d \in Throws |-> Max({NoValue} \union {ValueIn(b, c, d) : c \in b.cells})])

OrRethrow(b, next) ==
  LET stop == StopValue(b)
  IN  Table([d \in Throws |->
               Max({stop[d]} \union {Mean(Moves[d][m], next) : m \in Masks})])

\* v1, v2 and pre_roll_ev
OneLeft(b) == OrRethrow(b, LastValue(b))
TwoLeft(b) == OrRethrow(b, OneLeft(b))
PreRoll(b) == Mean(Nothing, TwoLeft(b))

Layer(b, r) == CASE r = 0 -> LastValue(b) [] r = 1 -> OneLeft(b) [] OTHER -> TwoLeft(b)

\* ev_held_v0 and ev_held_v1: what holding h is worth before throw r is used
HeldValue(b, h, r) == Mean(h, Layer(b, r - 1))

-----------------------------------------------------------------------------
(* solver_resolve().                                                        *)

BonusActive(d, r) == YamsRule /\ r = 2 /\ d \in Yams

BonusValue(b, c) == b.evs[c][BonusPoints[c]]

\* A softmax draws any of its entries; greedy play takes one of the best.
Pick(cells, best, exploring) == IF exploring THEN cells ELSE best

BonusResults(b, exploring) ==
  {Place(c) : c \in Pick(b.cells, BestOf(b.cells, LAMBDA x : BonusValue(b, x)), exploring)}

PlaceResults(b, cells, d, exploring) ==
  {Place(c) : c \in Pick(cells, BestOf(cells, LAMBDA x : ValueIn(b, x, d)), exploring)}

\* Mutant of ForcePlace: the solver forgets that Turbo needs a throw left.
ForcePlaceNever(b, r) == FALSE

\* Only Turbo cells are open, and the last throw would leave no cell for it.
ForcePlace(b, r) == r = 1 /\ b.cells \subseteq Turbo

HoldResults(b, d, r, exploring) ==
  IF ForcePlace(b, r) THEN {}
  ELSE IF exploring THEN {Hold(m) : m \in Masks}
  ELSE LET next == Layer(b, r - 1)
           Value(m) == Mean(Moves[d][m], next)
       IN  {Hold(m) : m \in {x \in BestOf(Masks, Value) : Value(x) > StopValue(b)[d]}}

\* The answers solver_resolve() may give for throw d with r throws left.
Resolve(b, d, r, exploring) ==
  IF BonusActive(d, r) THEN BonusResults(b, exploring)
  ELSE IF r = 0 THEN PlaceResults(b, b.cells \ Turbo, d, exploring)
  ELSE LET holds == HoldResults(b, d, r, exploring)
           stops == PlaceResults(b, b.cells, d, exploring)
       IN  IF exploring THEN holds \union stops
           ELSE IF holds = {} THEN stops ELSE holds

-----------------------------------------------------------------------------
(* The rollout bot (select_top_candidates, mc_play_turn).                   *)

MayThrow(cells, r) == r > 0 /\ ~(r = 1 /\ cells \subseteq Turbo)

Candidates(b, d, r) ==
  {Place(c) : c \in IF r = 0 THEN b.cells \ Turbo ELSE b.cells}
    \union (IF MayThrow(b.cells, r) THEN {Hold(m) : m \in Masks} ELSE {})

\* CandidateAction::nn_ev
Worth(b, d, r, a) ==
  IF a.place THEN ValueIn(b, a.cell, d) ELSE HeldValue(b, Moves[d][a.mask], r)

\* The rollouts may put any of the best MaxCandidates first.
TopCandidates(b, d, r) ==
  LET all == Candidates(b, d, r)
  IN  {a \in all : Cardinality({x \in all : Worth(b, d, r, x) > Worth(b, d, r, a)})
                     < MaxCandidates}

RolloutResults(b, d, r) ==
  IF BonusActive(d, r) THEN BonusResults(b, FALSE) ELSE TopCandidates(b, d, r)

=============================================================================
