----------------------------- MODULE TurnReview -----------------------------
(***************************************************************************)
(* The review of a recorded turn (evaluate_turn_accuracy and               *)
(* score_turn_filled, src/ui/session_manager.h): what each hold and the    *)
(* placement gave up against the best action, and how lucky each throw     *)
(* was, by the values of a network asked afterwards.  A turn is a record   *)
(* of the open cells it began with, its throws, the masks held in between, *)
(* the cell filled and the points written; `evs' is the network's answer.  *)
(***************************************************************************)
EXTENDS Solver, Sequences

\* A mask's entry of mask_evs before any resolve wrote it.
Unwritten == 0

Rerolls(t) == Len(t.masks)
ThrowsLeft(k) == 3 - k         \* before hold k, or before the placement

\* The throws left that the state of the review holds when the requests are
\* enumerated: nobody has set them (evaluate_turn_accuracy, line 816).
Garbage == {0, 2}

\* get_legal_placements() as the enumeration asks it
Enumerated(t, garbage) ==
  IF garbage > 0 \/ t.cells \subseteq Turbo THEN t.cells ELSE t.cells \ Turbo

Buffer(t, evs, garbage) == [cells |-> Enumerated(t, garbage), evs |-> evs]

\* The expected value solver_resolve() reports before hold k.
BestValue(b, t, k) ==
  LET d == t.throws[k]
  IN  IF BonusActive(d, ThrowsLeft(k))
      THEN Max({BonusValue(b, c) : c \in b.cells})
      ELSE Layer(b, ThrowsLeft(k))[d]

\* mask_evs of the mask held: a first-roll yams resolves without filling it.
ChosenHold(b, t, k) ==
  IF BonusActive(t.throws[k], ThrowsLeft(k)) THEN Unwritten
  ELSE HeldValue(b, Moves[t.throws[k]][t.masks[k]], ThrowsLeft(k))

HoldDelta(b, t, k) == BestValue(b, t, k) - ChosenHold(b, t, k)

HoldDeltas(b, t) ==
  [k \in {x \in 1..Rerolls(t) : ~ForcePlace(b, ThrowsLeft(x))} |-> HoldDelta(b, t, k)]

\* find_req() finds the cell.
HasPlace(b, t) == t.cell \in b.cells

\* Mutant of BestPlace: the choice to throw again is left out.
BestPlaceNow(b, t) ==
  LET d == t.throws[Rerolls(t) + 1]
  IN  Max({ValueIn(b, c, d) : c \in b.cells})

BestPlace(b, t) ==
  LET last == Rerolls(t) + 1
      d == t.throws[last]
  IN  IF ThrowsLeft(last) >= 1 THEN BestValue(b, t, last)
      ELSE Max({ValueIn(b, c, d) : c \in b.cells})

PlaceDelta(b, t) == BestPlace(b, t) - b.evs[t.cell][t.points]

\* The throw a rethrow brought, less what it was worth to hold: the luck of
\* the throw, before it is divided by its spread.  Throw 1 is the first.
Luck(b, t, i) ==
  LET layer == Layer(b, 3 - i)
  IN  layer[t.throws[i]] -
        (IF i = 1 THEN PreRoll(b)
         ELSE Mean(Moves[t.throws[i - 1]][t.masks[i - 1]], layer))

=============================================================================
