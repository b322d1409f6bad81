-------------------------------- MODULE Dice --------------------------------
(***************************************************************************)
(* What five dice are worth in each row (src/engine/solver_tables.cc,      *)
(* src/engine/scoring.cc).  Pure definitions; rows are numbered as in      *)
(* constants.h:                                                            *)
(*                                                                         *)
(*   0..5 the numbers, 6 small sum, 7 large sum, 8 full house, 9 four of a *)
(*   kind, 10 straight, 11 eight or less, 12 yams.                         *)
(***************************************************************************)
EXTENDS Naturals, FiniteSets, FiniteSetsExt

Faces == 1..6

DieIndex == 1..5

\* The 252 sorted throws, which is what sort_dice() leaves in GameState::dice.
DiceStates ==
  {d \in [DieIndex -> Faces] : \A i \in 1..4 : d[i] <= d[i + 1]}

Total(d) == d[1] + d[2] + d[3] + d[4] + d[5]

Count(d, f) == Cardinality({i \in DieIndex : d[i] = f})

FiveOfAKind(d) == \A i \in DieIndex : d[i] = d[1]

\* A triple and a pair, where five of a kind counts as both.
IsFullHouse(d) ==
  \/ FiveOfAKind(d)
  \/ \E f, g \in Faces : Count(d, f) = 3 /\ Count(d, g) = 2

HasAll(d, faces) == \A f \in faces : Count(d, f) >= 1

RawScore(d, row) ==
  CASE row <= 5  -> Count(d, row + 1) * (row + 1)
    [] row = 6   -> IF Total(d) >= 20 THEN Min({Total(d), 29}) ELSE 0
    [] row = 7   -> IF Total(d) >= 20 THEN Total(d) ELSE 0
    [] row = 8   -> IF IsFullHouse(d) THEN 20 + Total(d) ELSE 0
    [] row = 9   -> IF \E f \in Faces : Count(d, f) >= 4
                    THEN 30 + 4 * (CHOOSE f \in Faces : Count(d, f) >= 4)
                    ELSE 0
    [] row = 10  -> IF HasAll(d, 1..5) THEN 45
                    ELSE IF HasAll(d, 2..6) THEN 50 ELSE 0
    [] row = 11  -> IF Total(d) <= 8 THEN 60 + 5 * (8 - Total(d)) ELSE 0
    [] row = 12  -> IF FiveOfAKind(d) THEN 75 + 5 * (d[1] - 1) ELSE 0

\* possible_scores: the distinct non-zero scores of a row.
PossibleScores(row) == {RawScore(d, row) : d \in DiceStates} \ {0}

\* The scores a first-roll yams tries in a row, the highest first.
BonusCandidates(row) ==
  CASE row <= 5 -> {5 * (row + 1)}
    [] row = 6  -> 20..29
    [] row = 7  -> 20..30
    [] row = 8  -> {50}
    [] row = 9  -> {54}
    [] row = 10 -> {50}
    [] row = 11 -> {75}
    [] row = 12 -> {100}

=============================================================================
