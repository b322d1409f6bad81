----------------------------- MODULE DiceTables -----------------------------
(***************************************************************************)
(* The tables of throws and rethrows that every solver reads               *)
(* (src/solver/precomputed_tables.cc), for any number of dice and sides;   *)
(* the program has five dice of six.  A probability is a number of the     *)
(* `Outcomes' of throwing all the dice, and a value is a whole multiple of *)
(* `Unit', so that averaging it over three throws in a row is exact: the   *)
(* rounding of doubles is left out.                                        *)
(***************************************************************************)
EXTENDS Integers, FiniteSets, FiniteSetsExt

CONSTANTS NumDice, NumSides

ASSUME DiceAssumption == NumDice \in Nat \ {0} /\ NumSides \in Nat \ {0}

Places == 1..NumDice
Sides == 1..NumSides

\* f itself, enumerated once and kept, as the program keeps its arrays.
Table(f) == CHOOSE g \in {f} : g = g

\* The sorted throws (252 in the program).
Throws ==
  {d \in [Places -> Sides] : \A i \in 1..(NumDice - 1) : d[i] <= d[i + 1]}

\* A hold mask: the places of the sorted throw that stay on the table.
Masks == SUBSET Places

\* The dice held, as the number of each face: masks that keep equal dice are
\* one configuration (462 in the program).
Held(d, m) == [f \in Sides |-> Cardinality({i \in m : d[i] = f})]

\* DiceMove: the configuration of each mask of each throw.
Moves == Table([d \in Throws |-> Table([m \in Masks |-> Held(d, m)])])

HeldConfigs == {Moves[d][m] : d \in Throws, m \in Masks}

Nothing == [f \in Sides |-> 0]

\* What all the dice may show.
AllRolls == [Places -> Sides]

Outcomes == Cardinality(AllRolls)
Unit == Outcomes * Outcomes * Outcomes

NumHeld(h) == SumFunction(h)

\* The outcomes in which h becomes throw d, when as many dice as are not held
\* are thrown again: those that the outcome lists first.
Chance(h, d) ==
  LET n == NumDice - NumHeld(h)
      Becomes(r) == \A f \in Sides :
        h[f] + Cardinality({i \in 1..n : r[i] = f}) = Held(d, Places)[f]
  IN  Cardinality({r \in AllRolls : Becomes(r)})

ChanceTable == Table([h \in HeldConfigs |-> Table([d \in Throws |-> Chance(h, d)])])

\* The expectation of v over what a rethrow of all but h brings.
Mean(h, v) ==
  SumFunction([d \in Throws |-> ChanceTable[h][d] * v[d]]) \div Outcomes

-----------------------------------------------------------------------------
(* The chance of a score in one row (build_probability_tables): the best    *)
(* expectation with one more throw, where holding all dice is stopping.     *)

\* Mutant of OneThrowMore: some mask has to throw a die.
OneThrowForced(v) ==
  Table([d \in Throws |-> Max({Mean(Moves[d][m], v) : m \in Masks \ {Places}})])

OneThrowMore(v) ==
  Table([d \in Throws |-> Max({Mean(Moves[d][m], v) : m \in Masks})])

Achieved(score, threshold) ==
  [d \in Throws |-> IF score[d] >= threshold THEN Unit ELSE 0]

\* prob_2rolls and prob_3rolls
ProbTwoRolls(score, threshold) ==
  Mean(Nothing, OneThrowMore(Achieved(score, threshold)))

ProbThreeRolls(score, threshold) ==
  Mean(Nothing, OneThrowMore(OneThrowMore(Achieved(score, threshold))))

=============================================================================
