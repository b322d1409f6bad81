------------------------------ MODULE MCEngine ------------------------------
(* Instances of Engine for TLC: sheets with some of the program's rows, and  *)
(* throws taken from the 252, scored by Dice.                                *)
EXTENDS Engine, Sequences

CONSTANT RowNames   \* the program's number of each row of the sheet

D == INSTANCE Dice

RealRow(r) == RowNames[r + 1]

(* TLC evaluates a definition without parameters once, but not where it       *)
(* stands for a constant, and tabulates a function when it compares it.       *)
Table(f) == CHOOSE g \in {f} : g = g

RawTable == Table([d \in Rolls |-> [r \in Rows |-> D!RawScore(d, RealRow(r))]])
RawOf == RawTable

PossibleTable == Table([r \in Rows |-> D!PossibleScores(RealRow(r))])
PossibleOf == PossibleTable

BonusTable == Table([r \in Rows |-> D!BonusCandidates(RealRow(r))])
BonusOf == BonusTable

YamsSet == {d \in Rolls : D!FiveOfAKind(d)}
YamsOf == YamsSet

SumRows   == <<5, 6, 7, 12>>            \* 6s, small sum, large sum, yams
CleanRows == <<3, 4, 5, 6, 7>>

Sum22    == <<2, 3, 5, 6, 6>>
Sum29    == <<5, 6, 6, 6, 6>>
Yams6    == <<6, 6, 6, 6, 6>>

OneThrow    == {Sum29}
TwoThrows   == {Sum22, Yams6}
=============================================================================
