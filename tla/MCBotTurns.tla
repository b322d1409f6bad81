----------------------------- MODULE MCBotTurns -----------------------------
(* An instance of BotTurns for TLC: two dice of two sides, two plain cells   *)
(* that score the throws in opposite orders and a Turbo cell.                *)
EXTENDS BotTurns

CONSTANTS rising, falling, fast

ThreeCells == {rising, falling, fast}
TurboCells == {fast}

PointsTable ==
  Table([c \in ThreeCells |-> Table([d \in Throws |->
           LET total == d[1] + d[2]
           IN  CASE c = rising -> total - 2
                 [] c = falling -> 4 - total
                 [] OTHER -> IF total = 4 THEN 2 ELSE 0])])
PointsOf == PointsTable

BonusTable == Table([c \in ThreeCells |-> 2])
BonusOf == BonusTable

YamsThrows == {d \in Throws : d[1] = d[2]}
YamsOf == YamsThrows

Value(x, y, z) == Table([c \in ThreeCells |->
  Table([n \in 0..2 |-> Unit * (IF c = rising THEN x[n + 1] ELSE IF c = falling THEN y[n + 1] ELSE z[n + 1])])])

\* Points are worth having; a cell is worth keeping; Turbo is worth most.
ValuationSet ==
  { Value(<<-2, 0, 1>>, <<-1, 0, 2>>, <<-2, -1, 0>>),
    Value(<<0, -1, -2>>, <<-2, -2, -1>>, <<-2, 1, 1>>),
    Value(<<-1, -1, 0>>, <<-2, -1, 2>>, <<0, 0, 2>>) }
ValuationsOf == ValuationSet
=============================================================================
