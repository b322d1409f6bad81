----------------------------- MODULE MCSelfPlay -----------------------------
(* Instances of SelfPlay for TLC.                                            *)
EXTENDS SelfPlay

CONSTANTS w1, w2, g1, g2

TwoWorkers == {w1, w2}
TwoGames   == {g1, g2}

\* One game is played against a past network, by turns, the other never.
SeatOfSecond == [g \in TwoGames |-> IF g = g1 THEN {None} ELSE {1, None}]
=============================================================================
