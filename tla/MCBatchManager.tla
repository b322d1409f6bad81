--------------------------- MODULE MCBatchManager ---------------------------
(* Finite instances of BatchManager for TLC.                                *)
EXTENDS BatchManager, TLC

CONSTANTS w1, w2, w3, c1, c2, g1, g2, g3, b1, b2

OneWorker    == {w1}
TwoWorkers   == {w1, w2}
OneCoordinator  == {c1}
TwoCoordinators == {c1, c2}
TwoGames   == {g1, g2}
ThreeGames == {g1, g2, g3}
TwoBatches == {b1, b2}

(* Threads, games and batches are interchangeable.                          *)
Symmetry == Permutations(Workers) \cup Permutations(Games)
            \cup Permutations(Coordinators) \cup Permutations(Batches)
=============================================================================
