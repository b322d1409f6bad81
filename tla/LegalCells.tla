----------------------------- MODULE LegalCells -----------------------------
(***************************************************************************)
(* What the solver, the placement code and the context rebuild expect of a *)
(* LegalPlacementCache (src/engine/game_context.h): a set of cells.        *)
(***************************************************************************)
CONSTANT Cells

VARIABLE legal

Init == legal = {}

Add(x) == legal' = legal \union {x}

Remove(x) == legal' = legal \ {x}

Clear == legal' = {}

Next == Clear \/ \E x \in Cells : Add(x) \/ Remove(x)

Spec == Init /\ [][Next]_legal

=============================================================================
