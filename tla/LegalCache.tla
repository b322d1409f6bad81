----------------------------- MODULE LegalCache -----------------------------
(***************************************************************************)
(* LegalPlacementCache (src/engine/game_context.h): a set of cells held    *)
(* twice, as a dense array for iteration and as a flag per cell for        *)
(* membership.  A removal moves the last entry of the array into the hole, *)
(* so that entries past `count' are stale.  The operations arrive in any   *)
(* order, more than legal_moves.cc has.                                    *)
(***************************************************************************)
EXTENDS Integers, FiniteSets

CONSTANTS Cells,   \* the (column, row) pairs of a sheet
          NoCell   \* an entry of the zeroed array

ASSUME CacheAssumption == IsFiniteSet(Cells) /\ NoCell \notin Cells

VARIABLES placements, count, isLegal
vars == <<placements, count, isLegal>>

\* placements[78], one entry per cell of the sheet
Slots == 0..(Cardinality(Cells) - 1)

Live == 0..(count - 1)

Entries == {placements[i] : i \in Live}

\* init_context() and the rebuild zero the structure.
Init ==
  /\ placements = [i \in Slots |-> NoCell]
  /\ count = 0
  /\ isLegal = [x \in Cells |-> FALSE]

AddNew(x) ==
  /\ ~isLegal[x]
  /\ isLegal' = [isLegal EXCEPT ![x] = TRUE]
  /\ placements' = [placements EXCEPT ![count] = x]
  /\ count' = count + 1

Add(x) == AddNew(x) \/ (isLegal[x] /\ UNCHANGED vars)

\* Mutant of FillHole: the entries above the hole keep their places.
FillNothing(i) == placements

\* placements[i] = placements[--count]
FillHole(i) == [placements EXCEPT ![i] = placements[count - 1]]

\* The scan takes the first entry that matches; it may match none.
RemoveOld(x) ==
  /\ isLegal[x]
  /\ isLegal' = [isLegal EXCEPT ![x] = FALSE]
  /\ \/ \E i \in Live :
          /\ placements[i] = x
          /\ \A j \in 0..(i - 1) : placements[j] # x
          /\ placements' = FillHole(i)
          /\ count' = count - 1
     \/ x \notin Entries /\ UNCHANGED <<placements, count>>

Remove(x) == RemoveOld(x) \/ (~isLegal[x] /\ UNCHANGED vars)

Clear ==
  /\ count' = 0
  /\ isLegal' = [x \in Cells |-> FALSE]
  /\ UNCHANGED placements

Next == Clear \/ \E x \in Cells : Add(x) \/ Remove(x)

Spec == Init /\ [][Next]_vars

-----------------------------------------------------------------------------
TypeOK ==
  /\ placements \in [Slots -> Cells \union {NoCell}]
  /\ count \in 0..Cardinality(Cells)
  /\ isLegal \in [Cells -> BOOLEAN]

\* game_context.h:26 has it that "two representations are kept in sync": the live
\* entries of the array are the cells with their flag set, each of them once, so
\* that iteration visits what membership promises and the array never overflows.
NoDuplicates ==
  \A i, j \in Live : placements[i] = placements[j] => i = j

InSync == NoDuplicates /\ Entries = {x \in Cells : isLegal[x]}

\* Iterating over the array is iterating over a set: each operation does to the
\* live entries what the operation of LegalCells does to its set.
Abstract == INSTANCE LegalCells WITH legal <- Entries

EachOperation ==
  /\ Clear => Abstract!Clear
  /\ \A x \in Cells : /\ Add(x) => Abstract!Add(x)
                      /\ Remove(x) => Abstract!Remove(x)

ImplementsSet == Abstract!Spec /\ [][EachOperation]_vars

=============================================================================
