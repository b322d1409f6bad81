------------------------------ MODULE BotProofs ------------------------------
(***************************************************************************)
(* Proofs about the players who are not people: the cache of legal cells   *)
(* they read, their turns, the chances they compute, the review of a turn  *)
(* by their values (BotTurns), and the games that evaluate them            *)
(* (Evaluation).                                                           *)
(*                                                                         *)
(* The cache is a set, proved first.  Then come the sums and maxima the    *)
(* solver is made of, as facts about folds over finite sets, the dice, and *)
(* the layers of the dynamic programme; from them and from one invariant   *)
(* of the turns (PlayInv) follow the three properties of the solver.  The  *)
(* same sums add up the games of an evaluation.                            *)
(***************************************************************************)
EXTENDS BotTurns, Evaluation, FiniteSetTheorems, NaturalsInduction, WellFoundedInduction, TLAPS
-----------------------------------------------------------------------------
(* The cache. *)

CacheInv == TypeOK /\ InSync /\ Cardinality(Entries) = count

LEMMA CardIsNat == Cardinality(Cells) \in Nat
  BY CacheAssumption, FS_CardinalityType

LEMMA EntriesAreCells ==
  ASSUME CacheInv
  PROVE  /\ Entries \subseteq Cells
         /\ IsFiniteSet(Entries)
         /\ count \in Nat /\ count <= Cardinality(Cells)
         /\ Live \subseteq Slots
<1>1. Entries \subseteq Cells
  BY DEF CacheInv, InSync
<1>2. IsFiniteSet(Entries)
  BY <1>1, FS_Subset, CacheAssumption
<1>3. count \in Nat /\ count <= Cardinality(Cells)
  BY CardIsNat DEF CacheInv, TypeOK
<1> QED BY <1>1, <1>2, <1>3, CardIsNat DEF Live, Slots

LEMMA CacheInitHolds == Init => CacheInv
<1> SUFFICES ASSUME Init PROVE CacheInv
  OBVIOUS
<1>1. TypeOK
  BY CardIsNat DEF Init, TypeOK
<1>2. Live = {}
  BY DEF Init, Live
<1>3. Entries = {} /\ NoDuplicates
  BY <1>2 DEF Entries, NoDuplicates
<1>4. Cardinality(Entries) = count
  BY <1>3, FS_EmptySet DEF Init
<1> QED BY <1>1, <1>3, <1>4 DEF CacheInv, InSync, Init

\* A cell that is missing goes to the first free slot, which exists.
LEMMA AddNewPreserves ==
  ASSUME CacheInv, NEW x \in Cells, AddNew(x)
  PROVE  CacheInv' /\ Entries' = Entries \union {x}
<1> USE EntriesAreCells
<1>1. x \notin Entries
  BY DEF CacheInv, InSync, AddNew
<1>2. Cardinality(Entries \union {x}) = count + 1
  BY <1>1, FS_AddElement DEF CacheInv
<1>3. count + 1 <= Cardinality(Cells)
  <2>1. Entries \union {x} \in SUBSET Cells
    OBVIOUS
  <2> QED BY <2>1, <1>2, FS_Subset, CacheAssumption
<1>4. count \in Slots
  BY <1>3, CardIsNat DEF Slots
<1>5. TypeOK'
  BY <1>3, <1>4, CardIsNat DEF CacheInv, TypeOK, AddNew
<1>6. Live' = Live \union {count} /\ count \notin Live
  BY DEF Live, AddNew
<1>7. /\ placements'[count] = x
      /\ \A i \in Live : placements'[i] = placements[i] /\ placements[i] \in Entries
  BY <1>4, <1>6 DEF CacheInv, TypeOK, AddNew, Entries
<1>8. Entries' = Entries \union {x}
  BY <1>6, <1>7 DEF Entries
<1>9. NoDuplicates'
  BY <1>1, <1>6, <1>7 DEF CacheInv, InSync, NoDuplicates
<1>10. Entries' = {y \in Cells : isLegal'[y]}
  BY <1>8 DEF CacheInv, InSync, TypeOK, AddNew
<1>11. Cardinality(Entries') = count'
  BY <1>2, <1>8 DEF AddNew
<1> QED BY <1>5, <1>8, <1>9, <1>10, <1>11 DEF CacheInv, InSync

\* The last entry fills the hole; nothing else moves.
LEMMA RemoveOldPreserves ==
  ASSUME CacheInv, NEW x \in Cells, RemoveOld(x)
  PROVE  CacheInv' /\ Entries' = Entries \ {x}
<1> USE EntriesAreCells
<1>1. x \in Entries
  BY DEF CacheInv, InSync, RemoveOld
<1>2. PICK i \in Live : /\ placements[i] = x
                        /\ placements' = FillHole(i)
                        /\ count' = count - 1
  BY <1>1 DEF RemoveOld
<1>3. count - 1 \in Live /\ count - 1 \in Nat
  BY <1>2 DEF Live
<1>4. Cardinality(Entries \ {x}) = count - 1
  BY <1>1, FS_RemoveElement DEF CacheInv
<1>5. placements[count - 1] \in Cells
  BY <1>3 DEF Entries
<1>6. TypeOK'
  BY <1>2, <1>3, <1>5, CardIsNat DEF CacheInv, TypeOK, RemoveOld, FillHole
<1>7. Live' = Live \ {count - 1}
  BY <1>2, <1>3 DEF Live
<1>8. \A j \in Live' : placements'[j] = IF j = i THEN placements[count - 1] ELSE placements[j]
  BY <1>2, <1>7 DEF CacheInv, TypeOK, FillHole
<1>9. Entries' = Entries \ {x}
  <2>1. \A j \in Live' : placements'[j] \in Entries \ {x}
    <3> SUFFICES ASSUME NEW j \in Live' PROVE placements'[j] \in Entries \ {x}
      OBVIOUS
    <3>1. CASE j = i
      <4>1. placements'[j] = placements[count - 1] /\ count - 1 # i
        BY <1>7, <1>8, <3>1
      <4> QED BY <4>1, <1>2, <1>3 DEF Entries, CacheInv, InSync, NoDuplicates
    <3>2. CASE j # i
      <4>1. placements'[j] = placements[j] /\ j \in Live
        BY <1>7, <1>8, <3>2
      <4> QED BY <4>1, <3>2, <1>2 DEF Entries, CacheInv, InSync, NoDuplicates
    <3> QED BY <3>1, <3>2
  <2>2. \A e \in Entries \ {x} : \E j \in Live' : placements'[j] = e
    <3> SUFFICES ASSUME NEW e \in Entries \ {x}
                 PROVE  \E j \in Live' : placements'[j] = e
      OBVIOUS
    <3>1. PICK k \in Live : placements[k] = e
      BY DEF Entries
    <3>2. k # i
      BY <3>1, <1>2
    <3>3. CASE k = count - 1
      <4>1. i \in Live' /\ placements'[i] = e
        BY <3>1, <3>2, <3>3, <1>7, <1>8
      <4> QED BY <4>1
    <3>4. CASE k # count - 1
      <4>1. k \in Live' /\ placements'[k] = e
        BY <3>1, <3>2, <3>4, <1>7, <1>8
      <4> QED BY <4>1
    <3> QED BY <3>3, <3>4
  <2>3. Entries' = {placements'[j] : j \in Live'}
    BY DEF Entries
  <2> QED BY <2>1, <2>2, <2>3
<1>10. NoDuplicates'
  <2> SUFFICES ASSUME NEW j \in Live', NEW k \in Live', placements'[j] = placements'[k]
               PROVE  j = k
    BY DEF NoDuplicates
  <2>1. j \in Live /\ k \in Live /\ j # count - 1 /\ k # count - 1
    BY <1>7
  <2> QED BY <2>1, <1>3, <1>8 DEF CacheInv, InSync, NoDuplicates
<1>11. Entries' = {y \in Cells : isLegal'[y]}
  BY <1>9 DEF CacheInv, InSync, TypeOK, RemoveOld
<1>12. Cardinality(Entries') = count'
  BY <1>2, <1>4, <1>9
<1> QED BY <1>6, <1>9, <1>10, <1>11, <1>12 DEF CacheInv, InSync

LEMMA ClearPreserves ==
  ASSUME CacheInv, Clear
  PROVE  CacheInv' /\ Entries' = {}
<1>1. TypeOK'
  BY CardIsNat DEF CacheInv, TypeOK, Clear
<1>2. Live' = {}
  BY DEF Clear, Live
<1>3. Entries' = {} /\ NoDuplicates'
  BY <1>2 DEF Entries, NoDuplicates
<1>4. Cardinality(Entries') = count'
  BY <1>3, FS_EmptySet DEF Clear
<1> QED BY <1>1, <1>3, <1>4 DEF CacheInv, InSync, Clear

LEMMA StutterPreserves ==
  ASSUME CacheInv, UNCHANGED vars
  PROVE  CacheInv' /\ Entries' = Entries
  BY DEF CacheInv, TypeOK, InSync, NoDuplicates, Entries, Live, vars

\* Adding what is there and removing what is not leave the set as it was.
LEMMA AddPreserves ==
  ASSUME CacheInv, NEW x \in Cells, Add(x)
  PROVE  CacheInv' /\ Entries' = Entries \union {x}
<1>1. CASE AddNew(x)
  BY <1>1, AddNewPreserves
<1>2. CASE isLegal[x] /\ UNCHANGED vars
  <2>1. x \in Entries
    BY <1>2 DEF CacheInv, InSync
  <2> QED BY <1>2, <2>1, StutterPreserves
<1> QED BY <1>1, <1>2 DEF Add

LEMMA RemovePreserves ==
  ASSUME CacheInv, NEW x \in Cells, Remove(x)
  PROVE  CacheInv' /\ Entries' = Entries \ {x}
<1>1. CASE RemoveOld(x)
  BY <1>1, RemoveOldPreserves
<1>2. CASE ~isLegal[x] /\ UNCHANGED vars
  <2>1. x \notin Entries
    BY <1>2 DEF CacheInv, InSync
  <2> QED BY <1>2, <2>1, StutterPreserves
<1> QED BY <1>1, <1>2 DEF Remove

LEMMA CacheStepPreserves ==
  CacheInv /\ [Next]_vars => CacheInv'
<1> SUFFICES ASSUME CacheInv, [Next]_vars PROVE CacheInv'
  OBVIOUS
<1>1. CASE Clear
  BY <1>1, ClearPreserves
<1>2. ASSUME NEW x \in Cells, Add(x) PROVE CacheInv'
  BY <1>2, AddPreserves
<1>3. ASSUME NEW x \in Cells, Remove(x) PROVE CacheInv'
  BY <1>3, RemovePreserves
<1>4. CASE UNCHANGED vars
  BY <1>4, StutterPreserves
<1> QED BY <1>1, <1>2, <1>3, <1>4 DEF Next

LEMMA Invariance == Spec => []CacheInv
  BY CacheInitHolds, CacheStepPreserves, PTL DEF Spec

\* The array, the count and the flags keep their types; no entry is ever written
\* past the end of placements[] (game_context.h:36-39).
THEOREM TypeCorrect == Spec => []TypeOK
<1>1. CacheInv => TypeOK
  BY DEF CacheInv
<1> QED BY <1>1, Invariance, PTL

\* The dense array and the flags always describe the same set, without
\* duplicates (game_context.h:26).
THEOREM RepresentationsInSync == Spec => []InSync
<1>1. CacheInv => InSync
  BY DEF CacheInv
<1> QED BY <1>1, Invariance, PTL

\* Every operation on the cache is the operation of the same name on a set.
THEOREM CacheIsASet == Spec => ImplementsSet
<1>1. Init => Abstract!Init
  BY DEF Init, Abstract!Init, Entries, Live
<1>2. CacheInv /\ [Next]_vars => [EachOperation]_vars
  BY ClearPreserves, AddPreserves, RemovePreserves
     DEF EachOperation, Abstract!Clear, Abstract!Add, Abstract!Remove
<1>3. CacheInv /\ [Next]_vars => [Abstract!Next]_Entries
  <2> SUFFICES ASSUME CacheInv, [Next]_vars PROVE [Abstract!Next]_Entries
    OBVIOUS
  <2>1. CASE Clear
    BY <2>1, ClearPreserves DEF Abstract!Next, Abstract!Clear
  <2>2. ASSUME NEW x \in Cells, Add(x) PROVE Abstract!Next
    BY <2>2, AddPreserves DEF Abstract!Next, Abstract!Add
  <2>3. ASSUME NEW x \in Cells, Remove(x) PROVE Abstract!Next
    BY <2>3, RemovePreserves DEF Abstract!Next, Abstract!Remove
  <2>4. CASE UNCHANGED vars
    BY <2>4, StutterPreserves
  <2> QED BY <2>1, <2>2, <2>3, <2>4 DEF Next
<1> QED BY <1>1, <1>2, <1>3, Invariance, PTL DEF Spec, ImplementsSet, Abstract!Spec

-----------------------------------------------------------------------------
(* The turns of the bots. *)

BotMoves == moving /\ seat \in Bots

\* The layers are of the cells enumerated last, the rollout bot's for the throws
\* it has left and the others' for the whole turn.
CellsAreOfThisTurn ==
  BotMoves =>
    /\ Layers.cells = requests
    /\ requests = IF seat = "rollouts" THEN Legal(rollsLeft) ELSE Entries

Counters == seat \in Bots \union {"human"} /\ rollsLeft \in 0..2

TurnInv == Counters /\ CellsAreOfThisTurn

-----------------------------------------------------------------------------
(* The rules' answer about the cells the bot sees is the rules' answer.      *)

\* Placing is offered on legal cells and holding only when a throw is allowed.
LEMMA ResolveIsAllowed ==
  ASSUME Counters, NEW b, b.cells = Entries, NEW exploring \in BOOLEAN,
         NEW a \in Resolve(b, dice, rollsLeft, exploring)
  PROVE  IF a.place THEN a.cell \in Legal(rollsLeft) ELSE CanReroll
<1>1. CASE BonusActive(dice, rollsLeft)
  <2>1. PICK c \in Pick(b.cells, BestOf(b.cells, LAMBDA x : BonusValue(b, x)), exploring) :
          a = Place(c)
    BY <1>1 DEF Resolve, BonusResults
  <2>2. c \in Entries
    BY <2>1 DEF Pick, BestOf
  <2>3. rollsLeft > 0
    BY <1>1 DEF BonusActive, Counters
  <2> QED BY <2>1, <2>2, <2>3 DEF Place, Legal
<1>2. ASSUME NEW cells \in SUBSET Entries,
             a \in PlaceResults(b, cells, dice, exploring)
      PROVE  a.place /\ a.cell \in cells
  <2>1. PICK c \in Pick(cells, BestOf(cells, LAMBDA x : ValueIn(b, x, dice)), exploring) :
          a = Place(c)
    BY <1>2 DEF PlaceResults
  <2> QED BY <2>1 DEF Pick, BestOf, Place
<1>3. CASE ~BonusActive(dice, rollsLeft) /\ rollsLeft = 0
  <2>1. a \in PlaceResults(b, Entries \ Turbo, dice, exploring)
    BY <1>3 DEF Resolve
  <2>2. a.place /\ a.cell \in Entries \ Turbo
    BY <2>1, <1>2
  <2> QED BY <2>2, <1>3 DEF Legal
<1>4. CASE ~BonusActive(dice, rollsLeft) /\ rollsLeft # 0
  <2>1. \/ a \in PlaceResults(b, Entries, dice, exploring)
        \/ a \in HoldResults(b, dice, rollsLeft, exploring)
    BY <1>4 DEF Resolve
  <2>2. rollsLeft > 0
    BY <1>4 DEF Counters
  <2>3. CASE a \in PlaceResults(b, Entries, dice, exploring)
    BY <1>2, <2>2, <2>3 DEF Legal
  <2>4. CASE a \in HoldResults(b, dice, rollsLeft, exploring)
    <3>1. ~ForcePlace(b, rollsLeft)
      BY <2>4 DEF HoldResults
    <3>2. \E m \in Masks : a = Hold(m)
      BY <2>4, <3>1 DEF HoldResults, BestOf
    <3>3. ~a.place
      BY <3>2 DEF Hold
    <3> QED BY <3>1, <3>3, <2>2 DEF ForcePlace, CanReroll
  <2> QED BY <2>1, <2>3, <2>4
<1> QED BY <1>1, <1>3, <1>4

LEMMA RolloutsAreAllowed ==
  ASSUME Counters, NEW b, b.cells = Legal(rollsLeft),
         NEW a \in RolloutResults(b, dice, rollsLeft)
  PROVE  IF a.place THEN a.cell \in Legal(rollsLeft) ELSE CanReroll
<1>1. CASE BonusActive(dice, rollsLeft)
  <2>1. PICK c \in Pick(b.cells, BestOf(b.cells, LAMBDA x : BonusValue(b, x)), FALSE) :
          a = Place(c)
    BY <1>1 DEF RolloutResults, BonusResults
  <2>2. c \in Legal(rollsLeft)
    BY <2>1 DEF Pick, BestOf
  <2> QED BY <2>1, <2>2 DEF Place
<1>2. CASE ~BonusActive(dice, rollsLeft)
  <2>1. a \in Candidates(b, dice, rollsLeft)
    BY <1>2 DEF RolloutResults, TopCandidates
  <2>2. CASE \E c \in b.cells : a = Place(c)
    BY <2>2 DEF Place
  <2>3. CASE MayThrow(b.cells, rollsLeft) /\ \E m \in Masks : a = Hold(m)
    <3>1. ~a.place /\ rollsLeft > 0 /\ Legal(rollsLeft) = Entries
      BY <2>3 DEF Hold, MayThrow, Legal
    <3> QED BY <3>1, <2>3 DEF MayThrow, CanReroll
  <2> QED BY <2>1, <2>2, <2>3 DEF Candidates
<1> QED BY <1>1, <1>2

LEMMA AllowedByInvariant == TurnInv => DecisionIsAllowed
<1> SUFFICES ASSUME TurnInv, BotMoves, NEW a \in Decisions
             PROVE  IF a.place THEN a.cell \in Legal(rollsLeft) ELSE CanReroll
  BY DEF DecisionIsAllowed, BotMoves
<1>1. CASE seat = "rollouts"
  <2>1. Layers.cells = Legal(rollsLeft) /\ a \in RolloutResults(Layers, dice, rollsLeft)
    BY <1>1 DEF TurnInv, CellsAreOfThisTurn, Decisions
  <2> QED BY <2>1, RolloutsAreAllowed DEF TurnInv
<1>2. CASE seat # "rollouts"
  <2>1. /\ Layers.cells = Entries
        /\ a \in Resolve(Layers, dice, rollsLeft, seat = "exploring")
    BY <1>2 DEF TurnInv, CellsAreOfThisTurn, Decisions
  <2> QED BY <2>1, ResolveIsAllowed DEF TurnInv
<1> QED BY <1>1, <1>2

-----------------------------------------------------------------------------
(* The invariant is kept.                                                    *)

LEMMA InitHolds == TurnInit => TurnInv
  BY DEF TurnInit, TurnInv, Counters, CellsAreOfThisTurn, BotMoves

\* A bot that starts has asked about the cells of its turn.
LEMMA BotTurnPreserves ==
  ASSUME TurnInv, BotTurn
  PROVE  TurnInv'
<1>1. Entries' = Entries
  BY DEF BotTurn, Start, Entries, Live, vars
<1>2. requests' = Entries /\ dp' = NoLayers /\ rollsLeft' = 2 /\ seat' = seat
  BY DEF BotTurn, Start, Ask, Legal
<1>3. Legal(rollsLeft)' = Entries
  BY <1>1, <1>2 DEF Legal
<1>4. Layers'.cells = requests'
  BY <1>2 DEF Layers
<1> QED BY <1>1, <1>2, <1>3, <1>4 DEF TurnInv, Counters, CellsAreOfThisTurn

LEMMA BotHoldsPreserves ==
  ASSUME TurnInv, BotMoves, CanReroll, NEW m, BotHolds(m)
  PROVE  TurnInv'
<1>1. Entries' = Entries /\ seat' = seat /\ rollsLeft' = rollsLeft - 1
  BY DEF BotHolds, Rethrow, Entries, Live, vars
<1>2. Counters'
  BY <1>1 DEF TurnInv, Counters, CanReroll
<1>3. CASE seat = "rollouts"
  <2>1. requests' = Legal(rollsLeft') /\ dp' = NoLayers
    BY <1>3 DEF BotHolds
  <2>2. Legal(rollsLeft)' = Legal(rollsLeft')
    BY <1>1 DEF Legal
  <2>3. Layers'.cells = requests'
    BY <2>1 DEF Layers
  <2> QED BY <1>1, <1>2, <1>3, <2>1, <2>2, <2>3 DEF TurnInv, CellsAreOfThisTurn
<1>4. CASE seat # "rollouts"
  <2>1. dp' = Layers /\ requests' = requests /\ evs' = evs
    BY <1>4 DEF BotHolds
  <2>2. Layers.cells = requests /\ requests = Entries
    BY <1>4 DEF TurnInv, CellsAreOfThisTurn
  <2>3. Layers'.cells = requests'
    BY <2>1, <2>2 DEF Layers
  <2> QED BY <1>1, <1>2, <1>4, <2>1, <2>2, <2>3 DEF TurnInv, CellsAreOfThisTurn
<1> QED BY <1>3, <1>4

LEMMA StepPreserves == TurnInv /\ [TurnNext]_allVars => TurnInv'
<1> SUFFICES ASSUME TurnInv, [TurnNext]_allVars PROVE TurnInv'
  OBVIOUS
<1>1. CASE CacheChanges
  BY <1>1 DEF CacheChanges, turnVars, TurnInv, Counters, CellsAreOfThisTurn, BotMoves
<1>2. CASE BotTurn
  BY <1>2, BotTurnPreserves
<1>3. CASE HumanTurn
  <2>1. seat' = "human" /\ rollsLeft' = 2
    BY <1>3 DEF HumanTurn, Start
  <2> QED BY <2>1 DEF TurnInv, Counters, CellsAreOfThisTurn, BotMoves, Bots
<1>4. CASE BotDecides
  <2>1. BotMoves
    BY <1>4 DEF BotDecides, BotMoves
  <2>2. PICK a \in Decisions : IF a.place THEN BotPlaces(a.cell) ELSE BotHolds(a.mask)
    BY <1>4 DEF BotDecides
  <2>3. CASE a.place
    <3>1. moving' = FALSE /\ rollsLeft' = 0 /\ seat' = seat
      BY <2>2, <2>3 DEF BotPlaces, Fill
    <3> QED BY <3>1 DEF TurnInv, Counters, CellsAreOfThisTurn, BotMoves
  <2>4. CASE ~a.place
    <3>1. CanReroll
      BY <2>1, <2>2, <2>4, AllowedByInvariant DEF DecisionIsAllowed, BotMoves
    <3> QED BY <2>1, <2>2, <2>4, <3>1, BotHoldsPreserves
  <2> QED BY <2>3, <2>4
<1>5. ASSUME NEW m \in Masks, HumanHolds(m) PROVE TurnInv'
  <2>1. seat' = "human" /\ rollsLeft' = rollsLeft - 1 /\ rollsLeft > 0
    BY <1>5 DEF HumanHolds, Rethrow, CanReroll
  <2> QED BY <2>1 DEF TurnInv, Counters, CellsAreOfThisTurn, BotMoves, Bots
<1>6. ASSUME NEW c \in Cells, HumanPlaces(c) PROVE TurnInv'
  <2>1. moving' = FALSE /\ rollsLeft' = 0 /\ seat' = seat
    BY <1>6 DEF HumanPlaces, Fill
  <2> QED BY <2>1 DEF TurnInv, Counters, CellsAreOfThisTurn, BotMoves
<1>7. CASE FileEntry
  BY <1>7 DEF FileEntry, TurnInv, Counters, CellsAreOfThisTurn, BotMoves
<1>8. CASE UNCHANGED allVars
  <2>1. /\ Entries' = Entries /\ Layers' = Layers
        /\ UNCHANGED <<seat, moving, requests, rollsLeft>>
    BY <1>8 DEF allVars, vars, turnVars, bufferVars, Entries, Live, Layers
  <2> QED BY <2>1 DEF TurnInv, Counters, CellsAreOfThisTurn, BotMoves, Legal
<1> QED BY <1>1, <1>2, <1>3, <1>4, <1>5, <1>6, <1>7, <1>8 DEF TurnNext

\* A bot never fills a cell that is not open for its throws left and never holds
\* when can_reroll() forbids it, so that the loops' assertions
\* (session_manager.h:1395 and 1503) cannot fail.
THEOREM BotsKeepTheRules == TurnSpec => []DecisionIsAllowed
<1> QED BY InitHolds, StepPreserves, AllowedByInvariant, PTL DEF TurnSpec

-----------------------------------------------------------------------------
(* Least elements.                                                         *)

NatLess == {x \in Nat \X Nat : x[1] < x[2]}

LEMMA NatLessWF == IsWellFoundedOn(NatLess, Nat)
  BY NatLessThanWellFounded DEF OpToRel, NatLess

LEMMA LeastNatural ==
  ASSUME NEW T, T \subseteq Nat, T # {}
  PROVE  \E t \in T : \A u \in T : t <= u
<1>1. PICK t \in T : \A u \in T : ~(<<u, t>> \in NatLess)
  BY NatLessWF, WFMin
<1>2. \A u \in T : t <= u
  <2> SUFFICES ASSUME NEW u \in T PROVE t <= u
    OBVIOUS
  <2>1. u \in Nat /\ t \in Nat /\ ~(<<u, t>> \in NatLess)
    BY <1>1
  <2>2. ~(u < t)
    BY <2>1 DEF NatLess
  <2> QED BY <2>1, <2>2
<1> QED BY <1>2

-----------------------------------------------------------------------------
(* Folds over finite sets.                                                 *)

\* it is what a fold with step computes for every subset of S.
FoldsOver(it, S, V, base, step) ==
  /\ it \in [SUBSET S -> V]
  /\ \A s \in SUBSET S :
        it[s] = IF s = {} THEN base
                ELSE step[CHOOSE x \in s : TRUE][it[s \ {CHOOSE x \in s : TRUE}]]

\* The same, for the subsets of at most k elements.
FoldsUpTo(it, S, V, base, step, k) ==
  \A s \in SUBSET S : Cardinality(s) <= k =>
     /\ it[s] \in V
     /\ it[s] = IF s = {} THEN base
                ELSE step[CHOOSE x \in s : TRUE][it[s \ {CHOOSE x \in s : TRUE}]]

LEMMA OneLess ==
  ASSUME NEW S, IsFiniteSet(S), NEW s \in SUBSET S, s # {}
  PROVE  LET x == CHOOSE y \in s : TRUE
         IN  /\ x \in s /\ x \in S /\ s \ {x} \in SUBSET S
             /\ Cardinality(s) \in Nat
             /\ Cardinality(s \ {x}) = Cardinality(s) - 1
<1> DEFINE x == CHOOSE y \in s : TRUE
<1>1. IsFiniteSet(s)
  BY FS_Subset
<1>2. x \in s
  OBVIOUS
<1>3. Cardinality(s \ {x}) = Cardinality(s) - 1
  BY <1>1, <1>2, FS_RemoveElement
<1>4. Cardinality(s) \in Nat
  BY <1>1, FS_CardinalityType
<1> QED BY <1>2, <1>3, <1>4

LEMMA FoldsUpToExists ==
  ASSUME NEW S, IsFiniteSet(S), NEW V, NEW base \in V,
         NEW step \in [S -> [V -> V]], NEW k \in Nat
  PROVE  \E it : FoldsUpTo(it, S, V, base, step, k)
<1> DEFINE Bad == {j \in Nat : ~ \E it : FoldsUpTo(it, S, V, base, step, j)}
<1>1. CASE Bad # {}
  <2> DEFINE T == Bad
  <2>1. T \subseteq Nat /\ T # {}
    BY <1>1
  <2> HIDE DEF T
  <2>2. PICK j \in T : \A u \in T : j <= u
    BY <2>1, LeastNatural
  <2>3. j \in Nat /\ ~ \E it : FoldsUpTo(it, S, V, base, step, j)
    BY <2>2 DEF T
  <2>4. \E g : FoldsUpTo(g, S, V, base, step, j - 1)
    <3>1. CASE j = 0
      <4> DEFINE g == [s \in SUBSET S |-> base]
      <4>1. ASSUME NEW s \in SUBSET S, Cardinality(s) <= j - 1 PROVE FALSE
        <5>1. Cardinality(s) \in Nat
          BY FS_Subset, FS_CardinalityType
        <5> QED BY <5>1, <4>1, <3>1
      <4>2. FoldsUpTo(g, S, V, base, step, j - 1)
        BY <4>1 DEF FoldsUpTo
      <4> QED BY <4>2
    <3>2. CASE j # 0
      <4>1. j - 1 \in Nat /\ j - 1 \notin T
        BY <2>2, <2>3, <3>2
      <4> QED BY <4>1 DEF T
    <3> QED BY <3>1, <3>2
  <2>5. PICK g : FoldsUpTo(g, S, V, base, step, j - 1)
    BY <2>4
  <2> DEFINE next_(s) == IF s = {} THEN base
                        ELSE step[CHOOSE x \in s : TRUE][g[s \ {CHOOSE x \in s : TRUE}]]
             it == [s \in SUBSET S |-> next_(s)]
  <2>6. ASSUME NEW s \in SUBSET S, Cardinality(s) <= j - 1
        PROVE  it[s] = g[s]
    BY <2>5, <2>6 DEF FoldsUpTo
  <2>7. ASSUME NEW s \in SUBSET S, Cardinality(s) <= j
        PROVE  /\ it[s] \in V
               /\ it[s] = IF s = {} THEN base
                          ELSE step[CHOOSE x \in s : TRUE][it[s \ {CHOOSE x \in s : TRUE}]]
    <3>1. CASE s = {}
      BY <3>1
    <3>2. CASE s # {}
      <4> DEFINE x == CHOOSE y \in s : TRUE
                 rest == s \ {x}
      <4>1. x \in S /\ rest \in SUBSET S /\ Cardinality(s) \in Nat
            /\ Cardinality(rest) = Cardinality(s) - 1
        BY <3>2, OneLess
      <4>2. Cardinality(rest) <= j - 1
        BY <4>1, <2>3, <2>7
      <4>3. it[rest] = g[rest] /\ g[rest] \in V
        BY <4>1, <4>2, <2>5, <2>6 DEF FoldsUpTo
      <4>4. it[s] = step[x][g[rest]]
        BY <3>2
      <4>5. step[x][g[rest]] \in V
        BY <4>1, <4>3
      <4> QED BY <3>2, <4>3, <4>4, <4>5
    <3> QED BY <3>1, <3>2
  <2>8. FoldsUpTo(it, S, V, base, step, j)
    <3> HIDE DEF it
    <3> QED BY <2>7 DEF FoldsUpTo
  <2> QED BY <2>3, <2>8
<1>2. CASE Bad = {}
  BY <1>2
<1> QED BY <1>1, <1>2

LEMMA FoldExists ==
  ASSUME NEW S, IsFiniteSet(S), NEW V, NEW base \in V, NEW step \in [S -> [V -> V]]
  PROVE  \E it : FoldsOver(it, S, V, base, step)
<1> DEFINE k == Cardinality(S)
<1>1. k \in Nat
  BY FS_CardinalityType
<1>2. PICK g : FoldsUpTo(g, S, V, base, step, k)
  BY <1>1, FoldsUpToExists
<1> DEFINE it == [s \in SUBSET S |-> g[s]]
<1>3. ASSUME NEW s \in SUBSET S
      PROVE  /\ it[s] \in V
             /\ it[s] = IF s = {} THEN base
                        ELSE step[CHOOSE x \in s : TRUE][it[s \ {CHOOSE x \in s : TRUE}]]
  <2>1. Cardinality(s) <= k
    BY FS_Subset
  <2>2. /\ g[s] \in V
        /\ g[s] = IF s = {} THEN base
                  ELSE step[CHOOSE x \in s : TRUE][g[s \ {CHOOSE x \in s : TRUE}]]
    BY <2>1, <1>2 DEF FoldsUpTo
  <2>3. s \ {CHOOSE x \in s : TRUE} \in SUBSET S
    OBVIOUS
  <2> QED BY <2>2, <2>3
<1>4. it \in [SUBSET S -> V]
  BY <1>3
<1> HIDE DEF it
<1> QED BY <1>3, <1>4 DEF FoldsOver

\* What the subsets have when each has it as soon as it does without one of
\* its elements, the whole set has.
LEMMA SubsetInduction ==
  ASSUME NEW S, IsFiniteSet(S), NEW G, {} \in G,
         \A s \in SUBSET S : s # {} => \E x \in s : s \ {x} \in G => s \in G
  PROVE  S \in G
<1> DEFINE Bad == {k \in Nat : \E s \in SUBSET S : s \notin G /\ Cardinality(s) = k}
<1>1. CASE S \notin G
  <2> DEFINE T == Bad
  <2>1. T \subseteq Nat /\ T # {}
    <3>1. Cardinality(S) \in Nat
      BY FS_CardinalityType
    <3> QED BY <3>1, <1>1
  <2> HIDE DEF T
  <2>2. PICK k \in T : \A u \in T : k <= u
    BY <2>1, LeastNatural
  <2>3. PICK s \in SUBSET S : s \notin G /\ Cardinality(s) = k
    BY <2>2 DEF T
  <2>4. PICK x \in s : s \ {x} \in G => s \in G
    BY <2>3
  <2>5. IsFiniteSet(s)
    BY FS_Subset
  <2>6. Cardinality(s \ {x}) = k - 1 /\ Cardinality(s \ {x}) \in Nat /\ k \in Nat
    BY <2>1, <2>3, <2>5, FS_RemoveElement, FS_CardinalityType
  <2>7. k - 1 \in Nat
    BY <2>6
  <2>8. k - 1 \in T
    BY <2>3, <2>4, <2>6, <2>7 DEF T
  <2> QED BY <2>2, <2>6, <2>8
<1> QED BY <1>1

-----------------------------------------------------------------------------
(* Sums and maxima over finite sets.                                       *)

\* it adds up f over every subset of S.
SumsUp(it, S, f) ==
  /\ it \in [SUBSET S -> Int]
  /\ it[{}] = 0
  /\ \A s \in SUBSET S : s # {} =>
        \E x \in s : it[s] = f[x] + it[s \ {x}]

LEMMA SumFunctionIs ==
  ASSUME NEW S, IsFiniteSet(S), NEW f \in [S -> Int]
  PROVE  \E it : SumsUp(it, S, f) /\ SumFunction(f) = it[S]
<1> DEFINE m(i) == f[i]
           step == [i \in S |-> [k \in Int |-> m(i) + k]]
           folds(it) == it = [s \in SUBSET S |->
                     IF s = {} THEN 0
                     ELSE LET x == CHOOSE x \in s : TRUE
                          IN  m(x) + it[s \ {x}]]
           iter == CHOOSE it : folds(it)
<1>1. \A i \in S : m(i) \in Int
  OBVIOUS
<1> HIDE DEF m
<1>2. step \in [S -> [Int -> Int]]
  BY <1>1
<1>3. PICK it : FoldsOver(it, S, Int, 0, step)
  <2>1. 0 \in Int
    OBVIOUS
  <2> HIDE DEF step
  <2> QED BY <1>2, <2>1, FoldExists
<1>4. folds(it)
  <2> DEFINE e == [s \in SUBSET S |-> IF s = {} THEN 0
                               ELSE LET x == CHOOSE x \in s : TRUE
                                    IN  m(x) + it[s \ {x}]]
  <2>1. it \in [SUBSET S -> Int]
    BY <1>3 DEF FoldsOver
  <2>2. ASSUME NEW s \in SUBSET S PROVE it[s] = e[s]
    <3>1. it[s] = IF s = {} THEN 0
                  ELSE step[CHOOSE x \in s : TRUE][it[s \ {CHOOSE x \in s : TRUE}]]
      BY <1>3 DEF FoldsOver
    <3>2. CASE s = {}
      BY <3>1, <3>2
    <3>3. CASE s # {}
      <4> DEFINE x == CHOOSE y \in s : TRUE
                 rest == it[s \ {x}]
      <4>1. x \in S /\ rest \in Int
        BY <2>1, <3>3, OneLess
      <4>2. it[s] = step[x][rest]
        BY <3>1, <3>3
      <4>3. step[x][rest] = m(x) + rest
        <5> HIDE DEF x, rest
        <5> QED BY <4>1
      <4> QED BY <3>3, <4>2, <4>3
    <3> QED BY <3>2, <3>3
  <2>3. it = [s \in SUBSET S |-> it[s]]
    BY <2>1
  <2> QED BY <2>2, <2>3
<1>5. folds(iter)
  <2> HIDE DEF folds
  <2> QED BY <1>4
<1>6. SumFunction(f) = iter[S]
  <2>1. SumFunction(f) = SumFunctionOnSet(f, S)
    BY DEF SumFunction
  <2>2. SumFunctionOnSet(f, S) = iter[S]
    BY DEF SumFunctionOnSet, FoldFunctionOnSet, MapThenFoldSet, m
  <2> QED BY <2>1, <2>2
<1> HIDE DEF iter, step
<1>7. iter[{}] = 0
  BY <1>5
<1>8. ASSUME NEW s \in SUBSET S, s # {}
      PROVE  \E x \in s : iter[s] = f[x] + iter[s \ {x}]
  <2> DEFINE x == CHOOSE y \in s : TRUE
  <2>1. x \in s
    BY <1>8
  <2>2. iter[s] = m(x) + iter[s \ {x}]
    BY <1>5, <1>8
  <2> HIDE DEF x
  <2> QED BY <2>1, <2>2 DEF m
<1>9. \A s \in SUBSET S : iter[s] \in Int
  <2> DEFINE G == {s \in SUBSET S : iter[s] \in Int}
  <2>1. {} \in G
    BY <1>7
  <2>2. ASSUME NEW s \in SUBSET S, s # {}
        PROVE  \E x \in s : s \ {x} \in G => s \in G
    <3>1. PICK x \in s : iter[s] = f[x] + iter[s \ {x}]
      BY <1>8, <2>2
    <3> QED BY <3>1
  <2> HIDE DEF G
  <2>3. ASSUME NEW s \in SUBSET S PROVE s \in G
    <3>1. IsFiniteSet(s)
      BY FS_Subset
    <3>2. \A t \in SUBSET s : t # {} => \E x \in t : t \ {x} \in G => t \in G
      BY <2>2
    <3> QED BY <2>1, <3>1, <3>2, SubsetInduction
  <2> QED BY <2>3 DEF G
<1>10. iter = [s \in SUBSET S |-> iter[s]]
  BY <1>5
<1> HIDE DEF folds
<1>11. iter \in [SUBSET S -> Int]
  BY <1>9, <1>10
<1>12. SumsUp(iter, S, f)
  BY <1>7, <1>8, <1>11 DEF SumsUp
<1> QED BY <1>6, <1>12

LEMMA SumIsInt ==
  ASSUME NEW S, IsFiniteSet(S), NEW f \in [S -> Int]
  PROVE  SumFunction(f) \in Int
<1>1. PICK it : SumsUp(it, S, f) /\ SumFunction(f) = it[S]
  BY SumFunctionIs
<1> QED BY <1>1 DEF SumsUp

LEMMA UpToIsFinite == \A n \in Nat : IsFiniteSet(1 .. n)
  BY FS_Interval

LEMMA SumOfNothing ==
  ASSUME NEW f \in [1 .. 0 -> Int]
  PROVE  SumFunction(f) = 0
<1>1. 1 .. 0 = {} /\ IsFiniteSet(1 .. 0)
  BY FS_EmptySet
<1>2. PICK it : SumsUp(it, 1 .. 0, f) /\ SumFunction(f) = it[1 .. 0]
  BY <1>1, SumFunctionIs
<1> QED BY <1>1, <1>2 DEF SumsUp

LEMMA SumOfOne ==
  ASSUME NEW f \in [1 .. 1 -> Int]
  PROVE  SumFunction(f) = f[1]
<1>1. 1 .. 1 = {1} /\ IsFiniteSet(1 .. 1)
  <2>1. IsFiniteSet(1 .. 1)
    <3>1. 1 \in Nat
      OBVIOUS
    <3> QED BY <3>1, UpToIsFinite, Zenon
  <2>2. \A x : x \in 1 .. 1 <=> x = 1
    BY SMT
  <2> QED BY <2>1, <2>2
<1>2. PICK it : SumsUp(it, 1 .. 1, f) /\ SumFunction(f) = it[1 .. 1]
  BY <1>1, SumFunctionIs
<1>3. it[{}] = 0 /\ it[{1}] = f[1] + it[{1} \ {1}]
  BY <1>1, <1>2 DEF SumsUp
<1>4. {1} \ {1} = {}
  OBVIOUS
<1>5. f[1] \in Int
  BY <1>1
<1> QED BY <1>1, <1>2, <1>3, <1>4, <1>5

LEMMA SumOfTwo ==
  ASSUME NEW f \in [1 .. 2 -> Int]
  PROVE  SumFunction(f) = f[1] + f[2]
<1>1. 1 .. 2 = {1, 2} /\ IsFiniteSet(1 .. 2)
  <2>1. IsFiniteSet(1 .. 2)
    <3>1. 2 \in Nat
      OBVIOUS
    <3> QED BY <3>1, UpToIsFinite, Zenon
  <2>2. \A x : x \in 1 .. 2 <=> x \in {1, 2}
    BY SMT
  <2> QED BY <2>1, <2>2
<1>2. PICK it : SumsUp(it, 1 .. 2, f) /\ SumFunction(f) = it[1 .. 2]
  BY <1>1, SumFunctionIs
<1>3. {1} \ {1} = {} /\ {2} \ {2} = {} /\ {1, 2} \ {1} = {2} /\ {1, 2} \ {2} = {1}
  OBVIOUS
<1>4. f[1] \in Int /\ f[2] \in Int
  BY <1>1
<1>5. it[{}] = 0
  BY <1>2 DEF SumsUp
<1>6. it[{1}] = f[1] + it[{1} \ {1}]
  BY <1>1, <1>2 DEF SumsUp
<1>7. it[{2}] = f[2] + it[{2} \ {2}]
  BY <1>1, <1>2 DEF SumsUp
<1>8. \E x \in {1, 2} : it[{1, 2}] = f[x] + it[{1, 2} \ {x}]
  <2>1. {1, 2} \in SUBSET (1 .. 2) /\ {1, 2} # {}
    BY <1>1
  <2> QED BY <1>2, <2>1 DEF SumsUp
<1>9. it[{1}] = f[1] /\ it[{2}] = f[2]
  BY <1>3, <1>4, <1>5, <1>6, <1>7
<1>10. it[{1, 2}] = f[1] + f[2]
  <2>1. PICK x \in {1, 2} : it[{1, 2}] = f[x] + it[{1, 2} \ {x}]
    BY <1>8
  <2>2. CASE x = 1
    BY <1>3, <1>4, <1>9, <2>1, <2>2
  <2>3. CASE x = 2
    <3>1. it[{1, 2}] = f[2] + it[{1}]
      <4>1. {1, 2} \ {x} = {1}
        BY <2>3
      <4> QED BY <2>1, <2>3, <4>1
    <3> QED BY <1>4, <1>9, <3>1
  <2> QED BY <2>1, <2>2, <2>3
<1> QED BY <1>1, <1>2, <1>10

\* A sum with one term that is not zero.
LEMMA SumOfSingle ==
  ASSUME NEW S, IsFiniteSet(S), NEW f \in [S -> Int], NEW e \in S,
         \A x \in S : x # e => f[x] = 0
  PROVE  SumFunction(f) = f[e]
<1>1. PICK it : SumsUp(it, S, f) /\ SumFunction(f) = it[S]
  BY SumFunctionIs
<1> DEFINE G == {s \in SUBSET S : it[s] = IF e \in s THEN f[e] ELSE 0}
<1>2. {} \in G
  BY <1>1 DEF SumsUp
<1>3. ASSUME NEW s \in SUBSET S, s # {}
      PROVE  \E x \in s : s \ {x} \in G => s \in G
  <2>1. PICK x \in s : it[s] = f[x] + it[s \ {x}]
    BY <1>1, <1>3 DEF SumsUp
  <2>2. x \in S /\ f[x] \in Int /\ f[e] \in Int
    OBVIOUS
  <2>3. CASE x = e
    <3>1. ASSUME s \ {x} \in G PROVE s \in G
      <4>1. e \in s /\ ~(e \in s \ {x})
        BY <2>3
      <4>2. it[s \ {x}] = 0
        BY <3>1, <4>1
      <4> QED BY <2>1, <2>2, <2>3, <4>1, <4>2
    <3> QED BY <3>1
  <2>4. CASE x # e
    <3>1. ASSUME s \ {x} \in G PROVE s \in G
      <4>1. (e \in s) <=> (e \in s \ {x})
        BY <2>4
      <4>2. it[s \ {x}] = IF e \in s THEN f[e] ELSE 0
        BY <3>1, <4>1
      <4>3. f[x] = 0
        BY <2>2, <2>4
      <4> QED BY <2>1, <2>2, <4>2, <4>3
    <3> QED BY <3>1
  <2> QED BY <2>3, <2>4
<1> HIDE DEF G
<1>4. S \in G
  BY <1>2, <1>3, SubsetInduction
<1> QED BY <1>1, <1>4 DEF G

\* What is counted value by value is counted.
LEMMA SumOfCounts ==
  ASSUME NEW S, IsFiniteSet(S), NEW P, IsFiniteSet(P), NEW d,
         NEW f, f = [x \in S |-> Cardinality({i \in P : d[i] = x})]
  PROVE  /\ SumFunction(f) = Cardinality({i \in P : d[i] \in S})
         /\ f \in [S -> Nat]
<1> DEFINE at(x) == {i \in P : d[i] = x}
           among(s) == {i \in P : d[i] \in s}
<1>1. \A x : IsFiniteSet(at(x)) /\ Cardinality(at(x)) \in Nat
  <2>1. \A x : at(x) \subseteq P
    OBVIOUS
  <2> HIDE DEF at
  <2> QED BY <2>1, FS_Subset, FS_CardinalityType
<1>2. \A s : IsFiniteSet(among(s)) /\ Cardinality(among(s)) \in Nat
  <2>1. \A s : among(s) \subseteq P
    OBVIOUS
  <2> HIDE DEF among
  <2> QED BY <2>1, FS_Subset, FS_CardinalityType
<1>3. f \in [S -> Nat] /\ f \in [S -> Int] /\ \A x \in S : f[x] = Cardinality(at(x))
  <2> HIDE DEF at
  <2>1. f = [x \in S |-> Cardinality(at(x))]
    BY DEF at
  <2> QED BY <1>1, <2>1
<1>4. PICK it : SumsUp(it, S, f) /\ SumFunction(f) = it[S]
  BY <1>3, SumFunctionIs
<1> DEFINE G == {s \in SUBSET S : it[s] = Cardinality(among(s))}
<1>5. {} \in G
  <2>1. among({}) = {}
    OBVIOUS
  <2>2. Cardinality({}) = 0
    BY FS_EmptySet
  <2> QED BY <1>4, <2>1, <2>2 DEF SumsUp
<1>6. ASSUME NEW s \in SUBSET S, s # {}
      PROVE  \E x \in s : s \ {x} \in G => s \in G
  <2>1. PICK x \in s : it[s] = f[x] + it[s \ {x}]
    BY <1>4, <1>6 DEF SumsUp
  <2>2. among(s) = at(x) \cup among(s \ {x}) /\ at(x) \cap among(s \ {x}) = {}
    BY <2>1
  <2> HIDE DEF at, among
  <2>3. Cardinality(at(x) \cap among(s \ {x})) = 0
    BY <2>2, FS_EmptySet
  <2>4. Cardinality(among(s)) = Cardinality(at(x)) + Cardinality(among(s \ {x})) - 0
    BY <1>1, <1>2, <2>2, <2>3, FS_Union
  <2>5. Cardinality(among(s)) = Cardinality(at(x)) + Cardinality(among(s \ {x}))
    BY <1>1, <1>2, <2>4
  <2> QED BY <1>3, <2>1, <2>5
<1> HIDE DEF G, at, among
<1>7. S \in G
  BY <1>5, <1>6, SubsetInduction
<1> QED BY <1>3, <1>4, <1>7 DEF G, among

LEMMA ImageIsFinite ==
  ASSUME NEW S, IsFiniteSet(S), NEW f
  PROVE  IsFiniteSet({f[x] : x \in S})
<1> DEFINE image(s) == {f[x] : x \in s}
           G == {s \in SUBSET S : IsFiniteSet(image(s))}
<1>1. {} \in G
  <2>1. image({}) = {}
    OBVIOUS
  <2> QED BY <2>1, FS_EmptySet
<1>2. ASSUME NEW s \in SUBSET S, s # {}
      PROVE  \E x \in s : s \ {x} \in G => s \in G
  <2>1. PICK x \in s : TRUE
    BY <1>2
  <2>2. image(s) = image(s \ {x}) \cup {f[x]}
    BY <2>1
  <2>3. ASSUME IsFiniteSet(image(s \ {x})) PROVE IsFiniteSet(image(s))
    <3> HIDE DEF image
    <3>1. IsFiniteSet(image(s \ {x}) \cup {f[x]})
      BY <2>3, FS_AddElement
    <3> QED BY <2>2, <3>1
  <2> QED BY <2>1, <2>3
<1> HIDE DEF G
<1>3. S \in G
  BY <1>1, <1>2, SubsetInduction
<1> QED BY <1>3 DEF G

LEMMA MaxIs ==
  ASSUME NEW S, IsFiniteSet(S), S \subseteq Int, S # {}
  PROVE  /\ Max(S) \in S /\ Max(S) \in Int
         /\ \A x \in S : x <= Max(S)
<1> DEFINE tops(s) == \E m \in s : \A x \in s : x <= m
           G == {s \in SUBSET S : s = {} \/ tops(s)}
<1>1. {} \in G
  OBVIOUS
<1>2. ASSUME NEW s \in SUBSET S, s # {}
      PROVE  \E x \in s : s \ {x} \in G => s \in G
  <2>1. PICK x \in s : TRUE
    BY <1>2
  <2>2. CASE s \ {x} = {}
    <3>1. \A y \in s : y <= x
      BY <2>1, <2>2
    <3> QED BY <2>1, <3>1
  <2>3. CASE s \ {x} # {}
    <3>1. ASSUME s \ {x} \in G PROVE tops(s)
      <4>1. PICK m \in s \ {x} : \A y \in s \ {x} : y <= m
        BY <2>3, <3>1
      <4>2. CASE x <= m
        BY <4>1, <4>2
      <4>3. CASE ~(x <= m)
        <5>1. x \in Int /\ \A y \in s : y \in Int
          BY <2>1
        <5>2. \A y \in s : y <= x
          BY <4>1, <4>3, <5>1
        <5> QED BY <2>1, <5>2
      <4> QED BY <4>2, <4>3
    <3> QED BY <2>1, <3>1
  <2> QED BY <2>2, <2>3
<1> HIDE DEF G
<1>3. S \in G
  BY <1>1, <1>2, SubsetInduction
<1>4. \E m \in S : \A x \in S : m >= x
  <2>1. tops(S)
    BY <1>3 DEF G
  <2> QED BY <2>1
<1>5. Max(S) \in S /\ \A x \in S : Max(S) >= x
  BY <1>4 DEF Max
<1> QED BY <1>5

LEMMA MaxOf ==
  ASSUME NEW S, S \subseteq Int, NEW m \in S, \A x \in S : x <= m
  PROVE  Max(S) = m
<1>1. \E k \in S : \A x \in S : k >= x
  OBVIOUS
<1> DEFINE top == CHOOSE k \in S : \A x \in S : k >= x
<1>2. top \in S /\ \A x \in S : top >= x
  BY <1>1
<1>3. Max(S) = top
  BY DEF Max
<1> HIDE DEF top
<1>4. top >= m /\ top <= m /\ top \in Int /\ m \in Int
  BY <1>2
<1> QED BY <1>3, <1>4

-----------------------------------------------------------------------------
(* Throws and the chances of a rethrow.                                    *)

LEMMA TableIs == \A f : Table(f) = f
  BY DEF Table

LEMMA DiceAreFinite ==
  /\ IsFiniteSet(Places) /\ IsFiniteSet(Sides) /\ IsFiniteSet(Masks)
  /\ Cardinality(Places) = NumDice
<1>1. IsFiniteSet(Places) /\ IsFiniteSet(Sides) /\ Cardinality(Places) = NumDice
  BY DiceAssumption, FS_Interval DEF Places, Sides
<1>2. IsFiniteSet(Masks)
  BY <1>1, FS_SUBSET DEF Masks
<1> QED BY <1>1, <1>2

LEMMA RollsAreFinite ==
  /\ IsFiniteSet(AllRolls)
  /\ Outcomes \in Nat \ {0}
  /\ Throws \subseteq AllRolls /\ IsFiniteSet(Throws)
<1> DEFINE graph == [r \in AllRolls |-> {<<i, r[i]>> : i \in Places}]
           graphs == SUBSET (Places \X Sides)
<1>1. IsFiniteSet(graphs)
  <2>1. IsFiniteSet(Places \X Sides)
    BY DiceAreFinite, FS_Product
  <2> QED BY <2>1, FS_SUBSET
<1>2. graph \in Injection(AllRolls, graphs)
  <2>1. graph \in [AllRolls -> graphs]
    BY DEF AllRolls
  <2>2. ASSUME NEW r \in AllRolls, NEW q \in AllRolls, graph[r] = graph[q]
        PROVE  r = q
    <3>1. ASSUME NEW i \in Places PROVE r[i] = q[i]
      <4>1. <<i, r[i]>> \in graph[q]
        BY <2>2
      <4> QED BY <4>1
    <3> QED BY <3>1 DEF AllRolls
  <2> HIDE DEF graph, graphs
  <2> QED BY <2>1, <2>2 DEF Injection, IsInjective
<1>3. IsFiniteSet(AllRolls)
  <2> HIDE DEF graph, graphs
  <2> QED BY <1>1, <1>2, FS_Injection
<1>4. AllRolls # {}
  <2>1. [i \in Places |-> 1] \in AllRolls
    BY DiceAssumption DEF AllRolls, Sides
  <2> QED BY <2>1
<1>5. Outcomes \in Nat \ {0}
  BY <1>3, <1>4, FS_CardinalityType, FS_EmptySet DEF Outcomes
<1>6. Throws \subseteq AllRolls
  BY DEF Throws, AllRolls
<1>7. IsFiniteSet(Throws)
  BY <1>3, <1>6, FS_Subset
<1> QED BY <1>3, <1>5, <1>6, <1>7

LEMMA ThrowsExist == Throws # {}
<1> DEFINE ones == [i \in Places |-> 1]
<1>1. ones \in [Places -> Sides]
  BY DiceAssumption DEF Sides
<1>2. \A i \in 1 .. (NumDice - 1) : ones[i] <= ones[i + 1]
  BY DiceAssumption DEF Places
<1> QED BY <1>1, <1>2 DEF Throws

LEMMA UnitIsPositive == Unit \in Nat \ {0} /\ NoValue \in Int /\ NoValue < 0
<1> DEFINE k == Outcomes
<1>1. k \in Nat \ {0}
  BY RollsAreFinite
<1> HIDE DEF k
<1>2. k * k \in Nat \ {0}
  BY <1>1
<1>3. k * k * k \in Nat \ {0}
  <2> DEFINE s == k * k
  <2>1. s \in Nat \ {0}
    BY <1>2
  <2> HIDE DEF s
  <2>2. s * k \in Nat \ {0}
    BY <1>1, <2>1
  <2> QED BY <2>2 DEF s
<1>4. Unit \in Nat \ {0}
  BY <1>3 DEF Unit, k
<1>5. NoValue = (0 - 1000) * Unit
  BY <1>4 DEF NoValue
<1> QED BY <1>4, <1>5

\* The moves are the configurations of the masks, whose dice they count.
LEMMA MovesAre ==
  ASSUME NEW d \in Throws, NEW m \in Masks
  PROVE  /\ Moves[d][m] = Held(d, m)
         /\ Moves[d][m] \in HeldConfigs
         /\ NumHeld(Held(d, m)) = Cardinality(m)
         /\ Cardinality(m) \in Nat /\ Cardinality(m) <= NumDice
         /\ IsFiniteSet(m)
<1>1. Moves[d][m] = Held(d, m)
  <2>1. Moves = [e \in Throws |-> Table([n \in Masks |-> Held(e, n)])]
    BY TableIs, Zenon DEF Moves
  <2>2. Moves[d] = Table([n \in Masks |-> Held(d, n)])
    BY <2>1, Zenon
  <2>3. Moves[d] = [n \in Masks |-> Held(d, n)]
    BY <2>2, TableIs, Zenon
  <2> QED BY <2>3, Zenon
<1>2. Moves[d][m] \in HeldConfigs
  BY DEF HeldConfigs
<1>3. /\ IsFiniteSet(m) /\ Cardinality(m) \in Nat
      /\ Cardinality(m) <= Cardinality(Places)
  BY DiceAreFinite, FS_Subset, FS_CardinalityType DEF Masks
<1>4. NumHeld(Held(d, m)) = Cardinality({i \in m : d[i] \in Sides})
  BY <1>3, DiceAreFinite, SumOfCounts DEF NumHeld, Held
<1>5. {i \in m : d[i] \in Sides} = m
  BY DEF Masks, Throws
<1> QED BY <1>1, <1>2, <1>3, <1>4, <1>5, DiceAreFinite

LEMMA NothingIsHeld == Nothing \in HeldConfigs
<1>1. PICK d \in Throws : TRUE
  BY ThrowsExist
<1>2. {} \in Masks
  BY DEF Masks
<1>3. \A f \in Sides : {i \in {} : d[i] = f} = {}
  OBVIOUS
<1>4. Held(d, {}) = Nothing
  BY <1>3, FS_EmptySet DEF Held, Nothing
<1> QED BY <1>1, <1>2, <1>4, MovesAre

LEMMA ChancesAre ==
  ASSUME NEW h \in HeldConfigs, NEW d \in Throws
  PROVE  /\ ChanceTable[h][d] = Chance(h, d)
         /\ Chance(h, d) \in Nat
<1>1. ChanceTable[h][d] = Chance(h, d)
  <2>1. ChanceTable = [k \in HeldConfigs |-> Table([e \in Throws |-> Chance(k, e)])]
    BY TableIs, Zenon DEF ChanceTable
  <2>2. ChanceTable[h] = Table([e \in Throws |-> Chance(h, e)])
    BY <2>1, Zenon
  <2>3. ChanceTable[h] = [e \in Throws |-> Chance(h, e)]
    BY <2>2, TableIs, Zenon
  <2> QED BY <2>3, Zenon
<1>2. Chance(h, d) \in Nat
  BY RollsAreFinite, FS_Subset, FS_CardinalityType DEF Chance
<1> QED BY <1>1, <1>2

LEMMA QuotientIsInt ==
  ASSUME NEW x \in Int
  PROVE  x \div Outcomes \in Int
<1> DEFINE k == Outcomes
<1>1. k \in Nat \ {0}
  BY RollsAreFinite
<1> HIDE DEF k
<1>2. x \div k \in Int
  BY <1>1
<1> QED BY <1>2 DEF k

LEMMA MeanIsInt ==
  ASSUME NEW h \in HeldConfigs, NEW v \in [Throws -> Int]
  PROVE  Mean(h, v) \in Int
<1> DEFINE f == [d \in Throws |-> ChanceTable[h][d] * v[d]]
<1>1. f \in [Throws -> Int]
  <2>1. ASSUME NEW d \in Throws PROVE ChanceTable[h][d] * v[d] \in Int
    <3>1. ChanceTable[h][d] \in Int /\ v[d] \in Int
      BY ChancesAre
    <3> QED BY <3>1
  <2> QED BY <2>1
<1>2. SumFunction(f) \in Int
  <2> HIDE DEF f
  <2> QED BY <1>1, RollsAreFinite, SumIsInt
<1>3. SumFunction(f) \div Outcomes \in Int
  BY <1>2, QuotientIsInt
<1> QED BY <1>3 DEF Mean

-----------------------------------------------------------------------------
(* The whole state of a turn.                                              *)

\* The points an entry of the sheet may be given.
Marks ==
  {0} \union {Points[c][d] : c \in Cells, d \in Throws} \union {BonusPoints[c] : c \in Cells}

EntryType ==
  [cells : SUBSET Cells, throws : Seq(Throws), masks : Seq(Masks),
   cell : Cells \union {NoCell}, points : Marks]

\* A recorded turn has one throw more than masks held in between, at most three.
Recorded(t) ==
  /\ t \in EntryType
  /\ Len(t.masks) \in 0..2
  /\ Len(t.throws) = Len(t.masks) + 1

LastThrow(t) == t.throws[Len(t.masks) + 1]

\* The record of the turn being played is of its cells and its throws so far.
RecordSoFar ==
  moving /\ seat = "human" =>
    /\ Recorded(entry)
    /\ entry.cells = Entries
    /\ LastThrow(entry) = dice
    /\ rollsLeft = 2 - Len(entry.masks)

\* A turn that was played is recorded to the points written.
RecordComplete ==
  Reviewed =>
    /\ Recorded(entry)
    /\ entry.cell \in entry.cells
    /\ entry.points = IF BonusActive(LastThrow(entry), 2 - Len(entry.masks))
                      THEN BonusPoints[entry.cell]
                      ELSE Points[entry.cell][LastThrow(entry)]

BotsRecordNothing == seat \in Bots => entry = NoEntry

\* A player who moves has dice, and a cell to fill with the throws left.
CanMove ==
  moving => /\ dice \in Throws
            /\ Entries # {}
            /\ rollsLeft = 0 => ~(Entries \subseteq Turbo)

\* The layers are of the values asked last.
ValuesAreOfThisTurn ==
  BotMoves =>
    /\ evs \in Valuations
    /\ Layers = [cells |-> requests, evs |-> evs]

PlayInv ==
  /\ CacheInv /\ TurnInv
  /\ RecordSoFar /\ RecordComplete /\ BotsRecordNothing
  /\ CanMove /\ ValuesAreOfThisTurn

LEMMA PlayInitHolds == TurnInit => PlayInv
<1> SUFFICES ASSUME TurnInit PROVE PlayInv
  OBVIOUS
<1>1. CacheInv /\ TurnInv
  BY CacheInitHolds, InitHolds DEF TurnInit
<1>2. ~moving /\ entry = NoEntry
  BY DEF TurnInit
<1> QED BY <1>1, <1>2 DEF PlayInv, RecordSoFar, RecordComplete, Reviewed,
           BotsRecordNothing, CanMove, ValuesAreOfThisTurn, BotMoves

\* Between two turns nothing is recorded and nobody moves.
LEMMA IdleHolds ==
  ASSUME CacheInv, TurnInv, ~moving, entry = NoEntry
  PROVE  PlayInv
  BY DEF PlayInv, RecordSoFar, RecordComplete, Reviewed, BotsRecordNothing, CanMove,
         ValuesAreOfThisTurn, BotMoves

\* A turn starts with dice and with every open cell to choose from.
LEMMA StartsWithCells ==
  ASSUME CacheInv, Start
  PROVE  /\ CacheInv' /\ Entries' = Entries
         /\ CanMove'
         /\ seat' = seat /\ moving' /\ rollsLeft' = 2 /\ dice' \in Throws
<1>1. CacheInv' /\ Entries' = Entries
  BY StutterPreserves DEF Start
<1>2. seat' = seat /\ moving' /\ rollsLeft' = 2 /\ dice' \in Throws /\ count > 0
  BY DEF Start
<1>3. Entries # {}
  <2>1. count \in Nat
    BY EntriesAreCells
  <2>2. 0 \in Live
    BY <2>1, <1>2 DEF Live
  <2> QED BY <2>2 DEF Entries
<1> QED BY <1>1, <1>2, <1>3 DEF CanMove

LEMMA BotTurnKeepsPlay ==
  ASSUME PlayInv, BotTurn
  PROVE  PlayInv'
<1>1. Start /\ seat \in Bots /\ entry' = entry
  BY DEF BotTurn
<1>2. CacheInv' /\ CanMove' /\ seat' = seat /\ moving' /\ seat' # "human"
  BY <1>1, StartsWithCells DEF PlayInv, Bots
<1>3. TurnInv'
  BY BotTurnPreserves DEF PlayInv
<1>4. entry' = NoEntry
  BY <1>1 DEF PlayInv, BotsRecordNothing
<1>5. evs' \in Valuations /\ dp' = NoLayers
  BY DEF BotTurn, Ask
<1>6. Layers' = [cells |-> requests', evs |-> evs']
  BY <1>5 DEF Layers
<1> QED BY <1>2, <1>3, <1>4, <1>5, <1>6
        DEF PlayInv, RecordSoFar, RecordComplete, Reviewed, BotsRecordNothing,
            ValuesAreOfThisTurn

LEMMA HumanTurnKeepsPlay ==
  ASSUME PlayInv, HumanTurn
  PROVE  PlayInv'
<1>1. Start /\ seat = "human"
  BY DEF HumanTurn
<1>2. /\ CacheInv' /\ CanMove' /\ Entries' = Entries
      /\ seat' = "human" /\ moving' /\ rollsLeft' = 2 /\ dice' \in Throws
  BY <1>1, StartsWithCells DEF PlayInv
<1>3. TurnInv'
  BY <1>2 DEF PlayInv, TurnInv, Counters, CellsAreOfThisTurn, BotMoves, Bots
<1>4. entry' = [cells |-> Entries, throws |-> <<dice'>>, masks |-> <<>>,
                cell |-> NoCell, points |-> 0]
  BY DEF HumanTurn, NoEntry
<1>5. Entries \subseteq Cells
  BY EntriesAreCells DEF PlayInv
<1>6. entry' \in EntryType
  BY <1>2, <1>4, <1>5 DEF EntryType, Marks
<1>7. Len(entry'.masks) = 0 /\ Len(entry'.throws) = 1 /\ entry'.throws[1] = dice'
  BY <1>4
<1>8. RecordSoFar'
  BY <1>2, <1>4, <1>6, <1>7 DEF RecordSoFar, Recorded, LastThrow
<1> QED BY <1>2, <1>3, <1>8
        DEF PlayInv, RecordComplete, Reviewed, BotsRecordNothing, Bots,
            ValuesAreOfThisTurn, BotMoves

LEMMA FillKeepsCache ==
  ASSUME PlayInv, NEW c \in Entries, Fill(c)
  PROVE  CacheInv' /\ ~moving' /\ seat' = seat
<1>1. c \in Cells
  BY EntriesAreCells DEF PlayInv
<1>2. Remove(c) /\ moving' = FALSE /\ seat' = seat
  BY DEF Fill
<1> QED BY <1>1, <1>2, RemovePreserves DEF PlayInv

LEMMA LegalIsOpen == \A r : Legal(r) \subseteq Entries
  BY DEF Legal

LEMMA BotDecidesKeepsPlay ==
  ASSUME PlayInv, BotDecides
  PROVE  PlayInv'
<1>1. BotMoves
  BY DEF BotDecides, BotMoves
<1>2. PICK a \in Decisions : IF a.place THEN BotPlaces(a.cell) ELSE BotHolds(a.mask)
  BY DEF BotDecides
<1>3. TurnInv'
  BY StepPreserves DEF PlayInv, TurnNext
<1>4. IF a.place THEN a.cell \in Legal(rollsLeft) ELSE CanReroll
  BY <1>1, AllowedByInvariant DEF DecisionIsAllowed, BotMoves, PlayInv
<1>5. entry = NoEntry
  BY <1>1 DEF PlayInv, BotsRecordNothing, BotMoves
<1>6. CASE a.place
  <2>1. BotPlaces(a.cell) /\ a.cell \in Entries
    BY <1>2, <1>4, <1>6, LegalIsOpen
  <2>2. Fill(a.cell) /\ entry' = entry
    BY <2>1 DEF BotPlaces
  <2>3. CacheInv' /\ ~moving'
    BY <2>1, <2>2, FillKeepsCache
  <2> QED BY <1>3, <1>5, <2>2, <2>3, IdleHolds
          DEF PlayInv, RecordSoFar, RecordComplete, Reviewed, BotsRecordNothing, CanMove,
              ValuesAreOfThisTurn, BotMoves
<1>7. CASE ~a.place
  <2>1. BotHolds(a.mask) /\ CanReroll
    BY <1>2, <1>4, <1>7
  <2>2. /\ rollsLeft' = rollsLeft - 1 /\ dice' \in Throws
        /\ UNCHANGED <<vars, seat, moving, evs, entry>>
    BY <2>1 DEF BotHolds, Rethrow
  <2>3. CacheInv' /\ Entries' = Entries
    BY <2>2, StutterPreserves DEF PlayInv
  <2>4. CanMove'
    BY <1>1, <2>1, <2>2, <2>3 DEF PlayInv, TurnInv, Counters, CanMove, CanReroll, BotMoves
  <2>5. Layers' = [cells |-> requests', evs |-> evs']
    <3>1. CASE seat = "rollouts"
      <4>1. dp' = NoLayers
        BY <2>1, <3>1 DEF BotHolds
      <4> QED BY <4>1 DEF Layers
    <3>2. CASE seat # "rollouts"
      <4>1. dp' = Layers /\ requests' = requests /\ evs' = evs
        BY <2>1, <3>2 DEF BotHolds
      <4>2. Layers = [cells |-> requests, evs |-> evs]
        BY <1>1 DEF PlayInv, ValuesAreOfThisTurn
      <4> QED BY <4>1, <4>2 DEF Layers
    <3> QED BY <3>1, <3>2
  <2>6. evs' \in Valuations
    BY <1>1, <2>2 DEF PlayInv, ValuesAreOfThisTurn
  <2> QED BY <1>1, <1>3, <1>5, <2>2, <2>3, <2>4, <2>5, <2>6
          DEF PlayInv, RecordSoFar, RecordComplete, Reviewed, BotsRecordNothing,
              ValuesAreOfThisTurn, BotMoves, Bots
<1> QED BY <1>6, <1>7

LEMMA HumanHoldsKeepsPlay ==
  ASSUME PlayInv, NEW m \in Masks, HumanHolds(m)
  PROVE  PlayInv'
<1>1. moving /\ seat = "human" /\ CanReroll
  BY DEF HumanHolds
<1>2. /\ rollsLeft' = rollsLeft - 1 /\ dice' \in Throws
      /\ UNCHANGED <<vars, seat, moving>>
  BY DEF HumanHolds, Rethrow
<1>3. CacheInv' /\ Entries' = Entries
  BY <1>2, StutterPreserves DEF PlayInv
<1>4. TurnInv'
  BY StepPreserves DEF PlayInv, TurnNext
<1>5. /\ entry \in EntryType /\ entry.cells = Entries
      /\ Len(entry.masks) \in 0..2 /\ Len(entry.throws) = Len(entry.masks) + 1
      /\ rollsLeft = 2 - Len(entry.masks)
  BY <1>1 DEF PlayInv, RecordSoFar, Recorded
<1>6. entry' = [cells |-> entry.cells, throws |-> Append(entry.throws, dice'),
                masks |-> Append(entry.masks, m), cell |-> entry.cell,
                points |-> entry.points]
  BY <1>5 DEF HumanHolds, EntryType
<1>7. entry.throws \in Seq(Throws) /\ entry.masks \in Seq(Masks)
  BY <1>5 DEF EntryType
<1>8. /\ Append(entry.throws, dice') \in Seq(Throws)
      /\ Append(entry.masks, m) \in Seq(Masks)
  BY <1>2, <1>7
<1>9. entry' \in EntryType
  BY <1>5, <1>6, <1>8 DEF EntryType
<1>10. /\ Len(entry'.masks) = Len(entry.masks) + 1
       /\ Len(entry'.throws) = Len(entry.throws) + 1
       /\ entry'.throws[Len(entry.throws) + 1] = dice'
  BY <1>6, <1>7
<1>11. rollsLeft > 0
  BY <1>1 DEF CanReroll
<1>12. RecordSoFar'
  <2>1. /\ Len(entry'.masks) \in 0..2 /\ Len(entry'.throws) = Len(entry'.masks) + 1
        /\ rollsLeft' = 2 - Len(entry'.masks)
    BY <1>2, <1>5, <1>10, <1>11
  <2>2. Recorded(entry')
    BY <1>9, <2>1 DEF Recorded
  <2>3. LastThrow(entry') = dice'
    BY <1>5, <1>10 DEF LastThrow
  <2>4. entry'.cells = Entries'
    BY <1>3, <1>5, <1>6
  <2>5. Recorded(entry)'
    BY <2>2 DEF Recorded
  <2>6. LastThrow(entry)' = dice'
    BY <2>3 DEF LastThrow
  <2> QED BY <2>1, <2>4, <2>5, <2>6 DEF RecordSoFar
<1>13. CanMove'
  <2>1. rollsLeft \in Int
    BY <1>5
  <2>2. rollsLeft' = 0 => ~(Entries \subseteq Turbo)
    BY <1>1, <1>2, <2>1 DEF CanReroll
  <2>3. Entries # {}
    BY <1>1 DEF PlayInv, CanMove
  <2> QED BY <1>2, <1>3, <2>2, <2>3 DEF CanMove
<1> QED BY <1>1, <1>2, <1>3, <1>4, <1>12, <1>13
        DEF PlayInv, RecordComplete, Reviewed, BotsRecordNothing, Bots,
            ValuesAreOfThisTurn, BotMoves

LEMMA HumanPlacesKeepsPlay ==
  ASSUME PlayInv, NEW c \in Cells, HumanPlaces(c)
  PROVE  PlayInv'
<1>1. moving /\ seat = "human" /\ c \in Entries /\ Fill(c)
  BY LegalIsOpen DEF HumanPlaces
<1>2. CacheInv' /\ ~moving' /\ seat' = "human"
  BY <1>1, FillKeepsCache
<1>3. TurnInv'
  BY StepPreserves DEF PlayInv, TurnNext
<1>4. /\ entry \in EntryType /\ entry.cells = Entries
      /\ Len(entry.masks) \in 0..2 /\ Len(entry.throws) = Len(entry.masks) + 1
      /\ rollsLeft = 2 - Len(entry.masks) /\ LastThrow(entry) = dice
  BY <1>1 DEF PlayInv, RecordSoFar, Recorded
<1>5. entry' = [cells |-> entry.cells, throws |-> entry.throws, masks |-> entry.masks,
                cell |-> c, points |-> WrittenPoints(c)]
  BY <1>4 DEF HumanPlaces, EntryType
<1>6. WrittenPoints(c) \in Marks
  <2>1. dice \in Throws
    BY <1>1 DEF PlayInv, CanMove
  <2> QED BY <2>1 DEF WrittenPoints, Marks
<1>7. entry' \in EntryType
  BY <1>4, <1>5, <1>6 DEF EntryType
<1>8. RecordComplete'
  <2>1. /\ entry'.cell = c /\ entry'.points = WrittenPoints(c) /\ entry'.cells = Entries
        /\ entry'.masks = entry.masks /\ entry'.throws = entry.throws
    BY <1>4, <1>5
  <2>2. LastThrow(entry') = dice
    BY <1>4, <2>1 DEF LastThrow
  <2>3. Recorded(entry')
    BY <1>4, <1>7, <2>1 DEF Recorded
  <2>4. WrittenPoints(c) = IF BonusActive(dice, 2 - Len(entry.masks))
                           THEN BonusPoints[c] ELSE Points[c][dice]
    BY <1>4 DEF WrittenPoints
  <2> QED BY <1>1, <2>1, <2>2, <2>3, <2>4 DEF RecordComplete, Recorded, LastThrow
<1> QED BY <1>2, <1>3, <1>8
        DEF PlayInv, RecordSoFar, BotsRecordNothing, Bots, CanMove, ValuesAreOfThisTurn,
            BotMoves

LEMMA PlayStepPreserves == PlayInv /\ [TurnNext]_allVars => PlayInv'
<1> SUFFICES ASSUME PlayInv, [TurnNext]_allVars PROVE PlayInv'
  OBVIOUS
<1>1. TurnInv'
  BY StepPreserves DEF PlayInv
<1>2. CASE CacheChanges
  <2>1. CacheInv'
    BY <1>2, CacheStepPreserves DEF CacheChanges, PlayInv
  <2>2. ~moving' /\ entry' = NoEntry
    BY <1>2 DEF CacheChanges, turnVars
  <2> QED BY <1>1, <2>1, <2>2
          DEF PlayInv, RecordSoFar, RecordComplete, Reviewed, BotsRecordNothing, CanMove,
              ValuesAreOfThisTurn, BotMoves
<1>3. CASE BotTurn
  BY <1>3, BotTurnKeepsPlay
<1>4. CASE HumanTurn
  BY <1>4, HumanTurnKeepsPlay
<1>5. CASE BotDecides
  BY <1>5, BotDecidesKeepsPlay
<1>6. ASSUME NEW m \in Masks, HumanHolds(m) PROVE PlayInv'
  BY <1>6, HumanHoldsKeepsPlay
<1>7. ASSUME NEW c \in Cells, HumanPlaces(c) PROVE PlayInv'
  BY <1>7, HumanPlacesKeepsPlay
<1>8. CASE FileEntry
  <2>1. CacheInv'
    BY <1>8, StutterPreserves DEF FileEntry, PlayInv
  <2>2. ~moving' /\ entry' = NoEntry
    BY <1>8 DEF FileEntry
  <2> QED BY <1>1, <2>1, <2>2
          DEF PlayInv, RecordSoFar, RecordComplete, Reviewed, BotsRecordNothing, CanMove,
              ValuesAreOfThisTurn, BotMoves
<1>9. CASE UNCHANGED allVars
  <2>1. CacheInv' /\ Entries' = Entries
    BY <1>9, StutterPreserves DEF PlayInv, allVars
  <2>2. UNCHANGED <<seat, moving, dice, rollsLeft, requests, evs, dp, entry>>
    BY <1>9 DEF allVars, turnVars, bufferVars
  <2>3. Layers' = Layers
    BY <2>2 DEF Layers
  <2> QED BY <1>1, <2>1, <2>2, <2>3
          DEF PlayInv, RecordSoFar, RecordComplete, Reviewed, BotsRecordNothing, CanMove,
              ValuesAreOfThisTurn, BotMoves
<1> QED BY <1>2, <1>3, <1>4, <1>5, <1>6, <1>7, <1>8, <1>9 DEF TurnNext

LEMMA PlayInvariance == TurnSpec => []PlayInv
  BY PlayInitHolds, PlayStepPreserves, PTL DEF TurnSpec

-----------------------------------------------------------------------------
(* The layers of the dynamic programme are numbers.                        *)

BufferOK(b) ==
  /\ IsFiniteSet(b.cells)
  /\ \A c \in b.cells, d \in Throws : ValueIn(b, c, d) \in Int /\ ValueIn(b, c, d) >= NoValue

ValuesOf(b, cells, d) == {ValueIn(b, c, d) : c \in cells}

LEMMA ValuesAreInts ==
  ASSUME NEW b, BufferOK(b), NEW cells \in SUBSET b.cells, NEW d \in Throws
  PROVE  /\ IsFiniteSet(ValuesOf(b, cells, d)) /\ ValuesOf(b, cells, d) \subseteq Int
         /\ IsFiniteSet({NoValue} \union ValuesOf(b, cells, d))
         /\ {NoValue} \union ValuesOf(b, cells, d) \subseteq Int
<1> DEFINE f == [c \in cells |-> ValueIn(b, c, d)]
<1>1. IsFiniteSet(cells)
  BY FS_Subset DEF BufferOK
<1>2. IsFiniteSet({f[c] : c \in cells})
  <2> HIDE DEF f
  <2> QED BY <1>1, ImageIsFinite
<1>3. {f[c] : c \in cells} = ValuesOf(b, cells, d)
  BY DEF ValuesOf
<1>4. ValuesOf(b, cells, d) \subseteq Int
  BY DEF ValuesOf, BufferOK
<1>5. IsFiniteSet(ValuesOf(b, cells, d))
  BY <1>2, <1>3
<1>6. IsFiniteSet(ValuesOf(b, cells, d) \union {NoValue})
  BY <1>5, FS_AddElement
<1>7. ValuesOf(b, cells, d) \union {NoValue} = {NoValue} \union ValuesOf(b, cells, d)
  OBVIOUS
<1> QED BY <1>4, <1>5, <1>6, <1>7, UnitIsPositive

MeansOf(d, next) == {Mean(Moves[d][m], next) : m \in Masks}

LEMMA MeansAreInts ==
  ASSUME NEW d \in Throws, NEW next \in [Throws -> Int]
  PROVE  /\ IsFiniteSet(MeansOf(d, next)) /\ MeansOf(d, next) \subseteq Int
         /\ \A m \in Masks : Mean(Moves[d][m], next) \in MeansOf(d, next)
         /\ MeansOf(d, next) # {}
         /\ \A k \in Int : /\ IsFiniteSet({k} \union MeansOf(d, next))
                           /\ {k} \union MeansOf(d, next) \subseteq Int
<1> DEFINE f == [m \in Masks |-> Mean(Moves[d][m], next)]
<1>1. IsFiniteSet({f[m] : m \in Masks})
  <2> HIDE DEF f
  <2> QED BY DiceAreFinite, ImageIsFinite
<1>2. {f[m] : m \in Masks} = MeansOf(d, next)
  BY DEF MeansOf
<1>3. MeansOf(d, next) \subseteq Int
  <2>1. ASSUME NEW m \in Masks PROVE Mean(Moves[d][m], next) \in Int
    BY MovesAre, MeanIsInt
  <2> QED BY <2>1 DEF MeansOf
<1>4. IsFiniteSet(MeansOf(d, next))
  BY <1>1, <1>2
<1>5. \A m \in Masks : Mean(Moves[d][m], next) \in MeansOf(d, next)
  BY DEF MeansOf
<1>6. {} \in Masks
  BY DEF Masks
<1>7. ASSUME NEW k \in Int
      PROVE  /\ IsFiniteSet({k} \union MeansOf(d, next))
             /\ {k} \union MeansOf(d, next) \subseteq Int
  <2>1. IsFiniteSet(MeansOf(d, next) \union {k})
    BY <1>4, FS_AddElement
  <2>2. MeansOf(d, next) \union {k} = {k} \union MeansOf(d, next)
    OBVIOUS
  <2> QED BY <1>3, <2>1, <2>2
<1> QED BY <1>3, <1>4, <1>5, <1>6, <1>7

LEMMA LastValueIs ==
  ASSUME NEW b, BufferOK(b)
  PROVE  /\ LastValue(b) \in [Throws -> Int]
         /\ \A d \in Throws :
              LastValue(b)[d] = Max({NoValue} \union ValuesOf(b, b.cells \ Turbo, d))
<1> DEFINE best(d) == Max({NoValue} \union ValuesOf(b, b.cells \ Turbo, d))
<1>1. LastValue(b) = [d \in Throws |-> best(d)]
  BY TableIs, Zenon DEF LastValue, ValuesOf
<1>2. ASSUME NEW d \in Throws PROVE best(d) \in Int
  <2> DEFINE S == {NoValue} \union ValuesOf(b, b.cells \ Turbo, d)
  <2>1. b.cells \ Turbo \in SUBSET b.cells
    OBVIOUS
  <2>2. IsFiniteSet(S) /\ S \subseteq Int /\ S # {}
    BY <2>1, ValuesAreInts
  <2> HIDE DEF S
  <2>3. Max(S) \in Int
    BY <2>2, MaxIs
  <2> QED BY <2>3 DEF S
<1> HIDE DEF best
<1>3. LastValue(b) \in [Throws -> Int] /\ \A d \in Throws : LastValue(b)[d] = best(d)
  BY <1>1, <1>2
<1> QED BY <1>3 DEF best

LEMMA StopValueIs ==
  ASSUME NEW b, BufferOK(b)
  PROVE  /\ StopValue(b) \in [Throws -> Int]
         /\ \A d \in Throws : StopValue(b)[d] = Max({NoValue} \union ValuesOf(b, b.cells, d))
<1> DEFINE best(d) == Max({NoValue} \union ValuesOf(b, b.cells, d))
<1>1. StopValue(b) = [d \in Throws |-> best(d)]
  BY TableIs, Zenon DEF StopValue, ValuesOf
<1>2. ASSUME NEW d \in Throws PROVE best(d) \in Int
  <2> DEFINE S == {NoValue} \union ValuesOf(b, b.cells, d)
  <2>1. b.cells \in SUBSET b.cells
    OBVIOUS
  <2>2. IsFiniteSet(S) /\ S \subseteq Int /\ S # {}
    BY <2>1, ValuesAreInts
  <2> HIDE DEF S
  <2>3. Max(S) \in Int
    BY <2>2, MaxIs
  <2> QED BY <2>3 DEF S
<1> HIDE DEF best
<1>3. StopValue(b) \in [Throws -> Int] /\ \A d \in Throws : StopValue(b)[d] = best(d)
  BY <1>1, <1>2
<1> QED BY <1>3 DEF best

LEMMA OrRethrowIs ==
  ASSUME NEW b, BufferOK(b), NEW next \in [Throws -> Int]
  PROVE  /\ OrRethrow(b, next) \in [Throws -> Int]
         /\ \A d \in Throws :
              OrRethrow(b, next)[d] = Max({StopValue(b)[d]} \union MeansOf(d, next))
<1> DEFINE best(d) == Max({StopValue(b)[d]} \union MeansOf(d, next))
<1>1. OrRethrow(b, next) = [d \in Throws |-> best(d)]
  BY TableIs, Zenon DEF OrRethrow, MeansOf
<1>2. ASSUME NEW d \in Throws PROVE best(d) \in Int
  <2> DEFINE S == {StopValue(b)[d]} \union MeansOf(d, next)
  <2>1. StopValue(b)[d] \in Int
    BY StopValueIs
  <2>2. IsFiniteSet(S) /\ S \subseteq Int /\ S # {}
    BY <2>1, MeansAreInts
  <2> HIDE DEF S
  <2>3. Max(S) \in Int
    BY <2>2, MaxIs
  <2> QED BY <2>3 DEF S
<1> HIDE DEF best
<1>3. OrRethrow(b, next) \in [Throws -> Int] /\ \A d \in Throws : OrRethrow(b, next)[d] = best(d)
  BY <1>1, <1>2
<1> QED BY <1>3 DEF best

LEMMA LayersAreInts ==
  ASSUME NEW b, BufferOK(b)
  PROVE  /\ LastValue(b) \in [Throws -> Int]
         /\ OneLeft(b) \in [Throws -> Int]
         /\ TwoLeft(b) \in [Throws -> Int]
<1>1. LastValue(b) \in [Throws -> Int]
  BY LastValueIs
<1>2. OneLeft(b) \in [Throws -> Int]
  BY <1>1, OrRethrowIs DEF OneLeft
<1>3. TwoLeft(b) \in [Throws -> Int]
  BY <1>2, OrRethrowIs DEF TwoLeft
<1> QED BY <1>1, <1>2, <1>3

\* A network's values make a buffer of any open cells.
LEMMA BufferIsOK ==
  ASSUME NEW v \in Valuations, NEW cells \in SUBSET Cells
  PROVE  BufferOK([cells |-> cells, evs |-> v])
<1> DEFINE b == [cells |-> cells, evs |-> v]
<1>1. b.cells = cells /\ b.evs = v
  OBVIOUS
<1> HIDE DEF b
<1>2. IsFiniteSet(b.cells)
  BY <1>1, CacheAssumption, FS_Subset
<1>3. \A c \in b.cells, d \in Throws : ValueIn(b, c, d) \in Int /\ ValueIn(b, c, d) >= NoValue
  BY <1>1, ValuationAssumption DEF ValueIn
<1>4. BufferOK(b)
  BY <1>2, <1>3 DEF BufferOK
<1> QED BY <1>4 DEF b

-----------------------------------------------------------------------------
(* The review adds up.                                                     *)

\* A turn reviewed by a network, whose enumeration missed no cell.
Reviewable(t) ==
  /\ Recorded(t)
  /\ t.cell \in t.cells
  /\ t.points = IF BonusActive(LastThrow(t), 2 - Len(t.masks))
                THEN BonusPoints[t.cell] ELSE Points[t.cell][LastThrow(t)]
  /\ TurboIsOpen(t) => Len(t.masks) < 2
  /\ ~BonusActive(t.throws[1], 2)

LEMMA ReviewedFields ==
  ASSUME NEW t, Reviewable(t)
  PROVE  /\ t.cells \in SUBSET Cells /\ t.cell \in Cells
         /\ t.throws \in Seq(Throws) /\ t.masks \in Seq(Masks)
         /\ \A i \in 1 .. Len(t.masks) + 1 : t.throws[i] \in Throws
         /\ \A i \in 1 .. Len(t.masks) : t.masks[i] \in Masks
         /\ t.points = Points[t.cell][LastThrow(t)]
         /\ LastThrow(t) \in Throws
<1>1. /\ t.cells \in SUBSET Cells /\ t.throws \in Seq(Throws) /\ t.masks \in Seq(Masks)
      /\ Len(t.masks) \in 0..2 /\ Len(t.throws) = Len(t.masks) + 1
  BY DEF Reviewable, Recorded, EntryType
<1>2. t.cell \in Cells
  BY <1>1 DEF Reviewable
<1>3. \A i \in 1 .. Len(t.masks) + 1 : t.throws[i] \in Throws
  BY <1>1
<1>4. \A i \in 1 .. Len(t.masks) : t.masks[i] \in Masks
  BY <1>1
<1>5. LastThrow(t) \in Throws
  BY <1>1, <1>3 DEF LastThrow
<1>6. ~BonusActive(LastThrow(t), 2 - Len(t.masks))
  <2>1. CASE Len(t.masks) = 0
    BY <2>1 DEF Reviewable, LastThrow
  <2>2. CASE Len(t.masks) # 0
    <3>1. 2 - Len(t.masks) # 2
      BY <1>1, <2>2
    <3> QED BY <3>1 DEF BonusActive
  <2> QED BY <2>1, <2>2
<1>7. t.points = Points[t.cell][LastThrow(t)]
  BY <1>6 DEF Reviewable
<1> QED BY <1>1, <1>2, <1>3, <1>4, <1>5, <1>7

LEMMA EnumeratesAll ==
  ASSUME NEW t, Reviewable(t), NEW g \in Garbage, NEW v, TurboIsOpen(t) => g # 0
  PROVE  Buffer(t, v, g) = [cells |-> t.cells, evs |-> v]
<1>1. Enumerated(t, g) = t.cells
  BY DEF Enumerated, TurboIsOpen, Garbage
<1> QED BY <1>1 DEF Buffer

\* The value at which throw k of the turn stands before it is used.
Standing(b, t, k) == Layer(b, ThrowsLeft(k))[t.throws[k]]

LEMMA StandingIsInt ==
  ASSUME NEW t, Reviewable(t), NEW b, BufferOK(b), NEW k \in 1 .. Len(t.masks) + 1
  PROVE  /\ Standing(b, t, k) \in Int
         /\ Layer(b, ThrowsLeft(k)) \in [Throws -> Int]
<1>1. Layer(b, ThrowsLeft(k)) \in [Throws -> Int]
  BY LayersAreInts DEF Layer
<1>2. t.throws[k] \in Throws
  BY ReviewedFields
<1> QED BY <1>1, <1>2 DEF Standing

\* A hold gives up what the next throw, less its luck, is not worth.
LEMMA HoldTelescopes ==
  ASSUME NEW t, Reviewable(t), NEW b, BufferOK(b), b.cells = t.cells,
         NEW k \in 1 .. Len(t.masks)
  PROVE  /\ ~ForcePlace(b, ThrowsLeft(k))
         /\ HoldDelta(b, t, k) \in Int /\ Luck(b, t, k + 1) \in Int
         /\ HoldDelta(b, t, k) - Luck(b, t, k + 1) = Standing(b, t, k) - Standing(b, t, k + 1)
<1>1. Len(t.masks) \in 0..2 /\ k \in {1, 2} /\ k \in Nat
  <2>1. Len(t.masks) \in 0..2
    BY DEF Reviewable, Recorded
  <2> DEFINE n == Len(t.masks)
  <2>2. n \in 0..2 /\ k \in 1 .. n
    BY <2>1
  <2> HIDE DEF n
  <2>3. k \in Nat /\ (k = 1 \/ k = 2)
    BY <2>2
  <2> QED BY <2>1, <2>3
<1>2. ~BonusActive(t.throws[k], ThrowsLeft(k))
  <2>1. CASE k = 1
    BY <2>1 DEF Reviewable, ThrowsLeft
  <2>2. CASE k # 1
    <3>1. ThrowsLeft(k) # 2
      BY <1>1, <2>2 DEF ThrowsLeft
    <3> QED BY <3>1 DEF BonusActive
  <2> QED BY <2>1, <2>2
<1>3. ~ForcePlace(b, ThrowsLeft(k))
  <2>1. CASE k = 1
    <3>1. ThrowsLeft(k) # 1
      BY <2>1 DEF ThrowsLeft
    <3> QED BY <3>1 DEF ForcePlace
  <2>2. CASE k # 1
    <3>1. Len(t.masks) = 2
      BY <1>1, <2>2
    <3>2. t.cells \cap Turbo = {} /\ t.cells # {}
      BY <3>1 DEF Reviewable, TurboIsOpen
    <3> QED BY <3>2 DEF ForcePlace
  <2> QED BY <2>1, <2>2
<1> DEFINE held == Mean(Moves[t.throws[k]][t.masks[k]], Layer(b, ThrowsLeft(k + 1)))
<1>4. HoldDelta(b, t, k) = Standing(b, t, k) - held
  <2>1. BestValue(b, t, k) = Standing(b, t, k)
    BY <1>2 DEF BestValue, Standing
  <2>2. ThrowsLeft(k) - 1 = ThrowsLeft(k + 1)
    BY <1>1 DEF ThrowsLeft
  <2>3. ChosenHold(b, t, k) = held
    BY <1>2, <2>2 DEF ChosenHold, HeldValue
  <2> QED BY <2>1, <2>3 DEF HoldDelta
<1>5. Luck(b, t, k + 1) = Standing(b, t, k + 1) - held
  <2>1. (k + 1) - 1 = k /\ k + 1 # 1
    BY <1>1
  <2>2. ThrowsLeft(k + 1) = 3 - (k + 1)
    BY DEF ThrowsLeft
  <2> HIDE DEF held
  <2>3. Mean(Moves[t.throws[(k + 1) - 1]][t.masks[(k + 1) - 1]], Layer(b, 3 - (k + 1))) = held
    BY <2>1, <2>2 DEF held
  <2>4. Layer(b, 3 - (k + 1))[t.throws[k + 1]] = Standing(b, t, k + 1)
    BY <2>2 DEF Standing
  <2> QED BY <2>1, <2>3, <2>4 DEF Luck
<1>6. k \in 1 .. Len(t.masks) + 1 /\ k + 1 \in 1 .. Len(t.masks) + 1
  BY <1>1
<1>7. /\ Standing(b, t, k) \in Int /\ Standing(b, t, k + 1) \in Int
      /\ Layer(b, ThrowsLeft(k + 1)) \in [Throws -> Int]
  BY <1>6, StandingIsInt
<1>8. held \in Int
  <2>1. t.throws[k] \in Throws /\ t.masks[k] \in Masks
    BY <1>6, ReviewedFields
  <2>2. Moves[t.throws[k]][t.masks[k]] \in HeldConfigs
    BY <2>1, MovesAre
  <2> QED BY <1>7, <2>2, MeanIsInt
<1> HIDE DEF held
<1> QED BY <1>3, <1>4, <1>5, <1>7, <1>8

\* The placement gives up what the last throw is not worth.
LEMMA PlaceTelescopes ==
  ASSUME NEW t, Reviewable(t), NEW b, BufferOK(b), b.cells = t.cells
  PROVE  BestPlace(b, t) = Standing(b, t, Len(t.masks) + 1)
<1> DEFINE last == Len(t.masks) + 1
<1>1. Len(t.masks) \in 0..2
  BY DEF Reviewable, Recorded
<1>2. CASE Len(t.masks) < 2
  <2>1. ThrowsLeft(last) >= 1
    BY <1>1, <1>2 DEF ThrowsLeft
  <2>2. ~BonusActive(t.throws[last], ThrowsLeft(last))
    <3>1. CASE Len(t.masks) = 0
      BY <3>1 DEF Reviewable, ThrowsLeft
    <3>2. CASE Len(t.masks) # 0
      <4>1. ThrowsLeft(last) # 2
        BY <1>1, <3>2 DEF ThrowsLeft
      <4> QED BY <4>1 DEF BonusActive
    <3> QED BY <3>1, <3>2
  <2>3. BestPlace(b, t) = BestValue(b, t, last)
    BY <2>1 DEF BestPlace, Rerolls
  <2> QED BY <2>2, <2>3 DEF BestValue, Standing
<1>3. CASE Len(t.masks) = 2
  <2>1. ThrowsLeft(last) = 0 /\ last = 3
    BY <1>3 DEF ThrowsLeft
  <2>2. t.cells \cap Turbo = {} /\ t.cells # {} /\ t.cells \ Turbo = t.cells
    BY <1>3 DEF Reviewable, TurboIsOpen
  <2> DEFINE d == t.throws[last]
  <2>3. d \in Throws
    BY <1>1, ReviewedFields
  <2>4. BestPlace(b, t) = Max(ValuesOf(b, b.cells, d))
    <3>1. ~(ThrowsLeft(Rerolls(t) + 1) >= 1)
      BY <2>1 DEF Rerolls
    <3> QED BY <3>1 DEF BestPlace, ValuesOf, Rerolls
  <2>5. Standing(b, t, last) = LastValue(b)[d]
    BY <2>1 DEF Standing, Layer
  <2> HIDE DEF d
  <2>6. LastValue(b)[d] = Max({NoValue} \union ValuesOf(b, b.cells, d))
    <3>1. b.cells \ Turbo = b.cells
      BY <2>2
    <3> QED BY <2>3, <3>1, LastValueIs
  <2> DEFINE S == ValuesOf(b, b.cells, d)
  <2>7. /\ IsFiniteSet(S) /\ S \subseteq Int /\ S # {}
        /\ \A x \in S : x >= NoValue
    <3>1. b.cells \in SUBSET b.cells
      OBVIOUS
    <3>2. IsFiniteSet(S) /\ S \subseteq Int
      BY <2>3, <3>1, ValuesAreInts
    <3> QED BY <2>2, <2>3, <3>2 DEF ValuesOf, BufferOK
  <2> HIDE DEF S
  <2>8. Max({NoValue} \union S) = Max(S)
    <3>1. Max(S) \in S /\ Max(S) \in Int /\ \A x \in S : x <= Max(S)
      BY <2>7, MaxIs
    <3>2. {NoValue} \union S \subseteq Int
      BY <2>7, UnitIsPositive
    <3>3. \A x \in {NoValue} \union S : x <= Max(S)
      BY <2>7, <3>1, UnitIsPositive
    <3> QED BY <3>1, <3>2, <3>3, MaxOf
  <2> QED BY <2>4, <2>5, <2>6, <2>8 DEF S
<1>4. Len(t.masks) < 2 \/ Len(t.masks) = 2
  BY <1>1
<1> QED BY <1>2, <1>3, <1>4

LEMMA LossesAddUp ==
  ASSUME NEW t, Reviewable(t), NEW b, BufferOK(b), b.cells = t.cells
  PROVE  LET n == Rerolls(t)
             losses == SumFunction([k \in 1 .. n |-> HoldDeltas(b, t)[k]])
             lucks == SumFunction([k \in 1 .. n |-> Luck(b, t, k + 1)])
         IN  /\ losses \in Int /\ lucks \in Int
             /\ losses - lucks = Standing(b, t, 1) - Standing(b, t, n + 1)
<1> DEFINE n == Len(t.masks)
           deltas(j) == [k \in 1 .. j |-> HoldDeltas(b, t)[k]]
           luck(j) == [k \in 1 .. j |-> Luck(b, t, k + 1)]
<1>1. n \in 0..2
  BY DEF Reviewable, Recorded
<1>2. \A k \in 1 .. n : /\ HoldDeltas(b, t)[k] = HoldDelta(b, t, k)
                        /\ HoldDelta(b, t, k) \in Int /\ Luck(b, t, k + 1) \in Int
                        /\ HoldDelta(b, t, k) - Luck(b, t, k + 1)
                             = Standing(b, t, k) - Standing(b, t, k + 1)
  BY HoldTelescopes DEF HoldDeltas, Rerolls
<1>3. \A k \in 1 .. n + 1 : Standing(b, t, k) \in Int
  BY StandingIsInt
<1>4. deltas(n) \in [1 .. n -> Int] /\ luck(n) \in [1 .. n -> Int]
  BY <1>2
<1>5. \A k \in 1 .. n : deltas(n)[k] = HoldDelta(b, t, k) /\ luck(n)[k] = Luck(b, t, k + 1)
  BY <1>2
<1> HIDE DEF deltas, luck
<1>6. CASE n = 0
  <2>1. SumFunction(deltas(n)) = 0 /\ SumFunction(luck(n)) = 0
    BY <1>4, <1>6, SumOfNothing
  <2>2. Standing(b, t, 1) \in Int
    BY <1>3, <1>6
  <2> QED BY <1>6, <2>1, <2>2 DEF deltas, luck, Rerolls
<1>7. CASE n = 1
  <2>1. SumFunction(deltas(n)) = deltas(n)[1] /\ SumFunction(luck(n)) = luck(n)[1]
    BY <1>4, <1>7, SumOfOne
  <2>2. 1 \in 1 .. n /\ 1 \in 1 .. n + 1 /\ 2 \in 1 .. n + 1 /\ 1 + 1 = 2
    BY <1>7
  <2>3. /\ SumFunction(deltas(n)) = HoldDelta(b, t, 1)
        /\ SumFunction(luck(n)) = Luck(b, t, 2)
        /\ HoldDelta(b, t, 1) \in Int /\ Luck(b, t, 2) \in Int
        /\ HoldDelta(b, t, 1) - Luck(b, t, 2) = Standing(b, t, 1) - Standing(b, t, 2)
    BY <1>2, <1>5, <2>1, <2>2
  <2>4. Rerolls(t) = n /\ n + 1 = 2
    BY <1>7 DEF Rerolls
  <2> QED BY <2>3, <2>4 DEF deltas, luck
<1>8. CASE n = 2
  <2>1. /\ SumFunction(deltas(n)) = deltas(n)[1] + deltas(n)[2]
        /\ SumFunction(luck(n)) = luck(n)[1] + luck(n)[2]
    BY <1>4, <1>8, SumOfTwo
  <2>2. /\ 1 \in 1 .. n /\ 2 \in 1 .. n
        /\ 1 \in 1 .. n + 1 /\ 2 \in 1 .. n + 1 /\ 3 \in 1 .. n + 1
        /\ 1 + 1 = 2 /\ 2 + 1 = 3
    BY <1>8
  <2>3. /\ SumFunction(deltas(n)) = HoldDelta(b, t, 1) + HoldDelta(b, t, 2)
        /\ SumFunction(luck(n)) = Luck(b, t, 2) + Luck(b, t, 3)
    BY <1>5, <2>1, <2>2
  <2>4. /\ HoldDelta(b, t, 1) \in Int /\ Luck(b, t, 2) \in Int
        /\ HoldDelta(b, t, 2) \in Int /\ Luck(b, t, 3) \in Int
        /\ HoldDelta(b, t, 1) - Luck(b, t, 2) = Standing(b, t, 1) - Standing(b, t, 2)
        /\ HoldDelta(b, t, 2) - Luck(b, t, 3) = Standing(b, t, 2) - Standing(b, t, 3)
    BY <1>2, <2>2
  <2>5. Standing(b, t, 1) \in Int /\ Standing(b, t, 2) \in Int /\ Standing(b, t, 3) \in Int
    BY <1>3, <2>2
  <2>6. /\ SumFunction(deltas(n)) \in Int /\ SumFunction(luck(n)) \in Int
        /\ SumFunction(deltas(n)) - SumFunction(luck(n)) = Standing(b, t, 1) - Standing(b, t, 3)
    <3>1. \A x1, y1, x2, y2, z1, z2, z3 \in Int :
            x1 - y1 = z1 - z2 /\ x2 - y2 = z2 - z3 => (x1 + x2) - (y1 + y2) = z1 - z3
      OBVIOUS
    <3>2. (HoldDelta(b, t, 1) + HoldDelta(b, t, 2)) - (Luck(b, t, 2) + Luck(b, t, 3))
            = Standing(b, t, 1) - Standing(b, t, 3)
      BY <2>4, <2>5, <3>1
    <3> QED BY <2>3, <2>4, <3>2
  <2>7. Rerolls(t) = n /\ n + 1 = 3
    BY <1>8 DEF Rerolls
  <2> QED BY <2>6, <2>7 DEF deltas, luck
<1> QED BY <1>1, <1>6, <1>7, <1>8

LEMMA ReviewByInvariant == PlayInv => ReviewAddsUp
<1> SUFFICES ASSUME PlayInv, Reviewed, NEW v \in Valuations, NEW g \in Garbage,
                    TurboIsOpen(entry) => g # 0 /\ Rerolls(entry) < 2,
                    ~BonusActive(entry.throws[1], 2)
             PROVE  LET b == Buffer(entry, v, g)
                        n == Rerolls(entry)
                    IN  /\ HasPlace(b, entry)
                        /\ TwoLeft(b)[entry.throws[1]] - v[entry.cell][entry.points]
                             = SumFunction([k \in 1..n |-> HoldDeltas(b, entry)[k]])
                                 - SumFunction([k \in 1..n |-> Luck(b, entry, k + 1)])
                                 + PlaceDelta(b, entry)
  BY DEF ReviewAddsUp
<1> DEFINE b == Buffer(entry, v, g)
           n == Rerolls(entry)
           losses == SumFunction([k \in 1 .. n |-> HoldDeltas(b, entry)[k]])
           lucks == SumFunction([k \in 1 .. n |-> Luck(b, entry, k + 1)])
           mark == v[entry.cell][entry.points]
<1>1. Reviewable(entry)
  BY DEF PlayInv, RecordComplete, Reviewable, Rerolls
<1>2. b = [cells |-> entry.cells, evs |-> v]
  BY <1>1, EnumeratesAll
<1>3. entry.cells \in SUBSET Cells
  BY <1>1, ReviewedFields
<1>4. BufferOK(b) /\ b.cells = entry.cells /\ b.evs = v
  <2>1. BufferOK([cells |-> entry.cells, evs |-> v])
    BY <1>3, BufferIsOK
  <2> QED BY <1>2, <2>1
<1> HIDE DEF b
<1>5. /\ losses \in Int /\ lucks \in Int
      /\ losses - lucks = Standing(b, entry, 1) - Standing(b, entry, n + 1)
  BY <1>1, <1>4, LossesAddUp
<1>6. PlaceDelta(b, entry) = Standing(b, entry, n + 1) - mark
  BY <1>1, <1>4, PlaceTelescopes DEF PlaceDelta, Rerolls
<1>7. mark \in Int
  <2>1. entry.points = Points[entry.cell][LastThrow(entry)] /\ entry.cell \in Cells
        /\ LastThrow(entry) \in Throws
    BY <1>1, ReviewedFields
  <2> QED BY <2>1, ValuationAssumption
<1>8. n \in Nat /\ 1 \in 1 .. n + 1 /\ n + 1 \in 1 .. n + 1
  BY <1>1 DEF Reviewable, Recorded, Rerolls
<1>9. Standing(b, entry, 1) \in Int /\ Standing(b, entry, n + 1) \in Int
  BY <1>1, <1>4, <1>8, StandingIsInt DEF Rerolls
<1>10. TwoLeft(b)[entry.throws[1]] = Standing(b, entry, 1)
  <2>1. ThrowsLeft(1) = 2
    BY DEF ThrowsLeft
  <2> QED BY <2>1 DEF Standing, Layer
<1>11. HasPlace(b, entry)
  BY <1>1, <1>4 DEF HasPlace, Reviewable
<1> HIDE DEF losses, lucks, mark, n
<1>12. TwoLeft(b)[entry.throws[1]] - mark = losses - lucks + PlaceDelta(b, entry)
  BY <1>5, <1>6, <1>7, <1>9, <1>10
<1> QED BY <1>11, <1>12 DEF losses, lucks, mark, n, b

\* What a review says a turn lost, hold by hold and with its placement, less the
\* luck of its throws, is the whole difference between what the first throw was
\* worth and the value written (evaluate_turn_accuracy, score_turn_filled).
THEOREM ReviewsAccountForTurns == TurnSpec => []ReviewAddsUp
  BY PlayInvariance, ReviewByInvariant, PTL

-----------------------------------------------------------------------------
(* A sorted throw is its counts, and holding all of it keeps it.           *)

LEMMA SortedUpward ==
  ASSUME NEW d \in Throws, NEW i \in Places, NEW j \in Places, i <= j
  PROVE  d[i] <= d[j]
<1> DEFINE T == {k \in Nat : k \in Places /\ i <= k /\ ~(d[i] <= d[k])}
<1>1. /\ NumDice \in Nat \ {0}
      /\ \A k \in Places : k \in Nat /\ k >= 1 /\ k <= NumDice /\ d[k] \in Int
      /\ \A k \in 1 .. (NumDice - 1) : d[k] <= d[k + 1]
  BY DiceAssumption DEF Throws, Places, Sides
<1>2. ASSUME T # {} PROVE FALSE
  <2> DEFINE U == T
  <2>1. U \subseteq Nat /\ U # {}
    BY <1>2
  <2> HIDE DEF U
  <2>2. PICK k \in U : \A u \in U : k <= u
    BY <2>1, LeastNatural
  <2>3. k \in Places /\ i <= k /\ ~(d[i] <= d[k])
    BY <2>2 DEF U
  <2>4. i # k /\ k - 1 \in Nat /\ k - 1 \in Places /\ i <= k - 1
    BY <1>1, <2>3 DEF Places
  <2>5. k - 1 \notin U
    BY <1>1, <2>2, <2>3, <2>4
  <2>6. d[i] <= d[k - 1]
    BY <2>4, <2>5 DEF U
  <2>7. k - 1 \in 1 .. (NumDice - 1) /\ (k - 1) + 1 = k
    BY <1>1, <2>3, <2>4
  <2>8. d[k - 1] <= d[k]
    BY <1>1, <2>7
  <2> QED BY <1>1, <2>3, <2>4, <2>6, <2>8
<1>3. j \in Nat /\ j \notin T
  BY <1>1, <1>2
<1> QED BY <1>3

\* The first place where two throws differ shows in their counts.
LEMMA CountsDiffer ==
  ASSUME NEW d \in Throws, NEW e \in Throws, NEW i \in Places,
         \A j \in Places : j < i => d[j] = e[j],
         d[i] < e[i]
  PROVE  Held(d, Places) # Held(e, Places)
<1> DEFINE D == {j \in Places : d[j] = d[i]}
           E == {j \in Places : e[j] = d[i]}
<1>1. \A j \in Places : j \in Nat /\ d[j] \in Int /\ e[j] \in Int
  BY DEF Throws, Places, Sides
<1>2. ASSUME NEW j \in E PROVE j \in D \ {i}
  <2>1. j \in Places /\ e[j] = d[i]
    OBVIOUS
  <2>2. CASE j < i
    BY <1>1, <2>1, <2>2
  <2>3. CASE i <= j
    <3>1. e[i] <= e[j]
      BY <2>1, <2>3, SortedUpward
    <3> QED BY <1>1, <2>1, <3>1
  <2> QED BY <1>1, <2>1, <2>2, <2>3
<1>3. /\ IsFiniteSet(D) /\ i \in D /\ Cardinality(D) \in Nat
  <2>1. D \subseteq Places /\ i \in D
    OBVIOUS
  <2> HIDE DEF D
  <2> QED BY <2>1, DiceAreFinite, FS_Subset, FS_CardinalityType
<1> HIDE DEF D, E
<1>4. IsFiniteSet(D \ {i}) /\ Cardinality(D \ {i}) = Cardinality(D) - 1
  BY <1>3, FS_RemoveElement
<1>5. IsFiniteSet(E) /\ Cardinality(E) <= Cardinality(D \ {i}) /\ Cardinality(E) \in Nat
  <2>1. E \subseteq D \ {i}
    BY <1>2
  <2> QED BY <1>4, <2>1, FS_Subset, FS_CardinalityType
<1>6. Cardinality(E) # Cardinality(D)
  BY <1>3, <1>4, <1>5
<1>7. d[i] \in Sides
  BY DEF Throws
<1>8. Held(d, Places)[d[i]] = Cardinality(D) /\ Held(e, Places)[d[i]] = Cardinality(E)
  BY <1>7 DEF Held, D, E
<1> QED BY <1>6, <1>8

LEMMA CountsDecide ==
  ASSUME NEW d \in Throws, NEW e \in Throws, Held(d, Places) = Held(e, Places)
  PROVE  d = e
<1> DEFINE T == {i \in Places : d[i] # e[i]}
<1>1. \A i \in Places : i \in Nat /\ d[i] \in Int /\ e[i] \in Int
  BY DEF Throws, Places, Sides
<1>2. ASSUME T # {} PROVE FALSE
  <2>1. T \subseteq Nat /\ T # {}
    BY <1>1, <1>2
  <2> HIDE DEF T
  <2>2. PICK i \in T : \A u \in T : i <= u
    BY <2>1, LeastNatural
  <2>3. i \in Places /\ d[i] # e[i]
    BY <2>2 DEF T
  <2>4. ASSUME NEW j \in Places, j < i PROVE d[j] = e[j]
    <3>1. j \notin T
      BY <1>1, <2>2, <2>3, <2>4
    <3> QED BY <3>1 DEF T
  <2>5. CASE d[i] < e[i]
    BY <2>3, <2>4, <2>5, CountsDiffer
  <2>6. CASE e[i] < d[i]
    BY <2>3, <2>4, <2>6, CountsDiffer
  <2> QED BY <1>1, <2>3, <2>5, <2>6
<1>3. \A i \in Places : d[i] = e[i]
  BY <1>2
<1> QED BY <1>3 DEF Throws

LEMMA AllIsKept ==
  ASSUME NEW d \in Throws, NEW e \in Throws
  PROVE  Chance(Held(d, Places), e) = IF e = d THEN Outcomes ELSE 0
<1> DEFINE h == Held(d, Places)
           k == NumDice - NumHeld(h)
           becomes(r) == \A f \in Sides :
             h[f] + Cardinality({i \in 1 .. k : r[i] = f}) = Held(e, Places)[f]
<1>1. Places \in Masks
  BY DEF Masks
<1>2. k = 0
  <2>1. NumHeld(h) = NumDice
    BY <1>1, MovesAre, DiceAreFinite
  <2> QED BY <2>1, DiceAssumption
<1>3. \A r, f : Cardinality({i \in 1 .. k : r[i] = f}) = 0
  <2>1. 1 .. k = {}
    BY <1>2
  <2>2. \A r, f : {i \in 1 .. k : r[i] = f} = {}
    BY <2>1
  <2> QED BY <2>2, FS_EmptySet
<1>4. \A f \in Sides : h[f] \in Nat
  <2>1. ASSUME NEW f \in Sides PROVE Cardinality({i \in Places : d[i] = f}) \in Nat
    BY DiceAreFinite, FS_Subset, FS_CardinalityType
  <2> QED BY <2>1 DEF Held
<1> HIDE DEF k
<1>5. \A r : becomes(r) <=> h = Held(e, Places)
  <2>1. \A r : \A f \in Sides : h[f] + Cardinality({i \in 1 .. k : r[i] = f}) = h[f]
    <3> SUFFICES ASSUME NEW f \in Sides, NEW r
                 PROVE  h[f] + Cardinality({i \in 1 .. k : r[i] = f}) = h[f]
      OBVIOUS
    <3> DEFINE z == Cardinality({i \in 1 .. k : r[i] = f})
               x == h[f]
    <3>1. z = 0 /\ x \in Nat
      BY <1>3, <1>4
    <3> HIDE DEF z, x
    <3>2. x + z = x
      BY <3>1
    <3> QED BY <3>2 DEF x, z
  <2>2. \A r : becomes(r) <=> \A f \in Sides : h[f] = Held(e, Places)[f]
    BY <2>1
  <2>3. (\A f \in Sides : h[f] = Held(e, Places)[f]) <=> h = Held(e, Places)
    BY DEF Held
  <2> QED BY <2>2, <2>3
<1>6. (h = Held(e, Places)) <=> e = d
  BY CountsDecide
<1>7. Chance(h, e) = Cardinality({r \in AllRolls : becomes(r)})
  BY DEF Chance, k
<1> HIDE DEF becomes, h
<1>8. CASE e = d
  <2>1. {r \in AllRolls : becomes(r)} = AllRolls
    BY <1>5, <1>6, <1>8
  <2> QED BY <1>7, <1>8, <2>1 DEF h, Outcomes
<1>9. CASE e # d
  <2>1. {r \in AllRolls : becomes(r)} = {}
    BY <1>5, <1>6, <1>9
  <2> QED BY <1>7, <1>9, <2>1, FS_EmptySet DEF h
<1> QED BY <1>8, <1>9

LEMMA ProductOverItself ==
  ASSUME NEW x \in Int
  PROVE  (Outcomes * x) \div Outcomes = x
<1> DEFINE k == Outcomes
<1>1. k \in Nat \ {0}
  BY RollsAreFinite
<1> HIDE DEF k
<1>2. (k * x) \div k = x
  BY <1>1
<1> QED BY <1>2 DEF k

\* To hold all the dice is to keep the throw.
LEMMA HoldingAll ==
  ASSUME NEW d \in Throws, NEW v \in [Throws -> Int]
  PROVE  Mean(Moves[d][Places], v) = v[d]
<1> DEFINE h == Moves[d][Places]
           f == [e \in Throws |-> ChanceTable[h][e] * v[e]]
<1>1. Places \in Masks
  BY DEF Masks
<1>2. h = Held(d, Places) /\ h \in HeldConfigs
  BY <1>1, MovesAre
<1>3. \A e \in Throws : ChanceTable[h][e] = IF e = d THEN Outcomes ELSE 0
  BY <1>2, AllIsKept, ChancesAre
<1>4. \A e \in Throws : v[e] \in Int
  OBVIOUS
<1>5. Outcomes \in Nat
  BY RollsAreFinite
<1>6. /\ f \in [Throws -> Int] /\ f[d] = Outcomes * v[d]
      /\ \A e \in Throws : e # d => f[e] = 0
  BY <1>3, <1>4, <1>5
<1>7. SumFunction(f) = Outcomes * v[d]
  <2> HIDE DEF f
  <2> QED BY <1>6, RollsAreFinite, SumOfSingle
<1>8. Mean(h, v) = SumFunction(f) \div Outcomes
  BY DEF Mean
<1> QED BY <1>4, <1>7, <1>8, ProductOverItself

\* One throw more, with no better action than to hold a mask.
LEMMA OneThrowMoreIs ==
  ASSUME NEW v \in [Throws -> Int]
  PROVE  /\ OneThrowMore(v) \in [Throws -> Int]
         /\ \A d \in Throws : /\ OneThrowMore(v)[d] = Max(MeansOf(d, v))
                              /\ OneThrowMore(v)[d] >= v[d]
<1> DEFINE best(d) == Max(MeansOf(d, v))
<1>1. OneThrowMore(v) = [d \in Throws |-> best(d)]
  BY TableIs, Zenon DEF OneThrowMore, MeansOf
<1>2. ASSUME NEW d \in Throws PROVE best(d) \in Int /\ best(d) >= v[d]
  <2> DEFINE S == MeansOf(d, v)
  <2>1. IsFiniteSet(S) /\ S \subseteq Int /\ S # {}
    BY MeansAreInts
  <2>2. Mean(Moves[d][Places], v) \in S
    <3>1. Places \in Masks
      BY DEF Masks
    <3> QED BY <3>1, MeansAreInts
  <2>3. v[d] \in S
    BY <2>2, HoldingAll
  <2> HIDE DEF S
  <2>4. Max(S) \in Int /\ v[d] <= Max(S)
    BY <2>1, <2>3, MaxIs
  <2>5. best(d) = Max(S)
    BY DEF S
  <2> HIDE DEF best
  <2> QED BY <2>4, <2>5
<1> HIDE DEF best
<1>3. /\ OneThrowMore(v) \in [Throws -> Int]
      /\ \A d \in Throws : OneThrowMore(v)[d] = best(d) /\ OneThrowMore(v)[d] >= v[d]
  BY <1>1, <1>2
<1> QED BY <1>3 DEF best

\* To stop is one of the masks, so that a layer that is no worse than stopping
\* is what the tables of chances compute.
LEMMA StoppingIsHolding ==
  ASSUME NEW b, BufferOK(b), NEW v \in [Throws -> Int],
         \A d \in Throws : StopValue(b)[d] <= v[d]
  PROVE  OrRethrow(b, v) = OneThrowMore(v)
<1>1. ASSUME NEW d \in Throws PROVE OrRethrow(b, v)[d] = OneThrowMore(v)[d]
  <2> DEFINE S == MeansOf(d, v)
             stop == StopValue(b)[d]
  <2>1. IsFiniteSet(S) /\ S \subseteq Int /\ S # {}
    BY MeansAreInts
  <2>2. stop \in Int /\ v[d] \in Int
    BY StopValueIs
  <2>3. OneThrowMore(v)[d] = Max(S) /\ OneThrowMore(v)[d] >= v[d] /\ stop <= v[d]
    BY OneThrowMoreIs
  <2>4. OrRethrow(b, v)[d] = Max({stop} \union S)
    BY OrRethrowIs
  <2> HIDE DEF S, stop
  <2>5. Max(S) \in S /\ Max(S) \in Int /\ \A x \in S : x <= Max(S)
    BY <2>1, MaxIs
  <2>6. {stop} \union S \subseteq Int /\ Max(S) \in {stop} \union S
    BY <2>1, <2>2, <2>5
  <2>7. \A x \in {stop} \union S : x <= Max(S)
    BY <2>2, <2>3, <2>5
  <2>8. Max({stop} \union S) = Max(S)
    BY <2>6, <2>7, MaxOf
  <2> QED BY <2>3, <2>4, <2>8
<1>2. OrRethrow(b, v) \in [Throws -> Int] /\ OneThrowMore(v) \in [Throws -> Int]
  BY OrRethrowIs, OneThrowMoreIs
<1> QED BY <1>1, <1>2

LEMMA MaxOrNone ==
  ASSUME NEW x \in Int, x >= NoValue
  PROVE  Max({NoValue} \union {x}) = x
<1>1. {NoValue} \union {x} \subseteq Int /\ x \in {NoValue} \union {x}
  BY UnitIsPositive
<1>2. \A y \in {NoValue} \union {x} : y <= x
  BY UnitIsPositive
<1> QED BY <1>1, <1>2, MaxOf

LEMMA ChancesByInvariant == CacheInv => ChancesAreTheSolvers
<1> SUFFICES ASSUME CacheInv, NEW c \in Entries \ Turbo, NEW n \in {1, 2}
             PROVE  LET scores == {Points[c][d] : d \in Throws}
                        b == [cells |-> {c},
                              evs |-> [x \in {c} |-> [k \in scores |->
                                        IF k >= n THEN Unit ELSE 0]]]
                    IN  /\ ProbThreeRolls(Points[c], n) = PreRoll(b)
                        /\ ProbTwoRolls(Points[c], n) = Mean(Nothing, OneLeft(b))
  BY DEF ChancesAreTheSolvers
<1> DEFINE scores == {Points[c][d] : d \in Throws}
           worth == [k \in scores |-> IF k >= n THEN Unit ELSE 0]
           b == [cells |-> {c}, evs |-> [x \in {c} |-> worth]]
           A == Achieved(Points[c], n)
<1>1. b.cells = {c} /\ b.evs[c] = worth
  OBVIOUS
<1>2. \A d \in Throws : worth[Points[c][d]] = IF Points[c][d] >= n THEN Unit ELSE 0
  OBVIOUS
<1>3. \A d \in Throws : A[d] = IF Points[c][d] >= n THEN Unit ELSE 0
  BY DEF Achieved
<1>4. A \in [Throws -> Int] /\ \A d \in Throws : A[d] >= NoValue
  <2>1. A = [d \in Throws |-> IF Points[c][d] >= n THEN Unit ELSE 0]
    BY DEF Achieved
  <2> QED BY <2>1, UnitIsPositive
<1> HIDE DEF worth, A, b
<1>5. \A d \in Throws : ValueIn(b, c, d) = A[d]
  BY <1>1, <1>2, <1>3 DEF ValueIn
<1>6. BufferOK(b)
  <2>1. IsFiniteSet({c})
    BY FS_Singleton
  <2> QED BY <1>1, <1>4, <1>5, <2>1 DEF BufferOK
<1>7. ASSUME NEW d \in Throws
      PROVE  StopValue(b)[d] = A[d] /\ LastValue(b)[d] = A[d]
  <2>1. ValuesOf(b, b.cells, d) = {A[d]} /\ ValuesOf(b, b.cells \ Turbo, d) = {A[d]}
    BY <1>1, <1>5 DEF ValuesOf
  <2>2. Max({NoValue} \union {A[d]}) = A[d]
    BY <1>4, MaxOrNone
  <2> QED BY <1>6, <2>1, <2>2, StopValueIs, LastValueIs
<1>8. LastValue(b) = A
  <2>1. LastValue(b) \in [Throws -> Int]
    BY <1>6, LastValueIs
  <2> QED BY <1>4, <1>7, <2>1
<1>9. OneLeft(b) = OneThrowMore(A)
  <2>1. \A d \in Throws : A[d] \in Int
    BY <1>4
  <2>2. \A d \in Throws : StopValue(b)[d] <= A[d]
    BY <1>7, <2>1
  <2> QED BY <1>4, <1>6, <1>8, <2>2, StoppingIsHolding DEF OneLeft
<1>10. TwoLeft(b) = OneThrowMore(OneThrowMore(A))
  <2> DEFINE next == OneThrowMore(A)
  <2>1. next \in [Throws -> Int] /\ \A d \in Throws : next[d] >= A[d]
    BY <1>4, OneThrowMoreIs
  <2> HIDE DEF next
  <2>2. \A d \in Throws : StopValue(b)[d] <= next[d]
    BY <1>4, <1>7, <2>1
  <2>3. OrRethrow(b, next) = OneThrowMore(next)
    BY <1>6, <2>1, <2>2, StoppingIsHolding
  <2> QED BY <1>9, <2>3 DEF TwoLeft, next
<1>11. ProbThreeRolls(Points[c], n) = PreRoll(b)
  BY <1>10 DEF ProbThreeRolls, PreRoll, A
<1>12. ProbTwoRolls(Points[c], n) = Mean(Nothing, OneLeft(b))
  BY <1>9 DEF ProbTwoRolls, A
<1> QED BY <1>11, <1>12 DEF b, worth

\* The chances in the tensor's tables are the solver's own (build_probability_tables,
\* solver_resolve): to stop is to hold every die.
THEOREM TensorChancesAreTheSolvers == TurnSpec => []ChancesAreTheSolvers
<1>1. PlayInv => ChancesAreTheSolvers
  BY ChancesByInvariant DEF PlayInv
<1> QED BY <1>1, PlayInvariance, PTL

-----------------------------------------------------------------------------
(* Every outcome of a rethrow is some sorted throw, so that averaging minus *)
(* infinity leaves it.                                                     *)

SortedUpTo(s, n) ==
  s \in [1 .. n -> Sides] /\ \A i \in 1 .. (n - 1) : s[i] <= s[i + 1]

SameFaces(s, n, P, r) ==
  \A f \in Sides : Cardinality({i \in 1 .. n : s[i] = f}) = Cardinality({p \in P : r[p] = f})

CanBeSorted(n) ==
  \A P : IsFiniteSet(P) /\ Cardinality(P) = n =>
    \A r \in [P -> Sides] : \E s : SortedUpTo(s, n) /\ SameFaces(s, n, P, r)

LEMMA NothingIsSorted == CanBeSorted(0)
<1> SUFFICES ASSUME NEW P, IsFiniteSet(P), Cardinality(P) = 0, NEW r \in [P -> Sides]
             PROVE  \E s : SortedUpTo(s, 0) /\ SameFaces(s, 0, P, r)
  BY DEF CanBeSorted
<1> DEFINE s == [i \in 1 .. 0 |-> 1]
<1>1. P = {} /\ 1 .. 0 = {} /\ 1 .. (0 - 1) = {}
  BY FS_EmptySet
<1>2. SortedUpTo(s, 0)
  BY <1>1 DEF SortedUpTo
<1>3. SameFaces(s, 0, P, r)
  <2>1. \A f : {i \in 1 .. 0 : s[i] = f} = {} /\ {p \in P : r[p] = f} = {}
    BY <1>1
  <2> HIDE DEF s
  <2> QED BY <2>1 DEF SameFaces
<1> QED BY <1>2, <1>3

\* The greatest face goes last.
LEMMA OneMoreIsSorted ==
  ASSUME NEW n \in Nat \ {0}, CanBeSorted(n - 1)
  PROVE  CanBeSorted(n)
<1> SUFFICES ASSUME NEW P, IsFiniteSet(P), Cardinality(P) = n, NEW r \in [P -> Sides]
             PROVE  \E s : SortedUpTo(s, n) /\ SameFaces(s, n, P, r)
  BY DEF CanBeSorted
<1>1. \A x \in P : r[x] \in Sides /\ r[x] \in Int
  BY DEF Sides
<1>2. PICK p \in P : \A x \in P : r[x] <= r[p]
  <2> DEFINE image == {r[x] : x \in P}
  <2>1. IsFiniteSet(image)
    BY ImageIsFinite
  <2>2. P # {}
    BY FS_EmptySet
  <2>3. image \subseteq Int /\ image # {}
    BY <1>1, <2>2
  <2>4. Max(image) \in image /\ \A y \in image : y <= Max(image)
    <3> HIDE DEF image
    <3> QED BY <2>1, <2>3, MaxIs
  <2> QED BY <2>4
<1> DEFINE Q == P \ {p}
           q == [x \in Q |-> r[x]]
<1>3. IsFiniteSet(Q) /\ Cardinality(Q) = n - 1
  BY FS_RemoveElement
<1>4. q \in [Q -> Sides]
  BY <1>1
<1>5. PICK s : SortedUpTo(s, n - 1) /\ SameFaces(s, n - 1, Q, q)
  <2> HIDE DEF Q, q
  <2> QED BY <1>3, <1>4 DEF CanBeSorted
<1> DEFINE t == [i \in 1 .. n |-> IF i = n THEN r[p] ELSE s[i]]
<1>6. \A i \in 1 .. (n - 1) : s[i] \in Sides /\ t[i] = s[i] /\ i # n /\ i \in 1 .. n
  BY <1>5 DEF SortedUpTo
<1>7. t \in [1 .. n -> Sides] /\ t[n] = r[p]
  <2>1. \A i \in 1 .. n : i = n \/ i \in 1 .. (n - 1)
    OBVIOUS
  <2>2. n \in 1 .. n
    OBVIOUS
  <2> QED BY <1>1, <1>6, <2>1, <2>2
<1> HIDE DEF t
<1>8. ASSUME NEW i \in 1 .. (n - 1) PROVE t[i] <= t[i + 1]
  <2>1. CASE i = n - 1
    <3> DEFINE f == s[i]
               before == {j \in 1 .. (n - 1) : s[j] = f}
               among == {x \in Q : q[x] = f}
    <3>1. f \in Sides /\ t[i] = f /\ t[i + 1] = r[p]
      BY <1>6, <1>7, <2>1
    <3>2. i \in before /\ IsFiniteSet(1 .. (n - 1))
      BY UpToIsFinite
    <3>3. IsFiniteSet(before) /\ IsFiniteSet(among)
      <4>1. before \subseteq 1 .. (n - 1) /\ among \subseteq Q
        OBVIOUS
      <4> HIDE DEF before, among, Q
      <4> QED BY <1>3, <3>2, <4>1, FS_Subset
    <3>4. Cardinality(before) = Cardinality(among)
      BY <1>5, <3>1 DEF SameFaces
    <3>5. among # {}
      BY <3>2, <3>3, <3>4, FS_EmptySet
    <3>6. PICK x \in Q : q[x] = f
      BY <3>5
    <3>7. x \in P /\ r[x] = f
      BY <3>6
    <3> HIDE DEF f
    <3> QED BY <1>2, <3>1, <3>7
  <2>2. CASE i # n - 1
    <3>1. i \in 1 .. ((n - 1) - 1) /\ i + 1 \in 1 .. (n - 1)
      BY <2>2
    <3>2. s[i] <= s[i + 1]
      BY <1>5, <3>1 DEF SortedUpTo
    <3> QED BY <1>6, <3>1, <3>2
  <2> QED BY <2>1, <2>2
<1>9. SortedUpTo(t, n)
  BY <1>7, <1>8 DEF SortedUpTo
<1>10. SameFaces(t, n, P, r)
  <2> SUFFICES ASSUME NEW f \in Sides
               PROVE  Cardinality({i \in 1 .. n : t[i] = f}) = Cardinality({x \in P : r[x] = f})
    BY DEF SameFaces
  <2> DEFINE before == {j \in 1 .. (n - 1) : s[j] = f}
             among == {x \in Q : q[x] = f}
             after == {i \in 1 .. n : t[i] = f}
             all == {x \in P : r[x] = f}
  <2>1. IsFiniteSet(before) /\ IsFiniteSet(among)
    <3>1. IsFiniteSet(1 .. (n - 1))
      BY UpToIsFinite
    <3>2. before \subseteq 1 .. (n - 1) /\ among \subseteq Q
      OBVIOUS
    <3> HIDE DEF before, among, Q
    <3> QED BY <1>3, <3>1, <3>2, FS_Subset
  <2>2. Cardinality(before) = Cardinality(among)
    BY <1>5 DEF SameFaces
  <2>3. n \notin before /\ p \notin among
    OBVIOUS
  <2>4. \A i \in 1 .. n : i = n \/ i \in 1 .. (n - 1)
    OBVIOUS
  <2>5. n \in 1 .. n
    OBVIOUS
  <2>6. CASE f = r[p]
    <3>1. after = before \union {n}
      BY <1>6, <1>7, <2>4, <2>5, <2>6
    <3>2. all = among \union {p}
      BY <2>6
    <3> HIDE DEF before, among, after, all
    <3>3. /\ Cardinality(before \union {n}) = Cardinality(before) + 1
          /\ Cardinality(among \union {p}) = Cardinality(among) + 1
      BY <2>1, <2>3, FS_AddElement
    <3>4. Cardinality(after) = Cardinality(all)
      BY <2>2, <3>1, <3>2, <3>3
    <3> QED BY <3>4 DEF after, all
  <2>7. CASE f # r[p]
    <3>1. after = before
      BY <1>6, <1>7, <2>4, <2>7
    <3>2. all = among
      BY <2>7
    <3> QED BY <2>2, <3>1, <3>2
  <2> QED BY <2>6, <2>7
<1> QED BY <1>9, <1>10

LEMMA SortsExist == \A n \in Nat : CanBeSorted(n)
<1> DEFINE Bad == {n \in Nat : ~CanBeSorted(n)}
<1>1. ASSUME Bad # {} PROVE FALSE
  <2>1. Bad \subseteq Nat
    OBVIOUS
  <2>2. PICK n \in Bad : \A u \in Bad : n <= u
    <3> HIDE DEF Bad
    <3> QED BY <1>1, <2>1, LeastNatural
  <2>3. n \in Nat /\ ~CanBeSorted(n)
    OBVIOUS
  <2>4. n # 0
    BY <2>3, NothingIsSorted
  <2>5. n - 1 \in Nat /\ ~(n <= n - 1)
    BY <2>3, <2>4
  <2>6. CanBeSorted(n - 1)
    BY <2>2, <2>5
  <2> QED BY <2>3, <2>4, <2>6, OneMoreIsSorted
<1> QED BY <1>1

\* The outcomes that bring h to throw e.
Into(h, e) ==
  {r \in AllRolls :
     \A f \in Sides :
       h[f] + Cardinality({i \in 1 .. (NumDice - NumHeld(h)) : r[i] = f}) = Held(e, Places)[f]}

\* The dice held and the first of the outcome, sorted.
LEMMA SomeThrowComes ==
  ASSUME NEW h \in HeldConfigs, NEW r \in AllRolls
  PROVE  \E e \in Throws : r \in Into(h, e)
<1>1. PICK d \in Throws, m \in Masks : h = Moves[d][m]
  BY DEF HeldConfigs
<1>2. /\ h = Held(d, m) /\ NumHeld(h) = Cardinality(m) /\ IsFiniteSet(m)
      /\ Cardinality(m) \in Nat /\ Cardinality(m) <= NumDice
  BY <1>1, MovesAre
<1> DEFINE k == NumDice - NumHeld(h)
           rest == 1 .. k
<1>3. k \in Nat /\ k <= NumDice /\ Cardinality(m) + k = NumDice
  BY <1>2, DiceAssumption
<1> HIDE DEF k
<1>4. IsFiniteSet(rest) /\ Cardinality(rest) = k /\ rest \subseteq Places
  <2>1. k \in Int /\ 1 \in Int
    BY <1>3
  <2>2. IsFiniteSet(1 .. k) /\ Cardinality(1 .. k) = IF 1 > k THEN 0 ELSE k - 1 + 1
    BY <2>1, FS_Interval
  <2>3. Cardinality(1 .. k) = k
    BY <1>3, <2>2
  <2>4. rest \subseteq Places
    BY <1>3, DiceAssumption DEF Places
  <2> QED BY <2>2, <2>3, <2>4
<1> HIDE DEF rest
<1> DEFINE P == ({0} \X m) \union ({1} \X rest)
           face == [p \in P |-> IF p[1] = 0 THEN d[p[2]] ELSE r[p[2]]]
           held(f) == {i \in m : d[i] = f}
           thrown(f) == {i \in rest : r[i] = f}
           showing(f) == {p \in P : face[p] = f}
<1>5. ASSUME NEW A, IsFiniteSet(A), NEW B, IsFiniteSet(B)
      PROVE  /\ IsFiniteSet(({0} \X A) \union ({1} \X B))
             /\ Cardinality(({0} \X A) \union ({1} \X B)) = Cardinality(A) + Cardinality(B)
  <2>1. /\ IsFiniteSet({0}) /\ Cardinality({0}) = 1
        /\ IsFiniteSet({1}) /\ Cardinality({1}) = 1
    BY FS_Singleton
  <2>2. Cardinality(A) \in Nat /\ Cardinality(B) \in Nat
    BY <1>5, FS_CardinalityType
  <2>3. /\ IsFiniteSet({0} \X A) /\ Cardinality({0} \X A) = 1 * Cardinality(A)
        /\ IsFiniteSet({1} \X B) /\ Cardinality({1} \X B) = 1 * Cardinality(B)
    <3>1. IsFiniteSet({0} \X A) /\ Cardinality({0} \X A) = Cardinality({0}) * Cardinality(A)
      BY <1>5, <2>1, FS_Product
    <3>2. IsFiniteSet({1} \X B) /\ Cardinality({1} \X B) = Cardinality({1}) * Cardinality(B)
      BY <1>5, <2>1, FS_Product
    <3> QED BY <2>1, <3>1, <3>2
  <2>4. ({0} \X A) \cap ({1} \X B) = {}
    OBVIOUS
  <2> DEFINE X == {0} \X A
             Y == {1} \X B
  <2>5. Cardinality(X \cap Y) = 0
    BY <2>4, FS_EmptySet
  <2> HIDE DEF X, Y
  <2>6. /\ IsFiniteSet(X) /\ Cardinality(X) = Cardinality(A)
        /\ IsFiniteSet(Y) /\ Cardinality(Y) = Cardinality(B)
    BY <2>2, <2>3 DEF X, Y
  <2>7. /\ IsFiniteSet(X \union Y)
        /\ Cardinality(X \union Y) = Cardinality(X) + Cardinality(Y) - Cardinality(X \cap Y)
    BY <2>6, FS_Union
  <2>8. Cardinality(X \union Y) = Cardinality(A) + Cardinality(B)
    BY <2>2, <2>5, <2>6, <2>7
  <2> QED BY <2>7, <2>8 DEF X, Y
<1>6. IsFiniteSet(P) /\ Cardinality(P) = NumDice
  BY <1>2, <1>3, <1>4, <1>5
<1>7. face \in [P -> Sides]
  <2>1. \A i \in m : d[i] \in Sides
    BY DEF Throws, Masks
  <2>2. \A i \in rest : r[i] \in Sides
    BY <1>4 DEF AllRolls
  <2>3. ASSUME NEW p \in P
        PROVE  (IF p[1] = 0 THEN d[p[2]] ELSE r[p[2]]) \in Sides
    <3>1. (p[1] = 0 /\ p[2] \in m) \/ (p[1] = 1 /\ p[2] \in rest)
      OBVIOUS
    <3> QED BY <2>1, <2>2, <3>1
  <2> QED BY <2>3
<1>8. ASSUME NEW f PROVE showing(f) = ({0} \X held(f)) \union ({1} \X thrown(f))
  OBVIOUS
<1>9. PICK e : SortedUpTo(e, NumDice) /\ SameFaces(e, NumDice, P, face)
  <2> HIDE DEF P, face
  <2>1. CanBeSorted(NumDice)
    BY DiceAssumption, SortsExist
  <2> QED BY <1>6, <1>7, <2>1 DEF CanBeSorted
<1>10. e \in Throws
  BY <1>9 DEF SortedUpTo, Throws, Places
<1>11. ASSUME NEW f \in Sides
       PROVE  Held(e, Places)[f] = Cardinality(held(f)) + Cardinality(thrown(f))
  <2>1. IsFiniteSet(held(f)) /\ IsFiniteSet(thrown(f))
    <3>1. held(f) \subseteq m /\ thrown(f) \subseteq rest
      OBVIOUS
    <3> HIDE DEF held, thrown
    <3> QED BY <1>2, <1>4, <3>1, FS_Subset
  <2>2. Held(e, Places)[f] = Cardinality({i \in 1 .. NumDice : e[i] = f})
    BY DEF Held, Places
  <2>3. Cardinality({i \in 1 .. NumDice : e[i] = f}) = Cardinality(showing(f))
    BY <1>9 DEF SameFaces
  <2>4. Cardinality(showing(f)) = Cardinality(({0} \X held(f)) \union ({1} \X thrown(f)))
    BY <1>8
  <2> HIDE DEF held, thrown, showing
  <2>5. Cardinality(({0} \X held(f)) \union ({1} \X thrown(f)))
          = Cardinality(held(f)) + Cardinality(thrown(f))
    BY <1>5, <2>1
  <2> QED BY <2>2, <2>3, <2>4, <2>5
<1>12. \A f \in Sides : h[f] = Cardinality(held(f))
  BY <1>2 DEF Held
<1>13. \A f \in Sides : h[f] + Cardinality(thrown(f)) = Held(e, Places)[f]
  BY <1>11, <1>12
<1>14. r \in Into(h, e)
  BY <1>13 DEF Into, rest, k
<1> QED BY <1>10, <1>14

LEMMA QuotientIsBounded ==
  ASSUME NEW x \in Int, NEW y \in Int, x <= Outcomes * y
  PROVE  x \div Outcomes <= y
<1> DEFINE k == Outcomes
           z == x \div k
<1>1. k \in Nat \ {0}
  BY RollsAreFinite
<1> HIDE DEF k
<1>2. z \in Int /\ k * z <= x
  BY <1>1
<1> HIDE DEF z
<1>3. ASSUME z > y PROVE FALSE
  <2>1. z >= y + 1
    BY <1>2, <1>3
  <2>2. k * z >= k * (y + 1)
    BY <1>1, <1>2, <2>1
  <2>3. k * (y + 1) = k * y + k /\ k * y \in Int
    BY <1>1
  <2>4. x <= k * y
    BY DEF k
  <2> QED BY <1>1, <1>2, <2>2, <2>3, <2>4
<1>4. z <= y
  BY <1>2, <1>3
<1> QED BY <1>4 DEF z, k

\* An average of minus infinity is no more than that.
LEMMA MeanOfNone ==
  ASSUME NEW h \in HeldConfigs, NEW v \in [Throws -> Int], \A e \in Throws : v[e] = NoValue
  PROVE  Mean(h, v) <= NoValue
<1> DEFINE f == [e \in Throws |-> ChanceTable[h][e] * v[e]]
           into(e) == Into(h, e)
           covered(s) == {r \in AllRolls : \E e \in s : r \in into(e)}
           none == NoValue
<1>1. none \in Int /\ none <= 0
  BY UnitIsPositive
<1>2. ASSUME NEW e \in Throws
      PROVE  /\ IsFiniteSet(into(e)) /\ Cardinality(into(e)) \in Nat
             /\ into(e) \subseteq AllRolls
             /\ f[e] = Cardinality(into(e)) * none
  <2>1. into(e) \subseteq AllRolls
    BY DEF Into
  <2>2. Chance(h, e) = Cardinality(into(e))
    BY DEF Chance, Into
  <2>3. f[e] = Chance(h, e) * none
    BY ChancesAre
  <2> HIDE DEF into
  <2>4. IsFiniteSet(into(e)) /\ Cardinality(into(e)) \in Nat
    BY <2>1, RollsAreFinite, FS_Subset, FS_CardinalityType
  <2> QED BY <2>1, <2>2, <2>3, <2>4
<1> HIDE DEF into
<1>3. f \in [Throws -> Int]
  <2>1. \A e \in Throws : Cardinality(into(e)) * none \in Int
    BY <1>1, <1>2
  <2>2. \A e \in Throws : f[e] \in Int
    BY <1>2, <2>1
  <2> QED BY <2>2
<1>4. \A s : IsFiniteSet(covered(s)) /\ Cardinality(covered(s)) \in Nat
  <2>1. \A s : covered(s) \subseteq AllRolls
    OBVIOUS
  <2> HIDE DEF covered
  <2> QED BY <2>1, RollsAreFinite, FS_Subset, FS_CardinalityType
<1> HIDE DEF f, none
<1>5. PICK it : SumsUp(it, Throws, f) /\ SumFunction(f) = it[Throws]
  BY <1>3, RollsAreFinite, SumFunctionIs
<1> DEFINE G == {s \in SUBSET Throws : it[s] <= Cardinality(covered(s)) * none}
<1>6. {} \in G
  <2>1. covered({}) = {}
    OBVIOUS
  <2>2. Cardinality({}) = 0 /\ it[{}] = 0
    BY <1>5, FS_EmptySet DEF SumsUp
  <2>3. it[{}] <= Cardinality(covered({})) * none
    <3> DEFINE size == Cardinality(covered({}))
    <3>1. size = 0
      BY <2>1, <2>2, Zenon
    <3>2. 0 * none = 0
      BY <1>1
    <3> HIDE DEF size
    <3>3. it[{}] <= size * none
      BY <2>2, <3>1, <3>2
    <3> QED BY <3>3 DEF size
  <2> QED BY <2>3
<1>7. ASSUME NEW s \in SUBSET Throws, s # {}
      PROVE  \E x \in s : s \ {x} \in G => s \in G
  <2>1. PICK x \in s : it[s] = f[x] + it[s \ {x}]
    BY <1>5, <1>7 DEF SumsUp
  <2>2. x \in Throws /\ s \ {x} \in SUBSET Throws
    OBVIOUS
  <2>3. covered(s) = into(x) \union covered(s \ {x})
    <3>1. into(x) \subseteq AllRolls
      BY <1>2
    <3> QED BY <2>1, <3>1
  <2> HIDE DEF covered
  <2> DEFINE a == Cardinality(into(x))
             c == Cardinality(covered(s \ {x}))
             all == Cardinality(covered(s))
             both == Cardinality(into(x) \cap covered(s \ {x}))
             more == it[s \ {x}]
  <2>4. all = a + c - both
    BY <1>2, <1>4, <2>3, FS_Union
  <2>5. a \in Nat /\ c \in Nat /\ all \in Nat /\ both \in Nat
    <3>1. IsFiniteSet(into(x) \cap covered(s \ {x}))
      BY <1>2, FS_Intersection
    <3>2. both \in Nat
      BY <3>1, FS_CardinalityType
    <3> QED BY <1>2, <1>4, <3>2
  <2>6. f[x] = a * none /\ more \in Int /\ it[s] = f[x] + more
    BY <1>2, <1>5, <2>1, <2>2 DEF SumsUp
  <2>7. ASSUME more <= c * none PROVE it[s] <= all * none
    <3> HIDE DEF a, c, all, both, more
    <3>1. (a + c) * none = a * none + c * none /\ a * none \in Int /\ c * none \in Int
      BY <1>1, <2>5
    <3>2. all <= a + c
      BY <2>4, <2>5
    <3>3. all * none >= (a + c) * none
      <4>1. all * none = (a + c) * none - both * none
        BY <1>1, <2>4, <2>5
      <4>2. both * none <= 0
        BY <1>1, <2>5
      <4> QED BY <1>1, <2>5, <3>1, <4>1, <4>2
    <3>4. all * none \in Int
      BY <1>1, <2>5
    <3> QED BY <2>6, <2>7, <3>1, <3>3, <3>4
  <2> QED BY <2>7
<1>8. Throws \in G
  <2> HIDE DEF G
  <2> QED BY <1>6, <1>7, RollsAreFinite, SubsetInduction
<1>9. covered(Throws) = AllRolls
  BY SomeThrowComes DEF into
<1>10. SumFunction(f) <= Outcomes * none /\ SumFunction(f) \in Int
  <2>1. it[Throws] <= Cardinality(covered(Throws)) * none
    BY <1>8
  <2>2. Cardinality(covered(Throws)) = Outcomes
    BY <1>9 DEF Outcomes
  <2>3. SumFunction(f) \in Int
    BY <1>3, RollsAreFinite, SumIsInt
  <2>4. Outcomes \in Nat
    BY RollsAreFinite
  <2> HIDE DEF covered
  <2>5. Cardinality(covered(Throws)) * none = Outcomes * none
    BY <2>2
  <2> QED BY <1>5, <2>1, <2>3, <2>5
<1>11. SumFunction(f) \div Outcomes <= none
  BY <1>1, <1>10, QuotientIsBounded
<1> QED BY <1>11 DEF Mean, f, none

-----------------------------------------------------------------------------
(* The best expectation is the layer of the throws left.                   *)

Sheet == [cells |-> Entries, evs |-> evs]

OnlyTurbo == Entries \subseteq Turbo

\* A player who moves, with the values the network gave.
Choosing(r) ==
  /\ Entries \subseteq Cells /\ Entries # {}
  /\ evs \in Valuations
  /\ r \in 0..2
  /\ r = 0 => ~OnlyTurbo

\* What throwing again may bring, where the rules allow it.
Rethrows(r, d) ==
  IF r = 0 \/ (r = 1 /\ OnlyTurbo) THEN {} ELSE MeansOf(d, Layer(Sheet, r - 1))

Options(r, d) == ValuesOf(Sheet, Legal(r), d) \union Rethrows(r, d)

LEMMA MaxOverNone ==
  ASSUME NEW S, IsFiniteSet(S), S \subseteq Int, S # {}, \A x \in S : x >= NoValue
  PROVE  Max({NoValue} \union S) = Max(S)
<1>1. Max(S) \in S /\ Max(S) \in Int /\ \A x \in S : x <= Max(S)
  BY MaxIs
<1>2. {NoValue} \union S \subseteq Int /\ Max(S) \in {NoValue} \union S
  BY <1>1, UnitIsPositive
<1>3. Max(S) >= NoValue
  BY <1>1
<1>4. \A x \in {NoValue} \union S : x <= Max(S)
  BY <1>1, <1>3, UnitIsPositive
<1> QED BY <1>2, <1>4, MaxOf

LEMMA MaxOfUnion ==
  ASSUME NEW S, IsFiniteSet(S), S \subseteq Int, S # {},
         NEW T, IsFiniteSet(T), T \subseteq Int
  PROVE  Max({Max(S)} \union T) = Max(S \union T)
<1>1. Max(S) \in S /\ Max(S) \in Int /\ \A x \in S : x <= Max(S)
  BY MaxIs
<1> DEFINE U == S \union T
<1>2. IsFiniteSet(U)
  BY FS_Union
<1>3. U \subseteq Int /\ U # {}
  OBVIOUS
<1>4. Max(U) \in U /\ Max(U) \in Int /\ \A x \in U : x <= Max(U)
  <2> HIDE DEF U
  <2> QED BY <1>2, <1>3, MaxIs
<1>5. Max(U) \in {Max(S)} \union T
  <2>1. CASE Max(U) \in T
    BY <2>1
  <2>2. CASE Max(U) \in S
    <3>1. Max(U) <= Max(S) /\ Max(S) <= Max(U)
      BY <1>1, <1>4, <2>2
    <3>2. Max(U) = Max(S)
      BY <1>1, <1>4, <3>1
    <3> QED BY <3>2
  <2>3. Max(U) \in S \/ Max(U) \in T
    BY <1>4
  <2> QED BY <2>1, <2>2, <2>3
<1>6. \A x \in {Max(S)} \union T : x <= Max(U)
  BY <1>1, <1>4
<1>7. {Max(S)} \union T \subseteq Int
  BY <1>1
<1>8. Max({Max(S)} \union T) = Max(U)
  <2> HIDE DEF U
  <2> QED BY <1>5, <1>6, <1>7, MaxOf
<1> QED BY <1>8

LEMMA SheetIsOK ==
  ASSUME NEW r, Choosing(r)
  PROVE  BufferOK(Sheet) /\ Sheet.cells = Entries /\ Sheet.evs = evs
  BY BufferIsOK DEF Choosing, Sheet

\* Some cell is legal, and its values are numbers.
LEMMA LegalValues ==
  ASSUME NEW r, Choosing(r), NEW d \in Throws
  PROVE  LET S == ValuesOf(Sheet, Legal(r), d)
         IN  /\ IsFiniteSet(S) /\ S \subseteq Int /\ S # {}
             /\ \A x \in S : x >= NoValue
<1>1. Legal(r) \in SUBSET Sheet.cells /\ Legal(r) # {}
  BY SheetIsOK DEF Choosing, Legal, OnlyTurbo
<1>2. /\ IsFiniteSet(ValuesOf(Sheet, Legal(r), d))
      /\ ValuesOf(Sheet, Legal(r), d) \subseteq Int
  BY <1>1, SheetIsOK, ValuesAreInts
<1>3. ValuesOf(Sheet, Legal(r), d) # {}
  BY <1>1 DEF ValuesOf
<1>4. \A x \in ValuesOf(Sheet, Legal(r), d) : x >= NoValue
  BY <1>1, SheetIsOK DEF ValuesOf, BufferOK
<1> QED BY <1>2, <1>3, <1>4

LEMMA RethrowsAreInts ==
  ASSUME NEW r, Choosing(r), NEW d \in Throws
  PROVE  /\ IsFiniteSet(Rethrows(r, d)) /\ Rethrows(r, d) \subseteq Int
         /\ IsFiniteSet(Options(r, d)) /\ Options(r, d) \subseteq Int /\ Options(r, d) # {}
<1>1. Layer(Sheet, r - 1) \in [Throws -> Int]
  BY SheetIsOK, LayersAreInts DEF Layer
<1>2. IsFiniteSet(Rethrows(r, d)) /\ Rethrows(r, d) \subseteq Int
  BY <1>1, MeansAreInts, FS_EmptySet DEF Rethrows
<1>3. IsFiniteSet(Options(r, d))
  BY <1>2, LegalValues, FS_Union DEF Options
<1> QED BY <1>2, <1>3, LegalValues DEF Options

\* To stop is worth the best legal cell.
LEMMA StopIsBestCell ==
  ASSUME NEW r, Choosing(r), r # 0, NEW d \in Throws
  PROVE  StopValue(Sheet)[d] = Max(ValuesOf(Sheet, Legal(r), d))
<1>1. Legal(r) = Entries
  BY DEF Choosing, Legal
<1>2. StopValue(Sheet)[d] = Max({NoValue} \union ValuesOf(Sheet, Legal(r), d))
  BY <1>1, SheetIsOK, StopValueIs
<1> QED BY <1>2, LegalValues, MaxOverNone

\* With Turbo only, the last throw is worth nothing, so that stopping is best.
LEMMA TurboStops ==
  ASSUME Choosing(1), OnlyTurbo, NEW d \in Throws
  PROVE  OneLeft(Sheet)[d] = StopValue(Sheet)[d]
<1>1. BufferOK(Sheet) /\ Sheet.cells = Entries
  BY SheetIsOK
<1>2. LastValue(Sheet) \in [Throws -> Int] /\ \A e \in Throws : LastValue(Sheet)[e] = NoValue
  <2>1. ASSUME NEW e \in Throws PROVE LastValue(Sheet)[e] = NoValue
    <3>1. {NoValue} \union ValuesOf(Sheet, Sheet.cells \ Turbo, e) = {NoValue}
      BY <1>1 DEF ValuesOf, OnlyTurbo
    <3>2. Max({NoValue}) = NoValue
      BY UnitIsPositive, MaxOf
    <3> QED BY <1>1, <3>1, <3>2, LastValueIs
  <2> QED BY <1>1, <2>1, LastValueIs
<1> DEFINE S == MeansOf(d, LastValue(Sheet))
           stop == StopValue(Sheet)[d]
<1>3. S \subseteq Int
  BY <1>2, MeansAreInts
<1>4. \A x \in S : x <= NoValue
  <2>1. ASSUME NEW m \in Masks PROVE Mean(Moves[d][m], LastValue(Sheet)) <= NoValue
    BY <1>2, MovesAre, MeanOfNone
  <2> QED BY <2>1 DEF MeansOf
<1>5. stop \in Int /\ stop >= NoValue
  <2>1. /\ stop = Max(ValuesOf(Sheet, Legal(1), d))
        /\ IsFiniteSet(ValuesOf(Sheet, Legal(1), d))
        /\ ValuesOf(Sheet, Legal(1), d) \subseteq Int /\ ValuesOf(Sheet, Legal(1), d) # {}
        /\ \A x \in ValuesOf(Sheet, Legal(1), d) : x >= NoValue
    BY StopIsBestCell, LegalValues
  <2>2. Max(ValuesOf(Sheet, Legal(1), d)) \in ValuesOf(Sheet, Legal(1), d)
    BY <2>1, MaxIs
  <2> QED BY <2>1, <2>2
<1>6. OneLeft(Sheet)[d] = Max({stop} \union S)
  BY <1>1, <1>2, OrRethrowIs DEF OneLeft
<1> HIDE DEF S, stop
<1>7. \A x \in {stop} \union S : x <= stop
  BY <1>3, <1>4, <1>5, UnitIsPositive
<1>8. Max({stop} \union S) = stop
  BY <1>3, <1>5, <1>7, MaxOf
<1> QED BY <1>6, <1>8 DEF stop

\* Every layer is the best of the options the rules leave.
LEMMA LayerIsBest ==
  ASSUME NEW r, Choosing(r), NEW d \in Throws
  PROVE  Layer(Sheet, r)[d] = Max(Options(r, d))
<1> DEFINE S == ValuesOf(Sheet, Legal(r), d)
<1>1. BufferOK(Sheet) /\ Sheet.cells = Entries
  BY SheetIsOK
<1>2. IsFiniteSet(S) /\ S \subseteq Int /\ S # {} /\ \A x \in S : x >= NoValue
  BY LegalValues
<1>3. CASE r = 0
  <2>1. Legal(r) = Sheet.cells \ Turbo
    BY <1>1, <1>3 DEF Choosing, Legal, OnlyTurbo
  <2>2. Layer(Sheet, r)[d] = Max({NoValue} \union S)
    BY <1>1, <1>3, <2>1, LastValueIs DEF Layer
  <2>3. Options(r, d) = S
    BY <1>3 DEF Options, Rethrows
  <2> HIDE DEF S
  <2> QED BY <1>2, <2>2, <2>3, MaxOverNone
<1>4. CASE r = 1 /\ OnlyTurbo
  <2>1. Layer(Sheet, r)[d] = StopValue(Sheet)[d]
    BY <1>4, TurboStops DEF Layer
  <2>2. StopValue(Sheet)[d] = Max(S)
    BY <1>4, StopIsBestCell
  <2>3. Options(r, d) = S
    BY <1>4 DEF Options, Rethrows
  <2> QED BY <2>1, <2>2, <2>3
<1>5. CASE r # 0 /\ ~(r = 1 /\ OnlyTurbo)
  <2> DEFINE next == Layer(Sheet, r - 1)
             T == MeansOf(d, next)
  <2>1. next \in [Throws -> Int]
    BY <1>1, LayersAreInts DEF Layer
  <2>2. Layer(Sheet, r) = OrRethrow(Sheet, next)
    <3>1. CASE r = 1
      BY <3>1 DEF Layer, OneLeft
    <3>2. CASE r = 2
      BY <3>2 DEF Layer, TwoLeft
    <3> QED BY <1>5, <3>1, <3>2 DEF Choosing
  <2>3. StopValue(Sheet)[d] = Max(S)
    BY <1>5, StopIsBestCell
  <2>4. Options(r, d) = S \union T
    BY <1>5 DEF Options, Rethrows
  <2> HIDE DEF S, next
  <2>5. Layer(Sheet, r)[d] = Max({Max(S)} \union T)
    BY <1>1, <2>1, <2>2, <2>3, OrRethrowIs
  <2>6. IsFiniteSet(T) /\ T \subseteq Int
    BY <2>1, MeansAreInts
  <2> HIDE DEF T
  <2> QED BY <1>2, <2>4, <2>5, <2>6, MaxOfUnion
<1> QED BY <1>3, <1>4, <1>5

LEMMA BestWithIs ==
  ASSUME NEW r, Choosing(r), NEW next,
         ~(r = 0 \/ (r = 1 /\ OnlyTurbo)) => next = Layer(Sheet, r - 1)
  PROVE  BestWith(r, next) = Layer(Sheet, r)
<1> DEFINE again(d) == IF r = 0 \/ (r = 1 /\ OnlyTurbo) THEN {} ELSE MeansOf(d, next)
           best(d) == Max(ValuesOf(Sheet, Legal(r), d) \union again(d))
<1>1. BestWith(r, next) = [d \in Throws |-> best(d)]
  <2>1. \A c, d : ValueIn(Sheet, c, d) = evs[c][Points[c][d]]
    BY DEF ValueIn, Sheet
  <2>2. \A d : ValuesOf(Sheet, Legal(r), d) = {evs[c][Points[c][d]] : c \in Legal(r)}
    BY <2>1 DEF ValuesOf
  <2>3. [d \in Throws |-> best(d)]
          = [d \in Throws |->
              Max({evs[c][Points[c][d]] : c \in Legal(r)}
                    \union (IF r = 0 \/ (r = 1 /\ Entries \subseteq Turbo) THEN {}
                            ELSE {Mean(Moves[d][m], next) : m \in Masks}))]
    BY <2>2, Zenon DEF MeansOf, OnlyTurbo
  <2> HIDE DEF best
  <2> QED BY <2>3, TableIs, Zenon DEF BestWith
<1>2. ASSUME NEW d \in Throws PROVE best(d) = Layer(Sheet, r)[d]
  <2>1. again(d) = Rethrows(r, d)
    BY DEF Rethrows
  <2>2. best(d) = Max(Options(r, d))
    BY <2>1 DEF Options
  <2> QED BY <2>2, LayerIsBest
<1> HIDE DEF best
<1>3. Layer(Sheet, r) \in [Throws -> Int]
  BY SheetIsOK, LayersAreInts DEF Layer
<1> QED BY <1>1, <1>2, <1>3

\* The best expectation under the rules is the solver's layer.
LEMMA ExpectationIsLayer ==
  ASSUME Choosing(rollsLeft)
  PROVE  Expectation = Layer(Sheet, rollsLeft)
<1>1. ~OnlyTurbo => BestLast = Layer(Sheet, 0)
  <2> SUFFICES ASSUME ~OnlyTurbo PROVE BestLast = Layer(Sheet, 0)
    OBVIOUS
  <2>1. Choosing(0)
    BY DEF Choosing
  <2> QED BY <2>1, BestWithIs DEF BestLast
<1>2. BestOfOne = Layer(Sheet, 1)
  <2>1. Choosing(1)
    BY DEF Choosing
  <2>2. ~OnlyTurbo => BestLast = Layer(Sheet, 1 - 1)
    BY <1>1
  <2> QED BY <2>1, <2>2, BestWithIs DEF BestOfOne
<1>3. BestWith(2, BestOfOne) = Layer(Sheet, 2)
  <2>1. Choosing(2)
    BY DEF Choosing
  <2>2. BestOfOne = Layer(Sheet, 2 - 1)
    BY <1>2
  <2> QED BY <2>1, <2>2, BestWithIs
<1>4. CASE rollsLeft = 0
  <2>1. ~OnlyTurbo
    BY <1>4 DEF Choosing
  <2> QED BY <1>1, <1>4, <2>1 DEF Expectation
<1>5. CASE rollsLeft = 1
  BY <1>2, <1>5 DEF Expectation
<1>6. CASE rollsLeft = 2
  BY <1>3, <1>6 DEF Expectation
<1> QED BY <1>4, <1>5, <1>6 DEF Choosing

-----------------------------------------------------------------------------
(* The bots play the best option.                                          *)

\* A best cell is worth the best of the values, and there is one.
LEMMA BestCells ==
  ASSUME NEW r, Choosing(r), NEW d \in Throws
  PROVE  LET a == PlaceResults(Sheet, Legal(r), d, FALSE)
         IN  /\ a # {}
             /\ \A x \in a : /\ x.place
                             /\ ValueIn(Sheet, x.cell, d) = Max(ValuesOf(Sheet, Legal(r), d))
<1> DEFINE S == ValuesOf(Sheet, Legal(r), d)
           best == {c \in Legal(r) : \A x \in Legal(r) :
                      ValueIn(Sheet, x, d) <= ValueIn(Sheet, c, d)}
<1>1. PlaceResults(Sheet, Legal(r), d, FALSE) = {Place(c) : c \in best}
  BY DEF PlaceResults, Pick, BestOf
<1>2. IsFiniteSet(S) /\ S \subseteq Int /\ S # {}
  BY LegalValues
<1>3. Max(S) \in S /\ \A x \in S : x <= Max(S)
  <2> HIDE DEF S
  <2> QED BY <1>2, MaxIs
<1>4. best # {}
  <2>1. PICK c \in Legal(r) : Max(S) = ValueIn(Sheet, c, d)
    BY <1>3 DEF ValuesOf
  <2>2. \A x \in Legal(r) : ValueIn(Sheet, x, d) \in S
    BY DEF ValuesOf
  <2>3. \A x \in Legal(r) : ValueIn(Sheet, x, d) <= ValueIn(Sheet, c, d)
    BY <1>3, <2>1, <2>2
  <2> QED BY <2>3
<1>5. ASSUME NEW c \in best PROVE ValueIn(Sheet, c, d) = Max(S)
  <2>1. ValueIn(Sheet, c, d) \in S /\ \A x \in S : x <= ValueIn(Sheet, c, d)
    BY DEF ValuesOf
  <2> HIDE DEF S, best
  <2> QED BY <1>2, <2>1, MaxOf
<1>6. \A c : Place(c).place /\ Place(c).cell = c
  BY DEF Place
<1> HIDE DEF best, S
<1> QED BY <1>1, <1>4, <1>5, <1>6 DEF S

\* To place a best cell is the best option when no rethrow is better.
LEMMA PlacingIsBest ==
  ASSUME NEW r, Choosing(r), NEW d \in Throws,
         \A x \in Rethrows(r, d) : x <= Max(ValuesOf(Sheet, Legal(r), d))
  PROVE  Max(ValuesOf(Sheet, Legal(r), d)) = Max(Options(r, d))
<1> DEFINE S == ValuesOf(Sheet, Legal(r), d)
           T == Rethrows(r, d)
<1>1. IsFiniteSet(S) /\ S \subseteq Int /\ S # {} /\ T \subseteq Int
  BY LegalValues, RethrowsAreInts
<1>2. \A x \in T : x <= Max(S)
  OBVIOUS
<1>3. Options(r, d) = S \union T
  BY DEF Options
<1> HIDE DEF S, T
<1>4. Max(S) \in S /\ \A x \in S : x <= Max(S)
  BY <1>1, MaxIs
<1>5. S \union T \subseteq Int /\ Max(S) \in S \union T /\ \A x \in S \union T : x <= Max(S)
  BY <1>1, <1>2, <1>4
<1>6. Max(S \union T) = Max(S)
  BY <1>5, MaxOf
<1> QED BY <1>3, <1>6 DEF S

\* solver_resolve() without a bonus: greedy play takes a best option, if any.
LEMMA GreedyIsBest ==
  ASSUME NEW r, Choosing(r), NEW d \in Throws, ~BonusActive(d, r)
  PROVE  LET a == Resolve(Sheet, d, r, FALSE)
         IN  /\ a # {}
             /\ \A x \in a : Worth(Sheet, d, r, x) = Max(Options(r, d))
<1> DEFINE S == ValuesOf(Sheet, Legal(r), d)
           stops == PlaceResults(Sheet, Legal(r), d, FALSE)
           T == Rethrows(r, d)
<1>1. stops # {} /\ \A x \in stops : Worth(Sheet, d, r, x) = Max(S)
  BY BestCells DEF Worth
<1>2. IsFiniteSet(S) /\ S \subseteq Int /\ S # {} /\ IsFiniteSet(T) /\ T \subseteq Int
  BY LegalValues, RethrowsAreInts
<1>3. Max(S) \in S /\ Max(S) \in Int /\ \A x \in S : x <= Max(S)
  <2> HIDE DEF S
  <2> QED BY <1>2, MaxIs
<1>4. CASE r = 0
  <2>1. Legal(r) = Sheet.cells \ Turbo
    BY <1>4, SheetIsOK DEF Choosing, Legal, OnlyTurbo
  <2>2. Resolve(Sheet, d, r, FALSE) = stops
    BY <1>4, <2>1 DEF Resolve
  <2>3. T = {}
    BY <1>4 DEF Rethrows
  <2>4. Max(S) = Max(Options(r, d))
    BY <2>3, PlacingIsBest
  <2> QED BY <1>1, <2>2, <2>4
<1>5. CASE r # 0
  <2> DEFINE holds == HoldResults(Sheet, d, r, FALSE)
  <2>1. Legal(r) = Sheet.cells
    BY <1>5, SheetIsOK DEF Choosing, Legal
  <2>2. Resolve(Sheet, d, r, FALSE) = IF holds = {} THEN stops ELSE holds
    BY <1>5, <2>1 DEF Resolve
  <2>3. StopValue(Sheet)[d] = Max(S)
    BY <1>5, StopIsBestCell
  <2>4. ForcePlace(Sheet, r) <=> r = 1 /\ OnlyTurbo
    BY SheetIsOK DEF ForcePlace, OnlyTurbo
  <2> DEFINE value(m) == Mean(Moves[d][m], Layer(Sheet, r - 1))
             best == {m \in Masks : /\ \A x \in Masks : value(x) <= value(m)
                                    /\ value(m) > Max(S)}
  <2>5. holds = IF ForcePlace(Sheet, r) THEN {} ELSE {Hold(m) : m \in best}
    <3>1. CASE ForcePlace(Sheet, r)
      BY <3>1 DEF HoldResults
    <3>2. CASE ~ForcePlace(Sheet, r)
      <4>1. holds = {Hold(m) : m \in {x \in {y \in Masks : \A z \in Masks : value(z) <= value(y)} :
                                        value(x) > StopValue(Sheet)[d]}}
        BY <3>2 DEF HoldResults, BestOf
      <4>2. {x \in {y \in Masks : \A z \in Masks : value(z) <= value(y)} :
               value(x) > StopValue(Sheet)[d]} = best
        <5> HIDE DEF value
        <5> QED BY <2>3
      <4> QED BY <3>2, <4>1, <4>2
    <3> QED BY <3>1, <3>2
  <2>6. T = IF ForcePlace(Sheet, r) THEN {} ELSE {value(m) : m \in Masks}
    BY <1>5, <2>4 DEF Rethrows, MeansOf
  <2>7. CASE \A x \in T : x <= Max(S)
    <3>1. ASSUME ~ForcePlace(Sheet, r), NEW m \in best PROVE FALSE
      <4>1. value(m) \in T /\ value(m) > Max(S)
        BY <2>6, <3>1
      <4>2. value(m) \in Int /\ value(m) <= Max(S)
        BY <1>2, <2>7, <4>1
      <4> HIDE DEF value
      <4> QED BY <1>3, <4>1, <4>2
    <3>2. holds = {}
      <4> HIDE DEF best
      <4> QED BY <2>5, <3>1
    <3>3. Max(S) = Max(Options(r, d))
      BY <2>7, PlacingIsBest
    <3> QED BY <1>1, <2>2, <3>2, <3>3
  <2>8. CASE ~ \A x \in T : x <= Max(S)
    <3>1. PICK t \in T : ~(t <= Max(S))
      BY <2>8
    <3>2. Max(T) \in T /\ Max(T) \in Int /\ \A x \in T : x <= Max(T)
      <4> HIDE DEF T
      <4> QED BY <1>2, <3>1, MaxIs
    <3>3. ~ForcePlace(Sheet, r) /\ T = {value(m) : m \in Masks}
      BY <2>6, <3>1
    <3>4. Max(T) > Max(S)
      <4>1. t \in Int /\ t <= Max(T)
        BY <1>2, <3>1, <3>2
      <4> HIDE DEF T, S
      <4> QED BY <1>3, <3>1, <3>2, <4>1
    <3>5. Max(Options(r, d)) = Max(T)
      <4>1. Options(r, d) = S \union T
        BY DEF Options
      <4> HIDE DEF S, T
      <4>2. S \union T \subseteq Int /\ Max(T) \in S \union T
        BY <1>2, <3>2
      <4>3. \A x \in S \union T : x <= Max(T)
        BY <1>2, <1>3, <3>2, <3>4
      <4> QED BY <4>1, <4>2, <4>3, MaxOf
    <3> HIDE DEF value, T, S
    <3>6. \A m \in best : value(m) = Max(T)
      <4>1. ASSUME NEW m \in best PROVE value(m) = Max(T)
        <5>1. m \in Masks /\ \A x \in Masks : value(x) <= value(m)
          OBVIOUS
        <5>2. value(m) \in T /\ \A x \in T : x <= value(m)
          BY <3>3, <5>1
        <5> QED BY <1>2, <5>2, MaxOf
      <4> QED BY <4>1
    <3>7. best # {}
      <4>1. PICK m \in Masks : value(m) = Max(T)
        BY <3>2, <3>3
      <4>2. \A x \in Masks : value(x) \in T
        BY <3>3
      <4>3. \A x \in Masks : value(x) <= value(m)
        BY <3>2, <4>1, <4>2
      <4>4. m \in best
        BY <3>4, <4>1, <4>3
      <4> QED BY <4>4
    <3>8. \A m : ~Hold(m).place /\ Hold(m).mask = m
      BY DEF Hold
    <3>9. \A m \in best : Worth(Sheet, d, r, Hold(m)) = value(m)
      BY <3>8 DEF Worth, HeldValue, value
    <3> HIDE DEF best
    <3>10. holds # {} /\ \A x \in holds : Worth(Sheet, d, r, x) = Max(T)
      BY <2>5, <3>3, <3>6, <3>7, <3>9
    <3> QED BY <2>2, <3>5, <3>10
  <2> QED BY <2>7, <2>8
<1> QED BY <1>4, <1>5

\* The cells the rollout bot asked about for the throws it has left.
Asked(r) == [cells |-> Legal(r), evs |-> evs]

\* Its candidates are worth what the options are.
LEMMA CandidatesAreOptions ==
  ASSUME NEW r, Choosing(r), NEW d \in Throws
  PROVE  {Worth(Asked(r), d, r, a) : a \in Candidates(Asked(r), d, r)} = Options(r, d)
<1> DEFINE b == Asked(r)
           value(m) == Mean(Moves[d][m], Layer(Sheet, r - 1))
           may == ~(r = 0 \/ (r = 1 /\ OnlyTurbo))
           places == {Place(c) : c \in Legal(r)}
           holds == IF may THEN {Hold(m) : m \in Masks} ELSE {}
<1>1. b.cells = Legal(r) /\ \A c : ValueIn(b, c, d) = ValueIn(Sheet, c, d)
  BY DEF Asked, Sheet, ValueIn
<1>2. r # 0 => b = Sheet
  BY DEF Choosing, Legal, Asked, Sheet
<1>3. (IF r = 0 THEN b.cells \ Turbo ELSE b.cells) = Legal(r)
  BY <1>1 DEF Choosing, Legal, OnlyTurbo
<1>4. MayThrow(b.cells, r) <=> may
  BY <1>1 DEF MayThrow, Choosing, Legal, OnlyTurbo
<1> HIDE DEF b
<1>5. Candidates(b, d, r) = places \union holds
  BY <1>3, <1>4 DEF Candidates
<1>6. \A c : Worth(b, d, r, Place(c)) = ValueIn(Sheet, c, d)
  BY <1>1 DEF Worth, Place
<1>7. \A m : may => Worth(b, d, r, Hold(m)) = value(m)
  BY <1>2 DEF Worth, Hold, HeldValue
<1>8. Options(r, d) = ValuesOf(Sheet, Legal(r), d)
                        \union (IF may THEN {value(m) : m \in Masks} ELSE {})
  BY DEF Options, Rethrows, MeansOf
<1> HIDE DEF value, may
<1>9. {Worth(b, d, r, a) : a \in places \union holds} = Options(r, d)
  BY <1>6, <1>7, <1>8 DEF ValuesOf
<1> QED BY <1>5, <1>9 DEF b

\* None is better than the best of them, which is therefore among the first.
LEMMA RolloutsHaveTheBest ==
  ASSUME NEW r, Choosing(r), NEW d \in Throws
  PROVE  Max({Worth(Asked(r), d, r, a) : a \in TopCandidates(Asked(r), d, r)})
           = Max(Options(r, d))
<1> DEFINE all == Candidates(Asked(r), d, r)
           top == TopCandidates(Asked(r), d, r)
           worth(a) == Worth(Asked(r), d, r, a)
           S == Options(r, d)
           better(a) == {x \in all : worth(x) > worth(a)}
<1>1. S = {worth(a) : a \in all}
  BY CandidatesAreOptions
<1>2. IsFiniteSet(S) /\ S \subseteq Int /\ S # {}
  BY RethrowsAreInts
<1>3. top = {a \in all : Cardinality(better(a)) < MaxCandidates}
  BY DEF TopCandidates
<1> HIDE DEF all, top, worth, S
<1>4. Max(S) \in S /\ Max(S) \in Int /\ \A x \in S : x <= Max(S)
  BY <1>2, MaxIs
<1>5. PICK a \in all : worth(a) = Max(S)
  BY <1>1, <1>4
<1>6. better(a) = {}
  <2>1. \A x \in all : worth(x) \in Int /\ worth(x) <= worth(a)
    BY <1>1, <1>2, <1>4, <1>5
  <2> QED BY <1>4, <1>5, <2>1
<1>7. Cardinality(better(a)) = 0
  BY <1>6, FS_EmptySet, Zenon
<1> HIDE DEF better
<1>8. a \in top
  BY <1>3, <1>7, SolverAssumption
<1> DEFINE W == {worth(x) : x \in top}
<1>9. W \subseteq S
  BY <1>1, <1>3
<1>10. Max(S) \in W /\ W \subseteq Int /\ \A x \in W : x <= Max(S)
  BY <1>2, <1>4, <1>5, <1>8, <1>9
<1>11. Max(W) = Max(S)
  <2> HIDE DEF W
  <2> QED BY <1>10, MaxOf
<1> QED BY <1>11 DEF worth, top, S

LEMMA BestByInvariant == PlayInv => PlaysTheBest
<1> SUFFICES ASSUME PlayInv, moving, seat \in {"greedy", "rollouts"},
                    ~BonusActive(dice, rollsLeft)
             PROVE  LET best == Expectation[dice]
                        worth == {Worth(Layers, dice, rollsLeft, a) : a \in Decisions}
                    IN  IF seat = "greedy" THEN worth = {best} ELSE Max(worth) = best
  BY DEF PlaysTheBest
<1> DEFINE r == rollsLeft
<1>1. BotMoves
  BY DEF BotMoves, Bots
<1>2. dice \in Throws /\ Entries \subseteq Cells
  BY EntriesAreCells DEF PlayInv, CanMove
<1>3. Choosing(r)
  <2>1. Entries # {} /\ (r = 0 => ~OnlyTurbo)
    BY DEF PlayInv, CanMove, OnlyTurbo
  <2>2. evs \in Valuations
    BY <1>1 DEF PlayInv, ValuesAreOfThisTurn
  <2>3. r \in 0..2
    BY DEF PlayInv, TurnInv, Counters
  <2> QED BY <1>2, <2>1, <2>2, <2>3 DEF Choosing
<1>4. Expectation[dice] = Max(Options(r, dice))
  <2>1. Expectation = Layer(Sheet, r)
    BY <1>3, ExpectationIsLayer
  <2> QED BY <1>2, <1>3, <2>1, LayerIsBest
<1>5. CASE seat = "greedy"
  <2>1. Layers = Sheet
    BY <1>1, <1>5 DEF PlayInv, ValuesAreOfThisTurn, TurnInv, CellsAreOfThisTurn, Sheet
  <2>2. Decisions = Resolve(Sheet, dice, r, FALSE)
    BY <1>5, <2>1 DEF Decisions
  <2>3. /\ Decisions # {}
        /\ \A x \in Decisions : Worth(Layers, dice, r, x) = Max(Options(r, dice))
    BY <1>2, <1>3, <2>1, <2>2, GreedyIsBest
  <2> QED BY <1>4, <1>5, <2>3
<1>6. CASE seat = "rollouts"
  <2>1. Layers = Asked(r)
    BY <1>1, <1>6 DEF PlayInv, ValuesAreOfThisTurn, TurnInv, CellsAreOfThisTurn, Asked
  <2>2. Decisions = TopCandidates(Asked(r), dice, r)
    BY <1>6, <2>1 DEF Decisions, RolloutResults
  <2>3. Max({Worth(Asked(r), dice, r, a) : a \in TopCandidates(Asked(r), dice, r)})
          = Max(Options(r, dice))
    BY <1>2, <1>3, RolloutsHaveTheBest
  <2> QED BY <1>4, <1>6, <2>1, <2>2, <2>3
<1> QED BY <1>5, <1>6

\* Greedy play takes an action of the highest expectation the rules leave, whatever
\* the network says of the cells, and the rollout bot has one among its candidates
\* (solver_resolve, select_top_candidates).
THEOREM BotsPlayTheBest == TurnSpec => []PlaysTheBest
  BY PlayInvariance, BestByInvariant, PTL

-----------------------------------------------------------------------------
(* Games in strides.                                                       *)

LEMMA QuotientLess ==
  ASSUME NEW n \in Nat, n > 0, NEW a \in Int, NEW b \in Int, a < b
  PROVE  a * n + n <= b * n
  OBVIOUS

LEMMA RemainderIs ==
  ASSUME NEW n \in Nat, n > 0, NEW i \in Nat
  PROVE  /\ i % n \in 0 .. n - 1
         /\ i \div n \in Nat /\ i = (i \div n) * n + (i % n)
  OBVIOUS

\* Two games of one thread are the same or a stride apart.
LEMMA SameThread ==
  ASSUME NEW n \in Nat, n > 0, NEW i \in Nat, NEW j \in Nat,
         i % n = j % n, j <= i, i < j + n
  PROVE  i = j
<1> DEFINE p == i \div n
           q == j \div n
           r == i % n
<1>1. p \in Nat /\ q \in Nat /\ r \in Nat /\ i = p * n + r /\ j = q * n + r
  BY RemainderIs
<1>2. CASE p < q
  BY <1>1, <1>2, QuotientLess
<1>3. CASE q < p
  BY <1>1, <1>3, QuotientLess
<1>4. CASE p = q
  BY <1>1, <1>4
<1> QED BY <1>1, <1>2, <1>3, <1>4

\* A stride leads to a game of the same thread.
LEMMA StrideKeepsThread ==
  ASSUME NEW n \in Nat, n > 0, NEW i \in Nat
  PROVE  (i + n) % n = i % n
<1> DEFINE p == i \div n
           q == (i + n) \div n
           r == i % n
           s == (i + n) % n
           k == p * n
           l == q * n
<1>1. p \in Nat /\ r \in 0 .. n - 1 /\ i = k + r
  BY RemainderIs
<1>2. i + n \in Nat
  OBVIOUS
<1>3. q \in Nat /\ s \in 0 .. n - 1 /\ i + n = l + s
  BY <1>2, RemainderIs
<1>4. k \in Int /\ l \in Int
  BY <1>1, <1>3
<1>5. (p + 1) * n = k + n
  BY <1>1
<1>6. CASE p + 1 < q
  <2>1. k + n + n <= l
    BY <1>1, <1>3, <1>5, <1>6, QuotientLess
  <2> HIDE DEF p, q, r, s, k, l
  <2> QED BY <1>1, <1>3, <1>4, <2>1
<1>7. CASE q < p + 1
  <2>1. l + n <= k + n
    BY <1>1, <1>3, <1>5, <1>7, QuotientLess
  <2> HIDE DEF p, q, r, s, k, l
  <2> QED BY <1>1, <1>3, <1>4, <2>1
<1>8. CASE p + 1 = q
  <2>1. l = k + n
    BY <1>5, <1>8
  <2> HIDE DEF p, q, r, s, k, l
  <2>2. s = r
    BY <1>1, <1>3, <1>4, <2>1
  <2> QED BY <2>2 DEF r, s
<1> QED BY <1>1, <1>3, <1>6, <1>7, <1>8

-----------------------------------------------------------------------------
(* What a result counts.                                                   *)

ResultType ==
  [games : Int, wins : Int, losses : Int, draws : Int,
   winsAs : [1 .. 2 -> Int], gamesAs : [1 .. 2 -> Int], margin : Int]

WonOf(d, s)  == {i \in s : IF i % 2 = 0 THEN d[i] > 0 ELSE d[i] < 0}
LostOf(d, s) == {i \in s : IF i % 2 = 0 THEN d[i] < 0 ELSE d[i] > 0}
DrawnOf(d, s) == {i \in s : d[i] = 0}
SideOf(s, k) == {i \in s : i % 2 = k - 1}

\* p counts the games s, that ended with the margins d.
CountsOf(p, d, s) ==
  /\ p \in ResultType
  /\ p.wins = Cardinality(WonOf(d, s))
  /\ p.losses = Cardinality(LostOf(d, s))
  /\ p.draws = Cardinality(DrawnOf(d, s))
  /\ p.margin = Cardinality(WonOf(d, s)) - Cardinality(LostOf(d, s))
  /\ \A k \in 1 .. 2 : p.gamesAs[k] = Cardinality(SideOf(s, k))
  /\ \A k \in 1 .. 2 : p.winsAs[k] = Cardinality(WonOf(d, SideOf(s, k)))

LEMMA CardinalityAdds ==
  ASSUME NEW s, IsFiniteSet(s), NEW i, i \notin s
  PROVE  Cardinality(s \cup {i}) = Cardinality(s) + 1 /\ Cardinality(s) \in Nat
  BY FS_AddElement, FS_CardinalityType

LEMMA CardinalityJoins ==
  ASSUME NEW s, NEW t, IsFiniteSet(s), IsFiniteSet(t), s \cap t = {}
  PROVE  /\ Cardinality(s \cup t) = Cardinality(s) + Cardinality(t)
         /\ Cardinality(s) \in Nat /\ Cardinality(t) \in Nat
<1>1. Cardinality(s \cap t) = 0
  BY FS_EmptySet
<1>2. Cardinality(s \cup t) = Cardinality(s) + Cardinality(t) - Cardinality(s \cap t)
  BY FS_Union
<1>3. Cardinality(s) \in Nat /\ Cardinality(t) \in Nat
  BY FS_CardinalityType
<1> QED BY <1>1, <1>2, <1>3

LEMMA CountsNothing ==
  ASSUME NEW d
  PROVE  CountsOf(NoResult, d, {}) /\ NoResult.games = 0
<1>1. WonOf(d, {}) = {} /\ LostOf(d, {}) = {} /\ DrawnOf(d, {}) = {}
  BY DEF WonOf, LostOf, DrawnOf
<1>2. \A k : SideOf({}, k) = {}
  BY DEF SideOf
<1>3. Cardinality({}) = 0
  BY FS_EmptySet
<1>4. <<0, 0>> \in [1 .. 2 -> Int]
  OBVIOUS
<1>5. NoResult \in ResultType
  BY <1>4 DEF NoResult, ResultType
<1>6. /\ NoResult.games = 0 /\ NoResult.wins = 0 /\ NoResult.losses = 0
      /\ NoResult.draws = 0 /\ NoResult.margin = 0
      /\ NoResult.winsAs = <<0, 0>> /\ NoResult.gamesAs = <<0, 0>>
  BY DEF NoResult
<1>7. \A k \in 1 .. 2 : <<0, 0>>[k] = 0
  OBVIOUS
<1> QED BY <1>1, <1>2, <1>3, <1>5, <1>6, <1>7 DEF CountsOf

\* One result that counts the games of two others.
LEMMA CountsBoth ==
  ASSUME NEW d, NEW s, NEW t, IsFiniteSet(s), IsFiniteSet(t), s \cap t = {},
         NEW p, NEW q, CountsOf(p, d, s), CountsOf(q, d, t)
  PROVE  CountsOf(Merged(p, q), d, s \cup t)
<1>1. /\ WonOf(d, s \cup t) = WonOf(d, s) \cup WonOf(d, t)
      /\ IsFiniteSet(WonOf(d, s)) /\ IsFiniteSet(WonOf(d, t))
      /\ WonOf(d, s) \cap WonOf(d, t) = {}
  BY FS_Subset DEF WonOf
<1>2. /\ LostOf(d, s \cup t) = LostOf(d, s) \cup LostOf(d, t)
      /\ IsFiniteSet(LostOf(d, s)) /\ IsFiniteSet(LostOf(d, t))
      /\ LostOf(d, s) \cap LostOf(d, t) = {}
  BY FS_Subset DEF LostOf
<1>3. /\ DrawnOf(d, s \cup t) = DrawnOf(d, s) \cup DrawnOf(d, t)
      /\ IsFiniteSet(DrawnOf(d, s)) /\ IsFiniteSet(DrawnOf(d, t))
      /\ DrawnOf(d, s) \cap DrawnOf(d, t) = {}
  BY FS_Subset DEF DrawnOf
<1>4. \A k : /\ SideOf(s \cup t, k) = SideOf(s, k) \cup SideOf(t, k)
             /\ IsFiniteSet(SideOf(s, k)) /\ IsFiniteSet(SideOf(t, k))
             /\ SideOf(s, k) \cap SideOf(t, k) = {}
  BY FS_Subset DEF SideOf
<1>5. \A k : /\ WonOf(d, SideOf(s \cup t, k))
                    = WonOf(d, SideOf(s, k)) \cup WonOf(d, SideOf(t, k))
             /\ IsFiniteSet(WonOf(d, SideOf(s, k))) /\ IsFiniteSet(WonOf(d, SideOf(t, k)))
             /\ WonOf(d, SideOf(s, k)) \cap WonOf(d, SideOf(t, k)) = {}
  BY <1>4, FS_Subset DEF WonOf
<1> DEFINE r == Merged(p, q)
<1>6. /\ p \in ResultType /\ q \in ResultType
  BY DEF CountsOf
<1>7. /\ r \in ResultType
      /\ r.wins = p.wins + q.wins /\ r.losses = p.losses + q.losses
      /\ r.draws = p.draws + q.draws /\ r.margin = p.margin + q.margin
      /\ \A k \in 1 .. 2 : r.winsAs[k] = p.winsAs[k] + q.winsAs[k]
      /\ \A k \in 1 .. 2 : r.gamesAs[k] = p.gamesAs[k] + q.gamesAs[k]
  BY <1>6 DEF Merged, ResultType
<1> HIDE DEF r
<1>8. r.wins = Cardinality(WonOf(d, s \cup t))
  <2>1. Cardinality(WonOf(d, s \cup t)) = Cardinality(WonOf(d, s)) + Cardinality(WonOf(d, t))
    BY <1>1, CardinalityJoins
  <2>2. p.wins = Cardinality(WonOf(d, s)) /\ q.wins = Cardinality(WonOf(d, t))
    BY DEF CountsOf
  <2> QED BY <1>7, <2>1, <2>2
<1>9. r.losses = Cardinality(LostOf(d, s \cup t))
  <2>1. Cardinality(LostOf(d, s \cup t)) = Cardinality(LostOf(d, s)) + Cardinality(LostOf(d, t))
    BY <1>2, CardinalityJoins
  <2>2. p.losses = Cardinality(LostOf(d, s)) /\ q.losses = Cardinality(LostOf(d, t))
    BY DEF CountsOf
  <2> QED BY <1>7, <2>1, <2>2
<1>10. r.draws = Cardinality(DrawnOf(d, s \cup t))
  <2>1. Cardinality(DrawnOf(d, s \cup t)) = Cardinality(DrawnOf(d, s)) + Cardinality(DrawnOf(d, t))
    BY <1>3, CardinalityJoins
  <2>2. p.draws = Cardinality(DrawnOf(d, s)) /\ q.draws = Cardinality(DrawnOf(d, t))
    BY DEF CountsOf
  <2> QED BY <1>7, <2>1, <2>2
<1>11. r.margin = Cardinality(WonOf(d, s \cup t)) - Cardinality(LostOf(d, s \cup t))
  <2>1. /\ Cardinality(WonOf(d, s \cup t)) = Cardinality(WonOf(d, s)) + Cardinality(WonOf(d, t))
        /\ Cardinality(WonOf(d, s)) \in Nat /\ Cardinality(WonOf(d, t)) \in Nat
    BY <1>1, CardinalityJoins
  <2>2. /\ Cardinality(LostOf(d, s \cup t)) = Cardinality(LostOf(d, s)) + Cardinality(LostOf(d, t))
        /\ Cardinality(LostOf(d, s)) \in Nat /\ Cardinality(LostOf(d, t)) \in Nat
    BY <1>2, CardinalityJoins
  <2>3. /\ p.margin = Cardinality(WonOf(d, s)) - Cardinality(LostOf(d, s))
        /\ q.margin = Cardinality(WonOf(d, t)) - Cardinality(LostOf(d, t))
    BY DEF CountsOf
  <2> QED BY <1>7, <2>1, <2>2, <2>3
<1>12. \A k \in 1 .. 2 : r.gamesAs[k] = Cardinality(SideOf(s \cup t, k))
  <2>1. \A k : Cardinality(SideOf(s \cup t, k))
                  = Cardinality(SideOf(s, k)) + Cardinality(SideOf(t, k))
    BY <1>4, CardinalityJoins
  <2>2. \A k \in 1 .. 2 : /\ p.gamesAs[k] = Cardinality(SideOf(s, k))
                          /\ q.gamesAs[k] = Cardinality(SideOf(t, k))
    BY DEF CountsOf
  <2> QED BY <1>7, <2>1, <2>2
<1>13. \A k \in 1 .. 2 : r.winsAs[k] = Cardinality(WonOf(d, SideOf(s \cup t, k)))
  <2>1. \A k : Cardinality(WonOf(d, SideOf(s \cup t, k)))
                  = Cardinality(WonOf(d, SideOf(s, k))) + Cardinality(WonOf(d, SideOf(t, k)))
    BY <1>5, CardinalityJoins
  <2>2. \A k \in 1 .. 2 : /\ p.winsAs[k] = Cardinality(WonOf(d, SideOf(s, k)))
                          /\ q.winsAs[k] = Cardinality(WonOf(d, SideOf(t, k)))
    BY DEF CountsOf
  <2> QED BY <1>7, <2>1, <2>2
<1>14. CountsOf(r, d, s \cup t)
  BY <1>7, <1>8, <1>9, <1>10, <1>11, <1>12, <1>13 DEF CountsOf
<1> QED BY <1>14 DEF r

\* One more game that ends is counted.
OneMoreGame(d, e, s, i, duel, p) ==
  /\ IsFiniteSet(s) /\ i \in Nat /\ i \notin s
  /\ duel \in {-1, 0, 1} /\ e[i] = duel
  /\ \A j \in s : e[j] = d[j]
  /\ CountsOf(p, d, s) /\ p.games = 0

LEMMA CountsOneMore ==
  ASSUME NEW d, NEW e, NEW s, NEW i, NEW duel, NEW p, OneMoreGame(d, e, s, i, duel, p)
  PROVE  CountsOf(Scored(p, i, duel), e, s \cup {i}) /\ Scored(p, i, duel).games = 0
<1> DEFINE m == CandidateMargin(duel, i)
           r == Scored(p, i, duel)
           anchor == SeatOf(i)
<1>0. /\ IsFiniteSet(s) /\ i \in Nat /\ i \notin s
      /\ duel \in {-1, 0, 1} /\ e[i] = duel
      /\ \A j \in s : e[j] = d[j]
      /\ CountsOf(p, d, s) /\ p.games = 0
  BY DEF OneMoreGame
<1> USE <1>0
<1>1. /\ m \in {-1, 0, 1} /\ anchor \in 1 .. 2 /\ i % 2 = anchor - 1
      /\ m > 0 <=> (IF i % 2 = 0 THEN e[i] > 0 ELSE e[i] < 0)
      /\ m < 0 <=> (IF i % 2 = 0 THEN e[i] < 0 ELSE e[i] > 0)
      /\ m = 0 <=> e[i] = 0
  BY DEF CandidateMargin, SeatOf
<1>2. p \in ResultType
  BY DEF CountsOf
<1>3. /\ r \in ResultType /\ r.games = 0
      /\ r.wins = p.wins + (IF m > 0 THEN 1 ELSE 0)
      /\ r.losses = p.losses + (IF m < 0 THEN 1 ELSE 0)
      /\ r.draws = p.draws + (IF m = 0 THEN 1 ELSE 0)
      /\ r.margin = p.margin + m
      /\ \A k \in 1 .. 2 : r.gamesAs[k] = p.gamesAs[k] + (IF k = anchor THEN 1 ELSE 0)
      /\ \A k \in 1 .. 2 : r.winsAs[k] =
            p.winsAs[k] + (IF k = anchor /\ m > 0 THEN 1 ELSE 0)
  <2> HIDE DEF m, anchor
  <2> USE <1>1, <1>2 DEF ResultType
  <2>1. p = [games |-> p.games, wins |-> p.wins, losses |-> p.losses,
             draws |-> p.draws, winsAs |-> p.winsAs, gamesAs |-> p.gamesAs,
             margin |-> p.margin]
    OBVIOUS
  <2>2. r = [p EXCEPT !.gamesAs = [p.gamesAs EXCEPT ![anchor] = p.gamesAs[anchor] + 1],
                      !.margin = p.margin + m,
                      !.wins = IF m > 0 THEN p.wins + 1 ELSE p.wins,
                      !.winsAs = [p.winsAs EXCEPT ![anchor] =
                                    IF m > 0 THEN p.winsAs[anchor] + 1 ELSE p.winsAs[anchor]],
                      !.losses = IF m < 0 THEN p.losses + 1 ELSE p.losses,
                      !.draws = IF m = 0 THEN p.draws + 1 ELSE p.draws]
    BY <2>1 DEF Scored, m, anchor
  <2> HIDE DEF r
  <2>3. /\ p.games \in Int /\ p.wins \in Int /\ p.losses \in Int /\ p.draws \in Int
        /\ p.margin \in Int
        /\ p.winsAs \in [1 .. 2 -> Int] /\ p.gamesAs \in [1 .. 2 -> Int]
    OBVIOUS
  <2> DEFINE ga == [p.gamesAs EXCEPT ![anchor] = p.gamesAs[anchor] + 1]
             wa == [p.winsAs EXCEPT ![anchor] =
                      IF m > 0 THEN p.winsAs[anchor] + 1 ELSE p.winsAs[anchor]]
  <2>4. /\ ga \in [1 .. 2 -> Int] /\ wa \in [1 .. 2 -> Int]
        /\ \A k \in 1 .. 2 : ga[k] = p.gamesAs[k] + (IF k = anchor THEN 1 ELSE 0)
        /\ \A k \in 1 .. 2 : wa[k] = p.winsAs[k] + (IF k = anchor /\ m > 0 THEN 1 ELSE 0)
    BY <2>3
  <2>5. r = [games |-> p.games, wins |-> IF m > 0 THEN p.wins + 1 ELSE p.wins,
             losses |-> IF m < 0 THEN p.losses + 1 ELSE p.losses,
             draws |-> IF m = 0 THEN p.draws + 1 ELSE p.draws,
             winsAs |-> wa, gamesAs |-> ga, margin |-> p.margin + m]
    BY <2>1, <2>2
  <2> HIDE DEF ga, wa
  <2> QED BY <2>3, <2>4, <2>5
<1>4. WonOf(e, s \cup {i}) = IF m > 0 THEN WonOf(d, s) \cup {i} ELSE WonOf(d, s)
  BY <1>1 DEF WonOf
<1>5. LostOf(e, s \cup {i}) = IF m < 0 THEN LostOf(d, s) \cup {i} ELSE LostOf(d, s)
  BY <1>1 DEF LostOf
<1>6. DrawnOf(e, s \cup {i}) = IF m = 0 THEN DrawnOf(d, s) \cup {i} ELSE DrawnOf(d, s)
  BY <1>1 DEF DrawnOf
<1>7. \A k \in 1 .. 2 :
        SideOf(s \cup {i}, k) = IF k = anchor THEN SideOf(s, k) \cup {i} ELSE SideOf(s, k)
  BY <1>1 DEF SideOf
<1>8. \A k \in 1 .. 2 :
        WonOf(e, SideOf(s \cup {i}, k))
          = IF k = anchor /\ m > 0 THEN WonOf(d, SideOf(s, k)) \cup {i}
            ELSE WonOf(d, SideOf(s, k))
  <2> SUFFICES ASSUME NEW k \in 1 .. 2
               PROVE  WonOf(e, SideOf(s \cup {i}, k))
                        = IF k = anchor /\ m > 0 THEN WonOf(d, SideOf(s, k)) \cup {i}
                          ELSE WonOf(d, SideOf(s, k))
    OBVIOUS
  <2>1. SideOf(s, k) \subseteq s
    BY DEF SideOf
  <2> HIDE DEF m, anchor
  <2>2. CASE k = anchor
    BY <1>1, <1>7, <2>1, <2>2 DEF WonOf
  <2>3. CASE k # anchor
    BY <1>1, <1>7, <2>1, <2>3 DEF WonOf
  <2> QED BY <2>2, <2>3
<1>9. /\ IsFiniteSet(WonOf(d, s)) /\ i \notin WonOf(d, s)
      /\ IsFiniteSet(LostOf(d, s)) /\ i \notin LostOf(d, s)
      /\ IsFiniteSet(DrawnOf(d, s)) /\ i \notin DrawnOf(d, s)
  BY FS_Subset DEF WonOf, LostOf, DrawnOf
<1>10. \A k : IsFiniteSet(SideOf(s, k)) /\ i \notin SideOf(s, k)
  BY FS_Subset DEF SideOf
<1>11. \A k : IsFiniteSet(WonOf(d, SideOf(s, k))) /\ i \notin WonOf(d, SideOf(s, k))
  BY <1>10, FS_Subset DEF WonOf
<1> DEFINE w == Cardinality(WonOf(d, s))
           l == Cardinality(LostOf(d, s))
           dr == Cardinality(DrawnOf(d, s))
<1>12. /\ Cardinality(WonOf(e, s \cup {i})) = w + (IF m > 0 THEN 1 ELSE 0)
       /\ Cardinality(LostOf(e, s \cup {i})) = l + (IF m < 0 THEN 1 ELSE 0)
       /\ Cardinality(DrawnOf(e, s \cup {i})) = dr + (IF m = 0 THEN 1 ELSE 0)
       /\ w \in Nat /\ l \in Nat /\ dr \in Nat
  <2> HIDE DEF m
  <2>1. Cardinality(WonOf(d, s) \cup {i}) = w + 1 /\ w \in Nat
    BY <1>9, CardinalityAdds
  <2>2. Cardinality(LostOf(d, s) \cup {i}) = l + 1 /\ l \in Nat
    BY <1>9, CardinalityAdds
  <2>3. Cardinality(DrawnOf(d, s) \cup {i}) = dr + 1 /\ dr \in Nat
    BY <1>9, CardinalityAdds
  <2> HIDE DEF w, l, dr
  <2>4. Cardinality(WonOf(e, s \cup {i})) = w + (IF m > 0 THEN 1 ELSE 0)
    BY <1>4, <2>1 DEF w
  <2>5. Cardinality(LostOf(e, s \cup {i})) = l + (IF m < 0 THEN 1 ELSE 0)
    BY <1>5, <2>2 DEF l
  <2>6. Cardinality(DrawnOf(e, s \cup {i})) = dr + (IF m = 0 THEN 1 ELSE 0)
    BY <1>6, <2>3 DEF dr
  <2> QED BY <2>1, <2>2, <2>3, <2>4, <2>5, <2>6
<1>13. p.wins = w /\ p.losses = l /\ p.draws = dr /\ p.margin = w - l
  BY DEF CountsOf
<1>14. \A k \in 1 .. 2 : r.gamesAs[k] = Cardinality(SideOf(s \cup {i}, k))
  <2> SUFFICES ASSUME NEW k \in 1 .. 2
               PROVE  r.gamesAs[k] = Cardinality(SideOf(s \cup {i}, k))
    OBVIOUS
  <2>1. p.gamesAs[k] = Cardinality(SideOf(s, k))
    BY DEF CountsOf
  <2> HIDE DEF anchor, r
  <2>2. /\ Cardinality(SideOf(s, k) \cup {i}) = Cardinality(SideOf(s, k)) + 1
        /\ Cardinality(SideOf(s, k)) \in Nat
    BY <1>10, CardinalityAdds
  <2>3. CASE k = anchor
    BY <2>1, <2>2, <2>3, <1>3, <1>7
  <2>4. CASE k # anchor
    BY <2>1, <2>2, <2>4, <1>3, <1>7
  <2> QED BY <2>3, <2>4
<1>15. \A k \in 1 .. 2 : r.winsAs[k] = Cardinality(WonOf(e, SideOf(s \cup {i}, k)))
  <2> SUFFICES ASSUME NEW k \in 1 .. 2
               PROVE  r.winsAs[k] = Cardinality(WonOf(e, SideOf(s \cup {i}, k)))
    OBVIOUS
  <2>1. p.winsAs[k] = Cardinality(WonOf(d, SideOf(s, k)))
    BY DEF CountsOf
  <2> HIDE DEF anchor, r, m
  <2>2. /\ Cardinality(WonOf(d, SideOf(s, k)) \cup {i})
             = Cardinality(WonOf(d, SideOf(s, k))) + 1
        /\ Cardinality(WonOf(d, SideOf(s, k))) \in Nat
    BY <1>11, CardinalityAdds
  <2>3. CASE k = anchor /\ m > 0
    BY <2>1, <2>2, <2>3, <1>3, <1>8
  <2>4. CASE ~(k = anchor /\ m > 0)
    BY <2>1, <2>2, <2>4, <1>3, <1>8
  <2> QED BY <2>3, <2>4
<1> HIDE DEF m, anchor, r, w, l, dr
<1>16. /\ r.wins = Cardinality(WonOf(e, s \cup {i}))
       /\ r.losses = Cardinality(LostOf(e, s \cup {i}))
       /\ r.draws = Cardinality(DrawnOf(e, s \cup {i}))
       /\ r.margin = Cardinality(WonOf(e, s \cup {i})) - Cardinality(LostOf(e, s \cup {i}))
  BY <1>1, <1>3, <1>12, <1>13
<1>17. CountsOf(r, e, s \cup {i}) /\ r.games = 0
  BY <1>3, <1>14, <1>15, <1>16 DEF CountsOf
<1> QED BY <1>17 DEF r

\* What merging the results of the threads gives.
PartsCount(T, parts, d, own, base) ==
  /\ IsFiniteSet(T) /\ parts \in [T -> ResultType]
  /\ CountsOf(base, d, {})
  /\ \A t \in T : /\ IsFiniteSet(own[t])
                  /\ CountsOf(parts[t], d, own[t])
                  /\ parts[t].games = 0
  /\ \A t, u \in T : t # u => own[t] \cap own[u] = {}

LEMMA MergedCounts ==
  ASSUME NEW T, NEW parts, NEW d, NEW own, NEW base, PartsCount(T, parts, d, own, base)
  PROVE  LET r == FoldFunction(Merged, base, parts)
         IN  CountsOf(r, d, UNION {own[t] : t \in T}) /\ r.games = base.games
<1> DEFINE step == [t \in T |-> [p \in ResultType |-> Merged(parts[t], p)]]
           folds(it) == it = [s \in SUBSET T |->
                     IF s = {} THEN base
                     ELSE LET x == CHOOSE x \in s : TRUE
                          IN  Merged(parts[x], it[s \ {x}])]
           iter == CHOOSE it : folds(it)
           all(s) == UNION {own[t] : t \in s}
<1>0. /\ IsFiniteSet(T) /\ parts \in [T -> ResultType]
      /\ CountsOf(base, d, {})
      /\ \A t \in T : /\ IsFiniteSet(own[t])
                      /\ CountsOf(parts[t], d, own[t])
                      /\ parts[t].games = 0
      /\ \A t, u \in T : t # u => own[t] \cap own[u] = {}
  BY DEF PartsCount
<1> USE <1>0
<1>1. ASSUME NEW p \in ResultType, NEW q \in ResultType
      PROVE  Merged(p, q) \in ResultType /\ (p.games = 0 => Merged(p, q).games = q.games)
  BY DEF Merged, ResultType
<1>2. base \in ResultType
  BY DEF CountsOf
<1>3. step \in [T -> [ResultType -> ResultType]]
  BY <1>1
<1>4. PICK it : FoldsOver(it, T, ResultType, base, step)
  <2> HIDE DEF step
  <2> QED BY <1>2, <1>3, FoldExists
<1>5. folds(it)
  <2> DEFINE e == [s \in SUBSET T |-> IF s = {} THEN base
                               ELSE LET x == CHOOSE x \in s : TRUE
                                    IN  Merged(parts[x], it[s \ {x}])]
  <2>1. it \in [SUBSET T -> ResultType]
    BY <1>4 DEF FoldsOver
  <2>2. ASSUME NEW s \in SUBSET T PROVE it[s] = e[s]
    <3>1. it[s] = IF s = {} THEN base
                  ELSE step[CHOOSE x \in s : TRUE][it[s \ {CHOOSE x \in s : TRUE}]]
      BY <1>4 DEF FoldsOver
    <3>2. CASE s = {}
      BY <3>1, <3>2
    <3>3. CASE s # {}
      <4> DEFINE x == CHOOSE y \in s : TRUE
                 rest == it[s \ {x}]
      <4>1. x \in T /\ rest \in ResultType
        BY <2>1, <3>3, OneLess
      <4>2. it[s] = step[x][rest]
        BY <3>1, <3>3
      <4>3. step[x][rest] = Merged(parts[x], rest)
        <5> HIDE DEF x, rest
        <5> QED BY <4>1
      <4> QED BY <3>3, <4>2, <4>3
    <3> QED BY <3>2, <3>3
  <2>3. DOMAIN it = SUBSET T /\ DOMAIN e = SUBSET T
    BY <2>1
  <2>4. it = [s \in SUBSET T |-> it[s]]
    BY <2>1
  <2> QED BY <2>2, <2>4
<1>6. folds(iter)
  <2> HIDE DEF folds
  <2> QED BY <1>5
<1>7. FoldFunction(Merged, base, parts) = iter[T]
  BY DEF FoldFunction, FoldFunctionOnSet, MapThenFoldSet
<1> HIDE DEF iter, step
<1> DEFINE G == {s \in SUBSET T : /\ IsFiniteSet(all(s))
                                  /\ CountsOf(iter[s], d, all(s))
                                  /\ iter[s].games = base.games}
<1>8. {} \in G
  <2>1. all({}) = {}
    OBVIOUS
  <2>2. iter[{}] = base
    BY <1>6
  <2>3. IsFiniteSet({})
    BY FS_EmptySet
  <2> QED BY <2>1, <2>2, <2>3
<1>9. ASSUME NEW s \in SUBSET T, s # {}
      PROVE  \E x \in s : s \ {x} \in G => s \in G
  <2> DEFINE x == CHOOSE y \in s : TRUE
             rest == s \ {x}
  <2>1. x \in s /\ x \in T /\ rest \in SUBSET T
    BY <1>9, OneLess
  <2>2. iter[s] = Merged(parts[x], iter[rest])
    BY <1>6, <1>9
  <2>3. all(s) = own[x] \cup all(rest)
    BY <2>1
  <2>4. own[x] \cap all(rest) = {}
    BY <2>1
  <2>5. IsFiniteSet(own[x])
    BY <2>1
  <2>6. CountsOf(parts[x], d, own[x]) /\ parts[x].games = 0 /\ parts[x] \in ResultType
    BY <2>1
  <2>7. ASSUME rest \in G PROVE s \in G
    <3>1. /\ CountsOf(iter[rest], d, all(rest)) /\ iter[rest].games = base.games
          /\ IsFiniteSet(all(rest))
      BY <2>7
    <3>2. iter[rest] \in ResultType
      BY <3>1 DEF CountsOf
    <3> HIDE DEF all, x, rest
    <3>3. CountsOf(iter[s], d, all(s))
      BY <2>2, <2>3, <2>4, <2>5, <2>6, <3>1, CountsBoth
    <3>4. iter[s].games = base.games
      BY <1>1, <2>2, <2>6, <3>1, <3>2
    <3>5. IsFiniteSet(all(s))
      <4>1. IsFiniteSet(own[x] \cup all(rest))
        BY <2>5, <3>1, FS_Union
      <4> QED BY <2>3, <4>1
    <3> QED BY <3>3, <3>4, <3>5
  <2> HIDE DEF G, x
  <2> QED BY <2>1, <2>7
<1>10. T \in G
  <2> HIDE DEF G
  <2> QED BY <1>8, <1>9, SubsetInduction
<1> QED BY <1>7, <1>10

\* Wins less losses is what the margins add up to.
LEMMA MarginsAddUp ==
  ASSUME NEW S, S \subseteq Nat, IsFiniteSet(S), NEW d,
         \A i \in S : d[i] \in {-1, 0, 1},
         NEW f, f = [i \in S |-> IF i % 2 = 0 THEN d[i] ELSE -d[i]]
  PROVE  SumFunction(f)
           = Cardinality(WonOf(d, S)) - Cardinality(LostOf(d, S))
<1> DEFINE m(i) == f[i]
<1>1. ASSUME NEW i \in S
      PROVE  /\ m(i) \in {-1, 0, 1}
             /\ m(i) > 0 <=> (IF i % 2 = 0 THEN d[i] > 0 ELSE d[i] < 0)
             /\ m(i) < 0 <=> (IF i % 2 = 0 THEN d[i] < 0 ELSE d[i] > 0)
  <2>1. i \in Nat /\ d[i] \in {-1, 0, 1}
    BY <1>1
  <2> QED BY <2>1
<1>2. f \in [S -> Int]
  <2>1. \A i \in S : m(i) \in Int
    <3> HIDE DEF m
    <3> QED BY <1>1
  <2>2. \A i \in S : (IF i % 2 = 0 THEN d[i] ELSE -d[i]) = m(i)
    OBVIOUS
  <2> HIDE DEF m
  <2>3. f = [i \in S |-> m(i)]
    BY <2>2
  <2> QED BY <2>1, <2>3
<1>3. PICK iter : SumsUp(iter, S, f) /\ SumFunction(f) = iter[S]
  BY <1>2, SumFunctionIs
<1> DEFINE won(s) == Cardinality(WonOf(d, s))
           lost(s) == Cardinality(LostOf(d, s))
           G == {s \in SUBSET S : iter[s] = won(s) - lost(s)}
<1>4. {} \in G
  <2>1. WonOf(d, {}) = {} /\ LostOf(d, {}) = {}
    BY DEF WonOf, LostOf
  <2>2. won({}) = 0 /\ lost({}) = 0
    BY <2>1, FS_EmptySet
  <2>3. iter[{}] = 0
    BY <1>3 DEF SumsUp
  <2> HIDE DEF won, lost
  <2> QED BY <2>2, <2>3
<1>5. ASSUME NEW s \in SUBSET S, s # {}
      PROVE  \E x \in s : s \ {x} \in G => s \in G
  <2>0. PICK x \in s : iter[s] = f[x] + iter[s \ {x}]
    BY <1>3, <1>5 DEF SumsUp
  <2> DEFINE rest == s \ {x}
  <2>1. x \in s /\ x \in S /\ rest \in SUBSET S
    OBVIOUS
  <2>2. iter[s] = m(x) + iter[rest]
    BY <2>0
  <2>3. /\ m(x) \in {-1, 0, 1}
        /\ m(x) > 0 <=> (IF x % 2 = 0 THEN d[x] > 0 ELSE d[x] < 0)
        /\ m(x) < 0 <=> (IF x % 2 = 0 THEN d[x] < 0 ELSE d[x] > 0)
    BY <1>1, <2>1
  <2>4. s = rest \cup {x} /\ x \notin rest
    BY <2>1
  <2> HIDE DEF m, rest
  <2>5. /\ WonOf(d, s) = IF m(x) > 0 THEN WonOf(d, rest) \cup {x} ELSE WonOf(d, rest)
        /\ x \notin WonOf(d, rest)
    BY <2>3, <2>4 DEF WonOf
  <2>6. /\ LostOf(d, s) = IF m(x) < 0 THEN LostOf(d, rest) \cup {x} ELSE LostOf(d, rest)
        /\ x \notin LostOf(d, rest)
    BY <2>3, <2>4 DEF LostOf
  <2>7. IsFiniteSet(WonOf(d, rest)) /\ IsFiniteSet(LostOf(d, rest))
    BY <2>1, FS_Subset DEF WonOf, LostOf
  <2>8. Cardinality(WonOf(d, rest) \cup {x}) = won(rest) + 1 /\ won(rest) \in Nat
    BY <2>5, <2>7, CardinalityAdds
  <2>9. Cardinality(LostOf(d, rest) \cup {x}) = lost(rest) + 1 /\ lost(rest) \in Nat
    BY <2>6, <2>7, CardinalityAdds
  <2>10. /\ won(s) = won(rest) + (IF m(x) > 0 THEN 1 ELSE 0)
         /\ lost(s) = lost(rest) + (IF m(x) < 0 THEN 1 ELSE 0)
    BY <2>5, <2>6, <2>8, <2>9
  <2> HIDE DEF won, lost
  <2>11. ASSUME rest \in G PROVE s \in G
    <3>1. iter[rest] = won(rest) - lost(rest)
      BY <2>11
    <3>2. iter[s] = won(s) - lost(s)
      BY <2>2, <2>3, <2>8, <2>9, <2>10, <3>1
    <3> QED BY <3>2
  <2> HIDE DEF G
  <2> QED BY <2>1, <2>11 DEF rest
<1>6. S \in G
  <2> HIDE DEF G
  <2> QED BY <1>4, <1>5, SubsetInduction
<1> HIDE DEF won, lost
<1>7. iter[S] = won(S) - lost(S)
  BY <1>6
<1> QED BY <1>3, <1>7 DEF won, lost

-----------------------------------------------------------------------------
(* The inductive invariant: each of n threads has counted its games, one   *)
(* in n, up to the next it will play.                                      *)

Owned(n, t) == {i \in DOMAIN duels : i % n = t}

Playing(n) ==
  /\ n \in Nat \ {0} /\ games \in Nat
  /\ turn \in [0 .. n - 1 -> Nat]
  /\ \A t \in 0 .. n - 1 : turn[t] % n = t
  /\ partials \in [0 .. n - 1 -> ResultType]
  /\ result = [NoResult EXCEPT !.games = games]
  /\ DOMAIN duels = {i \in 0 .. games - 1 : i < turn[i % n]}
  /\ \A i \in DOMAIN duels : duels[i] \in {-1, 0, 1}
  /\ \A t \in 0 .. n - 1 : /\ partials[t].games = 0
                          /\ CountsOf(partials[t], duels, Owned(n, t))

EvaluationIInv ==
  /\ phase \in {"idle", "plays", "done"}
  /\ phase = "plays" => \E n \in Nat : Playing(n)
  /\ ResultIsOfTheGames

\* A result that counts all games is theirs.
ResultOf(r, d, g) ==
  LET played == 0 .. g - 1
  IN  /\ DOMAIN d = played /\ r.games = g
      /\ r.wins = Cardinality(WonOf(d, played))
      /\ r.losses = Cardinality(LostOf(d, played))
      /\ r.draws = Cardinality(DrawnOf(d, played))
      /\ \A s \in 1 .. 2 : /\ r.gamesAs[s] = Cardinality(SideOf(played, s))
                           /\ r.winsAs[s] = Cardinality(WonOf(d, SideOf(played, s)))
      /\ r.margin = SumFunction([i \in played |-> IF i % 2 = 0 THEN d[i] ELSE -d[i]])

LEMMA ResultIs ==
  ASSUME phase = "done" => ResultOf(result, duels, games)
  PROVE  ResultIsOfTheGames
  BY DEF ResultIsOfTheGames, ResultOf, WonOf, LostOf, DrawnOf, SideOf, CandidateWon,
         CandidateLost

LEMMA ResultIsNext ==
  ASSUME phase' = "done" => ResultOf(result', duels', games')
  PROVE  ResultIsOfTheGames'
  BY DEF ResultIsOfTheGames, ResultOf, WonOf, LostOf, DrawnOf, SideOf, CandidateWon,
         CandidateLost

LEMMA CountsAll ==
  ASSUME NEW g \in Nat, NEW d, DOMAIN d = 0 .. g - 1,
         \A i \in DOMAIN d : d[i] \in {-1, 0, 1},
         NEW r, r.games = g, CountsOf(r, d, 0 .. g - 1)
  PROVE  ResultOf(r, d, g)
<1> DEFINE played == 0 .. g - 1
<1>1. IsFiniteSet(played) /\ played \subseteq Nat
  BY FS_Interval
<1>2. \A i \in played : d[i] \in {-1, 0, 1}
  OBVIOUS
<1>3. SumFunction([i \in played |-> IF i % 2 = 0 THEN d[i] ELSE -d[i]])
        = Cardinality(WonOf(d, played)) - Cardinality(LostOf(d, played))
  <2> HIDE DEF played
  <2> QED BY <1>1, <1>2, MarginsAddUp
<1> QED BY <1>3 DEF CountsOf, ResultOf

-----------------------------------------------------------------------------
(* One lemma for each action.                                              *)

LEMMA UpTo ==
  ASSUME NEW g \in Nat
  PROVE  IsFiniteSet(0 .. g - 1) /\ Cardinality(0 .. g - 1) = g
  BY FS_Interval

LEMMA EvalInitIs == EvalInit => EvaluationIInv
<1> SUFFICES ASSUME EvalInit PROVE EvaluationIInv
  OBVIOUS
<1>1. phase = "idle"
  BY DEF EvalInit
<1>2. ResultIsOfTheGames
  BY <1>1, ResultIs
<1> QED BY <1>1, <1>2 DEF EvaluationIInv

LEMMA FreshResult ==
  ASSUME NEW g \in Int, NEW d
  PROVE  LET r == [NoResult EXCEPT !.games = g] IN CountsOf(r, d, {}) /\ r.games = g
<1> DEFINE r == [NoResult EXCEPT !.games = g]
<1>1. /\ r.games = g /\ r.wins = NoResult.wins /\ r.losses = NoResult.losses
      /\ r.draws = NoResult.draws /\ r.margin = NoResult.margin
      /\ r.winsAs = NoResult.winsAs /\ r.gamesAs = NoResult.gamesAs
  BY DEF NoResult
<1>2. CountsOf(NoResult, d, {})
  BY CountsNothing
<1>3. r \in ResultType
  BY <1>2 DEF CountsOf, ResultType
<1> HIDE DEF r
<1> QED BY <1>1, <1>2, <1>3 DEF CountsOf, r

LEMMA BeginKeeps ==
  ASSUME EvaluationIInv, NEW number \in 0 .. MaxEvalGames,
         NEW threads \in -1 .. number + 1, Begin(number, threads)
  PROVE  EvaluationIInv'
<1> DEFINE n == Threads(threads, number)
<1>1. number \in Nat /\ threads \in Int
  BY EvaluationAssumption
<1>2. /\ games' = number /\ result' = [NoResult EXCEPT !.games = number] /\ duels' = <<>>
      /\ number <= 0 => phase' = "done"
      /\ number > 0 => /\ phase' = "plays"
                       /\ turn' = [t \in 0 .. n - 1 |-> t]
                       /\ partials' = [t \in 0 .. n - 1 |-> NoResult]
  BY <1>1 DEF Begin
<1>3. DOMAIN duels' = {}
  BY <1>2
<1>4. CASE number = 0
  <2>1. 0 .. number - 1 = {}
    BY <1>4
  <2>2. CountsOf(result', duels', 0 .. number - 1) /\ result'.games = number
    BY <1>1, <1>2, <2>1, FreshResult
  <2>3. DOMAIN duels' = 0 .. number - 1 /\ \A i \in DOMAIN duels' : duels'[i] \in {-1, 0, 1}
    BY <1>3, <2>1
  <2>4. ResultOf(result', duels', games')
    BY <1>1, <1>2, <2>2, <2>3, CountsAll
  <2>5. ResultIsOfTheGames'
    BY <2>4, ResultIsNext
  <2> QED BY <1>1, <1>2, <1>4, <2>5 DEF EvaluationIInv
<1>5. CASE number # 0
  <2>1. n \in Nat \ {0}
    BY <1>1, <1>5 DEF Threads
  <2>2. phase' = "plays" /\ turn' = [t \in 0 .. n - 1 |-> t]
        /\ partials' = [t \in 0 .. n - 1 |-> NoResult]
    BY <1>1, <1>2, <1>5
  <2> HIDE DEF n
  <2>3. turn' \in [0 .. n - 1 -> Nat] /\ \A t \in 0 .. n - 1 : turn'[t] = t
    BY <2>1, <2>2
  <2>4. \A t \in 0 .. n - 1 : t % n = t
    BY <2>1
  <2>5. \A t \in 0 .. n - 1 : turn'[t] % n = t
    BY <2>3, <2>4
  <2>6. NoResult \in ResultType /\ NoResult.games = 0 /\ CountsOf(NoResult, duels', {})
    BY CountsNothing DEF CountsOf
  <2>7. Owned(n, 0)' = {} /\ \A t : Owned(n, t)' = {}
    BY <1>3 DEF Owned
  <2>8. \A t \in 0 .. n - 1 : partials'[t] = NoResult
    BY <2>2
  <2>9. partials' \in [0 .. n - 1 -> ResultType]
    BY <2>2, <2>6
  <2>10. \A t \in 0 .. n - 1 : /\ partials'[t].games = 0
                               /\ CountsOf(partials'[t], duels', Owned(n, t)')
    BY <2>6, <2>7, <2>8
  <2>11. {i \in 0 .. number - 1 : i < turn'[i % n]} = {}
    <3> SUFFICES ASSUME NEW i \in 0 .. number - 1, i < turn'[i % n] PROVE FALSE
      OBVIOUS
    <3>1. i \in Nat
      BY <1>1
    <3>2. i % n \in 0 .. n - 1 /\ i \div n \in Nat /\ i = (i \div n) * n + (i % n)
      BY <2>1, <3>1, RemainderIs
    <3>3. turn'[i % n] = i % n
      BY <2>3, <3>2
    <3>4. (i \div n) * n >= 0
      BY <2>1, <3>2
    <3> QED BY <3>1, <3>2, <3>3, <3>4, <2>1
  <2>12. Playing(n)'
    BY <1>1, <1>2, <1>3, <2>1, <2>3, <2>5, <2>9, <2>10, <2>11 DEF Playing
  <2>13. ResultIsOfTheGames'
    BY <2>2, ResultIsNext
  <2> QED BY <2>1, <2>2, <2>12, <2>13 DEF EvaluationIInv
<1> QED BY <1>4, <1>5

LEMMA PlayOneKeeps ==
  ASSUME EvaluationIInv, NEW t \in DOMAIN turn, PlayOne(t)
  PROVE  EvaluationIInv'
<1>1. phase = "plays" /\ phase' = "plays" /\ games' = games /\ result' = result
      /\ turn[t] < games /\ turn' = [turn EXCEPT ![t] = Stride(@)]
  BY DEF PlayOne
<1>2. PICK n \in Nat : Playing(n)
  BY <1>1 DEF EvaluationIInv
<1>3. PICK duel \in {-1, 0, 1} :
         /\ partials' = [partials EXCEPT ![t] = Scored(@, turn[t], duel)]
         /\ duels' = [j \in DOMAIN duels \cup {turn[t]} |->
                          IF j = turn[t] THEN duel ELSE duels[j]]
  BY DEF PlayOne
<1>4. /\ n \in Nat \ {0} /\ n > 0 /\ games \in Nat
      /\ turn \in [0 .. n - 1 -> Nat] /\ t \in 0 .. n - 1
      /\ \A u \in 0 .. n - 1 : turn[u] % n = u
      /\ partials \in [0 .. n - 1 -> ResultType]
      /\ result = [NoResult EXCEPT !.games = games]
      /\ DOMAIN duels = {i \in 0 .. games - 1 : i < turn[i % n]}
      /\ \A i \in DOMAIN duels : duels[i] \in {-1, 0, 1}
      /\ \A u \in 0 .. n - 1 : /\ partials[u].games = 0
                               /\ CountsOf(partials[u], duels, Owned(n, u))
  BY <1>2 DEF Playing
<1> DEFINE i == turn[t]
<1>5. i \in Nat /\ i % n = t /\ i \in 0 .. games - 1 /\ i \notin DOMAIN duels
  BY <1>1, <1>4
<1>6. Cardinality(DOMAIN turn) = n
  <2>1. DOMAIN turn = 0 .. n - 1
    BY <1>4
  <2>2. Cardinality(0 .. n - 1) = n
    BY <1>4, UpTo
  <2> QED BY <2>1, <2>2
<1> HIDE DEF i
<1>7. turn' = [turn EXCEPT ![t] = i + n]
  BY <1>1, <1>6 DEF Stride, i
<1>8. /\ turn' \in [0 .. n - 1 -> Nat] /\ turn'[t] = i + n
      /\ \A u \in 0 .. n - 1 : u # t => turn'[u] = turn[u]
  BY <1>4, <1>5, <1>7
<1>9. (i + n) % n = t
  BY <1>4, <1>5, StrideKeepsThread
<1>10. \A u \in 0 .. n - 1 : turn'[u] % n = u
  BY <1>4, <1>8, <1>9
<1>11. /\ DOMAIN duels' = DOMAIN duels \cup {i} /\ duels'[i] = duel
       /\ \A j \in DOMAIN duels : duels'[j] = duels[j]
  BY <1>3, <1>5 DEF i
<1>12. \A j \in DOMAIN duels' : duels'[j] \in {-1, 0, 1}
  BY <1>4, <1>11
<1>13. DOMAIN duels' = {j \in 0 .. games' - 1 : j < turn'[j % n]}
  <2>1. ASSUME NEW j \in 0 .. games - 1
        PROVE  j < turn'[j % n] <=> (j < turn[j % n] \/ j = i)
    <3>0. j \in Nat
      BY <1>4
    <3>1. j \in Nat /\ j % n \in 0 .. n - 1
      BY <1>4, <3>0, RemainderIs
    <3>2. CASE j % n # t
      BY <1>5, <1>8, <3>1, <3>2
    <3>3. CASE j % n = t
      <4>1. turn'[j % n] = i + n /\ turn[j % n] = i
        BY <1>8, <3>3 DEF i
      <4>2. i <= j /\ j < i + n => j = i
        BY <1>4, <1>5, <3>1, <3>3, SameThread
      <4> QED BY <1>4, <1>5, <3>1, <4>1, <4>2
    <3> QED BY <3>2, <3>3
  <2> QED BY <1>1, <1>4, <1>5, <1>11, <2>1
<1>14. /\ Owned(n, t)' = Owned(n, t) \cup {i} /\ i \notin Owned(n, t)
       /\ \A u \in 0 .. n - 1 : u # t => Owned(n, u)' = Owned(n, u)
       /\ \A u : \A j \in Owned(n, u) : duels'[j] = duels[j]
  BY <1>5, <1>11 DEF Owned
<1>15. \A u : IsFiniteSet(Owned(n, u))
  <2>1. IsFiniteSet(0 .. games - 1)
    BY <1>4, UpTo
  <2>2. \A u : Owned(n, u) \subseteq 0 .. games - 1
    BY <1>4 DEF Owned
  <2> QED BY <2>1, <2>2, FS_Subset
<1> DEFINE p == Scored(partials[t], i, duel)
<1>16. CountsOf(p, duels', Owned(n, t) \cup {i}) /\ p.games = 0
  <2>1. CountsOf(partials[t], duels, Owned(n, t)) /\ partials[t].games = 0
    BY <1>4
  <2> DEFINE own == Owned(n, t)
             d == duels
             e == duels'
  <2>2. /\ IsFiniteSet(own) /\ i \notin own /\ e[i] = duel
        /\ \A j \in own : e[j] = d[j]
    BY <1>11, <1>14, <1>15
  <2> HIDE DEF own, d, e
  <2>3. CountsOf(partials[t], d, own)
    BY <2>1 DEF own, d
  <2>4. OneMoreGame(d, e, own, i, duel, partials[t])
    BY <1>5, <2>1, <2>2, <2>3 DEF OneMoreGame
  <2>5. CountsOf(p, e, own \cup {i}) /\ p.games = 0
    BY <2>4, CountsOneMore
  <2> QED BY <2>5 DEF own, e
<1>17. p \in ResultType
  BY <1>16 DEF CountsOf
<1>18. partials' = [partials EXCEPT ![t] = p]
  BY <1>3 DEF i
<1> HIDE DEF p
<1>19. /\ partials' \in [0 .. n - 1 -> ResultType] /\ partials'[t] = p
       /\ \A u \in 0 .. n - 1 : u # t => partials'[u] = partials[u]
  BY <1>4, <1>17, <1>18
<1>20. ASSUME NEW u \in 0 .. n - 1
       PROVE  /\ partials'[u].games = 0
              /\ CountsOf(partials'[u], duels', Owned(n, u)')
  <2>1. CASE u = t
    BY <1>14, <1>16, <1>19, <2>1
  <2>2. CASE u # t
    <3>1. /\ partials'[u] = partials[u] /\ Owned(n, u)' = Owned(n, u)
          /\ CountsOf(partials[u], duels, Owned(n, u)) /\ partials[u].games = 0
      BY <1>4, <1>14, <1>19, <2>2
    <3>2. \A j \in Owned(n, u) : duels'[j] = duels[j]
      BY <1>14
    <3>3. /\ WonOf(duels', Owned(n, u)) = WonOf(duels, Owned(n, u))
          /\ LostOf(duels', Owned(n, u)) = LostOf(duels, Owned(n, u))
          /\ DrawnOf(duels', Owned(n, u)) = DrawnOf(duels, Owned(n, u))
      BY <3>2 DEF WonOf, LostOf, DrawnOf
    <3>4. \A k : WonOf(duels', SideOf(Owned(n, u), k)) = WonOf(duels, SideOf(Owned(n, u), k))
      BY <3>2 DEF WonOf, SideOf
    <3>5. CountsOf(partials[u], duels', Owned(n, u))
      BY <3>1, <3>3, <3>4 DEF CountsOf
    <3> QED BY <3>1, <3>5
  <2> QED BY <2>1, <2>2
<1>21. Playing(n)'
  BY <1>1, <1>4, <1>8, <1>10, <1>12, <1>13, <1>19, <1>20 DEF Playing
<1>22. ResultIsOfTheGames'
  BY <1>1, ResultIsNext
<1> QED BY <1>1, <1>2, <1>21, <1>22 DEF EvaluationIInv

LEMMA MergeKeeps ==
  ASSUME EvaluationIInv, Merge
  PROVE  EvaluationIInv'
<1>1. /\ phase = "plays" /\ phase' = "done" /\ games' = games /\ duels' = duels
      /\ \A t \in DOMAIN turn : turn[t] >= games
      /\ result' = FoldFunction(Merged, result, partials)
  BY DEF Merge
<1>2. PICK n \in Nat : Playing(n)
  BY <1>1 DEF EvaluationIInv
<1>3. /\ n \in Nat \ {0} /\ n > 0 /\ games \in Nat
      /\ turn \in [0 .. n - 1 -> Nat]
      /\ partials \in [0 .. n - 1 -> ResultType]
      /\ result = [NoResult EXCEPT !.games = games]
      /\ DOMAIN duels = {i \in 0 .. games - 1 : i < turn[i % n]}
      /\ \A i \in DOMAIN duels : duels[i] \in {-1, 0, 1}
      /\ \A u \in 0 .. n - 1 : /\ partials[u].games = 0
                               /\ CountsOf(partials[u], duels, Owned(n, u))
  BY <1>2 DEF Playing
<1>4. DOMAIN duels = 0 .. games - 1
  <2>1. \A i \in 0 .. games - 1 : i \in Nat /\ i % n \in 0 .. n - 1
    BY <1>3, RemainderIs
  <2>2. DOMAIN turn = 0 .. n - 1
    BY <1>3
  <2>3. \A i \in 0 .. games - 1 : i < turn[i % n]
    BY <1>1, <1>3, <2>1, <2>2
  <2> QED BY <1>3, <2>3
<1> DEFINE T == 0 .. n - 1
           own == [t \in T |-> Owned(n, t)]
<1>5. IsFiniteSet(T)
  BY <1>3, UpTo
<1>6. \A t \in T : IsFiniteSet(own[t])
  <2>1. IsFiniteSet(0 .. games - 1)
    BY <1>3, UpTo
  <2>2. \A u : Owned(n, u) \subseteq 0 .. games - 1
    BY <1>4 DEF Owned
  <2> QED BY <2>1, <2>2, FS_Subset
<1>7. \A t \in T : CountsOf(partials[t], duels, own[t]) /\ partials[t].games = 0
  BY <1>3
<1>8. \A t, u \in T : t # u => own[t] \cap own[u] = {}
  BY DEF Owned
<1>9. UNION {own[t] : t \in T} = 0 .. games - 1
  <2>1. \A i \in 0 .. games - 1 : i % n \in T /\ i \in own[i % n]
    <3>1. \A i \in 0 .. games - 1 : i \in Nat /\ i % n \in T
      BY <1>3, RemainderIs
    <3> QED BY <1>4, <3>1 DEF Owned
  <2>2. \A t \in T : own[t] \subseteq 0 .. games - 1
    BY <1>4 DEF Owned
  <2> HIDE DEF T, own
  <2> QED BY <2>1, <2>2
<1>10. CountsOf(result, duels, {}) /\ result.games = games
  BY <1>3, FreshResult
<1> HIDE DEF own
<1> DEFINE r == FoldFunction(Merged, result, partials)
<1>11. partials \in [T -> ResultType]
  BY <1>3
<1> HIDE DEF T
<1>12. CountsOf(r, duels, UNION {own[t] : t \in T}) /\ r.games = result.games
  <2>1. PartsCount(T, partials, duels, own, result)
    BY <1>5, <1>6, <1>7, <1>8, <1>10, <1>11 DEF PartsCount
  <2> QED BY <2>1, MergedCounts
<1> HIDE DEF r
<1>13. CountsOf(r, duels, 0 .. games - 1) /\ r.games = games
  BY <1>9, <1>10, <1>12
<1>14. ResultOf(r, duels, games)
  BY <1>3, <1>4, <1>13, CountsAll
<1>15. ResultOf(result', duels', games')
  BY <1>1, <1>14 DEF r
<1>16. ResultIsOfTheGames'
  BY <1>15, ResultIsNext
<1> QED BY <1>1, <1>16 DEF EvaluationIInv

LEMMA EvalStutterKeeps ==
  ASSUME EvaluationIInv, UNCHANGED evalVars
  PROVE  EvaluationIInv'
<1>1. /\ phase' = phase /\ games' = games /\ turn' = turn /\ partials' = partials
      /\ result' = result /\ duels' = duels
  BY DEF evalVars
<1>2. ASSUME NEW n, Playing(n) PROVE Playing(n)'
  BY <1>1, <1>2 DEF Playing, Owned
<1>3. ResultIsOfTheGames'
  BY <1>1 DEF EvaluationIInv, ResultIsOfTheGames, CandidateWon, CandidateLost
<1> QED BY <1>1, <1>2, <1>3 DEF EvaluationIInv

-----------------------------------------------------------------------------
(* The theorems.                                                           *)

(* The inductive invariant of an evaluation: each thread has counted its     *)
(* own games, one in as many as there are threads.                           *)
THEOREM EvaluationInvariant == EvalSpec => []EvaluationIInv
<1>1. EvalInit => EvaluationIInv
  BY EvalInitIs
<1>2. EvaluationIInv /\ [EvalNext]_evalVars => EvaluationIInv'
  <2> SUFFICES ASSUME EvaluationIInv, [EvalNext]_evalVars PROVE EvaluationIInv'
    OBVIOUS
  <2>1. ASSUME NEW number \in 0 .. MaxEvalGames, NEW threads \in -1 .. number + 1,
               Begin(number, threads)
        PROVE  EvaluationIInv'
    BY <2>1, BeginKeeps
  <2>2. ASSUME NEW t \in DOMAIN turn, PlayOne(t) PROVE EvaluationIInv'
    BY <2>2, PlayOneKeeps
  <2>3. CASE Merge
    BY <2>3, MergeKeeps
  <2>4. CASE UNCHANGED evalVars
    BY <2>4, EvalStutterKeeps
  <2> QED BY <2>1, <2>2, <2>3, <2>4 DEF EvalNext
<1> QED BY <1>1, <1>2, PTL DEF EvalSpec

(* However many games an evaluation has, over however many threads they are  *)
(* spread and however the threads take turns, its result is that of its      *)
(* games: none is skipped or counted twice, and each is scored from the side *)
(* the candidate played it on.                                               *)
THEOREM EvaluationAddsUp == EvalSpec => []ResultIsOfTheGames
<1>1. EvaluationIInv => ResultIsOfTheGames
  BY DEF EvaluationIInv
<1> QED BY <1>1, EvaluationInvariant, PTL
=============================================================================
