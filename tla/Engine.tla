------------------------------- MODULE Engine -------------------------------
(***************************************************************************)
(* The rules engine (src/engine/): one game of `NumPlayers' players on     *)
(* score sheets of `Columns' by `Rows'.  The board is the truth;           *)
(* GameContext is derived data that every placement updates in place       *)
(* (apply_placement, update_legal_placements_after_move).  The module has  *)
(* the board, the context, the turn (dice, rolls left, whose turn), one    *)
(* action per call a player makes, and beside them the operators that      *)
(* compute the context from scratch (context_rebuild.cc).                  *)
(*                                                                         *)
(* The number of rows, the columns and the throws are parameters, so that  *)
(* small sheets can be checked; the program's sheet has the six columns    *)
(* and 13 rows with Row6s = 5.  A throw is scored by Raw, the table of     *)
(* Dice.tla.  The set of legal cells is a set here: LegalCache.tla shows   *)
(* that LegalPlacementCache implements one.                                *)
(***************************************************************************)
EXTENDS Integers, FiniteSets, FiniteSetsExt, Functions, Duel

CONSTANTS
  NumPlayers,   \* Traits::kNumPlayers
  Columns,      \* the kinds of column on a sheet
  NumRows,      \* kNumRows
  Row6s,        \* the last number row; the two sums follow it
  Rolls,        \* the throws
  Yams,         \* those of five equal dice
  Raw,          \* Raw[d][r]: the dice score of throw d in row r
  Possible,     \* Possible[r]: the non-zero scores some throw has in row r
  Bonus,        \* Bonus[r]: the scores a first-roll yams tries in row r
  YamsRule      \* GameRules::yams_first_roll_bonus

Players == 0..(NumPlayers - 1)
Rows == 0..(NumRows - 1)
RowSS == Row6s + 1
RowLS == Row6s + 2
Kinds == {"Down", "Free", "Up", "Mid", "Turbo", "UpDown"}

ASSUME SheetAssumption ==
  /\ NumPlayers \in Nat \ {0}
  /\ Columns \subseteq Kinds
  /\ Columns # {}
  /\ NumRows \in Nat
  /\ Row6s \in Nat
  /\ RowLS < NumRows

ASSUME ScoreAssumption ==
  /\ Rolls # {}
  /\ Yams \subseteq Rolls
  /\ Possible \in [Rows -> SUBSET (1..100)]
  /\ Raw \in [Rolls -> [Rows -> Nat]]
  /\ \A d \in Rolls, r \in Rows : Raw[d][r] \in Possible[r] \union {0}
  /\ Bonus \in [Rows -> SUBSET (1..100)]
  /\ \A r \in Rows : Bonus[r] \subseteq Possible[r]
  /\ YamsRule \in BOOLEAN

Empty == -1   \* kCellEmpty

TotalCells == NumPlayers * Cardinality(Columns) * NumRows

VARIABLES
  cells,        \* BoardState::cells
  cellsFilled,  \* BoardState::cells_filled
  mover,        \* BoardState::current_player
  golden,       \* GameContext::golden_max
  upper,        \* GameContext::upper_sum
  ssScratched,
  lsScratched,
  lowScratch,   \* GameContext::lower_has_scratch
  nonTurbo,     \* GameContext::non_turbo_cells_remaining
  legalAll,
  legalNoTurbo,
  dice,
  rollsLeft

boardVars == <<cells, cellsFilled, mover>>
ctxVars == <<golden, upper, ssScratched, lsScratched, lowScratch, nonTurbo,
             legalAll, legalNoTurbo>>
vars == <<boardVars, ctxVars, dice, rollsLeft>>

-----------------------------------------------------------------------------
(* Cells and columns. *)

IsFilled(b, p, c, r) == b[p][c][r] # Empty

\* The next and the previous row; the sheet is circular.
After(r) == IF r = NumRows - 1 THEN 0 ELSE r + 1
Before(r) == IF r = 0 THEN NumRows - 1 ELSE r - 1

\* Mutant of HasFilledNeighbor: only the row above counts.
HasFilledAbove(b, p, c, r) == r > 0 /\ IsFilled(b, p, c, r - 1)

HasFilledNeighbor(b, p, c, r) ==
  IsFilled(b, p, c, Before(r)) \/ IsFilled(b, p, c, After(r))

IsUntouched(b, p, c) == \A r \in Rows : ~IsFilled(b, p, c, r)

\* is_column_legal(), for a cell that is empty.
IsColumnLegal(b, p, c, r) ==
  CASE c = "Down"   -> \A q \in Rows : q < r => IsFilled(b, p, c, q)
    [] c = "Up"     -> \A q \in Rows : q > r => IsFilled(b, p, c, q)
    [] c = "Mid"    -> IF IsUntouched(b, p, c) THEN r \in {Row6s, RowSS}
                       ELSE HasFilledNeighbor(b, p, c, r)
    [] c = "UpDown" -> IsUntouched(b, p, c) \/ HasFilledNeighbor(b, p, c, r)
    [] OTHER        -> TRUE

-----------------------------------------------------------------------------
(* The context computed from the board (rebuild_context_from_board).       *)

EmptyRows(b, p, c) == {r \in Rows : ~IsFilled(b, p, c, r)}

RebuiltGolden(b) ==
  [c \in Columns |-> [r \in Rows |->
     Max({0} \union {b[p][c][r] : p \in Players})]]

RebuiltUpper(b) ==
  [p \in Players |-> [c \in Columns |->
     SumFunction([r \in 0..Row6s |-> Max({0, b[p][c][r]})])]]

\* A row of each player and column scratched: SS, LS, any row from SS down.
RebuiltScratch(b, rows) ==
  [p \in Players |-> [c \in Columns |-> \E r \in rows : b[p][c][r] = 0]]

LowerRows == RowSS..(NumRows - 1)

RebuiltNonTurbo(b) ==
  [p \in Players |->
     Cardinality({x \in (Columns \ {"Turbo"}) \X Rows :
                    ~IsFilled(b, p, x[1], x[2])})]

RebuiltLegal(b, p) ==
  {x \in Columns \X Rows :
     ~IsFilled(b, p, x[1], x[2]) /\ IsColumnLegal(b, p, x[1], x[2])}

NoTurbo(legal) == {x \in legal : x[1] # "Turbo"}

-----------------------------------------------------------------------------
(* Scores. *)

\* Mutant of Accepts: a small sum may equal the player's large sum.
AcceptsEqualSums(p, c, r, raw) ==
  /\ raw # 0
  /\ raw >= golden[c][r]
  /\ r = RowSS => /\ ~lsScratched[p][c]
                  /\ cells[p][c][RowLS] \notin {Empty, 0} => raw <= cells[p][c][RowLS]
  /\ r = RowLS => /\ ~ssScratched[p][c]
                  /\ golden[c][RowSS] > 0 => raw > golden[c][RowSS]

\* validate_score(): whether a raw score counts, or the cell is scratched.
Accepts(p, c, r, raw) ==
  /\ raw # 0
  /\ raw >= golden[c][r]
  /\ r = RowSS => /\ ~lsScratched[p][c]
                  /\ cells[p][c][RowLS] \notin {Empty, 0} => raw < cells[p][c][RowLS]
  /\ r = RowLS => /\ ~ssScratched[p][c]
                  /\ golden[c][RowSS] > 0 => raw > golden[c][RowSS]

\* calculate_score() for throw d
Score(p, c, r, d) == IF Accepts(p, c, r, Raw[d][r]) THEN Raw[d][r] ELSE 0

\* calculate_yams_bonus_score(): the highest candidate that counts.
BonusScore(p, c, r) ==
  LET ok == {s \in Bonus[r] : Accepts(p, c, r, s)}
  IN  IF ok = {} THEN 0 ELSE Max(ok)

\* Mutant of SolverScores: a small sum may equal the large sum.
SolverScoresEqualSums(p, c, r) ==
  IF \/ r = RowSS /\ lsScratched[p][c]
     \/ r = RowLS /\ ssScratched[p][c]
  THEN {}
  ELSE {s \in Possible[r] :
          /\ s >= golden[c][r]
          /\ ~(r = RowSS /\ cells[p][c][RowLS] > 0 /\ s > cells[p][c][RowLS])
          /\ ~(r = RowLS /\ golden[c][RowSS] > 0 /\ s <= golden[c][RowSS])}

\* solver_get_requests(): the scores the solver has an afterstate for.
SolverScores(p, c, r) ==
  IF \/ r = RowSS /\ lsScratched[p][c]
     \/ r = RowLS /\ ssScratched[p][c]
  THEN {}
  ELSE {s \in Possible[r] :
          /\ s >= golden[c][r]
          /\ ~(r = RowSS /\ cells[p][c][RowLS] > 0 /\ s >= cells[p][c][RowLS])
          /\ ~(r = RowLS /\ golden[c][RowSS] > 0 /\ s <= golden[c][RowSS])}

\* solver_resolve(): the afterstate it takes for throw d, or the scratch.
SolverScore(p, c, r, d) ==
  IF Raw[d][r] \in SolverScores(p, c, r) THEN Raw[d][r] ELSE 0

-----------------------------------------------------------------------------
(* The duel (compute_duel_columns), read from the board and the context.   *)

\* Traits::kTeam0 and kTeam1: neighbours at the table are opponents.
Team(i) == {p \in Players : p % 2 = i}

RawColumn(p, c) ==
  SumFunction([r \in Rows |-> Max({0, cells[p][c][r]})]) + UpperSectionBonus(upper[p][c])

IsClean(p, c) == upper[p][c] >= CleanFrom /\ ~lowScratch[p][c]

\* The margin of team 0 in a column: every pairing of the two teams counts.
ColumnMargin(c) ==
  SumFunction([x \in Team(0) \X Team(1) |->
                 PairingPoints(RawColumn(x[1], c), IsClean(x[1], c),
                               RawColumn(x[2], c), IsClean(x[2], c))])

-----------------------------------------------------------------------------
(* The turn. *)

\* init_board, init_context, start_turn
Init ==
  /\ cells = [p \in Players |-> [c \in Columns |-> [r \in Rows |-> Empty]]]
  /\ cellsFilled = 0
  /\ mover \in Players
  /\ golden = [c \in Columns |-> [r \in Rows |-> 0]]
  /\ upper = [p \in Players |-> [c \in Columns |-> 0]]
  /\ ssScratched = [p \in Players |-> [c \in Columns |-> FALSE]]
  /\ lsScratched = ssScratched
  /\ lowScratch = ssScratched
  /\ nonTurbo = [p \in Players |-> NumRows * Cardinality(Columns \ {"Turbo"})]
  /\ legalAll = [p \in Players |-> RebuiltLegal(cells, p)]
  /\ legalNoTurbo = [p \in Players |-> NoTurbo(RebuiltLegal(cells, p))]
  /\ dice \in Rolls
  /\ rollsLeft = 2

IsTerminal == cellsFilled >= TotalCells

YamsBonusActive == YamsRule /\ rollsLeft = 2 /\ dice \in Yams

CanReroll == rollsLeft > 0 /\ ~(rollsLeft = 1 /\ nonTurbo[mover] = 0)

LegalPlacements ==
  IF rollsLeft > 0 \/ legalNoTurbo[mover] = {}
  THEN legalAll[mover] ELSE legalNoTurbo[mover]

\* perform_reroll(); its callers ask can_reroll() first.  Whatever dice are
\* held, the throw is one of Rolls.
Reroll ==
  /\ ~IsTerminal
  /\ CanReroll
  /\ rollsLeft' = rollsLeft - 1
  /\ dice' \in Rolls
  /\ UNCHANGED <<boardVars, ctxVars>>

-----------------------------------------------------------------------------
(* apply_placement(): player p writes s into cell (c, r). *)

Partner(r) == IF r = RowSS THEN RowLS ELSE RowSS

\* A scratched sum scratches the other one, if that has a score.
Destroys(p, c, r, s) ==
  /\ r \in {RowSS, RowLS}
  /\ s = 0
  /\ cells[p][c][Partner(r)] \notin {Empty, 0}

CellsAfter(p, c, r, s) ==
  [cells EXCEPT ![p][c] =
     [q \in Rows |-> IF q = r THEN s
                     ELSE IF q = Partner(r) /\ Destroys(p, c, r, s) THEN 0
                     ELSE cells[p][c][q]]]

\* Mutant of GoldenAfter: the destroyed score still counts.
GoldenNotRecomputed(p, c, r, s) ==
  [golden EXCEPT ![c][r] = Max({s, @})]

\* recalc_golden_max() for the destroyed cell, a running maximum for the other.
GoldenAfter(p, c, r, s) ==
  [golden EXCEPT ![c] =
     [q \in Rows |->
        IF q = r THEN Max({s, golden[c][q]})
        ELSE IF q = Partner(r) /\ Destroys(p, c, r, s)
             THEN RebuiltGolden(CellsAfter(p, c, r, s))[c][q]
        ELSE golden[c][q]]]

\* Mutant of LegalAfter: the neighbours do not wrap around the sheet.
LegalAfterStraight(legal, b, p, c, r) ==
  LET rest == legal \ {<<c, r>>}
      Opens(q) == IF q \in Rows /\ ~IsFilled(b, p, c, q) THEN {<<c, q>>} ELSE {}
  IN  CASE c = "Down" -> rest \union Opens(r + 1)
        [] c = "Up"   -> rest \union Opens(r - 1)
        [] c \in {"Mid", "UpDown"} ->
             {x \in rest : x[1] # c}
               \union {<<c, q>> : q \in {w \in EmptyRows(b, p, c) :
                          \E v \in {w - 1, w + 1} \intersect Rows : IsFilled(b, p, c, v)}}
        [] OTHER -> rest

\* update_legal_placements_after_move() on one of the two caches; b is the
\* board after the move.
LegalAfter(legal, b, p, c, r) ==
  LET rest == legal \ {<<c, r>>}
      Opens(q) == IF q \in Rows /\ ~IsFilled(b, p, c, q) THEN {<<c, q>>} ELSE {}
  IN  CASE c = "Down" -> rest \union Opens(r + 1)
        [] c = "Up"   -> rest \union Opens(r - 1)
        [] c \in {"Mid", "UpDown"} ->
             {x \in rest : x[1] # c}
               \union {<<c, q>> : q \in {w \in EmptyRows(b, p, c) :
                                           HasFilledNeighbor(b, p, c, w)}}
        [] OTHER -> rest

\* Whether the move scratches a sum, itself or through the other one.
Scratches(sum, p, c, r, s) ==
  \/ r = sum /\ s = 0
  \/ r = Partner(sum) /\ Destroys(p, c, r, s)

ApplyPlacement(p, c, r, s) ==
  /\ cells' = CellsAfter(p, c, r, s)
  /\ cellsFilled' = cellsFilled + 1
  /\ golden' = GoldenAfter(p, c, r, s)
  /\ upper' = [upper EXCEPT ![p][c] = IF r <= Row6s THEN @ + s ELSE @]
  /\ ssScratched' = [ssScratched EXCEPT ![p][c] = @ \/ Scratches(RowSS, p, c, r, s)]
  /\ lsScratched' = [lsScratched EXCEPT ![p][c] = @ \/ Scratches(RowLS, p, c, r, s)]
  /\ lowScratch' = [lowScratch EXCEPT ![p][c] = @ \/ (r >= RowSS /\ s = 0)]
  /\ nonTurbo' = [nonTurbo EXCEPT ![p] = IF c = "Turbo" THEN @ ELSE @ - 1]
  /\ legalAll' = [legalAll EXCEPT ![p] =
       LegalAfter(@, CellsAfter(p, c, r, s), p, c, r)]
  /\ legalNoTurbo' = [legalNoTurbo EXCEPT ![p] =
       IF c = "Turbo" THEN @ ELSE LegalAfter(@, CellsAfter(p, c, r, s), p, c, r)]

\* What perform_placement() writes for the mover.
PlacedScore(c, r) ==
  IF YamsBonusActive THEN BonusScore(mover, c, r) ELSE Score(mover, c, r, dice)

Place(c, r) ==
  /\ ~IsTerminal
  /\ <<c, r>> \in LegalPlacements
  /\ ApplyPlacement(mover, c, r, PlacedScore(c, r))
  /\ IF cellsFilled' >= TotalCells
     THEN UNCHANGED <<mover, dice, rollsLeft>>
     ELSE /\ mover' = (mover + 1) % NumPlayers
          /\ rollsLeft' = 2
          /\ dice' \in Rolls

Next == Reroll \/ \E c \in Columns, r \in Rows : Place(c, r)

Spec == Init /\ [][Next]_vars

-----------------------------------------------------------------------------
(* Properties. *)

TypeOK ==
  /\ cells \in [Players -> [Columns -> [Rows -> -1..100]]]
  /\ cellsFilled \in 0..TotalCells
  /\ mover \in Players
  /\ golden \in [Columns -> [Rows -> 0..100]]
  /\ upper \in [Players -> [Columns -> Nat]]
  /\ ssScratched \in [Players -> [Columns -> BOOLEAN]]
  /\ lsScratched \in [Players -> [Columns -> BOOLEAN]]
  /\ lowScratch \in [Players -> [Columns -> BOOLEAN]]
  /\ nonTurbo \in [Players -> Nat]
  /\ legalAll \in [Players -> SUBSET (Columns \X Rows)]
  /\ legalNoTurbo \in [Players -> SUBSET (Columns \X Rows)]
  /\ dice \in Rolls
  /\ rollsLeft \in 0..2

\* The cells open to a player, which each placement updates by the kind of its
\* column, are those a rebuild from the board finds, with and without Turbo
\* (update_legal_placements_after_move against rebuild_legal_placements).
LegalIsRebuilt ==
  \A p \in Players : /\ legalAll[p] = RebuiltLegal(cells, p)
                     /\ legalNoTurbo[p] = NoTurbo(RebuiltLegal(cells, p))

\* The running maxima are the maxima of the board, also after a mutual
\* destruction took the highest score away (placement.cc:46-74 against
\* context_rebuild.cc:22-23).
GoldenIsRebuilt == golden = RebuiltGolden(cells)

\* The sums, flags and counters that placements keep are what a rebuild of the
\* context, or a count of the board, would give (apply_placement against
\* rebuild_context_from_board).
TalliesAreRebuilt ==
  /\ ssScratched = RebuiltScratch(cells, {RowSS})
  /\ lsScratched = RebuiltScratch(cells, {RowLS})
  /\ lowScratch = RebuiltScratch(cells, LowerRows)
  /\ upper = RebuiltUpper(cells)
  /\ nonTurbo = RebuiltNonTurbo(cells)
  /\ cellsFilled = Cardinality({x \in (Players \X Columns) \X Rows :
                                   IsFilled(cells, x[1][1], x[1][2], x[2])})

\* The two sums of a player's column: both filled, they are both scratched or
\* the small sum is the smaller one, in whichever order they were filled and
\* although a later scratch takes the other with it (validate_score together
\* with the mutual destruction of apply_placement).
SumsInterlock ==
  \A p \in Players, c \in Columns :
    LET ss == cells[p][c][RowSS]
        ls == cells[p][c][RowLS]
    IN  ss # Empty /\ ls # Empty => (ss = 0 /\ ls = 0) \/ (0 < ss /\ ss < ls)

\* Until the game is over the player to move has a cell to fill, after any
\* throws (is_column_legal, update_legal_placements_after_move, can_reroll).
MoverCanPlace == ~IsTerminal => LegalPlacements # {}

\* A Turbo cell is never filled after the third throw: can_reroll() keeps a
\* throw back once only Turbo cells are left, or get_legal_placements() would
\* have to fall back on them.
TurboKeepsAThrow ==
  [][ \A p \in Players, c \in Columns, r \in Rows :
        c = "Turbo" /\ cells'[p][c][r] # cells[p][c][r] => rollsLeft > 0 ]_vars

\* A score once written changes only to a scratch, and only when its owner
\* scratches the other sum of the same column in that very move.
OnlyScratchedTogether ==
  [][ \A p \in Players, c \in Columns, r \in Rows :
        IsFilled(cells, p, c, r) /\ cells'[p][c][r] # cells[p][c][r] =>
          /\ r \in {RowSS, RowLS}
          /\ cells'[p][c][r] = 0
          /\ ~IsFilled(cells, p, c, Partner(r))
          /\ cells'[p][c][Partner(r)] = 0 ]_vars

\* The Golden Rule: a score written is no lower than any score then in that box
\* of any player's sheet, teammates included.  Scores that were destroyed no
\* longer count.
GoldenRule ==
  [][ \A p \in Players, c \in Columns, r \in Rows :
        ~IsFilled(cells, p, c, r) /\ cells'[p][c][r] > 0 =>
          \A q \in Players : cells'[p][c][r] >= cells[q][c][r] ]_vars

\* The bonus of a first-roll yams is the highest score any throw could legally
\* make in that cell (scoring.cc:104-110 argues that the downward scan and, for
\* the other rows, the row maximum alone yield exactly that).
BonusIsMaxLegal ==
  \A c \in Columns, r \in Rows :
    ~IsFilled(cells, mover, c, r) =>
      BonusScore(mover, c, r) =
        Max({0} \union {s \in Possible[r] : Accepts(mover, c, r, s)})

\* The afterstate the solver evaluates for a throw and a legal cell is the one
\* the engine will reach, and it has one for the bonus score of the cell.  The
\* solver has its own copy of the rules (solver.cc against scoring.cc).
SolverAgrees ==
  \A x \in LegalPlacements :
    LET c == x[1]
        r == x[2]
    IN  /\ \A d \in Rolls : SolverScore(mover, c, r, d) = Score(mover, c, r, d)
        /\ BonusScore(mover, c, r) \in SolverScores(mover, c, r) \union {0}

\* In a Mid column, and in an UpDown column once begun, at most two cells are
\* open: the filled ones form a single run around the circular sheet.
AtMostTwoOpen ==
  \A p \in Players, c \in Columns \cap {"Mid", "UpDown"} :
    c = "Mid" \/ ~IsUntouched(cells, p, c) =>
      Cardinality({x \in legalAll[p] : x[1] = c}) <= 2

\* A score above 0 is never a loss: it cannot lower the margin of the mover's
\* team in its column, although it may end the crush of either side, change the
\* value of the clean bonus and make the column clean (duel.cc:63-97).
ScoreNeverHurts ==
  [][ \A c \in Columns :
        (\E r \in Rows : cells'[mover][c][r] > 0 /\ cells'[mover][c][r] > cells[mover][c][r])
          => IF mover \in Team(0) THEN ColumnMargin(c)' >= ColumnMargin(c)
                                   ELSE ColumnMargin(c)' <= ColumnMargin(c) ]_vars

=============================================================================
