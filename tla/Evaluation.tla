----------------------------- MODULE Evaluation -----------------------------
(***************************************************************************)
(* Evaluations (eval/evaluator.cc): a number of games of a candidate, the  *)
(* network or a heuristic, against a reference, spread over threads whose  *)
(* partial results are added up when they have all ended.                  *)
(***************************************************************************)
EXTENDS Integers, FiniteSets, FiniteSetsExt, Functions

CONSTANT MaxEvalGames   \* bound on the games of an evaluation

ASSUME EvaluationAssumption == MaxEvalGames \in Nat

VARIABLES
    phase,      \* "idle", "plays", "done"
    games,      \* num_games
    turn,       \* the next game of each thread
    partials,   \* what each thread has counted
    result,     \* what run_games_parallel() returns
    duels       \* team 0's margin in each game that has ended

evalVars == <<phase, games, turn, partials, result, duels>>

NoResult ==
    [games |-> 0, wins |-> 0, losses |-> 0, draws |-> 0, winsAs |-> <<0, 0>>,
     gamesAs |-> <<0, 0>>, margin |-> 0]

\* the seat the candidate anchors in game i: 1 for team 0, 2 for team 1
SeatOf(i) == IF i % 2 = 0 THEN 1 ELSE 2

\* compute_duel() is team 0's margin
CandidateMargin(duel, i) == IF SeatOf(i) = 1 THEN duel ELSE -duel

(* What play_one() folds into the partial result of its thread.              *)
Scored(p, i, duel) ==
    LET m    == CandidateMargin(duel, i)
        seat == SeatOf(i)
    IN  [p EXCEPT !.gamesAs[seat] = @ + 1,
                  !.margin = @ + m,
                  !.wins   = IF m > 0 THEN @ + 1 ELSE @,
                  !.winsAs[seat] = IF m > 0 THEN @ + 1 ELSE @,
                  !.losses = IF m < 0 THEN @ + 1 ELSE @,
                  !.draws  = IF m = 0 THEN @ + 1 ELSE @]

Merged(p, q) ==
    [games   |-> p.games + q.games,
     wins    |-> p.wins + q.wins, losses |-> p.losses + q.losses,
     draws   |-> p.draws + q.draws,
     winsAs  |-> [s \in 1 .. 2 |-> p.winsAs[s] + q.winsAs[s]],
     gamesAs |-> [s \in 1 .. 2 |-> p.gamesAs[s] + q.gamesAs[s]],
     margin  |-> p.margin + q.margin]

(* The number of threads a request for threads of them is clamped to.        *)
Threads(threads, number) ==
    IF threads < 1 THEN 1 ELSE IF threads > number THEN number ELSE threads

EvalInit ==
    /\ phase = "idle" /\ games = 0
    /\ turn = <<>> /\ partials = <<>> /\ duels = <<>>
    /\ result = NoResult

(* run_games_parallel(): thread t of n starts with game t, from 0, and goes  *)
(* on n games at a time.                                                     *)
Begin(number, threads) ==
    LET n == Threads(threads, number)
    IN  /\ phase = "idle"
        /\ games' = number
        /\ result' = [NoResult EXCEPT !.games = number]
        /\ IF number <= 0
           THEN phase' = "done" /\ UNCHANGED <<turn, partials>>
           ELSE /\ phase' = "plays"
                /\ turn' = [t \in 0 .. n - 1 |-> t]
                /\ partials' = [t \in 0 .. n - 1 |-> NoResult]
        /\ duels' = <<>>

\* the game after i of a thread
StrideShort(i) == i + Max({1, Cardinality(DOMAIN turn) - 1})

Stride(i) == i + Cardinality(DOMAIN turn)

(* A thread plays its next game to the end.                                  *)
PlayOne(t) ==
    /\ phase = "plays" /\ turn[t] < games
    /\ \E duel \in {-1, 0, 1} :
          /\ partials' = [partials EXCEPT ![t] = Scored(@, turn[t], duel)]
          /\ duels' = [i \in DOMAIN duels \cup {turn[t]} |->
                          IF i = turn[t] THEN duel ELSE duels[i]]
    /\ turn' = [turn EXCEPT ![t] = Stride(@)]
    /\ UNCHANGED <<phase, games, result>>

Merge ==
    /\ phase = "plays" /\ \A t \in DOMAIN turn : turn[t] >= games
    /\ result' = FoldFunction(Merged, result, partials)
    /\ phase' = "done"
    /\ UNCHANGED <<games, turn, partials, duels>>

EvalNext ==
    \/ \E number \in 0 .. MaxEvalGames : \E threads \in -1 .. number + 1 :
          Begin(number, threads)
    \/ \E t \in DOMAIN turn : PlayOne(t)
    \/ Merge

EvalSpec == EvalInit /\ [][EvalNext]_evalVars

------------------------------------------------------------------------------
(* Properties                                                                *)

CandidateWon(i)  == IF i % 2 = 0 THEN duels[i] > 0 ELSE duels[i] < 0
CandidateLost(i) == IF i % 2 = 0 THEN duels[i] < 0 ELSE duels[i] > 0

(* However many threads an evaluation is spread over, none, fewer than its   *)
(* games or more, its result is what the games played one after the other    *)
(* give: no game is skipped or counted twice, and each is scored from the    *)
(* side the candidate played it on.                                          *)
ResultIsOfTheGames ==
    phase = "done"
    => LET played == 0 .. games - 1
       IN  /\ DOMAIN duels = played /\ result.games = games
           /\ result.wins = Cardinality({i \in played : CandidateWon(i)})
           /\ result.losses = Cardinality({i \in played : CandidateLost(i)})
           /\ result.draws = Cardinality({i \in played : duels[i] = 0})
           /\ \A s \in 1 .. 2 :
                 LET side == {i \in played : i % 2 = s - 1}
                 IN  /\ result.gamesAs[s] = Cardinality(side)
                     /\ result.winsAs[s] =
                           Cardinality({i \in side : CandidateWon(i)})
           /\ result.margin = SumFunction([i \in played |->
                                 IF i % 2 = 0 THEN duels[i] ELSE -duels[i]])
=============================================================================
