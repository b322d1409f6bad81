------------------------------ MODULE SelfPlay ------------------------------
(***************************************************************************)
(* The life of a game in self-play: worker_thread (worker.cc) drives each    *)
(* game through its phases, the coordinators answer its requests            *)
(* (coordinator.cc), the training loop collects and recycles it             *)
(* (training_loop.cc, orchestrator.cc), and the queues (game_queues.h) pass *)
(* it from thread to thread.                                                *)
(*                                                                         *)
(* A batch manager is what module InferenceExchange promises: the games     *)
(* submitted to it are answered, together or apart, in any order.  There is *)
(* one per network.  Dice, cells and afterstate values are abstracted to    *)
(* what the training targets depend on: at which turn a value was obtained, *)
(* from which network, and whether it was blended with the heuristic.       *)
(***************************************************************************)
EXTENDS Integers, Sequences, FiniteSets

CONSTANTS Games, Workers,
          NumPlayers,        \* Traits::kNumPlayers
          Turns,             \* placements of a game (Traits::kTotalCells)
          MaxCollect,        \* kMaxCollectBatch
          PastSeats,         \* per game, the seats its recycling may give to the opponent's network
          WeightMayDrop,     \* may heuristic_weight decay to 0 during the run?
          None, NoGame

ASSUME SelfPlayAssumption ==
    /\ IsFiniteSet(Games) /\ IsFiniteSet(Workers)
    /\ NumPlayers \in {2, 4} /\ Turns \in Nat \ {0} /\ MaxCollect \in Nat \ {0}
    /\ PastSeats \in [Games -> (SUBSET ((0 .. NumPlayers - 1) \cup {None})) \ {{}}]
    /\ WeightMayDrop \in BOOLEAN
    /\ None \notin 0 .. NumPlayers - 1 /\ NoGame \notin Games

VARIABLES
    queue,       \* available_queue_; NoGame is the shutdown sentinel
    completed,   \* completed_queue_
    submitted,   \* games in a batch of either batch manager
    inst,        \* the GameInstance of each game
    weight,      \* solver_config_.heuristic_weight: "positive" or "zero"
    pc, cur,     \* where each worker is, and its game
    loc,         \* its locals: is_first_resolve, result.pre_roll_ev, lucky yams
    hand,        \* games in the training loop's collect_buf_
    trainer,     \* what the training loop does
    sentinels,   \* sentinels stop() has pushed
    drained      \* have the batch managers been shut down?

workerVars  == <<pc, cur, loc>>
trainerVars == <<hand, trainer, sentinels, drained>>
vars        == <<queue, completed, submitted, inst, weight, workerVars, trainerVars>>

-----------------------------------------------------------------------------
(* Game instances.                                                          *)

Phases  == {"NeedRequests", "WaitingInference", "NeedResolve", "Completed"}
Players == 0 .. NumPlayers - 1
Nets    == {"current", "past"}

(* kNumPlayers = 2 makes each parity one player, 4 a team of two.            *)
Teammates(p, q) == p % 2 = q % 2

(* The answers to the last requests: the turn of this game they are about     *)
(* (-1: of an earlier game) and the network that gave them.  A pre-roll     *)
(* value is computed from such answers, blended with the heuristic or not,  *)
(* unless the solver left it at 0.                                          *)
Evs    == [turn : -1 .. Turns - 1, net : Nets]
Value  == [turn : -1 .. Turns - 1, net : Nets, kind : {"pure", "blended", "zero"}]
NoValue == [turn |-> -1, net |-> "current", kind |-> "zero"]

(* The player to move: perform_placement passes the turn clockwise.  Seats   *)
(* are counted from the one init_board draws to start; the seat of the past  *)
(* opponent is drawn at random as well, so that nothing is lost by it.       *)
Mover(i) == i.placed % NumPlayers

(* Whose network plays the mover's turn (worker.cc:113-120).                 *)
NetOf(i) == IF i.past # None /\ Teammates(Mover(i), i.past) THEN "past" ELSE "current"

Fresh(past, evs, startEv) ==
    [phase |-> "NeedRequests", placed |-> 0, rolls |-> 2, dp |-> FALSE, blends |-> 0,
     evs |-> evs, startEv |-> startEv, traj |-> << >>, past |-> past]

Orders(S) ==
    {s \in [1 .. Cardinality(S) -> S] : \A i, j \in DOMAIN s : s[i] = s[j] => i = j}

NoLocals == [first |-> FALSE, ev |-> NoValue, lucky |-> FALSE]

Init ==
    /\ queue \in Orders(Games)
    /\ completed = << >> /\ submitted = {}
    /\ inst = [g \in Games |-> Fresh(None, [turn |-> -1, net |-> "current"], NoValue)]
    /\ weight \in {"positive", "zero"}
    /\ pc = [w \in Workers |-> "pop"]
    /\ cur = [w \in Workers |-> NoGame]
    /\ loc = [w \in Workers |-> NoLocals]
    /\ hand = << >> /\ trainer = "collect" /\ sentinels = 0 /\ drained = FALSE

Goto(w, l) == pc' = [pc EXCEPT ![w] = l]

-----------------------------------------------------------------------------
(* The worker.                                                              *)

(* available.pop(), and the branch on the phase.  A game in another phase    *)
(* would be dropped for good.                                               *)
Branch == [NeedRequests |-> "request", NeedResolve |-> "pure",
           WaitingInference |-> "pop", Completed |-> "pop"]

Pop(w) ==
    /\ pc[w] = "pop" /\ queue # << >>
    /\ queue' = Tail(queue)
    /\ IF Head(queue) = NoGame
       THEN Goto(w, "exited") /\ UNCHANGED cur
       ELSE /\ Goto(w, Branch[inst[Head(queue)].phase])
            /\ cur' = [cur EXCEPT ![w] = Head(queue)]
    /\ UNCHANGED <<completed, submitted, inst, weight, loc, trainerVars>>

(* Mutant of Request: the DP tables stay valid into the next turn.           *)
RequestKeepsDp(w) ==
    /\ pc[w] = "request"
    /\ inst' = [inst EXCEPT ![cur[w]].blends = 0]
    /\ \/ Goto(w, "submit")
       \/ drained /\ Goto(w, "exited")
    /\ UNCHANGED <<queue, completed, submitted, weight, cur, loc, trainerVars>>

(* solver_get_requests() and reserve(), which returns nullptr only when the  *)
(* batch manager is shut down; the worker then ends with the game in hand.  *)
(* (Its branch for a game without requests is dead: a player to move always *)
(* has a legal cell.)                                                       *)
Request(w) ==
    /\ pc[w] = "request"
    /\ inst' = [inst EXCEPT ![cur[w]].dp = FALSE, ![cur[w]].blends = 0]
    /\ \/ Goto(w, "submit")
       \/ drained /\ Goto(w, "exited")
    /\ UNCHANGED <<queue, completed, submitted, weight, cur, loc, trainerVars>>

(* The phase is set before commit() hands the game over.                     *)
SetWaiting(w) ==
    /\ pc[w] = "submit"
    /\ inst' = [inst EXCEPT ![cur[w]].phase = "WaitingInference"]
    /\ Goto(w, "commit")
    /\ UNCHANGED <<queue, completed, submitted, weight, cur, loc, trainerVars>>

Commit(w) ==
    /\ pc[w] = "commit"
    /\ submitted' = submitted \cup {cur[w]}
    /\ cur' = [cur EXCEPT ![w] = NoGame]
    /\ Goto(w, "pop")
    /\ UNCHANGED <<queue, completed, inst, weight, loc, trainerVars>>

(* kNeedResolve.  The worker reads config.heuristic_weight four times, and   *)
(* the training loop may lower it in between.                               *)
ValueOf(i, kind) == [turn |-> i.evs.turn, net |-> i.evs.net, kind |-> kind]

Pure(w) ==
    /\ pc[w] = "pure"
    /\ loc' = [loc EXCEPT ![w].first = ~inst[cur[w]].dp]
    /\ inst' = IF ~inst[cur[w]].dp /\ weight = "positive"
               THEN [inst EXCEPT ![cur[w]].startEv = ValueOf(inst[cur[w]], "pure")]
               ELSE inst
    /\ Goto(w, "blend")
    /\ UNCHANGED <<queue, completed, submitted, weight, cur, trainerVars>>

Blend(w) ==
    /\ pc[w] = "blend"
    /\ inst' = IF weight = "positive" /\ inst[cur[w]].blends = 0
               THEN [inst EXCEPT ![cur[w]].blends = @ + 1]
               ELSE inst
    /\ Goto(w, "solve")
    /\ UNCHANGED <<queue, completed, submitted, weight, cur, loc, trainerVars>>

(* compute_pre_roll_ev is decided, then solver_resolve() runs.  A first-roll *)
(* yams returns its best value and leaves the DP tables alone; otherwise    *)
(* the pre-roll value is 0 unless it was asked for.                         *)
Solve(w) ==
    LET i    == inst[cur[w]]
        kind == IF i.blends > 0 THEN "blended" ELSE "pure"
        asked == loc[w].first /\ weight = "zero"
    IN  /\ pc[w] = "solve"
        /\ \E lucky \in BOOLEAN :
              /\ lucky => i.rolls = 2
              /\ loc' = [loc EXCEPT ![w].lucky = lucky,
                                    ![w].ev = ValueOf(i, IF lucky \/ asked THEN kind ELSE "zero")]
              /\ inst' = [inst EXCEPT ![cur[w]].dp = @ \/ ~lucky]
        /\ Goto(w, "act")
        /\ UNCHANGED <<queue, completed, submitted, weight, cur, trainerVars>>

(* The last read of the weight, and the instance as it is then acted upon.   *)
Started(w) ==
    IF loc[w].first /\ weight = "zero"
    THEN [inst[cur[w]] EXCEPT !.startEv = loc[w].ev]
    ELSE inst[cur[w]]

Placed(i) == [i EXCEPT !.placed = @ + 1, !.traj = Append(@, i.startEv)]

(* The game leaves the worker's hands.                                       *)
Release(w) ==
    /\ cur' = [cur EXCEPT ![w] = NoGame]
    /\ loc' = [loc EXCEPT ![w] = NoLocals]
    /\ Goto(w, "pop")

(* Mutant of PlaceAndGoOn: the next turn starts in kNeedResolve.             *)
PlaceKeepsPhase(w) ==
    /\ pc[w] = "act"
    /\ Started(w).placed + 1 < Turns
    /\ inst' = [inst EXCEPT ![cur[w]] = [Placed(Started(w)) EXCEPT !.rolls = 2]]
    /\ queue' = Append(queue, cur[w])
    /\ Release(w)
    /\ UNCHANGED <<completed, submitted, weight, trainerVars>>

PlaceAndGoOn(w) ==
    /\ pc[w] = "act"
    /\ Started(w).placed + 1 < Turns
    /\ inst' = [inst EXCEPT ![cur[w]] =
                   [Placed(Started(w)) EXCEPT !.rolls = 2, !.phase = "NeedRequests"]]
    /\ queue' = Append(queue, cur[w])
    /\ Release(w)
    /\ UNCHANGED <<completed, submitted, weight, trainerVars>>

PlaceLast(w) ==
    /\ pc[w] = "act"
    /\ Started(w).placed + 1 = Turns
    /\ inst' = [inst EXCEPT ![cur[w]] = [Placed(Started(w)) EXCEPT !.phase = "Completed"]]
    /\ completed' = Append(completed, cur[w])
    /\ Release(w)
    /\ UNCHANGED <<queue, submitted, weight, trainerVars>>

Reroll(w) ==
    /\ pc[w] = "act"
    /\ ~loc[w].lucky /\ Started(w).rolls > 0
    /\ inst' = [inst EXCEPT ![cur[w]] =
                   [Started(w) EXCEPT !.rolls = @ - 1, !.phase = "NeedResolve"]]
    /\ queue' = Append(queue, cur[w])
    /\ Release(w)
    /\ UNCHANGED <<completed, submitted, weight, trainerVars>>

-----------------------------------------------------------------------------
(* The coordinators: a batch of one batch manager is answered and its games  *)
(* are pushed in the order of its entries.                                  *)

Answer(net, S) ==
    /\ S # {} /\ S \subseteq submitted /\ \A g \in S : NetOf(inst[g]) = net
    /\ submitted' = submitted \ S
    /\ inst' = [g \in Games |->
          IF g \in S
          THEN [inst[g] EXCEPT !.phase = "NeedResolve",
                               !.evs = [turn |-> inst[g].placed, net |-> net]]
          ELSE inst[g]]
    /\ \E s \in Orders(S) : queue' = queue \o s
    /\ UNCHANGED <<completed, weight, workerVars, trainerVars>>

-----------------------------------------------------------------------------
(* The training loop: collect what has completed, recycle it, train; then    *)
(* stop().                                                                  *)

Collect ==
    /\ trainer = "collect"
    /\ completed # << >> /\ Len(hand) < MaxCollect
    /\ hand' = Append(hand, Head(completed))
    /\ completed' = Tail(completed)
    /\ UNCHANGED <<queue, submitted, inst, weight, workerVars, trainer, sentinels, drained>>

CollectEnds ==
    /\ trainer = "collect"
    /\ completed = << >> \/ Len(hand) = MaxCollect
    /\ trainer' = "recycle"
    /\ UNCHANGED <<queue, completed, submitted, inst, weight, workerVars, hand, sentinels, drained>>

(* Mutant of Recycle: the game goes back with the phase it had.              *)
RecycleKeepsPhase ==
    /\ trainer = "recycle" /\ hand # << >>
    /\ inst' = [inst EXCEPT ![Head(hand)] =
          [Fresh(None, @.evs, @.startEv) EXCEPT !.phase = inst[Head(hand)].phase]]
    /\ queue' = Append(queue, Head(hand))
    /\ hand' = Tail(hand)
    /\ UNCHANGED <<completed, submitted, weight, workerVars, trainer, sentinels, drained>>

(* recycle_game(): the instance is reset, but what the last game left in      *)
(* solver_buffers and current_turn_start_ev stays where it is.              *)
Recycle ==
    /\ trainer = "recycle" /\ hand # << >>
    /\ \E past \in PastSeats[Head(hand)] :
          inst' = [inst EXCEPT ![Head(hand)] =
              [Fresh(past, [@.evs EXCEPT !.turn = -1], [@.startEv EXCEPT !.turn = -1])
                   EXCEPT !.dp = inst[Head(hand)].dp, !.blends = inst[Head(hand)].blends]]
    /\ queue' = Append(queue, Head(hand))
    /\ hand' = Tail(hand)
    /\ UNCHANGED <<completed, submitted, weight, workerVars, trainer, sentinels, drained>>

(* do_training_step() publishes the decayed weight.                          *)
Train ==
    /\ trainer = "recycle" /\ hand = << >>
    /\ weight' \in IF WeightMayDrop THEN {weight, "zero"} ELSE {weight}
    /\ trainer' = "collect"
    /\ UNCHANGED <<queue, completed, submitted, inst, workerVars, hand, sentinels, drained>>

StopBegins ==
    /\ trainer = "recycle" /\ hand = << >>
    /\ trainer' = "stop"
    /\ UNCHANGED <<queue, completed, submitted, inst, weight, workerVars, hand, sentinels, drained>>

(* Mutant of PushSentinel: one sentinel for all the workers.                 *)
PushOneSentinel ==
    /\ trainer = "stop" /\ sentinels < Cardinality(Workers)
    /\ queue' = IF sentinels = 0 THEN Append(queue, NoGame) ELSE queue
    /\ sentinels' = sentinels + 1
    /\ UNCHANGED <<completed, submitted, inst, weight, workerVars, hand, trainer, drained>>

PushSentinel ==
    /\ trainer = "stop" /\ sentinels < Cardinality(Workers)
    /\ queue' = Append(queue, NoGame)
    /\ sentinels' = sentinels + 1
    /\ UNCHANGED <<completed, submitted, inst, weight, workerVars, hand, trainer, drained>>

ShutBatchers ==
    /\ trainer = "stop" /\ sentinels = Cardinality(Workers) /\ ~drained
    /\ drained' = TRUE
    /\ UNCHANGED <<queue, completed, submitted, inst, weight, workerVars, hand, trainer, sentinels>>

-----------------------------------------------------------------------------
WorkerStep(w) ==
    \/ Pop(w) \/ Request(w) \/ SetWaiting(w) \/ Commit(w)
    \/ Pure(w) \/ Blend(w) \/ Solve(w)
    \/ PlaceAndGoOn(w) \/ PlaceLast(w) \/ Reroll(w)

AnswerGame(g) == \E net \in Nets, S \in SUBSET submitted : g \in S /\ Answer(net, S)

Play ==
    \/ \E w \in Workers : WorkerStep(w)
    \/ \E net \in Nets, S \in SUBSET submitted : Answer(net, S)
    \/ Collect \/ CollectEnds \/ Recycle \/ Train

Stop == StopBegins \/ PushSentinel \/ ShutBatchers

Next == Play \/ Stop

Spec == Init /\ [][Next]_vars

(* Threads keep running; a batch manager answers whatever was submitted to   *)
(* it (InferenceExchange) until it is shut down; stop() runs through.       *)
Fairness ==
    /\ \A w \in Workers : WF_vars(WorkerStep(w))
    /\ \A g \in Games : WF_vars(~drained /\ AnswerGame(g))
    /\ WF_vars(Collect \/ CollectEnds \/ Recycle \/ Train)
    /\ WF_vars(PushSentinel \/ ShutBatchers)

StopSpec == Spec /\ Fairness

-----------------------------------------------------------------------------
(* Properties.                                                              *)

Trajectories == UNION {[1 .. n -> Value] : n \in 0 .. Turns}

Instance ==
    [phase : Phases, placed : 0 .. Turns, rolls : 0 .. 2, dp : BOOLEAN, blends : 0 .. 1,
     evs : Evs, startEv : Value, traj : Trajectories,
     past : Players \cup {None}]

WorkerPCs == {"pop", "request", "submit", "commit", "pure", "blend", "solve", "act", "exited"}

(* Every variable holds a value of its type; a trajectory never outgrows     *)
(* kMaxTrajectorySteps and the answers of the network are blended with the  *)
(* heuristic at most once (solver.h:68).                                    *)
TypeOK ==
    /\ queue \in Seq(Games \cup {NoGame})
    /\ completed \in Seq(Games) /\ hand \in Seq(Games)
    /\ submitted \in SUBSET Games
    /\ inst \in [Games -> Instance]
    /\ weight \in {"positive", "zero"}
    /\ pc \in [Workers -> WorkerPCs]
    /\ cur \in [Workers -> Games \cup {NoGame}]
    /\ loc \in [Workers -> [first : BOOLEAN, ev : Value, lucky : BOOLEAN]]
    /\ trainer \in {"collect", "recycle", "stop"}
    /\ sentinels \in 0 .. Cardinality(Workers) /\ drained \in BOOLEAN

Positions(s, g) == {i \in DOMAIN s : s[i] = g}

Holders(g) ==
    {<<"queue", i>> : i \in Positions(queue, g)}
    \cup {<<"completed", i>> : i \in Positions(completed, g)}
    \cup {<<"hand", i>> : i \in Positions(hand, g)}
    \cup {<<"worker", w>> : w \in {v \in Workers : cur[v] = g}}
    \cup {<<"batch", h>> : h \in submitted \cap {g}}

(* "Only ever accessed by one thread at a time" (game_instance.h:42): a game  *)
(* is in exactly one queue, batch, or pair of hands.                        *)
OneHolder == \A g \in Games : Cardinality(Holders(g)) = 1

(* Whoever takes a game finds it in a phase it can handle: a worker that     *)
(* popped a game still kWaitingInference would drop it without a trace, so  *)
(* the phase must be right at every hand-over, not soon after.              *)
PhaseFitsHolder ==
    \A g \in Games :
        /\ Positions(queue, g) # {} => inst[g].phase \in {"NeedRequests", "NeedResolve"}
        /\ g \in submitted => inst[g].phase = "WaitingInference"
        /\ Positions(completed, g) \cup Positions(hand, g) # {} => inst[g].phase = "Completed"

(* A worker decides on answers about the very position in front of it, from  *)
(* the network that plays this turn, though buffers are reused over turns   *)
(* and games and the answers came from another thread.                      *)
DecidesOnOwnPosition ==
    \A w \in Workers : pc[w] \in {"pure", "blend", "solve"} =>
        LET i == inst[cur[w]]
        IN  i.evs.turn = i.placed /\ i.evs.net = NetOf(i)

(* The training targets: one trajectory entry per placement, each with the   *)
(* value of its own turn by the network of its own mover, although the      *)
(* value is taken at the first resolve and used after any number of rolls,  *)
(* and current_turn_start_ev outlives turns and games.                      *)
TrajectoryIsOwn ==
    \A g \in Games :
        LET i == inst[g]
        IN  /\ Len(i.traj) = i.placed
            /\ i.phase = "Completed" => i.placed = Turns
            /\ \A k \in 1 .. Len(i.traj) :
                  /\ i.traj[k].turn = k - 1
                  /\ i.traj[k].net = NetOf([i EXCEPT !.placed = k - 1])

(* "V(s) from solver for the chosen placement" (game_instance.h:29): a        *)
(* recorded value is one the solver computed, not the 0.0 it leaves when    *)
(* nobody asked for the pre-roll value.                                     *)
ValueFromSolver ==
    \A g \in Games : \A k \in 1 .. Len(inst[g].traj) : inst[g].traj[k].kind # "zero"

(* With a steady weight the recorded value is moreover the network's own,    *)
(* untouched by the heuristic.                                              *)
ValueFromNetwork ==
    \A g \in Games : \A k \in 1 .. Len(inst[g].traj) : inst[g].traj[k].kind = "pure"

(* No game starves: until stop() begins, each one completes and comes back to *)
(* be played again, for ever (the FIFO of game_queues.h, worker.cc:46-160). *)
EveryGameCompletes ==
    \A g \in Games :
        /\ []<>(inst[g].phase = "Completed" \/ trainer = "stop")
        /\ []<>(inst[g].phase # "Completed" \/ trainer = "stop")

(* One sentinel per worker is enough to end them all: games queued behind and *)
(* before them, games put back, and a worker that leaves without one do not *)
(* keep another from its own.  Once drained, drained for ever.              *)
SentinelsEndWorkers == []<>(drained => \A w \in Workers : pc[w] = "exited")
=============================================================================
