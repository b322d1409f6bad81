----------------------------- MODULE Tournament -----------------------------
(***************************************************************************)
(* The tournament manager of the play server (eval/tournament.cc): start() *)
(* and stop() are called by request handlers, each on a thread of its own, *)
(* and the tournament runs on a thread that spreads its games over a crew  *)
(* of workers.                                                             *)
(*                                                                         *)
(* The status table is read and written under a mutex; the stop flag is    *)
(* atomic; nothing guards the thread handle.  Joining a thread that        *)
(* another handler is joining throws, and assigning to a handle that has   *)
(* not been joined ends the server (std::terminate).                       *)
(***************************************************************************)
EXTENDS Integers, Sequences, FiniteSets, SequencesExt, FiniteSetsExt

CONSTANTS
    Handlers,       \* the handler threads of the server
    Crew,           \* the worker threads, 0 .. Cardinality(Crew) - 1
    Requests,       \* [players, games, loads]: what start() may be asked for
    StartsOverlap,  \* may a start arrive while another is being answered
    MaxTournaments, \* bound on the tournaments started
    Nobody

ASSUME TournamentAssumption ==
    /\ StartsOverlap \in BOOLEAN /\ MaxTournaments \in Nat
    /\ IsFiniteSet(Crew) /\ Crew = 0 .. Cardinality(Crew) - 1 /\ Crew # {}
    /\ \A r \in Requests : /\ r.games \in Int /\ r.loads \in BOOLEAN
                            /\ r.players \in Seq({r.players[i] : i \in DOMAIN r.players})
    /\ Nobody \notin Handlers

VARIABLES
    table,    \* state_
    stop,     \* stop_flag_
    handle,   \* thread_: "none", or "joinable"
    thread,   \* what the thread does: "none", "runs", "returns", "gone"
    joiner,   \* the handler that joins it
    pc,       \* what each handler does
    request,  \* what it was asked to start
    job,      \* tasks of the tournament the thread runs
    next,     \* next_task
    abort,
    worker,   \* what each worker does: "off", "ready", "plays", "out"
    playing,  \* the number of the task it plays last
    started,  \* tournaments started
    asked,    \* a stop was asked for since the flag was last cleared for a start
    halted,   \* or since then for the tournament of the table
    log,      \* the games played to their end
    dead      \* the server was terminated

crew == <<job, next, abort, worker, playing>>
vars == <<table, stop, handle, thread, joiner, pc, request, crew, started,
          asked, halted, log, dead>>

NoGames == [games |-> 0, winsA |-> 0, winsB |-> 0, draws |-> 0, margin |-> 0]
NoJob   == [players |-> <<>>, games |-> 0, loads |-> FALSE]

Players(j) == {j.players[i] : i \in DOMAIN j.players}

EmptyGrid(j) ==
    [a \in Players(j) |-> [b \in Players(j) \ {a} |-> NoGames]]

NoTable == [running |-> FALSE, completed |-> 0, total |-> 0,
            grid |-> EmptyGrid(NoJob), error |-> FALSE]

(* Every pair of participants plays the same number of games, in the order   *)
(* of the task list.                                                         *)
Tasks(j) ==
    FlattenSeq([m \in DOMAIN j.players |->
        FlattenSeq([n \in 1 .. Len(j.players) - m |->
            [g \in 1 .. j.games |->
                [a |-> j.players[m], b |-> j.players[m + n], g |-> g - 1]]])])

TotalGames(j) == ((Len(j.players) * (Len(j.players) - 1)) \div 2) * j.games

Init ==
    /\ table = NoTable /\ stop = FALSE
    /\ handle = "none" /\ thread = "none" /\ joiner = Nobody
    /\ pc = [h \in Handlers |-> "idle"] /\ request = [h \in Handlers |-> NoJob]
    /\ job = <<>> /\ next = 1 /\ abort = FALSE
    /\ worker = [w \in Crew |-> "off"] /\ playing = [w \in Crew |-> 0]
    /\ started = 0 /\ asked = FALSE /\ halted = FALSE /\ log = {} /\ dead = FALSE

------------------------------------------------------------------------------
(* start_tournament(), a step between any two things another thread can see  *)

Starting == {h \in Handlers : pc[h] \in {"join to start", "joins to start",
                                         "load", "reset", "spawn"}}

Answered(h) ==
    /\ pc' = [pc EXCEPT ![h] = "idle"]
    /\ request' = [request EXCEPT ![h] = NoJob]

\* is a tournament running? a start is refused if so
StartAsked(h) ==
    /\ ~dead /\ pc[h] = "idle" /\ started < MaxTournaments
    /\ Starting # {} => StartsOverlap
    /\ IF table.running
       THEN UNCHANGED <<pc, request>>
       ELSE /\ pc' = [pc EXCEPT ![h] = "join to start"]
            /\ \E r \in Requests : request' = [request EXCEPT ![h] = r]
    /\ UNCHANGED <<table, stop, handle, thread, joiner, crew, started, asked, halted,
                   log, dead>>

(* The thread of the tournament before, if it was not joined, is joined.     *)
JoinBeginsTwice(h, waits) ==
    /\ pc' = [pc EXCEPT ![h] = waits] /\ joiner' = h
    /\ UNCHANGED request

JoinBegins(h, waits) ==
    IF joiner # Nobody
    THEN Answered(h) /\ UNCHANGED joiner
    ELSE /\ pc' = [pc EXCEPT ![h] = waits] /\ joiner' = h
         /\ UNCHANGED request

Joined(h) ==
    /\ joiner = h /\ thread = "gone"
    /\ handle' = "none" /\ thread' = "none" /\ joiner' = Nobody

(* The flag a stop may have left set is cleared.                             *)
FlagLeft == UNCHANGED stop

FlagCleared == stop' = FALSE

StartJoins(h) ==
    /\ ~dead /\ pc[h] = "join to start"
    /\ IF handle = "none"
       THEN /\ FlagCleared /\ asked' = FALSE
            /\ pc' = [pc EXCEPT ![h] = "load"] /\ UNCHANGED <<joiner, request>>
       ELSE JoinBegins(h, "joins to start") /\ UNCHANGED <<stop, asked>>
    /\ UNCHANGED <<table, handle, thread, crew, started, halted, log, dead>>

StartJoined(h) ==
    /\ ~dead /\ pc[h] = "joins to start" /\ Joined(h)
    /\ FlagCleared /\ asked' = FALSE
    /\ pc' = [pc EXCEPT ![h] = "load"]
    /\ UNCHANGED <<table, request, crew, started, halted, log, dead>>

(* The request is checked and its networks are loaded, which takes long.     *)
Valid(r) ==
    /\ Len(r.players) >= 2
    /\ r.games > 0
    /\ IsInjective(r.players)
    /\ r.loads

StartLoads(h) ==
    /\ ~dead /\ pc[h] = "load"
    /\ IF Valid(request[h])
       THEN pc' = [pc EXCEPT ![h] = "reset"] /\ UNCHANGED request
       ELSE Answered(h)
    /\ UNCHANGED <<table, stop, handle, thread, joiner, crew, started, asked,
                   halted, log, dead>>

StartResets(h) ==
    LET j == request[h]
    IN  /\ ~dead /\ pc[h] = "reset"
        /\ table' = [running |-> TRUE, completed |-> 0, total |-> TotalGames(j),
                     grid |-> EmptyGrid(j), error |-> FALSE]
        /\ log' = {} /\ halted' = asked
        /\ pc' = [pc EXCEPT ![h] = "spawn"]
        /\ UNCHANGED <<stop, handle, thread, joiner, request, crew, started,
                       asked, dead>>

StartSpawns(h) ==
    /\ ~dead /\ pc[h] = "spawn"
    /\ IF handle = "joinable"
       THEN dead' = TRUE /\ UNCHANGED <<handle, thread, crew, started>>
       ELSE /\ handle' = "joinable" /\ thread' = "runs"
            /\ job' = Tasks(request[h])
            /\ next' = 1 /\ abort' = FALSE
            /\ worker' = [w \in Crew |->
                             IF w < Max({1, Min({Cardinality(Crew), Len(job')})})
                             THEN "ready" ELSE "out"]
            /\ playing' = [w \in Crew |-> 0]
            /\ started' = started + 1
            /\ UNCHANGED dead
    /\ Answered(h)
    /\ UNCHANGED <<table, stop, joiner, asked, halted, log>>

------------------------------------------------------------------------------
(* stop()                                                                    *)

StopAsked(h) ==
    /\ ~dead /\ pc[h] = "idle"
    /\ stop' = TRUE /\ asked' = TRUE /\ halted' = TRUE
    /\ pc' = [pc EXCEPT ![h] = "join to stop"]
    /\ UNCHANGED <<table, handle, thread, joiner, request, crew, started, log,
                   dead>>

StopJoins(h) ==
    /\ ~dead /\ pc[h] = "join to stop"
    /\ IF handle = "none"
       THEN /\ stop' = FALSE
            /\ Answered(h) /\ UNCHANGED joiner
       ELSE JoinBegins(h, "joins to stop") /\ UNCHANGED stop
    /\ UNCHANGED <<table, handle, thread, crew, started, asked, halted, log,
                   dead>>

StopJoined(h) ==
    /\ ~dead /\ pc[h] = "joins to stop" /\ Joined(h)
    /\ stop' = FALSE
    /\ pc' = [pc EXCEPT ![h] = "idle"]
    /\ UNCHANGED <<table, request, crew, started, asked, halted, log, dead>>

------------------------------------------------------------------------------
(* run_tournament()                                                          *)

Goes(w, to) == worker' = [worker EXCEPT ![w] = to]

(* A worker takes the next task, unless it is told to stop.                  *)
Take(w) ==
    /\ ~dead /\ thread = "runs" /\ worker[w] = "ready"
    /\ next' = next + 1
    /\ IF next > Len(job) \/ stop \/ abort
       THEN Goes(w, "out") /\ UNCHANGED playing
       ELSE Goes(w, "plays") /\ playing' = [playing EXCEPT ![w] = next]
    /\ UNCHANGED <<table, stop, handle, thread, joiner, pc, request, job, abort,
                   started, asked, halted, log, dead>>

(* play_one_game(): participant a sits on team g % 2, and compute_duel() is  *)
(* the margin of team 0.                                                     *)
MarginOfTeam0(duel, g) == duel

MarginOfA(duel, g) == IF g % 2 = 0 THEN duel ELSE -duel

Counted(m, margin) ==
    [m EXCEPT !.games  = @ + 1,
              !.margin = @ + margin,
              !.winsA  = IF margin > 0 THEN @ + 1 ELSE @,
              !.winsB  = IF margin < 0 THEN @ + 1 ELSE @,
              !.draws  = IF margin = 0 THEN @ + 1 ELSE @]

GameEnds(w) ==
    LET task == job[playing[w]]
    IN  /\ ~dead /\ worker[w] = "plays"
        /\ \E duel \in {-1, 0, 1} :
              LET m == MarginOfA(duel, task.g)
              IN  /\ table' = [table EXCEPT
                         !.grid[task.a][task.b] = Counted(@, m),
                         !.grid[task.b][task.a] = Counted(@, -m),
                         !.completed = @ + 1]
                  /\ log' = log \cup {[task |-> task, duel |-> duel]}
        /\ Goes(w, "ready")
        /\ UNCHANGED <<stop, handle, thread, joiner, pc, request, job, next,
                       abort, playing, started, asked, halted, dead>>

(* A game that throws ends its worker, and the others after their games.     *)
GameThrows(w) ==
    /\ ~dead /\ worker[w] = "plays"
    /\ table' = [table EXCEPT !.error = TRUE]
    /\ abort' = TRUE
    /\ Goes(w, "out")
    /\ UNCHANGED <<stop, handle, thread, joiner, pc, request, job, next,
                   playing, started, asked, halted, log, dead>>

PoolJoins ==
    /\ ~dead /\ thread = "runs" /\ \A w \in Crew : worker[w] = "out"
    /\ table' = [table EXCEPT !.running = FALSE]
    /\ thread' = "returns"
    /\ UNCHANGED <<stop, handle, joiner, pc, request, crew, started, asked, halted, log,
                   dead>>

ThreadReturns ==
    /\ ~dead /\ thread = "returns"
    /\ thread' = "gone"
    /\ job' = <<>> /\ next' = 1 /\ abort' = FALSE
    /\ worker' = [w \in Crew |-> "off"] /\ playing' = [w \in Crew |-> 0]
    /\ UNCHANGED <<table, stop, handle, joiner, pc, request, started, asked, halted, log,
                   dead>>

------------------------------------------------------------------------------

HandlerSteps(h) ==
    \/ StartJoins(h) \/ StartJoined(h) \/ StartLoads(h) \/ StartResets(h)
    \/ StartSpawns(h) \/ StopJoins(h) \/ StopJoined(h)

CrewSteps(w) == Take(w) \/ GameEnds(w) \/ GameThrows(w)

Next ==
    \/ \E h \in Handlers : StartAsked(h) \/ StopAsked(h) \/ HandlerSteps(h)
    \/ \E w \in Crew : CrewSteps(w)
    \/ PoolJoins \/ ThreadReturns

Spec == Init /\ [][Next]_vars

(* Every thread runs, and every game comes to its end.                       *)
Fairness ==
    /\ \A h \in Handlers : WF_vars(HandlerSteps(h))
    /\ \A w \in Crew : WF_vars(CrewSteps(w))
    /\ WF_vars(PoolJoins) /\ WF_vars(ThreadReturns)

FairSpec == Spec /\ Fairness

------------------------------------------------------------------------------
(* Properties                                                                *)

TypeOK ==
    /\ stop \in BOOLEAN /\ handle \in {"none", "joinable"}
    /\ thread \in {"none", "runs", "returns", "gone"}
    /\ (handle = "none") = (thread = "none")
    /\ joiner \in Handlers \cup {Nobody}
    /\ started \in 0 .. MaxTournaments
    /\ table.completed \in 0 .. table.total

(* The side a participant won from in a game of the log.                     *)
Won(p, l) ==
    LET team == IF p = l.task.a THEN l.task.g % 2 ELSE 1 - (l.task.g % 2)
    IN  IF team = 0 THEN l.duel > 0 ELSE l.duel < 0

Between(p, q) == {l \in log : {l.task.a, l.task.b} = {p, q}}

(* The table shows the games that were played, each of them once and for     *)
(* both of its players, whoever of the crew played them in whatever order,   *)
(* and no game of a tournament before this one.                              *)
TalliesAgree ==
    /\ table.completed = Cardinality(log)
    /\ \A p \in DOMAIN table.grid : \A q \in DOMAIN table.grid[p] :
          LET row == table.grid[p][q]
          IN  /\ row.games = Cardinality(Between(p, q))
              /\ row.winsA = Cardinality({l \in Between(p, q) : Won(p, l)})
              /\ row.winsB = Cardinality({l \in Between(p, q) : Won(q, l)})
              /\ row.draws = Cardinality({l \in Between(p, q) : l.duel = 0})
              /\ row.margin = -table.grid[q][p].margin

(* A tournament that is over, had no error and was not told to stop has      *)
(* played all its games, also after a stop that failed because another       *)
(* handler was joining the thread.                                           *)
CompleteUnlessStopped ==
    ~table.running /\ ~table.error /\ ~halted => table.completed = table.total

(* A start while another is under way is refused, and does not end the       *)
(* server.                                                                   *)
OneAtATime == ~dead

(* Every request is answered: a join ends because the tournament does.       *)
RequestsAnswered == \A h \in Handlers : pc[h] # "idle" ~> pc[h] = "idle"
=============================================================================
