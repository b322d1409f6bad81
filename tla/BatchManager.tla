---------------------------- MODULE BatchManager ----------------------------
(***************************************************************************)
(* The tensor batcher between the self-play workers and the inference       *)
(* coordinators (src/src/self_play/batch_manager.h), together with the two  *)
(* client loops that drive it: the reserve / generate / commit part of      *)
(* worker_thread and the whole of coordinator_thread.                       *)
(*                                                                         *)
(* Grain: one action per critical section of active_mtx_, ready_mtx_ or     *)
(* pool_mtx_, and one per access to shared state outside a lock (the        *)
(* append to `entries`, the fetch_add of `committed_count`, the store of    *)
(* `shutdown_`).  active_mtx_ and ready_mtx_ are held only inside one       *)
(* action, so they need no variable; pool_mtx_ does, because a condition    *)
(* variable tests its predicate and blocks in two steps that shutdown(),    *)
(* which takes no lock, can separate.                                       *)
(***************************************************************************)
EXTENDS Integers, Sequences, FiniteSets

CONSTANTS Workers,           \* worker threads
          Coordinators,      \* coordinator threads of this batch manager
          Games,             \* the game pool (GameInstance pointers)
          Batches,           \* all_batches_
          MaxTensors,        \* max_tensors_: rows of a batch
          MaxRequests,       \* bound: most rows one reserve() asks for
          CommitterMayLag,   \* may a batch be reused while a committer of its
                             \* last use is still on its way to active_mtx_?
          NoBatch, NoGame, NoThread    \* null pointers

ASSUME BatchManagerAssumption ==
    /\ MaxTensors \in Nat \ {0}
    /\ MaxRequests \in 1 .. MaxTensors        \* the assert of batch_manager.h:103
    /\ CommitterMayLag \in BOOLEAN
    /\ IsFiniteSet(Workers) /\ IsFiniteSet(Batches)
    /\ NoBatch \notin Batches /\ NoGame \notin Games /\ NoThread \notin Workers

VARIABLES
    free,        \* free_batches_: a stack, its top is the last element
    active,      \* active_batch_
    ready,       \* ready_batches_: a queue, its front is the first element
    reserved,    \* reserved_count of each batch
    committed,   \* committed_count of each batch
    entries,     \* entries of each batch
    claimed,     \* push_claimed of each batch
    poolMtx,     \* the thread that holds pool_mtx_ between test and block
    stage,       \* how far SelfPlayOrchestrator::stop() has gone
    available,   \* games in the available queue
    pc,          \* where each worker is
    game,        \* the worker's current game
    count,       \* its request_count
    batch,       \* reserve()'s candidate, batch_to_push or out_batch
    offset,      \* out_offset
    seen,        \* commit()'s new_committed
    cpc,         \* where each coordinator is
    cbatch       \* the batch the coordinator works on

batchVars  == <<free, active, ready, reserved, committed, entries, claimed, poolMtx>>
workerVars == <<pc, game, count, batch, offset, seen>>
coordVars  == <<cpc, cbatch>>
vars       == <<batchVars, stage, available, workerVars, coordVars>>

-----------------------------------------------------------------------------
(* State at the end of start(): every game queued, every batch in the pool. *)

Entry == [game : Games, start : 0 .. MaxTensors, count : 1 .. MaxRequests]

Stages == {"running", "signalled", "flagged", "notified"}

(* shutdown_ of the batch manager, stored by BatchManager::shutdown(). *)
ShutDown == stage \in {"flagged", "notified"}

(* The constructor pushes every batch once; which is which does not matter.  *)
PoolOrders ==
    {s \in [1 .. Cardinality(Batches) -> Batches] :
        \A i, j \in 1 .. Cardinality(Batches) : s[i] = s[j] => i = j}

InitPool ==
    /\ free \in PoolOrders
    /\ active = NoBatch
    /\ ready = << >>
    /\ reserved = [b \in Batches |-> 0]
    /\ committed = [b \in Batches |-> 0]
    /\ entries = [b \in Batches |-> {}]
    /\ claimed = [b \in Batches |-> FALSE]
    /\ poolMtx = NoThread

InitThreads ==
    /\ stage = "running"
    /\ available = Games
    /\ pc = [w \in Workers |-> "idle"]
    /\ game = [w \in Workers |-> NoGame]
    /\ count = [w \in Workers |-> 0]
    /\ batch = [w \in Workers |-> NoBatch]
    /\ offset = [w \in Workers |-> 0]
    /\ seen = [w \in Workers |-> 0]
    /\ cpc = [c \in Coordinators |-> "top"]
    /\ cbatch = [c \in Coordinators |-> NoBatch]

Init == InitPool /\ InitThreads

-----------------------------------------------------------------------------
(* Pieces shared by several operations.                                     *)

Goto(w, l) == pc' = [pc EXCEPT ![w] = l]

(* pool_cv_.notify_one(): any one of the blocked workers goes back to test   *)
(* its predicate; with none blocked the call has no effect.  `p` is the     *)
(* control state the caller itself leaves behind.                           *)
Notified(p) ==
    LET waiting == {w \in Workers : p[w] = "wait"}
    IN  IF waiting = {} THEN {p} ELSE {[p EXCEPT ![w] = "pool"] : w \in waiting}

(* flush_active_batch_locked(): the active batch is detached; the caller is  *)
(* to push it only when every reserved row is committed and nobody has      *)
(* claimed it.  (Its branch for reserved == 0 is unreachable: reserve()     *)
(* flushes only a batch that lacks room, pop_ready_batch() only one with    *)
(* reservations.)                                                           *)
FlushGivesIncomplete == ~claimed[active]      \* mutant: open rows not checked
FlushGivesFull ==                             \* mutant: only a full batch is pushed
    /\ reserved[active] = MaxTensors /\ committed[active] = MaxTensors
    /\ ~claimed[active]

FlushGivesBatch ==
    /\ reserved[active] = committed[active]
    /\ ~claimed[active]

Flush ==
    /\ active' = NoBatch
    /\ claimed' = IF FlushGivesBatch THEN [claimed EXCEPT ![active] = TRUE] ELSE claimed

HasRoom(n) == active # NoBatch /\ reserved[active] + n <= MaxTensors

-----------------------------------------------------------------------------
(* The worker: reserve().                                                   *)

(* The worker has a game in phase kNeedRequests and n afterstate requests.   *)
TakeGame(w) ==
    /\ pc[w] = "idle"
    /\ \E g \in available, n \in 1 .. MaxRequests :
          /\ available' = available \ {g}
          /\ game' = [game EXCEPT ![w] = g]
          /\ count' = [count EXCEPT ![w] = n]
    /\ Goto(w, "loop")
    /\ UNCHANGED <<batchVars, stage, coordVars, batch, offset, seen>>

(* The shutdown sentinel stop() pushed for every worker.                     *)
TakeSentinel(w) ==
    /\ pc[w] = "idle"
    /\ stage # "running"
    /\ Goto(w, "exited")
    /\ UNCHANGED <<batchVars, stage, available, coordVars, game, count, batch, offset, seen>>

(* The test of the while loop; a nullptr from reserve() ends the worker and  *)
(* drops its game.                                                          *)
ReserveLoop(w) ==
    /\ pc[w] = "loop"
    /\ Goto(w, IF ShutDown THEN "exited" ELSE "reserve")
    /\ UNCHANGED <<batchVars, stage, available, coordVars, game, count, batch, offset, seen>>

ReserveRows(w) ==
    /\ pc[w] = "reserve"
    /\ HasRoom(count[w])
    /\ batch' = [batch EXCEPT ![w] = active]
    /\ offset' = [offset EXCEPT ![w] = reserved[active]]
    /\ reserved' = [reserved EXCEPT ![active] = @ + count[w]]
    /\ Goto(w, "write")
    /\ UNCHANGED <<free, active, ready, committed, entries, claimed, poolMtx,
                   stage, available, coordVars, game, count, seen>>

ReserveNoActive(w) ==
    /\ pc[w] = "reserve"
    /\ active = NoBatch
    /\ Goto(w, "pool")
    /\ UNCHANGED <<batchVars, stage, available, coordVars, game, count, batch, offset, seen>>

ReserveFlush(w) ==
    /\ pc[w] = "reserve"
    /\ active # NoBatch /\ ~HasRoom(count[w])
    /\ Flush
    /\ batch' = IF FlushGivesBatch THEN [batch EXCEPT ![w] = active] ELSE batch
    /\ Goto(w, IF FlushGivesBatch THEN "push" ELSE "pool")
    /\ UNCHANGED <<free, ready, reserved, committed, entries, poolMtx,
                   stage, available, coordVars, game, count, offset, seen>>

ReservePush(w) ==
    /\ pc[w] = "push"
    /\ ready' = Append(ready, batch[w])
    /\ batch' = [batch EXCEPT ![w] = NoBatch]
    /\ Goto(w, "pool")
    /\ UNCHANGED <<free, active, reserved, committed, entries, claimed, poolMtx,
                   stage, available, coordVars, game, count, offset, seen>>

(* pool_cv_.wait: the predicate is tested with pool_mtx_ held.               *)
PoolShutDown(w) ==
    /\ pc[w] = "pool" /\ poolMtx = NoThread
    /\ ShutDown
    /\ Goto(w, "exited")
    /\ UNCHANGED <<batchVars, stage, available, coordVars, game, count, batch, offset, seen>>

PoolTake(w) ==
    /\ pc[w] = "pool" /\ poolMtx = NoThread
    /\ ~ShutDown /\ free # << >>
    /\ batch' = [batch EXCEPT ![w] = free[Len(free)]]
    /\ free' = SubSeq(free, 1, Len(free) - 1)
    /\ Goto(w, "install")
    /\ UNCHANGED <<active, ready, reserved, committed, entries, claimed, poolMtx,
                   stage, available, coordVars, game, count, offset, seen>>

PoolEmpty(w) ==
    /\ pc[w] = "pool" /\ poolMtx = NoThread
    /\ ~ShutDown /\ free = << >>
    /\ poolMtx' = w
    /\ Goto(w, "block")
    /\ UNCHANGED <<free, active, ready, reserved, committed, entries, claimed,
                   stage, available, coordVars, game, count, batch, offset, seen>>

(* The predicate was false: release pool_mtx_ and block, atomically.         *)
PoolBlock(w) ==
    /\ pc[w] = "block"
    /\ poolMtx' = NoThread
    /\ Goto(w, "wait")
    /\ UNCHANGED <<free, active, ready, reserved, committed, entries, claimed,
                   stage, available, coordVars, game, count, batch, offset, seen>>

(* A condition variable may wake a thread nobody notified.                   *)
SpuriousWake(w) ==
    /\ pc[w] = "wait"
    /\ Goto(w, "pool")
    /\ UNCHANGED <<batchVars, stage, available, coordVars, game, count, batch, offset, seen>>

LaggingCommitter(b) == \E v \in Workers : pc[v] = "decide" /\ batch[v] = b

ResetKeepsEntries(b) ==                       \* mutant: entries not cleared
    /\ reserved' = [reserved EXCEPT ![b] = 0]
    /\ committed' = [committed EXCEPT ![b] = 0]
    /\ claimed' = [claimed EXCEPT ![b] = FALSE]
    /\ UNCHANGED entries

(* Batch::reset(). *)
Reset(b) ==
    /\ reserved' = [reserved EXCEPT ![b] = 0]
    /\ committed' = [committed EXCEPT ![b] = 0]
    /\ entries' = [entries EXCEPT ![b] = {}]
    /\ claimed' = [claimed EXCEPT ![b] = FALSE]

Install(w) ==
    /\ pc[w] = "install"
    /\ active = NoBatch
    /\ CommitterMayLag \/ ~LaggingCommitter(batch[w])
    /\ active' = batch[w]
    /\ Reset(batch[w])
    /\ batch' = [batch EXCEPT ![w] = NoBatch]
    /\ Goto(w, "loop")
    /\ UNCHANGED <<free, ready, poolMtx, stage, available, coordVars, game, count,
                   offset, seen>>

InstallRaced(w) ==
    /\ pc[w] = "install"
    /\ active # NoBatch
    /\ Goto(w, "return")
    /\ UNCHANGED <<batchVars, stage, available, coordVars, game, count, batch, offset, seen>>

ReturnCandidate(w) ==
    /\ pc[w] = "return" /\ poolMtx = NoThread
    /\ free' = Append(free, batch[w])
    /\ batch' = [batch EXCEPT ![w] = NoBatch]
    /\ pc' \in Notified([pc EXCEPT ![w] = "loop"])
    /\ UNCHANGED <<active, ready, reserved, committed, entries, claimed, poolMtx,
                   stage, available, coordVars, game, count, offset, seen>>

-----------------------------------------------------------------------------
(* The worker: tensor generation and commit().  From AppendEntry on the     *)
(* game belongs to the batch, not to the worker.                            *)

AppendEntry(w) ==
    /\ pc[w] = "write"
    /\ entries' = [entries EXCEPT ![batch[w]] =
          @ \cup {[game |-> game[w], start |-> offset[w], count |-> count[w]]}]
    /\ game' = [game EXCEPT ![w] = NoGame]
    /\ Goto(w, "count")
    /\ UNCHANGED <<free, active, ready, reserved, committed, claimed, poolMtx,
                   stage, available, coordVars, count, batch, offset, seen>>

CountCommitted(w) ==
    /\ pc[w] = "count"
    /\ committed' = [committed EXCEPT ![batch[w]] = @ + count[w]]
    /\ seen' = [seen EXCEPT ![w] = committed[batch[w]] + count[w]]
    /\ Goto(w, "decide")
    /\ UNCHANGED <<free, active, ready, reserved, entries, claimed, poolMtx,
                   stage, available, coordVars, game, count, batch, offset>>

(* Is this committer the one that pushes the batch?                          *)
CommitClaims(w) ==
    /\ ~claimed[batch[w]]
    /\ \/ seen[w] = MaxTensors
       \/ active # batch[w] /\ seen[w] = reserved[batch[w]]

CommitDecide(w) ==
    /\ pc[w] = "decide"
    /\ active' = IF seen[w] = MaxTensors /\ active = batch[w] THEN NoBatch ELSE active
    /\ IF CommitClaims(w)
       THEN /\ claimed' = [claimed EXCEPT ![batch[w]] = TRUE]
            /\ Goto(w, "finish")
            /\ batch' = batch
       ELSE /\ claimed' = claimed
            /\ Goto(w, "idle")
            /\ batch' = [batch EXCEPT ![w] = NoBatch]
    /\ count' = [count EXCEPT ![w] = 0]
    /\ offset' = [offset EXCEPT ![w] = 0]
    /\ seen' = [seen EXCEPT ![w] = 0]
    /\ UNCHANGED <<free, ready, reserved, committed, entries, poolMtx,
                   stage, available, coordVars, game>>

CommitPush(w) ==
    /\ pc[w] = "finish"
    /\ ready' = Append(ready, batch[w])
    /\ batch' = [batch EXCEPT ![w] = NoBatch]
    /\ Goto(w, "idle")
    /\ UNCHANGED <<free, active, reserved, committed, entries, claimed, poolMtx,
                   stage, available, coordVars, game, count, offset, seen>>

-----------------------------------------------------------------------------
(* The coordinator.  Its waits on ready_cv_ are all timed, so a notification *)
(* only shortens them and the wait needs no state: a coordinator in "pop"   *)
(* keeps looking.                                                           *)

CoordTop(c) ==
    /\ cpc[c] = "top"
    /\ cpc' = [cpc EXCEPT ![c] = IF stage = "running" THEN "pop" ELSE "exited"]
    /\ UNCHANGED <<batchVars, stage, available, workerVars, cbatch>>

PopReady(c) ==
    /\ cpc[c] = "pop"
    /\ ready # << >>
    /\ cbatch' = [cbatch EXCEPT ![c] = Head(ready)]
    /\ ready' = Tail(ready)
    /\ cpc' = [cpc EXCEPT ![c] = "infer"]
    /\ UNCHANGED <<free, active, reserved, committed, entries, claimed, poolMtx,
                   stage, available, workerVars>>

PopShutDownDrained(c) ==                      \* mutant: waits for the active batch too
    /\ cpc[c] = "pop"
    /\ ready = << >> /\ ShutDown /\ active = NoBatch
    /\ cpc' = [cpc EXCEPT ![c] = "exited"]
    /\ UNCHANGED <<batchVars, stage, available, workerVars, cbatch>>

PopShutDown(c) ==
    /\ cpc[c] = "pop"
    /\ ready = << >> /\ ShutDown
    /\ cpc' = [cpc EXCEPT ![c] = "exited"]
    /\ UNCHANGED <<batchVars, stage, available, workerVars, cbatch>>

(* The active batch has timed out.  Its rows still being generated, the last *)
(* committer pushes it; otherwise the coordinator does.                     *)
TimeoutFlush(c) ==
    /\ cpc[c] = "pop"
    /\ active # NoBatch /\ reserved[active] > 0
    /\ Flush
    /\ IF FlushGivesBatch
       THEN /\ cbatch' = [cbatch EXCEPT ![c] = active]
            /\ cpc' = [cpc EXCEPT ![c] = "push"]
       ELSE UNCHANGED coordVars
    /\ UNCHANGED <<free, ready, reserved, committed, entries, poolMtx,
                   stage, available, workerVars>>

(* The flushed batch goes behind what was pushed meanwhile, and the front is *)
(* popped under the same hold of ready_mtx_.                                *)
PushFlushedAndPop(c) ==
    /\ cpc[c] = "push"
    /\ LET q == Append(ready, cbatch[c])
       IN  ready' = Tail(q) /\ cbatch' = [cbatch EXCEPT ![c] = Head(q)]
    /\ cpc' = [cpc EXCEPT ![c] = "infer"]
    /\ UNCHANGED <<free, active, reserved, committed, entries, claimed, poolMtx,
                   stage, available, workerVars>>

AnsweredFromSecond(b) ==                      \* mutant: off by one over the entries
    {e.game : e \in {x \in entries[b] : x.start # 0}}

Answered(b) == IF committed[b] = 0 THEN {} ELSE {e.game : e \in entries[b]}

(* Inference over the first committed_count rows, then every entry's game   *)
(* gets its evs and goes back to the available queue.                       *)
InferAndDeliver(c) ==
    /\ cpc[c] = "infer"
    /\ available' = available \cup Answered(cbatch[c])
    /\ cpc' = [cpc EXCEPT ![c] = "recycle"]
    /\ UNCHANGED <<batchVars, stage, workerVars, cbatch>>

Recycle(c) ==
    /\ cpc[c] = "recycle" /\ poolMtx = NoThread
    /\ free' = Append(free, cbatch[c])
    /\ cbatch' = [cbatch EXCEPT ![c] = NoBatch]
    /\ cpc' = [cpc EXCEPT ![c] = "top"]
    /\ pc' \in Notified(pc)
    /\ UNCHANGED <<active, ready, reserved, committed, entries, claimed, poolMtx,
                   stage, available, game, count, batch, offset, seen>>

-----------------------------------------------------------------------------
(* SelfPlayOrchestrator::stop(): its own flag and the sentinels, then        *)
(* BatchManager::shutdown(), whose store takes no lock.                     *)

StopSignal ==
    /\ stage = "running"
    /\ stage' = "signalled"
    /\ UNCHANGED <<batchVars, available, workerVars, coordVars>>

StopFlag ==
    /\ stage = "signalled"
    /\ stage' = "flagged"
    /\ UNCHANGED <<batchVars, available, workerVars, coordVars>>

StopNotify ==
    /\ stage = "flagged"
    /\ stage' = "notified"
    /\ pc' = [w \in Workers |-> IF pc[w] = "wait" THEN "pool" ELSE pc[w]]
    /\ UNCHANGED <<batchVars, available, game, count, batch, offset, seen, coordVars>>

-----------------------------------------------------------------------------
ReserveStep(w) ==
    \/ ReserveLoop(w) \/ ReserveRows(w) \/ ReserveNoActive(w) \/ ReserveFlush(w)
    \/ ReservePush(w) \/ PoolShutDown(w) \/ PoolTake(w) \/ PoolEmpty(w)
    \/ PoolBlock(w) \/ Install(w) \/ InstallRaced(w) \/ ReturnCandidate(w)

CommitStep(w) ==
    AppendEntry(w) \/ CountCommitted(w) \/ CommitDecide(w) \/ CommitPush(w)

WorkerStep(w) == TakeGame(w) \/ TakeSentinel(w) \/ ReserveStep(w) \/ CommitStep(w)

CoordStep(c) ==
    \/ CoordTop(c) \/ PopReady(c) \/ PopShutDown(c) \/ PushFlushedAndPop(c)
    \/ InferAndDeliver(c) \/ Recycle(c)

Work ==
    \/ \E w \in Workers : WorkerStep(w)
    \/ \E c \in Coordinators : CoordStep(c) \/ TimeoutFlush(c)

Stop == StopSignal \/ StopFlag \/ StopNotify

Next == Work \/ Stop \/ \E w \in Workers : SpuriousWake(w)

Spec == Init /\ [][Next]_vars

(* Threads keep running, the timeout of an active batch eventually fires and *)
(* stop(), once called, runs through.  Nobody has to call stop().           *)
Fairness ==
    /\ \A w \in Workers : WF_vars(WorkerStep(w))
    /\ \A c \in Coordinators : WF_vars(CoordStep(c)) /\ WF_vars(TimeoutFlush(c))
    /\ WF_vars(StopFlag \/ StopNotify)

(* The runs whose liveness is checked have no spurious wake-ups: a thread    *)
(* woken for nothing over and over could hold pool_mtx_ against the others.  *)
StopSpec == Init /\ [][Work \/ Stop]_vars /\ Fairness

-----------------------------------------------------------------------------
(* Properties.                                                              *)

WorkerPCs == {"idle", "loop", "reserve", "push", "pool", "block", "wait", "install",
              "return", "write", "count", "decide", "finish", "exited"}
CoordPCs  == {"top", "pop", "push", "infer", "recycle", "exited"}

(* Every variable holds a value of its type.  Beyond the shapes: neither    *)
(* counter ever passes max_tensors_, so a row index never leaves the        *)
(* storage tensor of a batch (batch_manager.h:111-115).                     *)
TypeOK ==
    /\ free \in Seq(Batches) /\ ready \in Seq(Batches)
    /\ active \in Batches \cup {NoBatch}
    /\ reserved \in [Batches -> 0 .. MaxTensors]
    /\ committed \in [Batches -> 0 .. MaxTensors]
    /\ entries \in [Batches -> SUBSET Entry]
    /\ claimed \in [Batches -> BOOLEAN]
    /\ poolMtx \in Workers \cup {NoThread}
    /\ stage \in Stages
    /\ available \in SUBSET Games
    /\ pc \in [Workers -> WorkerPCs]
    /\ game \in [Workers -> Games \cup {NoGame}]
    /\ count \in [Workers -> 0 .. MaxRequests]
    /\ batch \in [Workers -> Batches \cup {NoBatch}]
    /\ offset \in [Workers -> 0 .. MaxTensors]
    /\ seen \in [Workers -> 0 .. MaxTensors]
    /\ cpc \in [Coordinators -> CoordPCs]
    /\ cbatch \in [Coordinators -> Batches \cup {NoBatch}]

(* The worker has rows reserved in b that are not yet counted.               *)
Writing(w, b) == pc[w] \in {"write", "count"} /\ batch[w] = b

Rows(start, n) == start .. start + n - 1

(* A batch on its way to a coordinator, or being inferred.                   *)
Pushed(b) ==
    \/ \E i \in 1 .. Len(ready) : ready[i] = b
    \/ \E w \in Workers : pc[w] \in {"push", "finish"} /\ batch[w] = b
    \/ \E c \in Coordinators : cpc[c] \in {"push", "infer"} /\ cbatch[c] = b

(* "When all reserved slots in the batch are committed, the batch is pushed  *)
(* to the ready queue" (batch_manager.h:165): every reserved row of a       *)
(* pushed batch is committed, nobody is still writing into it, and it is no *)
(* longer the active batch.                                                 *)
PushedComplete ==
    \A b \in Batches : Pushed(b) =>
        /\ committed[b] = reserved[b]
        /\ \A w \in Workers : ~Writing(w, b)
        /\ active # b

(* Rows of one batch are written by one worker each: two reservations in the *)
(* same use of a batch never overlap, nor does a reservation overlap the    *)
(* rows of an entry already committed (batch_manager.h:112-115).            *)
RowsDisjoint ==
    \A b \in Batches, w \in Workers : Writing(w, b) =>
        /\ Rows(offset[w], count[w]) \subseteq 0 .. reserved[b] - 1
        /\ \A v \in Workers \ {w} : Writing(v, b) =>
              Rows(offset[w], count[w]) \cap Rows(offset[v], count[v]) = {}
        /\ \A e \in entries[b] : e.start # offset[w] =>
              Rows(offset[w], count[w]) \cap Rows(e.start, e.count) = {}

(* The places that hold b.  A batch in none of them has been detached from   *)
(* active_batch_ with rows outstanding and waits for its last committer.    *)
CandidateOf(w, b) == pc[w] \in {"install", "return"} /\ batch[w] = b
PusherOf(w, b)    == pc[w] \in {"push", "finish"} /\ batch[w] = b
CoordOf(c, b)     == cpc[c] \in {"push", "infer", "recycle"} /\ cbatch[c] = b

Places(b) ==
    {<<"pool", i>> : i \in {j \in 1 .. Len(free) : free[j] = b}}
    \cup {<<"ready", i>> : i \in {j \in 1 .. Len(ready) : ready[j] = b}}
    \cup {<<"worker", w>> : w \in {v \in Workers : CandidateOf(v, b) \/ PusherOf(v, b)}}
    \cup {<<"coordinator", c>> : c \in {d \in Coordinators : CoordOf(d, b)}}
    \cup {<<"active", a>> : a \in {active} \cap {b}}

(* "the sole pusher to ready_batches_" (batch_manager.h:55-58): a batch is   *)
(* never in two places at a time.  Pushed twice, it would be inferred twice *)
(* and its games queued twice.                                              *)
AtMostOnePlace == \A b \in Batches : \A p, q \in Places(b) : p = q

(* A batch is in no place only while some worker still has to commit rows of *)
(* it; otherwise it would never come back to the pool.                      *)
NoBatchLost ==
    \A b \in Batches : Places(b) = {} =>
        \E w \in Workers : pc[w] \in {"write", "count", "decide"} /\ batch[w] = b

(* The batch still has to be inferred for the games of its entries.          *)
Undelivered(b) ==
    /\ \A i \in 1 .. Len(free) : free[i] # b
    /\ \A w \in Workers : ~CandidateOf(w, b)
    /\ \A c \in Coordinators : ~(cpc[c] = "recycle" /\ cbatch[c] = b)

GameHolders(g) ==
    {<<"worker", w>> : w \in {v \in Workers : game[v] = g}}
    \cup (UNION {{<<"batch", b, e.start>> : e \in {x \in entries[b] : x.game = g}} :
                 b \in {x \in Batches : Undelivered(x)}})
    \cup (IF g \in available THEN {<<"queue">>} ELSE {})

(* "Only ever accessed by one thread at a time - no locking on per-game      *)
(* data" (game_instance.h:42): a game is in the available queue, or with    *)
(* one worker, or in one entry of one batch, and never in two of them; no   *)
(* game is ever lost, not even by a worker that stops with one in hand      *)
(* (which keeps it for good).                                               *)
GameHeldOnce == \A g \in Games : Cardinality(GameHolders(g)) = 1

(* The batcher implements the exchange: its games are idle, taken by a       *)
(* worker until the worker appends its entry, then submitted until the      *)
(* coordinator has delivered the batch the entry is in.                     *)
Taken     == {game[w] : w \in Workers} \ {NoGame}
Submitted == UNION {{e.game : e \in entries[b]} : b \in {x \in Batches : Undelivered(x)}}

Exchange == INSTANCE InferenceExchange
                WITH idle <- available, taken <- Taken, submitted <- Submitted,
                     open <- stage = "running"

(* Every step of the batcher, stop() included, is a step of the exchange or  *)
(* changes none of its state: no game is answered that was not submitted,   *)
(* answered twice, or dropped from a batch.                                 *)
ImplementsExchange == Exchange!Safety

(* Until stop() is called the exchange's promise to answer is kept as well.  *)
(* Needs the timeout, which pushes a batch nobody fills up, and the last    *)
(* committer of a batch detached with rows open (batch_manager.h:184-228).  *)
ImplementsExchangeLive == Exchange!Spec

(* The batcher never wedges: while a worker waits for room, some worker      *)
(* gets rows or stop() is called, although every batch may be full,         *)
(* detached or in inference (batch_manager.h:131, 273).                     *)
SomeoneGetsRows ==
    \A w \in Workers : (pc[w] \in {"loop", "pool", "wait"})
                       ~> (stage # "running" \/ \E v \in Workers : pc[v] = "write")

(* "Signal shutdown, join all threads" (orchestrator.h:44): stop() returns,  *)
(* so every thread it joins ends.                                           *)
StopJoinsAll ==
    (stage = "notified") ~> /\ \A w \in Workers : pc[w] = "exited"
                            /\ \A c \in Coordinators : cpc[c] = "exited"

(* What stop() does guarantee: the coordinators end, and every worker ends   *)
(* or is stranded in the pool wait of reserve(), nowhere else.              *)
StopStrandsOnlyInPool ==
    (stage = "notified") ~> [](/\ \A w \in Workers : pc[w] \in {"exited", "wait"}
                               /\ \A c \in Coordinators : cpc[c] = "exited")
=============================================================================
