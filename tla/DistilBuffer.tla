---------------------------- MODULE DistilBuffer ----------------------------
(***************************************************************************)
(* The replay buffer of the distillation pipeline (distil/replay_buffer.h)  *)
(* with the threads that use it: workers (distil_worker.cc) append their    *)
(* samples and block while it is full, the trainer (distil_loop.cc) draws   *)
(* batches and evicts the oldest samples, and stop() is called by run() at  *)
(* its end or by anyone at any time.                                        *)
(*                                                                         *)
(* mu_ is explicit because a wait on a condition variable tests its         *)
(* predicate and blocks in two steps, with mu_ held in between, and stop()  *)
(* does not take mu_.  A sample is the number of batches drawn since it was *)
(* appended: enough to see when it is overwritten, and for how long it      *)
(* lives.                                                                   *)
(***************************************************************************)
EXTENDS Integers, FiniteSets

CONSTANTS Producers,    \* the worker threads
          Capacity, MinStart, BatchSize,
          UsesNum, UsesDen,   \* samples_per_train = UsesNum / UsesDen
          MaxAdd,       \* the most samples of one add_batch()
          None

(* What validate_distil() accepts (config_validator.cc:163-176).             *)
ASSUME BufferAssumption ==
    /\ BatchSize \in Nat \ {0} /\ MinStart \in Nat /\ Capacity \in Nat
    /\ BatchSize <= MinStart /\ MinStart <= Capacity
    /\ UsesNum \in Nat \ {0} /\ UsesDen \in Nat \ {0} /\ UsesDen <= UsesNum
    /\ MaxAdd \in Nat \ {0}
    /\ IsFiniteSet(Producers) /\ "trainer" \notin Producers
    /\ None \notin Producers \cup {"trainer"}

VARIABLES
    ring,               \* buffer_: batches drawn since the slot was written
    head, tail, size,   \* head_, tail_, size_
    started, credit,    \* started_; eviction_credit_, in units of 1 / UsesNum
    stop,               \* stop_
    mutex,              \* the thread that holds mu_
    ppc, left,          \* a worker's place in add_batch(), and samples to add
    tpc,                \* the trainer's place in run() and draw_batch()
    picks,              \* its picks: slot -> the sample it picked there
    batch,              \* actual_batch and draining
    stopFlag, spc,      \* stop_flag_, and another thread's place in stop()
    leave               \* have the sentinels been pushed for the workers?

ringVars   == <<ring, head, tail, size, started, credit>>
workerVars == <<ppc, left>>
drawVars   == <<picks, batch>>
stopVars   == <<stop, stopFlag, spc, leave>>
vars == <<ringVars, mutex, workerVars, tpc, drawVars, stopVars>>

Slots == 0 .. Capacity - 1

(* i % capacity_, for the i that occur.                                      *)
Wrap(i) == IF i < Capacity THEN i ELSE i - Capacity

LiveSlots == {Wrap(tail + o) : o \in 0 .. size - 1}

NoPicks == [s \in {} |-> 0]

Init ==
    /\ ring = [s \in Slots |-> 0]
    /\ head = 0 /\ tail = 0 /\ size = 0
    /\ started = FALSE /\ credit = 0
    /\ stop = FALSE /\ stopFlag = FALSE /\ spc = "off" /\ leave = FALSE
    /\ mutex = None
    /\ ppc = [p \in Producers |-> "turn"] /\ left = [p \in Producers |-> 0]
    /\ tpc = "loop" /\ picks = NoPicks
    /\ batch = [actual |-> 0, draining |-> FALSE]

(* Notifications reach the threads that are blocked, which test again.       *)
WakeTrainer   == tpc' = IF tpc = "blocked" THEN "draw" ELSE tpc
WakeProducers == ppc' = [p \in Producers |-> IF ppc[p] = "blocked" THEN "test" ELSE ppc[p]]

-----------------------------------------------------------------------------
(* A worker: it plays a turn and adds its samples, or takes the sentinel.    *)

Turn(p) ==
    /\ ppc[p] = "turn" /\ ~leave
    /\ \E n \in 1 .. MaxAdd : left' = [left EXCEPT ![p] = n]
    /\ ppc' = [ppc EXCEPT ![p] = "test"]
    /\ UNCHANGED <<ringVars, mutex, tpc, drawVars, stopVars>>

TakeSentinel(p) ==
    /\ ppc[p] = "turn" /\ leave
    /\ ppc' = [ppc EXCEPT ![p] = "gone"]
    /\ UNCHANGED <<ringVars, mutex, left, tpc, drawVars, stopVars>>

(* Mutant of AddStopped: it tries again instead of returning.                *)
AddStoppedRetries(p) ==
    /\ ppc[p] = "test" /\ mutex = None
    /\ stop
    /\ UNCHANGED vars

(* add_batch(): stopped, it discards the rest.                               *)
AddStopped(p) ==
    /\ ppc[p] = "test" /\ mutex = None
    /\ stop
    /\ ppc' = [ppc EXCEPT ![p] = "turn"]
    /\ left' = [left EXCEPT ![p] = 0]
    /\ UNCHANGED <<ringVars, mutex, tpc, drawVars, stopVars>>

(* Mutant of ToWrite: one slot too many.                                     *)
ToWriteOneMore(p) ==
    IF Capacity - size + 1 < left[p] THEN Capacity - size + 1 ELSE left[p]

(* add_batch(): as much as fits is appended.                                 *)
ToWrite(p) == IF Capacity - size < left[p] THEN Capacity - size ELSE left[p]

Written(n) == {Wrap(head + o) : o \in 0 .. n - 1}

AddWrites(p) ==
    LET n == ToWrite(p)
    IN  /\ ppc[p] = "test" /\ mutex = None
        /\ ~stop /\ size < Capacity
        /\ ring' = [s \in Slots |-> IF s \in Written(n) THEN 0 ELSE ring[s]]
        /\ head' = Wrap(head + n)
        /\ size' = size + n
        /\ left' = [left EXCEPT ![p] = @ - n]
        /\ ppc' = [ppc EXCEPT ![p] = IF left[p] = n THEN "turn" ELSE "test"]
        /\ WakeTrainer
        /\ UNCHANGED <<tail, started, credit, mutex, drawVars, stopVars>>

AddFull(p) ==
    /\ ppc[p] = "test" /\ mutex = None
    /\ ~stop /\ size = Capacity
    /\ mutex' = p
    /\ ppc' = [ppc EXCEPT ![p] = "block"]
    /\ UNCHANGED <<ringVars, left, tpc, drawVars, stopVars>>

AddBlocks(p) ==
    /\ ppc[p] = "block"
    /\ mutex' = None
    /\ ppc' = [ppc EXCEPT ![p] = "blocked"]
    /\ UNCHANGED <<ringVars, left, tpc, drawVars, stopVars>>

-----------------------------------------------------------------------------
(* The trainer: run() draws batch after batch until it is told to stop, has  *)
(* trained max_steps, or the student has converged.                         *)

LoopDraws ==
    /\ tpc = "loop" /\ ~stopFlag
    /\ tpc' = "draw"
    /\ UNCHANGED <<ringVars, mutex, workerVars, drawVars, stopVars>>

LoopBreaks ==
    /\ tpc = "loop"
    /\ tpc' = "stop"
    /\ UNCHANGED <<ringVars, mutex, workerVars, drawVars, stopVars>>

Required == IF started \/ BatchSize > MinStart THEN BatchSize ELSE MinStart

DrawWaits ==
    /\ tpc = "draw" /\ mutex = None
    /\ ~stop /\ size < Required
    /\ mutex' = "trainer"
    /\ tpc' = "block"
    /\ UNCHANGED <<ringVars, workerVars, drawVars, stopVars>>

DrawBlocks ==
    /\ tpc = "block"
    /\ mutex' = None
    /\ tpc' = "blocked"
    /\ UNCHANGED <<ringVars, workerVars, drawVars, stopVars>>

(* Nothing is left to drain: draw_batch() returns 0 and run() breaks.        *)
DrawEmpty ==
    /\ tpc = "draw" /\ mutex = None
    /\ stop /\ size = 0
    /\ tpc' = "stop"
    /\ UNCHANGED <<ringVars, mutex, workerVars, drawVars, stopVars>>

(* Indices are picked at random with replacement from the live window, under *)
(* the lock; the samples are copied after it is released.                   *)
DrawPicks ==
    LET draining == size < Required
        actual   == IF draining THEN size ELSE BatchSize
    IN  /\ tpc = "draw" /\ mutex = None
        /\ size >= Required \/ (stop /\ size > 0)
        /\ batch' = [actual |-> actual, draining |-> draining]
        /\ started' = TRUE
        /\ ring' = [s \in Slots |-> IF s \in LiveSlots THEN ring[s] + 1 ELSE ring[s]]
        /\ \E P \in SUBSET LiveSlots :
              /\ Cardinality(P) \in 1 .. actual
              /\ picks' = [s \in P |-> ring'[s]]
        /\ tpc' = "copy"
        /\ UNCHANGED <<head, tail, size, credit, mutex, workerVars, stopVars>>

(* Mutant of Credit: the fraction is not carried to the next draw.           *)
CreditOfThisDraw == IF batch.draining THEN credit ELSE BatchSize * UsesDen

(* The copy is complete: evict under the lock.                               *)
Credit == IF batch.draining THEN credit ELSE credit + BatchSize * UsesDen

Evicted ==
    IF batch.draining THEN batch.actual
    ELSE IF Credit \div UsesNum > size THEN size ELSE Credit \div UsesNum

DrawEvicts ==
    /\ tpc = "copy" /\ mutex = None
    /\ credit' = IF batch.draining THEN credit ELSE Credit - Evicted * UsesNum
    /\ tail' = Wrap(tail + Evicted)
    /\ size' = size - Evicted
    /\ picks' = NoPicks
    /\ tpc' = IF Evicted > 0 THEN "wake" ELSE "loop"
    /\ UNCHANGED <<ring, head, started, mutex, workerVars, batch, stopVars>>

(* Mutant of DrawWakes: the freed space is not announced.                    *)
DrawWakesNobody ==
    /\ tpc = "wake"
    /\ tpc' = "loop"
    /\ UNCHANGED <<ringVars, mutex, workerVars, drawVars, stopVars>>

DrawWakes ==
    /\ tpc = "wake"
    /\ WakeProducers
    /\ tpc' = "loop"
    /\ UNCHANGED <<ringVars, mutex, left, drawVars, stopVars>>

(* The end of run(): buffer_->stop(), then the orchestrator pushes the       *)
(* sentinels to the front of the queue and joins the workers.               *)
RunStops ==
    /\ tpc = "stop"
    /\ stop' = TRUE
    /\ tpc' = "notify"
    /\ UNCHANGED <<ringVars, mutex, workerVars, drawVars, stopFlag, spc, leave>>

RunNotifies ==
    /\ tpc = "notify"
    /\ WakeProducers
    /\ tpc' = "sentinels"
    /\ UNCHANGED <<ringVars, mutex, left, drawVars, stopVars>>

RunPushesSentinels ==
    /\ tpc = "sentinels"
    /\ leave' = TRUE
    /\ tpc' = "join"
    /\ UNCHANGED <<ringVars, mutex, workerVars, drawVars, stop, stopFlag, spc>>

RunJoins ==
    /\ tpc = "join"
    /\ \A p \in Producers : ppc[p] = "gone"
    /\ tpc' = "done"
    /\ UNCHANGED <<ringVars, mutex, workerVars, drawVars, stopVars>>

-----------------------------------------------------------------------------
(* DistilLoopT::stop() from another thread.                                  *)

StopFlag ==
    /\ spc = "off"
    /\ stopFlag' = TRUE
    /\ spc' = "buffer"
    /\ UNCHANGED <<ringVars, mutex, workerVars, tpc, drawVars, stop, leave>>

StopBuffer ==
    /\ spc = "buffer"
    /\ stop' = TRUE
    /\ spc' = "consumer"
    /\ UNCHANGED <<ringVars, mutex, workerVars, tpc, drawVars, stopFlag, leave>>

StopNotifiesConsumer ==
    /\ spc = "consumer"
    /\ WakeTrainer
    /\ spc' = "producers"
    /\ UNCHANGED <<ringVars, mutex, workerVars, drawVars, stop, stopFlag, leave>>

StopNotifiesProducers ==
    /\ spc = "producers"
    /\ WakeProducers
    /\ spc' = "returned"
    /\ UNCHANGED <<ringVars, mutex, left, tpc, drawVars, stop, stopFlag, leave>>

-----------------------------------------------------------------------------
(* A condition variable may wake a thread for no reason.                     *)
SpuriousWake ==
    \/ /\ tpc = "blocked"
       /\ tpc' = "draw"
       /\ UNCHANGED <<ringVars, mutex, workerVars, drawVars, stopVars>>
    \/ \E p \in Producers :
       /\ ppc[p] = "blocked"
       /\ ppc' = [ppc EXCEPT ![p] = "test"]
       /\ UNCHANGED <<ringVars, mutex, left, tpc, drawVars, stopVars>>

WorkerStep(p) ==
    \/ Turn(p) \/ TakeSentinel(p)
    \/ AddStopped(p) \/ AddWrites(p) \/ AddFull(p) \/ AddBlocks(p)

DrawStep ==
    \/ LoopDraws \/ DrawWaits \/ DrawBlocks \/ DrawEmpty
    \/ DrawPicks \/ DrawEvicts \/ DrawWakes

RunEnds == RunStops \/ RunNotifies \/ RunPushesSentinels \/ RunJoins

StopStep == StopFlag \/ StopBuffer \/ StopNotifiesConsumer \/ StopNotifiesProducers

Flow == DrawStep \/ \E p \in Producers : WorkerStep(p)

Next == Flow \/ LoopBreaks \/ RunEnds \/ StopStep \/ SpuriousWake

Spec == Init /\ [][Next]_vars

(* Threads keep running.  Nobody has to call stop(), but once called it runs *)
(* through.                                                                 *)
Fairness ==
    /\ \A p \in Producers : WF_vars(WorkerStep(p))
    /\ WF_vars(DrawStep \/ (stopFlag /\ LoopBreaks) \/ RunEnds)
    /\ WF_vars(StopBuffer \/ StopNotifiesConsumer \/ StopNotifiesProducers)

FairSpec == Spec /\ Fairness

-----------------------------------------------------------------------------
(* Properties.                                                              *)

Threads == Producers \cup {"trainer"}
Ending  == {"stop", "notify", "sentinels", "join", "done"}

(* Every variable holds a value of its type; in particular size_ stays within *)
(* 0 .. capacity_ although draw_batch() evicts under another lock section   *)
(* than the one it picked in.                                               *)
TypeOK ==
    /\ ring \in [Slots -> Nat]
    /\ head \in Slots /\ tail \in Slots /\ size \in 0 .. Capacity
    /\ started \in BOOLEAN /\ credit \in Nat
    /\ stop \in BOOLEAN /\ stopFlag \in BOOLEAN /\ leave \in BOOLEAN
    /\ mutex \in Threads \cup {None}
    /\ ppc \in [Producers -> {"turn", "test", "block", "blocked", "gone"}]
    /\ left \in [Producers -> 0 .. MaxAdd]
    /\ tpc \in {"loop", "draw", "block", "blocked", "copy", "wake",
                "stop", "notify", "sentinels", "join", "done"}
    /\ DOMAIN picks \subseteq Slots /\ \A s \in DOMAIN picks : picks[s] \in Nat
    /\ batch \in [actual : 0 .. Capacity, draining : BOOLEAN]
    /\ spc \in {"off", "buffer", "consumer", "producers", "returned"}

(* "Producers [...] cannot overwrite our sampled indices" (replay_buffer.h:   *)
(* 178-180): what the trainer copies without the lock is what it picked     *)
(* with it, while the workers keep appending.                               *)
PicksUntouched == \A s \in DOMAIN picks : s \in LiveSlots /\ ring[s] = picks[s]

(* The live window is in the order of appending, around the end of the ring, *)
(* so that eviction always takes the oldest samples.                        *)
OldestFirst ==
    \A i, j \in 0 .. size - 1 : i < j => ring[Wrap(tail + i)] >= ring[Wrap(tail + j)]

(* "samples_per_train" (replay_buffer.h:28-37): no sample sees more than       *)
(* capacity * samples_per_train / batch_size draws, rounded up: the carried *)
(* fractions add up and nothing lingers.                                    *)
LifetimeBound ==
    \A s \in LiveSlots : (ring[s] - 1) * BatchSize * UsesDen < Capacity * UsesNum

(* Workers blocked on a full buffer and a trainer blocked on a short one do   *)
(* not wait for one another: until the run ends or somebody stops it,       *)
(* batches keep coming (replay_buffer.h:96, 156, 213).  A thread woken for  *)
(* nothing over and over could keep mu_ from the others, so that spurious   *)
(* wake-ups are to cease.                                                   *)
TrainerKeepsDrawing ==
    <>[][~SpuriousWake]_vars => []<>(tpc \in {"copy"} \cup Ending \/ spc # "off")

(* After stop() the trainer and every worker end, unless one of them is left *)
(* blocked on its condition variable.                                       *)
StopEndsUnlessStranded ==
    (spc = "returned") ~> \/ tpc \in {"done", "blocked"}
                          \/ tpc = "join" /\ \E p \in Producers : ppc[p] = "blocked"

(* distil_loop.cc:316-317: buffer_->stop() comes first "so any producers      *)
(* blocked on the capacity cap wake up and exit; only then can              *)
(* orchestrator_->stop() join them".                                        *)
RunReturns == (tpc = "join") ~> (tpc = "done")
=============================================================================
