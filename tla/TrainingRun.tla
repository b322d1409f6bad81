---------------------------- MODULE TrainingRun -----------------------------
(***************************************************************************)
(* The two programs that train a network: the training loop, which plays   *)
(* games with the network it trains (training/training_loop.cc), and the   *)
(* distillation loop, which fits it to a teacher's values                  *)
(* (distil/distil_loop.cc).  They share the trainer and the checkpoint     *)
(* directory.  A program is launched, killed at any point, told to stop,   *)
(* and launched again over the directory it left.                          *)
(*                                                                         *)
(* Games and the samples the teacher labels come from other threads and    *)
(* are taken as they come; the device completes a training step at any     *)
(* time.  Rates, temperatures and win rates are small numbers: a decay or  *)
(* a back-off takes one off, down to its floor.                            *)
(***************************************************************************)
EXTENDS Checkpoints, SampleRing

CONSTANTS
    Modes,              \* of {"train", "distil"}
    NumSteps,           \* num_steps, max_steps
    SwapInterval, CheckpointInterval, EvalInterval,
    MaxCheckpoints,
    Capacities,         \* the capacities a launch may be configured with
    MinBuffer,          \* min_buffer_size
    StepsNum, StepsDen, \* train_steps_per_collect
    MaxCollect,         \* games collected at once
    InitialTemperature, MinTemperature, DecayStart, DecayStartValue,
    HeuristicSteps,     \* heuristic_decay_steps
    InitialRate, MinRate, LrPatience,
    LogsOnStart,
    MinSteps, Patience, \* min_steps, convergence_patience
    MaxLaunches,        \* bound on the launches
    MaxGames,           \* bound on the games of all launches
    NoNet               \* no network, no run

(* What validate_training() and validate_distil() ask of a configuration.    *)
ValidTraining ==
    /\ {NumSteps, MinBuffer, SwapInterval, CheckpointInterval, MaxCheckpoints,
        MinTemperature, InitialTemperature, MinRate} \subseteq Nat \ {0}
    /\ \A c \in Capacities : c \in Nat /\ MinBuffer <= c
    /\ MinTemperature <= InitialTemperature
    /\ DecayStart \in Nat /\ DecayStartValue \in Nat
    /\ DecayStartValue > 0 => DecayStartValue >= MinTemperature
    /\ EvalInterval \in Nat

ValidDistil ==
    /\ {NumSteps, CheckpointInterval, MaxCheckpoints, EvalInterval, Patience}
          \subseteq Nat \ {0}
    /\ MinSteps \in Nat /\ MinSteps <= NumSteps

ASSUME TrainingAssumption ==
    /\ Modes \subseteq {"train", "distil"} /\ Modes # {}
    /\ MaxLaunches \in Nat /\ MaxGames \in Nat /\ MaxCollect \in Nat \ {0}
    /\ LogsOnStart \in BOOLEAN
    /\ {StepsNum, StepsDen, InitialRate, LrPatience} \subseteq Nat \ {0}
    /\ HeuristicSteps \in Nat /\ InitialTemperature \in Nat
    /\ "train" \in Modes => ValidTraining
    /\ "distil" \in Modes => ValidDistil

VARIABLES
    mode,       \* which of the programs is run
    files,      \* the checkpoint directory
    launch,     \* number of the launch
    reused,     \* a launch that did not resume found checkpoints in it
    saved,      \* a checkpoint was saved to the end
    origin,     \* the stamps a resumed launch started from, or NoNet
    pc,         \* what the loop does next; "down" without a process
    step,       \* training_step_
    todo,       \* steps left of the batch of steps under way
    owed,       \* pending_train_steps_, in StepsDen-ths
    trainer,    \* trainer_, student_trainer_
    net,        \* inference_'s network, and the step it was published at
    opponent,   \* opponent_inference_'s, NoNet until opponent_ready_
    judged,     \* the weights the last evaluation read
    ring,       \* buffer_
    born,       \* games collected by all launches; a sample is its number
    temperature,
    solver,     \* the solver configuration the workers play by
    plateau,    \* best win rate and evaluations without a better one
    loss,       \* last_loss_, and how many losses the average has taken
    passes,     \* consecutive_passes_
    verdicts,   \* the evaluations of this launch, passed or not
    stop,       \* stop_flag_
    shut,       \* the distillation buffer was stopped
    reason      \* stop_reason_

disk    == <<mode, files, launch, reused, saved, origin, born>>
play    == <<net, opponent, ring, owed, temperature, solver, plateau>>
fit     == <<passes, verdicts, shut, reason>>
process == <<pc, step, todo, trainer, judged, loss, stop, play, fit>>
vars    == <<disk, process>>

Stamp(s) == [by |-> launch, step |-> s]

\* the networks there are
Stamps == [by : 1 .. MaxLaunches, step : 0 .. NumSteps]

\* what is in the files of a checkpoint that were written to their end
ModelFiles     == [weights : Stamps, step : 1 .. NumSteps, temperature : Nat]
OptimizerFiles == [moments : Stamps, rate : Nat]
BufferFiles    == [stamp : Stamps, samples : Seq(Nat)]

\* The tokens are none of the values they stand in for.
ASSUME TokenAssumption ==
    /\ Torn # Missing
    /\ \A t \in {Torn, Missing} :
          t \notin ModelFiles /\ t \notin OptimizerFiles /\ t \notin BufferFiles
    /\ {Half, NoMoments, NoNet} \cap Stamps = {}
    /\ Half # NoNet

InitialSolver == [temperature |-> InitialTemperature, weight |-> HeuristicSteps]

NoPlateau == [best |-> -1, streak |-> 0]
NoLoss    == [last |-> NaN, folds |-> 0]
NoTrainer == NewTrainer(NoNet, InitialRate)

NoProcess ==
    /\ pc = "down" /\ step = 0 /\ todo = 0 /\ owed = 0
    /\ trainer = NoTrainer /\ net = NoNet /\ opponent = NoNet /\ judged = NoNet
    /\ ring = NewRing(0)
    /\ temperature = InitialTemperature /\ solver = InitialSolver
    /\ plateau = NoPlateau /\ loss = NoLoss
    /\ passes = 0 /\ verdicts = <<>>
    /\ stop = FALSE /\ shut = FALSE /\ reason = "not_stopped"

Init ==
    /\ mode \in Modes
    /\ files = [s \in 1 .. NumSteps |-> NoFiles]
    /\ launch = 0 /\ born = 0
    /\ reused = FALSE /\ saved = FALSE /\ origin = NoNet
    /\ NoProcess

------------------------------------------------------------------------------
(* Launch and death                                                          *)

WithBuffer == mode = "train"

(* refresh_opponent_model() draws one of all the checkpoints there are; one  *)
(* that cannot be read leaves the opponent as it was.                        *)
RefreshedOpponent(dir, now, new) ==
    IF Named(dir) = {} THEN new = now
    ELSE \E s \in Named(dir) :
            new = IF Readable(dir[s].model) THEN dir[s].model.weights ELSE now

\* swap_model() with a clone of the trainer's network
Published(t, at) == [weights |-> Clone(t), at |-> at]

(* The constructor and run() up to the loop, of a launch that starts with    *)
(* the trainer t at step at.                                                 *)
Started(t, at, temp, r) ==
    /\ launch' = launch + 1
    /\ trainer' = Waited(t) /\ step' = at /\ ring' = r
    /\ temperature' = temp /\ solver' = InitialSolver
    /\ CASE mode = "train" ->
              /\ net' = Published(t, at)
              /\ RefreshedOpponent(files, NoNet, opponent')
              /\ pc' = IF LogsOnStart THEN "evaluate" ELSE "loop"
         [] mode = "distil" ->
              /\ UNCHANGED <<net, opponent>>
              /\ pc' = "loop"
    /\ UNCHANGED <<mode, files, saved, born, todo, owed, judged, plateau, loss,
                   stop, fit>>

MayLaunch == pc = "down" /\ launch < MaxLaunches

FreshTrainer == NewTrainer([by |-> launch + 1, step |-> 0], InitialRate)

(* Without a flag training starts at step 0 with new weights, whatever the   *)
(* checkpoint directory holds.                                               *)
LaunchFresh ==
    /\ MayLaunch
    /\ \E c \in Capacities : Started(FreshTrainer, 0, InitialTemperature, NewRing(c))
    /\ reused' = (reused \/ Named(files) # {})
    /\ origin' = NoNet

(* --checkpoint: init_from_checkpoint() takes the weights of a checkpoint,   *)
(* here one of the same directory, and nothing else.                         *)
LaunchFromWeights ==
    /\ MayLaunch
    /\ \E s \in Named(files), c \in Capacities :
          /\ Readable(files[s].model)
          /\ Started(Reweighted(FreshTrainer, files[s].model), 0,
                     InitialTemperature, NewRing(c))
    /\ reused' = TRUE
    /\ origin' = NoNet

(* --resume: resume_from_checkpoint() and, for the distillation loop,        *)
(* resume_distil_from_checkpoint().                                          *)
CanResumeByModel == Named(files) # {} /\ Readable(files[Latest(files)].model)

CanResume == Present(files, WithBuffer) /\ Loadable(files, WithBuffer)

SavedTemperatureLost(at) == InitialTemperature

SavedTemperature(at) ==
    IF WithBuffer THEN at.model.temperature ELSE InitialTemperature

\* replay_buffer().load() leaves the ring empty where there is no file
SavedRing(at, capacity) ==
    IF WithBuffer /\ Readable(at.buffer)
    THEN LoadRing(at.buffer.samples, capacity) ELSE NewRing(capacity)

LaunchResumed ==
    /\ MayLaunch /\ CanResume
    /\ LET at == files[Latest(files)]
           t  == Restored(FreshTrainer, at.model, at.optimizer)
       IN  /\ \E c \in Capacities :
                 Started(t, at.model.step, SavedTemperature(at), SavedRing(at, c))
           /\ origin' = [weights |-> t.weights, moments |-> t.moments,
                         buffer  |-> IF WithBuffer /\ Readable(at.buffer)
                                     THEN at.buffer.stamp ELSE NoNet]
    /\ UNCHANGED reused

(* Nothing of a process outlives it.                                         *)
ProcessGone ==
    /\ pc' = "down" /\ step' = 0 /\ todo' = 0 /\ owed' = 0
    /\ trainer' = NoTrainer /\ net' = NoNet /\ opponent' = NoNet /\ judged' = NoNet
    /\ ring' = NewRing(0)
    /\ temperature' = InitialTemperature /\ solver' = InitialSolver
    /\ plateau' = NoPlateau /\ loss' = NoLoss
    /\ passes' = 0 /\ verdicts' = <<>>
    /\ stop' = FALSE /\ shut' = FALSE /\ reason' = "not_stopped"

(* The process is killed.  A file being written is left as it was, or cut.   *)
Writing == pc \in {"model", "optimizer", "buffer"}

Crash ==
    /\ pc # "down"
    /\ ProcessGone
    /\ \/ UNCHANGED files
       \/ Writing /\ files' = [files EXCEPT ![step] = [@ EXCEPT ![pc] = Torn]]
    /\ origin' = NoNet
    /\ UNCHANGED <<mode, launch, reused, saved, born>>

(* run() has returned and the program exits.                                 *)
Exit ==
    /\ pc = "done"
    /\ ProcessGone
    /\ origin' = NoNet
    /\ UNCHANGED <<mode, files, launch, reused, saved, born>>

------------------------------------------------------------------------------
(* The training loop                                                         *)

EndedPast == stop \/ step > NumSteps

Ended == stop \/ step >= NumSteps

FilledPast(r) == Held(r) > MinBuffer

\* there is enough in the buffer to train on
Filled(r) == Held(r) >= MinBuffer

(* collect_completed_games(), and the steps the games collected are worth    *)
(* once the buffer is full enough.  Every game yields a sample.              *)
Collect(n) ==
    LET games == [i \in 1 .. n |-> born + i]
        r     == AddBatch(ring, games)
        due   == owed + n * StepsNum
        steps == due \div StepsDen
    IN  /\ mode = "train" /\ pc = "loop" /\ ~Ended
        /\ born + n <= MaxGames
        /\ ring' = r /\ born' = born + n
        /\ IF Filled(r)
           THEN /\ owed' = due % StepsDen
                /\ todo' = steps
                /\ pc' = IF steps > 0 THEN "step" ELSE "loop"
           ELSE UNCHANGED <<owed, todo, pc>>
        /\ UNCHANGED <<mode, files, launch, reused, saved, origin, step, trainer,
                       judged, loss, stop, net, opponent, temperature, solver,
                       plateau, fit>>

CollectSome == \E n \in 1 .. MaxCollect : Collect(n)

(* The temperature and the heuristic weight after the step at.               *)
Cooled(temp, at) ==
    IF at < DecayStart THEN temp
    ELSE IF at = DecayStart /\ DecayStartValue > 0 THEN DecayStartValue
    ELSE IF temp > MinTemperature THEN temp - 1 ELSE MinTemperature

HeuristicWeight(at) == IF at < HeuristicSteps THEN HeuristicSteps - at ELSE 0

Scheduled(at) ==
    /\ temperature' = Cooled(temperature, at)
    /\ solver' = [temperature |-> temperature', weight |-> HeuristicWeight(at)]

(* do_training_step() of the training loop.  A batch is drawn whenever the   *)
(* buffer holds a sample, which the minimum the loop waits for guarantees.   *)
TrainStep ==
    LET before == LossRead(trainer)
    IN  /\ mode = "train" /\ pc = "step"
        /\ Held(ring) > 0
        /\ trainer' = Trained(trainer, Stamp(step + 1))
        /\ loss' = IF before = NaN THEN loss ELSE [loss EXCEPT !.last = before]
        /\ step' = step + 1
        /\ todo' = todo - 1
        /\ Scheduled(step + 1)
        /\ pc' = "swap"
        /\ UNCHANGED <<disk, judged, stop, net, opponent, ring, owed, plateau, fit>>

(* maybe_swap_model()                                                        *)
Swap ==
    /\ pc = "swap"
    /\ IF step % SwapInterval = 0
       THEN /\ trainer' = Waited(trainer)
            /\ net' = Published(trainer, step)
       ELSE UNCHANGED <<trainer, net>>
    /\ pc' = IF step % CheckpointInterval = 0 THEN "model" ELSE "evaluate"
    /\ UNCHANGED <<disk, step, todo, judged, loss, stop, opponent, ring, owed,
                   temperature, solver, plateau, fit>>

(* maybe_backoff_learning_rate() for an evaluation won at rate.              *)
Lowered(r) == IF r - 1 > MinRate THEN r - 1 ELSE MinRate

Backoff(rate, t) ==
    IF rate > plateau.best
    THEN /\ plateau' = [best |-> rate, streak |-> 0]
         /\ trainer' = t
    ELSE IF plateau.streak + 1 < LrPatience
    THEN /\ plateau' = [plateau EXCEPT !.streak = @ + 1]
         /\ trainer' = t
    ELSE /\ plateau' = [plateau EXCEPT !.streak = 0]
         /\ trainer' = IF t.rate <= MinRate THEN t
                       ELSE WithRate(t, Lowered(t.rate))

WinRates == {0, 1}

(* maybe_evaluate() of the training loop, and the loop over the steps owed.  *)
EvaluateTraining ==
    /\ mode = "train" /\ pc = "evaluate"
    /\ IF EvalInterval > 0 /\ step % EvalInterval = 0
       THEN /\ \E rate \in WinRates : Backoff(rate, Waited(trainer))
            /\ judged' = Weights(Waited(trainer))
       ELSE UNCHANGED <<trainer, plateau, judged>>
    /\ IF todo > 0 /\ ~Ended
       THEN pc' = "step" /\ UNCHANGED todo
       ELSE pc' = "loop" /\ todo' = 0
    /\ UNCHANGED <<disk, step, loss, stop, net, opponent, ring, owed,
                   temperature, solver, fit>>

TrainingEnds ==
    /\ mode = "train" /\ pc = "loop" /\ Ended
    /\ pc' = "done"
    /\ UNCHANGED <<disk, step, todo, trainer, judged, loss, stop, play, fit>>

------------------------------------------------------------------------------
(* The distillation loop                                                     *)

Leaves(why) == pc' = "end" /\ reason' = why

(* The head of the loop, and draw_batch(): it gives samples until the buffer *)
(* is stopped, and after that what is left and then none.                    *)
Draw ==
    /\ mode = "distil" /\ pc = "loop" /\ step < NumSteps
    /\ IF stop THEN Leaves("stop_signal")
               ELSE pc' = "draw" /\ UNCHANGED reason
    /\ UNCHANGED <<disk, step, todo, trainer, judged, loss, stop, play,
                   passes, verdicts, shut>>

Drawn ==
    /\ pc = "draw"
    /\ \/ pc' = "fit" /\ UNCHANGED reason
       \/ shut /\ Leaves(IF stop THEN "stop_signal" ELSE "queue_drained")
    /\ UNCHANGED <<disk, step, todo, trainer, judged, loss, stop, play,
                   passes, verdicts, shut>>

\* update_ema() with the loss that was read, once there is one
Averaged(l) ==
    IF l = NaN THEN loss ELSE [last |-> l, folds |-> loss.folds + 1]

(* do_training_step() of the distillation loop.                              *)
FitStep ==
    /\ pc = "fit"
    /\ trainer' = Trained(trainer, Stamp(step + 1))
    /\ step' = step + 1
    /\ loss' = Averaged(LossRead(trainer))
    /\ pc' = "evaluate"
    /\ UNCHANGED <<disk, todo, judged, stop, play, fit>>

(* next_patience() after an evaluation by the two criteria: the win rate is  *)
(* near the teacher's, or the averaged loss, once there is one, is low.      *)
NextPatience(passed) == IF passed THEN passes + 1 ELSE 0

(* maybe_evaluate() of the distillation loop.                                *)
EvaluateStudent ==
    /\ mode = "distil" /\ pc = "evaluate"
    /\ IF EvalInterval > 0 /\ step % EvalInterval = 0
       THEN /\ trainer' = Waited(trainer)
            /\ judged' = Weights(Waited(trainer))
            /\ \E near, low \in BOOLEAN :
                  LET passed == near \/ (low /\ loss.folds > 0)
                  IN  /\ passes' = NextPatience(passed)
                      /\ verdicts' = Append(verdicts, passed)
       ELSE UNCHANGED <<trainer, judged, passes, verdicts>>
    /\ pc' = IF step % CheckpointInterval = 0 THEN "model" ELSE "judge"
    /\ UNCHANGED <<disk, step, todo, loss, stop, play, shut, reason>>

(* convergence_satisfied(), and the way back to the head of the loop.        *)
Converged == step >= MinSteps /\ passes >= Patience

Judge ==
    /\ pc = "judge"
    /\ IF Converged THEN Leaves("convergence")
                    ELSE pc' = "loop" /\ UNCHANGED reason
    /\ UNCHANGED <<disk, step, todo, trainer, judged, loss, stop, play,
                   passes, verdicts, shut>>

MaxStepsReached ==
    /\ mode = "distil" /\ pc = "loop" /\ step >= NumSteps
    /\ Leaves("max_steps")
    /\ UNCHANGED <<disk, step, todo, trainer, judged, loss, stop, play,
                   passes, verdicts, shut>>

\* the student that final_report() evaluates
FinalReport(t) == Weights(Waited(t))

(* The rest of run(): the last loss is read, the buffer stopped, the workers *)
(* joined, and final_report() plays the network once more.                   *)
Report ==
    /\ pc = "end"
    /\ trainer' = Waited(trainer)
    /\ loss' = Averaged(Waited(trainer).finalized)
    /\ judged' = FinalReport(trainer)
    /\ shut' = TRUE
    /\ pc' = "done"
    /\ UNCHANGED <<disk, step, todo, stop, play, passes, verdicts, reason>>

------------------------------------------------------------------------------
(* Checkpoints: the loops' maybe_checkpoint(), one action for each file.     *)

SaveModel ==
    /\ pc = "model"
    /\ trainer' = Waited(trainer)
    /\ files' = [files EXCEPT ![step].model =
                    ModelFile(trainer, step, temperature)]
    /\ pc' = "optimizer"
    /\ UNCHANGED <<mode, launch, reused, saved, origin, born, step, todo, judged,
                   loss, stop, play, fit>>

SaveOptimizerPrunes ==
    /\ pc = "optimizer"
    /\ files' = Pruned([files EXCEPT ![step].optimizer = OptimizerFile(trainer)],
                       MaxCheckpoints)
    /\ pc' = IF WithBuffer THEN "buffer" ELSE "prune"
    /\ UNCHANGED <<mode, launch, reused, saved, origin, born, step, todo,
                   trainer, judged, loss, stop, play, fit>>

SaveOptimizer ==
    /\ pc = "optimizer"
    /\ files' = [files EXCEPT ![step].optimizer = OptimizerFile(trainer)]
    /\ pc' = IF WithBuffer THEN "buffer" ELSE "prune"
    /\ UNCHANGED <<mode, launch, reused, saved, origin, born, step, todo,
                   trainer, judged, loss, stop, play, fit>>

SaveBuffer ==
    /\ pc = "buffer"
    /\ files' = [files EXCEPT ![step].buffer =
                    [stamp |-> Stamp(step), samples |-> SaveRing(ring)]]
    /\ pc' = "prune"
    /\ UNCHANGED <<mode, launch, reused, saved, origin, born, step, todo,
                   trainer, judged, loss, stop, play, fit>>

Prune ==
    /\ pc = "prune"
    /\ files' = Pruned(files, MaxCheckpoints)
    /\ saved' = TRUE
    /\ IF mode = "train"
       THEN RefreshedOpponent(files', opponent, opponent') /\ pc' = "evaluate"
       ELSE UNCHANGED opponent /\ pc' = "judge"
    /\ UNCHANGED <<mode, launch, reused, origin, born, step, todo, trainer,
                   judged, loss, stop, net, ring, owed, temperature, solver,
                   plateau, fit>>

------------------------------------------------------------------------------
(* The device and the signal handler                                         *)

DeviceFinishes ==
    /\ trainer.busy
    /\ trainer' = DeviceDone(trainer)
    /\ UNCHANGED <<disk, pc, step, todo, judged, loss, stop, play, fit>>

(* stop() sets the flag and then, for distillation, stops the buffer.        *)
StopFlag ==
    /\ pc \notin {"down", "done"} /\ ~stop
    /\ stop' = TRUE
    /\ UNCHANGED <<disk, pc, step, todo, trainer, judged, loss, play, fit>>

StopBuffer ==
    /\ mode = "distil" /\ pc \notin {"down", "done"} /\ stop /\ ~shut
    /\ shut' = TRUE
    /\ UNCHANGED <<disk, pc, step, todo, trainer, judged, loss, stop, play,
                   passes, verdicts, reason>>

------------------------------------------------------------------------------

LoopStep ==
    \/ TrainStep \/ Swap \/ EvaluateTraining \/ TrainingEnds
    \/ Draw \/ Drawn \/ FitStep \/ EvaluateStudent \/ Judge \/ MaxStepsReached
    \/ Report
    \/ SaveModel \/ SaveOptimizer \/ SaveBuffer \/ Prune

Next ==
    \/ LaunchFresh \/ LaunchFromWeights \/ LaunchResumed \/ Crash \/ Exit
    \/ CollectSome \/ LoopStep
    \/ DeviceFinishes \/ StopFlag \/ StopBuffer

Spec == Init /\ [][Next]_vars

(* The loop's thread runs, and the self-play threads keep completing games   *)
(* (the properties of SelfPlay).                                             *)
FairSpec == Spec /\ WF_vars(LoopStep) /\ WF_vars(CollectSome)

------------------------------------------------------------------------------
(* Properties                                                                *)

TypeOK ==
    /\ mode \in Modes /\ launch \in 0 .. MaxLaunches /\ born \in 0 .. MaxGames
    /\ pc \in {"down", "loop", "step", "swap", "evaluate", "draw", "fit", "judge",
               "model", "optimizer", "buffer", "prune", "end", "done"}
    /\ step \in 0 .. NumSteps /\ owed \in 0 .. StepsDen - 1 /\ todo \in Nat
    /\ temperature \in 0 .. InitialTemperature \cup {DecayStartValue}
    /\ opponent \in Stamps \cup {NoNet}
    /\ net # NoNet => net.weights \in Stamps
    /\ Held(ring) <= Capacity(ring)
    /\ passes \in 0 .. NumSteps

(* Once a checkpoint was saved to the end, there is one to resume from at    *)
(* every moment, also while the next is written and the old ones are pruned  *)
(* and whenever the program is killed, as long as every launch resumed.      *)
CompleteSurvives ==
    saved /\ ~reused => \E s \in DOMAIN files : Complete(files, s, WithBuffer)

(* A resumed training run goes on from one save: its weights, Adam's state   *)
(* and its samples belong together.                                          *)
ResumedTogether ==
    origin # NoNet /\ mode = "train" /\ ~reused
    => origin.moments = origin.weights /\ origin.buffer = origin.weights

(* The temperature is what an uninterrupted run would have at this step,     *)
(* however often it was killed and resumed, and from the first step of a     *)
(* launch on the workers play by it and by the heuristic weight of the step. *)
TemperatureAt(s) ==
    IF s < DecayStart \/ s = 0 THEN InitialTemperature
    ELSE LET jump  == DecayStartValue > 0 /\ DecayStart > 0
             start == IF jump THEN DecayStartValue ELSE InitialTemperature
             taken == s - DecayStart + (IF jump \/ DecayStart = 0 THEN 0 ELSE 1)
         IN  Max({MinTemperature, start - taken})

ScheduleSurvives ==
    mode = "train" /\ pc # "down"
    => /\ temperature = TemperatureAt(step)
       /\ trainer.submitted > 0
          => solver = [temperature |-> temperature, weight |-> HeuristicWeight(step)]

(* Nobody plays with, evaluates or saves weights an update is still writing, *)
(* and at the loop's head the network the games are played with is less than *)
(* SwapInterval steps old.                                                   *)
NetIsCommitted ==
    /\ Half \notin {judged, opponent}
    /\ net # NoNet => net.weights # Half
    /\ \A s \in Named(files) :
          /\ files[s].model # Torn => files[s].model.weights # Half
          /\ Readable(files[s].optimizer) => files[s].optimizer.moments # Half
    /\ pc = "loop" /\ mode = "train" => step - net.at < SwapInterval

(* The averaged loss takes the loss of every step of the launch once, in     *)
(* order, although the losses are read one step late and evaluations and     *)
(* checkpoints read them in between.                                         *)
LossesFoldedOnce ==
    mode = "distil"
    => /\ loss.folds = loss.last
       /\ pc = "done" => loss.last = trainer.submitted

(* Nothing that is read of the device is of a step still running.            *)
ReadsAreFinished == NetIsCommitted /\ LossesFoldedOnce

(* The reason the distillation reports is why it ended: convergence only on  *)
(* Patience evaluations passed in a row, and never an emptied buffer, since  *)
(* the flag is set before the buffer is stopped.                             *)
ReasonIsTrue ==
    /\ reason # "queue_drained"
    /\ reason = "stop_signal" => stop
    /\ reason = "max_steps" => step = NumSteps
    /\ reason = "convergence" =>
          /\ step >= MinSteps /\ Len(verdicts) >= Patience
          /\ \A i \in Len(verdicts) - Patience + 1 .. Len(verdicts) : verdicts[i]

(* The ring drops its oldest sample first, also after it was saved, loaded   *)
(* into a ring of another size and filled again: from the oldest slot on the *)
(* samples are in the order they were collected, and the sampler reaches no  *)
(* slot without one.                                                         *)
RingInOrder ==
    mode = "train"
    => LET kept == SaveRing(ring)
       IN  /\ \A i \in DOMAIN kept : kept[i] # NoSample
           /\ \A i, j \in DOMAIN kept : i < j => kept[i] < kept[j]
           /\ \A i \in 0 .. Held(ring) - 1 : ring.slots[i] # NoSample

(* While a launch runs the rate Adam steps with only falls, and every        *)
(* back-off lowers it until it is at its floor, also when the rate the       *)
(* launch resumed with had been lowered before.                              *)
BacksOff ==
    /\ mode = "train" /\ pc = "evaluate" /\ pc' # "evaluate"
    /\ EvalInterval > 0 /\ step % EvalInterval = 0
    /\ plateau.streak = LrPatience - 1
    /\ plateau' = [plateau EXCEPT !.streak = 0]

BackoffLowers ==
    [][pc # "down" /\ pc' # "down"
       => /\ trainer'.adamRate <= trainer.adamRate
          /\ BacksOff => trainer'.adamRate < trainer.adamRate
                         \/ trainer.adamRate <= MinRate]_vars

(* Every launch comes to an end.                                             *)
EveryLaunchEnds == pc # "down" ~> pc \in {"down", "done"}
=============================================================================
