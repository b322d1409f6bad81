------------------------------ MODULE Trainer -------------------------------
(***************************************************************************)
(* The trainer of a network (model/trainer.cc).  A training step is        *)
(* submitted to the device and its loss is read by the next step, or by    *)
(* wait_until_step_complete(): until then the weights may be half written. *)
(*                                                                         *)
(* weights and moments (Adam's state) are the stamp of the step that made  *)
(* them; a loss is the number of the step it belongs to, NaN before the    *)
(* first one.                                                              *)
(***************************************************************************)
EXTENDS Integers

CONSTANTS
    Half,       \* what is read of weights an update is still writing
    NoMoments,  \* Adam's state before its first step
    Torn,       \* a file whose writing was cut off
    Missing     \* no such file

NaN == 0

NewTrainer(weights, rate) ==
    [weights   |-> weights, moments |-> NoMoments,
     rate      |-> rate,      \* learning_rate_
     adamRate  |-> rate,      \* the rate in the optimizer's options
     submitted |-> 0,         \* steps submitted
     pending   |-> FALSE,     \* has_pending_loss_
     busy      |-> FALSE,     \* the device still works on the last step
     finalized |-> NaN]       \* last_finalized_loss_

(* wait_until_step_complete(): reading the loss waits for the device.        *)
Waited(t) ==
    IF t.pending
    THEN [t EXCEPT !.pending = FALSE, !.busy = FALSE, !.finalized = t.submitted]
    ELSE t

\* the loss train_step() returns
LossRead(t) == Waited(t).finalized

(* train_step(): first the loss of the step before is read, then the new     *)
(* step is submitted.                                                        *)
Trained(t, stamp) ==
    [Waited(t) EXCEPT !.weights = stamp, !.moments = stamp,
                      !.submitted = @ + 1, !.pending = TRUE, !.busy = TRUE]

DeviceDone(t) == [t EXCEPT !.busy = FALSE]

\* what a reader of the parameters gets
Weights(t) == IF t.busy THEN Half ELSE t.weights
Moments(t) == IF t.busy THEN Half ELSE t.moments

(* clone_for_inference() waits, and the copy is of the committed weights.    *)
CloneUnwaited(t) == Weights(t)

Clone(t) == Weights(Waited(t))

WithRate(t, rate) == [t EXCEPT !.rate = rate, !.adamRate = rate]

(* The two files of save_checkpoint().                                       *)
ModelFile(t, step, temperature) ==
    [weights |-> Weights(Waited(t)), step |-> step, temperature |-> temperature]
OptimizerFile(t) == [moments |-> Moments(Waited(t)), rate |-> t.adamRate]

Readable(file) == file \notin {Missing, Torn}

(* load_checkpoint(): the optimizer is restored if its file can be read, and *)
(* is left as it is otherwise; the tracked rate follows the optimizer's.     *)
RestoredUntracked(t, model, optimizer) ==
    LET waited == Waited(t)
    IN  IF Readable(optimizer)
        THEN [waited EXCEPT !.weights = model.weights,
                            !.moments = optimizer.moments,
                            !.adamRate = optimizer.rate]
        ELSE [waited EXCEPT !.weights = model.weights]

Restored(t, model, optimizer) ==
    LET waited == Waited(t)
    IN  IF Readable(optimizer)
        THEN [waited EXCEPT !.weights = model.weights,
                            !.moments = optimizer.moments,
                            !.adamRate = optimizer.rate, !.rate = optimizer.rate]
        ELSE [waited EXCEPT !.weights = model.weights]

(* load_weights()                                                            *)
Reweighted(t, model) == [Waited(t) EXCEPT !.weights = model.weights]
=============================================================================
