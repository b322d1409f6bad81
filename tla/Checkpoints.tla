---------------------------- MODULE Checkpoints -----------------------------
(***************************************************************************)
(* The checkpoint directory (training/resume.cc, training/logging.cc):     *)
(* files[s] holds what checkpoint_step_s.model, .optimizer and .buffer     *)
(* contain, each Missing, Torn or whole.                                   *)
(***************************************************************************)
EXTENDS Integers, FiniteSets, FiniteSetsExt, Trainer

NoFiles == [model |-> Missing, optimizer |-> Missing, buffer |-> Missing]

(* Checkpoints are found by the name of their .model file.                   *)
Named(files) == {s \in DOMAIN files : files[s].model # Missing}

(* prune_old_checkpoints(): all but the keep highest steps lose their        *)
(* optimizer and buffer; the weights stay.                                   *)
Surplus(files, keep) ==
    {s \in Named(files) : Cardinality({u \in Named(files) : u > s}) >= keep}

Pruned(files, keep) ==
    [s \in DOMAIN files |->
        IF s \in Surplus(files, keep)
        THEN [files[s] EXCEPT !.optimizer = Missing, !.buffer = Missing]
        ELSE files[s]]

(* find_latest_checkpoint_stem()                                             *)
Latest(files) == Max(Named(files))

(* What resume_from_checkpoint() and resume_distil_from_checkpoint() look    *)
(* for before they load anything.                                            *)
Present(files, withBuffer) ==
    /\ Named(files) # {}
    /\ files[Latest(files)].optimizer # Missing
    /\ withBuffer => files[Latest(files)].buffer # Missing

(* Loading throws on a .model or a .buffer that was cut off; an optimizer    *)
(* that cannot be read is only warned about.                                 *)
Loadable(files, withBuffer) ==
    /\ files[Latest(files)].model # Torn
    /\ withBuffer => files[Latest(files)].buffer # Torn

(* A checkpoint that holds one save, whole.                                  *)
Complete(files, s, withBuffer) ==
    /\ Readable(files[s].model)
    /\ Readable(files[s].optimizer)
    /\ files[s].optimizer.moments = files[s].model.weights
    /\ withBuffer => /\ Readable(files[s].buffer)
                     /\ files[s].buffer.stamp = files[s].model.weights
=============================================================================
