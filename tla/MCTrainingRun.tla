---------------------------- MODULE MCTrainingRun ---------------------------
(* Instances of TrainingRun for TLC.                                         *)
EXTENDS TrainingRun
=============================================================================
