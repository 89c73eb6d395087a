---------------------------- MODULE MCTrainerFit ----------------------------
(* Settings of the trainer for TLC. *)
EXTENDS TrainerFit

(* The total is short of the epochs, exactly the epochs, or beyond them;   *)
(* checkpoints are off, at every or at every second step.                  *)
MCConfigs ==
  [total : {3, 6, 8}, saveFreq : {-1, 1, 2, 4}, testFreq : {-1, 2},
   warmup : {0, 1, 3}, critic : BOOLEAN]

=============================================================================
