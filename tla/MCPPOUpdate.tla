---------------------------- MODULE MCPPOUpdate -----------------------------
(***************************************************************************)
(* Small update batches for PPOUpdate: up to three trajectories of 0 to    *)
(* MCMaxSteps steps, followed by at most one row that pads the batch.      *)
(***************************************************************************)
EXTENDS PPOUpdate, SequencesExt

CONSTANT MCMaxSteps

MCRow(t, ok) == [uid |-> t, valid |-> ok, tokens |-> IF ok THEN 1 ELSE 0]

MCBatch(steps, pads) ==
  FlattenSeq([t \in 1 .. 3 |-> [s \in 1 .. steps[t] |-> MCRow(t, TRUE)]])
    \o [k \in 1 .. pads |-> MCRow(1, FALSE)]

MCBatches ==
  {MCBatch(steps, pads) :
     steps \in {f \in [1 .. 3 -> 0 .. MCMaxSteps] : \E t \in 1 .. 3 : f[t] > 0},
     pads \in 0 .. 1}

=============================================================================
