----------------------------- MODULE TrainerFit -----------------------------
(***************************************************************************)
(* RayAgentTrainer.fit: the training loop of the driver over epochs and    *)
(* steps, with critic warm-up, validation, checkpoints, and a driver that  *)
(* may die between any two calls and is started again.  A model is the     *)
(* sequence of the batches it was updated with.                            *)
(***************************************************************************)
EXTENDS Integers, Sequences

CONSTANTS
  StepsPerEpoch,  (* len(train_dataloader)                                  *)
  TotalEpochs,    (* trainer.total_epochs                                   *)
  Configs,        (* the settings of the trainer considered                 *)
  MaxRestarts     (* bound: times the driver is started again               *)

ConfigType ==
  [total : Nat, saveFreq : Int, testFreq : Int, warmup : Nat, critic : BOOLEAN]

ASSUME FitAssumption ==
  /\ StepsPerEpoch \in Nat \ {0}
  /\ TotalEpochs \in Nat \ {0}
  /\ MaxRestarts \in Nat
  /\ Configs \subseteq ConfigType

VARIABLES
  config,    (* the settings of this run                                    *)
  pc,        (* the next call of fit                                        *)
  steps,     (* global_steps                                                *)
  epoch,     (* the index of the outer loop                                 *)
  position,  (* batches the data loader has handed out in this epoch        *)
  batch,     (* the batch at hand                                           *)
  isLast,    (* is_last_step                                                *)
  model,     (* actor and critic                                            *)
  lastVal,   (* the model whose metrics last_val_metrics holds, if any      *)
  saved,     (* the latest checkpoint on disk                               *)
  restarts

vars == <<config, pc, steps, epoch, position, batch, isLast, model, lastVal,
          saved, restarts>>

FreshModel == [actor |-> <<>>, critic |-> <<>>]

NoModel == <<>>

NoCheckpoint == [steps |-> 0, position |-> 0, model |-> FreshModel]

-----------------------------------------------------------------------------
(* The data loader: entering its loop goes on where a restored loader      *)
(* stopped, and begins anew when the epoch was over.                       *)

EnterLoader(p) == IF p = StepsPerEpoch THEN 0 ELSE p

CurrentEpoch(loaded) == loaded \div StepsPerEpoch

-----------------------------------------------------------------------------
(* When fit validates and saves *)

IsLastStep == steps >= config.total

(* Defect: no validation at the last step. *)
ValidatesOnFrequency(last) ==
  config.testFreq > 0 /\ steps % config.testFreq = 0

Validates(last) ==
  config.testFreq > 0 /\ (last \/ steps % config.testFreq = 0)

(* Defect: a checkpoint at the last step alone. *)
SavesAtEnd(last, esi) ==
  config.saveFreq > 0 /\ (last \/ esi)

Saves(last, esi) ==
  config.saveFreq > 0 /\ (last \/ steps % config.saveFreq = 0 \/ esi)

-----------------------------------------------------------------------------
(* The driver *)

Init ==
  /\ config \in Configs
  /\ pc = "down" /\ steps = 0 /\ epoch = 0 /\ position = 0
  /\ batch = <<0, 0>> /\ isLast = FALSE
  /\ model = FreshModel /\ lastVal = NoModel
  /\ saved = NoCheckpoint
  /\ restarts = 0

(* Defect: the data loader is not restored. *)
LoadCheckpointModelOnly ==
  /\ pc = "down"
  /\ steps' = saved.steps /\ position' = 0 /\ model' = saved.model
  /\ epoch' = 0 /\ batch' = <<0, 0>> /\ isLast' = FALSE /\ lastVal' = NoModel
  /\ pc' = "loaded"
  /\ UNCHANGED <<config, saved, restarts>>

(* fit begins: _load_checkpoint *)
LoadCheckpoint ==
  /\ pc = "down"
  /\ steps' = saved.steps /\ position' = saved.position /\ model' = saved.model
  /\ epoch' = 0 /\ batch' = <<0, 0>> /\ isLast' = FALSE /\ lastVal' = NoModel
  /\ pc' = "loaded"
  /\ UNCHANGED <<config, saved, restarts>>

(* The first step, unless the epochs are over. *)
BeginTraining ==
  /\ pc = "loaded"
  /\ steps' = steps + 1
  /\ epoch' = CurrentEpoch(steps)
  /\ IF epoch' < TotalEpochs
       THEN pc' = "next" /\ position' = EnterLoader(position)
       ELSE pc' = "returned" /\ UNCHANGED position
  /\ UNCHANGED <<config, batch, isLast, model, lastVal, saved, restarts>>

(* The next batch, up to its advantages. *)
NextBatch ==
  /\ pc = "next"
  /\ position < StepsPerEpoch
  /\ batch' = <<epoch, position>>
  /\ position' = position + 1
  /\ isLast' = IsLastStep
  /\ pc' = IF config.critic THEN "critic" ELSE "actor"
  /\ UNCHANGED <<config, steps, epoch, model, lastVal, saved, restarts>>

NextEpoch ==
  /\ pc = "next"
  /\ position = StepsPerEpoch
  /\ epoch' = epoch + 1
  /\ IF epoch' < TotalEpochs
       THEN position' = EnterLoader(position) /\ UNCHANGED pc
       ELSE pc' = "returned" /\ UNCHANGED position
  /\ UNCHANGED <<config, steps, batch, isLast, model, lastVal, saved, restarts>>

UpdateCritic ==
  /\ pc = "critic"
  /\ model' = [model EXCEPT !.critic = Append(@, batch)]
  /\ pc' = "actor"
  /\ UNCHANGED <<config, steps, epoch, position, batch, isLast, lastVal, saved, restarts>>

UpdateActor ==
  /\ pc = "actor"
  /\ model' = IF config.warmup <= steps
                THEN [model EXCEPT !.actor = Append(@, batch)] ELSE model
  /\ pc' = "validate"
  /\ UNCHANGED <<config, steps, epoch, position, batch, isLast, lastVal, saved, restarts>>

Validate ==
  /\ pc = "validate"
  /\ lastVal' = IF Validates(isLast) /\ isLast THEN <<model>> ELSE lastVal
  /\ pc' = "save"
  /\ UNCHANGED <<config, steps, epoch, position, batch, isLast, model, saved, restarts>>

(* esi: the machine is about to be taken away. *)
SaveCheckpoint ==
  /\ pc = "save"
  /\ \E esi \in BOOLEAN :
       saved' = IF Saves(isLast, esi)
                  THEN [steps |-> steps, position |-> position, model |-> model]
                  ELSE saved
  /\ pc' = "end"
  /\ UNCHANGED <<config, steps, epoch, position, batch, isLast, model, lastVal, restarts>>

EndStep ==
  /\ pc = "end"
  /\ steps' = steps + 1
  /\ pc' = IF isLast THEN "returned" ELSE "next"
  /\ UNCHANGED <<config, epoch, position, batch, isLast, model, lastVal, saved, restarts>>

(* The driver dies, or a finished run is submitted again. *)
Restart ==
  /\ pc # "down"
  /\ restarts < MaxRestarts
  /\ restarts' = restarts + 1
  /\ pc' = "down"
  /\ UNCHANGED <<config, steps, epoch, position, batch, isLast, model, lastVal, saved>>

Next ==
  \/ LoadCheckpoint \/ BeginTraining \/ NextBatch \/ NextEpoch
  \/ UpdateCritic \/ UpdateActor \/ Validate \/ SaveCheckpoint \/ EndStep
  \/ Restart

Spec == Init /\ [][Next]_vars

-----------------------------------------------------------------------------
(* Correctness *)

PCs == {"down", "loaded", "next", "critic", "actor", "validate", "save", "end",
        "returned"}

Batches == (0 .. TotalEpochs - 1) \X (0 .. StepsPerEpoch - 1)

Models == [actor : Seq(Batches), critic : Seq(Batches)]

(* The variables of fit and of its checkpoint keep their types; the data   *)
(* loader and the epoch stay in their ranges (fit, _load_checkpoint).      *)
TypeOK ==
  /\ config \in Configs
  /\ pc \in PCs
  /\ steps \in Nat
  /\ epoch \in 0 .. TotalEpochs
  /\ position \in 0 .. StepsPerEpoch
  /\ batch \in Batches
  /\ isLast \in BOOLEAN
  /\ model \in Models
  /\ lastVal \in Seq(Models)
  /\ saved \in [steps : Nat, position : 0 .. StepsPerEpoch, model : Models]
  /\ restarts \in 0 .. MaxRestarts

(* The batch that step g trains on when nothing is skipped or repeated. *)
BatchOf(g) == <<(g - 1) \div StepsPerEpoch, (g - 1) % StepsPerEpoch>>

(* The first step that updates the actor. *)
FirstActorStep == IF config.warmup = 0 THEN 1 ELSE config.warmup

(* updates of the actor, and of the critic, in the first g steps *)
ActorUpdates(g) == IF g < FirstActorStep THEN 0 ELSE g - FirstActorStep + 1

CriticUpdates(g) == IF config.critic THEN g ELSE 0

(* m is what the steps up to a make of the actor, and up to c of the critic *)
TrainedUpTo(m, a, c) ==
  /\ m.actor = [i \in 1 .. ActorUpdates(a) |-> BatchOf(i + FirstActorStep - 1)]
  /\ m.critic = [i \in 1 .. CriticUpdates(c) |-> BatchOf(i)]

(* Whatever dies and is started again, the models are those of a run that  *)
(* never died: each batch of each epoch once, in the order of the loader,  *)
(* the actor from the end of the warm-up on (fit, _load_checkpoint).       *)
TrainedInOrder ==
  /\ TrainedUpTo(saved.model, saved.steps, saved.steps)
  /\ pc = "loaded" => TrainedUpTo(model, steps, steps)
  /\ pc \in {"next", "returned", "critic"} => TrainedUpTo(model, steps - 1, steps - 1)
  /\ pc = "actor" => TrainedUpTo(model, steps - 1, steps)
  /\ pc \in {"validate", "save", "end"} => TrainedUpTo(model, steps, steps)

(* A driver that dies loses less than saveFreq finished steps: with        *)
(* checkpoints on, the next step is at most saveFreq after the saved one   *)
(* (the conditions under which fit saves).                                 *)
LittleIsLost ==
  config.saveFreq > 0 /\ pc = "next" => steps - saved.steps <= config.saveFreq

(* A run that reaches its last step leaves its final models on disk and    *)
(* reports the metrics of those models (fit, is_last_step).                *)
FinalModelKept ==
  pc = "returned" /\ isLast =>
    /\ config.saveFreq > 0 => saved.model = model
    /\ config.testFreq > 0 => lastVal = <<model>>

=============================================================================
