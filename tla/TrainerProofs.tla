---------------------------- MODULE TrainerProofs ----------------------------
(***************************************************************************)
(* For every number of epochs and batches, all settings of the trainer and *)
(* any number of restarts: what is trained and saved is what a run that    *)
(* was never disturbed would have trained.  And for every batch: the       *)
(* estimators compute what the literature defines, and a micro-batch adds  *)
(* its share of the loss of the mini-batch.                                *)
(***************************************************************************)
EXTENDS TrainerFit, Estimators, SequenceFacts, TLAPS

(* Where the driver is in the data, and how it counts its steps. *)
Place ==
  /\ pc = "loaded" => steps = saved.steps /\ position = saved.position
  /\ pc = "critic" => config.critic
  /\ pc = "next" => /\ epoch \in 0 .. TotalEpochs - 1
                    /\ steps = epoch * StepsPerEpoch + position + 1
  /\ pc \in {"critic", "actor", "validate", "save", "end"} =>
       /\ epoch \in 0 .. TotalEpochs - 1
       /\ position \in 1 .. StepsPerEpoch
       /\ batch = <<epoch, position - 1>>
       /\ steps = epoch * StepsPerEpoch + position

(* Where the checkpoint is in the data. *)
SavedPlace ==
  \E e \in 0 .. TotalEpochs - 1 : saved.steps = e * StepsPerEpoch + saved.position

(* Which models are trained by which steps, in memory and on disk. *)
IInv == TypeOK /\ Place /\ SavedPlace /\ TrainedInOrder

-----------------------------------------------------------------------------
(* Steps of the driver *)

(* The batch at hand is the one that belongs to the step. *)
LEMMA BatchOfPlace ==
  ASSUME NEW e \in Nat, NEW p \in 1 .. StepsPerEpoch
  PROVE  BatchOf(e * StepsPerEpoch + p) = <<e, p - 1>>
<1>1. StepsPerEpoch \in Nat \ {0} /\ p - 1 \in 0 .. StepsPerEpoch - 1
  BY FitAssumption
<1>2. e * StepsPerEpoch + p - 1 = e * StepsPerEpoch + (p - 1)
  BY <1>1
<1>3. QED
  BY <1>1, <1>2, DivMod DEF BatchOf

(* One update more, with the batch of the step. *)
LEMMA CriticAdvances ==
  ASSUME config \in ConfigType, config.critic, NEW m, NEW g \in Nat \ {0},
         NEW a \in Nat,
         m \in [actor : Seq(Batches), critic : Seq(Batches)],
         TrainedUpTo(m, a, g - 1)
  PROVE  TrainedUpTo([m EXCEPT !.critic = Append(@, BatchOf(g))], a, g)
<1>1. m.critic = [i \in 1 .. g - 1 |-> BatchOf(i)]
  BY DEF TrainedUpTo, CriticUpdates
<1> DEFINE f == [i \in 1 .. g |-> BatchOf(i)]
           s == [i \in 1 .. g - 1 |-> BatchOf(i)]
<1>2. Len(s) = g - 1
  OBVIOUS
<1>3. Append(s, BatchOf(g)) = f
  <2>1. Append(s, BatchOf(g)) = [i \in 1 .. (g - 1) + 1 |-> IF i = (g - 1) + 1 THEN BatchOf(g) ELSE s[i]]
    BY <1>2
  <2>2. QED
    BY <2>1
<1>4. QED
  BY <1>1, <1>3 DEF TrainedUpTo, CriticUpdates

LEMMA FirstActorStepType ==
  ASSUME config \in ConfigType
  PROVE  FirstActorStep \in Nat \ {0}
BY DEF ConfigType, FirstActorStep

LEMMA ActorAdvances ==
  ASSUME config \in ConfigType, NEW m, NEW g \in Nat \ {0}, NEW c \in Nat,
         m \in [actor : Seq(Batches), critic : Seq(Batches)],
         TrainedUpTo(m, g - 1, c)
  PROVE  TrainedUpTo(IF config.warmup <= g
                       THEN [m EXCEPT !.actor = Append(@, BatchOf(g))] ELSE m, g, c)
<1> DEFINE F == FirstActorStep
<1>1. F \in Nat \ {0}
  BY FirstActorStepType
<1>2. config.warmup <= g <=> F <= g
  BY DEF ConfigType, FirstActorStep
<1> HIDE DEF F
<1>3. CASE F > g
  <2>1. ActorUpdates(g) = ActorUpdates(g - 1) /\ ~ config.warmup <= g
    BY <1>1, <1>2, <1>3 DEF ActorUpdates, F, ConfigType
  <2>2. QED
    BY <2>1 DEF TrainedUpTo
<1>4. CASE F <= g
  <2> DEFINE n == ActorUpdates(g)
             s == [i \in 1 .. n - 1 |-> BatchOf(i + F - 1)]
  <2>1. n = g - F + 1 /\ n \in Nat \ {0} /\ ActorUpdates(g - 1) = n - 1
    BY <1>1, <1>4 DEF ActorUpdates, F
  <2> HIDE DEF n
  <2>2. m.actor = s /\ Len(s) = n - 1
    BY <2>1 DEF TrainedUpTo, F
  <2>3. Append(s, BatchOf(g)) = [i \in 1 .. (n - 1) + 1 |-> IF i = (n - 1) + 1 THEN BatchOf(g) ELSE s[i]]
    BY <2>1, <2>2
  <2>4. n + F - 1 = g /\ (n - 1) + 1 = n
    BY <2>1, <1>1
  <2>5. Append(s, BatchOf(g)) = [i \in 1 .. n |-> BatchOf(i + F - 1)]
    BY <2>3, <2>4, <2>1
  <2>6. QED
    BY <2>2, <2>5, <1>2, <1>4 DEF TrainedUpTo, n, F
<1>5. QED
  BY <1>1, <1>3, <1>4

-----------------------------------------------------------------------------
(* The invariant *)

LEMMA InitIInv == Init => IInv
<1> SUFFICES ASSUME Init PROVE IInv
  OBVIOUS
<1>1. TotalEpochs \in Nat \ {0} /\ StepsPerEpoch \in Nat \ {0} /\ MaxRestarts \in Nat
      /\ config \in ConfigType
  BY FitAssumption DEF Init
<1>2. TypeOK
  <2>1. FreshModel \in Models
    BY DEF FreshModel, Models
  <2>2. <<>> \in Seq(Models)
    OBVIOUS
  <2>3. saved \in [steps : Nat, position : 0 .. StepsPerEpoch, model : Models]
    BY <1>1, <2>1 DEF Init, NoCheckpoint
  <2>4. batch \in Batches
    BY <1>1 DEF Init, Batches
  <2>5. epoch \in 0 .. TotalEpochs /\ position \in 0 .. StepsPerEpoch /\ restarts \in 0 .. MaxRestarts
    BY <1>1 DEF Init
  <2>6. QED
    BY <2>1, <2>2, <2>3, <2>4, <2>5 DEF Init, TypeOK, PCs, NoModel
<1>3. SavedPlace
  <2>1. 0 \in 0 .. TotalEpochs - 1 /\ 0 = 0 * StepsPerEpoch + 0
    BY <1>1
  <2>2. QED
    BY <2>1 DEF SavedPlace, Init, NoCheckpoint
<1>4. TrainedUpTo(FreshModel, 0, 0)
  <2>1. ActorUpdates(0) = 0 /\ CriticUpdates(0) = 0
    BY <1>1, FirstActorStepType DEF ActorUpdates, CriticUpdates
  <2>2. QED
    BY <2>1 DEF TrainedUpTo, FreshModel
<1>5. QED
  BY <1>2, <1>3, <1>4 DEF IInv, Init, Place, TrainedInOrder, NoCheckpoint

(* Where the settings and the checkpoint stay, so does what it holds. *)
LEMMA SavedKept ==
  ASSUME config' = config, saved' = saved
  PROVE  /\ SavedPlace => SavedPlace'
         /\ \A m, a, c : TrainedUpTo(m, a, c)' = TrainedUpTo(m, a, c)
         /\ FirstActorStep' = FirstActorStep
BY DEF SavedPlace, TrainedUpTo, ActorUpdates, CriticUpdates, FirstActorStep, BatchOf

(* LoadCheckpoint brings back a consistent state, wherever it went lost. *)
LEMMA LoadCheckpointIInv ==
  ASSUME IInv, LoadCheckpoint
  PROVE  IInv'
<1>1. config' = config /\ saved' = saved
  BY DEF LoadCheckpoint
<1>2. TypeOK'
  <2>1. <<0, 0>> \in Batches /\ 0 \in 0 .. TotalEpochs
    BY FitAssumption DEF Batches
  <2>2. NoModel \in Seq(Models)
    BY DEF NoModel
  <2>3. saved.steps \in Nat /\ saved.position \in 0 .. StepsPerEpoch /\ saved.model \in Models
    BY DEF IInv, TypeOK
  <2>4. QED
    BY <2>1, <2>2, <2>3 DEF LoadCheckpoint, IInv, TypeOK, PCs
<1>3. Place'
  BY DEF LoadCheckpoint, Place
<1>4. TrainedInOrder'
  BY <1>1, SavedKept DEF LoadCheckpoint, IInv, TrainedInOrder
<1>5. QED
  BY <1>1, <1>2, <1>3, <1>4, SavedKept DEF IInv

(* The first step goes on right after the checkpoint. *)
LEMMA BeginTrainingIInv ==
  ASSUME IInv, BeginTraining
  PROVE  IInv'
<1>1. config' = config /\ saved' = saved /\ model' = model /\ steps' = steps + 1
  BY DEF BeginTraining
<1>2. StepsPerEpoch \in Nat \ {0} /\ TotalEpochs \in Nat \ {0}
  BY FitAssumption
<1>3. PICK e \in 0 .. TotalEpochs - 1 : steps = e * StepsPerEpoch + position
  BY DEF IInv, SavedPlace, Place, BeginTraining
<1>4. position \in 0 .. StepsPerEpoch /\ steps \in Nat
  BY DEF IInv, TypeOK
<1>5. /\ epoch' \in 0 .. TotalEpochs
      /\ EnterLoader(position) \in 0 .. StepsPerEpoch - 1
      /\ steps' = epoch' * StepsPerEpoch + EnterLoader(position) + 1
  <2>1. CASE position < StepsPerEpoch
    <3>1. steps \div StepsPerEpoch = e
      BY <1>2, <1>3, <1>4, <2>1, DivMod
    <3>2. QED
      BY <3>1, <1>2, <1>3, <1>4, <2>1 DEF BeginTraining, CurrentEpoch, EnterLoader
  <2>2. CASE position = StepsPerEpoch
    <3>1. steps = (e + 1) * StepsPerEpoch + 0 /\ e + 1 \in Nat
      BY <1>2, <1>3, <2>2
    <3>2. steps \div StepsPerEpoch = e + 1
      BY <3>1, <1>2, DivMod
    <3>3. QED
      BY <3>1, <3>2, <1>2, <1>3, <1>4, <2>2 DEF BeginTraining, CurrentEpoch, EnterLoader
  <2>3. position < StepsPerEpoch \/ position = StepsPerEpoch
    BY <1>2, <1>4
  <2>4. QED
    BY <2>1, <2>2, <2>3
<1>6. position' \in 0 .. StepsPerEpoch /\ pc' \in {"next", "returned"}
  BY <1>4, <1>5, <1>2 DEF BeginTraining
<1>7. TypeOK'
  BY <1>5, <1>6 DEF BeginTraining, IInv, TypeOK, PCs
<1>8. Place'
  BY <1>5, <1>6, <1>2 DEF BeginTraining, Place
<1>9. TrainedInOrder'
  <2>1. TrainedUpTo(model, steps, steps) /\ TrainedUpTo(saved.model, saved.steps, saved.steps)
    BY DEF IInv, TrainedInOrder, BeginTraining
  <2>2. steps' - 1 = steps
    BY <1>1, <1>4
  <2>3. QED
    BY <1>1, <1>6, <2>1, <2>2, SavedKept DEF TrainedInOrder
<1>10. QED
  BY <1>1, <1>7, <1>8, <1>9, SavedKept DEF IInv

LEMMA NextBatchIInv ==
  ASSUME IInv, NextBatch
  PROVE  IInv'
<1>1. config' = config /\ saved' = saved /\ model' = model /\ steps' = steps
      /\ epoch' = epoch /\ position' = position + 1 /\ batch' = <<epoch, position>>
      /\ pc = "next" /\ pc' = IF config.critic THEN "critic" ELSE "actor"
  BY DEF NextBatch
<1>2. /\ epoch \in 0 .. TotalEpochs - 1 /\ position \in 0 .. StepsPerEpoch - 1
      /\ steps = epoch * StepsPerEpoch + position + 1
  BY FitAssumption DEF NextBatch, IInv, TypeOK, Place
<1>3. TypeOK'
  <2>1. batch' \in Batches /\ position' \in 0 .. StepsPerEpoch /\ isLast' \in BOOLEAN
    <3>1. <<epoch, position>> \in Batches
      BY <1>2 DEF Batches
    <3>2. position + 1 \in 0 .. StepsPerEpoch
      BY <1>2, FitAssumption
    <3>3. IsLastStep \in BOOLEAN
      BY DEF IsLastStep
    <3>4. QED
      BY <1>1, <3>1, <3>2, <3>3 DEF NextBatch
  <2>2. QED
    BY <1>1, <2>1 DEF IInv, TypeOK, PCs, NextBatch
<1>4. Place'
  <2>1. position' \in 1 .. StepsPerEpoch /\ position' - 1 = position
        /\ steps' = epoch' * StepsPerEpoch + position'
    BY <1>1, <1>2, FitAssumption
  <2>2. QED
    BY <1>1, <1>2, <2>1 DEF Place
<1>5. TrainedInOrder'
  <2>1. TrainedUpTo(model, steps - 1, steps - 1)
        /\ TrainedUpTo(saved.model, saved.steps, saved.steps)
    BY <1>1 DEF IInv, TrainedInOrder
  <2>2. CASE config.critic
    BY <1>1, <2>1, <2>2, SavedKept DEF TrainedInOrder
  <2>3. CASE ~ config.critic
    <3>1. TrainedUpTo(model, steps - 1, steps)
      BY <2>1, <2>3 DEF TrainedUpTo, CriticUpdates
    <3>2. QED
      BY <1>1, <2>1, <2>3, <3>1, SavedKept DEF TrainedInOrder
  <2>4. QED
    BY <2>2, <2>3
<1>6. QED
  BY <1>1, <1>3, <1>4, <1>5, SavedKept DEF IInv

LEMMA NextEpochIInv ==
  ASSUME IInv, NextEpoch
  PROVE  IInv'
<1>1. config' = config /\ saved' = saved /\ model' = model /\ steps' = steps
      /\ epoch' = epoch + 1 /\ pc = "next" /\ pc' \in {"next", "returned"}
  BY DEF NextEpoch
<1>2. /\ epoch \in 0 .. TotalEpochs - 1
      /\ steps = epoch * StepsPerEpoch + StepsPerEpoch + 1
      /\ StepsPerEpoch \in Nat \ {0} /\ TotalEpochs \in Nat \ {0}
  BY FitAssumption DEF NextEpoch, IInv, Place
<1>3. pc' = "next" => position' = 0 /\ epoch' \in 0 .. TotalEpochs - 1
  BY <1>1, <1>2 DEF NextEpoch, EnterLoader
<1>4. TypeOK'
  BY <1>1, <1>2 DEF NextEpoch, EnterLoader, IInv, TypeOK, PCs
<1>5. Place'
  <2>1. steps = (epoch + 1) * StepsPerEpoch + 0 + 1
    BY <1>2
  <2>2. QED
    BY <1>1, <1>3, <2>1 DEF Place
<1>6. TrainedInOrder'
  BY <1>1, SavedKept DEF IInv, TrainedInOrder
<1>7. QED
  BY <1>1, <1>4, <1>5, <1>6, SavedKept DEF IInv

(* At an update, the batch at hand is that of the step. *)
LEMMA AtUpdate ==
  ASSUME IInv, pc \in {"critic", "actor"}
  PROVE  /\ batch = BatchOf(steps) /\ batch \in Batches
         /\ steps \in Nat \ {0} /\ config \in ConfigType /\ model \in Models
<1>1. /\ epoch \in Nat /\ position \in 1 .. StepsPerEpoch
      /\ batch = <<epoch, position - 1>> /\ steps = epoch * StepsPerEpoch + position
  BY DEF IInv, Place
<1>2. steps \in Nat \ {0}
  <2>1. epoch * StepsPerEpoch \in Nat
    BY <1>1, FitAssumption
  <2>2. QED
    BY <1>1, <2>1
<1>3. QED
  BY <1>1, <1>2, BatchOfPlace, FitAssumption DEF IInv, TypeOK

LEMMA UpdateCriticIInv ==
  ASSUME IInv, UpdateCritic
  PROVE  IInv'
<1>1. config' = config /\ saved' = saved /\ steps' = steps /\ epoch' = epoch
      /\ position' = position /\ batch' = batch /\ pc = "critic" /\ pc' = "actor"
      /\ model' = [model EXCEPT !.critic = Append(@, batch)]
  BY DEF UpdateCritic
<1>2. /\ batch = BatchOf(steps) /\ batch \in Batches
      /\ steps \in Nat \ {0} /\ config \in ConfigType /\ model \in Models
  BY <1>1, AtUpdate
<1>3. model' \in Models
  <2>1. Append(model.critic, batch) \in Seq(Batches)
    BY <1>2 DEF Models
  <2>2. QED
    BY <1>1, <1>2, <2>1 DEF Models
<1>4. TypeOK'
  BY <1>1, <1>3 DEF UpdateCritic, IInv, TypeOK, PCs
<1>5. Place'
  BY <1>1 DEF IInv, Place
<1>6. TrainedInOrder'
  <2>1. TrainedUpTo(model, steps - 1, steps - 1) /\ steps - 1 \in Nat /\ config.critic
        /\ TrainedUpTo(saved.model, saved.steps, saved.steps)
    BY <1>1, <1>2 DEF IInv, TrainedInOrder, Place
  <2>2. TrainedUpTo(model', steps - 1, steps)
    BY <1>1, <1>2, <2>1, CriticAdvances DEF Models
  <2>3. QED
    BY <1>1, <2>1, <2>2, SavedKept DEF TrainedInOrder
<1>7. QED
  BY <1>1, <1>4, <1>5, <1>6, SavedKept DEF IInv

LEMMA UpdateActorIInv ==
  ASSUME IInv, UpdateActor
  PROVE  IInv'
<1>1. config' = config /\ saved' = saved /\ steps' = steps /\ epoch' = epoch
      /\ position' = position /\ batch' = batch /\ pc = "actor" /\ pc' = "validate"
      /\ model' = IF config.warmup <= steps
                    THEN [model EXCEPT !.actor = Append(@, batch)] ELSE model
  BY DEF UpdateActor
<1>2. /\ batch = BatchOf(steps) /\ batch \in Batches
      /\ steps \in Nat \ {0} /\ config \in ConfigType /\ model \in Models
  BY <1>1, AtUpdate
<1>3. model' \in Models
  <2>1. Append(model.actor, batch) \in Seq(Batches)
    BY <1>2 DEF Models
  <2>2. QED
    BY <1>1, <1>2, <2>1 DEF Models
<1>4. TypeOK'
  BY <1>1, <1>3 DEF UpdateActor, IInv, TypeOK, PCs
<1>5. Place'
  BY <1>1 DEF IInv, Place
<1>6. TrainedInOrder'
  <2>1. TrainedUpTo(model, steps - 1, steps)
        /\ TrainedUpTo(saved.model, saved.steps, saved.steps)
    BY <1>1 DEF IInv, TrainedInOrder
  <2>2. TrainedUpTo(model', steps, steps)
    BY <1>1, <1>2, <2>1, ActorAdvances DEF Models
  <2>3. QED
    BY <1>1, <2>1, <2>2, SavedKept DEF TrainedInOrder
<1>7. QED
  BY <1>1, <1>4, <1>5, <1>6, SavedKept DEF IInv

LEMMA ValidateIInv ==
  ASSUME IInv, Validate
  PROVE  IInv'
<1>1. config' = config /\ saved' = saved /\ steps' = steps /\ epoch' = epoch
      /\ position' = position /\ batch' = batch /\ pc = "validate" /\ pc' = "save"
      /\ model' = model
  BY DEF Validate
<1>2. lastVal' \in Seq(Models)
  BY DEF Validate, IInv, TypeOK
<1>3. TypeOK'
  BY <1>1, <1>2 DEF Validate, IInv, TypeOK, PCs
<1>4. Place' /\ TrainedInOrder'
  BY <1>1, SavedKept DEF IInv, Place, TrainedInOrder
<1>5. QED
  BY <1>1, <1>3, <1>4, SavedKept DEF IInv

LEMMA SaveCheckpointIInv ==
  ASSUME IInv, SaveCheckpoint
  PROVE  IInv'
<1>1. config' = config /\ steps' = steps /\ epoch' = epoch
      /\ position' = position /\ batch' = batch /\ pc = "save" /\ pc' = "end"
      /\ model' = model
      /\ saved' \in {saved, [steps |-> steps, position |-> position, model |-> model]}
  BY DEF SaveCheckpoint
<1>2. /\ epoch \in 0 .. TotalEpochs - 1
      /\ steps = epoch * StepsPerEpoch + position
      /\ TrainedUpTo(model, steps, steps)
      /\ TrainedUpTo(saved.model, saved.steps, saved.steps)
  BY <1>1 DEF IInv, Place, TrainedInOrder
<1>3. saved' \in [steps : Nat, position : 0 .. StepsPerEpoch, model : Models]
  BY <1>1 DEF IInv, TypeOK
<1>4. TypeOK'
  BY <1>1, <1>3 DEF SaveCheckpoint, IInv, TypeOK, PCs
<1>5. \A m, a, c : TrainedUpTo(m, a, c)' = TrainedUpTo(m, a, c)
  BY <1>1 DEF TrainedUpTo, ActorUpdates, CriticUpdates, FirstActorStep, BatchOf
<1>6. Place'
  BY <1>1 DEF IInv, Place
<1>7. SavedPlace'
  BY <1>1, <1>2 DEF IInv, SavedPlace
<1>8. TrainedInOrder'
  <2>1. TrainedUpTo(saved'.model, saved'.steps, saved'.steps)
    BY <1>1, <1>2
  <2>2. TrainedUpTo(saved.model, saved.steps, saved.steps)'
    BY <1>5, <2>1
  <2>3. TrainedUpTo(model, steps, steps)'
    BY <1>1, <1>2, <1>5
  <2>4. QED
    BY <1>1, <2>2, <2>3 DEF TrainedInOrder
<1>9. QED
  BY <1>4, <1>6, <1>7, <1>8 DEF IInv

LEMMA EndStepIInv ==
  ASSUME IInv, EndStep
  PROVE  IInv'
<1>1. config' = config /\ saved' = saved /\ steps' = steps + 1 /\ epoch' = epoch
      /\ position' = position /\ batch' = batch /\ pc = "end"
      /\ pc' \in {"next", "returned"} /\ model' = model
  BY DEF EndStep
<1>2. steps \in Nat /\ epoch \in 0 .. TotalEpochs - 1
      /\ steps = epoch * StepsPerEpoch + position
  BY <1>1 DEF IInv, Place, TypeOK
<1>3. TypeOK'
  BY <1>1, <1>2 DEF EndStep, IInv, TypeOK, PCs
<1>4. Place'
  BY <1>1, <1>2 DEF Place
<1>5. steps' - 1 = steps
  BY <1>1, <1>2
<1>6. TrainedInOrder'
  BY <1>1, <1>5, SavedKept DEF IInv, TrainedInOrder
<1>7. QED
  BY <1>1, <1>3, <1>4, <1>6, SavedKept DEF IInv

(* A restart leaves nothing but the disk. *)
LEMMA RestartIInv ==
  ASSUME IInv, Restart
  PROVE  IInv'
<1>1. config' = config /\ saved' = saved /\ pc' = "down"
  BY DEF Restart
<1>2. TypeOK'
  BY FitAssumption DEF Restart, IInv, TypeOK, PCs
<1>3. Place' /\ TrainedInOrder'
  BY <1>1, SavedKept DEF IInv, Place, TrainedInOrder
<1>4. QED
  BY <1>1, <1>2, <1>3, SavedKept DEF IInv

-----------------------------------------------------------------------------
(* The theorems *)

LEMMA InductiveInvariant == Spec => []IInv
<1>1. IInv /\ [Next]_vars => IInv'
  <2> SUFFICES ASSUME IInv, [Next]_vars PROVE IInv'
    OBVIOUS
  <2>1. CASE LoadCheckpoint
    BY <2>1, LoadCheckpointIInv
  <2>2. CASE BeginTraining
    BY <2>2, BeginTrainingIInv
  <2>3. CASE NextBatch
    BY <2>3, NextBatchIInv
  <2>4. CASE NextEpoch
    BY <2>4, NextEpochIInv
  <2>5. CASE UpdateCritic
    BY <2>5, UpdateCriticIInv
  <2>6. CASE UpdateActor
    BY <2>6, UpdateActorIInv
  <2>7. CASE Validate
    BY <2>7, ValidateIInv
  <2>8. CASE SaveCheckpoint
    BY <2>8, SaveCheckpointIInv
  <2>9. CASE EndStep
    BY <2>9, EndStepIInv
  <2>10. CASE Restart
    BY <2>10, RestartIInv
  <2>11. CASE UNCHANGED vars
    <3>1. config' = config /\ saved' = saved
      BY <2>11 DEF vars
    <3>2. TypeOK'
      BY <2>11 DEF vars, IInv, TypeOK
    <3>3. Place' /\ TrainedInOrder'
      BY <2>11, SavedKept DEF vars, IInv, Place, TrainedInOrder
    <3>4. QED
      BY <3>1, <3>2, <3>3, SavedKept DEF IInv
  <2>12. QED
    BY <2>1, <2>2, <2>3, <2>4, <2>5, <2>6, <2>7, <2>8, <2>9, <2>10, <2>11 DEF Next
<1>2. QED
  BY <1>1, InitIInv, PTL DEF Spec

(* fit keeps the types and ranges of its state, for every number of epochs *)
(* and batches.                                                            *)
THEOREM FitTypeCorrect == Spec => []TypeOK
<1>1. IInv => TypeOK
  BY DEF IInv
<1>2. QED
  BY <1>1, InductiveInvariant, PTL

(* However often the driver dies, the models in memory and on disk are     *)
(* those of a run that never died (fit with _load_checkpoint and           *)
(* _save_checkpoint).                                                      *)
THEOREM RestartsChangeNothing == Spec => []TrainedInOrder
<1>1. IInv => TrainedInOrder
  BY DEF IInv
<1>2. QED
  BY <1>1, InductiveInvariant, PTL

-----------------------------------------------------------------------------
(* The end of the training.  is_last_step decides three times in a step:   *)
(* in Validate, in SaveCheckpoint and in EndStep.                          *)

(* A step that is announced as the last one is followed to its end. *)
EndPlace ==
  /\ pc \in {"loaded", "next"} => ~ isLast
  /\ pc \in {"save", "end"} /\ isLast /\ config.testFreq > 0 => lastVal = <<model>>
  /\ pc = "end" /\ isLast /\ config.saveFreq > 0 => saved.model = model

EndInv == EndPlace /\ FinalModelKept

LEMMA InitEndInv == Init => EndInv
BY DEF Init, EndInv, EndPlace, FinalModelKept

(* The calls before validation say nothing about the end. *)
LEMMA BeforeTheEnd ==
  ASSUME EndInv, LoadCheckpoint \/ BeginTraining \/ NextBatch \/ NextEpoch
                   \/ UpdateCritic \/ UpdateActor \/ Restart
  PROVE  EndInv'
<1>1. CASE LoadCheckpoint \/ Restart
  BY <1>1 DEF LoadCheckpoint, Restart, EndInv, EndPlace, FinalModelKept
<1>2. CASE BeginTraining
  BY <1>2 DEF BeginTraining, EndInv, EndPlace, FinalModelKept
<1>3. CASE NextEpoch
  BY <1>3 DEF NextEpoch, EndInv, EndPlace, FinalModelKept
<1>4. CASE NextBatch
  <2>1. pc' \in {"critic", "actor"}
    BY <1>4 DEF NextBatch
  <2>2. QED
    BY <2>1 DEF EndInv, EndPlace, FinalModelKept
<1>5. CASE UpdateCritic \/ UpdateActor
  <2>1. pc' \in {"actor", "validate"}
    BY <1>5 DEF UpdateCritic, UpdateActor
  <2>2. QED
    BY <2>1 DEF EndInv, EndPlace, FinalModelKept
<1>6. QED
  BY <1>1, <1>2, <1>3, <1>4, <1>5

LEMMA ValidateEndInv ==
  ASSUME EndInv, Validate
  PROVE  EndInv'
<1>1. pc' = "save" /\ config' = config /\ isLast' = isLast /\ model' = model
  BY DEF Validate
<1>2. isLast /\ config.testFreq > 0 => lastVal' = <<model>>
  BY DEF Validate, Validates
<1>3. QED
  BY <1>1, <1>2 DEF EndInv, EndPlace, FinalModelKept

LEMMA SaveCheckpointEndInv ==
  ASSUME EndInv, SaveCheckpoint
  PROVE  EndInv'
<1>1. /\ pc = "save" /\ pc' = "end" /\ config' = config /\ isLast' = isLast
      /\ model' = model /\ lastVal' = lastVal
  BY DEF SaveCheckpoint
<1>2. isLast /\ config.saveFreq > 0 => saved'.model = model
  BY DEF SaveCheckpoint, Saves
<1>3. QED
  BY <1>1, <1>2 DEF EndInv, EndPlace, FinalModelKept

LEMMA EndStepEndInv ==
  ASSUME EndInv, EndStep
  PROVE  EndInv'
<1>1. /\ pc = "end" /\ pc' = IF isLast THEN "returned" ELSE "next"
      /\ config' = config /\ isLast' = isLast /\ model' = model
      /\ lastVal' = lastVal /\ saved' = saved
  BY DEF EndStep
<1>2. CASE isLast
  BY <1>1, <1>2 DEF EndInv, EndPlace, FinalModelKept
<1>3. CASE ~ isLast
  BY <1>1, <1>3 DEF EndInv, EndPlace, FinalModelKept
<1>4. QED
  BY <1>2, <1>3

(* A run that reaches its last step has validated and saved the very       *)
(* models it ends with, for all settings and restarts (fit).               *)
THEOREM FinalModelSurvives == Spec => []FinalModelKept
<1>1. EndInv /\ [Next]_vars => EndInv'
  <2>1. SUFFICES ASSUME EndInv, [Next]_vars PROVE EndInv'
    OBVIOUS
  <2>2. CASE UNCHANGED vars
    BY <2>1, <2>2 DEF vars, EndInv, EndPlace, FinalModelKept
  <2>3. QED
    BY <2>1, <2>2, BeforeTheEnd, ValidateEndInv, SaveCheckpointEndInv, EndStepEndInv DEF Next
<1>2. EndInv => FinalModelKept
  BY DEF EndInv
<1>3. QED
  BY <1>1, <1>2, InitEndInv, PTL DEF Spec

-----------------------------------------------------------------------------
(* What a driver that dies loses. *)

(* The steps since the checkpoint were all passed over by saveFreq, so     *)
(* there are no more of them than steps since its last multiple.           *)
LagInv ==
  /\ pc = "loaded" => saved.steps = steps
  /\ config.saveFreq > 0 =>
       /\ pc \in {"next", "critic", "actor", "validate", "save"} =>
            (steps - 1) - saved.steps <= (steps - 1) % config.saveFreq
       /\ pc = "end" => steps - saved.steps <= steps % config.saveFreq

(* The step after n either is a multiple of F or one more past the last.   *)
LEMMA NextRemainder ==
  ASSUME NEW F \in Nat \ {0}, NEW n \in Nat
  PROVE  /\ n % F \in 0 .. F - 1
         /\ (n + 1) % F = 0 \/ (n + 1) % F = (n % F) + 1
<1> DEFINE q == n \div F
           r == n % F
<1>1. q \in Nat /\ r \in 0 .. F - 1 /\ n = F * q + r
  OBVIOUS
<1> HIDE DEF q, r
<1>2. CASE r = F - 1
  <2>1. n + 1 = (q + 1) * F + 0
    BY <1>1, <1>2
  <2>2. ((q + 1) * F + 0) % F = 0
    BY <1>1, DivMod
  <2>3. QED
    BY <1>1, <2>1, <2>2 DEF r
<1>3. CASE r # F - 1
  <2>1. n + 1 = q * F + (r + 1) /\ r + 1 \in 0 .. F - 1
    BY <1>1, <1>3
  <2>2. (q * F + (r + 1)) % F = r + 1
    BY <1>1, <2>1, DivMod
  <2>3. QED
    BY <1>1, <2>1, <2>2 DEF r
<1>4. QED
  BY <1>2, <1>3

LEMMA SaveFreqType ==
  ASSUME TypeOK
  PROVE  config.saveFreq \in Int /\ (config.saveFreq > 0 => config.saveFreq \in Nat \ {0})
<1>1. config \in ConfigType
  BY FitAssumption DEF TypeOK
<1>2. QED
  BY <1>1 DEF ConfigType

LEMMA InitLagInv == Init => LagInv
BY DEF Init, LagInv

(* From the loading to the checkpoint nothing is counted and nothing saved. *)
LEMMA BetweenCheckpoints ==
  ASSUME TypeOK, LagInv, NextBatch \/ NextEpoch \/ UpdateCritic \/ UpdateActor \/ Validate
  PROVE  LagInv'
<1>1. config' = config /\ steps' = steps /\ saved' = saved
  BY DEF NextBatch, NextEpoch, UpdateCritic, UpdateActor, Validate
<1>2. /\ pc \in {"next", "critic", "actor", "validate"}
      /\ pc' \in {"next", "critic", "actor", "validate", "save", "returned"}
  BY DEF NextBatch, NextEpoch, UpdateCritic, UpdateActor, Validate
<1>3. QED
  BY <1>1, <1>2 DEF LagInv

LEMMA LoadingLagInv ==
  ASSUME TypeOK, LagInv, LoadCheckpoint \/ BeginTraining \/ Restart
  PROVE  LagInv'
<1>1. CASE LoadCheckpoint
  BY <1>1 DEF LoadCheckpoint, LagInv
<1>2. CASE Restart
  BY <1>2 DEF Restart, LagInv
<1>3. CASE BeginTraining
  <2>1. /\ pc = "loaded" /\ pc' \in {"next", "returned"} /\ steps' = steps + 1
        /\ config' = config /\ saved' = saved
    BY <1>3 DEF BeginTraining
  <2>2. steps \in Nat /\ saved.steps = steps
    BY <2>1 DEF TypeOK, LagInv
  <2>3. config.saveFreq > 0 => 0 <= steps % config.saveFreq
    BY <2>2, SaveFreqType, NextRemainder
  <2>4. QED
    BY <2>1, <2>2, <2>3 DEF LagInv
<1>4. QED
  BY <1>1, <1>2, <1>3

(* A step that is not saved is no multiple of saveFreq. *)
LEMMA SaveCheckpointLagInv ==
  ASSUME TypeOK, TypeOK', LagInv, SaveCheckpoint, pc = "save" => steps > 0
  PROVE  LagInv'
<1> DEFINE F == config.saveFreq
<1>1. /\ pc = "save" /\ pc' = "end" /\ config' = config /\ steps' = steps
      /\ \/ saved'.steps = steps
         \/ saved' = saved /\ ~ (F > 0 /\ steps % F = 0)
  BY DEF SaveCheckpoint, Saves
<1>2. /\ steps \in Nat /\ steps - 1 \in Nat /\ saved.steps \in Nat
      /\ F \in Int /\ (F > 0 => F \in Nat \ {0})
  BY <1>1, SaveFreqType DEF TypeOK
<1>3. SUFFICES ASSUME F > 0 PROVE steps - saved'.steps <= steps % F
  BY <1>1 DEF LagInv
<1>4. (steps - 1) - saved.steps <= (steps - 1) % F
  BY <1>1, <1>3 DEF LagInv
<1> HIDE DEF F
<1>5. PICK n \in Nat : n = steps - 1 /\ steps = n + 1
  BY <1>2
<1>6. F \in Nat \ {0}
  BY <1>2, <1>3
<1>7. PICK r \in Nat : r = n % F
  BY <1>5, <1>6, NextRemainder
<1>8. steps % F = 0 \/ steps % F = r + 1
  BY <1>5, <1>6, <1>7, NextRemainder
<1>9. n - saved.steps <= r
  BY <1>4, <1>5, <1>7
<1>10. CASE steps % F = r + 1 /\ saved' = saved
  BY <1>2, <1>5, <1>7, <1>9, <1>10
<1>11. CASE saved'.steps = steps
  <2>1. steps % F >= 0
    BY <1>7, <1>8
  <2>2. QED
    BY <1>2, <1>11, <2>1
<1>12. QED
  BY <1>1, <1>3, <1>8, <1>10, <1>11

LEMMA EndStepLagInv ==
  ASSUME TypeOK, LagInv, EndStep
  PROVE  LagInv'
<1>1. /\ pc = "end" /\ pc' \in {"next", "returned"} /\ steps' = steps + 1
      /\ config' = config /\ saved' = saved
  BY DEF EndStep
<1>2. steps \in Nat /\ (steps + 1) - 1 = steps
  BY DEF TypeOK
<1>3. QED
  BY <1>1, <1>2 DEF LagInv

(* A driver that dies loses less than saveFreq finished steps, for every   *)
(* saving frequency, number of batches and position in an epoch (fit).     *)
THEOREM LessThanSaveFreqIsLost == Spec => []LittleIsLost
<1>1. IInv /\ IInv' /\ LagInv /\ [Next]_vars => LagInv'
  <2> SUFFICES ASSUME IInv, IInv', LagInv, [Next]_vars PROVE LagInv'
    OBVIOUS
  <2>1. TypeOK /\ TypeOK'
    BY DEF IInv
  <2>2. pc = "save" => steps > 0
    BY FitAssumption DEF IInv, Place
  <2>3. CASE UNCHANGED vars
    BY <2>3 DEF vars, LagInv
  <2>4. QED
    BY <2>1, <2>2, <2>3, BetweenCheckpoints, LoadingLagInv, SaveCheckpointLagInv, EndStepLagInv
    DEF Next
<1>2. IInv /\ LagInv => LittleIsLost
  <2> SUFFICES ASSUME IInv, LagInv, config.saveFreq > 0, pc = "next"
               PROVE  steps - saved.steps <= config.saveFreq
    BY DEF LittleIsLost
  <2>1. config.saveFreq \in Nat \ {0} /\ saved.steps \in Nat
    BY SaveFreqType DEF IInv, TypeOK
  <2>2. steps - 1 \in Nat
    BY FitAssumption DEF IInv, Place, TypeOK
  <2>3. (steps - 1) - saved.steps <= (steps - 1) % config.saveFreq
    BY DEF LagInv
  <2>4. PICK F \in Nat \ {0} : F = config.saveFreq
    BY <2>1
  <2>5. PICK n \in Nat : n = steps - 1 /\ steps = n + 1
    BY <2>2, FitAssumption DEF IInv, TypeOK
  <2>6. n % F \in 0 .. F - 1
    BY NextRemainder
  <2>7. n - saved.steps <= n % F
    BY <2>3, <2>4, <2>5
  <2>8. QED
    BY <2>1, <2>4, <2>5, <2>6, <2>7
<1>3. QED
  BY <1>1, <1>2, InitLagInv, InductiveInvariant, PTL DEF Spec

-----------------------------------------------------------------------------
(* The rows of a batch *)

LEMMA RowFacts ==
  /\ Rows \subseteq Nat /\ IsFiniteSet(Rows) /\ Cardinality(Rows) = NumRows
  /\ Tokens \subseteq Nat /\ IsFiniteSet(Tokens) /\ 1 \in Tokens
<1>1. NumRows \in Nat \ {0} /\ ResponseLength \in Nat \ {0}
  BY EstimatorAssumption
<1>2. QED
  BY <1>1, FS_Interval DEF Rows, Tokens

(* What a batch holds. *)
LEMMA BatchFacts ==
  ASSUME IsBatch(data)
  PROVE  /\ Real = Valid(data) /\ Real \subseteq Rows /\ IsFiniteSet(Real) /\ Real # {}
         /\ Real = {i \in Rows : data.valid[i]}
         /\ \A i \in Rows : /\ data.traj[i] \in Nat /\ data.step[i] \in Nat /\ data.uid[i] \in Nat
                            /\ data.length[i] \in Nat
                            /\ \A j \in Tokens : /\ data.mask[i][j] \in {0, 1}
                                                 /\ data.reward[i][j] \in Int
                                                 /\ data.value[i][j] \in Int
<1>1. Real = Valid(data) /\ Real \subseteq Rows /\ Real = {i \in Rows : data.valid[i]} /\ Real # {}
  BY DEF Real, Valid, IsBatch
<1>2. IsFiniteSet(Real)
  BY <1>1, RowFacts, FS_Subset
<1>3. data \in BatchType
  BY DEF IsBatch
<1>4. ASSUME NEW i \in Rows
      PROVE  /\ data.traj[i] \in Nat /\ data.step[i] \in Nat /\ data.uid[i] \in Nat
             /\ data.length[i] \in Nat
             /\ \A j \in Tokens : /\ data.mask[i][j] \in {0, 1}
                                  /\ data.reward[i][j] \in Int
                                  /\ data.value[i][j] \in Int
  <2>1. /\ data.traj \in [Rows -> Nat] /\ data.step \in [Rows -> Nat] /\ data.uid \in [Rows -> Nat]
        /\ data.length \in [Rows -> Nat]
        /\ data.mask \in [Rows -> [Tokens -> {0, 1}]]
        /\ data.reward \in [Rows -> [Tokens -> Int]] /\ data.value \in [Rows -> [Tokens -> Int]]
    BY <1>3 DEF BatchType
  <2>2. /\ data.mask[i] \in [Tokens -> {0, 1}] /\ data.reward[i] \in [Tokens -> Int]
        /\ data.value[i] \in [Tokens -> Int]
    BY <2>1
  <2>3. QED
    BY <2>1, <2>2
<1>5. QED
  BY <1>1, <1>2, <1>4

(* A trajectory has one row for each of its steps, from 0 on. *)
LEMMA BatchOrder ==
  ASSUME IsBatch(data)
  PROVE  /\ \A i, k \in Real : data.traj[i] = data.traj[k] => data.uid[i] = data.uid[k]
         /\ \A i, k \in Real : data.traj[i] = data.traj[k] /\ data.step[i] = data.step[k] => i = k
         /\ \A i \in Real : data.step[i] = 0
              \/ \E k \in Real : data.traj[k] = data.traj[i] /\ data.step[k] = data.step[i] - 1
         /\ \A i \in Rows, j \in Tokens : data.mask[i][j] = 1 => i \in Real /\ j <= data.length[i]
BY DEF IsBatch, Real

(* The last step of any trajectory. *)
LEMMA LastStepIs ==
  ASSUME IsBatch(data)
  PROVE  LastStep(data) \in Nat /\ \A i \in Real : data.step[i] \in 0 .. LastStep(data)
<1> DEFINE S == {data.step[i] : i \in Real}
<1>1. S \subseteq Nat /\ S # {} /\ IsFiniteSet(S)
  <2>1. IsFiniteSet(S)
    <3> DEFINE f == [i \in Real |-> data.step[i]]
    <3>1. f \in Surjection(Real, S)
      BY DEF Surjection
    <3>2. IsFiniteSet(Real)
      BY BatchFacts
    <3> HIDE DEF f, S
    <3> QED BY <3>1, <3>2, FS_Surjection
  <2>2. QED
    BY <2>1, BatchFacts
<1>2. PICK b \in Nat : \A x \in S : x <= b
  <2> HIDE DEF S
  <2> QED BY <1>1, FiniteBound
<1>3. Max(S) \in S /\ \A x \in S : x <= Max(S)
  <2> HIDE DEF S
  <2> QED BY <1>1, <1>2, MaxProperties
<1>4. LastStep(data) = Max(S)
  BY BatchFacts DEF LastStep
<1>5. \A i \in Real : data.step[i] \in S
  OBVIOUS
<1> HIDE DEF S
<1>6. Max(S) \in Nat
  BY <1>1, <1>3
<1>7. \A i \in Real : data.step[i] \in Nat /\ data.step[i] <= Max(S)
  BY <1>1, <1>3, <1>5
<1>8. QED
  BY <1>4, <1>6, <1>7

-----------------------------------------------------------------------------
(* Discounted sums *)

LEMMA PowersAre ==
  ASSUME NEW base \in Int
  PROVE  /\ Powers(base) \in [Nat -> Int] /\ Powers(base)[0] = 1
         /\ \A n \in Nat : Powers(base)[n + 1] = base * Powers(base)[n]
<1> DEFINE h == [v \in Int |-> base * v]
           Eq(f) == f = [n \in Nat |-> IF n = 0 THEN 1 ELSE base * f[n - 1]]
<1>1. h \in [Int -> Int]
  OBVIOUS
<1>2. PICK f \in [Nat -> Int] : f[0] = 1 /\ \A n \in Nat : f[n + 1] = h[f[n]]
  <2> DEFINE D == Int
             e == 1
  <2>1. e \in D /\ h \in [D -> D]
    BY <1>1
  <2> HIDE DEF h, D, e
  <2>2. \E f \in [Nat -> D] : f[0] = e /\ \A n \in Nat : f[n + 1] = h[f[n]]
    BY <2>1, UpExists
  <2> QED BY <2>2 DEF D, e
<1>3. Eq(f)
  <2>1. ASSUME NEW n \in Nat PROVE f[n] = IF n = 0 THEN 1 ELSE base * f[n - 1]
    <3>1. CASE n = 0
      BY <1>2, <3>1
    <3>2. CASE n # 0
      <4>1. n - 1 \in Nat /\ (n - 1) + 1 = n
        BY <3>2
      <4>2. f[n] = h[f[n - 1]] /\ f[n - 1] \in Int
        BY <1>2, <4>1
      <4>3. QED
        BY <3>2, <4>2
    <3>3. QED
      BY <3>1, <3>2
  <2>2. QED
    BY <1>2, <2>1
<1>4. Powers(base) = CHOOSE g : Eq(g)
  BY DEF Powers
<1>5. Eq(Powers(base))
  <2> HIDE DEF Eq
  <2> QED BY <1>3, <1>4
<1> DEFINE p == Powers(base)
<1> HIDE DEF p
<1>6. \A n \in Nat : p[n] = IF n = 0 THEN 1 ELSE base * p[n - 1]
  BY <1>5 DEF p
<1>7. DOMAIN p = Nat /\ p = [n \in Nat |-> p[n]]
  BY <1>5 DEF p
<1>8. \A n \in Nat : p[n] = f[n]
  <2> DEFINE T == {n \in Nat : p[n] = f[n]}
  <2>1. ASSUME NEW m \in Nat PROVE m \in T
    <3>1. 0 \in T
      BY <1>2, <1>6
    <3>2. ASSUME NEW n \in 0 .. m - 1, n \in T PROVE n + 1 \in T
      <4>1. n + 1 \in Nat /\ n + 1 # 0 /\ (n + 1) - 1 = n /\ n \in Nat
        OBVIOUS
      <4>2. p[n + 1] = base * p[n] /\ f[n + 1] = base * f[n]
        BY <1>2, <1>6, <4>1
      <4>3. QED
        BY <3>2, <4>1, <4>2
    <3>3. 0 .. m \subseteq T
      <4> HIDE DEF T
      <4> QED BY <3>1, <3>2, UpTo
    <3>4. QED
      BY <3>3
  <2>2. QED
    BY <2>1
<1>9. QED
  <2>1. p \in [Nat -> Int]
    BY <1>2, <1>7, <1>8
  <2>2. p[0] = 1 /\ \A n \in Nat : p[n + 1] = base * p[n]
    <3>1. \A n \in Nat : n + 1 \in Nat /\ n + 1 # 0 /\ (n + 1) - 1 = n
      OBVIOUS
    <3>2. QED
      BY <1>6, <3>1
  <2>3. QED
    BY <2>1, <2>2 DEF p

(* What is nearest counts once; everything beyond is discounted once more. *)
LEMMA DiscountStep ==
  ASSUME NEW base \in Int, NEW A, IsFiniteSet(A), NEW B, IsFiniteSet(B), A \cap B = {},
         NEW x, \A k \in A \cup B : x[k] \in Int,
         NEW d, \A k \in A : d[k] = 0,
         NEW e, \A k \in B : e[k] \in Nat /\ d[k] = e[k] + 1
  PROVE  /\ Discounted(base, B, e, x) \in Int
         /\ Discounted(base, A \cup B, d, x)
              = SumFunctionOnSet(x, A) + base * Discounted(base, B, e, x)
<1> DEFINE p == Powers(base)
           u == [k \in A \cup B |-> p[d[k]] * x[k]]
           v == [k \in B |-> p[e[k]] * x[k]]
<1>1. p \in [Nat -> Int] /\ p[0] = 1 /\ \A n \in Nat : p[n + 1] = base * p[n]
  BY PowersAre
<1> HIDE DEF p
<1>2. \A k \in A : u[k] = x[k] /\ x[k] \in Int
  <2>1. \A k \in A : p[d[k]] = 1
    BY <1>1
  <2>2. QED
    BY <2>1
<1>3. \A k \in B : v[k] \in Int /\ u[k] = base * v[k]
  <2>1. TAKE k \in B
  <2>2. p[d[k]] = base * p[e[k]] /\ p[e[k]] \in Int /\ x[k] \in Int
    BY <1>1
  <2>3. \A a, b, c \in Int : (a * b) * c = a * (b * c) /\ b * c \in Int
    OBVIOUS
  <2>4. QED
    BY <2>2, <2>3
<1>4. \A k \in A \cup B : u[k] \in Int
  BY <1>2, <1>3
<1> HIDE DEF u, v
<1>5. SumFunctionOnSet(u, A \cup B) = SumFunctionOnSet(u, A) + SumFunctionOnSet(u, B)
  BY <1>4, SumUnion
<1>6. SumFunctionOnSet(u, A) = SumFunctionOnSet(x, A)
  BY <1>2, SumSame
<1>7. SumFunctionOnSet(u, B) = base * SumFunctionOnSet(v, B) /\ SumFunctionOnSet(v, B) \in Int
  BY <1>3, SumScaled, SumFacts
<1>8. /\ Discounted(base, A \cup B, d, x) = SumFunctionOnSet(u, A \cup B)
      /\ Discounted(base, B, e, x) = SumFunctionOnSet(v, B)
  BY DEF Discounted, p, u, v
<1>9. QED
  BY <1>5, <1>6, <1>7, <1>8

(* Only the distances and values within the set count. *)
LEMMA DiscountSame ==
  ASSUME NEW base \in Int, NEW S, NEW d, NEW e, NEW x, NEW y,
         \A k \in S : d[k] = e[k] /\ x[k] = y[k]
  PROVE  Discounted(base, S, d, x) = Discounted(base, S, e, y)
<1>1. [k \in S |-> Powers(base)[d[k]] * x[k]] = [k \in S |-> Powers(base)[e[k]] * y[k]]
  OBVIOUS
<1>2. QED
  BY <1>1 DEF Discounted

(* Nothing is discounted to nothing. *)
LEMMA DiscountNone ==
  ASSUME NEW base, NEW d, NEW x
  PROVE  Discounted(base, {}, d, x) = 0
<1>1. IsFiniteSet({})
  BY FS_EmptySet
<1> DEFINE u == [k \in {} |-> Powers(base)[d[k]] * x[k]]
<1>2. SumFunctionOnSet(u, {}) = 0
  <2> HIDE DEF u
  <2> QED BY <1>1, SumFacts
<1>3. QED
  BY <1>2 DEF Discounted

-----------------------------------------------------------------------------
(* Backwards over the steps *)

LEMMA RowsAtAre ==
  ASSUME IsBatch(data), NEW t, NEW s
  PROVE  /\ RowsAt(data, t, s) = {i \in Real : data.traj[i] = t /\ data.step[i] = s}
         /\ IsFiniteSet(RowsAt(data, t, s)) /\ RowsAt(data, t, s) \subseteq Real
<1>1. RowsAt(data, t, s) = {i \in Real : data.traj[i] = t /\ data.step[i] = s}
  BY BatchFacts DEF RowsAt
<1>2. RowsAt(data, t, s) \in SUBSET Real
  BY <1>1
<1>3. QED
  BY <1>1, <1>2, BatchFacts, FS_Subset

(* The loop over the steps gives every row the discounted sum of what its  *)
(* trajectory has from there on.                                           *)
LEMMA BackwardsIs ==
  ASSUME IsBatch(data), NEW factor \in Int, NEW table, NEW x, \A k \in Real : x[k] \in Int,
         \A s \in 0 .. LastStep(data) : \A t \in Trajectories(data) :
            table[s][t] = SumFunctionOnSet(x, RowsAt(data, t, s))
  PROVE  \A i \in Real :
            /\ Backwards(data, table, factor)[i] \in Int
            /\ Backwards(data, table, factor)[i] = Discounted(factor, From(i), Away(i), x)
<1> DEFINE L == LastStep(data)
           Tr == Trajectories(data)
           D == [Tr -> Int]
           zero == [t \in Tr |-> 0]
           Plus(s, y) == [t \in Tr |-> table[s][t] + factor * y[t]]
           Eq(f) == f = [s \in 0 .. L + 1 |-> IF s > L THEN zero ELSE Plus(s, f[s + 1])]
           last == CHOOSE f : Eq(f)
           h == [s \in 0 .. (L + 1) - 1 |-> [y \in D |-> Plus(s, y)]]
<1>1. L \in Nat /\ L + 1 \in Nat /\ (L + 1) - 1 = L /\ \A i \in Real : data.step[i] \in 0 .. L
  BY LastStepIs
<1> HIDE DEF L
<1>2. \A s \in 0 .. L : \A t \in Tr : table[s][t] \in Int
  <2>1. TAKE s \in 0 .. L
  <2>2. TAKE t \in Tr
  <2>3. IsFiniteSet(RowsAt(data, t, s)) /\ \A k \in RowsAt(data, t, s) : x[k] \in Int
    BY RowsAtAre
  <2>4. SumFunctionOnSet(x, RowsAt(data, t, s)) \in Int
    BY <2>3, SumFacts
  <2>5. QED
    BY <2>4 DEF L
<1> HIDE DEF Tr
<1>3. zero \in D
  OBVIOUS
<1>4. h \in [0 .. (L + 1) - 1 -> [D -> D]]
  <2>1. ASSUME NEW s \in 0 .. L, NEW y \in D PROVE Plus(s, y) \in D
    <3>1. \A t \in Tr : table[s][t] + factor * y[t] \in Int
      BY <1>2
    <3>2. QED
      BY <3>1
  <2> HIDE DEF Plus, D
  <2>2. QED
    BY <1>1, <2>1
<1> HIDE DEF D, zero
<1>5. \E f : Eq(f)
  <2>1. PICK f \in [0 .. L + 1 -> D] : f[L + 1] = zero
                     /\ \A s \in 0 .. (L + 1) - 1 : f[s] = h[s][f[s + 1]]
    <3> DEFINE n == L + 1
    <3>1. n \in Nat /\ StepsDown(h, n, D)
      BY <1>1, <1>4 DEF StepsDown
    <3> HIDE DEF h, n
    <3>2. \E f : Downwards(f, 0, n, D, zero, h)
      BY <1>3, <3>1, DownExists
    <3>3. QED
      BY <3>2 DEF n, Downwards
  <2>2. ASSUME NEW s \in 0 .. L + 1 PROVE f[s] = IF s > L THEN zero ELSE Plus(s, f[s + 1])
    <3>1. CASE s > L
      <4>1. s = L + 1
        BY <1>1, <3>1
      <4>2. QED
        BY <2>1, <3>1, <4>1
    <3>2. CASE ~ (s > L)
      <4>1. s \in 0 .. (L + 1) - 1 /\ s + 1 \in 0 .. L + 1
        BY <1>1, <3>2
      <4>2. f[s + 1] \in D
        BY <2>1, <4>1
      <4>3. h[s][f[s + 1]] = Plus(s, f[s + 1])
        <5> HIDE DEF Plus
        <5> QED BY <4>1, <4>2
      <4>4. QED
        BY <2>1, <3>2, <4>1, <4>3
    <3>3. QED
      BY <3>1, <3>2
  <2> HIDE DEF Plus
  <2>3. Eq(f)
    BY <2>1, <2>2
  <2>4. QED
    BY <2>3
<1>6. Eq(last)
  <2> HIDE DEF Eq
  <2> QED BY <1>5
<1> HIDE DEF last
<1>7. last[L + 1] = zero /\ \A s \in 0 .. L : last[s] = Plus(s, last[s + 1])
  <2> HIDE DEF Plus
  <2>1. \A s \in 0 .. L + 1 : last[s] = IF s > L THEN zero ELSE Plus(s, last[s + 1])
    BY <1>6
  <2>2. L + 1 \in 0 .. L + 1 /\ L + 1 > L /\ \A s \in 0 .. L : s \in 0 .. L + 1 /\ ~ (s > L)
    BY <1>1
  <2>3. QED
    BY <2>1, <2>2
<1> DEFINE G(t, s) == {k \in Real : data.traj[k] = t /\ data.step[k] >= s}
           d(s) == [k \in Real |-> data.step[k] - s]
           Right(s) == \A t \in Tr : /\ last[s][t] \in Int
                                     /\ last[s][t] = Discounted(factor, G(t, s), d(s), x)
           T == {m \in 0 .. L + 1 : Right(L + 1 - m)}
<1>8. \A i \in Real : data.traj[i] \in Nat /\ data.step[i] \in Nat
  BY BatchFacts
<1>9. 0 \in T
  <2>1. \A t \in Tr : G(t, L + 1) = {} /\ last[L + 1][t] = 0
    BY <1>1, <1>7, <1>8 DEF zero
  <2>2. (L + 1) - 0 = L + 1 /\ 0 \in 0 .. L + 1
    BY <1>1
  <2>3. Right(L + 1)
    <3> HIDE DEF G, d
    <3> QED BY <2>1, DiscountNone
  <2>4. QED
    BY <2>2, <2>3
<1>10. ASSUME NEW m \in 0 .. L, m \in T PROVE m + 1 \in T
  <2> DEFINE s == L - m
  <2>1. s \in 0 .. L /\ L + 1 - m = s + 1 /\ L + 1 - (m + 1) = s /\ m + 1 \in 0 .. L + 1
    BY <1>1
  <2> HIDE DEF s
  <2>2. ASSUME NEW t \in Tr
        PROVE  last[s][t] \in Int /\ last[s][t] = Discounted(factor, G(t, s), d(s), x)
    <3> DEFINE A == RowsAt(data, t, s)
               B == G(t, s + 1)
    <3>1. A = {i \in Real : data.traj[i] = t /\ data.step[i] = s} /\ IsFiniteSet(A)
      BY RowsAtAre
    <3>2. IsFiniteSet(B)
      <4>1. B \in SUBSET Real
        OBVIOUS
      <4>2. QED
        BY <4>1, BatchFacts, FS_Subset
    <3>3. G(t, s) = A \cup B /\ A \cap B = {}
      BY <1>8, <2>1, <3>1
    <3>4. \A k \in A : d(s)[k] = 0
      BY <1>8, <2>1, <3>1
    <3>5. \A k \in B : d(s + 1)[k] \in Nat /\ d(s)[k] = d(s + 1)[k] + 1
      BY <1>8, <2>1
    <3>6. \A k \in A \cup B : x[k] \in Int
      BY <3>1
    <3>7. last[s + 1][t] \in Int /\ last[s + 1][t] = Discounted(factor, B, d(s + 1), x)
      BY <1>10, <2>1
    <3>8. last[s][t] = table[s][t] + factor * last[s + 1][t]
      BY <1>7, <2>1
    <3>9. table[s][t] = SumFunctionOnSet(x, A) /\ table[s][t] \in Int
      BY <1>2, <2>1 DEF L, Tr
    <3> HIDE DEF A, d, G
    <3>10. Discounted(factor, A \cup B, d(s), x)
             = SumFunctionOnSet(x, A) + factor * Discounted(factor, B, d(s + 1), x)
      <4> HIDE DEF B
      <4> QED BY <3>1, <3>2, <3>3, <3>4, <3>5, <3>6, DiscountStep
    <3>11. QED
      BY <3>3, <3>7, <3>8, <3>9, <3>10
  <2>3. Right(s)
    BY <2>2
  <2>4. QED
    BY <2>1, <2>3
<1>11. 0 .. L + 1 \subseteq T
  <2> HIDE DEF T
  <2>1. \A m \in 0 .. (L + 1) - 1 : m \in T => m + 1 \in T
    BY <1>1, <1>10
  <2> QED BY <1>1, <1>9, <2>1, UpTo
<1>12. \A s \in 0 .. L : Right(s)
  <2>1. TAKE s \in 0 .. L
  <2>2. L + 1 - s \in 0 .. L + 1 /\ L + 1 - (L + 1 - s) = s
    BY <1>1
  <2>3. L + 1 - s \in T
    BY <1>11, <2>2
  <2>4. QED
    BY <2>2, <2>3
<1>13. ASSUME NEW i \in Real
       PROVE  /\ Backwards(data, table, factor)[i] \in Int
              /\ Backwards(data, table, factor)[i] = Discounted(factor, From(i), Away(i), x)
  <2> DEFINE t == data.traj[i]
             s == data.step[i]
  <2>1. t \in Tr /\ s \in 0 .. L
    BY <1>1, BatchFacts DEF Tr, Trajectories
  <2>2. Backwards(data, table, factor)[i] = last[s][t]
    <3>1. Backwards(data, table, factor) = [k \in Valid(data) |-> last[data.step[k]][data.traj[k]]]
      BY DEF Backwards, last, L, Tr, zero
    <3>2. i \in Valid(data)
      BY BatchFacts
    <3>3. QED
      BY <3>1, <3>2
  <2>3. From(i) = G(t, s)
    BY DEF From, SameTrajectory
  <2>4. \A k \in From(i) : d(s)[k] = Away(i)[k]
    BY DEF Away, From
  <2>5. Discounted(factor, From(i), d(s), x) = Discounted(factor, From(i), Away(i), x)
    <3> HIDE DEF d
    <3> QED BY <2>4, DiscountSame
  <2>6. last[s][t] \in Int /\ last[s][t] = Discounted(factor, G(t, s), d(s), x)
    BY <1>12, <2>1
  <2> HIDE DEF G, d
  <2>7. QED
    BY <2>2, <2>3, <2>5, <2>6
<1>14. QED
  BY <1>13
-----------------------------------------------------------------------------
(* What the tables hold *)

LEMMA WrittenIs ==
  ASSUME IsBatch(data)
  PROVE  /\ \A i \in Rows : \A j \in Tokens : <<i, j>> \in Written <=> data.mask[i][j] = 1
         /\ \A w \in Written : /\ w[1] \in Real /\ w[1] \in Rows /\ w[2] \in Tokens
                               /\ w = <<w[1], w[2]>> /\ w[2] <= data.length[w[1]]
         /\ Written = Generated(data) /\ IsFiniteSet(Written)
<1>1. \A i \in Rows : \A j \in Tokens : <<i, j>> \in Written <=> data.mask[i][j] = 1
  BY BatchOrder DEF Written
<1>2. \A w \in Written : /\ w[1] \in Real /\ w[1] \in Rows /\ w[2] \in Tokens
                         /\ w = <<w[1], w[2]>> /\ w[2] <= data.length[w[1]]
  BY BatchFacts, BatchOrder DEF Written
<1>3. Written = Generated(data)
  BY BatchFacts DEF Written, Generated
<1>4. IsFiniteSet(Written)
  <2>1. IsFiniteSet(Real \X Tokens)
    BY BatchFacts, RowFacts, FS_Product
  <2>2. Written \in SUBSET (Real \X Tokens)
    BY DEF Written
  <2>3. QED
    BY <2>1, <2>2, FS_Subset
<1>5. QED
  BY <1>1, <1>2, <1>3, <1>4

(* The reward of a step is that of the tokens the model wrote. *)
LEMMA StepRewardIs ==
  ASSUME IsBatch(data), NEW i \in Real
  PROVE  StepReward(data, i) = Reward[i] /\ Reward[i] \in Int
<1> DEFINE x == [j \in Tokens |-> data.reward[i][j] * data.mask[i][j]]
           A == {j \in Tokens : <<i, j>> \in Written}
<1>1. i \in Rows
  BY BatchFacts
<1>2. \A j \in Tokens : /\ data.reward[i][j] \in Int /\ data.mask[i][j] \in {0, 1}
                        /\ (j \in A <=> data.mask[i][j] = 1)
  BY <1>1, BatchFacts, WrittenIs
<1>3. \A j \in Tokens : x[j] \in Int
  <2>1. \A p \in Int, q \in {0, 1} : p * q \in Int
    OBVIOUS
  <2>2. QED
    BY <1>2, <2>1
<1>4. \A j \in Tokens \ A : x[j] = 0
  BY <1>2
<1>5. \A j \in A : x[j] = data.reward[i][j] /\ data.reward[i][j] \in Int
  BY <1>2
<1>6. A \in SUBSET Tokens /\ IsFiniteSet(Tokens)
  BY RowFacts
<1>7. IsFiniteSet(A)
  BY <1>6, FS_Subset
<1>8. StepReward(data, i) = SumFunctionOnSet(x, Tokens)
  BY DEF StepReward
<1>9. Reward[i] = SumFunctionOnSet(data.reward[i], A)
  BY DEF Reward
<1> DEFINE y == data.reward[i]
<1>10. \A j \in A : y[j] \in Int /\ x[j] = y[j]
  BY <1>5
<1> HIDE DEF x, A, y
<1>11. SumFunctionOnSet(x, Tokens) = SumFunctionOnSet(x, A)
  BY <1>3, <1>4, <1>6, SumSupport
<1>12. SumFunctionOnSet(x, A) = SumFunctionOnSet(y, A) /\ SumFunctionOnSet(y, A) \in Int
  BY <1>7, <1>10, SumSame, SumFacts
<1>13. QED
  BY <1>8, <1>9, <1>11, <1>12 DEF y

(* A row stands in the table at its step. *)
LEMMA TableIs ==
  ASSUME IsBatch(data), NEW x, NEW y, \A i \in Real : y[i] \in Int /\ x[i] = y[i],
         NEW s \in 0 .. LastStep(data), NEW t \in Trajectories(data)
  PROVE  /\ Table(data, x)[s][t] = SumFunctionOnSet(y, RowsAt(data, t, s))
         /\ Table(data, x)[s][t] \in Int
<1> DEFINE R == RowsAt(data, t, s)
<1>1. IsFiniteSet(R) /\ \A k \in R : y[k] \in Int /\ x[k] = y[k]
  BY RowsAtAre
<1>2. Table(data, x)[s][t] = SumFunctionOnSet(x, R)
  BY DEF Table
<1> HIDE DEF R
<1>3. SumFunctionOnSet(x, R) = SumFunctionOnSet(y, R) /\ SumFunctionOnSet(y, R) \in Int
  BY <1>1, SumSame, SumFacts
<1>4. QED
  BY <1>2, <1>3 DEF R

Numbers(table) == \A i \in Rows : \A j \in Tokens : table[i][j] \in Int

(* Every token the model wrote is given the value of its step. *)
LEMMA BroadcastIs ==
  ASSUME IsBatch(data), NEW x, NEW value, \A i \in Real : x[i] \in Int /\ x[i] = value[i]
  PROVE  OnTokens(Broadcast(data, x), value) /\ Numbers(Broadcast(data, x))
<1>1. ASSUME NEW i \in Rows, NEW j \in Tokens
      PROVE  /\ Broadcast(data, x)[i][j] = IF <<i, j>> \in Written THEN value[i] ELSE 0
             /\ Broadcast(data, x)[i][j] \in Int
  <2>1. Broadcast(data, x)[i][j] = IF i \in Real THEN x[i] * data.mask[i][j] ELSE 0
    BY BatchFacts DEF Broadcast
  <2>2. data.mask[i][j] \in {0, 1} /\ (<<i, j>> \in Written <=> data.mask[i][j] = 1)
    BY BatchFacts, WrittenIs
  <2>3. data.mask[i][j] = 1 => i \in Real
    BY BatchOrder
  <2>4. CASE data.mask[i][j] = 1
    BY <2>1, <2>2, <2>3, <2>4
  <2>5. CASE data.mask[i][j] = 0
    BY <2>1, <2>2, <2>5
  <2>6. QED
    BY <2>2, <2>4, <2>5
<1>2. QED
  BY <1>1 DEF OnTokens, Numbers

(* Centring takes the mean of the steps of the batch. *)
LEMMA CentredIs ==
  ASSUME IsBatch(data), NEW x, NEW value, \A i \in Real : x[i] \in Int /\ x[i] = value[i]
  PROVE  \A i \in Real : Centred(data, x)[i] \in Int /\ Centred(data, x)[i] = Centering(value)[i]
<1> DEFINE n == Cardinality(Real)
           sum == SumFunctionOnSet(x, Real)
<1>1. n \in Nat /\ IsFiniteSet(Real)
  BY BatchFacts, FS_CardinalityType
<1>2. sum \in Int /\ SumFunctionOnSet(value, Real) = sum
  BY <1>1, SumSame, SumFacts
<1>3. ASSUME NEW i \in Real PROVE Centred(data, x)[i] \in Int /\ Centred(data, x)[i] = Centering(value)[i]
  <2>1. Centred(data, x)[i] = n * x[i] - sum
    BY BatchFacts DEF Centred
  <2>2. Centering(value)[i] = n * value[i] - sum
    BY <1>2 DEF Centering, FromMean
  <2> HIDE DEF n, sum
  <2>3. n * x[i] - sum \in Int
    BY <1>1, <1>2
  <2>4. QED
    BY <2>1, <2>2, <2>3
<1>4. QED
  BY <1>3

(* The discounted returns of the steps. *)
LEMMA ReturnsAre ==
  ASSUME IsBatch(data)
  PROVE  \A i \in Real : /\ DiscountedReturns(data)[i] \in Int
                         /\ DiscountedReturns(data)[i] = ReturnFrom[i]
<1> DEFINE table == RewardTable(data)
           x == [i \in Valid(data) |-> StepReward(data, i)]
           y == Reward
<1>1. \A i \in Real : y[i] \in Int /\ x[i] = y[i]
  BY BatchFacts, StepRewardIs
<1>2. table = Table(data, x)
  BY DEF RewardTable
<1> HIDE DEF table, x, y
<1>3. \A s \in 0 .. LastStep(data) : \A t \in Trajectories(data) :
        table[s][t] = SumFunctionOnSet(y, RowsAt(data, t, s))
  BY <1>1, <1>2, TableIs
<1>4. Gamma \in Int /\ \A k \in Real : y[k] \in Int
  BY <1>1, EstimatorAssumption
<1>5. \A i \in Real : /\ Backwards(data, table, Gamma)[i] \in Int
                      /\ Backwards(data, table, Gamma)[i] = Discounted(Gamma, From(i), Away(i), y)
  BY <1>3, <1>4, BackwardsIs
<1>6. QED
  BY <1>5 DEF DiscountedReturns, ReturnFrom, table, y

(* The surprises of the steps are what the loop of GAE adds up. *)
LEMMA DeltasAre ==
  ASSUME IsBatch(data), NEW s \in 0 .. LastStep(data), NEW t \in Trajectories(data)
  PROVE  /\ \A i \in Real : StepSurprise[i] \in Int
         /\ Deltas(data, RewardTable(data), ValueTable(data))[s][t]
              = SumFunctionOnSet(StepSurprise, RowsAt(data, t, s))
<1> DEFINE L == LastStep(data)
           x == [i \in Valid(data) |-> StepReward(data, i)]
           v == [i \in Valid(data) |-> data.value[i][1]]
           R(m) == RowsAt(data, t, m)
           rewards == RewardTable(data)
           values == ValueTable(data)
           next == IF s < L THEN values[s + 1][t] ELSE 0
<1>1. L \in Nat /\ \A i \in Real : data.step[i] \in 0 .. L /\ i \in Rows
  BY LastStepIs, BatchFacts
<1>2. \A i \in Real : /\ Reward[i] \in Int /\ x[i] = Reward[i]
                      /\ FirstValue[i] \in Int /\ v[i] = FirstValue[i] /\ FirstValue[i] = data.value[i][1]
  BY BatchFacts, StepRewardIs, RowFacts DEF FirstValue
<1>3. \A m \in 0 .. L : /\ rewards[m][t] = SumFunctionOnSet(Reward, R(m))
                        /\ values[m][t] = SumFunctionOnSet(FirstValue, R(m))
  <2> HIDE DEF x, v
  <2>1. rewards = Table(data, x) /\ values = Table(data, v)
    BY DEF RewardTable, ValueTable, x, v
  <2>2. QED
    BY <1>2, <2>1, TableIs
<1>4. \A m : /\ R(m) = {i \in Real : data.traj[i] = t /\ data.step[i] = m} /\ IsFiniteSet(R(m))
             /\ R(m) \subseteq Real
  BY RowsAtAre
<1>5. next = SumFunctionOnSet(FirstValue, R(s + 1)) /\ next \in Int
  <2>1. IsFiniteSet(R(s + 1)) /\ \A k \in R(s + 1) : FirstValue[k] \in Int
    BY <1>2, <1>4
  <2>2. SumFunctionOnSet(FirstValue, R(s + 1)) \in Int
    <3> HIDE DEF R
    <3> QED BY <2>1, SumFacts
  <2>3. CASE s < L
    <3>1. s + 1 \in 0 .. L
      BY <1>1, <2>3
    <3>2. QED
      BY <1>3, <2>2, <2>3, <3>1
  <2>4. CASE ~ (s < L)
    <3>1. s + 1 > L
      BY <1>1, <2>4
    <3>2. R(s + 1) = {}
      BY <1>1, <1>4, <3>1
    <3>3. SumFunctionOnSet(FirstValue, R(s + 1)) = 0
      BY <2>1, <3>2, SumFacts
    <3>4. QED
      BY <2>4, <3>3
  <2>5. QED
    BY <2>3, <2>4
<1>6. ASSUME NEW i \in Real PROVE StepSurprise[i] \in Int
  <2> DEFINE N == {k \in From(i) : Away(i)[k] = 1}
  <2>1. N \in SUBSET Real
    BY DEF From
  <2>2. IsFiniteSet(N) /\ \A k \in N : FirstValue[k] \in Int
    BY <1>2, <2>1, BatchFacts, FS_Subset
  <2>3. SumFunctionOnSet(FirstValue, N) \in Int
    <3> HIDE DEF N
    <3> QED BY <2>2, SumFacts
  <2>4. StepSurprise[i] = Reward[i] - FirstValue[i] + Gamma * SumFunctionOnSet(FirstValue, N)
    BY DEF StepSurprise
  <2>5. Gamma \in Int
    BY EstimatorAssumption
  <2> DEFINE m == SumFunctionOnSet(FirstValue, N)
             r == Reward[i]
             u == FirstValue[i]
  <2>6. StepSurprise[i] = r - u + Gamma * m /\ m \in Int /\ r \in Int /\ u \in Int
    BY <1>2, <2>3, <2>4
  <2> HIDE DEF N, m, r, u
  <2>7. Gamma * m \in Int
    BY <2>5, <2>6
  <2>8. QED
    BY <2>6, <2>7
<1>7. Deltas(data, rewards, values)[s][t] = rewards[s][t] + Gamma * next - values[s][t]
  BY DEF Deltas
<1>8. CASE R(s) = {}
  <2>1. R(s + 1) = {}
    <3>1. SUFFICES ASSUME NEW i \in R(s + 1) PROVE FALSE
      OBVIOUS
    <3>2. i \in Real /\ data.traj[i] = t /\ data.step[i] = s + 1 /\ s + 1 # 0 /\ (s + 1) - 1 = s
      BY <1>1, <1>4
    <3>3. \E k \in Real : data.traj[k] = t /\ data.step[k] = s
      BY <3>2, BatchOrder
    <3>4. QED
      BY <1>4, <1>8, <3>3
  <2>2. IsFiniteSet({})
    BY FS_EmptySet
  <2>3. /\ SumFunctionOnSet(Reward, {}) = 0 /\ SumFunctionOnSet(FirstValue, {}) = 0
        /\ SumFunctionOnSet(StepSurprise, {}) = 0
    BY <2>2, SumFacts
  <2>4. rewards[s][t] = 0 /\ values[s][t] = 0 /\ next = 0
    BY <1>3, <1>5, <1>8, <2>1, <2>3
  <2>5. Gamma \in Int
    BY EstimatorAssumption
  <2> HIDE DEF next, rewards, values
  <2>6. rewards[s][t] + Gamma * next - values[s][t] = 0
    BY <2>4, <2>5
  <2>7. QED
    BY <1>6, <1>7, <1>8, <2>3, <2>6 DEF rewards, values
<1>9. ASSUME NEW i \in R(s)
      PROVE  Deltas(data, rewards, values)[s][t] = SumFunctionOnSet(StepSurprise, R(s))
  <2>1. i \in Real /\ data.traj[i] = t /\ data.step[i] = s
    BY <1>4
  <2>2. R(s) = {i}
    BY <1>4, <2>1, BatchOrder
  <2>3. {k \in From(i) : Away(i)[k] = 1} = R(s + 1)
    <3>1. \A k \in Real : data.step[k] \in Nat /\ s \in Nat
      BY <1>1
    <3>2. From(i) = {k \in Real : data.traj[k] = t /\ data.step[k] >= s}
      BY <2>1 DEF From, SameTrajectory
    <3>3. \A k \in From(i) : Away(i)[k] = data.step[k] - s
      BY <2>1 DEF Away
    <3>4. QED
      BY <1>4, <3>1, <3>2, <3>3
  <2>4. StepSurprise[i] = Reward[i] - FirstValue[i] + Gamma * next
    BY <1>5, <2>1, <2>3 DEF StepSurprise
  <2>5. \A y : y[i] \in Int => SumFunctionOnSet(y, {i}) = y[i]
    BY SumOne
  <2>6. rewards[s][t] = Reward[i] /\ values[s][t] = FirstValue[i]
    <3>1. SumFunctionOnSet(Reward, {i}) = Reward[i] /\ SumFunctionOnSet(FirstValue, {i}) = FirstValue[i]
      BY <1>2, <2>1, <2>5
    <3>2. /\ rewards[s][t] = SumFunctionOnSet(Reward, R(s))
          /\ values[s][t] = SumFunctionOnSet(FirstValue, R(s))
      BY <1>3
    <3> HIDE DEF R, rewards, values
    <3>3. QED
      BY <2>2, <3>1, <3>2
  <2>7. SumFunctionOnSet(StepSurprise, R(s)) = StepSurprise[i]
    BY <1>6, <2>1, <2>2, <2>5
  <2>8. Gamma \in Int /\ Reward[i] \in Int /\ FirstValue[i] \in Int
    BY <1>2, <2>1, EstimatorAssumption
  <2> HIDE DEF next, rewards, values
  <2>9. rewards[s][t] + Gamma * next - values[s][t] = Reward[i] - FirstValue[i] + Gamma * next
    BY <1>5, <2>6, <2>8
  <2>10. QED
    BY <1>7, <2>4, <2>7, <2>9
<1>10. QED
  BY <1>6, <1>8, <1>9

(* The generalised advantages of the steps. *)
LEMMA AdvantagesAre ==
  ASSUME IsBatch(data)
  PROVE  LET advantage == Backwards(data, Deltas(data, RewardTable(data), ValueTable(data)), Gamma * Lambda)
         IN  \A i \in Real : advantage[i] \in Int /\ advantage[i] = StepAdvantageOf[i]
<1> DEFINE table == Deltas(data, RewardTable(data), ValueTable(data))
           y == StepSurprise
           factor == Gamma * Lambda
<1>1. factor \in Int
  BY EstimatorAssumption
<1>2. \A s \in 0 .. LastStep(data) : \A t \in Trajectories(data) :
        /\ table[s][t] = SumFunctionOnSet(y, RowsAt(data, t, s))
        /\ \A k \in Real : y[k] \in Int
  BY DeltasAre
<1>3. 0 \in 0 .. LastStep(data) /\ \E t \in Trajectories(data) : TRUE
  BY LastStepIs, BatchFacts DEF Trajectories
<1> HIDE DEF table, y, factor
<1>4. \A k \in Real : y[k] \in Int
  BY <1>2, <1>3
<1>5. \A i \in Real : /\ Backwards(data, table, factor)[i] \in Int
                      /\ Backwards(data, table, factor)[i] = Discounted(factor, From(i), Away(i), y)
  BY <1>1, <1>2, <1>4, BackwardsIs
<1>6. QED
  BY <1>5 DEF StepAdvantageOf, table, y, factor

(* What compute_gae_advantage_return computes. *)
LEMMA StepGAEIs ==
  ASSUME IsBatch(data)
  PROVE  /\ OnTokens(StepGAE(data).advantages, Centering(StepAdvantageOf))
         /\ OnTokens(StepGAE(data).returns, [i \in Real |-> StepAdvantageOf[i] + FirstValue[i]])
         /\ Numbers(StepGAE(data).advantages) /\ Numbers(StepGAE(data).returns)
<1> DEFINE advantage == Backwards(data, Deltas(data, RewardTable(data), ValueTable(data)), Gamma * Lambda)
           r == [i \in Valid(data) |-> advantage[i] + data.value[i][1]]
           sum == [i \in Real |-> StepAdvantageOf[i] + FirstValue[i]]
<1>1. StepGAE(data) = [advantages |-> Broadcast(data, Centred(data, advantage)), returns |-> Broadcast(data, r)]
  BY DEF StepGAE
<1>2. \A i \in Real : advantage[i] \in Int /\ advantage[i] = StepAdvantageOf[i]
  BY AdvantagesAre
<1> HIDE DEF advantage
<1>3. \A i \in Real : /\ Centred(data, advantage)[i] \in Int
                      /\ Centred(data, advantage)[i] = Centering(StepAdvantageOf)[i]
  BY <1>2, CentredIs
<1>4. \A i \in Real : r[i] \in Int /\ r[i] = sum[i]
  <2>1. \A i \in Real : i \in Valid(data) /\ data.value[i][1] \in Int /\ FirstValue[i] = data.value[i][1]
    BY BatchFacts, RowFacts DEF FirstValue
  <2>2. QED
    BY <1>2, <2>1
<1> HIDE DEF r, sum
<1>5. /\ OnTokens(Broadcast(data, Centred(data, advantage)), Centering(StepAdvantageOf))
      /\ OnTokens(Broadcast(data, r), sum)
      /\ Numbers(Broadcast(data, Centred(data, advantage))) /\ Numbers(Broadcast(data, r))
  BY <1>3, <1>4, BroadcastIs
<1>6. QED
  BY <1>1, <1>5 DEF sum

(* What compute_reinforce_outcome_advantage computes. *)
LEMMA ReinforceIs ==
  ASSUME IsBatch(data)
  PROVE  /\ OnTokens(Reinforce(data).advantages, Centering(ReturnFrom))
         /\ OnTokens(Reinforce(data).returns, ReturnFrom)
         /\ Numbers(Reinforce(data).advantages) /\ Numbers(Reinforce(data).returns)
<1> DEFINE r == DiscountedReturns(data)
<1>1. \A i \in Real : r[i] \in Int /\ r[i] = ReturnFrom[i]
  BY ReturnsAre
<1>2. /\ Reinforce(data).advantages = Broadcast(data, Centred(data, r))
      /\ Reinforce(data).returns = Broadcast(data, r)
  BY DEF Reinforce
<1> HIDE DEF r
<1>3. \A i \in Real : Centred(data, r)[i] \in Int /\ Centred(data, r)[i] = Centering(ReturnFrom)[i]
  BY <1>1, CentredIs
<1>4. QED
  BY <1>1, <1>2, <1>3, BroadcastIs
-----------------------------------------------------------------------------
(* Backwards over the tokens *)

LEMMA BlockOrder ==
  ASSUME NEW n \in Nat \ {0}, NEW a \in Nat, NEW b \in Nat, NEW p \in 1 .. n, NEW q \in 1 .. n
  PROVE  /\ a * n + p - 1 \in 0 .. (a + 1) * n - 1
         /\ a > b => a * n + p - 1 > b * n + q - 1
         /\ a * n + p - 1 = b * n + q - 1 => a = b /\ p = q
         /\ a <= b => (a + 1) * n <= (b + 1) * n
<1>1. a * n \in Nat /\ b * n \in Nat /\ (a + 1) * n = a * n + n /\ (b + 1) * n = b * n + n
  OBVIOUS
<1>2. \A c, d \in Nat : c > d => c * n >= d * n + n
  <2>1. TAKE c, d \in Nat
  <2>2. HAVE c > d
  <2>3. PICK e \in Nat : c = d + 1 + e
    <3>1. c - d - 1 \in Nat /\ c = d + 1 + (c - d - 1)
      BY <2>2
    <3>2. QED
      BY <3>1
  <2>4. c * n = d * n + n + e * n /\ e * n \in Nat /\ d * n \in Nat
    BY <2>3
  <2>5. QED
    BY <2>4
<1>3. a > b => a * n >= b * n + n
  BY <1>2
<1>4. b > a => b * n >= a * n + n
  BY <1>2
<1>5. a = b => a * n = b * n
  OBVIOUS
<1> DEFINE A == a * n
           B == b * n
<1>6. A \in Nat /\ B \in Nat /\ (a + 1) * n = A + n /\ (b + 1) * n = B + n
      /\ (a > b => A >= B + n) /\ (b > a => B >= A + n) /\ (a = b => A = B)
  BY <1>1, <1>3, <1>4, <1>5
<1> HIDE DEF A, B
<1>7. /\ A + p - 1 \in 0 .. (A + n) - 1
      /\ a > b => A + p - 1 > B + q - 1
      /\ A + p - 1 = B + q - 1 => a = b /\ p = q
      /\ a <= b => A + n <= B + n
  BY <1>6
<1>8. QED
  BY <1>6, <1>7 DEF A, B

(* A token before another of its trajectory has the smaller place. *)
LEMMA PlacesAre ==
  ASSUME IsBatch(data), NEW w \in Written, NEW x \in Written
  PROVE  /\ TokenPlace(data, w) \in 0 .. LastToken(data) - 1
         /\ data.traj[w[1]] = data.traj[x[1]] /\ TokenPlace(data, w) = TokenPlace(data, x) => w = x
         /\ NotBefore(w, x) <=> /\ data.traj[w[1]] = data.traj[x[1]]
                                /\ TokenPlace(data, x) >= TokenPlace(data, w)
<1> DEFINE n == ResponseLength
           a == data.step[w[1]]
           b == data.step[x[1]]
           p == w[2]
           q == x[2]
           L == LastStep(data)
<1>1. n \in Nat \ {0}
  BY EstimatorAssumption
<1>2. w[1] \in Real /\ x[1] \in Real /\ w = <<w[1], p>> /\ x = <<x[1], q>> /\ p \in 1 .. n /\ q \in 1 .. n
  BY WrittenIs DEF Tokens
<1>3. L \in Nat /\ a \in 0 .. L /\ b \in 0 .. L /\ a \in Nat /\ b \in Nat
  BY <1>2, LastStepIs
<1>4. data.traj[w[1]] = data.traj[x[1]] /\ a = b => w[1] = x[1]
  BY <1>2, BatchOrder
<1>5. /\ TokenPlace(data, w) = a * n + p - 1 /\ TokenPlace(data, x) = b * n + q - 1
      /\ LastToken(data) = (L + 1) * n
  BY DEF TokenPlace, LastToken
<1>6. NotBefore(w, x) <=> data.traj[w[1]] = data.traj[x[1]] /\ (b > a \/ (w[1] = x[1] /\ q >= p))
  BY DEF NotBefore, SameTrajectory
<1>7. w[1] = x[1] => a = b
  OBVIOUS
<1> HIDE DEF n, a, b, p, q, L
<1>8. /\ a * n + p - 1 \in 0 .. (a + 1) * n - 1 /\ (a + 1) * n <= (L + 1) * n
      /\ a * n + p - 1 = b * n + q - 1 => a = b /\ p = q
      /\ a > b => a * n + p - 1 > b * n + q - 1
      /\ b > a => b * n + q - 1 > a * n + p - 1
  BY <1>1, <1>2, <1>3, BlockOrder
<1>9. a * n \in Nat /\ b * n \in Nat /\ (a + 1) * n \in Nat /\ (L + 1) * n \in Nat
  BY <1>1, <1>3
<1>10. TokenPlace(data, w) \in 0 .. LastToken(data) - 1
  BY <1>5, <1>8, <1>9
<1>11. data.traj[w[1]] = data.traj[x[1]] /\ TokenPlace(data, w) = TokenPlace(data, x) => w = x
  BY <1>2, <1>4, <1>5, <1>8
<1>12. a = b => a * n = b * n
  OBVIOUS
<1>13. data.traj[w[1]] = data.traj[x[1]] =>
         (b > a \/ (w[1] = x[1] /\ q >= p) <=> b * n + q - 1 >= a * n + p - 1)
  <2> DEFINE A == a * n
             B == b * n
  <2>1. /\ A \in Nat /\ B \in Nat /\ (a = b => A = B)
        /\ (a > b => A + p - 1 > B + q - 1) /\ (b > a => B + q - 1 > A + p - 1)
    BY <1>8, <1>9, <1>12
  <2> HIDE DEF A, B
  <2>2. data.traj[w[1]] = data.traj[x[1]] =>
          (b > a \/ (w[1] = x[1] /\ q >= p) <=> B + q - 1 >= A + p - 1)
    BY <1>1, <1>2, <1>3, <1>4, <1>7, <2>1
  <2>3. QED
    BY <2>2 DEF A, B
<1>14. QED
  BY <1>5, <1>6, <1>10, <1>11, <1>13

(* The tokens of a trajectory from a place on, and how many stand between. *)
LaterTokens(t, p) == {x \in Written : data.traj[x[1]] = t /\ TokenPlace(data, x) >= p}
Ahead(t, p, x) == {y \in LaterTokens(t, p) : TokenPlace(data, y) < TokenPlace(data, x)}
Rank(t, p) == [x \in LaterTokens(t, p) |-> Cardinality(Ahead(t, p, x))]
Foremost(t, p) == {x \in LaterTokens(t, p) : Rank(t, p)[x] = 0}

(* They are finitely many, and each has a rank. *)
LEMMA LaterFinite ==
  ASSUME IsBatch(data), NEW t, NEW p
  PROVE  /\ IsFiniteSet(LaterTokens(t, p)) /\ IsFiniteSet(Foremost(t, p))
         /\ \A x : IsFiniteSet(Ahead(t, p, x)) /\ Cardinality(Ahead(t, p, x)) \in Nat
         /\ \A x \in LaterTokens(t, p) : Rank(t, p)[x] = Cardinality(Ahead(t, p, x))
<1>1. LaterTokens(t, p) \in SUBSET Written
  BY DEF LaterTokens
<1>2. IsFiniteSet(LaterTokens(t, p))
  BY <1>1, WrittenIs, FS_Subset
<1>3. Foremost(t, p) \in SUBSET LaterTokens(t, p)
  BY DEF Foremost
<1>4. \A x : Ahead(t, p, x) \in SUBSET LaterTokens(t, p)
  BY DEF Ahead
<1>5. QED
  BY <1>2, <1>3, <1>4, FS_Subset, FS_CardinalityType DEF Rank

(* From a token on. *)
LEMMA FromTokenIs ==
  ASSUME IsBatch(data), NEW w \in Written
  PROVE  LET t == data.traj[w[1]]
             p == TokenPlace(data, w)
         IN  /\ FromToken(w) = LaterTokens(t, p)
             /\ \A x \in FromToken(w) : Between(w)[x] = Rank(t, p)[x]
<1> DEFINE t == data.traj[w[1]]
           p == TokenPlace(data, w)
           P(x) == TokenPlace(data, x)
<1>1. FromToken(w) = LaterTokens(t, p)
  BY PlacesAre DEF FromToken, LaterTokens
<1>2. ASSUME NEW x \in FromToken(w) PROVE Between(w)[x] = Rank(t, p)[x]
  <2> DEFINE M == {y \in Written \ {x} : NotBefore(w, y) /\ NotBefore(y, x)}
  <2>1. x \in Written /\ data.traj[x[1]] = t
    BY <1>1 DEF LaterTokens
  <2>2. \A y \in Written : P(y) \in Int
    <3>1. \A y \in Written : P(y) \in 0 .. LastToken(data) - 1
      BY PlacesAre
    <3>2. QED
      BY <3>1
  <2>3. ASSUME NEW y \in Written
        PROVE  y \in M <=> data.traj[y[1]] = t /\ P(y) >= p /\ P(y) < P(x)
    <3>1. NotBefore(w, y) <=> t = data.traj[y[1]] /\ P(y) >= p
      BY PlacesAre
    <3>2. NotBefore(y, x) <=> data.traj[y[1]] = data.traj[x[1]] /\ P(x) >= P(y)
      BY <2>1, PlacesAre
    <3>3. data.traj[y[1]] = data.traj[x[1]] /\ P(y) = P(x) => y = x
      BY <2>1, PlacesAre
    <3>4. P(x) \in Int /\ P(y) \in Int /\ P(w) \in Int
      BY <2>1, <2>2
    <3> HIDE DEF P
    <3>5. y # x /\ P(x) >= P(y) /\ data.traj[y[1]] = t <=> P(y) < P(x) /\ data.traj[y[1]] = t
      BY <2>1, <3>3, <3>4
    <3>6. QED
      BY <2>1, <3>1, <3>2, <3>5
  <2>4. M = Ahead(t, p, x)
    BY <2>3 DEF Ahead, LaterTokens
  <2>5. Between(w)[x] = Cardinality(M)
    BY DEF Between
  <2>6. Rank(t, p)[x] = Cardinality(Ahead(t, p, x))
    BY <1>1 DEF Rank
  <2>7. QED
    BY <2>4, <2>5, <2>6
<1>3. QED
  BY <1>1, <1>2

(* Tokens have numbers as values. *)
LEMMA TokenValues ==
  ASSUME IsBatch(data)
  PROVE  \A w \in Written : /\ TokenValue[w] \in Int /\ TokenValue[w] = data.value[w[1]][w[2]]
                            /\ data.reward[w[1]][w[2]] \in Int
                            /\ TokenSurprise[w] \in Int
                            /\ TokenSurprise[w] = data.reward[w[1]][w[2]] - TokenValue[w]
                                 + Gamma * SumFunctionOnSet(TokenValue, {x \in FromToken(w) : Between(w)[x] = 1})
<1>1. \A w \in Written : /\ TokenValue[w] \in Int /\ TokenValue[w] = data.value[w[1]][w[2]]
                         /\ data.reward[w[1]][w[2]] \in Int
  BY BatchFacts, WrittenIs DEF TokenValue
<1>2. ASSUME NEW w \in Written PROVE TokenSurprise[w] \in Int
  <2> DEFINE N == {x \in FromToken(w) : Between(w)[x] = 1}
  <2>1. N \in SUBSET Written
    BY DEF FromToken
  <2>2. IsFiniteSet(N) /\ \A x \in N : TokenValue[x] \in Int
    BY <1>1, <2>1, WrittenIs, FS_Subset
  <2> DEFINE m == SumFunctionOnSet(TokenValue, N)
             r == data.reward[w[1]][w[2]]
             v == TokenValue[w]
  <2>3. TokenSurprise[w] = r - v + Gamma * m
    BY DEF TokenSurprise
  <2> HIDE DEF N
  <2>4. m \in Int /\ r \in Int /\ v \in Int /\ Gamma \in Int
    BY <1>1, <2>2, SumFacts, EstimatorAssumption
  <2> HIDE DEF m, r, v
  <2>5. Gamma * m \in Int
    BY <2>4
  <2>6. QED
    BY <2>3, <2>4, <2>5
<1>3. QED
  BY <1>1, <1>2 DEF TokenSurprise
(* Where no token stands, nothing changes. *)
LEMMA NoTokenHere ==
  ASSUME IsBatch(data), NEW t, NEW p \in Nat, TokensAt(data, t, p) = {}
  PROVE  /\ LaterTokens(t, p) = LaterTokens(t, p + 1) /\ Rank(t, p) = Rank(t, p + 1)
         /\ Foremost(t, p) = Foremost(t, p + 1)
<1>1. \A x \in Written : TokenPlace(data, x) \in 0 .. LastToken(data) - 1
  BY PlacesAre
<1>2. \A x \in Written : ~ (data.traj[x[1]] = t /\ TokenPlace(data, x) = p)
  BY WrittenIs DEF TokensAt
<1>3. LaterTokens(t, p) = LaterTokens(t, p + 1)
  <2> DEFINE P(x) == TokenPlace(data, x)
  <2>1. \A x \in Written : P(x) \in Int /\ ~ (data.traj[x[1]] = t /\ P(x) = p)
    BY <1>1, <1>2
  <2> HIDE DEF P
  <2>2. {x \in Written : data.traj[x[1]] = t /\ P(x) >= p} = {x \in Written : data.traj[x[1]] = t /\ P(x) >= p + 1}
    BY <2>1
  <2>3. QED
    BY <2>2 DEF LaterTokens, P
<1>4. Rank(t, p) = Rank(t, p + 1)
  BY <1>3 DEF Rank, Ahead
<1>5. QED
  BY <1>3, <1>4 DEF Foremost

(* A token comes before all that are later. *)
LEMMA TokenHere ==
  ASSUME IsBatch(data), NEW t, NEW p \in Nat, NEW w \in TokensAt(data, t, p)
  PROVE  /\ w \in Written /\ data.traj[w[1]] = t /\ TokenPlace(data, w) = p
         /\ TokensAt(data, t, p) = {w}
         /\ LaterTokens(t, p) = {w} \cup LaterTokens(t, p + 1) /\ w \notin LaterTokens(t, p + 1)
         /\ Rank(t, p)[w] = 0
         /\ \A x \in LaterTokens(t, p + 1) :
               Rank(t, p + 1)[x] \in Nat /\ Rank(t, p)[x] = Rank(t, p + 1)[x] + 1
         /\ Foremost(t, p) = {w}
         /\ {x \in LaterTokens(t, p) : Rank(t, p)[x] = 1} = Foremost(t, p + 1)
<1> DEFINE P(x) == TokenPlace(data, x)
<1>1. w \in Written /\ data.traj[w[1]] = t /\ P(w) = p
  BY WrittenIs DEF TokensAt
<1>2. \A x \in Written : /\ P(x) \in Int
                         /\ data.traj[x[1]] = t /\ P(x) = p => x = w
  <2>1. \A x \in Written : P(x) \in 0 .. LastToken(data) - 1
    BY PlacesAre
  <2>2. \A x \in Written : data.traj[x[1]] = t /\ P(x) = p => x = w
    BY <1>1, PlacesAre
  <2>3. QED
    BY <2>1, <2>2
<1>3. TokensAt(data, t, p) = {w}
  BY <1>1, <1>2, WrittenIs DEF TokensAt
<1>4. /\ \A q : LaterTokens(t, q) = {x \in Written : data.traj[x[1]] = t /\ P(x) >= q}
      /\ \A q, x : Ahead(t, q, x) = {y \in LaterTokens(t, q) : P(y) < P(x)}
  BY DEF LaterTokens, Ahead
<1> HIDE DEF P
<1>5. LaterTokens(t, p) = {w} \cup LaterTokens(t, p + 1) /\ w \notin LaterTokens(t, p + 1)
  BY <1>1, <1>2, <1>4
<1>6. Rank(t, p)[w] = 0
  <2>1. Ahead(t, p, w) = {}
    BY <1>1, <1>2, <1>4
  <2>2. w \in LaterTokens(t, p)
    BY <1>5
  <2>3. QED
    BY <2>1, <2>2, FS_EmptySet DEF Rank
<1>7. ASSUME NEW x \in LaterTokens(t, p + 1)
      PROVE  Rank(t, p + 1)[x] \in Nat /\ Rank(t, p)[x] = Rank(t, p + 1)[x] + 1
  <2>1. x \in Written /\ P(x) >= p + 1 /\ P(x) \in Int
    BY <1>2, <1>4
  <2>2. Ahead(t, p, x) = Ahead(t, p + 1, x) \cup {w} /\ w \notin Ahead(t, p + 1, x)
    BY <1>1, <1>2, <1>4, <1>5, <2>1
  <2>3. IsFiniteSet(Ahead(t, p + 1, x)) /\ Cardinality(Ahead(t, p + 1, x)) \in Nat
    BY LaterFinite
  <2>4. Cardinality(Ahead(t, p, x)) = Cardinality(Ahead(t, p + 1, x)) + 1
    BY <2>2, <2>3, FS_AddElement
  <2>5. x \in LaterTokens(t, p)
    BY <1>5
  <2>6. Rank(t, p)[x] = Cardinality(Ahead(t, p, x)) /\ Rank(t, p + 1)[x] = Cardinality(Ahead(t, p + 1, x))
    BY <2>5 DEF Rank
  <2>7. QED
    BY <2>3, <2>4, <2>6
<1>8. Foremost(t, p) = {w}
  <2>1. \A x \in LaterTokens(t, p + 1) : Rank(t, p)[x] # 0
    BY <1>7
  <2>2. QED
    BY <1>5, <1>6, <2>1 DEF Foremost
<1>9. {x \in LaterTokens(t, p) : Rank(t, p)[x] = 1} = Foremost(t, p + 1)
  <2>1. \A x \in LaterTokens(t, p + 1) : Rank(t, p)[x] = 1 <=> Rank(t, p + 1)[x] = 0
    BY <1>7
  <2>2. Rank(t, p)[w] # 1
    BY <1>6
  <2>3. QED
    BY <1>5, <2>1, <2>2 DEF Foremost
<1>10. QED
  BY <1>1, <1>3, <1>5, <1>6, <1>7, <1>8, <1>9 DEF P

(* The loop over the tokens gives every written token the discounted sum   *)
(* of the surprises from there on.                                         *)
LEMMA TokenBackwardsIs ==
  ASSUME IsBatch(data)
  PROVE  /\ \A w \in Written : TokenBackwards(data)[w] = TokenAdvantageOf[w]
         /\ \A i \in Real : \A j \in Tokens : TokenBackwards(data)[<<i, j>>] \in Int
<1> DEFINE L == LastToken(data)
           Tr == Trajectories(data)
           factor == Gamma * Lambda
           D == [Tr -> [value : Int, gae : Int]]
           zero == [t \in Tr |-> [value |-> 0, gae |-> 0]]
           Passed(p, t, y) == IF TokensAt(data, t, p) = {} THEN y[t]
                              ELSE TokenUpdate(data, CHOOSE w \in TokensAt(data, t, p) : TRUE, y[t])
           Plus(p, y) == [t \in Tr |-> Passed(p, t, y)]
           Eq(f) == f = [p \in 0 .. L |-> IF p = L THEN zero ELSE Plus(p, f[p + 1])]
           later == CHOOSE f : Eq(f)
           h == [p \in 0 .. L - 1 |-> [y \in D |-> Plus(p, y)]]
<1>1. L \in Nat
  <2>1. LastStep(data) \in Nat /\ ResponseLength \in Nat
    BY LastStepIs, EstimatorAssumption
  <2>2. QED
    BY <2>1 DEF LastToken
<1>2. factor \in Int /\ Gamma \in Int
  BY EstimatorAssumption
<1>3. zero \in D
  OBVIOUS
<1>4. ASSUME NEW p \in 0 .. L - 1, NEW t \in Tr, NEW y \in D, NEW w \in TokensAt(data, t, p)
      PROVE  /\ Passed(p, t, y) = TokenUpdate(data, w, y[t])
             /\ y[t] \in [value : Int, gae : Int]
             /\ TokenUpdate(data, w, y[t]) =
                  [value |-> TokenValue[w],
                   gae |-> data.reward[w[1]][w[2]] + Gamma * y[t].value - TokenValue[w] + factor * y[t].gae]
             /\ TokenUpdate(data, w, y[t]) \in [value : Int, gae : Int]
  <2>1. TokensAt(data, t, p) = {w} /\ w \in Written
    BY <1>1, TokenHere
  <2>2. (CHOOSE v \in {w} : TRUE) = w
    OBVIOUS
  <2>3. Passed(p, t, y) = TokenUpdate(data, w, y[t])
    BY <2>1, <2>2
  <2>4. y[t] \in [value : Int, gae : Int]
    OBVIOUS
  <2>5. TokenUpdate(data, w, y[t]) =
          [value |-> TokenValue[w],
           gae |-> data.reward[w[1]][w[2]] + Gamma * y[t].value - TokenValue[w] + factor * y[t].gae]
    BY <2>1, TokenValues DEF TokenUpdate
  <2>6. data.reward[w[1]][w[2]] + Gamma * y[t].value - TokenValue[w] + factor * y[t].gae \in Int
    <3> DEFINE r == data.reward[w[1]][w[2]]
               v == TokenValue[w]
               a == y[t].value
               g == y[t].gae
    <3>1. r \in Int /\ v \in Int /\ a \in Int /\ g \in Int
      BY <2>1, <2>4, TokenValues
    <3> HIDE DEF r, v, a, g, factor
    <3>2. Gamma * a \in Int /\ factor * g \in Int
      BY <1>2, <3>1
    <3>3. r + Gamma * a - v + factor * g \in Int
      BY <3>1, <3>2
    <3>4. QED
      BY <3>3 DEF r, v, a, g
  <2>7. TokenValue[w] \in Int
    BY <2>1, TokenValues
  <2> HIDE DEF factor
  <2>8. QED
    BY <2>3, <2>4, <2>5, <2>6, <2>7
<1> HIDE DEF factor
<1>5. ASSUME NEW p \in 0 .. L - 1, NEW y \in D PROVE Plus(p, y) \in D
  <2>1. ASSUME NEW t \in Tr PROVE Passed(p, t, y) \in [value : Int, gae : Int]
    <3>1. CASE TokensAt(data, t, p) = {}
      BY <3>1
    <3>2. ASSUME NEW w \in TokensAt(data, t, p) PROVE Passed(p, t, y) \in [value : Int, gae : Int]
      <4> HIDE DEF Passed, D
      <4> QED BY <1>4
    <3>3. QED
      BY <3>1, <3>2
  <2> HIDE DEF Passed
  <2>2. QED
    BY <2>1
<1> HIDE DEF Passed, L
<1>6. \E f : Downwards(f, 0, L, D, zero, h)
  <2>1. StepsDown(h, L, D)
    <3> HIDE DEF Plus, D
    <3> QED BY <1>5 DEF StepsDown
  <2> HIDE DEF h, D, zero
  <2>2. QED
    BY <1>1, <1>3, <2>1, DownExists
<1> HIDE DEF D, zero
<1>7. \E f : Eq(f)
  <2>1. PICK f : Downwards(f, 0, L, D, zero, h)
    BY <1>6
  <2>2. f \in [0 .. L -> D] /\ f[L] = zero /\ \A s \in 0 .. L - 1 : f[s] = h[s][f[s + 1]]
    <3> HIDE DEF h
    <3> QED BY <2>1 DEF Downwards
  <2> HIDE DEF Plus
  <2>3. ASSUME NEW p \in 0 .. L PROVE f[p] = IF p = L THEN zero ELSE Plus(p, f[p + 1])
    <3>1. CASE p = L
      BY <2>2, <3>1
    <3>2. CASE p # L
      <4>1. p \in 0 .. L - 1 /\ p + 1 \in 0 .. L
        BY <1>1, <3>2
      <4>2. f[p + 1] \in D /\ f[p] = h[p][f[p + 1]]
        BY <2>2, <4>1
      <4>3. h[p][f[p + 1]] = Plus(p, f[p + 1])
        BY <4>1, <4>2
      <4>4. QED
        BY <3>2, <4>2, <4>3
    <3>3. QED
      BY <3>1, <3>2
  <2>4. Eq(f)
    BY <2>2, <2>3
  <2>5. QED
    BY <2>4
<1>8. Eq(later)
  <2> HIDE DEF Eq
  <2> QED BY <1>7
<1> HIDE DEF later
<1>9. later[L] = zero /\ \A p \in 0 .. L - 1 : later[p] = Plus(p, later[p + 1])
  <2> HIDE DEF Plus
  <2>1. \A p \in 0 .. L : later[p] = IF p = L THEN zero ELSE Plus(p, later[p + 1])
    BY <1>8
  <2>2. L \in 0 .. L /\ \A p \in 0 .. L - 1 : p \in 0 .. L /\ p # L
    BY <1>1
  <2>3. QED
    BY <2>1, <2>2
<1> DEFINE Right(p) == /\ later[p] \in D
                       /\ \A t \in Tr :
                            /\ later[p][t].gae
                                 = Discounted(factor, LaterTokens(t, p), Rank(t, p), TokenSurprise)
                            /\ later[p][t].value = SumFunctionOnSet(TokenValue, Foremost(t, p))
           T == {m \in 0 .. L : Right(L - m)}
<1>10. Right(L)
  <2>1. ASSUME NEW t \in Tr
        PROVE  LaterTokens(t, L) = {} /\ Foremost(t, L) = {} /\ later[L][t] = [value |-> 0, gae |-> 0]
    <3>1. \A x \in Written : TokenPlace(data, x) \in 0 .. L - 1
      BY PlacesAre DEF L
    <3>2. LaterTokens(t, L) = {}
      BY <1>1, <3>1 DEF LaterTokens
    <3>3. QED
      BY <1>9, <3>2 DEF zero, Foremost
  <2>2. SumFunctionOnSet(TokenValue, {}) = 0
    BY SumFacts, FS_EmptySet
  <2>3. \A t \in Tr : Discounted(factor, {}, Rank(t, L), TokenSurprise) = 0
    BY DiscountNone
  <2>4. QED
    BY <1>3, <1>9, <2>1, <2>2, <2>3
<1>11. ASSUME NEW p \in 0 .. L - 1, Right(p + 1) PROVE Right(p)
  <2>1. p \in Nat /\ later[p] = Plus(p, later[p + 1]) /\ later[p + 1] \in D
    BY <1>1, <1>9, <1>11
  <2>2. later[p] \in D
    <3> HIDE DEF Plus
    <3> QED BY <1>5, <2>1
  <2>3. ASSUME NEW t \in Tr
        PROVE  /\ later[p][t].gae = Discounted(factor, LaterTokens(t, p), Rank(t, p), TokenSurprise)
               /\ later[p][t].value = SumFunctionOnSet(TokenValue, Foremost(t, p))
    <3> DEFINE y == later[p + 1]
    <3>1. later[p][t] = Passed(p, t, y)
      BY <2>1
    <3>2. /\ y[t].gae = Discounted(factor, LaterTokens(t, p + 1), Rank(t, p + 1), TokenSurprise)
          /\ y[t].value = SumFunctionOnSet(TokenValue, Foremost(t, p + 1))
          /\ y \in D
      BY <1>11
    <3> HIDE DEF y
    <3>3. CASE TokensAt(data, t, p) = {}
      <4>1. later[p][t] = y[t]
        BY <3>1, <3>3 DEF Passed
      <4>2. QED
        BY <2>1, <3>2, <3>3, <4>1, NoTokenHere
    <3>4. ASSUME NEW w \in TokensAt(data, t, p)
          PROVE  /\ later[p][t].gae = Discounted(factor, LaterTokens(t, p), Rank(t, p), TokenSurprise)
                 /\ later[p][t].value = SumFunctionOnSet(TokenValue, Foremost(t, p))
      <4> DEFINE B == LaterTokens(t, p + 1)
                 r == data.reward[w[1]][w[2]]
                 v == TokenValue[w]
                 a == y[t].value
                 g == y[t].gae
      <4>1. /\ w \in Written /\ data.traj[w[1]] = t /\ TokenPlace(data, w) = p
            /\ LaterTokens(t, p) = {w} \cup B /\ w \notin B
            /\ Rank(t, p)[w] = 0
            /\ \A x \in B : Rank(t, p + 1)[x] \in Nat /\ Rank(t, p)[x] = Rank(t, p + 1)[x] + 1
            /\ Foremost(t, p) = {w}
            /\ {x \in LaterTokens(t, p) : Rank(t, p)[x] = 1} = Foremost(t, p + 1)
        BY <2>1, <3>4, TokenHere
      <4>2. later[p][t] = [value |-> v, gae |-> r + Gamma * a - v + factor * g]
        <5> HIDE DEF D, Passed
        <5> QED BY <1>4, <3>1, <3>2, <3>4
      <4>3. v \in Int /\ r \in Int /\ TokenSurprise[w] \in Int
        BY <4>1, TokenValues
      <4>4. TokenSurprise[w] = r - v + Gamma * a
        <5>1. FromToken(w) = LaterTokens(t, p) /\ \A x \in FromToken(w) : Between(w)[x] = Rank(t, p)[x]
          BY <4>1, FromTokenIs
        <5>2. {x \in FromToken(w) : Between(w)[x] = 1} = Foremost(t, p + 1)
          BY <4>1, <5>1
        <5>3. QED
          BY <3>2, <4>1, <5>2, TokenValues
      <4>5. a \in Int /\ g \in Int
        BY <3>2 DEF D
      <4>6. Discounted(factor, {w} \cup B, Rank(t, p), TokenSurprise)
              = SumFunctionOnSet(TokenSurprise, {w})
                  + factor * Discounted(factor, B, Rank(t, p + 1), TokenSurprise)
        <5>1. IsFiniteSet(B) /\ IsFiniteSet({w}) /\ {w} \cap B = {}
          <6>1. IsFiniteSet(B)
            BY LaterFinite
          <6>2. IsFiniteSet({w})
            BY FS_Singleton
          <6> HIDE DEF B
          <6>3. QED
            BY <4>1, <6>1, <6>2
        <5>2. \A x \in {w} \cup B : TokenSurprise[x] \in Int
          BY <4>1, TokenValues DEF LaterTokens
        <5>3. \A x \in {w} : Rank(t, p)[x] = 0
          BY <4>1
        <5> HIDE DEF B
        <5>4. QED
          BY <1>2, <4>1, <5>1, <5>2, <5>3, DiscountStep
      <4>7. SumFunctionOnSet(TokenSurprise, {w}) = TokenSurprise[w] /\ SumFunctionOnSet(TokenValue, {w}) = v
        BY <4>3, SumOne
      <4>8. r + Gamma * a - v + factor * g = (r - v + Gamma * a) + factor * g
        <5> HIDE DEF r, v, a, g
        <5>1. Gamma * a \in Int /\ factor * g \in Int
          BY <1>2, <4>5
        <5>2. QED
          BY <4>3, <5>1
      <4>9. later[p][t].value = v /\ later[p][t].gae = r + Gamma * a - v + factor * g
        BY <4>2
      <4>10. Discounted(factor, LaterTokens(t, p), Rank(t, p), TokenSurprise) = TokenSurprise[w] + factor * g
        BY <3>2, <4>1, <4>6, <4>7
      <4> HIDE DEF B, r, v, a, g
      <4>11. QED
        BY <4>1, <4>4, <4>7, <4>8, <4>9, <4>10
    <3>5. QED
      BY <3>3, <3>4
  <2>4. QED
    BY <2>2, <2>3
<1>12. \A p \in 0 .. L : Right(p)
  <2>1. 0 \in T
    <3>1. L - 0 = L /\ 0 \in 0 .. L
      BY <1>1
    <3> HIDE DEF Right
    <3>2. QED
      BY <1>10, <3>1
  <2>2. ASSUME NEW m \in 0 .. L - 1, m \in T PROVE m + 1 \in T
    <3>1. L - (m + 1) \in 0 .. L - 1 /\ (L - (m + 1)) + 1 = L - m /\ m + 1 \in 0 .. L
      BY <1>1
    <3> HIDE DEF Right
    <3>2. QED
      BY <1>11, <2>2, <3>1
  <2>3. 0 .. L \subseteq T
    <3> HIDE DEF T
    <3> QED BY <1>1, <2>1, <2>2, UpTo
  <2>4. ASSUME NEW p \in 0 .. L PROVE Right(p)
    <3>1. L - p \in T /\ L - (L - p) = p
      BY <1>1, <2>3
    <3> HIDE DEF Right
    <3>2. QED
      BY <3>1
  <2>5. QED
    BY <2>4
<1>13. ASSUME NEW i \in Real, NEW j \in Tokens
       PROVE  LET w == <<i, j>>
                  g == later[TokenPlace(data, w)][data.traj[i]].gae
              IN  /\ TokenPlace(data, w) \in 0 .. L /\ data.traj[i] \in Tr
                  /\ TokenBackwards(data)[w] = g * data.mask[i][j]
                  /\ g \in Int /\ TokenBackwards(data)[w] \in Int
  <2> DEFINE w == <<i, j>>
             t == data.traj[i]
             p == TokenPlace(data, w)
             n == ResponseLength
             a == data.step[i]
             S == LastStep(data)
  <2>1. t \in Tr /\ data.mask[i][j] \in {0, 1} /\ w \in Valid(data) \X Tokens
    BY BatchFacts DEF Tr, Trajectories
  <2>2. p \in 0 .. L
    <3>1. p = a * n + j - 1 /\ L = (S + 1) * n
      BY DEF TokenPlace, L, LastToken
    <3>2. n \in Nat \ {0} /\ j \in 1 .. n /\ S \in Nat /\ a \in 0 .. S /\ a \in Nat
      BY EstimatorAssumption, LastStepIs DEF Tokens
    <3> HIDE DEF a, n, S, p
    <3>3. a * n + j - 1 \in 0 .. (a + 1) * n - 1 /\ (a + 1) * n <= (S + 1) * n
      BY <3>2, BlockOrder
    <3>4. (a + 1) * n \in Nat /\ (S + 1) * n \in Nat
      BY <3>2
    <3> DEFINE A == (a + 1) * n
               B == (S + 1) * n
               C == a * n + j - 1
    <3>5. A \in Nat /\ B \in Nat /\ C \in 0 .. A - 1 /\ A <= B
      BY <3>3, <3>4
    <3> HIDE DEF A, B, C
    <3>6. C \in 0 .. B
      BY <3>5
    <3>7. QED
      BY <3>1, <3>6 DEF B, C
  <2>3. TokenBackwards(data)[w] = later[p][t].gae * data.mask[i][j]
    <3>1. TokenBackwards(data) = [x \in Valid(data) \X Tokens |->
             later[TokenPlace(data, x)][data.traj[x[1]]].gae * data.mask[x[1]][x[2]]]
      BY DEF TokenBackwards, later, L, Tr, zero, Passed
    <3>2. QED
      BY <2>1, <3>1
  <2>4. later[p][t].gae \in Int
    <3>1. later[p] \in D
      BY <1>12, <2>2
    <3>2. QED
      BY <2>1, <3>1 DEF D
  <2> DEFINE g == later[p][t].gae
  <2> HIDE DEF p, g
  <2>5. TokenBackwards(data)[w] \in Int
    <3>1. \A b \in Int, c \in {0, 1} : b * c \in Int
      OBVIOUS
    <3>2. QED
      BY <2>1, <2>3, <2>4, <3>1 DEF g
  <2>6. QED
    BY <2>1, <2>2, <2>3, <2>4, <2>5 DEF p
<1>14. ASSUME NEW w \in Written PROVE TokenBackwards(data)[w] = TokenAdvantageOf[w]
  <2> DEFINE t == data.traj[w[1]]
             p == TokenPlace(data, w)
             g == later[p][t].gae
  <2>1. w[1] \in Real /\ w[2] \in Tokens /\ w = <<w[1], w[2]>> /\ data.mask[w[1]][w[2]] = 1
    BY WrittenIs DEF Generated
  <2>2. p \in 0 .. L /\ t \in Tr /\ g \in Int /\ TokenBackwards(data)[w] = g * data.mask[w[1]][w[2]]
    BY <1>13, <2>1
  <2>3. g = Discounted(factor, LaterTokens(t, p), Rank(t, p), TokenSurprise)
    BY <1>12, <2>2
  <2>4. FromToken(w) = LaterTokens(t, p) /\ \A x \in FromToken(w) : Between(w)[x] = Rank(t, p)[x]
    BY FromTokenIs
  <2>5. Discounted(factor, FromToken(w), Rank(t, p), TokenSurprise)
          = Discounted(factor, FromToken(w), Between(w), TokenSurprise)
    BY <1>2, <2>4, DiscountSame
  <2>6. TokenAdvantageOf[w] = Discounted(factor, FromToken(w), Between(w), TokenSurprise)
    BY DEF TokenAdvantageOf, factor
  <2>7. g * 1 = g
    BY <2>2
  <2> HIDE DEF t, p, g
  <2>8. QED
    BY <2>1, <2>2, <2>3, <2>4, <2>5, <2>6, <2>7
<1>15. QED
  BY <1>13, <1>14

(* What compute_token_gae_advantage_return computes. *)
LEMMA TokenGAEIs ==
  ASSUME IsBatch(data)
  PROVE  LET sum == SumFunctionOnSet(TokenAdvantageOf, Written)
             result == TokenGAE(data)
         IN  /\ \A w \in Written :
                   /\ result.advantages[w[1]][w[2]] = FromMean(Cardinality(Written), TokenAdvantageOf[w], sum)
                   /\ result.returns[w[1]][w[2]] = TokenAdvantageOf[w] + TokenValue[w]
             /\ \A i \in Rows \ Real : \A j \in Tokens : result.advantages[i][j] = 0
             /\ Numbers(result.advantages) /\ Numbers(result.returns)
<1> DEFINE gae == TokenBackwards(data)
           sum == SumFunctionOnSet(gae, Written)
           n == Cardinality(Written)
           advantages == [i \in Rows |-> [j \in Tokens |->
                            IF i \in Valid(data) THEN n * gae[<<i, j>>] - sum ELSE 0]]
           returns == [i \in Rows |-> [j \in Tokens |->
                            IF i \in Valid(data) THEN (gae[<<i, j>>] + data.value[i][j]) * data.mask[i][j] ELSE 0]]
<1>1. TokenGAE(data) = [advantages |-> advantages, returns |-> returns]
  BY WrittenIs DEF TokenGAE
<1>2. /\ \A w \in Written : gae[w] \in Int /\ gae[w] = TokenAdvantageOf[w]
      /\ \A i \in Real : \A j \in Tokens : gae[<<i, j>>] \in Int
  BY TokenBackwardsIs, WrittenIs
<1> HIDE DEF gae
<1>3. sum = SumFunctionOnSet(TokenAdvantageOf, Written)
  <2>1. \A w \in Written : TokenAdvantageOf[w] \in Int /\ gae[w] = TokenAdvantageOf[w]
    BY <1>2
  <2>2. IsFiniteSet(Written)
    BY WrittenIs
  <2>3. QED
    BY <2>1, <2>2, SumSame
<1>4. ASSUME NEW w \in Written
      PROVE  /\ advantages[w[1]][w[2]] = FromMean(n, TokenAdvantageOf[w], sum)
             /\ returns[w[1]][w[2]] = TokenAdvantageOf[w] + TokenValue[w]
  <2>1. w[1] \in Rows /\ w[2] \in Tokens /\ w[1] \in Valid(data) /\ w = <<w[1], w[2]>>
    BY WrittenIs, BatchFacts
  <2>2. gae[<<w[1], w[2]>>] = gae[w]
    BY <2>1
  <2>3. data.mask[w[1]][w[2]] = 1
    BY WrittenIs DEF Generated
  <2>4. advantages[w[1]][w[2]] = n * gae[w] - sum
    BY <2>1, <2>2
  <2>5. returns[w[1]][w[2]] = (gae[w] + data.value[w[1]][w[2]]) * data.mask[w[1]][w[2]]
    BY <2>1, <2>2
  <2>6. TokenValue[w] \in Int /\ TokenValue[w] = data.value[w[1]][w[2]]
    BY TokenValues
  <2> HIDE DEF n, sum, advantages, returns
  <2>7. QED
    BY <1>2, <2>3, <2>4, <2>5, <2>6 DEF FromMean
<1>5. ASSUME NEW i \in Rows \ Real, NEW j \in Tokens PROVE advantages[i][j] = 0
  BY BatchFacts
<1>6. n \in Int /\ sum \in Int
  <2>1. IsFiniteSet(Written)
    BY WrittenIs
  <2>2. QED
    BY <1>2, <2>1, FS_CardinalityType, SumFacts
<1>7. ASSUME NEW i \in Rows, NEW j \in Tokens PROVE advantages[i][j] \in Int /\ returns[i][j] \in Int
  <2>1. CASE i \in Real
    <3> DEFINE g == gae[<<i, j>>]
               v == data.value[i][j]
               m == data.mask[i][j]
    <3>1. g \in Int /\ v \in Int /\ m \in {0, 1}
      BY <1>2, <2>1, BatchFacts
    <3>2. advantages[i][j] = n * g - sum /\ returns[i][j] = (g + v) * m
      BY <2>1, BatchFacts
    <3> HIDE DEF g, v, m, n, sum, advantages, returns
    <3>3. n * g \in Int /\ (g + v) * m \in Int
      BY <1>6, <3>1
    <3>4. QED
      BY <1>6, <3>2, <3>3
  <2>2. CASE i \notin Real
    BY <2>2, BatchFacts
  <2>3. QED
    BY <2>1, <2>2
<1> HIDE DEF advantages, returns, n, sum
<1>8. Numbers(advantages) /\ Numbers(returns)
  BY <1>7 DEF Numbers
<1>9. QED
  BY <1>1, <1>3, <1>4, <1>5, <1>8 DEF n, sum
-----------------------------------------------------------------------------
(* The outcomes of the trajectories *)

LEMMA OutcomesAre ==
  ASSUME IsBatch(data)
  PROVE  /\ Trajectories(data) = {data.traj[i] : i \in Real}
         /\ \A t \in Trajectories(data) : OutcomeOf[t] \in Int /\ TotalScores(data)[t] = OutcomeOf[t]
<1>1. Trajectories(data) = {data.traj[i] : i \in Real}
  BY BatchFacts DEF Trajectories
<1>2. ASSUME NEW t \in Trajectories(data)
      PROVE  OutcomeOf[t] \in Int /\ TotalScores(data)[t] = OutcomeOf[t]
  <2> DEFINE S == {i \in Real : data.traj[i] = t}
             x == [i \in Valid(data) |-> StepReward(data, i)]
             y == Reward
  <2>1. S \in SUBSET Real
    OBVIOUS
  <2>2. IsFiniteSet(S) /\ \A i \in S : y[i] \in Int /\ x[i] = y[i]
    BY <2>1, BatchFacts, StepRewardIs, FS_Subset
  <2>3. TotalScores(data)[t] = SumFunctionOnSet(x, S)
    BY BatchFacts DEF TotalScores
  <2>4. OutcomeOf[t] = SumFunctionOnSet(y, S)
    BY <1>1 DEF OutcomeOf
  <2> HIDE DEF S, x, y
  <2>5. SumFunctionOnSet(x, S) = SumFunctionOnSet(y, S) /\ SumFunctionOnSet(y, S) \in Int
    BY <2>2, SumSame, SumFacts
  <2>6. QED
    BY <2>3, <2>4, <2>5
<1>3. QED
  BY <1>1, <1>2

(* The trajectories of the same prompt. *)
LEMMA SiblingsAre ==
  ASSUME IsBatch(data), NEW i \in Real
  PROVE  /\ Siblings(data, data.traj[i]) = Peers(i)
         /\ data.traj[i] \in Peers(i) /\ Peers(i) \subseteq Trajectories(data)
         /\ IsFiniteSet(Peers(i)) /\ Cardinality(Peers(i)) \in 1 .. NumRows
<1>1. ASSUME NEW k \in Real PROVE PromptOf(data, data.traj[k]) = data.uid[k]
  <2> DEFINE S == {m \in Real : data.traj[m] = data.traj[k]}
  <2>1. S \subseteq Nat /\ S # {}
    BY BatchFacts, RowFacts
  <2>2. Min(S) \in S
    <3> HIDE DEF S
    <3> QED BY <2>1, LeastIsMin
  <2>3. data.uid[Min(S)] = data.uid[k]
    BY <2>2, BatchOrder
  <2>4. QED
    BY <2>3, BatchFacts DEF PromptOf
<1>2. Trajectories(data) = {data.traj[k] : k \in Real}
  BY OutcomesAre
<1>3. Siblings(data, data.traj[i]) = Peers(i)
  BY <1>1, <1>2 DEF Siblings, Peers
<1>4. data.traj[i] \in Peers(i) /\ Peers(i) \subseteq Trajectories(data)
  BY <1>2 DEF Peers
<1>5. IsFiniteSet(Peers(i)) /\ Cardinality(Peers(i)) <= NumRows
  <2> DEFINE M == {m \in Real : data.uid[m] = data.uid[i]}
             f == [k \in M |-> data.traj[k]]
  <2>1. M \in SUBSET Rows
    BY BatchFacts
  <2>2. IsFiniteSet(M) /\ Cardinality(M) <= NumRows /\ Cardinality(M) \in Nat
    BY <2>1, RowFacts, FS_Subset, FS_CardinalityType
  <2>3. f \in Surjection(M, Peers(i))
    BY DEF Surjection, Peers
  <2>4. IsFiniteSet(Peers(i)) /\ Cardinality(Peers(i)) <= Cardinality(M)
    <3> HIDE DEF f, M
    <3> QED BY <2>2, <2>3, FS_Surjection
  <2>5. Cardinality(Peers(i)) \in Nat
    BY <2>4, FS_CardinalityType
  <2>6. NumRows \in Nat
    BY EstimatorAssumption
  <2> HIDE DEF M
  <2>7. QED
    BY <2>2, <2>4, <2>5, <2>6
<1>6. Cardinality(Peers(i)) \in 1 .. NumRows
  <2>1. Cardinality(Peers(i)) \in Nat /\ Cardinality(Peers(i)) # 0
    BY <1>4, <1>5, FS_CardinalityType, FS_EmptySet
  <2>2. QED
    BY <1>5, <2>1, EstimatorAssumption
<1>7. QED
  BY <1>3, <1>4, <1>5, <1>6

(* Scale is chosen so that no mean of a group is rounded. *)
LEMMA ScaledIs ==
  ASSUME NEW n \in 1 .. NumRows, NEW x \in Int, NEW sum \in Int
  PROVE  /\ (Scale * sum) \div n \in Int
         /\ Scale * x - (Scale * sum) \div n = Scaled(n, x, sum)
         /\ Scaled(n, x, sum) \in Int
         /\ Scaled(n, x, sum) * n = Scale * (n * x - sum)
<1>1. Scale \in Nat /\ Scale % n = 0 /\ n \in Nat \ {0}
  BY EstimatorAssumption
<1>2. PICK q \in Int : Scale = n * q
  <2>1. Scale = n * (Scale \div n) + (Scale % n) /\ Scale \div n \in Int
    BY <1>1
  <2>2. QED
    BY <1>1, <2>1
<1>3. q * sum \in Int /\ n * x - sum \in Int /\ q * (n * x - sum) \in Int
  <2>1. n * x - sum \in Int
    BY <1>1
  <2>2. \A a, b \in Int : a * b \in Int
    OBVIOUS
  <2>3. QED
    BY <2>1, <2>2
<1>4. \A a \in Int : (n * q) * a = n * (q * a)
  BY <1>1
<1>5. (Scale * sum) \div n = q * sum
  BY <1>1, <1>2, <1>3, <1>4, Quotient
<1>6. Scaled(n, x, sum) = q * (n * x - sum)
  <2>1. Scaled(n, x, sum) = (Scale * (n * x - sum)) \div n
    BY DEF Scaled, FromMean
  <2> DEFINE y == n * x - sum
  <2>2. y \in Int /\ q * y \in Int
    BY <1>3
  <2> HIDE DEF y
  <2>3. (Scale * y) \div n = q * y
    BY <1>1, <1>2, <1>4, <2>2, Quotient
  <2>4. QED
    BY <2>1, <2>3 DEF y
<1>7. q * (n * x - sum) = Scale * x - q * sum
  <2>1. \A a, b, c, d \in Int : a * (b * c - d) = (b * a) * c - a * d
    OBVIOUS
  <2>2. QED
    BY <1>1, <1>2, <2>1
<1>8. (q * (n * x - sum)) * n = Scale * (n * x - sum)
  <2>1. \A a, b, c \in Int : (a * b) * c = (c * a) * b
    OBVIOUS
  <2>2. QED
    BY <1>1, <1>2, <1>3, <2>1
<1>9. QED
  BY <1>3, <1>5, <1>6, <1>7, <1>8

(* How much better a trajectory did than the mean of its prompt. *)
LEMMA RelativeIs ==
  ASSUME IsBatch(data), NEW i \in Real
  PROVE  /\ Relative(i) \in Int /\ RelativeScore(data, data.traj[i]) = Relative(i)
         /\ SumFunctionOnSet(OutcomeOf, Peers(i)) \in Int
         /\ Relative(i) * Cardinality(Peers(i)) =
              IF Cardinality(Peers(i)) = 1 THEN Scale * OutcomeOf[data.traj[i]]
              ELSE Scale * (Cardinality(Peers(i)) * OutcomeOf[data.traj[i]] - SumFunctionOnSet(OutcomeOf, Peers(i)))
<1> DEFINE n == Cardinality(Peers(i))
           t == data.traj[i]
           own == OutcomeOf[t]
           sum == SumFunctionOnSet(OutcomeOf, Peers(i))
<1>1. n \in 1 .. NumRows /\ IsFiniteSet(Peers(i)) /\ t \in Peers(i) /\ Siblings(data, t) = Peers(i)
      /\ Peers(i) \subseteq Trajectories(data)
  BY SiblingsAre
<1>2. \A u \in Peers(i) : OutcomeOf[u] \in Int /\ TotalScores(data)[u] = OutcomeOf[u]
  BY <1>1, OutcomesAre
<1>3. sum \in Int /\ SumFunctionOnSet(TotalScores(data), Peers(i)) = sum
  BY <1>1, <1>2, SumSame, SumFacts
<1>4. own \in Int /\ TotalScores(data)[t] = own
  BY <1>1, <1>2
<1>5. RelativeScore(data, t) = Scale * own - (IF n = 1 THEN 0 ELSE (Scale * sum) \div n)
  BY <1>1, <1>3, <1>4 DEF RelativeScore, GroupMean
<1>6. Relative(i) = IF n = 1 THEN Scale * own ELSE Scaled(n, own, sum)
  BY DEF Relative
<1>7. Scale * own \in Int /\ n \in Nat
  BY <1>1, <1>4, EstimatorAssumption
<1> HIDE DEF n, t, own, sum
<1>8. CASE n = 1
  <2>1. RelativeScore(data, t) = Scale * own /\ Relative(i) = Scale * own /\ Relative(i) * n = Scale * own
    BY <1>5, <1>6, <1>7, <1>8
  <2>2. QED
    BY <1>3, <1>7, <1>8, <2>1 DEF n, t, own, sum
<1>9. CASE n # 1
  <2>1. /\ Scale * own - (Scale * sum) \div n = Scaled(n, own, sum)
        /\ Scaled(n, own, sum) \in Int
        /\ Scaled(n, own, sum) * n = Scale * (n * own - sum)
    BY <1>1, <1>3, <1>4, ScaledIs
  <2>2. /\ RelativeScore(data, t) = Relative(i) /\ Relative(i) \in Int
        /\ Relative(i) * n = Scale * (n * own - sum)
    BY <1>5, <1>6, <1>9, <2>1
  <2>3. QED
    BY <1>3, <1>9, <2>2 DEF n, t, own, sum
<1>10. QED
  BY <1>8, <1>9

(* What compute_grpo_outcome_advantage computes. *)
LEMMA GrpoIs ==
  ASSUME IsBatch(data)
  PROVE  /\ OnTokens(Grpo(data).advantages, [i \in Real |-> Relative(i)])
         /\ Numbers(Grpo(data).advantages) /\ Numbers(Grpo(data).returns)
<1> DEFINE x == [i \in Valid(data) |-> RelativeScore(data, data.traj[i])]
           value == [i \in Real |-> Relative(i)]
<1>1. \A i \in Real : x[i] \in Int /\ x[i] = value[i]
  BY BatchFacts, RelativeIs
<1>2. Grpo(data).advantages = Broadcast(data, x) /\ Grpo(data).returns = Broadcast(data, x)
  BY DEF Grpo, Outcome
<1> HIDE DEF x, value
<1>3. QED
  BY <1>1, <1>2, BroadcastIs DEF value

(* And than the mean of the others. *)
LEMMA LeftOutIs ==
  ASSUME IsBatch(data), NEW i \in Real
  PROVE  LeftOut(i) \in Int /\ LeaveOneOut(data, data.traj[i]) = LeftOut(i)
<1> DEFINE n == Cardinality(Peers(i))
           t == data.traj[i]
           own == OutcomeOf[t]
           sum == SumFunctionOnSet(OutcomeOf, Peers(i))
           others == Peers(i) \ {t}
           rest == SumFunctionOnSet(OutcomeOf, others)
<1>1. n \in 1 .. NumRows /\ IsFiniteSet(Peers(i)) /\ t \in Peers(i) /\ Siblings(data, t) = Peers(i)
      /\ Peers(i) \subseteq Trajectories(data)
  BY SiblingsAre
<1>2. \A u \in Peers(i) : OutcomeOf[u] \in Int
  BY <1>1, OutcomesAre
<1>3. own \in Int /\ TotalScores(data)[t] = own
  BY <1>1, OutcomesAre
<1>4. IsFiniteSet(others) /\ Cardinality(others) = n - 1
  BY <1>1, FS_RemoveElement
<1>5. sum = own + rest /\ rest \in Int
  <2>1. \A u \in others : OutcomeOf[u] \in Int
    BY <1>2
  <2>2. rest \in Int
    <3> HIDE DEF others
    <3> QED BY <1>4, <2>1, SumFacts
  <2>3. sum = own + rest
    BY <1>1, <1>2, SumFacts
  <2>4. QED
    BY <2>2, <2>3
<1>6. others = {} <=> n = 1
  <2>1. others = {} <=> Cardinality(others) = 0
    BY <1>4, FS_EmptySet
  <2>2. QED
    BY <1>1, <1>4, <2>1
<1>7. LeaveOneOut(data, t) = IF n = 1 THEN Scale * own ELSE (RelativeScore(data, t) * n) \div (n - 1)
  BY <1>1, <1>3 DEF LeaveOneOut
<1>8. LeftOut(i) = IF n = 1 THEN Scale * own ELSE (Scale * ((n - 1) * own - rest)) \div (n - 1)
  BY <1>4, <1>6 DEF LeftOut, Scaled, FromMean
<1>9. RelativeScore(data, t) * n = IF n = 1 THEN Scale * own ELSE Scale * (n * own - sum)
  BY RelativeIs
<1>10. Scale \in Int
  BY EstimatorAssumption
<1> HIDE DEF n, t, own, sum, others, rest
<1>11. n * own - sum = (n - 1) * own - rest /\ (n - 1) * own - rest \in Int
  <2>1. n \in Int
    BY <1>1
  <2>2. \A a, b, c \in Int : a * b - (b + c) = (a - 1) * b - c /\ (a - 1) * b - c \in Int
    OBVIOUS
  <2>3. QED
    BY <1>3, <1>5, <2>1, <2>2
<1>12. CASE n = 1
  <2>1. Scale * own \in Int
    BY <1>3, <1>10
  <2>2. QED
    BY <1>7, <1>8, <1>12, <2>1 DEF t
<1>13. CASE n # 1
  <2> DEFINE y == (n - 1) * own - rest
  <2>1. LeaveOneOut(data, t) = (Scale * y) \div (n - 1) /\ LeftOut(i) = (Scale * y) \div (n - 1)
    BY <1>7, <1>8, <1>9, <1>11, <1>13
  <2>2. y \in Int
    BY <1>11
  <2> HIDE DEF y
  <2>3. n - 1 \in Nat \ {0} /\ Scale * y \in Int
    BY <1>1, <1>10, <1>13, <2>2
  <2>4. \A a \in Int, b \in Nat \ {0} : a \div b \in Int
    OBVIOUS
  <2>5. QED
    BY <2>1, <2>3, <2>4 DEF t
<1>14. QED
  BY <1>12, <1>13

(* What compute_rloo_outcome_advantage computes. *)
LEMMA RlooIs ==
  ASSUME IsBatch(data)
  PROVE  /\ OnTokens(Rloo(data).advantages, [i \in Real |-> LeftOut(i)])
         /\ Numbers(Rloo(data).advantages) /\ Numbers(Rloo(data).returns)
<1> DEFINE x == [i \in Valid(data) |-> LeaveOneOut(data, data.traj[i])]
           value == [i \in Real |-> LeftOut(i)]
<1>1. \A i \in Real : x[i] \in Int /\ x[i] = value[i]
  BY BatchFacts, LeftOutIs
<1>2. Rloo(data).advantages = Broadcast(data, x) /\ Rloo(data).returns = Broadcast(data, x)
  BY DEF Rloo, Outcome
<1> HIDE DEF x, value
<1>3. QED
  BY <1>1, <1>2, BroadcastIs DEF value
-----------------------------------------------------------------------------
(* The groups of steps *)

(* Which rows the row i would join, if the rows of M are the first of a group. *)
Joinable(M, i) ==
  {k \in Real : k < i /\ data.uid[k] = data.uid[i] /\ k \in M
                /\ Similar(data.anchor[i], data.anchor[k])}

Leads(M, n) == \A i \in Real : i <= n => (i \in M <=> Joinable(M, i) = {})

(* There are such leaders, found row by row. *)
LEMMA LeadersExist ==
  ASSUME IsBatch(data)
  PROVE  \E M \in SUBSET Real : Leads(M, NumRows)
<1> DEFINE T == {n \in 0 .. NumRows : \E M \in SUBSET Real : Leads(M, n)}
<1>1. NumRows \in Nat /\ Real \subseteq Nat /\ \A i \in Real : i > 0
  BY EstimatorAssumption, BatchFacts DEF Rows
<1>2. 0 \in T
  <2>1. Leads({}, 0)
    BY <1>1 DEF Leads
  <2>2. {} \in SUBSET Real /\ 0 \in 0 .. NumRows
    BY <1>1
  <2>3. QED
    BY <2>1, <2>2
<1>3. ASSUME NEW n \in 0 .. NumRows - 1, n \in T PROVE n + 1 \in T
  <2>1. PICK M \in SUBSET Real : Leads(M, n)
    BY <1>3
  <2> DEFINE K == {i \in Real : IF i <= n THEN i \in M ELSE i = n + 1 /\ Joinable(M, i) = {}}
  <2>2. ASSUME NEW i \in Real, i <= n + 1 PROVE Joinable(K, i) = Joinable(M, i)
    <3>1. \A k \in Real : k < i => k <= n
      BY <1>1, <2>2
    <3>2. \A k \in Real : k < i => (k \in K <=> k \in M)
      BY <3>1
    <3> HIDE DEF K
    <3>3. QED
      BY <3>2 DEF Joinable
  <2>3. ASSUME NEW i \in Real, i <= n + 1 PROVE i \in K <=> Joinable(K, i) = {}
    <3>1. CASE i <= n
      <4>1. i \in K <=> i \in M
        BY <3>1
      <4>2. i \in M <=> Joinable(M, i) = {}
        BY <2>1, <3>1 DEF Leads
      <4> HIDE DEF K
      <4>3. QED
        BY <2>2, <2>3, <4>1, <4>2
    <3>2. CASE ~ (i <= n)
      <4>1. i = n + 1
        BY <1>1, <2>3, <3>2
      <4>2. i \in K <=> Joinable(M, i) = {}
        BY <3>2, <4>1
      <4> HIDE DEF K
      <4>3. QED
        BY <2>2, <2>3, <4>2
    <3>3. QED
      BY <3>1, <3>2
  <2>4. K \in SUBSET Real /\ n + 1 \in 0 .. NumRows
    BY <1>1
  <2> HIDE DEF K
  <2>5. Leads(K, n + 1)
    BY <2>3 DEF Leads
  <2>6. QED
    BY <2>4, <2>5
<1>4. 0 .. NumRows \subseteq T
  <2> HIDE DEF T
  <2> QED BY <1>1, <1>2, <1>3, UpTo
<1>5. NumRows \in T
  BY <1>1, <1>4
<1>6. QED
  BY <1>5

(* A row joins the first row it is like that itself leads a group. *)
Open(first, i) ==
  {k \in Real : k < i /\ data.uid[k] = data.uid[i] /\ first[k] = k
                /\ Similar(data.anchor[i], data.anchor[k])}

(* A row joins the first open cluster. *)
LEMMA ClustersAre ==
  ASSUME IsBatch(data)
  PROVE  LET first == SimilarClusters(data)
         IN  /\ DOMAIN first = Real
             /\ \A i \in Real : first[i] = IF Open(first, i) = {} THEN i ELSE Min(Open(first, i))
<1> DEFINE Eq(f) == f = [i \in Valid(data) |->
              LET open == {k \in Valid(data) : /\ k < i /\ data.uid[k] = data.uid[i] /\ f[k] = k
                                               /\ Similar(data.anchor[i], data.anchor[k])}
              IN  IF open = {} THEN i ELSE Min(open)]
           Eq2(f) == f = [i \in Real |-> IF Open(f, i) = {} THEN i ELSE Min(Open(f, i))]
<1>1. Valid(data) = Real /\ Real \subseteq Nat
  BY BatchFacts, RowFacts
<1>2. \A f : Eq(f) <=> Eq2(f)
  BY <1>1 DEF Open
<1>3. \E f : Eq2(f)
  <2>1. PICK M \in SUBSET Real : Leads(M, NumRows)
    BY LeadersExist
  <2> DEFINE f == [i \in Real |-> IF Joinable(M, i) = {} THEN i ELSE Min(Joinable(M, i))]
  <2>2. ASSUME NEW k \in Real PROVE f[k] = k <=> k \in M
    <3>1. k <= NumRows /\ k \in Nat
      BY <1>1, BatchFacts DEF Rows
    <3>2. k \in M <=> Joinable(M, k) = {}
      BY <2>1, <3>1 DEF Leads
    <3>3. Joinable(M, k) # {} => Min(Joinable(M, k)) # k
      <4>1. Joinable(M, k) \subseteq Nat /\ \A m \in Joinable(M, k) : m < k
        BY <1>1 DEF Joinable
      <4>2. Joinable(M, k) # {} => Min(Joinable(M, k)) \in Joinable(M, k)
        BY <4>1, LeastIsMin
      <4>3. QED
        BY <3>1, <4>1, <4>2
    <3>4. QED
      BY <3>2, <3>3
  <2>3. \A i \in Real : Open(f, i) = Joinable(M, i)
    <3> HIDE DEF f
    <3> QED BY <2>2 DEF Open, Joinable
  <2>4. \A i \in Real : f[i] = IF Open(f, i) = {} THEN i ELSE Min(Open(f, i))
    BY <2>3
  <2>5. Eq2(f)
    <3>1. DOMAIN f = Real /\ f = [i \in Real |-> f[i]]
      OBVIOUS
    <3> HIDE DEF f
    <3> QED BY <2>4, <3>1
  <2>6. QED
    <3> HIDE DEF f, Eq2
    <3> QED BY <2>5
<1>4. SimilarClusters(data) = CHOOSE f : Eq(f)
  BY DEF SimilarClusters
<1>5. Eq(SimilarClusters(data))
  <2> HIDE DEF Eq, Eq2
  <2> QED BY <1>2, <1>3, <1>4
<1> DEFINE first == SimilarClusters(data)
<1>6. Eq2(first)
  <2> HIDE DEF Eq, Eq2
  <2> QED BY <1>2, <1>5
<1> HIDE DEF first
<1>7. DOMAIN first = Real /\ \A i \in Real : first[i] = IF Open(first, i) = {} THEN i ELSE Min(Open(first, i))
  BY <1>6
<1>8. QED
  BY <1>7 DEF first

(* The least of the rows in a set. *)
LEMMA LeastOf ==
  ASSUME NEW S, S \subseteq Nat, S # {}
  PROVE  Min(S) \in S /\ \A k \in S : Min(S) <= k
<1>1. \E x \in S : \A y \in S : x <= y
  BY LeastNatural
<1>2. QED
  BY <1>1 DEF Min

(* Clusters of similar observations are sound groups. *)
LEMMA SimilarGroupsSound ==
  ASSUME IsBatch(data), \A i \in Rows : Similar(data.anchor[i], data.anchor[i])
  PROVE  StepGroupsSound(SimilarClusters(data), TRUE)
<1> DEFINE first == SimilarClusters(data)
           O(i) == Open(first, i)
<1>1. \A i \in Real : first[i] = IF O(i) = {} THEN i ELSE Min(O(i))
  BY ClustersAre
<1> HIDE DEF first
<1>2. Real \subseteq Nat /\ Real \subseteq Rows
  BY BatchFacts, RowFacts
<1>3. \A i \in Real : O(i) # {} => Min(O(i)) \in O(i) /\ \A k \in O(i) : Min(O(i)) <= k
  <2>1. \A i \in Real : O(i) \subseteq Nat
    BY <1>2 DEF Open
  <2> HIDE DEF O
  <2>2. QED
    BY <2>1, LeastOf
<1>4. \A i \in Real : \A k : k \in O(i) <=>
        k \in Real /\ k < i /\ data.uid[k] = data.uid[i] /\ first[k] = k
          /\ Similar(data.anchor[i], data.anchor[k])
  BY DEF Open
<1> HIDE DEF O
<1>5. ASSUME NEW i \in Real
      PROVE  /\ first[i] \in Real /\ data.uid[first[i]] = data.uid[i] /\ first[first[i]] = first[i]
             /\ first[i] # i => Similar(data.anchor[i], data.anchor[first[i]])
  <2>1. CASE O(i) = {}
    BY <1>1, <2>1
  <2>2. CASE O(i) # {}
    <3>1. first[i] \in O(i)
      BY <1>1, <1>3, <2>2
    <3>2. QED
      BY <1>4, <3>1
  <2>3. QED
    BY <2>1, <2>2
<1>6. ASSUME NEW i \in Real, NEW k \in Real, i < k,
             data.uid[i] = data.uid[k], data.anchor[i] = data.anchor[k]
      PROVE  first[i] = first[k]
  <2>1. O(i) \subseteq O(k)
    <3>1. ASSUME NEW m \in O(i) PROVE m \in O(k)
      <4>1. m \in Real /\ m < i /\ data.uid[m] = data.uid[i] /\ first[m] = m
              /\ Similar(data.anchor[i], data.anchor[m])
        BY <1>4
      <4>2. m < k
        BY <1>2, <1>6, <4>1
      <4>3. Similar(data.anchor[k], data.anchor[m])
        BY <1>6, <4>1
      <4>4. QED
        BY <1>4, <1>6, <4>1, <4>2, <4>3
    <3>2. QED
      BY <3>1
  <2>2. \A m \in O(k) : m < i => m \in O(i)
    <3>1. ASSUME NEW m \in O(k), m < i PROVE m \in O(i)
      <4>1. m \in Real /\ data.uid[m] = data.uid[k] /\ first[m] = m
              /\ Similar(data.anchor[k], data.anchor[m])
        BY <1>4
      <4>2. Similar(data.anchor[i], data.anchor[m])
        BY <1>6, <4>1
      <4>3. QED
        BY <1>4, <1>6, <3>1, <4>1, <4>2
    <3>2. QED
      BY <3>1
  <2>3. CASE O(i) = {}
    <3>1. first[i] = i
      BY <1>1, <2>3
    <3>2. Similar(data.anchor[k], data.anchor[i])
      <4>1. Similar(data.anchor[i], data.anchor[i])
        BY <1>2
      <4>2. QED
        BY <1>6, <4>1
    <3>3. i \in O(k)
      BY <1>4, <1>6, <3>1, <3>2
    <3>4. Min(O(k)) \in O(k) /\ Min(O(k)) <= i /\ ~ (Min(O(k)) < i)
      BY <1>3, <2>2, <2>3, <3>3
    <3>5. Min(O(k)) \in Nat /\ i \in Nat
      BY <1>2, <1>4, <3>4
    <3>6. Min(O(k)) = i
      BY <3>4, <3>5
    <3>7. QED
      BY <1>1, <3>1, <3>3, <3>6
  <2>4. CASE O(i) # {}
    <3>1. O(k) # {}
      BY <2>1, <2>4
    <3> DEFINE a == Min(O(i))
               b == Min(O(k))
    <3>2. a \in O(i) /\ b \in O(k) /\ (\A m \in O(i) : a <= m) /\ (\A m \in O(k) : b <= m)
      BY <1>3, <2>4, <3>1
    <3> HIDE DEF a, b
    <3>3. b <= a /\ a < i /\ a \in Nat /\ b \in Nat /\ i \in Nat
      BY <1>2, <1>4, <2>1, <3>2
    <3>4. b < i
      BY <3>3
    <3>5. b \in O(i)
      BY <2>2, <3>2, <3>4
    <3>6. a = b
      BY <3>2, <3>3, <3>5
    <3>7. QED
      BY <1>1, <2>4, <3>1, <3>6 DEF a, b
  <2>5. QED
    BY <2>3, <2>4
<1>7. ASSUME NEW i \in Real, NEW k \in Real,
             data.uid[i] = data.uid[k], data.anchor[i] = data.anchor[k]
      PROVE  first[i] = first[k]
  <2>1. i \in Nat /\ k \in Nat
    BY <1>2
  <2>2. i < k \/ k < i \/ i = k
    BY <2>1
  <2>3. QED
    BY <1>6, <1>7, <2>2
<1>8. ASSUME NEW i \in Real, NEW k \in Real, first[i] = i, first[k] = k, i < k, data.uid[i] = data.uid[k]
      PROVE  ~ Similar(data.anchor[k], data.anchor[i])
  <2>1. SUFFICES ASSUME Similar(data.anchor[k], data.anchor[i]) PROVE FALSE
    OBVIOUS
  <2>2. i \in O(k)
    BY <1>4, <1>8, <2>1
  <2>3. k \in O(k)
    BY <1>1, <1>3, <1>8, <2>2
  <2>4. k < k /\ k \in Nat
    BY <1>2, <1>4, <2>3
  <2>5. QED
    BY <2>4
<1>9. \A i, k \in Real : first[i] = first[k] => data.uid[i] = data.uid[k]
  BY <1>5
<1>10. StepGroupsSound(first, TRUE)
  BY <1>5, <1>7, <1>8, <1>9 DEF StepGroupsSound
<1>11. QED
  BY <1>10 DEF first

(* So are groups of equal observations. *)
LEMMA EqualGroupsSound ==
  ASSUME IsBatch(data)
  PROVE  LET first == [i \in Valid(data) |-> SameObservation(data, i)]
         IN  /\ StepGroupsSound(first, FALSE)
             /\ \A i \in Real : first[i] \in Real
<1> DEFINE first == [i \in Valid(data) |-> SameObservation(data, i)]
           S(i) == {k \in Real : data.uid[k] = data.uid[i] /\ data.anchor[k] = data.anchor[i]}
<1>1. Real = Valid(data) /\ Real \subseteq Nat
  BY BatchFacts, RowFacts
<1>2. \A i \in Real : first[i] = Min(S(i))
  BY <1>1 DEF SameObservation
<1> HIDE DEF first
<1>3. ASSUME NEW i \in Real PROVE first[i] \in S(i)
  <2>1. S(i) \subseteq Nat /\ S(i) # {}
    BY <1>1
  <2>2. Min(S(i)) \in S(i)
    <3> HIDE DEF S
    <3> QED BY <2>1, LeastIsMin
  <2>3. QED
    BY <1>2, <2>2
<1>4. \A i, k \in Real : data.uid[i] = data.uid[k] /\ data.anchor[i] = data.anchor[k] => S(i) = S(k)
  OBVIOUS
<1>5. \A i, k \in Real : data.uid[i] = data.uid[k] /\ data.anchor[i] = data.anchor[k] => first[i] = first[k]
  <2> HIDE DEF S
  <2> QED BY <1>2, <1>4
<1>6. \A i \in Real : /\ first[i] \in Real /\ data.uid[first[i]] = data.uid[i]
                      /\ data.anchor[first[i]] = data.anchor[i]
  BY <1>3
<1> HIDE DEF S
<1>7. \A i \in Real : first[first[i]] = first[i]
  BY <1>5, <1>6
<1>8. \A i, k \in Real : first[i] = first[k] => data.uid[i] = data.uid[k]
  BY <1>6
<1>9. StepGroupsSound(first, FALSE)
  BY <1>5, <1>6, <1>7, <1>8 DEF StepGroupsSound
<1>10. QED
  BY <1>6, <1>9 DEF first

(* GiGPO adds how much better a step did than those of its group. *)
LEMMA GigpoIs ==
  ASSUME IsBatch(data), NEW similarity \in BOOLEAN
  PROVE  LET first == StepGroups(data, similarity)
         IN  /\ OnTokens(Gigpo(data, similarity).advantages, [i \in Real |-> Stepped(i, first)])
             /\ Numbers(Gigpo(data, similarity).advantages) /\ Numbers(Gigpo(data, similarity).returns)
<1> DEFINE first == StepGroups(data, similarity)
           returns == DiscountedReturns(data)
           group(i) == {k \in Valid(data) : first[k] = first[i]}
           mean(i) == (Scale * SumFunctionOnSet(returns, group(i))) \div Cardinality(group(i))
           x == [i \in Valid(data) |->
                   RelativeScore(data, data.traj[i]) + StepWeight * (Scale * returns[i] - mean(i))]
           value == [i \in Real |-> Stepped(i, first)]
<1>1. /\ Gigpo(data, similarity).advantages = Broadcast(data, x)
      /\ Gigpo(data, similarity).returns = Broadcast(data, x)
  BY DEF Gigpo, Outcome
<1>2. \A i \in Real : returns[i] \in Int /\ returns[i] = ReturnFrom[i]
  BY ReturnsAre
<1> HIDE DEF first, returns
<1>3. ASSUME NEW i \in Real PROVE x[i] \in Int /\ x[i] = value[i]
  <2> DEFINE G == {k \in Real : first[k] = first[i]}
             n == Cardinality(G)
             sum == SumFunctionOnSet(ReturnFrom, G)
             own == ReturnFrom[i]
  <2>1. G = group(i) /\ i \in G /\ i \in Valid(data)
    BY BatchFacts
  <2>2. IsFiniteSet(G) /\ n \in 1 .. NumRows
    <3>1. G \in SUBSET Rows /\ G # {}
      BY <2>1, BatchFacts
    <3>2. IsFiniteSet(G) /\ n \in Nat /\ n <= NumRows /\ n # 0
      <4> HIDE DEF G
      <4> QED BY <3>1, RowFacts, FS_Subset, FS_CardinalityType, FS_EmptySet
    <3>3. QED
      BY <3>2, EstimatorAssumption
  <2>3. \A k \in G : ReturnFrom[k] \in Int /\ returns[k] = ReturnFrom[k]
    BY <1>2
  <2>4. sum \in Int /\ SumFunctionOnSet(returns, G) = sum /\ own \in Int /\ returns[i] = own
    <3>1. sum \in Int /\ SumFunctionOnSet(returns, G) = sum
      <4> HIDE DEF G
      <4> QED BY <2>2, <2>3, SumSame, SumFacts
    <3>2. QED
      BY <1>2, <3>1
  <2>5. mean(i) = (Scale * sum) \div n
    <3> HIDE DEF G, sum
    <3>1. SumFunctionOnSet(returns, group(i)) = sum /\ Cardinality(group(i)) = n
      BY <2>1, <2>4
    <3>2. QED
      BY <3>1
  <2>6. value[i] = Relative(i) + StepWeight * Scaled(n, own, sum)
    BY DEF Stepped
  <2>7. x[i] = RelativeScore(data, data.traj[i]) + StepWeight * (Scale * own - (Scale * sum) \div n)
    <3> HIDE DEF G, n, sum, mean, own
    <3>1. x[i] = RelativeScore(data, data.traj[i]) + StepWeight * (Scale * returns[i] - mean(i))
      BY <2>1
    <3>2. QED
      BY <2>4, <2>5, <3>1
  <2> HIDE DEF n, sum, own
  <2>8. Scale * own - (Scale * sum) \div n = Scaled(n, own, sum) /\ Scaled(n, own, sum) \in Int
    BY <2>2, <2>4, ScaledIs
  <2>9. RelativeScore(data, data.traj[i]) = Relative(i) /\ Relative(i) \in Int
    BY RelativeIs
  <2>10. StepWeight * Scaled(n, own, sum) \in Int
    BY <2>8, EstimatorAssumption
  <2> HIDE DEF x, value
  <2>11. QED
    BY <2>6, <2>7, <2>8, <2>9, <2>10
<1> HIDE DEF x, value
<1>4. OnTokens(Broadcast(data, x), value) /\ Numbers(Broadcast(data, x))
  BY <1>3, BroadcastIs
<1>5. QED
  BY <1>1, <1>4 DEF value, first
-----------------------------------------------------------------------------
(* The losses *)

OfRow(terms, i) == {w \in terms : w[1] = i}

(* A mask of the rows, and the places where it is 1. *)
IsMask(mask, terms) ==
  /\ terms \subseteq Real \X Tokens
  /\ \A i \in Rows : \A j \in Tokens : mask[i][j] \in {0, 1} /\ (<<i, j>> \in terms <=> mask[i][j] = 1)

(* A row of a table, and its values at terms. *)
IsRow(table, term, terms, i) ==
  /\ \A j \in Tokens : table[j] \in Int
  /\ \A w \in OfRow(terms, i) : term[w] = table[w[2]]

(* Along a row of a table, what the mask leaves is the sum over its terms. *)
LEMMA RowSum ==
  ASSUME IsBatch(data), NEW mask, NEW terms, IsMask(mask, terms), NEW i \in Rows,
         NEW table, NEW term, IsRow(table, term, terms, i)
  PROVE  /\ IsFiniteSet(OfRow(terms, i))
         /\ SumFunctionOnSet([j \in Tokens |-> table[j] * mask[i][j]], Tokens)
              = SumFunctionOnSet(term, OfRow(terms, i))
         /\ SumFunctionOnSet(term, OfRow(terms, i)) \in Int
         /\ SumFunctionOnSet(mask[i], Tokens) = Cardinality(OfRow(terms, i))
<1> DEFINE B == OfRow(terms, i)
           h == [w \in B |-> w[2]]
           y == [j \in Tokens |-> table[j] * mask[i][j]]
           one == [w \in B |-> 1]
<1>1. \A w \in B : w = <<i, w[2]>> /\ w[2] \in Tokens
  BY DEF OfRow, IsMask
<1>2. \A j \in Tokens : /\ mask[i][j] \in {0, 1}
                        /\ mask[i][j] = 1 => {w \in B : h[w] = j} = {<<i, j>>} /\ <<i, j>> \in B
                        /\ mask[i][j] = 0 => {w \in B : h[w] = j} = {}
  <2>1. TAKE j \in Tokens
  <2>2. mask[i][j] \in {0, 1} /\ (<<i, j>> \in terms <=> mask[i][j] = 1)
    BY DEF IsMask
  <2>3. <<i, j>> \in B <=> mask[i][j] = 1
    BY <2>2 DEF OfRow
  <2>4. \A w \in B : h[w] = w[2]
    OBVIOUS
  <2>5. \A w \in B : h[w] = j <=> w = <<i, j>>
    <3> HIDE DEF B
    <3> QED BY <1>1, <2>4
  <2> HIDE DEF B, h
  <2>6. QED
    BY <2>2, <2>3, <2>5
<1>3. IsFiniteSet(B)
  <2>1. B \in SUBSET (Real \X Tokens)
    BY DEF OfRow, IsMask
  <2>2. IsFiniteSet(Real \X Tokens)
    BY BatchFacts, RowFacts, FS_Product
  <2> HIDE DEF B
  <2>3. QED
    BY <2>1, <2>2, FS_Subset
<1>4. h \in [B -> Tokens] /\ IsFiniteSet(Tokens)
  BY <1>1, RowFacts
<1>5. \A w \in B : term[w] = table[w[2]] /\ term[w] \in Int /\ one[w] = 1
  BY <1>1 DEF IsRow
<1>6. SumFunctionOnSet(term, {}) = 0 /\ SumFunctionOnSet(one, {}) = 0
  BY SumFacts, FS_EmptySet
<1>7. ASSUME NEW j \in Tokens
      PROVE  /\ y[j] = SumFunctionOnSet(term, {w \in B : h[w] = j})
             /\ mask[i][j] = SumFunctionOnSet(one, {w \in B : h[w] = j})
  <2>1. y[j] = table[j] * mask[i][j] /\ table[j] \in Int
    BY DEF IsRow
  <2> HIDE DEF B, h, y, one
  <2>2. CASE mask[i][j] = 1
    <3>1. {w \in B : h[w] = j} = {<<i, j>>} /\ <<i, j>> \in B /\ <<i, j>>[2] = j
      BY <1>2, <2>2
    <3>2. term[<<i, j>>] = table[j] /\ one[<<i, j>>] = 1
      BY <1>5, <3>1
    <3> DEFINE v == <<i, j>>
    <3>3. term[v] \in Int /\ one[v] \in Int
      BY <2>1, <3>2
    <3> HIDE DEF v
    <3>4. SumFunctionOnSet(term, {v}) = term[v] /\ SumFunctionOnSet(one, {v}) = one[v]
      BY <3>3, SumOne
    <3>5. table[j] * 1 = table[j]
      BY <2>1
    <3>6. QED
      BY <2>1, <2>2, <3>1, <3>2, <3>4, <3>5 DEF v
  <2>3. CASE mask[i][j] = 0
    <3>1. {w \in B : h[w] = j} = {}
      BY <1>2, <2>3
    <3>2. table[j] * 0 = 0
      BY <2>1
    <3>3. QED
      BY <1>6, <2>1, <2>3, <3>1, <3>2
  <2>4. QED
    BY <1>2, <2>2, <2>3
<1> DEFINE m == mask[i]
<1>8. \A w \in B : one[w] \in Int
  BY <1>5
<1>9. \A j \in Tokens : m[j] = SumFunctionOnSet(one, {w \in B : h[w] = j})
  BY <1>7
<1>10. /\ SumFunctionOnSet([j \in Tokens |-> table[j] * mask[i][j]], Tokens) = SumFunctionOnSet(y, Tokens)
       /\ OfRow(terms, i) = B
  OBVIOUS
<1> HIDE DEF B, h, y, one, m
<1>11. SumFunctionOnSet(term, B) = SumFunctionOnSet(y, Tokens)
  <2>1. InParts(B, Tokens, h, term, y)
    BY <1>3, <1>4, <1>5, <1>7 DEF InParts
  <2>2. QED
    BY <2>1, SumParts
<1>12. SumFunctionOnSet(one, B) = SumFunctionOnSet(m, Tokens)
  <2>1. InParts(B, Tokens, h, one, m)
    BY <1>3, <1>4, <1>8, <1>9 DEF InParts
  <2>2. QED
    BY <2>1, SumParts
<1>13. SumFunctionOnSet(one, B) = Cardinality(B)
  BY <1>3, <1>5, SumCounts
<1>14. SumFunctionOnSet(term, B) \in Int
  BY <1>3, <1>5, SumFacts
<1>15. QED
  BY <1>3, <1>10, <1>11, <1>12, <1>13, <1>14 DEF m

(* And what it counts is the number of its terms. *)
LEMMA RowCount ==
  ASSUME IsBatch(data), NEW mask, NEW terms, IsMask(mask, terms), NEW i \in Rows
  PROVE  /\ IsFiniteSet(OfRow(terms, i))
         /\ SumFunctionOnSet(mask[i], Tokens) = Cardinality(OfRow(terms, i))
<1> DEFINE table == [j \in Tokens |-> 1]
           term == [w \in OfRow(terms, i) |-> 1]
<1>1. \A w \in OfRow(terms, i) : w[2] \in Tokens
  BY DEF OfRow, IsMask
<1>2. IsRow(table, term, terms, i)
  BY <1>1 DEF IsRow
<1> HIDE DEF table, term
<1>3. QED
  BY <1>2, RowSum

(* A sum over terms, row by row. *)
RowTotals(terms, rows, term, y) ==
  /\ terms \subseteq Real \X Tokens /\ rows \in SUBSET Rows
  /\ \A w \in terms : w[1] \in rows => term[w] \in Int
  /\ \A i \in rows : y[i] = SumFunctionOnSet(term, OfRow(terms, i))

(* The sums of the rows add up to the sum over the terms. *)
LEMMA RowByRow ==
  ASSUME IsBatch(data), NEW terms, NEW rows, NEW term, NEW y, RowTotals(terms, rows, term, y)
  PROVE  /\ IsFiniteSet({w \in terms : w[1] \in rows})
         /\ SumFunctionOnSet(term, {w \in terms : w[1] \in rows}) = SumFunctionOnSet(y, rows)
         /\ SumFunctionOnSet(term, {w \in terms : w[1] \in rows}) \in Int
<1> DEFINE M == {w \in terms : w[1] \in rows}
           h == [w \in M |-> w[1]]
<1>1. IsFiniteSet(M)
  <2>1. M \in SUBSET (Real \X Tokens)
    BY DEF RowTotals
  <2>2. IsFiniteSet(Real \X Tokens)
    BY BatchFacts, RowFacts, FS_Product
  <2> HIDE DEF M
  <2>3. QED
    BY <2>1, <2>2, FS_Subset
<1>2. IsFiniteSet(rows)
  BY RowFacts, FS_Subset DEF RowTotals
<1>3. h \in [M -> rows] /\ \A w \in M : term[w] \in Int
  BY DEF RowTotals
<1>4. \A i \in rows : {w \in M : h[w] = i} = OfRow(terms, i)
  BY DEF OfRow
<1> HIDE DEF M, h
<1>5. \A i \in rows : y[i] = SumFunctionOnSet(term, {w \in M : h[w] = i})
  BY <1>4 DEF RowTotals
<1>6. SumFunctionOnSet(term, M) = SumFunctionOnSet(y, rows)
  <2>1. InParts(M, rows, h, term, y)
    BY <1>1, <1>2, <1>3, <1>5 DEF InParts
  <2>2. QED
    BY <2>1, SumParts
<1>7. SumFunctionOnSet(term, M) \in Int
  BY <1>1, <1>3, SumFacts
<1>8. QED
  BY <1>1, <1>6, <1>7 DEF M

(* The number of all terms. *)
LEMMA TermsCounted ==
  ASSUME IsBatch(data), NEW mask, NEW terms, IsMask(mask, terms)
  PROVE  /\ SumFunctionOnSet([i \in Valid(data) |-> SumFunctionOnSet(mask[i], Tokens)], Valid(data))
              = Cardinality(terms)
         /\ IsFiniteSet(terms)
<1> DEFINE y == [i \in Valid(data) |-> SumFunctionOnSet(mask[i], Tokens)]
           one == [w \in terms |-> 1]
<1>1. Valid(data) = Real /\ Real \in SUBSET Rows /\ terms \subseteq Real \X Tokens
  BY BatchFacts DEF IsMask
<1>2. {w \in terms : w[1] \in Real} = terms
  BY <1>1
<1>3. ASSUME NEW i \in Real PROVE y[i] = SumFunctionOnSet(one, OfRow(terms, i))
  <2>1. \A w \in OfRow(terms, i) : w \in terms /\ one[w] = 1 /\ w[2] \in Tokens
    BY <1>1 DEF OfRow
  <2>3. y[i] = SumFunctionOnSet(mask[i], Tokens) /\ i \in Rows
    BY <1>1
  <2> HIDE DEF y, one
  <2>4. IsFiniteSet(OfRow(terms, i)) /\ SumFunctionOnSet(mask[i], Tokens) = Cardinality(OfRow(terms, i))
    BY <2>3, RowCount
  <2>5. SumFunctionOnSet(one, OfRow(terms, i)) = Cardinality(OfRow(terms, i))
    BY <2>1, <2>4, SumCounts
  <2>6. QED
    BY <2>3, <2>4, <2>5
<1>4. \A w \in terms : one[w] = 1 /\ one[w] \in Int
  OBVIOUS
<1> HIDE DEF y, one
<1>5. /\ IsFiniteSet({w \in terms : w[1] \in Real})
      /\ SumFunctionOnSet(one, {w \in terms : w[1] \in Real}) = SumFunctionOnSet(y, Real)
  <2> DEFINE R == Real
             x == one
  <2>1. RowTotals(terms, R, x, y)
    BY <1>1, <1>3, <1>4 DEF RowTotals
  <2> HIDE DEF R, x
  <2>4. /\ IsFiniteSet({w \in terms : w[1] \in R})
        /\ SumFunctionOnSet(x, {w \in terms : w[1] \in R}) = SumFunctionOnSet(y, R)
    BY <2>1, RowByRow
  <2>5. QED
    BY <2>4 DEF R, x
<1>6. SumFunctionOnSet(one, terms) = Cardinality(terms)
  BY <1>2, <1>4, <1>5, SumCounts
<1>7. QED
  BY <1>1, <1>2, <1>5, <1>6 DEF y

(* The losses of some rows, and their values at terms. *)
IsLossTable(table, term, terms, rows) ==
  /\ rows \in SUBSET Rows
  /\ \A i \in rows : \A j \in Tokens : table[i][j] \in Int
  /\ \A w \in terms : w[1] \in rows => term[w] = table[w[1]][w[2]]

TermsIn(terms, rows) == {w \in terms : w[1] \in rows}

MeanOf(term, terms, i) ==
  (TokenScale * SumFunctionOnSet(term, OfRow(terms, i))) \div Cardinality(OfRow(terms, i))

ShareOf(terms, term, rows, mode) ==
  IF mode = "seq-mean-token-mean"
  THEN SumFunctionOnSet([i \in rows |-> IF OfRow(terms, i) = {} THEN 0 ELSE MeanOf(term, terms, i)], rows)
  ELSE TokenScale * SumFunctionOnSet(term, TermsIn(terms, rows))

WholeOf(terms, mode) == IF mode = "token-mean" THEN Cardinality(terms) ELSE Cardinality(Real)

FitsIn(l, terms, term, rows, mode) ==
  l.num * WholeOf(terms, mode) = Ranks * ShareOf(terms, term, rows, mode) * l.den

(* What agg_loss adds up for each row. *)
RowLoss(table, mask, i) == SumFunctionOnSet([j \in Tokens |-> table[i][j] * mask[i][j]], Tokens)
RowTokens(mask, i) == SumFunctionOnSet(mask[i], Tokens)
RowPart(table, mask, mode, i) ==
  IF mode = "seq-mean-token-mean" THEN (TokenScale * RowLoss(table, mask, i)) \div RowTokens(mask, i)
  ELSE TokenScale * RowLoss(table, mask, i)
Answered(mask, rows) == {i \in rows : RowTokens(mask, i) > 0}

(* What is added up for a row is the sum of its terms, and what counts is *)
(* their number.                                                          *)
LEMMA RowLossIs ==
  ASSUME IsBatch(data), NEW mask, NEW terms, IsMask(mask, terms),
         NEW rows, NEW table, NEW term, IsLossTable(table, term, terms, rows), NEW i \in rows
  PROVE  /\ RowLoss(table, mask, i) = SumFunctionOnSet(term, OfRow(terms, i))
         /\ SumFunctionOnSet(term, OfRow(terms, i)) \in Int
         /\ RowTokens(mask, i) = Cardinality(OfRow(terms, i))
         /\ Cardinality(OfRow(terms, i)) \in Nat
         /\ Cardinality(OfRow(terms, i)) = 0 <=> OfRow(terms, i) = {}
<1> DEFINE r == table[i]
<1>1. i \in Rows
  BY DEF IsLossTable
<1>2. IsRow(r, term, terms, i)
  <2>1. \A w \in OfRow(terms, i) : w \in terms /\ w[1] = i
    BY DEF OfRow
  <2>2. QED
    BY <2>1 DEF IsLossTable, IsRow
<1>3. RowLoss(table, mask, i) = SumFunctionOnSet([j \in Tokens |-> r[j] * mask[i][j]], Tokens)
  BY DEF RowLoss
<1> HIDE DEF r
<1>4. /\ IsFiniteSet(OfRow(terms, i))
      /\ SumFunctionOnSet([j \in Tokens |-> r[j] * mask[i][j]], Tokens) = SumFunctionOnSet(term, OfRow(terms, i))
      /\ SumFunctionOnSet(term, OfRow(terms, i)) \in Int
      /\ SumFunctionOnSet(mask[i], Tokens) = Cardinality(OfRow(terms, i))
  BY <1>1, <1>2, RowSum
<1>5. Cardinality(OfRow(terms, i)) \in Nat /\ (Cardinality(OfRow(terms, i)) = 0 <=> OfRow(terms, i) = {})
  BY <1>4, FS_CardinalityType, FS_EmptySet
<1>6. QED
  BY <1>3, <1>4, <1>5 DEF RowTokens

(* The means of the rows with a token. *)
LEMMA MeansAdd ==
  ASSUME IsBatch(data), NEW mask, NEW terms, IsMask(mask, terms),
         NEW rows, NEW table, NEW term, IsLossTable(table, term, terms, rows),
         NEW part, \A i \in Answered(mask, rows) : part[i] = RowPart(table, mask, "seq-mean-token-mean", i)
  PROVE  /\ SumFunctionOnSet(part, Answered(mask, rows)) = ShareOf(terms, term, rows, "seq-mean-token-mean")
         /\ SumFunctionOnSet(part, Answered(mask, rows)) \in Int
<1> DEFINE A == Answered(mask, rows)
           z == [i \in rows |-> IF OfRow(terms, i) = {} THEN 0 ELSE MeanOf(term, terms, i)]
<1>1. IsFiniteSet(rows) /\ A \in SUBSET rows /\ IsFiniteSet(A)
  BY RowFacts, FS_Subset DEF IsLossTable, Answered
<1>2. ASSUME NEW i \in rows
      PROVE  /\ z[i] \in Int
             /\ i \in A => z[i] = RowPart(table, mask, "seq-mean-token-mean", i)
             /\ i \notin A => z[i] = 0
  <2> DEFINE n == Cardinality(OfRow(terms, i))
             s == SumFunctionOnSet(term, OfRow(terms, i))
  <2>1. /\ RowLoss(table, mask, i) = s /\ s \in Int /\ RowTokens(mask, i) = n /\ n \in Nat
        /\ n = 0 <=> OfRow(terms, i) = {}
    BY RowLossIs
  <2>2. i \in A <=> n > 0
    BY <2>1 DEF Answered
  <2>3. z[i] = IF OfRow(terms, i) = {} THEN 0 ELSE (TokenScale * s) \div n
    BY DEF MeanOf
  <2>4. RowPart(table, mask, "seq-mean-token-mean", i) = (TokenScale * s) \div n
    BY <2>1 DEF RowPart
  <2>5. n # 0 => (TokenScale * s) \div n \in Int
    <3> DEFINE p == TokenScale * s
    <3>1. p \in Int
      BY <2>1, LossAssumption
    <3> HIDE DEF p, n
    <3>2. QED
      BY <2>1, <3>1 DEF p
  <2> HIDE DEF n, s, A, z
  <2>6. QED
    BY <2>1, <2>2, <2>3, <2>4, <2>5
<1>3. /\ SumFunctionOnSet(z, rows) = ShareOf(terms, term, rows, "seq-mean-token-mean")
      /\ \A i \in A : part[i] = RowPart(table, mask, "seq-mean-token-mean", i)
  BY DEF ShareOf
<1> HIDE DEF A, z
<1>4. \A i \in A : z[i] \in Int /\ part[i] = z[i]
  BY <1>1, <1>2, <1>3
<1>5. SumFunctionOnSet(part, A) = SumFunctionOnSet(z, A) /\ SumFunctionOnSet(z, A) \in Int
  BY <1>1, <1>4, SumSame, SumFacts
<1>6. (\A i \in rows : z[i] \in Int) /\ \A i \in rows \ A : z[i] = 0
  BY <1>2
<1>7. SumFunctionOnSet(z, rows) = SumFunctionOnSet(z, A)
  BY <1>1, <1>6, SumSupport
<1>8. QED
  BY <1>3, <1>5, <1>7 DEF A

(* The sums of the rows with a token. *)
LEMMA TotalsAdd ==
  ASSUME IsBatch(data), NEW mask, NEW terms, IsMask(mask, terms),
         NEW rows, NEW table, NEW term, IsLossTable(table, term, terms, rows),
         NEW mode \in Modes, mode # "seq-mean-token-mean",
         NEW part, \A i \in Answered(mask, rows) : part[i] = RowPart(table, mask, mode, i)
  PROVE  /\ SumFunctionOnSet(part, Answered(mask, rows)) = ShareOf(terms, term, rows, mode)
         /\ SumFunctionOnSet(part, Answered(mask, rows)) \in Int
<1> DEFINE A == Answered(mask, rows)
           M == TermsIn(terms, rows)
           y == [i \in rows |-> SumFunctionOnSet(term, OfRow(terms, i))]
           c == TokenScale
<1>1. IsFiniteSet(rows) /\ A \in SUBSET rows /\ IsFiniteSet(A) /\ rows \in SUBSET Rows
  BY RowFacts, FS_Subset DEF IsLossTable, Answered
<1>2. ASSUME NEW i \in rows
      PROVE  /\ y[i] \in Int /\ y[i] = SumFunctionOnSet(term, OfRow(terms, i))
             /\ RowPart(table, mask, mode, i) = c * y[i]
             /\ i \notin A => y[i] = 0
  <2> DEFINE n == Cardinality(OfRow(terms, i))
             s == SumFunctionOnSet(term, OfRow(terms, i))
  <2>1. /\ RowLoss(table, mask, i) = s /\ s \in Int /\ RowTokens(mask, i) = n /\ n \in Nat
        /\ n = 0 <=> OfRow(terms, i) = {}
    BY RowLossIs
  <2>2. y[i] = s /\ RowPart(table, mask, mode, i) = c * s
    BY <2>1 DEF RowPart
  <2>3. i \notin A => OfRow(terms, i) = {}
    BY <2>1 DEF Answered
  <2>4. SumFunctionOnSet(term, {}) = 0
    BY SumFacts, FS_EmptySet
  <2>5. i \notin A => s = 0
    BY <2>3, <2>4
  <2> HIDE DEF s, n, A, y, c
  <2>6. QED
    BY <2>1, <2>2, <2>5 DEF s
<1>3. RowTotals(terms, rows, term, y)
  <2>1. terms \subseteq Real \X Tokens
    BY DEF IsMask
  <2>2. \A w \in terms : w[1] \in rows => term[w] \in Int
    BY <2>1 DEF IsLossTable
  <2> HIDE DEF y
  <2>3. QED
    BY <1>1, <1>2, <2>1, <2>2 DEF RowTotals
<1>4. /\ ShareOf(terms, term, rows, mode) = c * SumFunctionOnSet(term, M)
      /\ c \in Int
      /\ \A i \in A : part[i] = RowPart(table, mask, mode, i)
  BY LossAssumption DEF ShareOf
<1>5. SumFunctionOnSet(term, M) = SumFunctionOnSet(y, rows)
  BY <1>3, RowByRow DEF TermsIn
<1> HIDE DEF A, M, y, c
<1>6. (\A i \in rows : y[i] \in Int) /\ \A i \in rows \ A : y[i] = 0
  BY <1>2
<1>7. SumFunctionOnSet(y, rows) = SumFunctionOnSet(y, A)
  BY <1>1, <1>6, SumSupport
<1>8. \A i \in A : y[i] \in Int /\ part[i] = c * y[i]
  BY <1>1, <1>2, <1>4
<1>9. SumFunctionOnSet(part, A) = c * SumFunctionOnSet(y, A) /\ SumFunctionOnSet(y, A) \in Int
  BY <1>1, <1>4, <1>8, SumScaled, SumFacts
<1>10. QED
  BY <1>4, <1>5, <1>7, <1>9 DEF A

(* A micro-batch has its share in the loss of the whole. *)
LEMMA AggIs ==
  ASSUME IsBatch(data), NEW mask, NEW terms, IsMask(mask, terms),
         NEW rows, NEW table, NEW term, IsLossTable(table, term, terms, rows), NEW mode \in Modes
  PROVE  FitsIn(AggLoss(table, mask, rows, mode, GlobalInfo(data, mask, Ranks)), terms, term, rows, mode)
<1> DEFINE A == Answered(mask, rows)
           part == [i \in A |-> RowPart(table, mask, mode, i)]
           info == GlobalInfo(data, mask, Ranks)
           den == IF mode = "token-mean" THEN info.tokens ELSE info.size
           sum == SumFunctionOnSet(part, A)
           l == AggLoss(table, mask, rows, mode, info)
           share == ShareOf(terms, term, rows, mode)
           whole == WholeOf(terms, mode)
<1>1. l = IF den = 0 THEN [num |-> 0, den |-> 1] ELSE [num |-> info.dpSize * sum, den |-> den]
  BY DEF AggLoss, Answered, RowPart, RowLoss, RowTokens
<1>2. info.dpSize = Ranks /\ info.tokens = Cardinality(terms) /\ info.size = Cardinality(Real)
  <2>1. /\ info.dpSize = Ranks
        /\ info.tokens = SumFunctionOnSet([i \in Valid(data) |-> SumFunctionOnSet(mask[i], Tokens)], Valid(data))
        /\ info.size = Cardinality(Valid(data))
    BY DEF GlobalInfo
  <2>2. QED
    BY <2>1, TermsCounted, BatchFacts
<1>3. den = whole
  BY <1>2 DEF WholeOf
<1>4. sum = share /\ sum \in Int
  <2>1. \A i \in Answered(mask, rows) : part[i] = RowPart(table, mask, mode, i)
    OBVIOUS
  <2> HIDE DEF part
  <2>2. CASE mode = "seq-mean-token-mean"
    BY <2>1, <2>2, MeansAdd
  <2>3. CASE mode # "seq-mean-token-mean"
    BY <2>1, <2>3, TotalsAdd
  <2>4. QED
    BY <2>2, <2>3
<1>5. whole \in Nat /\ (whole = 0 => share = 0)
  <2>1. IsFiniteSet(terms) /\ Cardinality(terms) \in Nat /\ (Cardinality(terms) = 0 => terms = {})
    BY TermsCounted, FS_CardinalityType, FS_EmptySet
  <2>2. Cardinality(Real) \in Nat /\ Cardinality(Real) # 0
    BY BatchFacts, FS_CardinalityType, FS_EmptySet
  <2>3. terms = {} => SumFunctionOnSet(term, TermsIn(terms, rows)) = 0
    <3>1. terms = {} => TermsIn(terms, rows) = {}
      BY DEF TermsIn
    <3>2. SumFunctionOnSet(term, {}) = 0
      BY SumFacts, FS_EmptySet
    <3>3. QED
      BY <3>1, <3>2
  <2>4. mode = "token-mean" /\ terms = {} => share = 0
    BY <2>3, LossAssumption DEF ShareOf
  <2>5. QED
    BY <2>1, <2>2, <2>4 DEF WholeOf
<1>6. Ranks \in Nat
  BY MicroBatchesAssumption
<1> HIDE DEF A, part, info, den, sum, l, share, whole
<1>7. l.num * whole = Ranks * share * l.den
  <2>1. CASE whole = 0
    <3>1. l.num = 0 /\ l.den = 1 /\ share = 0
      BY <1>1, <1>3, <1>5, <2>1
    <3>2. QED
      BY <1>6, <2>1, <3>1
  <2>2. CASE whole # 0
    <3>1. l.num = Ranks * share /\ l.den = whole
      BY <1>1, <1>2, <1>3, <1>4, <2>2
    <3>2. QED
      BY <3>1
  <2>3. QED
    BY <2>1, <2>2
<1>8. QED
  BY <1>7 DEF l, info, share, whole, FitsIn

(* The outputs of a micro-batch *)

Width(i) == PromptLength(i) + data.length[i]

(* A response token meets the output of the position before it. *)
LEMMA ResponseOutputIs ==
  ASSUME IsBatch(data), NEW rows \in Seq(Rows), NEW n \in DOMAIN rows, NEW j \in Tokens
  PROVE  LET i == rows[n]
             inside == j <= data.length[i]
         IN  /\ ResponseOutput(data, rows, n, j) = IF inside THEN {PlaceOf(i, j)} ELSE {}
             /\ inside => PlaceOf(i, j) \in ToSet(Unpadded(data, rows))
<1> DEFINE N == Len(rows)
           P == Rows \X Nat
           pieces == [m \in 1 .. N |-> [p \in 1 .. Width(rows[m]) |-> <<rows[m], p>>]]
           q == Unpadded(data, rows)
           i == rows[n]
           W == [m \in 1 .. n |-> Width(rows[m])]
           ends == SumFunctionOnSet(W, 1 .. n)
<1>1. N \in Nat /\ DOMAIN rows = 1 .. N /\ n \in 1 .. N /\ i \in Rows /\ j \in Nat \ {0}
  BY EstimatorAssumption DEF Tokens
<1>2. \A m \in 1 .. N : rows[m] \in Rows /\ Width(rows[m]) \in Nat
  <2>1. \A m \in 1 .. N : rows[m] \in Rows
    BY <1>1
  <2>2. \A k \in Rows : Width(k) \in Nat
    BY BatchFacts, LossAssumption DEF Width
  <2>3. QED
    BY <2>1, <2>2
<1>3. q = FlattenSeq(pieces)
  BY <1>1 DEF Unpadded, Width
<1>4. pieces \in [1 .. N -> Seq(P)]
  <2>1. ASSUME NEW m \in 1 .. N PROVE [p \in 1 .. Width(rows[m]) |-> <<rows[m], p>>] \in Seq(P)
    <3> DEFINE w == Width(rows[m])
               r == rows[m]
    <3>1. w \in Nat /\ \A p \in 1 .. w : <<r, p>> \in P
      BY <1>2
    <3> HIDE DEF w, r, P
    <3>2. [p \in 1 .. w |-> <<r, p>>] \in Seq(P)
      BY <3>1
    <3>3. QED
      BY <3>2 DEF w, r
  <2> HIDE DEF P
  <2>2. QED
    BY <2>1
<1>5. \A m \in 1 .. N : /\ Len(pieces[m]) = Width(rows[m])
                        /\ \A k \in 1 .. Width(rows[m]) : pieces[m][k] = <<rows[m], k>>
  BY <1>2
<1> HIDE DEF pieces, N, P
<1>6. q \in Seq(P) /\ \E off : Joined(q, 0, N, pieces, off)
  BY <1>1, <1>3, <1>4, FlattenJoins
<1>7. PICK off : Joined(q, 0, N, pieces, off)
  BY <1>6
<1> HIDE DEF q
<1>8. Offsets(W, off, n)
  <2>1. /\ off \in [0 .. N -> Nat] /\ off[0] = 0
        /\ \A t \in 1 .. N : off[t] = off[t - 1] + Len(pieces[t])
    <3>1. 0 + 1 .. N = 1 .. N
      OBVIOUS
    <3>2. QED
      BY <1>7, <3>1 DEF Joined
  <2>2. \A t \in 1 .. n : t \in 1 .. N /\ W[t] = Width(rows[t])
    BY <1>1
  <2>3. \A t \in 1 .. n : W[t] \in Nat /\ off[t] = off[t - 1] + W[t]
    BY <1>2, <1>5, <2>1, <2>2
  <2>4. \A t \in 0 .. n : off[t] \in Nat
    BY <1>1, <2>1
  <2> HIDE DEF W
  <2>5. QED
    BY <1>1, <2>1, <2>3, <2>4 DEF Offsets
<1>9. ends = off[n]
  <2> HIDE DEF W
  <2> QED BY <1>1, <1>8, PrefixSums
<1>10. PieceAt(n, q, pieces, off)
  BY <1>1, <1>7, JoinedPiece
<1> DEFINE k == PromptLength(i) + j - 1
<1>11. /\ ends = off[n - 1] + Width(i) /\ off[n - 1] \in Nat /\ Width(i) \in Nat
       /\ \A p \in 1 .. Width(i) : off[n - 1] + p \in 1 .. Len(q) /\ q[off[n - 1] + p] = <<i, p>>
  BY <1>1, <1>2, <1>5, <1>9, <1>10 DEF PieceAt
<1>12. PromptLength(i) \in Nat \ {0} /\ data.length[i] \in Nat /\ Width(i) = PromptLength(i) + data.length[i]
  BY <1>1, BatchFacts, LossAssumption DEF Width
<1> HIDE DEF ends, i
<1>13. j <= data.length[i] =>
          /\ k \in 1 .. Width(i) /\ ends - data.length[i] - 1 + j = off[n - 1] + k
          /\ PlaceOf(i, j) = <<i, k>>
  <2> DEFINE o == off[n - 1]
             l == PromptLength(i)
             g == data.length[i]
  <2>1. /\ o \in Nat /\ l \in Nat \ {0} /\ g \in Nat /\ j \in Nat \ {0}
        /\ Width(i) = l + g /\ ends = o + (l + g)
    BY <1>1, <1>11, <1>12
  <2>2. PlaceOf(i, j) = <<i, k>>
    BY DEF PlaceOf
  <2> HIDE DEF o, l, g
  <2>3. j <= g => l + j - 1 \in 1 .. l + g /\ ends - g - 1 + j = o + (l + j - 1)
    BY <2>1
  <2>4. QED
    BY <2>1, <2>2, <2>3 DEF o, l, g
<1>14. j <= data.length[i] => /\ q[ends - data.length[i] - 1 + j] = PlaceOf(i, j)
                              /\ \E p \in 1 .. Len(q) : q[p] = PlaceOf(i, j)
  BY <1>11, <1>13
<1>15. j <= data.length[i] => PlaceOf(i, j) \in ToSet(q)
  BY <1>6, <1>14 DEF ToSet
<1>16. ResponseOutput(data, rows, n, j)
         = IF j <= data.length[i] THEN {q[ends - data.length[i] - 1 + j]} ELSE {}
  BY DEF ResponseOutput, q, ends, i, Width
<1>17. QED
  BY <1>14, <1>15, <1>16 DEF i, q

(* The outputs in the table of the responses. *)
IsOutput(output, rows) ==
  \A i \in ToSet(rows) : \A j \in Tokens : j <= data.length[i] => output[PlaceOf(i, j)] \in Int

(* A response token has the output of its place, a padded one none. *)
LEMMA ResponseTableIs ==
  ASSUME IsBatch(data), NEW rows \in Seq(Rows), NEW output, IsOutput(output, rows),
         NEW i \in ToSet(rows), NEW j \in Tokens
  PROVE  /\ ResponseTable(data, rows, output)[i][j] \in Int
         /\ j <= data.length[i] => ResponseTable(data, rows, output)[i][j] = output[PlaceOf(i, j)]
<1> DEFINE n == CHOOSE m \in DOMAIN rows : rows[m] = i
           places == ResponseOutput(data, rows, n, j)
           a == PlaceOf(i, j)
<1>1. n \in DOMAIN rows /\ rows[n] = i
  BY DEF ToSet
<1>2. ResponseTable(data, rows, output)[i][j] = SumFunctionOnSet(output, places)
  BY DEF ResponseTable
<1> HIDE DEF n
<1>3. places = IF j <= data.length[i] THEN {a} ELSE {}
  BY <1>1, ResponseOutputIs
<1>4. j <= data.length[i] => output[a] \in Int
  BY DEF IsOutput
<1> HIDE DEF a, places
<1>5. CASE j <= data.length[i]
  BY <1>2, <1>3, <1>4, <1>5, SumOne DEF a
<1>6. CASE ~ (j <= data.length[i])
  <2>1. SumFunctionOnSet(output, {}) = 0
    BY SumFacts, FS_EmptySet
  <2>2. QED
    BY <1>2, <1>3, <1>6, <2>1
<1>7. QED
  BY <1>5, <1>6

-----------------------------------------------------------------------------
(* The losses of tokens *)

LEMMA TimesUp ==
  ASSUME NEW c \in Nat, NEW x \in Int, NEW y \in Int, x <= y
  PROVE  c * x <= c * y /\ c * x \in Int /\ c * y \in Int
<1>1. PICK d \in Nat : y = x + d
  <2>1. y - x \in Nat /\ y = x + (y - x)
    OBVIOUS
  <2>2. QED
    BY <2>1
<1>2. c * y = c * x + c * d /\ c * d \in Nat /\ c * x \in Int /\ c * y \in Int
  BY <1>1
<1>3. QED
  BY <1>2

(* What clamping does. *)
LEMMA ClampIs ==
  ASSUME NEW x \in Int, NEW low \in Int, NEW high \in Int, low <= high
  PROVE  /\ Clamp(x, low, high) \in Int
         /\ Clamp(x, low, high) = IF x < low THEN low ELSE IF x <= high THEN x ELSE high
<1> DEFINE m == IF x <= high THEN x ELSE high
<1>1. Min({x, high}) = m /\ m \in Int
  BY SmallerOf
<1> HIDE DEF m
<1>2. Max({low, m}) = IF low <= m THEN m ELSE low
  BY <1>1, GreaterOf
<1>3. QED
  BY <1>1, <1>2 DEF Clamp, m

(* The loss of a token is its clipped objective. *)
LEMMA PolicyTokenIs ==
  ASSUME NEW a \in Int, NEW r \in Int
  PROVE  PolicyTokenLoss(a, r) = -Objective(a, r) /\ PolicyTokenLoss(a, r) \in Int
<1> DEFINE low == 10 - ClipLow
           high == 10 + ClipHigh
           c == Clamp(r, low, high)
           worst == Max({-a * r, -a * c})
<1>1. low \in Int /\ high \in Int /\ low <= high /\ DualClip \in Int
  BY LossAssumption
<1>2. PolicyTokenLoss(a, r) = IF a < 0 THEN Min({-a * DualClip, worst}) ELSE worst
  BY DEF PolicyTokenLoss
<1>3. Objective(a, r) = IF a >= 0 THEN a * Min({r, high}) ELSE a * Min({DualClip, Max({r, low})})
  BY DEF Objective
<1>4. -a * r \in Int /\ -a * c \in Int /\ c \in Int
  <2> HIDE DEF c
  <2>1. c \in Int
    BY <1>1, ClampIs DEF c
  <2>2. QED
    BY <2>1
<1>5. c = IF r < low THEN low ELSE IF r <= high THEN r ELSE high
  BY <1>1, ClampIs
<1> HIDE DEF low, high, c
<1>6. worst = IF -a * r <= -a * c THEN -a * c ELSE -a * r
  BY <1>4, GreaterOf
<1>7. CASE a >= 0
  <2> DEFINE m == IF r <= high THEN r ELSE high
  <2>1. Min({r, high}) = m /\ m \in Int
    BY <1>1, SmallerOf
  <2>2. a \in Nat
    BY <1>7
  <2> HIDE DEF m
  <2>3. worst = -(a * m) /\ a * m \in Int
    <3>1. CASE r < low
      <4>1. c = low /\ m = r /\ r <= low
        BY <1>1, <1>5, <3>1 DEF m
      <4>2. a * r <= a * low
        BY <1>1, <2>2, <4>1, TimesUp
      <4>3. QED
        BY <1>1, <1>6, <2>1, <4>1, <4>2
    <3>2. CASE r >= low /\ r <= high
      <4>1. c = r /\ m = r
        BY <1>1, <1>5, <3>2 DEF m
      <4>2. QED
        BY <1>6, <4>1
    <3>3. CASE r > high
      <4>1. c = high /\ m = high /\ high <= r
        BY <1>1, <1>5, <3>3 DEF m
      <4>2. a * high <= a * r
        BY <1>1, <2>2, <4>1, TimesUp
      <4>3. QED
        BY <1>1, <1>6, <2>1, <4>1, <4>2
    <3>4. QED
      BY <1>1, <3>1, <3>2, <3>3
  <2>4. QED
    BY <1>2, <1>3, <1>7, <2>1, <2>3
<1>8. CASE a < 0
  <2> DEFINE m == IF r <= low THEN low ELSE r
             b == -a
             d == DualClip
             s == IF d <= m THEN d ELSE m
  <2>1. Max({r, low}) = m /\ m \in Int
    BY <1>1, GreaterOf
  <2>2. b \in Nat /\ a = -b /\ -a * r = b * r /\ -a * c = b * c /\ -a * DualClip = b * d
    BY <1>1, <1>4, <1>8
  <2> HIDE DEF m, b, d
  <2>3. worst = b * m
    <3>1. CASE r < low
      <4>1. c = low /\ m = low /\ r <= low
        BY <1>1, <1>5, <3>1 DEF m
      <4>2. b * r <= b * low /\ b * r \in Int /\ b * low \in Int
        BY <1>1, <2>2, <4>1, TimesUp
      <4>3. QED
        BY <1>6, <2>2, <4>1, <4>2
    <3>2. CASE r >= low /\ r <= high
      <4>1. c = r /\ m = r
        BY <1>1, <1>5, <3>2 DEF m
      <4>2. QED
        BY <1>6, <2>2, <4>1
    <3>3. CASE r > high
      <4>1. c = high /\ m = r /\ high <= r
        BY <1>1, <1>5, <3>3 DEF m
      <4>2. b * high <= b * r /\ b * r \in Int /\ b * high \in Int
        BY <1>1, <2>2, <4>1, TimesUp
      <4>3. QED
        BY <1>6, <2>2, <4>1, <4>2
    <3>4. QED
      BY <1>1, <3>1, <3>2, <3>3
  <2>4. Min({d, m}) = s /\ s \in Int /\ d \in Int
    BY <1>1, <2>1, SmallerOf DEF d
  <2>5. b * d \in Int /\ b * m \in Int
    BY <2>1, <2>2, <2>4
  <2>6. Min({b * d, b * m}) = IF b * d <= b * m THEN b * d ELSE b * m
    BY <2>5, SmallerOf
  <2>7. Min({b * d, b * m}) = b * s
    <3>1. CASE d <= m
      <4>1. b * d <= b * m /\ s = d
        BY <2>1, <2>2, <2>4, <3>1, TimesUp
      <4>2. QED
        BY <2>6, <4>1
    <3>2. CASE ~ (d <= m)
      <4>1. b * m <= b * d /\ s = m
        BY <2>1, <2>2, <2>4, <3>2, TimesUp
      <4>2. QED
        BY <2>5, <2>6, <4>1
    <3>3. QED
      BY <3>1, <3>2
  <2> HIDE DEF s
  <2>8. PolicyTokenLoss(a, r) = b * s
    BY <1>2, <1>8, <2>2, <2>3, <2>7
  <2>9. Objective(a, r) = a * s
    BY <1>3, <1>8, <2>1, <2>4 DEF d
  <2>10. b * s = -(a * s) /\ b * s \in Int
    BY <2>2, <2>4
  <2>11. QED
    BY <2>8, <2>9, <2>10
<1>9. QED
  BY <1>7, <1>8

(* The loss of the critic at a token is a number. *)
LEMMA ValueTokenIs ==
  ASSUME NEW p \in Int, NEW r \in Int, NEW v \in Int
  PROVE  ValueTokenLoss(p, r, v) \in Int
<1> DEFINE low == v - ClipValue
           high == v + ClipValue
           m == IF p <= high THEN p ELSE high
           c == IF low <= m THEN m ELSE low
<1>1. low \in Int /\ high \in Int
  BY LossAssumption
<1> HIDE DEF low, high
<1>2. Min({p, high}) = m /\ m \in Int
  BY <1>1, SmallerOf
<1> HIDE DEF m
<1>3. Max({low, m}) = c /\ c \in Int
  BY <1>1, <1>2, GreaterOf
<1>4. Clamp(p, low, high) = c
  BY <1>2, <1>3 DEF Clamp
<1> HIDE DEF c
<1> DEFINE x == (p - r) * (p - r)
           y == (c - r) * (c - r)
<1>5. x \in Int /\ y \in Int
  BY <1>3
<1>6. ValueTokenLoss(p, r, v) = Max({x, y})
  BY <1>4 DEF ValueTokenLoss, Square, low, high
<1> HIDE DEF x, y
<1>7. QED
  BY <1>5, <1>6, GreaterOf
-----------------------------------------------------------------------------
(* The losses of a micro-batch *)

(* Every position of a row has an output. *)
HasOutputs ==
  \A i \in Rows : \A p \in 1 .. PromptLength(i) + data.length[i] :
     Ratio(<<i, p>>) \in Int /\ Prediction(<<i, p>>) \in Int

(* So has the place of a response token. *)
LEMMA PlaceHasOutput ==
  ASSUME IsBatch(data), HasOutputs, NEW i \in Rows, NEW j \in Tokens, j <= data.length[i]
  PROVE  Ratio(PlaceOf(i, j)) \in Int /\ Prediction(PlaceOf(i, j)) \in Int
<1> DEFINE p == PromptLength(i) + j - 1
<1>1. p \in 1 .. PromptLength(i) + data.length[i]
  <2> DEFINE l == PromptLength(i)
             g == data.length[i]
  <2>1. l \in Nat \ {0} /\ g \in Nat /\ j \in Nat \ {0} /\ j <= g
    BY BatchFacts, EstimatorAssumption, LossAssumption DEF Tokens
  <2> HIDE DEF l, g
  <2>2. l + j - 1 \in 1 .. l + g
    BY <2>1
  <2>3. QED
    BY <2>2 DEF l, g
<1>2. PlaceOf(i, j) = <<i, p>>
  BY DEF PlaceOf
<1> HIDE DEF p
<1>3. QED
  BY <1>1, <1>2 DEF HasOutputs

(* The tables of ratios and of predictions. *)
LEMMA OutputsAre ==
  ASSUME IsBatch(data), HasOutputs, NEW rows \in Seq(Rows), NEW i \in ToSet(rows), NEW j \in Tokens
  PROVE  LET places == ToSet(Unpadded(data, rows))
             ratio == ResponseTable(data, rows, [p \in places |-> Ratio(p)])
             predicted == ResponseTable(data, rows, [p \in places |-> Prediction(p)])
         IN  /\ ratio[i][j] \in Int /\ predicted[i][j] \in Int
             /\ j <= data.length[i] => /\ ratio[i][j] = Ratio(PlaceOf(i, j))
                                       /\ predicted[i][j] = Prediction(PlaceOf(i, j))
<1> DEFINE places == ToSet(Unpadded(data, rows))
           f == [p \in places |-> Ratio(p)]
           g == [p \in places |-> Prediction(p)]
<1>1. ASSUME NEW k \in ToSet(rows), NEW m \in Tokens, m <= data.length[k]
      PROVE  /\ f[PlaceOf(k, m)] = Ratio(PlaceOf(k, m)) /\ f[PlaceOf(k, m)] \in Int
             /\ g[PlaceOf(k, m)] = Prediction(PlaceOf(k, m)) /\ g[PlaceOf(k, m)] \in Int
  <2>1. PICK n \in DOMAIN rows : rows[n] = k
    BY DEF ToSet
  <2>2. k \in Rows
    BY <2>1
  <2>3. PlaceOf(k, m) \in places
    BY <1>1, <2>1, ResponseOutputIs
  <2>4. Ratio(PlaceOf(k, m)) \in Int /\ Prediction(PlaceOf(k, m)) \in Int
    BY <1>1, <2>2, PlaceHasOutput
  <2>5. QED
    BY <2>3, <2>4
<1> HIDE DEF f, g
<1>2. IsOutput(f, rows) /\ IsOutput(g, rows)
  BY <1>1 DEF IsOutput
<1>3. /\ ResponseTable(data, rows, f)[i][j] \in Int /\ ResponseTable(data, rows, g)[i][j] \in Int
      /\ j <= data.length[i] =>
            /\ ResponseTable(data, rows, f)[i][j] = f[PlaceOf(i, j)]
            /\ ResponseTable(data, rows, g)[i][j] = g[PlaceOf(i, j)]
  BY <1>2, ResponseTableIs
<1>4. QED
  BY <1>1, <1>3 DEF f, g

(* The loss of the policy. *)
LEMMA PolicyFits ==
  ASSUME IsBatch(data), HasOutputs, Numbers(computed.advantages),
         NEW rows \in Seq(Rows), NEW mode \in Modes
  PROVE  FitsIn(PolicyLoss(data, computed.advantages, rows, mode, Ranks), Written,
                [w \in Written |-> PolicyTerm(w)], ToSet(rows), mode)
<1> DEFINE R == ToSet(rows)
           advantages == computed.advantages
           ratio == ResponseTable(data, rows, [p \in ToSet(Unpadded(data, rows)) |-> Ratio(p)])
           table == [i \in R |-> [j \in Tokens |-> PolicyTokenLoss(advantages[i][j], ratio[i][j])]]
           term == [w \in Written |-> PolicyTerm(w)]
           mask == data.mask
<1>1. PolicyLoss(data, advantages, rows, mode, Ranks) = AggLoss(table, mask, R, mode, GlobalInfo(data, mask, Ranks))
  BY DEF PolicyLoss
<1>2. IsMask(mask, Written)
  BY WrittenIs, BatchFacts DEF IsMask, Written
<1>3. R \in SUBSET Rows
  BY DEF ToSet
<1>4. ASSUME NEW i \in R, NEW j \in Tokens
      PROVE  /\ table[i][j] = PolicyTokenLoss(advantages[i][j], ratio[i][j]) /\ table[i][j] \in Int
             /\ advantages[i][j] \in Int /\ ratio[i][j] \in Int
             /\ j <= data.length[i] => ratio[i][j] = Ratio(PlaceOf(i, j))
  <2>1. ratio[i][j] \in Int /\ (j <= data.length[i] => ratio[i][j] = Ratio(PlaceOf(i, j)))
    BY OutputsAre
  <2>2. advantages[i][j] \in Int
    BY <1>3 DEF Numbers
  <2>3. table[i][j] = PolicyTokenLoss(advantages[i][j], ratio[i][j])
    OBVIOUS
  <2> HIDE DEF ratio, advantages, table
  <2>4. QED
    BY <2>1, <2>2, <2>3, PolicyTokenIs
<1>5. ASSUME NEW w \in Written, w[1] \in R PROVE term[w] = table[w[1]][w[2]]
  <2> DEFINE i == w[1]
             j == w[2]
  <2>1. i \in R /\ j \in Tokens /\ j <= data.length[i]
    BY <1>5, WrittenIs
  <2>2. term[w] = -Objective(advantages[i][j], Ratio(PlaceOf(i, j)))
    BY DEF PolicyTerm
  <2> HIDE DEF i, j, ratio, advantages, table, term
  <2>3. term[w] = table[i][j]
    BY <1>4, <2>1, <2>2, PolicyTokenIs
  <2>4. QED
    BY <2>3 DEF i, j
<1> HIDE DEF R, advantages, ratio, table, term, mask
<1>6. IsLossTable(table, term, Written, R)
  BY <1>3, <1>4, <1>5 DEF IsLossTable
<1>7. FitsIn(AggLoss(table, mask, R, mode, GlobalInfo(data, mask, Ranks)), Written, term, R, mode)
  BY <1>2, <1>6, AggIs
<1>8. QED
  BY <1>1, <1>7 DEF R, advantages, term

(* The tokens the critic learns from. *)
Learnt == IF estimator = "token_gae" THEN Written ELSE {w \in Written : w[2] = 1}

(* They are those the mask of the critic leaves. *)
LEMMA LearntIs ==
  ASSUME IsBatch(data)
  PROVE  IsMask(CriticMask(data, estimator), Learnt)
<1>1. IsMask(data.mask, Written)
  BY WrittenIs, BatchFacts DEF IsMask, Written
<1>2. CASE estimator = "token_gae"
  BY <1>1, <1>2 DEF CriticMask, Learnt
<1>3. CASE estimator # "token_gae"
  <2> DEFINE m == [i \in Rows |-> [j \in Tokens |-> IF j = 1 THEN data.mask[i][1] ELSE 0]]
  <2>1. CriticMask(data, estimator) = m /\ Learnt = {w \in Written : w[2] = 1}
    BY <1>3 DEF CriticMask, Learnt
  <2>2. \A i \in Rows : \A j \in Tokens :
           /\ m[i][j] = IF j = 1 THEN data.mask[i][1] ELSE 0
           /\ <<i, j>> \in Learnt <=> <<i, j>> \in Written /\ j = 1
    BY <2>1
  <2> HIDE DEF m
  <2>3. QED
    BY <1>1, <2>1, <2>2 DEF IsMask
<1>4. QED
  BY <1>2, <1>3

(* The loss of the critic. *)
LEMMA CriticFits ==
  ASSUME IsBatch(data), HasOutputs, Numbers(computed.returns),
         NEW rows \in Seq(Rows), NEW mode \in Modes
  PROVE  FitsIn(ValueLoss(data, estimator, computed.returns, rows, mode, Ranks), Learnt,
                [w \in Learnt |-> CriticTerm(w)], ToSet(rows), mode)
<1> DEFINE R == ToSet(rows)
           returns == computed.returns
           value == data.value
           predicted == ResponseTable(data, rows, [p \in ToSet(Unpadded(data, rows)) |-> Prediction(p)])
           table == [i \in R |-> [j \in Tokens |-> ValueTokenLoss(predicted[i][j], returns[i][j], value[i][j])]]
           term == [w \in Learnt |-> CriticTerm(w)]
           mask == CriticMask(data, estimator)
<1>1. ValueLoss(data, estimator, returns, rows, mode, Ranks) = AggLoss(table, mask, R, mode, GlobalInfo(data, mask, Ranks))
  BY DEF ValueLoss
<1>2. IsMask(mask, Learnt)
  BY LearntIs
<1>3. R \in SUBSET Rows
  BY DEF ToSet
<1>4. ASSUME NEW i \in R, NEW j \in Tokens
      PROVE  /\ table[i][j] = ValueTokenLoss(predicted[i][j], returns[i][j], value[i][j]) /\ table[i][j] \in Int
             /\ j <= data.length[i] => predicted[i][j] = Prediction(PlaceOf(i, j))
  <2>1. predicted[i][j] \in Int /\ (j <= data.length[i] => predicted[i][j] = Prediction(PlaceOf(i, j)))
    BY OutputsAre
  <2>2. returns[i][j] \in Int /\ value[i][j] \in Int
    BY <1>3, BatchFacts DEF Numbers
  <2>3. table[i][j] = ValueTokenLoss(predicted[i][j], returns[i][j], value[i][j])
    OBVIOUS
  <2> HIDE DEF predicted, returns, value, table
  <2>4. QED
    BY <2>1, <2>2, <2>3, ValueTokenIs
<1>5. ASSUME NEW w \in Learnt, w[1] \in R PROVE term[w] = table[w[1]][w[2]]
  <2> DEFINE i == w[1]
             j == w[2]
  <2>1. i \in R /\ j \in Tokens /\ j <= data.length[i]
    BY <1>5, WrittenIs DEF Learnt
  <2>2. term[w] = ValueTokenLoss(Prediction(PlaceOf(i, j)), returns[i][j], value[i][j])
    BY DEF CriticTerm
  <2> HIDE DEF i, j, predicted, returns, value, table, term
  <2>3. term[w] = table[i][j]
    BY <1>4, <2>1, <2>2
  <2>4. QED
    BY <2>3 DEF i, j
<1> HIDE DEF R, returns, value, predicted, table, term, mask
<1>6. IsLossTable(table, term, Learnt, R)
  BY <1>3, <1>4, <1>5 DEF IsLossTable
<1>7. FitsIn(AggLoss(table, mask, R, mode, GlobalInfo(data, mask, Ranks)), Learnt, term, R, mode)
  BY <1>2, <1>6, AggIs
<1>8. QED
  BY <1>1, <1>7 DEF R, returns, term
-----------------------------------------------------------------------------
(* Every estimator computes numbers. *)
LEMMA EstimatesAreNumbers ==
  ASSUME IsBatch(data), NEW e \in Estimators
  PROVE  Numbers(ComputeAdvantage(data, e).advantages) /\ Numbers(ComputeAdvantage(data, e).returns)
<1>1. CASE e = "gae"
  BY <1>1, StepGAEIs DEF ComputeAdvantage
<1>2. CASE e = "token_gae"
  BY <1>2, TokenGAEIs DEF ComputeAdvantage
<1>3. CASE e = "reinforce"
  BY <1>3, ReinforceIs DEF ComputeAdvantage
<1>4. CASE e = "grpo"
  BY <1>4, GrpoIs DEF ComputeAdvantage
<1>5. CASE e = "rloo"
  BY <1>5, RlooIs DEF ComputeAdvantage
<1>6. CASE e = "gigpo"
  BY <1>6, GigpoIs DEF ComputeAdvantage
<1>7. CASE e = "gigpo_similar"
  BY <1>7, GigpoIs DEF ComputeAdvantage
<1>8. QED
  BY <1>1, <1>2, <1>3, <1>4, <1>5, <1>6, <1>7 DEF Estimators

(* What is computed is computed from the batch that was handed over. *)
LossOf(rows, mode) ==
  [rows |-> ToSet(rows), mode |-> mode,
   policy |-> PolicyLoss(data, computed.advantages, rows, mode, Ranks),
   critic |-> ValueLoss(data, estimator, computed.returns, rows, mode, Ranks)]

EInv ==
  /\ \E family \in BatchFamilies : data \in family
  /\ computed # None => estimator \in Estimators /\ computed = ComputeAdvantage(data, estimator)
  /\ loss # None => /\ computed # None
                    /\ \E rows \in MicroBatches, mode \in Modes : loss = LossOf(rows, mode)

(* The first state. *)
LEMMA EInitially == EstimateInit => EInv
BY DEF EstimateInit, EInv

(* The steps. *)
LEMMA ENext == EInv /\ [EstimateNext]_estimateVars => EInv'
<1> SUFFICES ASSUME EInv, [EstimateNext]_estimateVars PROVE EInv'
  OBVIOUS
<1>1. ASSUME NEW e \in Estimators, EstimateAdvantage(e) PROVE EInv'
  BY <1>1 DEF EInv, EstimateAdvantage
<1>2. ASSUME NEW rows \in MicroBatches, NEW mode \in Modes, ComputeLoss(rows, mode) PROVE EInv'
  <2>1. loss' = LossOf(rows, mode)' /\ computed' # None /\ UNCHANGED <<data, estimator, computed>>
    BY <1>2 DEF ComputeLoss, LossOf
  <2>2. QED
    BY <2>1 DEF EInv
<1>3. CASE UNCHANGED estimateVars
  BY <1>3 DEF EInv, LossOf, estimateVars
<1>4. QED
  BY <1>1, <1>2, <1>3 DEF EstimateNext

(* The invariant holds at all times. *)
LEMMA Estimating == EstimateSpec => []EInv
<1>1. QED
  BY EInitially, ENext, PTL DEF EstimateSpec

(* The batch at hand is one that can be handed over. *)
LEMMA BatchKnown ==
  ASSUME EInv
  PROVE  IsBatch(data) /\ HasOutputs /\ \A i \in Rows : Similar(data.anchor[i], data.anchor[i])
BY BatchesAssumption DEF EInv, HasOutputs

(* The properties follow from it. *)
LEMMA ReturnsHold == EInv => ReturnsAsDefined
<1> SUFFICES ASSUME EInv, Estimated PROVE ReturnsAsDefined
  BY DEF ReturnsAsDefined
<1>1. IsBatch(data) /\ computed = ComputeAdvantage(data, estimator)
  BY BatchKnown DEF EInv, Estimated
<1>2. estimator = "gae" =>
         /\ OnTokens(computed.advantages, Centering(StepAdvantageOf))
         /\ OnTokens(computed.returns, [i \in Real |-> StepAdvantageOf[i] + FirstValue[i]])
  BY <1>1, StepGAEIs DEF ComputeAdvantage
<1>3. estimator = "reinforce" =>
         /\ OnTokens(computed.advantages, Centering(ReturnFrom))
         /\ OnTokens(computed.returns, ReturnFrom)
  BY <1>1, ReinforceIs DEF ComputeAdvantage
<1>4. estimator = "token_gae" =>
         LET advantage == TokenAdvantageOf
             sum == SumFunctionOnSet(advantage, Written)
         IN  /\ \A w \in Written :
                   /\ computed.advantages[w[1]][w[2]] = FromMean(Cardinality(Written), advantage[w], sum)
                   /\ computed.returns[w[1]][w[2]] = advantage[w] + TokenValue[w]
             /\ \A i \in Rows \ Real : \A j \in Tokens : computed.advantages[i][j] = 0
  BY <1>1, TokenGAEIs DEF ComputeAdvantage
<1>5. QED
  BY <1>2, <1>3, <1>4 DEF ReturnsAsDefined

LEMMA OutcomesHold == EInv => OutcomesAsDefined
<1> SUFFICES ASSUME EInv, Estimated PROVE OutcomesAsDefined
  BY DEF OutcomesAsDefined
<1>1. /\ IsBatch(data) /\ computed = ComputeAdvantage(data, estimator)
      /\ \A i \in Rows : Similar(data.anchor[i], data.anchor[i])
  BY BatchKnown DEF EInv, Estimated
<1>2. estimator = "grpo" => OnTokens(computed.advantages, [i \in Real |-> Relative(i)])
  BY <1>1, GrpoIs DEF ComputeAdvantage
<1>3. estimator = "rloo" => OnTokens(computed.advantages, [i \in Real |-> LeftOut(i)])
  BY <1>1, RlooIs DEF ComputeAdvantage
<1>4. ASSUME NEW similarity \in BOOLEAN, estimator = (IF similarity THEN "gigpo_similar" ELSE "gigpo")
      PROVE  LET first == StepGroups(data, similarity)
             IN  /\ StepGroupsSound(first, similarity)
                 /\ OnTokens(computed.advantages, [i \in Real |-> Stepped(i, first)])
  <2> DEFINE first == StepGroups(data, similarity)
  <2>1. computed = Gigpo(data, similarity)
    BY <1>1, <1>4 DEF ComputeAdvantage
  <2>2. OnTokens(computed.advantages, [i \in Real |-> Stepped(i, first)])
    BY <1>1, <2>1, GigpoIs
  <2>3. StepGroupsSound(first, similarity)
    <3>1. CASE similarity = TRUE
      <4>1. first = SimilarClusters(data)
        BY <3>1 DEF StepGroups
      <4> HIDE DEF first
      <4>2. QED
        BY <1>1, <3>1, <4>1, SimilarGroupsSound
    <3>2. CASE similarity = FALSE
      <4>1. first = [i \in Valid(data) |-> SameObservation(data, i)]
        BY <3>2 DEF StepGroups
      <4> HIDE DEF first
      <4>2. QED
        BY <1>1, <3>2, <4>1, EqualGroupsSound
    <3>3. QED
      BY <3>1, <3>2
  <2>4. QED
    BY <2>2, <2>3
<1>5. QED
  BY <1>2, <1>3, <1>4 DEF OutcomesAsDefined

LEMMA LossHolds == EInv => LossAsDefined
<1> SUFFICES ASSUME EInv, loss # None PROVE LossAsDefined
  BY DEF LossAsDefined
<1>1. PICK rows \in MicroBatches, mode \in Modes : loss = LossOf(rows, mode)
  BY DEF EInv
<1>2. IsBatch(data) /\ HasOutputs /\ rows \in Seq(Rows)
  BY BatchKnown, MicroBatchesAssumption
<1>3. Numbers(computed.advantages) /\ Numbers(computed.returns)
  BY <1>2, EstimatesAreNumbers DEF EInv
<1> DEFINE R == ToSet(rows)
<1>4. /\ loss.rows = R /\ loss.mode = mode
      /\ loss.policy = PolicyLoss(data, computed.advantages, rows, mode, Ranks)
      /\ loss.critic = ValueLoss(data, estimator, computed.returns, rows, mode, Ranks)
  BY <1>1 DEF LossOf
<1>5. /\ FitsIn(loss.policy, Written, [w \in Written |-> PolicyTerm(w)], R, mode)
      /\ FitsIn(loss.critic, Learnt, [w \in Learnt |-> CriticTerm(w)], R, mode)
  BY <1>2, <1>3, <1>4, PolicyFits, CriticFits
<1> HIDE DEF R
<1> DEFINE Share(terms, term) ==
             LET mine == {w \in terms : w[1] \in loss.rows}
                 ofRow(i) == {w \in mine : w[1] = i}
                 mean(i) == (TokenScale * SumFunctionOnSet(term, ofRow(i))) \div Cardinality(ofRow(i))
             IN  IF loss.mode = "seq-mean-token-mean"
                 THEN SumFunctionOnSet([i \in loss.rows |-> IF ofRow(i) = {} THEN 0 ELSE mean(i)], loss.rows)
                 ELSE TokenScale * SumFunctionOnSet(term, mine)
           Counted(terms) == IF loss.mode = "token-mean" THEN Cardinality(terms) ELSE Cardinality(Real)
           Fits(l, terms, term) == l.num * Counted(terms) = Ranks * Share(terms, term) * l.den
<1>6. ASSUME NEW l, NEW terms, NEW term, FitsIn(l, terms, term, R, mode) PROVE Fits(l, terms, term)
  <2>1. \A i \in R : {w \in {v \in terms : v[1] \in R} : w[1] = i} = OfRow(terms, i)
    BY DEF OfRow
  <2>2. [i \in R |-> IF {w \in {v \in terms : v[1] \in R} : w[1] = i} = {} THEN 0
                     ELSE (TokenScale * SumFunctionOnSet(term, {w \in {v \in terms : v[1] \in R} : w[1] = i}))
                            \div Cardinality({w \in {v \in terms : v[1] \in R} : w[1] = i})]
          = [i \in R |-> IF OfRow(terms, i) = {} THEN 0 ELSE MeanOf(term, terms, i)]
    BY <2>1 DEF MeanOf
  <2>3. Share(terms, term) = ShareOf(terms, term, R, mode)
    BY <1>4, <2>2 DEF ShareOf, TermsIn
  <2>4. Counted(terms) = WholeOf(terms, mode)
    BY <1>4 DEF WholeOf
  <2> HIDE DEF Share, Counted
  <2>5. QED
    BY <1>6, <2>3, <2>4 DEF FitsIn
<1>7. /\ Fits(loss.policy, Written, [w \in Written |-> PolicyTerm(w)])
      /\ Fits(loss.critic, Learnt, [w \in Learnt |-> CriticTerm(w)])
  <2> HIDE DEF Fits
  <2> QED BY <1>5, <1>6
<1>8. QED
  BY <1>7 DEF LossAsDefined, Learnt

(* Whatever the batch, the estimators that follow a trajectory compute the *)
(* generalised advantage or the discounted return (compute_advantage).     *)
THEOREM ReturnsFollowDefinition == EstimateSpec => []ReturnsAsDefined
<1>1. QED
  BY Estimating, ReturnsHold, PTL

(* The estimators that compare outcomes see every trajectory once, and the *)
(* step groups of GiGPO hold rows of one prompt with like observations.    *)
THEOREM OutcomesFollowDefinition == EstimateSpec => []OutcomesAsDefined
<1>1. QED
  BY Estimating, OutcomesHold, PTL

(* Every micro-batch has its share in the loss of the mini-batch, whose    *)
(* means over rows count every real row, with tokens or without (agg_loss, *)
(* ppo_loss, value_loss, _slice_response_from_unpad_output).               *)
THEOREM LossFollowsDefinition == EstimateSpec => []LossAsDefined
<1>1. QED
  BY Estimating, LossHolds, PTL
=============================================================================
