----------------------------- MODULE PPOUpdate ------------------------------
(***************************************************************************)
(* The data-parallel ranks working through one update batch.  Every rank   *)
(* runs the same loop on its own rows:                                     *)
(*   for epoch, for mini-batch, [agree on the number of micro-batches],    *)
(*   for micro-batch: forward/backward, then one optimizer step.           *)
(* A collective of the process group has no name: the group completes as   *)
(* soon as every rank has entered one of the same kind, whatever mini-     *)
(* batch or micro-batch each of them is at.  A rank that has one micro-    *)
(* batch less than another therefore either blocks the group for ever or   *)
(* silently mixes gradients of different mini-batches.                     *)
(*                                                                         *)
(* Two workers are modelled (workerImpl):                                  *)
(*   "legacy" DataParallelPPOActor.update_policy and                       *)
(*            DataParallelPPOCritic.update_critic (dp_actor, dp_critic)    *)
(*   "engine" TrainingWorker.train_mini_batch with _prepare_micro_batches  *)
(***************************************************************************)
EXTENDS TrajectoryPlan

CONSTANTS
  Batches,         (* the update batches considered, sequences of rows      *)
  MicroBatchSize,  (* ppo_micro_batch_size_per_gpu                          *)
  DividedBy,       (* num_batches_divided_by of the engine, 1 for None      *)
  PpoEpochs,       (* ppo_epochs                                            *)
  Shuffle          (* actor.shuffle, read by the engine worker only         *)

ASSUME UpdateAssumption ==
  /\ Batches \subseteq Seq([uid : Nat, valid : BOOLEAN, tokens : Nat])
  /\ \A d \in Batches : ValidIndices(d) # {}
  /\ MicroBatchSize \in Nat \ {0}
  /\ DividedBy \in Nat \ {0}
  /\ PpoEpochs \in Nat \ {0}
  /\ Shuffle \in BOOLEAN

VARIABLES
  workerImpl,   (* use_legacy_worker_impl: "legacy" or "engine"             *)
  numMiniBatch, (* meta_info["num_mini_batch"] of the update batch         *)
  rows,      (* rows[m][r]: entries rank r received for mini-batch m        *)
  order,     (* order[e][p]: the mini-batch at position p of epoch e        *)
  pc,        (* what each rank does next                                    *)
  blocked,   (* the ranks that wait inside a collective                     *)
  epoch,     (* per rank: epoch, and position in that epoch's order         *)
  position,
  numMicro,  (* per rank: micro-batches of the current mini-batch           *)
  micro,     (* per rank: micro-batches already run                         *)
  seen,      (* per rank: entries whose gradient is accumulated             *)
  applied    (* history: one record per optimizer step                      *)

counters == <<epoch, position, numMicro, micro, seen>>

plan == <<workerImpl, numMiniBatch, rows, order>>

vars == <<plan, pc, blocked, counters, applied>>

Epochs == 0 .. PpoEpochs - 1

Ids == 0 .. numMiniBatch - 1

(* Defect: an epoch samples mini-batches with replacement. *)
OrdersWithRepeats == [Ids -> Ids]

(* The orders in which an epoch can visit the mini-batches. *)
Orders == {f \in [Ids -> Ids] : \A p, q \in Ids : f[p] = f[q] => p = q}

(* Defect: every rank draws a permutation of its own. *)
CurrentOwnOrder(r) == order[epoch[r]][(position[r] + r) % numMiniBatch]

(* The mini-batch rank r works on.  The permutation of an epoch is drawn    *)
(* from seed + epoch, which all ranks share.                                *)
Current(r) == order[epoch[r]][position[r]]

Rows(r) == rows[Current(r)][r]

-----------------------------------------------------------------------------
(* Micro-batches *)

(* mini_batch.split(n) and len(data) // micro_batch_size_per_gpu rounded up *)
MicroBatches(n) == CeilDiv(n, MicroBatchSize)

(* The engine's count: the largest of the group, rounded up. *)
AgreedMicroBatches ==
  CeilDiv(Max({numMicro[r] : r \in Ranks}), DividedBy) * DividedBy

(* Defect: the last entry of every slice is left out. *)
MicroBatchOpen(k, c, n) ==
  IF workerImpl = "legacy"
  THEN {i \in 1 .. n : k * MicroBatchSize < i /\ i < (k + 1) * MicroBatchSize}
  ELSE {i \in 1 .. n : (k * n) \div c < i /\ i < ((k + 1) * n) \div c}

(* Entries of micro-batch k when n entries are cut in c pieces: pieces of   *)
(* MicroBatchSize with a short tail, or the engine's even slices.           *)
MicroBatch(k, c, n) ==
  IF workerImpl = "legacy"
  THEN {i \in 1 .. n : k * MicroBatchSize < i /\ i <= (k + 1) * MicroBatchSize}
  ELSE {i \in 1 .. n : (k * n) \div c < i /\ i <= ((k + 1) * n) \div c}

-----------------------------------------------------------------------------
Init ==
  /\ workerImpl \in {"legacy", "engine"}
  /\ \E d \in Batches :
       /\ numMiniBatch = NumMiniBatches(d)
       /\ rows = [m \in MiniBatchIds(d) |-> [r \in Ranks |-> LocalCount(d, m, r)]]
  /\ order \in [Epochs -> Orders]
  /\ \/ Shuffle /\ workerImpl = "engine"
     \/ \A e \in Epochs, m \in Ids : order[e][m] = m
  /\ pc = [r \in Ranks |-> "begin"]
  /\ blocked = {}
  /\ epoch = [r \in Ranks |-> 0]
  /\ position = [r \in Ranks |-> 0]
  /\ numMicro = [r \in Ranks |-> 0]
  /\ micro = [r \in Ranks |-> 0]
  /\ seen = [r \in Ranks |-> {}]
  /\ applied = <<>>

(* A rank takes its next mini-batch, clears its gradients and splits the    *)
(* mini-batch.  The engine first has to agree with the others on the count. *)
BeginMiniBatch(r) ==
  /\ pc[r] = "begin"
  /\ numMicro' = [numMicro EXCEPT ![r] = MicroBatches(Rows(r))]
  /\ micro' = [micro EXCEPT ![r] = 0]
  /\ seen' = [seen EXCEPT ![r] = {}]
  /\ pc' = [pc EXCEPT ![r] =
              IF workerImpl = "engine" THEN "count" ELSE "forward"]
  /\ UNCHANGED <<plan, blocked, epoch, position, applied>>

(* A rank has done its local part and enters the collective it has reached. *)
Enter(r) ==
  /\ pc[r] \in {"count", "forward", "step"}
  /\ r \notin blocked
  /\ blocked' = blocked \cup {r}
  /\ UNCHANGED <<plan, pc, counters, applied>>

(* A collective completes when the whole group is in one of the same kind. *)
GroupAt(kind) == blocked = Ranks /\ \A r \in Ranks : pc[r] = kind

(* all_reduce(MAX) of the micro-batch count.  A rank with fewer entries     *)
(* than micro-batches raises ValueError.                                    *)
AllReduceCount ==
  /\ GroupAt("count")
  /\ numMicro' = [r \in Ranks |-> AgreedMicroBatches]
  /\ pc' = [r \in Ranks |->
              IF AgreedMicroBatches > Rows(r) THEN "failed" ELSE "forward"]
  /\ blocked' = {}
  /\ UNCHANGED <<plan, epoch, position, micro, seen, applied>>

(* Forward and backward of one micro-batch: parameters are gathered from    *)
(* and gradients reduced to all ranks.                                      *)
ForwardBackward ==
  /\ GroupAt("forward")
  /\ seen' = [r \in Ranks |->
                seen[r] \cup MicroBatch(micro[r], numMicro[r], Rows(r))]
  /\ micro' = [r \in Ranks |-> micro[r] + 1]
  /\ pc' = [r \in Ranks |->
              IF micro[r] + 1 = numMicro[r] THEN "step" ELSE "forward"]
  /\ blocked' = {}
  /\ UNCHANGED <<plan, epoch, position, numMicro, applied>>

LastPosition(r) == position[r] + 1 = numMiniBatch

Done(r) == LastPosition(r) /\ epoch[r] + 1 = PpoEpochs

(* The optimizer step: the gradient norm is reduced over the group, then    *)
(* every rank goes to its next mini-batch.                                  *)
OptimizerStep ==
  /\ GroupAt("step")
  /\ applied' = Append(applied,
       [epoch |-> [r \in Ranks |-> epoch[r]],
        id    |-> [r \in Ranks |-> Current(r)],
        seen  |-> seen])
  /\ pc' = [r \in Ranks |-> IF Done(r) THEN "done" ELSE "begin"]
  /\ epoch' = [r \in Ranks |->
       IF LastPosition(r) /\ ~Done(r) THEN epoch[r] + 1 ELSE epoch[r]]
  /\ position' = [r \in Ranks |->
       IF Done(r) THEN position[r]
       ELSE IF LastPosition(r) THEN 0 ELSE position[r] + 1]
  /\ blocked' = {}
  /\ UNCHANGED <<plan, numMicro, micro, seen>>

(* The update has returned, or raised, on every rank. *)
Returned ==
  /\ \A r \in Ranks : pc[r] \in {"done", "failed"}
  /\ UNCHANGED vars

Next ==
  \/ \E r \in Ranks : BeginMiniBatch(r) \/ Enter(r)
  \/ AllReduceCount
  \/ ForwardBackward
  \/ OptimizerStep
  \/ Returned

(* Every rank is a process of its own that keeps running, and a collective  *)
(* all ranks have entered completes.                                        *)
Fairness ==
  /\ \A r \in Ranks : WF_vars(BeginMiniBatch(r)) /\ WF_vars(Enter(r))
  /\ WF_vars(AllReduceCount)
  /\ WF_vars(ForwardBackward)
  /\ WF_vars(OptimizerStep)

Spec == Init /\ [][Next]_vars /\ Fairness

-----------------------------------------------------------------------------
(* Properties *)

PcValues == {"begin", "count", "forward", "step", "done", "failed"}

(* Every variable has its shape. *)
TypeOK ==
  /\ workerImpl \in {"legacy", "engine"}
  /\ \E d \in Batches :
       /\ numMiniBatch = NumMiniBatches(d)
       /\ rows = [m \in MiniBatchIds(d) |-> [r \in Ranks |-> LocalCount(d, m, r)]]
  /\ order \in [Epochs -> Orders]
  /\ pc \in [Ranks -> PcValues]
  /\ blocked \subseteq Ranks
  /\ epoch \in [Ranks -> Epochs]
  /\ position \in [Ranks -> Ids]
  /\ numMicro \in [Ranks -> Nat]
  /\ micro \in [Ranks -> Nat]
  /\ seen \in [Ranks -> SUBSET Nat]
  /\ applied \in Seq([epoch : [Ranks -> Epochs],
                      id : [Ranks -> Ids],
                      seen : [Ranks -> SUBSET Nat]])

(* The collectives match: whenever the whole group is inside a collective,   *)
(* all ranks are in the same one, for the same micro-batch of the same       *)
(* mini-batch of the same epoch, and have equally many micro-batches to go.  *)
(* Ranks count their rows alone, so this is what the padding of              *)
(* _build_rank_ordered_entries is for.                                       *)
SameWork ==
  blocked = Ranks =>
    \A q, r \in Ranks :
      /\ pc[q] = pc[r]
      /\ epoch[q] = epoch[r]
      /\ Current(q) = Current(r)
      /\ micro[q] = micro[r]
      /\ numMicro[q] = numMicro[r]

(* One optimizer step is one mini-batch: all ranks contribute to the same    *)
(* mini-batch, and each has accumulated the gradient of every entry it       *)
(* holds for it, however the entries were cut into micro-batches.            *)
StepIsMiniBatch ==
  \A s \in DOMAIN applied : \A q, r \in Ranks :
    /\ applied[s].epoch[q] = applied[s].epoch[r]
    /\ applied[s].id[q] = applied[s].id[r]
    /\ applied[s].seen[r] = 1 .. rows[applied[s].id[r]][r]

(* A refused mini-batch is refused by every rank: no rank is left waiting    *)
(* for one that raised "num_micro_batches must be <= local batch size".      *)
FailTogether ==
  (\E r \in Ranks : pc[r] = "failed") => (\A r \in Ranks : pc[r] = "failed")

(* Every epoch has stepped once on every mini-batch, in whatever order.      *)
EveryMiniBatchEveryEpoch ==
  /\ Len(applied) = PpoEpochs * numMiniBatch
  /\ \A e \in Epochs, m \in Ids, r \in Ranks :
       \E s \in DOMAIN applied :
         applied[s].epoch[r] = e /\ applied[s].id[r] = m

(* The update stops on every rank: an FSDP worker has then done all its      *)
(* work, complete epochs of mini-batches; an engine worker has, or has       *)
(* refused a mini-batch.  No rank ever hangs in a collective.                *)
UpdateEnds ==
  <>(\/ (\A r \in Ranks : pc[r] = "done") /\ EveryMiniBatchEveryEpoch
     \/ workerImpl = "engine" /\ \A r \in Ranks : pc[r] = "failed")

-----------------------------------------------------------------------------
(* What the update promises as a whole *)

Held == [m \in Ids |-> [r \in Ranks |-> 1 .. rows[m][r]]]

AllDone == \A r \in Ranks : pc[r] = "done"

(* The mini-batches from here to the end of the order of the epoch. *)
Pending ==
  IF AllDone THEN {} ELSE {order[epoch[0]][p] : p \in position[0] .. numMiniBatch - 1}

Status ==
  IF AllDone THEN "returned"
  ELSE IF \E r \in Ranks : pc[r] = "failed" THEN "raised" ELSE "running"

Promise == INSTANCE UpdatePromise WITH
  held <- Held, agrees <- workerImpl = "engine", epoch <- epoch[0], pending <- Pending,
  status <- Status

(* The ranks together do what one process would: an epoch takes every       *)
(* mini-batch once, a step applies the gradient of one mini-batch as a      *)
(* whole on all ranks, and the call returns only after the last one.        *)
KeepsPromise == Promise!Spec

-----------------------------------------------------------------------------
(* The inductive invariant behind the safety properties *)

FirstStage == IF workerImpl = "engine" THEN "count" ELSE "forward"

(* Ranks advance together: they share epoch and position, those that have   *)
(* begun the mini-batch share its progress too, and while one has not begun *)
(* yet no other has got past its first collective.                          *)
LockStep ==
  /\ \A q, r \in Ranks : epoch[q] = epoch[r] /\ position[q] = position[r]
  /\ \A q, r \in Ranks :
       (pc[q] # "begin" /\ pc[r] # "begin") =>
         /\ pc[q] = pc[r]
         /\ micro[q] = micro[r]
         /\ numMicro[q] = numMicro[r]
  /\ \A q, r \in Ranks :
       (pc[q] = "begin" /\ pc[r] # "begin") =>
         /\ pc[r] = FirstStage
         /\ micro[r] = 0
         /\ numMicro[r] = MicroBatches(Rows(r))

(* Only a rank that has a collective to enter waits in one. *)
BlockedInCollective ==
  \A r \in blocked : pc[r] \in {"count", "forward", "step"}

(* The entries covered by the first k of c micro-batches over n entries. *)
Covered(k, c, n) ==
  IF workerImpl = "legacy"
  THEN {i \in 1 .. n : i <= k * MicroBatchSize}
  ELSE {i \in 1 .. n : i <= (k * n) \div c}

(* How far each rank has come within its mini-batch. *)
Progress ==
  \A r \in Ranks :
    /\ pc[r] = "count" =>
         micro[r] = 0 /\ seen[r] = {} /\ numMicro[r] > 0
         /\ workerImpl = "engine"
    /\ pc[r] = "forward" =>
         /\ micro[r] < numMicro[r]
         /\ workerImpl = "legacy" => numMicro[r] = MicroBatches(Rows(r))
         /\ seen[r] = Covered(micro[r], numMicro[r], Rows(r))
    /\ pc[r] = "step" => seen[r] = 1 .. Rows(r)

IInv ==
  /\ TypeOK
  /\ LockStep
  /\ BlockedInCollective
  /\ Progress
  /\ StepIsMiniBatch

=============================================================================
