---------------------------- MODULE AgentRollout ----------------------------
(***************************************************************************)
(* One rollout of the trainer: AgentFlowManager.generate_sequences wakes   *)
(* the replicas, splits the prompts over the workers and waits for them;   *)
(* each AgentFlowWorker runs the loops of its chunk as concurrent tasks    *)
(* and gathers them; the trainer aligns the rows with its own batch.       *)
(* A worker whose gather raised goes on running the other tasks of its     *)
(* chunk, and the manager raises without waiting for the other workers.    *)
(***************************************************************************)
EXTENDS AgentEnvLoop

CONSTANTS
  NumWorkers,    (* agent.num_workers                                       *)
  PromptCounts,  (* bound: sizes of the training batch considered           *)
  RolloutN       (* rollout.n, trajectories of one prompt                   *)

ASSUME RolloutAssumption ==
  /\ NumWorkers \in Nat \ {0}
  /\ RolloutN \in Nat \ {0}
  /\ PromptCounts \subseteq Nat \ {0}
  /\ \A n \in PromptCounts : 1 .. n * RolloutN \subseteq Trajectories

VARIABLES
  prompts,  (* uids of the training batch                                   *)
  manager,  (* where generate_sequences is                                  *)
  worker,   (* state of each worker actor                                   *)
  awake,    (* which engines are awake                                      *)
  output,   (* rows of the rollout and num_steps, as the manager returns it *)
  slowest,  (* the trajectory reported under agent_flow/slowest             *)
  batch     (* the aligned training batch                                   *)

rolloutVars == <<prompts, manager, worker, awake, output, slowest, batch>>

vars == <<flow, rolloutVars>>

Workers == 1 .. NumWorkers

NoOutput == [rows |-> <<>>, numSteps |-> <<>>]

-----------------------------------------------------------------------------
(* The split of the prompts *)

(* Defect: repeat without interleave: the whole batch n times over. *)
RepeatWhole(s, n) ==
  [k \in 1 .. Len(s) * n |-> s[((k - 1) % Len(s)) + 1]]

(* DataProto.repeat(repeat_times = n, interleave = True) *)
Repeat(s, n) == [k \in 1 .. Len(s) * n |-> s[((k - 1) \div n) + 1]]

(* The prompts sent to the manager; entry t is what trajectory t runs on.  *)
GenBatch == Repeat(prompts, RolloutN)

(* Defect: the trainer's own batch is repeated without interleave. *)
TrainerBatchWhole == RepeatWhole(prompts, RolloutN)

(* The trainer's own batch, repeated to meet the trajectories. *)
TrainerBatch == Repeat(prompts, RolloutN)

SplitSize == (Len(GenBatch) - 1) \div NumWorkers + 1

NumChunks == (Len(GenBatch) - 1) \div SplitSize + 1

(* The trajectories of worker w, in the order of its chunk; the last chunk *)
(* may be shorter.                                                         *)
Chunk(w) ==
  LET first == (w - 1) * SplitSize IN
  [i \in 1 .. Min({SplitSize, Len(GenBatch) - first}) |-> first + i]

-----------------------------------------------------------------------------
(* What is made of the steps *)

(* Defect: step_indices count on over the chunk. *)
WorkerRowsCounting(w) ==
  LET rowsOf(i) ==
        LET t == Chunk(w)[i]
            before == FoldLeft(LAMBDA n, j : n + Len(flow[Chunk(w)[j]].steps), 0,
                               [j \in 1 .. i - 1 |-> j])
        IN [k \in DOMAIN flow[t].steps |->
             [trajectory |-> <<w, i>>, index |-> before + k - 1,
              from |-> t, step |-> flow[t].steps[k]]]
  IN FlattenSeq([i \in DOMAIN Chunk(w) |-> rowsOf(i)])

(* AgentFlowWorker._postprocess: the rows of the chunk, trajectory after   *)
(* trajectory.  <<w, i>> stands for the fresh trajectory uid of input i;   *)
(* `from' is history.                                                      *)
WorkerRows(w) ==
  LET rowsOf(i) ==
        LET t == Chunk(w)[i] IN
        [k \in DOMAIN flow[t].steps |->
          [trajectory |-> <<w, i>>, index |-> k - 1,
           from |-> t, step |-> flow[t].steps[k]]]
  IN FlattenSeq([i \in DOMAIN Chunk(w) |-> rowsOf(i)])

WorkerNumSteps(w) == [i \in DOMAIN Chunk(w) |-> Len(flow[Chunk(w)[i]].steps)]

(* DataProto.concat of the workers' answers *)
Concat(answers) == FlattenSeq(answers)

(* sample_level_repeat: entry i of the batch numSteps[i] times *)
SampleLevelRepeat(s, numSteps) ==
  FlattenSeq([i \in DOMAIN s |-> [k \in 1 .. numSteps[i] |-> s[i]]])

-----------------------------------------------------------------------------
(* _performance_metrics *)

SumSeq(s) == FoldLeft(LAMBDA total, x : total + x, 0, s)

(* times holds one number per trajectory; a slice ends at the end of the   *)
(* array.                                                                  *)
TrajectoryTimes(times, numSteps) ==
  [i \in DOMAIN numSteps |->
    LET idx == SumSeq(SubSeq(numSteps, 1, i - 1)) IN
    SumSeq(SubSeq(times, idx + 1, Min({idx + numSteps[i], Len(times)})))]

(* np.argmax: the first of the largest *)
ArgMax(s) ==
  CHOOSE i \in DOMAIN s :
    /\ \A j \in DOMAIN s : s[j] <= s[i]
    /\ \A j \in 1 .. i - 1 : s[j] < s[i]

Times == [t \in 1 .. Len(GenBatch) |-> flow[t].time]

-----------------------------------------------------------------------------
(* The processes *)

Init ==
  /\ \E n \in PromptCounts : prompts = [i \in 1 .. n |-> i]
  /\ flow = [t \in Trajectories |-> IdleFlow]
  /\ manager = "idle"
  /\ worker = [w \in Workers |-> "idle"]
  /\ awake = {}
  /\ output = NoOutput
  /\ slowest = 0
  /\ batch = <<>>

(* wake_up and the dispatch.  zip(strict=True) raises when there are fewer *)
(* chunks than workers, after the chunks have been sent.                   *)
StartRollout ==
  /\ manager = "idle"
  /\ awake' = {"rollout", "reward"}
  /\ worker' = [w \in Workers |-> IF w <= NumChunks THEN "running" ELSE "idle"]
  /\ flow' = [t \in Trajectories |->
                IF t \in DOMAIN GenBatch THEN StartFlow(flow[t]) ELSE flow[t]]
  /\ manager' = IF NumChunks = NumWorkers THEN "waiting" ELSE "raised"
  /\ UNCHANGED <<prompts, output, slowest, batch>>

(* gather has every output.  _postprocess raises when there is no step to  *)
(* concatenate.                                                            *)
WorkerReturns(w) ==
  /\ worker[w] = "running"
  /\ \A i \in DOMAIN Chunk(w) : At(Chunk(w)[i], "finished")
  /\ worker' = [worker EXCEPT ![w] = IF WorkerRows(w) = <<>> THEN "raised" ELSE "returned"]
  /\ UNCHANGED <<flow, prompts, manager, awake, output, slowest, batch>>

(* gather raises with the first task that does; the others go on. *)
WorkerRaises(w) ==
  /\ worker[w] = "running"
  /\ \E i \in DOMAIN Chunk(w) : At(Chunk(w)[i], "failed")
  /\ worker' = [worker EXCEPT ![w] = "raised"]
  /\ UNCHANGED <<flow, prompts, manager, awake, output, slowest, batch>>

(* ray.get and DataProto.concat *)
CollectOutputs ==
  /\ manager = "waiting"
  /\ \A w \in Workers : worker[w] = "returned"
  /\ output' = [rows |-> Concat([w \in Workers |-> WorkerRows(w)]),
                numSteps |-> Concat([w \in Workers |-> WorkerNumSteps(w)])]
  /\ manager' = "collected"
  /\ UNCHANGED <<flow, prompts, worker, awake, slowest, batch>>

(* Defect: the rollout waits for every worker before it gives up. *)
GetRaisesAll ==
  /\ manager = "waiting"
  /\ \A w \in Workers : worker[w] = "raised"
  /\ manager' = "raised"
  /\ UNCHANGED <<flow, prompts, worker, awake, output, slowest, batch>>

(* Defect: the replicas are put to sleep in a finally block. *)
GetRaisesSleeping ==
  /\ manager = "waiting"
  /\ \E w \in Workers : worker[w] = "raised"
  /\ manager' = "raised"
  /\ awake' = {}
  /\ UNCHANGED <<flow, prompts, worker, output, slowest, batch>>

(* ray.get raises when a worker did; the replicas stay awake. *)
GetRaises ==
  /\ manager = "waiting"
  /\ \E w \in Workers : worker[w] = "raised"
  /\ manager' = "raised"
  /\ UNCHANGED <<flow, prompts, worker, awake, output, slowest, batch>>

(* _compute_teacher_logprobs refuses the teacher's tokens, or cannot reach *)
(* it.                                                                     *)
TeacherRaises ==
  /\ manager = "collected"
  /\ manager' = "raised"
  /\ UNCHANGED <<flow, prompts, worker, awake, output, slowest, batch>>

(* sleep and the metrics of the rollout *)
ReturnOutput ==
  /\ manager = "collected"
  /\ awake' = {}
  /\ slowest' = ArgMax(TrajectoryTimes(Times, output.numSteps))
  /\ manager' = "returned"
  /\ UNCHANGED <<flow, prompts, worker, output, batch>>

(* fit: sample_level_repeat and union *)
AlignBatch ==
  /\ manager = "returned"
  /\ LET uids == SampleLevelRepeat(TrainerBatch, output.numSteps) IN
       batch' = [r \in DOMAIN output.rows |->
                  [uid |-> uids[r], trajectory |-> output.rows[r].trajectory,
                   index |-> output.rows[r].index, from |-> output.rows[r].from,
                   step |-> output.rows[r].step]]
  /\ manager' = "aligned"
  /\ UNCHANGED <<flow, prompts, worker, awake, output, slowest>>

RunFlow(t) == FlowStep(t) /\ UNCHANGED rolloutVars

ManagerStep ==
  \/ StartRollout \/ CollectOutputs \/ GetRaises \/ TeacherRaises
  \/ ReturnOutput \/ AlignBatch

WorkerStep(w) == WorkerReturns(w) \/ WorkerRaises(w)

Next ==
  \/ \E t \in Trajectories : RunFlow(t)
  \/ \E w \in Workers : WorkerStep(w)
  \/ ManagerStep

(* The event loops run every ready task, and the services the loops call   *)
(* answer or raise: something happens while anything can.  No step can be  *)
(* repeated for ever, so fairness to some step is fairness to all.         *)
Fairness == WF_vars(Next)

Spec == Init /\ [][Next]_vars /\ Fairness

-----------------------------------------------------------------------------
(* Properties *)

(* The training batch holds each trajectory exactly once: all its steps,   *)
(* in order, numbered from 0, under a trajectory uid no other one has; and *)
(* the alignment of fit (992-996) gives it the uid of the prompt it was    *)
(* generated for, although rows only come by number of steps and in the    *)
(* order of the chunks.                                                    *)
EpisodesWhole ==
  manager = "aligned" =>
    /\ \A t \in 1 .. Len(GenBatch) :
         LET mine == {r \in DOMAIN batch : batch[r].from = t} IN
         /\ \A k \in DOMAIN flow[t].steps : \E r \in mine : batch[r].index = k - 1
         /\ \A r \in mine : /\ batch[r].index + 1 \in DOMAIN flow[t].steps
                            /\ batch[r].step = flow[t].steps[batch[r].index + 1]
         /\ \A q, r \in mine : q < r => batch[q].index < batch[r].index
    /\ \A q, r \in DOMAIN batch :
         batch[q].trajectory = batch[r].trajectory <=> batch[q].from = batch[r].from
    /\ \A r \in DOMAIN batch : batch[r].uid = GenBatch[batch[r].from]

(* The final answer of an episode earns no tool reward, so it is the       *)
(* reward worker that decides what it is worth.                            *)
FinalAnswersScored ==
  \A r \in DOMAIN batch : batch[r].step.done => batch[r].step.reward \in Scores

(* No request reaches an engine that sleeps: not while a loop of a failed  *)
(* worker is still running, nor while the manager already raised.          *)
AwakeWhileInUse ==
  \A t \in Trajectories :
    /\ At(t, "generating") => "rollout" \in awake
    /\ At(t, "scoring") /\ flow[t].pending.reward = NoReward => "reward" \in awake

(* The call is never stuck: until it has returned a batch or raised, a loop, *)
(* a worker or the manager can go on, so it does not wait for a worker that  *)
(* will not answer.  No step can be repeated for ever, hence the call ends.  *)
CallNeverStuck == manager \in {"aligned", "raised"} \/ ENABLED Next

(* The rollout keeps the promise: one episode per prompt, in order. *)
EpisodeAt(i) ==
  LET first == SumSeq(SubSeq(output.numSteps, 1, i - 1))
      rows  == SubSeq(output.rows, first + 1, first + output.numSteps[i])
  IN [prompt |-> IF rows = <<>> THEN GenBatch[i]
                 ELSE IF \A k \in DOMAIN rows : rows[k].from = rows[1].from
                        THEN GenBatch[rows[1].from] ELSE 0,
      steps |-> [k \in DOMAIN rows |-> rows[k].step]]

Returned == manager \in {"returned", "aligned"}

Promise == INSTANCE RolloutPromise WITH
  Prompts <- Nat \ {0},
  request <- GenBatch,
  status <- IF Returned THEN "returned" ELSE IF manager = "raised" THEN "raised" ELSE "called",
  answer <- IF Returned THEN [i \in DOMAIN output.numSteps |-> EpisodeAt(i)] ELSE <<>>

KeepsPromise == Promise!Spec

(* agent_flow.py:1052 says what is reported under agent_flow/slowest is    *)
(* the trajectory with the most total time.                                *)
SlowestIsSlowest ==
  Returned => \A t \in 1 .. Len(GenBatch) : flow[t].time <= flow[slowest].time
=============================================================================
