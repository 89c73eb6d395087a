# A verification model of Agent-R1

Agent-R1 trains language-model agents with step-level reinforcement learning on
top of verl.  Every step of an agent (one prompt, one response, one action) is a
row of the training batch, and a trajectory is the set of rows that share a
trajectory uid.  This directory holds TLA+ models of the parts of Agent-R1 whose
correctness depends on ordering, concurrency, failure or counting, the TLC runs
that check them on small instances, and TLAPS proofs of the facts that carry the
most weight.

    tlc -config PiSession.cfg PiSession         # repeat a run
    tlapm TrainerProofs.tla                     # repeat a proof

`PROJECT.json` lists the components, the runs with their properties, the source
lines behind every definition (`map`), the hazards, the findings and the theorems.
For every checked property it also names a *mutant*: an operator marked `Defect:`
in a module which, put in place of the definition it imitates, makes TLC refute the
property.  No specification uses these operators; they show that the properties
can fail.

Contents: [1 The system](#1-the-system) - [2 The modules](#2-the-modules) -
[3 The runs](#3-the-runs) - [4 Fairness](#4-fairness) - [5 Findings](#5-findings) -
[6 The proofs](#6-the-proofs) - [7 What is left out](#7-what-is-left-out) -
[8 The plan](#8-the-plan)


## 1 The system

### How the parts interact

    RayAgentTrainer.fit (driver, ray_trainer.py)
      |  gen batch, num_steps                           checkpoint (verl)
      +--> AgentFlowManager.generate_sequences  (agent_flow.py)
      |      wake_up / split / ray.get / concat / sleep
      |      +--> AgentFlowWorker x num_workers: one asyncio task per trajectory
      |             +--> AgentFlow.run (AgentEnvLoop, recipes' flows)
      |                    LLM server  <- generate
      |                    environment <- step (tools, WebShop, Pi sidecar, ...)
      |                    RewardLoopWorker.compute_score (reward_loop.py)
      +--> _validate: the same rollout, then scores and dumps per trajectory
      +--> pad, balance, compute_advantage (core_algos.py),
      |      prepare_trajectory_mini_batch (trajectory_batching.py)
      +--> worker group: one process per data-parallel rank, equal chunks
             update_policy / update_critic (legacy) or train_mini_batch (engine)

### Inventory

| Component (source) | State | Operations | What is hard | What makes it correct |
|---|---|---|---|---|
| Mini-batch planning (`trajectory_batching.py`, `_pad_dataproto_to_world_size`, `_balance_batch`) | batch rows, entries per rank | pad, reorder, group by trajectory, distribute, pad ranks, count, dispatch | equal chunks are cut from one flat list; padding copies real rows | each real row once, trajectories whole, ranks equally long, exact denominators |
| PPO update (`dp_actor.py`, `dp_critic.py`, `engine_workers.py`) | per rank: epoch, mini-batch, micro-batch, gradients | agree on a count, forward/backward, optimizer step | nameless collectives: a rank that does less blocks or corrupts the others | collectives match, a step is a mini-batch, refused by all or none |
| Rollout manager and workers (`agent_flow.py`) | engines awake, chunks, worker outputs | wake, split, gather, concatenate, sleep, align | trajectories end in any order with any number of rows; one failure among many tasks | rows keep their prompt and order; engines awake while used; the call ends |
| Agent-environment loop, tool environment (`agent_env_loop.py`, `tool.py`) | steps so far, pending step | prompt, generate, env step, score, append | optional rewards, episode end, prompts that do not fit | episode bounded, nothing after its end, final answer scored |
| Validation and dumps (`ray_trainer.py`) | step counts, table of samples, dump entries | aggregate per trajectory, merge dumps | trajectories without steps, several samples per prompt | each row counted for its own trajectory |
| Reward loop (`reward_loop.py`) | attempts of a post | route, post, retry | classification of errors, the last attempt, silence | gives up only with reason; ends |
| Training loop (`ray_trainer.py fit`) | step, epoch, loader position, models, checkpoint | load, update critic/actor, validate, save | a driver that dies anywhere; last step vs end of data | batches once and in order; little lost; final model kept |
| Advantage estimators, losses (`core_algos.py`, `losses.py`) | none (tensors) | group, discount, normalise, aggregate | groups across trajectories and steps, masks, copies that pad, zero denominators | what is computed on tables of rows is the definition over trajectories |
| Paper search (`recipes/paper_search`) | paper pool, order, flags, history | search, expand, score, pay | concurrent calls of one step share the pool across awaits | kept, paid for and expanded once; ends |
| Paper service clients (`http_retry.py`, `paper_client.py`, `serper.py`) | semaphores, attempts, key pool | request, back off, retry, rotate and remove keys | a slot held or released twice across attempts; searches that change the pool under each other | slots conserved, no usable key skipped, every call ends |
| Pi sidecar client (`pi_sidecar_client.py`) | process, reader tasks, queues, ready future, locks | start, open, send, read, fail all, close | a reader of a dead process and its successor share fields | one process; sessions hear of the end; events complete and in order |
| Pi session (`pi_tau_agent_flow.py`, `main.mjs`, `pi_tau_env.py`) | pending requests, turn, end flags | request/response both ways, turn limit, close | three parties with one message channel | one step per generation; rewards where earned; the episode ends |
| HotpotQA, ALFWorld flows | passages, query and action histories | search/act, finish | exhausted budgets, two histories, copied final steps | prompts true of the environment, the last step scored |
| WebShop (`engine.py`, `server.py`, flow) | page, options, goal | click, search, buy | legal clicks depend on the page; the server is stateless | menu honoured, paid for what was bought, goal stays winnable |
| Flow registry, tokenization, single-step flow; configuration and wiring; GSM8K; data preparation and documentation | none that changes while training | | sequential | |

The state of every component lives in one asyncio loop or one process; components
share no memory except inside such a loop.  They interact by Ray calls (driver to
workers), by torch collectives (rank to rank), by awaited HTTP requests, and in the
tau2 recipe by JSON lines over pipes.


## 2 The modules

| Module | Models | Uses |
|---|---|---|
| `TrajectoryPlan` | which row belongs to which mini-batch and rank, as sets | |
| `TrajectoryBatching` | the lists the code builds, from the rollout to the chunks of the ranks | EXTENDS `TrajectoryPlan` |
| `PPOUpdate` | the ranks and their collectives, running the plan | EXTENDS `TrajectoryPlan`, INSTANCE `UpdatePromise` |
| `UpdatePromise` | abstract: an update as one process would do it, mini-batch by mini-batch | |
| `AgentEnvLoop` | the coroutine of one trajectory, for all trajectories | |
| `AgentRollout` | manager, workers, engines and alignment around these coroutines | EXTENDS `AgentEnvLoop`, INSTANCE `RolloutPromise` |
| `RolloutPromise` | abstract: one call, one episode per prompt, in order, or an exception | |
| `Validation` | a rollout whose rows are attributed to trajectories and dumped | EXTENDS `AgentRollout` |
| `RewardLoop` | scoring one step, retries included | |
| `HttpRetry` | requests under semaphores, with retries | |
| `SerperSearch` | searches that use them and share a pool of API keys | EXTENDS `HttpRetry` |
| `ServiceCalls` | the two retry loops beside each other | EXTENDS `RewardLoop`, `SerperSearch` |
| `TrainerFit` | the driver's loop with restarts | |
| `Loops` | a sum and a filter, as loops compute them | |
| `PaperSearch` | one episode of the paper search agent | EXTENDS `Loops` |
| `PiSidecarClient` | the client object, its processes and its readers | |
| `PiSession` | one tau2 episode: flow, sidecar session, two pipes | INSTANCE `EpisodePromise` |
| `EpisodePromise` | abstract: rows until one is marked as the end, then a return, or an exception | |
| `HotpotQA`, `ALFWorld` | one episode of the flow with its environment | `HotpotQA` EXTENDS `Loops` |
| `WebShopEngine` | goals, pages, actions and rewards, as operators | EXTENDS `Loops` |
| `WebShop` | one episode of the flow against that engine | EXTENDS `WebShopEngine` |
| `RecipeFlows` | an episode of one of the three | EXTENDS `HotpotQA`, `ALFWorld`, `WebShop` |
| `StepAdvantage` | the advantage estimators, as operators | |
| `PPOLoss` | losses, their slicing and aggregation, as operators | EXTENDS `StepAdvantage` |
| `Estimators` | one batch through both, against the definitions | EXTENDS `PPOLoss` |
| `MC*` | the instance TLC checks | EXTENDS the module it is named after |
| `SequenceFacts` | lemmas about lists, folds, sums and induction, for any module | |
| `*Proofs` | the theorems about the module they are named after (`PPOUpdateProofs`: also about the plan and the lists; `RecipeProofs`: about `PaperSearch` and `RecipeFlows`; `TrainerProofs`: about `TrainerFit` and `Estimators`) | EXTENDS it, `SequenceFacts` and `TLAPS` |

### TrajectoryPlan and TrajectoryBatching

A row is `[uid, valid, tokens]`: its trajectory, its `sample_mask`, and the number of
tokens its `response_mask` leaves in the loss.  The actions are the four calls of
`fit` that take the rollout's batch to the ranks: `PadToWorldSize`, `BalanceBatch`
(any permutation: the order by sequence length is one of them),
`PrepareTrajectoryMiniBatch` and `Dispatch`.  `PreparedBatch` keeps the lists in the
code's order, because the worker group cuts the flat list into equal chunks and each
chunk is right only if every earlier list has the right length.
`TrajectoryPlan` says the same without lists: the trajectory's index in order of
first appearance decides its mini-batch and its rank.  `ImplementsPlan` is the link:
what the lists deliver is what the plan says.  That link lets `PPOUpdate` take its
row counts from the plan, and lets the proofs argue about sets.  `InOrder(n, S)` is the
loop the planner writes again and again: run over the indices and append those that
pass a test.  It is spelled out as that recursion, since a library operator for it would
be opaque to the prover.

### PPOUpdate

Each rank goes through the loops over epochs, mini-batches and micro-batches by
itself.  `Enter(r)` puts a rank into the collective it has reached.  The collectives
`AllReduceCount` (engine worker only), `ForwardBackward` and `OptimizerStep` complete
when *all* ranks are inside one of that kind.  As in the process group, nothing
compares what the ranks are working on: if they differ, the model either blocks or
mixes gradients, and the properties see both.  `seen` holds the entries whose
gradients a rank has accumulated; `applied` records what each optimizer step was made
of.  `worker` is chosen in `Init`: the FSDP worker or the engine worker.

`UpdatePromise` is what `fit` relies on when it calls `update_actor` or `update_critic`
once for a batch: there are no ranks, only a set of mini-batches still to be taken in the
epoch and the list of the steps made.  `KeepsPromise` is the refinement: the steps of
rank 0 are read off `order` and `position`, a step counts for all ranks with what each
of them holds, and the call has returned when the last rank has.

### AgentEnvLoop, AgentRollout, RolloutPromise, Validation

`flow[t]` is the coroutine of trajectory `t`.  Its program counter stands at the awaits
of `AgentEnvLoop.run`, which are exactly the places where the event loop can switch to
another trajectory.  A tool, the LLM server or the reward worker answers with anything
or raises.  `AgentRollout` adds the manager and the workers.  `gather` raises with the
first task that raises while the other tasks go on, and `ray.get` raises while other
workers go on; the model keeps these left-over loops running.
`_postprocess` and `DataProto.concat` are list operations and kept as such, since
`fit` later attributes rows to prompts only by counting them.

`RolloutPromise` is the trainer's view.  `KeepsPromise` is the refinement: `AgentRollout`
under the mapping that reads an episode off the returned rows and `num_steps`.

`Validation` is `_validate` on one test batch.  The same rollout serves it; `Validate`
then attributes rows to trajectories by adding up `num_steps`, with Python's index
-1 as the last row, raises where the code indexes past the end, and dumps the steps
under the uids of the prompts, which all samples of a prompt share.  A score is
represented by the rows it is the sum of, so that "the return of a trajectory" can be
compared with the steps the flow made.

### RewardLoop, HttpRetry, SerperSearch, ServiceCalls

`RewardLoop` has one program counter per step being scored: choice of the path
(`compute_score`), the attempts of `_post_request`, back-off, an answer that cannot be
read, and the two keys that `_compute_score` takes from the result.

`HttpRetry` is `httpx_request_with_retry`.  A request is ready, waits for a slot, is
being sent, sleeps, or is over; a step is the code between two awaits.  asyncio's
semaphore (external) hands a released slot to the request that has waited longest.
Status codes are the four classes the code tells apart.  `SerperSearch` adds
`search_google_via_serper` with `ApiKeyPool` (a list and an index, both changed by
every search) and the details requested by one `gather`, in which a refused request
ends the search while its siblings go on.  `spent` is a history of the keys that
failed.  `ServiceCalls` puts the two loops side by side; they share nothing, so a
behaviour is one of either.

### TrainerFit

A model is the sequence of the batches it was updated with, so that "trained on the
same data in the same order" is equality.  One action per call of `fit` that changes
state; `Restart` may follow any of them, and `LoadCheckpoint` restores step, loader
position and models.  The environment decides whether the machine is about to be taken
away (`esi`).

### PaperSearch

The actions are the steps of the flow and the stretches of `search` and `expand`
between two awaits.  `gather` first starts every task in order; after that, answers and
relevance scores arrive in any order.  Relevances are counted in halves of a point, so
the -0.5 for a refused call is the integer -1.

### PiSidecarClient

A coroutine runs alone until it awaits, so a step is the code between two awaits:
`Start` (the check before the lock), `Locked`, `Spawned`, `ReadyOrFailed`,
`StartTimesOut`, `Register`, `Send`, `NextEvent`, `EventTimesOut`, `Close`, `SendClose`.
A send writes its line and then waits in `drain()` with the write lock in its hands:
`writing[c]` is the process whose stdin caller `c` waits for, and nobody else can write
until `Drained`, `DrainRaises` or `Closed`.  Each spawn
has a record `proc[p]` (its stage, its stdout, the sessions it serves) and a reader task
`reader[p]`.  `_read_stdout` names the process through `self._process` in every round, so
`reader[k].on` is the process a reader is *on*, which need not be its own; the exit
and the *notice* of an exit (`returncode`) are two steps.  Garbage on stdout, a crash at
any moment and a process that never becomes ready are actions of the process.

### PiSession, EpisodePromise

`stage` is the coroutine of `PiTauAgentFlow.run`, `side` the session in `main.mjs`, and
`toSide` and `toFlow` are the two pipes (the second one including the session's queue).
The flow serves requests; the sidecar takes the turns.  `sending` is the command in whose
`drain()`, or behind whose write lock, the flow waits.  A reply of the model is what the
sidecar makes of it: one tool call, a text, or calls it refuses.  What the Pi SDK does
is external: it runs a turn, calls the tool or the `turn_end` subscriber and asks
`shouldStopAfterTurn`; where its reaction to an exception is not visible in this
repository, the model leaves it open.  `KeepsPromise` is the refinement to
`EpisodePromise`, the contract a trainer relies on.

### HotpotQA, ALFWorld, WebShop

Each is the `run` of a flow with one action per branch of its loop, and an environment
that answers by the code where the code is here (search tool, executor, WebShop engine)
and by anything where it is not (FAISS, the TextWorld game).  `RecipeFlows` chooses the
recipe in `Init`.  HotpotQA measures prompts in tokens and passages in characters, as the
code does, in small units.  ALFWorld's observation is the number of commands the game has
taken, so a prompt can be compared with the game.  `WebShopEngine` has both modes of the
engine (small and full), their goals and reward formulas in thousandths; options, pages
and sub-pages are those of `EnvState`, which travels with each request, since the
server keeps none.

### StepAdvantage, PPOLoss, Estimators

The estimators are written as the code computes them, over a table of rows with a
padding mask; the properties of `Estimators` define the same quantities over
trajectories, with sums over sets instead of backward passes.  Numbers are integers:
means are compared after multiplication with the size of the group, and the division by
a standard deviation, a positive factor of each group, is left out.  `PPOLoss` includes
the index arithmetic that finds the output belonging to a response token in a batch
without padding.


## 3 The runs

Deadlock checking stays on where the system must not stop (`TrajectoryBatching`,
`PPOUpdate`, where the finished state stutters explicitly) and is off where an episode,
a call or a training ends.

| Run (module, cfg) | Instance | Distinct states |
|---|---|---|
| `batching` (`TrajectoryBatching`) | 2 ranks (3 in the reference model), mini-batches of 3 trajectories, up to 4 trajectories of up to 2 steps, 4 rows, padded to 6 | 236,456 |
| `update` (`MCPPOUpdate`, `PPOUpdate.cfg`) | 3 ranks, 2 epochs, FSDP worker in the plan's order or engine worker in any order with `num_batches_divided_by` = 2, micro-batches of 2, three trajectories of up to 3 steps | 6,076 |
| `rollout` (`Validation`) | 2 workers, 1 or 2 prompts, 2 trajectories of each, 2 steps, then training or validation | 718,408 |
| `rollout_timing` (`AgentRollout`, `AgentRolloutTiming.cfg`) | 1 worker, 2 trajectories of up to 3 steps | violation |
| `service_calls` (`MCServiceCalls`, `ServiceCalls.cfg`) | 2 concurrent steps with 4 attempts; or 2 searches of 2 hits with 1 retry, semaphores of 0 or 1, three listed keys, two of them equal | 100,328 |
| `reward_disrm` (`RewardLoop`, `RewardLoopDisrm.cfg`) | 1 step | violation |
| `fit_loop` (`MCTrainerFit`, `TrainerFit.cfg`) | 2 epochs of 3 batches, 144 settings, 2 restarts | 31,422 |
| `paper_search` (`PaperSearch`) | 2 steps of up to 2 calls, 2 queries, 2 papers | 32,814 |
| `pi_client` (`PiSidecarClient`) | 2 flows, 2 spawns, 2 events | 1,274,165 |
| `pi_session` (`PiSession`) | 3 turns, 2 rewards | 54,452 |
| `recipes` (`MCRecipeFlows`, `RecipeFlows.cfg`) | HotpotQA: 2 queries, 3 passages, 3 steps; ALFWorld: a game of 3 moves in 4 steps; WebShop: 2 products with two options each, 4 turns | 850,604 |
| `estimators` (`MCEstimators`, `Estimators.cfg`) | 4 rows of 2 tokens, 7 estimators, 3 aggregations, 2 micro-batches | 73,584 |

**Batching.**  `ImplementsPlan`: what the lists deliver to the ranks is what the plan says:
each real row once, the steps of a trajectory together in one mini-batch of one rank,
mini-batches counted in trajectories.  `RanksAligned`: equally many entries per
mini-batch on all ranks, never none.  `GlobalInfoExact`: the denominators that travel with
each row count the unmasked rows and tokens of all ranks.  The bounds make a rank hold two
trajectories of a mini-batch, make a last mini-batch with one trajectory (the other rank
holds nothing but padding), and make the padding longer than the batch it copies from;
with four rows in six places, balancing can put any padding row before, between and
after the rows of its trajectory.

**Update.**  `SameWork`: when all ranks are inside a collective, it is the same one, for
the same micro-batch of the same mini-batch.  `FailTogether`: a refused mini-batch is
refused by all ranks.  `UpdateEnds`: the update ends, and one that is not refused has made
a step of every mini-batch in every epoch.  `KeepsPromise`: the ranks together behave as
`UpdatePromise`: each optimizer step has, on every rank, the gradient of all entries the
rank holds for one mini-batch (`StepIsMiniBatch`, which is proved by itself), and the call
does not return before the last mini-batch of the last epoch.  Three trajectories on three ranks in
mini-batches of two give ranks that hold a long trajectory, a short one and none, with
row counts below, at and above the micro-batch size; the divisor of 2 makes some
mini-batches refused and others not.

**Rollout.**  `EpisodesWhole`: attribution by counting survives split, gather,
concatenation and the two repeats; every row stands with its own prompt and in its own
trajectory.  `FinalAnswersScored`: the answer that ends an episode is worth what the
reward worker says.  `AwakeWhileInUse`: no loop asks a sleeping engine, not even a left-over
loop after the manager raised.  `CallNeverStuck`: until the call has returned or raised,
some step is possible, in every reachable state, so that it ends under the fairness of
section 4.  `ReportsItsOwn`: what a validation reports of a trajectory with steps is its
own, the dump has each step once, and only a last trajectory without steps makes it
raise.  `KeepsPromise`.  Two workers with two loops each are the smallest instance with
interleaving inside a worker, between workers, and a failure on one side only; a single
prompt covers the refused split, where there are fewer chunks than workers, and two
trajectories of a prompt the uid they share.

**Service calls.**  `GivesUpWithReason`: a request to the router is raised for its first
client error or after the last attempt, and a client error is never tried again.
`SlotsKept`: free slots and requests under way add up to the limit, through failures,
time-outs and back-offs, and nobody waits while a slot is free.  `NoKeySkipped`: a search
that raises for want of a key has seen every key it began with fail, whatever other
searches did to the pool meanwhile, and no key leaves the pool that did not fail.
`CallsEnd`: every search ends, with its details, and a score of the reward worker ends or
is left in a post the router does not answer.  The code makes 16 posts to the router; 4 show first, middle and last ones.  A limit of
one makes two requests wait behind one another; two searches with two hits put
five or six requests on it.  A key that is listed twice is the case in which removal and index
disagree most.

**Training loop.**  `TrainedInOrder`: models in memory and on disk are those of a run
that never died.  `LittleIsLost`: the next step is at most `save_freq` steps after the
checkpoint.  `FinalModelKept`: a run that reaches its last step saved and validated that
very model.  Totals short of, equal to and beyond the epochs, four save frequencies
(off, 1, 2, and one beyond an epoch), and two restarts, so that a restart can follow a
restored run, at every point of two epochs.

**Paper search.**  `PaidOnce`, `ExpandedOnce`: two calls of a step, or of two steps,
cannot keep and be paid for, or expand, the same paper twice.  `EpisodeEnds`.  Two calls
and two papers are what a race needs; a second step sees the history of the first.

**Pi client.**  `OneProcess`: at most one process is alive, however starts, exits and
notices of exits interleave.  `ToldOfTheEnd`: when the reader of a process has ended, each
session open on it finds an error in its queue.  `EventsInOrder`: until then, the queue and
the pipe of a session hold exactly the events sent and not taken, in order.  `OpenEnds`:
every start ends, and so does the `open_session` around it, unless somebody waits for ever
in the `drain()` of a process that lives and does not read (`Unread`).  Two flows are what
the race for the locks needs;
the second process is the successor that a late reader may take for its own; with two
events one session can receive two, or both can receive one.  A caller opens once, so that
"every opening ends" is "from some time on nobody is opening", which TLC checks without a
tableau.

**Pi session.**  `NoStrayGeneration`: the three checks by which the flow refuses a request,
step or end that does not fit its pending generations never fire.  `RewardsKept`: the
steps are those of generations 1, 2, ... and carry what the environment paid for them,
and an episode that is returned lacks none.  `KeepsPromise`.  `FlowEnds`: an episode ends
unless the flow is blocked for ever in a write to a sidecar that lives.  Three turns are a
first one, one with neighbours, and the one at the limit; refusals, failures, time-outs
and a crash may come at every message.

**Recipes.**  `EvidenceAccounted`: a HotpotQA passage is listed once, under a query of the
history that finds it, and the prompt stays within its budget.  `HistoryTrue`: the ALFWorld
prompt tells what was done in the game, although flow and executor keep a history each.
`ScoredAtTheEnd`: both leave exactly the final row to the reward function, with the totals
of the rows before it.  `MenuHonoured`: every click WebShop offers works on the page it is
sent to, also after lost requests and malformed calls.  `PaidForPurchase`: the bonus is paid
only at the end and only for what the clicks of the history add up to.
`GoalStaysWinnable`: from every state reached, opening the right product, choosing its
options and buying succeeds.  Three HotpotQA steps fill a budget that holds
one or two passages; four WebShop turns open a product, choose both options and buy.

**Estimators.**  `ReturnsAsDefined`: GAE by step or token and REINFORCE++ give every token
the discounted sum its definition asks for, over the steps of its own trajectory only.
`OutcomesAsDefined`: GRPO, RLOO and GiGPO compare with the group of the definition, and
GiGPO's step groups hold equal or similar observations of one prompt.  `LossAsDefined`: the
losses of micro-batches add up to that of the mini-batch for each aggregation, and each
term meets the output that predicted its token; means over rows are means over the real
rows the plan counts, those without a token that counts included (see 5).  Four rows hold a trajectory of
three steps beside a short one, or three trajectories of which two share a
prompt, in every order of the rows and with a copy that pads the batch; masks leave out
first or last tokens.  Numbers without a pattern keep two different sums from being equal
by chance.  `computed` is checked before the losses, which leave it as it is.


## 4 Fairness

- `PPOUpdate`: every rank goes on while it can, and a collective all ranks have entered
  completes.  Ranks are independent processes that run one loop.
- `AgentRollout`, `Validation`: weak fairness of the next-state relation.  asyncio and Ray
  run every ready task, and the LLM server, tools and reward worker answer or raise; no
  step can be repeated for ever, so that fairness to some step is enough.  The
  liveness of the call is therefore checked as the invariant `CallNeverStuck`: some step is
  enabled until the end.
- `ServiceCalls`: fairness of the steps of the reward worker, but not of its router: a post
  has no timeout (`total=None`), so that nothing ends it when the router does not, and
  `CallsEnd` allows this wait and no other.  Fairness also of
  the steps of requests and searches that have begun: httpx ends a request by its
  time-out, and a back-off or `Retry-After` is finite.  Nobody is obliged to begin a search.
- `PaperSearch`: `AnsweringSpec` is `PaperSpec /\ WF_paperVars(PaperNext)`: the paper service and
  selector are called with a timeout and a bounded number of retries, so that each
  request ends; every step makes progress, therefore fairness to some step is enough.
- `PiSidecarClient`: each caller, each reader, the notice of an exit, and the end of a
  `drain()` on a process that has exited, whose pipe is broken.  Nothing is
  asked of the process, which may never become ready, read, write or exit.
- `PiSession`: the flow's steps, and the end of a `drain()` on a sidecar that is dead.  Engine
  and environment answer or raise, and waiting
  for an event is bounded by `event_timeout`; the sidecar may hang, or stop reading, at any
  point.
- `TrainerFit`, `RecipeFlows` and `Estimators` state no liveness: the driver may die and stay
  down, and the others are bounded sequences of steps.


## 5 Findings

Two disagreements between the code and what it says of itself have a run that ends in
a violation:

1. `rollout_timing` (`agent_flow.py:1031`).  `_performance_metrics` cuts the times into
   slices of `num_steps`, but `t_generate_sequences` and `t_tool_calls` hold one number
   per *trajectory*.  What is reported under `agent_flow/slowest` is therefore not "the
   slowest trajectory": with step counts 2 and 3 it is the shorter one.
2. `reward_disrm` (`agent_flow.py:444`).  `compute_score_disrm` returns `reward_score`
   alone, `_compute_score` also reads `reward_extra_info`: a discriminative reward model
   ends in a `KeyError`, although the class promises to score with it.

Behaviour the models contain that a maintainer may want to know of; the properties are
stated such that it is allowed, and where:

- `ray_trainer.py:1203-1209`: "It's the last training step" is a reason to save, but with
  `total_training_steps` beyond epochs times batches no step is the last, so the final
  models are saved only if the frequency meets them.  `FinalModelKept` speaks of runs that
  reach their last step.
- `ray_trainer.py:663, 670`: a validated trajectory without steps takes the output of the
  one before it, and a last one makes the validation raise; `ray_trainer.py:652`: the dump
  merges the samples of one prompt.  `ReportsItsOwn` excepts these.
- `ray_trainer.py:516`: a training rollout is dumped after padding, so copied rows are
  written as further steps of their trajectory (not modelled).
- `agent_flow.py:684`: a worker whose prompts are all too long concatenates nothing, which
  raises and ends the rollout (`WorkerReturns`).
- `reward_loop.py:147`: the comment says "It's safer to have a timeout instead of None, which
  can hang indefinitely", and the session is opened with `total=None`.  When the router takes
  a post and does not answer, the worker stays in it, no attempt is counted, and the step,
  its gather and the rollout hang.  `CallsEnd` states this wait as the only one.
- `serper.py:121`: a key is removed after *any* exception.  An outage that outlasts the
  retries takes every key out of the pool for good.  In `NoKeySkipped` these keys have
  failed.
- `pi_sidecar_client.py:135`: one line that is no JSON ends the reader, not the process;
  sessions opened later are served by a process nobody reads, until their event timeout.
  `ToldOfTheEnd` is about the sessions that are open when the reader ends.  A reader that
  waits for the exit of a successor (`pi_sidecar_client.py:148`) tells the sessions of its own
  process late; no property bounds that.
- `pi_sidecar_client.py:124-126`: `drain()` is awaited under the write lock that all sessions
  share, without a timeout.  A sidecar that lives and stops reading blocks one writer once
  the pipe is full, and behind it every `open_session`, `respond` and `close` of every flow;
  `event_timeout` does not apply to them.  `OpenEnds` and `FlowEnds` state this wait as the
  only one that may last for ever.
- `trajectory_batching.py:182` with `core_algos.py:709-711, 720-723`: the planned size counts
  real rows without a token that counts, `agg_loss` left to count by itself does not, and
  neither does `assign_global_mini_batch_ids` (`ray_trainer.py:107-116`).  Such rows (for the
  critic, a step whose first token is a tool's) lower a mean over rows.  `LossAsDefined`
  takes the plan's count as the definition.
- `engine.py:477`: step knows no option without a name, though the menu lists its values; the
  catalogue assumption excludes it.
- `pi_sidecar_client.py:99`: when `start_session` cannot be sent, the queue stays
  registered.  `pi_tau_agent_flow.py:291`: when `session.close()` raises, `env.close()` is
  not reached.
- `full_catalog.py:174` with `engine.py:474`: a human goal keeps all options its instruction
  lists, and a session one value of each option name.  A goal that lists two unlike values
  of one name can never be met in full; `GoalStaysWinnable` excepts it (its proof failed
  until it did).
- `runtime.py:144, 196` (paper search): a query that failed counts as asked, and a paper
  whose expansion failed as expanded, so that trying again costs half a point.


## 6 The proofs

All proofs are checked by tlapm with Z3, Zenon and LS4; none assumes more than the
`ASSUME`s of the modules, which TLC evaluates on every run: positive sizes, batches with at
least one real row, types of the settings, and for WebShop what a catalogue may contain
(an option value reads like no control and no ASIN, options have names, ASINs are unique, and no product asks
for more than `Handful` = 200 attributes and options: the engine calls 0.999 of the points a
success, which one missing of three hundred would still reach), for the estimators what a
batch is (`IsBatch`: the steps of a trajectory follow one another, one row each, of one
prompt, and no token of a copy counts), that `Scale` and `TokenScale` are multiples of the
sizes by which means divide, and that an observation is similar to itself.

**`SequenceFacts`** (no state).  What the other proofs need of data of any length.  An
inductive argument is stated in first-order form: a set of naturals is given, and either
its least member (`LeastNatural`) or the fact that membership passes from `i` to `i + 1`
(`UpTo`) carries the proof.  On these rest the facts about `FlattenSeq` (the pieces stand
one after the other, each at its own offset; pieces of equal length at multiples of it),
about the folds of the community modules (a fold is the last of a list of partial results),
about searches that go on with smaller and smaller numbers (`ShrinkExists`, `ShrinkEnds`),
about `\div` and `%`, about sums over finite sets (`Total` can be taken in any order,
renamed along a bijection, and a list without repetitions sums to its set: `AddsUp`,
`TotalRenamed`), about sums along a list (`Sum` of an appended, joined, changed or
larger list), about what a loop collects (`AmongFacts`) and about sorting by a key
(`KeyedSorted`).  `SumFunctionOnSet`, which picks the elements of a set in an unknown order,
is shown to be the one function on the subsets that any element may be taken out of
(`SumsExist`, `SumIsOver`); from that, sums over unions, parts, supports and multiples
(`SumUnion`, `SumParts`, `SumSupport`, `SumScaled`).  A backward recursion over `0 .. n`
exists (`DownExists`), and so does one upwards without end (`UpExists`).

**`PPOUpdateProofs`**: the plan, the lists that carry it out, the update that runs it.

*The plan.*  `RanksHoldEqualCounts`: for each mini-batch every
rank has the same positive number of entries.  `PlanKeepsTrajectoriesWhole`.
`PlanPartitionsRows`: every valid row is in exactly one mini-batch of one rank.
The core is that the first rows of the groups count the
trajectories (`FirstRowsCountTrajectories`) and that a group's index is below that count
(`GroupIndexRange`).

*The lists.*  `ListsImplementPlan` (`[]ImplementsPlan`), `EqualCutAlignsRanks`
(`[]RanksAligned`) and `LossDenominatorsExact` (`[]GlobalInfoExact`), for every batch,
number of ranks, mini-batch size and padding.  The inductive invariant `BInv` is small:
the batch is a non-empty list of rows, what was prepared is `PreparedBatch` of it, what a
rank holds is its `Chunk`.  The argument follows the code: the groups are the trajectories in order of
first appearance (`GroupsAreTrajectories`); mini-batches cut that list (`BatchesAreCut`);
dealing round robin gives a rank the rows the plan gives it (`DealtRight`,
`RankRowsRight`); padding adds copies to make all lengths equal (`PaddedEntriesRight`);
hence the pieces of all ranks stand at the same offsets (`RanksJoined`), so that the equal
cut hands a rank exactly its own (`ChunksAreRanks`), and the entries of an id are one piece
(`LocalMiniBatchRight`).  The denominators are sums in two orders over the same
rows: along the groups of the mini-batch and along what the ranks hold
(`TokensAddUp`, `HeldTokensAddUp`).

*The update.*  `TypeCorrect`, `CollectivesMatch` (`[]SameWork`),
`StepsAreMiniBatches` and `RefusedByAll` for every group size, batch, worker, micro-batch
size and shuffling.  `SameWork` is not inductive: it speaks only of the moment when all
ranks are inside a collective.  `IInv` adds

- `LockStep`: ranks share epoch and position; those that have begun the mini-batch share
  its progress; while one has not begun, none has passed its first collective;
- `BlockedInCollective`: only a rank with a collective to enter waits in one;
- `Progress`: what a rank has accumulated is what its first `micro` micro-batches cover.

Ranks count their micro-batches from their own rows; they agree because
`RanksHoldEqualCounts` gives them equally many, which is where the padding of the plan
enters the argument.  `CoveredNext` and `CoveredAll` show for both ways of cutting that
consecutive micro-batches join without gap and end with the last entry.
`UpdateKeepsPromise` is the refinement of `UpdatePromise`, from `IInv` alone.  Of all
steps only `OptimizerStep` changes what the promise sees (`PromiseUnchanged`), apart from a
first refusal; it is one `Apply`, since the ranks stand at the same position of the same
order (`LockStep`), what they have seen is all they hold (`AppliedWhole`), and the
mini-batches from `position` on lose exactly one, because an order names each once
(`OrderOnto`, `PendingAfter`).

**`AgentRolloutProofs`**.  All five for every number of workers, prompts, trajectories per
prompt and steps.  `RequestsFindEnginesAwake` (`[]AwakeWhileInUse`).  `RInv` says that only trajectories that
were asked for run, that a worker that returned has no loop running, that the manager
waits only if every worker has a chunk, and hence that nothing runs once the outputs are
collected.  The last step needs that the chunks cover all trajectories (`ChunksCover`,
arithmetic of `(n - 1) // k + 1`).  `BatchHoldsEpisodesWhole` (`[]EpisodesWhole`),
`AnswersAreScored` (`[]FinalAnswersScored`) and `PromiseKept` (the refinement of
`RolloutPromise`, initial state and every step) follow from `EInv`, which adds

- `FlowsRight`: a loop's steps are unfinished but for the last one, and the last one of an
  episode whose environment ended carries a score;
- `OutputRight`: the manager's rows are the rows of the trajectories in order, joined
  without gap (`RowsJoined`), and `num_steps` is the list of their lengths
  (`LengthsRight`), although the chunks of the workers lie in between;
- `BatchRight`: the aligned batch is that output with the uids repeated as often.

That counting rows attributes each to its own prompt is the lemma that the sums of
`num_steps` are the offsets of the joined pieces (`SumIsOffset`, `AlignedJoined`).
`ValidationReportsItsOwn` (`[]ReportsItsOwn`, of `ValidationSpec`) rests on the same offsets:
`VInv` adds to `EInv` that what was validated is what the code counts off the output.
Hence the table's line for a trajectory is about it (`SampleIs`), and each step is dumped
once (`DumpedOnce`).  The entry of a prompt lists those steps without repetition, sorted by
`step_index` (`StepsOfIs`, by `KeyedSorted`: pieces with one key each, joined by key), and
there is one entry per prompt with steps (`EntryOnce`).

**`TrainerProofs`**, the driver.  `FitTypeCorrect` and `RestartsChangeNothing` (`[]TrainedInOrder`) for
all settings, epochs, batches and any number of restarts.  The strengthening `Place` ties
the step number to epoch and loader position (`steps = epoch * StepsPerEpoch + position`
within a step), and `SavedPlace` says the same of the checkpoint, so that
`loaded // StepsPerEpoch` is the right epoch also for a checkpoint taken at the end of one.
`FinalModelSurvives` (`[]FinalModelKept`) follows the announced last step through
validation, checkpoint and return (`EndPlace`).  `LessThanSaveFreqIsLost`
(`[]LittleIsLost`): the steps since the checkpoint were all passed over by `save_freq`, so
there are no more of them than the remainder of the step by it (`LagInv`).

*The estimators*, for every number of rows and tokens, every batch that `IsBatch` admits,
integer discounts, clip ranges and outputs of the models.  The invariant (`EInv`) is short:
the batch is one that can be handed over, and what was computed was computed from it.  The
work is in the operators.  `ReturnsFollowDefinition` (`[]ReturnsAsDefined`): the row of a
trajectory's step stands alone at its place of the table (`RowsAtAre`, `TableIs`), and going
backwards step by step is the sum over the steps from there on, weighed with powers of the
discount (`BackwardsIs`, by `DiscountStep`).  For tokens, the place in the timeline orders
the tokens of a trajectory (`PlacesAre`), a token the model did not write moves nothing
(`NoTokenHere`) and one it wrote moves every later token one further away (`TokenHere`);
that the distance counts the tokens between is `FromTokenIs`.
`OutcomesFollowDefinition` (`[]OutcomesAsDefined`): the rows of a trajectory are summed once
and name one prompt (`OutcomesAre`, `SiblingsAre`); RLOO's factor `n / (n - 1)` on the
distance from the mean is the distance from the mean of the others (`LeftOutIs`); the
clusters of GiGPO exist row by row (`LeadersExist`), and a row joins the first open one
(`ClustersAre`).  `LossFollowsDefinition` (`[]LossAsDefined`): what `agg_loss` adds for a row
is the sum over its terms (`RowLossIs`), a row without one adds nothing in any mode
(`MeansAdd`, `TotalsAdd`), and a denominator is zero only when there is no term at all
(`AggIs`); the output that scores a token is found after the offsets of the rows before it
(`ResponseOutputIs`); and the two-sided clipping is the clipped objective of either sign of
the advantage (`PolicyTokenIs`).

**`ServiceCallsProofs`**.  `NeverGivesUpEarly` (`[]GivesUpWithReason`): a post under way or
about to be repeated has an attempt left and no client error behind it (`AttemptLeft`);
`NorBesideSearches` is the same for the composition the run checks.  `NoSlotLost`
(`[]SlotsKept`), for every limit and any number of requests: `HttpInv` says that free slots
and requests being sent add up to the limit, and that the queue lists each waiting request
once; without the second part a released slot could wake a request that already has one.
`NoKeyLeftUntried` (`[]NoKeySkipped`), for every list of keys and number of searches: while
a search tries its keys (`Trying`), each key it began with that is gone from the pool has
failed, however the other searches moved the shared index meanwhile.

**`PiSessionProofs`**.  `NeverAStray` (`[]NoStrayGeneration`), `RewardsArrive`
(`[]RewardsKept`) and `PromiseKept` (the refinement of `EpisodePromise`), for every turn
limit and set of rewards, whatever crashes, times out or is refused.  The inductive
invariant lists the four situations in which an active episode can be (`InStep`:
`BeforeTurns`, `BetweenTurns`, `Generating`, `Acting`), each fixing what the two pipes,
`pending` and the sidecar hold together; `Ledger` ties the rows to what the environment
paid; `ClosedWell` is what remains once the flow has left its loop.

**`PiSidecarClientProofs`**.  `OneSidecarAlive` (`[]OneProcess`), `EverySessionTold`
(`[]ToldOfTheEnd`) and `EventsArriveInOrder` (`[]EventsInOrder`), for any number of flows,
spawns and events.  `LockInv` says that the lock is held from the check to the end of the
start, `ProcInv` that only the newest process can be alive and that one it replaces has
exited, which also covers the processes callers still write to, `ReaderInv` which process a
reader follows, `ToldInv` and `OrderInv` what is in
the queues.

**`RecipeProofs`**, paper search.  `NeverExpandedTwice` (`[]ExpandedOnce`): a paper is
appended to what was asked for only together with its flag, and the pool never shrinks.
`NeverPaidTwice` (`[]PaidOnce`), for any number of papers, queries, steps and concurrent
calls: `PaidInv` says that the order lists the pool without repetitions, that a call
has earned something only when it is done, and that the rewards of the steps and of the
calls under way do not exceed the worth of the papers kept.  A call that ends keeps
the papers that are new *at that moment* (`AmongFacts`), so their worth is added on both
sides; the best `RewardTopK` of them are worth no more than all of them.

*ALFWorld and HotpotQA.*  `HistoryOfTheGame` (`[]HistoryTrue`): the flow's history is
the executor's followed by the markers of the malformed calls since (`AlfHistory`); that no
marker counts as done needs `AlfAssumption`, that the marker is no command of the game.
`LastRowScored` (`[]ScoredAtTheEnd`): `AlfScored` adds to it that the executor's running
reward is the sum along the rows (`PaidNext`) and that nothing follows a finished game;
`HotpotScored` says the same of the final answer.
`EvidenceTraced` (`[]EvidenceAccounted`), for any corpus, index, lengths and budgets:
`EvidenceInv` says that the list of passages is `Traced` (each text once, under a query of
the history that finds it) and that each row's prompt and anchor show beginnings of it.
A batch only appends (`BatchTraced`: two nested folds), so what a row showed stays a beginning.
That the block stops shrinking, at a size that fits or at the floor, is `ShrinkEnds` applied
to the recursion of `Prompt` (`PromptFits`).

*WebShop*, for every catalogue, ranking of its products, price range, page size, number of
turns, both modes, and any requests lost or refused.  `MenuIsHonoured` (`[]MenuHonoured`):
`MenuInv` says that the flow's observation and menu are those of the state it holds, that a
results page lists products and a product page names one, so each kind of click
finds what it needs (`MenuWorks`, by `ClickCases`).
`BonusDeserved` (`[]PaidForPurchase`): `BoughtInv` adds that the state tells what the history
says (`Tells`): the product last opened after the last search, and for each option name the
value clicked last since (`LastOf`), and that nobody was paid before the end.  What remains
is that a score counts as a success just when every part is met (`SmallSuccess`,
`FullSuccess`), arithmetic of rounded thousandths that needs `Handful`.
`EpisodesStayWinnable` (`[]GoalStaysWinnable`) follows from the type of the state alone: the
plan is a fold over a list of clicks whose partial states exist (`PlanSteps`, by
`FoldExists`); after the search the product is opened, each option click leaves the earlier
ones standing, since a goal's values belong to names of their own, and the purchase scores
full marks (`PlanEnds`), its own type included (`OwnType`).

The first four theorems of `AgentRolloutProofs` are about the specification of
`AgentRollout`; the run checks the same properties in `Validation`, which extends it.

**Only model-checked.**  Liveness (`UpdateEnds`, `CallsEnd`, `EpisodeEnds`, `OpenEnds`,
`FlowEnds`), which needs fairness and ENABLED, and `CallNeverStuck`, which is ENABLED.
Every other property of a passing run is also a theorem.


## 7 What is left out

- *Data.*  Tensors, tokens, prompts, texts and rewards as real numbers.  Gradients are
  the sets of entries they come from; a model is the list of its updates.
- *External code.*  verl, torch, Ray, torchdata, asyncio, httpx, the Pi agent SDK, tau2,
  FAISS and TextWorld are modelled by how the code uses them and marked external in the
  map: `DataProto.repeat`, `sample_level_repeat` and `chunk`; collectives without names;
  `gather`; semaphores that serve in order.  A checkpoint is written in one step (verl
  writes the tracker file last).  A data loader restored at the end of its epoch begins
  anew.
- *Of modelled components.*  `PPOUpdate`: dynamic batch sizes, and updates without a plan
  (the trainer always plans).  `AgentRollout`: tensors of `_postprocess`, multi-modal
  inputs, tracing, server start-up; of the teacher's log-probabilities only that they can
  be refused.  `AgentEnvLoop`: chat templates, parsing, environments other than
  `ToolEnv`.  `Validation`: several test batches, metrics by data source, the table of
  generations, the training dump.  `RewardLoop`: prompt preparation, length of the
  back-off.  `HttpRetry`, `SerperSearch`: length of the back-off, the blocking variant
  (nothing calls it), the selector (the same loop without a semaphore), references and
  citations (requests like a search).  `TrainerFit`: `val_only`, profiling, curriculum
  sampling, hooks, the asynchronous reward future.  `PaperSearch`: history text, cut-off
  dates, missing abstracts, costs (0); its requests end as `CallsEnd` says.
  `PiSidecarClient`: shutdown beyond the exit it causes, stderr, the registry of clients.
  `PiSession`: conversion of messages and schemas, skills, metrics.  `WebShopEngine`: the
  building of indices and stores, text normalisation, rendering.  `HotpotQA`, `ALFWorld`:
  loading of encoder, index and games.  `StepAdvantage`, `PPOLoss`: standard deviations (a
  single step has none, `core_algos.py:139`), `seq-mean-token-sum-norm`, entropy and KL
  terms, the reinforce and bypass losses, metrics.
- *Components.*  Registries, tokenization and configuration, the GSM8K tool, data
  preparation, scripts and examples keep no state worth a model: each is a sequence of
  calls made once or a function of its arguments.  The single-step flow is `AgentEnvLoop`
  cut after a step.


## 8 The plan

The order follows the weight of the behaviour: first what decides which rows are trained
on and with whom, then what produces the rows, then the recipes with the hardest
protocols, then the pure algorithms.  All modules of the plan exist.  What remains:

| | Module | Goal | Argument |
|---|---|---|---|
| 1 | `Validation` | several test batches, the training dump | offsets as in `EpisodesWhole` |
