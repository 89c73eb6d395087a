---------------------------- MODULE AgentEnvLoop ----------------------------
(***************************************************************************)
(* AgentEnvLoop.run with ToolEnv: the interaction loop that produces one   *)
(* trajectory.  Every await of the coroutine is a point where the worker   *)
(* switches to another trajectory, so each is an action of its own: ask    *)
(* the LLM, run the tools, score the step.  The LLM server, the tools and  *)
(* the reward worker are external: they answer with any result or raise.   *)
(* `flow' holds the loops of all trajectories; AgentRollout starts them    *)
(* and collects what they return.                                          *)
(***************************************************************************)
EXTENDS Integers, FiniteSets, SequencesExt

CONSTANTS
  Trajectories,  (* the trajectories that may run                          *)
  MaxSteps,      (* agent flow max_steps                                    *)
  MaxToolCalls,  (* bound: tool calls the model puts in one response        *)
  ToolRewards,   (* rewards a tool can return                               *)
  Scores,        (* scores the reward worker can return                     *)
  NoReward       (* None                                                    *)

ASSUME LoopAssumption ==
  /\ MaxSteps \in Nat \ {0}
  /\ MaxToolCalls \in Nat
  /\ ToolRewards \subseteq Int /\ Scores \subseteq Int
  /\ NoReward \notin Int

VARIABLE flow

(* The awaits of the loop, and how it can end. *)
LoopPoints == {"prompting", "generating", "acting", "scoring"}
PCs == {"idle", "finished", "failed"} \cup LoopPoints

(* An AgentFlowStep: the reward it carries and, as history, whether the    *)
(* environment said the episode is over.                                   *)
NoStep == [reward |-> NoReward, done |-> FALSE]

(* pending: the step between env.step and the append.  time: what          *)
(* simple_timer has added up in `metrics' over the steps so far, taking    *)
(* each step as one unit of time.                                          *)
IdleFlow == [pc |-> "idle", steps |-> <<>>, pending |-> NoStep, time |-> 0]

-----------------------------------------------------------------------------
(* ToolEnv.step *)

(* A call of an unknown tool yields an error text and None, like a tool    *)
(* that returns no reward.                                                 *)
ToolResults == BoundedSeq(ToolRewards \cup {NoReward}, MaxToolCalls)

(* Defect: None is counted as 0, so a step without reward looks rewarded   *)
(* and is never scored.                                                    *)
TotalRewardCountNone(results) ==
  FoldLeft(LAMBDA total, r : IF r = NoReward THEN total ELSE total + r, 0, results)

TotalReward(results) ==
  FoldLeft(LAMBDA total, r : IF r = NoReward THEN total
                             ELSE IF total = NoReward THEN r ELSE total + r,
           NoReward, results)

(* A response without tool calls is the final answer. *)
ToolEnvStep(results) ==
  [reward |-> TotalReward(results), done |-> results = <<>>]

-----------------------------------------------------------------------------
(* The loop *)

At(t, pc) == flow[t].pc = pc

(* Defect: the loop goes on after the environment is done. *)
LoopGoesOnAfterDone(steps) == Len(steps) < MaxSteps

(* for step_idx in range(max_steps), left by `if done: break' *)
LoopGoesOn(steps) ==
  /\ Len(steps) < MaxSteps
  /\ steps # <<>> => ~ Last(steps).done

StartFlow(f) == [f EXCEPT !.pc = "prompting"]

(* _obs_to_prompt: a prompt that fits is sent to the LLM, one that does    *)
(* not ends the trajectory with the steps it has, possibly none.           *)
ObsToPrompt(t) ==
  /\ At(t, "prompting")
  /\ \E next \in {"generating", "finished"} : flow' = [flow EXCEPT ![t].pc = next]

(* server_manager.generate returned, the response is decoded. *)
Generated(t) ==
  /\ At(t, "generating")
  /\ flow' = [flow EXCEPT ![t].pc = "acting"]

(* env.step returned *)
EnvStep(t) ==
  /\ At(t, "acting")
  /\ \E results \in ToolResults :
       flow' = [flow EXCEPT ![t].pc = "scoring",
                            ![t].pending = ToolEnvStep(results),
                            ![t].time = @ + 1]

(* _compute_score: the reward worker is asked when the environment gave    *)
(* no reward.                                                              *)
ScoredSteps(step) ==
  IF step.reward = NoReward
    THEN {[step EXCEPT !.reward = s] : s \in Scores} ELSE {step}

(* _postprocess of the step, the append and the end of the loop body *)
AppendStep(t) ==
  /\ At(t, "scoring")
  /\ \E step \in ScoredSteps(flow[t].pending) :
       LET steps == Append(flow[t].steps, step) IN
       flow' = [flow EXCEPT ![t].pc = IF LoopGoesOn(steps) THEN "prompting" ELSE "finished",
                            ![t].steps = steps,
                            ![t].pending = NoStep]

(* The LLM server, a tool or the reward worker raised, or the assertion on *)
(* the step's reward failed; nothing in the loop catches it.               *)
FlowRaises(t) ==
  /\ flow[t].pc \in {"generating", "acting", "scoring"}
  /\ flow' = [flow EXCEPT ![t].pc = "failed"]

FlowStep(t) ==
  \/ ObsToPrompt(t) \/ Generated(t) \/ EnvStep(t) \/ AppendStep(t)
  \/ FlowRaises(t)
=============================================================================
