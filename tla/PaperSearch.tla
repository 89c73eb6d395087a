---------------------------- MODULE PaperSearch ----------------------------
(***************************************************************************)
(* One episode of the paper search agent: PaperSearchAgentFlow.run over    *)
(* PaperSearchRuntime.  The tool calls of a step run as concurrent tasks   *)
(* that share the paper pool; each gives up the loop while the paper       *)
(* service answers and while the selector scores what was found.           *)
(***************************************************************************)
EXTENDS Loops, FiniteSetsExt

CONSTANTS
  Papers, SearchQueries,
  MaxSteps,          (* max_steps                                           *)
  MaxParallelCalls,  (* max_parallel_calls                                  *)
  RewardTopK,        (* reward_top_k                                        *)
  Relevances,        (* bound: relevances considered, in halves; 0 is below *)
                     (* the 0.01 that keeps a paper                         *)
  ScoreThreshold,    (* score_threshold, in halves                          *)
  DiscreteReward,    (* use_discrete_reward                                 *)
  MaxFound           (* bound: papers in one answer of the service          *)

ASSUME SearchAssumption ==
  /\ MaxSteps \in Nat \ {0} /\ MaxParallelCalls \in Nat \ {0}
  /\ RewardTopK \in Nat \ {0} /\ MaxFound \in Nat
  /\ Relevances \subseteq Nat /\ ScoreThreshold \in Nat
  /\ DiscreteReward \in BOOLEAN

VARIABLES
  pc,        (* where run is                                                *)
  numSteps,
  calls,     (* the tool calls of the step, each with its task              *)
  pool,      (* paper_pool: the kept papers and their scores                *)
  ordered,   (* ordered_paper_ids                                           *)
  expanded,  (* papers whose expand flag is set                             *)
  searched,  (* history_search_queries: results kept of each query          *)
  rewards,   (* reward of each step                                         *)
  fetched    (* history: the papers whose neighbours the service was asked  *)
             (* for, in order                                               *)

paperVars == <<pc, numSteps, calls, pool, ordered, expanded, searched, rewards, fetched>>

Requests == [kind : {"search"}, arg : SearchQueries] \union [kind : {"expand"}, arg : Papers]

(* -0.5, in halves *)
Refused == -1

NewCall(r) ==
  [kind |-> r.kind, arg |-> r.arg, pc |-> "ready", found |-> <<>>, reward |-> 0]

Finish(i, reward) == [calls EXCEPT ![i].pc = "done", ![i].reward = reward]

(* gather starts its tasks one after the other before any answer arrives.  *)
AllStarted == \A i \in DOMAIN calls : calls[i].pc # "ready"

-----------------------------------------------------------------------------
(* Rewards *)

(* What a kept paper is worth. *)
Worth(score) ==
  IF DiscreteReward THEN (IF score >= ScoreThreshold THEN 2 ELSE 0) ELSE score

(* The best RewardTopK scores: fewer than that stand before them in the     *)
(* sorted list.                                                            *)
TopScores(kept) ==
  {k \in DOMAIN kept :
     Cardinality({j \in DOMAIN kept : kept[j] > kept[k] \/ (kept[j] = kept[k] /\ j < k)})
       < RewardTopK}

(* The reward of a call that kept papers of these scores, costs 0. *)
CallReward(kept) ==
  Sum([k \in DOMAIN kept |-> IF k \in TopScores(kept) THEN Worth(kept[k]) ELSE 0])

-----------------------------------------------------------------------------
(* The steps of the agent *)

PaperInit ==
  /\ pc = "generate" /\ numSteps = 0 /\ calls = <<>>
  /\ pool = <<>> /\ ordered = <<>> /\ expanded = {} /\ searched = <<>>
  /\ rewards = <<>> /\ fetched = <<>>

(* The model answers without a tool call: the last step. *)
StopSearching ==
  /\ pc = "generate" /\ numSteps < MaxSteps
  /\ numSteps' = numSteps + 1
  /\ rewards' = Append(rewards, 0)
  /\ pc' = "finished"
  /\ UNCHANGED <<calls, pool, ordered, expanded, searched, fetched>>

(* execute_tool_calls with the calls of the model *)
ExecuteToolCalls ==
  /\ pc = "generate" /\ numSteps < MaxSteps
  /\ \E requests \in SeqOf(Requests, MaxParallelCalls) :
       calls' = [i \in DOMAIN requests |-> NewCall(requests[i])]
  /\ numSteps' = numSteps + 1
  /\ pc' = "execute"
  /\ UNCHANGED <<pool, ordered, expanded, searched, rewards, fetched>>

(* Defect: a step without reward does not count. *)
FinishStepUncounted ==
  /\ pc = "execute"
  /\ \A i \in DOMAIN calls : calls[i].pc = "done"
  /\ LET reward == Sum([i \in DOMAIN calls |-> calls[i].reward]) IN
     /\ rewards' = IF reward = 0 THEN rewards ELSE Append(rewards, reward)
     /\ numSteps' = IF reward = 0 THEN numSteps - 1 ELSE numSteps
     /\ pc' = IF numSteps' < MaxSteps THEN "generate" ELSE "finished"
  /\ calls' = <<>>
  /\ UNCHANGED <<pool, ordered, expanded, searched, fetched>>

(* gather has all rewards; the step is appended. *)
FinishStep ==
  /\ pc = "execute"
  /\ \A i \in DOMAIN calls : calls[i].pc = "done"
  /\ rewards' = Append(rewards, Sum([i \in DOMAIN calls |-> calls[i].reward]))
  /\ pc' = IF numSteps < MaxSteps THEN "generate" ELSE "finished"
  /\ calls' = <<>>
  /\ UNCHANGED <<numSteps, pool, ordered, expanded, searched, fetched>>

-----------------------------------------------------------------------------
(* The tasks *)

NextToStart(i) == calls[i].pc = "ready" /\ \A j \in 1 .. i - 1 : calls[j].pc # "ready"

(* search: a query of an earlier search is refused. *)
StartSearch(i) ==
  /\ NextToStart(i) /\ calls[i].kind = "search"
  /\ calls' = IF calls[i].arg \in DOMAIN searched
                THEN Finish(i, Refused)
                ELSE [calls EXCEPT ![i].pc = "asking"]
  /\ UNCHANGED <<pc, numSteps, pool, ordered, expanded, searched, rewards, fetched>>

(* Defect: the flag is set by whoever comes back with an answer. *)
StartExpandUnflagged(i) ==
  /\ NextToStart(i) /\ calls[i].kind = "expand"
  /\ LET p == calls[i].arg IN
     IF p \notin DOMAIN pool \/ p \in expanded
       THEN /\ calls' = Finish(i, Refused)
            /\ UNCHANGED <<expanded, fetched>>
       ELSE /\ calls' = [calls EXCEPT ![i].pc = "asking"]
            /\ fetched' = Append(fetched, p)
            /\ UNCHANGED expanded
  /\ UNCHANGED <<pc, numSteps, pool, ordered, searched, rewards>>

(* expand: the paper must be in the pool, and not expanded before. *)
StartExpand(i) ==
  /\ NextToStart(i) /\ calls[i].kind = "expand"
  /\ LET p == calls[i].arg IN
     IF p \notin DOMAIN pool \/ p \in expanded
       THEN /\ calls' = Finish(i, Refused)
            /\ UNCHANGED <<expanded, fetched>>
       ELSE /\ calls' = [calls EXCEPT ![i].pc = "asking"]
            /\ expanded' = expanded \union {p}
            /\ fetched' = Append(fetched, p)
  /\ UNCHANGED <<pc, numSteps, pool, ordered, searched, rewards>>

Remember(i, n) ==
  searched' = IF calls[i].kind = "search"
                THEN [q \in DOMAIN searched \union {calls[i].arg} |->
                       IF q = calls[i].arg THEN n ELSE searched[q]]
                ELSE searched

(* What an answer of the service may list: each paper once, without the    *)
(* expanded paper itself.                                                  *)
Listings(i) ==
  {s \in SeqOf(Papers, MaxFound) : IsInjective(s) /\ calls[i].arg \notin Range(s)}

(* The service answers; papers of the pool are not scored again. *)
ServiceAnswers(i) ==
  /\ AllStarted /\ calls[i].pc = "asking"
  /\ \E answer \in Listings(i) :
       LET new == Among(answer, Papers \ DOMAIN pool) IN
       IF new = <<>>
         THEN calls' = Finish(i, 0) /\ Remember(i, 0)
         ELSE /\ calls' = [calls EXCEPT ![i].pc = "scoring", ![i].found = new]
              /\ UNCHANGED searched
  /\ UNCHANGED <<pc, numSteps, pool, ordered, expanded, rewards, fetched>>

(* The service fails after its retries. *)
ServiceFails(i) ==
  /\ AllStarted /\ calls[i].pc = "asking"
  /\ calls' = Finish(i, 0)
  /\ Remember(i, 0)
  /\ UNCHANGED <<pc, numSteps, pool, ordered, expanded, rewards, fetched>>

(* Defect: papers that came into the pool meanwhile are kept once more. *)
KeptAgain(i, relevance) ==
  LET found == calls[i].found IN Among(found, {p \in Range(found) : relevance[p] > 0})

(* The found papers that are relevant and still new. *)
Kept(i, relevance) ==
  LET found == calls[i].found
  IN Among(found, {p \in Range(found) : relevance[p] > 0 /\ p \notin DOMAIN pool})

Paid(i, relevance) ==
  LET kept == Kept(i, relevance)
  IN CallReward([k \in DOMAIN kept |-> relevance[kept[k]]])

(* gather has the relevance of every found paper; a selector that fails    *)
(* makes it 0.                                                             *)
ScoresArrive(i) ==
  /\ AllStarted /\ calls[i].pc = "scoring"
  /\ \E relevance \in [Range(calls[i].found) -> Relevances \union {0}] :
       LET kept == Kept(i, relevance) IN
       /\ pool' = [p \in DOMAIN pool \union Range(kept) |->
                    IF p \in DOMAIN pool THEN pool[p] ELSE relevance[p]]
       /\ ordered' = ordered \o kept
       /\ Remember(i, Len(kept))
       /\ calls' = Finish(i, Paid(i, relevance))
  /\ UNCHANGED <<pc, numSteps, expanded, rewards, fetched>>

CallStep(i) ==
  \/ StartSearch(i) \/ StartExpand(i)
  \/ ServiceAnswers(i) \/ ServiceFails(i) \/ ScoresArrive(i)

PaperNext ==
  \/ StopSearching \/ ExecuteToolCalls \/ FinishStep
  \/ \E i \in DOMAIN calls : CallStep(i)

PaperSpec == PaperInit /\ [][PaperNext]_paperVars

(* Requests have timeouts and a bounded number of retries. *)
AnsweringSpec == PaperSpec /\ WF_paperVars(PaperNext)

-----------------------------------------------------------------------------
(* Correctness *)

(* Calls of one step that find the same paper at the same time keep it and *)
(* are paid for it once: the order of discovery lists every paper of the   *)
(* pool exactly once, and the rewards never exceed what these are worth.   *)
PaidOnce ==
  /\ IsInjective(ordered) /\ Range(ordered) = DOMAIN pool
  /\ Sum(rewards) + Sum([i \in DOMAIN calls |-> calls[i].reward])
       <= Sum([k \in DOMAIN ordered |-> Worth(pool[ordered[k]])])

(* The service is asked for the neighbours of a paper at most once, and    *)
(* only for papers of the pool (expand).                                   *)
ExpandedOnce ==
  /\ IsInjective(fetched)
  /\ Range(fetched) = expanded
  /\ expanded \subseteq DOMAIN pool

(* The episode ends, whatever the services answer (run, max_steps).        *)
EpisodeEnds == <>(pc = "finished")

=============================================================================
