----------------------------- MODULE RewardLoop -----------------------------
(***************************************************************************)
(* Scoring steps with a reward worker: _compute_score of the agent flow    *)
(* asks RewardLoopWorker.compute_score, which runs the reward manager or,  *)
(* when a discriminative reward model is enabled, posts to its router and  *)
(* tries again after a failure.  The steps of all trajectories of a worker *)
(* are scored concurrently.  The router is external: it answers, fails or  *)
(* stays silent.                                                           *)
(***************************************************************************)
EXTENDS Integers

CONSTANTS
  Items,         (* steps being scored                                      *)
  MaxRetries     (* max_retries, 16 in the code                             *)

ASSUME RewardAssumption == MaxRetries \in Nat \ {0}

VARIABLES
  config,   (* is there a custom reward function, is a reward model enabled *)
  pc,       (* where the scoring of each step is                            *)
  attempt,  (* attempts already failed                                      *)
  last,     (* last_exception                                               *)
  answer,   (* keys of the result the flow received                         *)
  clientErrors  (* history: client errors the router answered               *)

vars == <<config, pc, attempt, last, answer, clientErrors>>

Keys == {"reward_score", "reward_extra_info"}

(* ClientResponseError below and from 500, TimeoutError and                *)
(* ClientConnectorError, and any other exception                           *)
Errors == {"client_error", "server_error", "unreachable", "unexpected"}

UsesDisrm == config.rm /\ ~ config.custom

Init ==
  /\ config \in [custom : BOOLEAN, rm : BOOLEAN]
  /\ pc = [i \in Items |-> "idle"]
  /\ attempt = [i \in Items |-> 0]
  /\ last = [i \in Items |-> "none"]
  /\ answer = [i \in Items |-> {}]
  /\ clientErrors = [i \in Items |-> 0]

(* compute_score chooses between the reward manager and the reward model.  *)
ComputeScore(i) ==
  /\ pc[i] = "idle"
  /\ pc' = [pc EXCEPT ![i] = IF UsesDisrm THEN "posting" ELSE "managing"]
  /\ UNCHANGED <<config, attempt, last, answer, clientErrors>>

(* reward_loop.run_single: verl's managers return both keys, or raise.     *)
RunSingle(i) ==
  /\ pc[i] = "managing"
  /\ \/ /\ pc' = [pc EXCEPT ![i] = "answered"]
        /\ answer' = [answer EXCEPT ![i] = Keys]
     \/ /\ pc' = [pc EXCEPT ![i] = "raised"]
        /\ UNCHANGED answer
  /\ UNCHANGED <<config, attempt, last, clientErrors>>

-----------------------------------------------------------------------------
(* _post_request *)

(* compute_score_disrm returns the score alone. *)
DisrmKeys == {"reward_score"}

(* An answer without the score where it is looked for is a KeyError or an  *)
(* IndexError, which is raised and not tried again.                        *)
AnswerUnread(i) ==
  /\ pc[i] = "posting"
  /\ pc' = [pc EXCEPT ![i] = "unread"]
  /\ UNCHANGED <<config, attempt, last, answer, clientErrors>>

PostAnswered(i) ==
  /\ pc[i] = "posting"
  /\ pc' = [pc EXCEPT ![i] = "answered"]
  /\ answer' = [answer EXCEPT ![i] = DisrmKeys]
  /\ UNCHANGED <<config, attempt, last, clientErrors>>

(* Defect: every error is tried again. *)
RetriesAlways(e) == TRUE

(* 4xx is raised at once. *)
Retries(e) == e # "client_error"

AttemptsLeft(n) == n < MaxRetries

(* Defect: a failed attempt is not counted. *)
PostFailedUncounted(i) ==
  /\ pc[i] = "posting"
  /\ \E e \in Errors :
       /\ last' = [last EXCEPT ![i] = e]
       /\ pc' = [pc EXCEPT ![i] = IF Retries(e) THEN "sleeping" ELSE "raised"]
  /\ UNCHANGED <<config, attempt, answer, clientErrors>>

(* An attempt failed with e: give up, or sleep before the next attempt.    *)
(* Whatever is given up is raised, `last' is never empty then.             *)
PostFailed(i) ==
  /\ pc[i] = "posting"
  /\ \E e \in Errors :
       /\ last' = [last EXCEPT ![i] = e]
       /\ clientErrors' = [clientErrors EXCEPT ![i] = @ + (IF e = "client_error" THEN 1 ELSE 0)]
       /\ attempt' = [attempt EXCEPT ![i] = @ + 1]
       /\ pc' = [pc EXCEPT ![i] = IF Retries(e) /\ AttemptsLeft(attempt[i] + 1)
                                    THEN "sleeping" ELSE "raised"]
  /\ UNCHANGED <<config, answer>>

(* asyncio.sleep(min(2 ** attempt, 30)) is over. *)
WakeUp(i) ==
  /\ pc[i] = "sleeping"
  /\ pc' = [pc EXCEPT ![i] = "posting"]
  /\ UNCHANGED <<config, attempt, last, answer, clientErrors>>

-----------------------------------------------------------------------------
(* _compute_score takes both keys from the result; a missing one is a      *)
(* KeyError in the flow.                                                   *)
TakeScore(i) ==
  /\ pc[i] = "answered"
  /\ pc' = [pc EXCEPT ![i] = IF Keys \subseteq answer[i] THEN "scored" ELSE "key_error"]
  /\ UNCHANGED <<config, attempt, last, answer, clientErrors>>

RouterStep(i) == PostAnswered(i) \/ AnswerUnread(i) \/ PostFailed(i)

WorkerStep(i) == ComputeScore(i) \/ RunSingle(i) \/ WakeUp(i) \/ TakeScore(i)

Next == \E i \in Items : WorkerStep(i) \/ RouterStep(i)

(* The worker's own steps are always taken.  The session of a post is      *)
(* opened with ClientTimeout(total=None): only the router can end it, and  *)
(* nothing makes the router answer.                                        *)
WorkerFairness == \A i \in Items : WF_vars(WorkerStep(i))

Spec == Init /\ [][Next]_vars /\ WorkerFairness

-----------------------------------------------------------------------------
Ended(i) == pc[i] \in {"scored", "key_error", "unread", "raised"}

TypeOK ==
  /\ config \in [custom : BOOLEAN, rm : BOOLEAN]
  /\ pc \in [Items -> {"idle", "managing", "posting", "sleeping", "answered",
                       "scored", "key_error", "unread", "raised"}]
  /\ attempt \in [Items -> 0 .. MaxRetries]
  /\ last \in [Items -> Errors \cup {"none"}]
  /\ answer \in [Items -> SUBSET Keys]
  /\ clientErrors \in [Items -> 0 .. MaxRetries]

(* A post that could still succeed is not given up: what was raised is     *)
(* either the one client error the router answered, or the error of the    *)
(* last of MaxRetries attempts; and no client error is ever tried again.   *)
GivesUpWithReason ==
  \A i \in Items :
    /\ pc[i] = "raised" /\ UsesDisrm =>
         \/ last[i] = "client_error" /\ clientErrors[i] = 1
         \/ last[i] \in Errors \ {"client_error"} /\ attempt[i] = MaxRetries
    /\ pc[i] \in {"posting", "sleeping", "answered"} => clientErrors[i] = 0

(* RewardLoopWorker's docstring promises that a discriminative reward      *)
(* model scores the step: an answer of the router is a score.              *)
DisrmScores == \A i \in Items : pc[i] # "key_error"
=============================================================================
