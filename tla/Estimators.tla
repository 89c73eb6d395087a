----------------------------- MODULE Estimators -----------------------------
(***************************************************************************)
(* One update of the trainer on one batch: compute_advantage with the      *)
(* configured estimator, then the losses of a micro-batch of it.  The      *)
(* properties compare what is computed with the definitions of the         *)
(* literature, written over trajectories instead of tables of rows.        *)
(***************************************************************************)
EXTENDS PPOLoss

CONSTANTS
    BatchFamilies,    \* the batches balancing and padding can hand over, as sets of them
    LossEstimators,   \* the estimators after which losses are computed
    MicroBatches,     \* sequences of rows
    Ranks

\* One row for each step of a trajectory, whose steps follow one another, and
\* copies of rows, whose tokens do not count; the prompt is that of the trajectory.
BatchType ==
    [valid : [Rows -> BOOLEAN],
     traj : [Rows -> Nat], step : [Rows -> Nat], uid : [Rows -> Nat], anchor : [Rows -> Nat],
     length : [Rows -> Nat], mask : [Rows -> [Tokens -> {0, 1}]],
     reward : [Rows -> [Tokens -> Int]], value : [Rows -> [Tokens -> Int]]]

IsBatch(b) ==
    LET real == {i \in Rows : b.valid[i]}
    IN  /\ b \in BatchType /\ real # {}
        /\ \A i, k \in real : b.traj[i] = b.traj[k] => b.uid[i] = b.uid[k]
        /\ \A i, k \in real : b.traj[i] = b.traj[k] /\ b.step[i] = b.step[k] => i = k
        /\ \A i \in real : b.step[i] = 0 \/ \E k \in real : b.traj[k] = b.traj[i] /\ b.step[k] = b.step[i] - 1
        /\ \A i \in Rows, j \in Tokens : b.mask[i][j] = 1 => i \in real /\ j <= b.length[i]

ASSUME BatchesAssumption ==
    \A family \in BatchFamilies : \A b \in family :
        /\ IsBatch(b)
        /\ \A i \in Rows : Similar(b.anchor[i], b.anchor[i])
        /\ \A i \in Rows : \A p \in 1..PromptLength(i) + b.length[i] :
              Ratio(<<i, p>>) \in Int /\ Prediction(<<i, p>>) \in Int
ASSUME MicroBatchesAssumption ==
    /\ Ranks \in Nat
    /\ \A rows \in MicroBatches : rows \in Seq(Rows) /\ IsInjective(rows)

VARIABLES data, estimator, computed, loss

estimateVars == <<data, estimator, computed, loss>>

None == [none |-> TRUE]

EstimateInit ==
    /\ \E family \in BatchFamilies : data \in family
    /\ estimator = None
    /\ computed = None
    /\ loss = None

\* algorithm.adv_estimator is configured once; a run here is one batch.
EstimateAdvantage(e) ==
    /\ computed = None
    /\ estimator' = e
    /\ computed' = ComputeAdvantage(data, e)
    /\ UNCHANGED <<data, loss>>

ComputeLoss(rows, mode) ==
    /\ computed # None
    /\ loss = None
    /\ estimator \in LossEstimators
    /\ loss' = [rows |-> ToSet(rows), mode |-> mode,
                policy |-> PolicyLoss(data, computed.advantages, rows, mode, Ranks),
                critic |-> ValueLoss(data, estimator, computed.returns, rows, mode, Ranks)]
    /\ UNCHANGED <<data, estimator, computed>>

EstimateNext ==
    \/ \E e \in Estimators : EstimateAdvantage(e)
    \/ \E rows \in MicroBatches, mode \in Modes : ComputeLoss(rows, mode)

EstimateSpec == EstimateInit /\ [][EstimateNext]_estimateVars

----------------------------------------------------------------------------
(* The definitions.                                                        *)

\* The losses leave what was estimated as it is.
Estimated == computed # None /\ loss = None

Real == {i \in Rows : data.valid[i]}
Written == {w \in Real \X Tokens : data.mask[w[1]][w[2]] = 1}

SameTrajectory(i, k) == data.traj[i] = data.traj[k]

Powers(base) == LET power[n \in Nat] == IF n = 0 THEN 1 ELSE base * power[n - 1] IN power

\* Sum of x over S, weighed with a power of base.
Discounted(base, S, distance, x) ==
    LET power == Powers(base)
    IN  SumFunctionOnSet([k \in S |-> power[distance[k]] * x[k]], S)

\* The rewards of a step, as far as the model wrote their tokens.
Reward == [i \in Real |-> SumFunctionOnSet(data.reward[i], {j \in Tokens : <<i, j>> \in Written})]

From(i) == {k \in Real : SameTrajectory(i, k) /\ data.step[k] >= data.step[i]}
Away(i) == [k \in From(i) |-> data.step[k] - data.step[i]]

ReturnFrom == [i \in Real |-> Discounted(Gamma, From(i), Away(i), Reward)]

FirstValue == [i \in Real |-> data.value[i][1]]

StepSurprise ==
    [i \in Real |-> Reward[i] - FirstValue[i]
        + Gamma * SumFunctionOnSet(FirstValue, {k \in From(i) : Away(i)[k] = 1})]

StepAdvantageOf == [i \in Real |-> Discounted(Gamma * Lambda, From(i), Away(i), StepSurprise)]

\* The tokens the model wrote in a trajectory form one sequence.
NotBefore(w, x) ==
    /\ SameTrajectory(w[1], x[1])
    /\ \/ data.step[x[1]] > data.step[w[1]]
       \/ w[1] = x[1] /\ x[2] >= w[2]
FromToken(w) == {x \in Written : NotBefore(w, x)}
Between(w) ==
    [x \in FromToken(w) |-> Cardinality({y \in Written \ {x} : NotBefore(w, y) /\ NotBefore(y, x)})]

TokenValue == [w \in Written |-> data.value[w[1]][w[2]]]

TokenSurprise ==
    [w \in Written |-> data.reward[w[1]][w[2]] - TokenValue[w]
        + Gamma * SumFunctionOnSet(TokenValue, {x \in FromToken(w) : Between(w)[x] = 1})]

TokenAdvantageOf ==
    [w \in Written |-> Discounted(Gamma * Lambda, FromToken(w), Between(w), TokenSurprise)]

\* How far x is from the mean of n values with this sum, n times.
FromMean(n, x, sum) == n * x - sum

\* Every token the model wrote has the value of its step, all others none.
OnTokens(table, value) ==
    \A i \in Rows : \A j \in Tokens : table[i][j] = IF <<i, j>> \in Written THEN value[i] ELSE 0

Centering(value) ==
    LET sum == SumFunctionOnSet(value, Real)
    IN  [i \in Real |-> FromMean(Cardinality(Real), value[i], sum)]

(* The estimators that follow a trajectory give every token the generalised *)
(* advantage, or the discounted return, of its step (of the token itself   *)
(* in token_gae) within its own trajectory, less the mean of the batch,    *)
(* whatever the order of the rows, wherever copies pad the batch, and      *)
(* however tokens of tools are mixed in; padding is given nothing          *)
(* (compute_gae_advantage_return, compute_token_gae_advantage_return,      *)
(* compute_reinforce_outcome_advantage).                                   *)
ReturnsAsDefined ==
    Estimated =>
    /\ estimator = "gae" =>
          /\ OnTokens(computed.advantages, Centering(StepAdvantageOf))
          /\ OnTokens(computed.returns, [i \in Real |-> StepAdvantageOf[i] + FirstValue[i]])
    /\ estimator = "reinforce" =>
          /\ OnTokens(computed.advantages, Centering(ReturnFrom))
          /\ OnTokens(computed.returns, ReturnFrom)
    /\ estimator = "token_gae" =>
          LET advantage == TokenAdvantageOf
              sum == SumFunctionOnSet(advantage, Written)
          IN  /\ \A w \in Written :
                    /\ computed.advantages[w[1]][w[2]] = FromMean(Cardinality(Written), advantage[w], sum)
                    /\ computed.returns[w[1]][w[2]] = advantage[w] + TokenValue[w]
              /\ \A i \in Rows \ Real : \A j \in Tokens : computed.advantages[i][j] = 0

----------------------------------------------------------------------------
OutcomeOf == [t \in {data.traj[i] : i \in Real} |->
                 SumFunctionOnSet(Reward, {i \in Real : data.traj[i] = t})]

\* The trajectories of the prompt of row i.
Peers(i) == {data.traj[k] : k \in {m \in Real : data.uid[m] = data.uid[i]}}

\* Scale times the distance from the mean of n values.
Scaled(n, x, sum) == (Scale * FromMean(n, x, sum)) \div n

Relative(i) ==
    LET n == Cardinality(Peers(i))
        own == OutcomeOf[data.traj[i]]
    IN  IF n = 1 THEN Scale * own ELSE Scaled(n, own, SumFunctionOnSet(OutcomeOf, Peers(i)))

LeftOut(i) ==
    LET others == Peers(i) \ {data.traj[i]}
        own == OutcomeOf[data.traj[i]]
    IN  IF others = {} THEN Scale * own
        ELSE Scaled(Cardinality(others), own, SumFunctionOnSet(OutcomeOf, others))

Stepped(i, first) ==
    LET group == {k \in Real : first[k] = first[i]}
    IN  Relative(i)
          + StepWeight * Scaled(Cardinality(group), ReturnFrom[i], SumFunctionOnSet(ReturnFrom, group))

\* Rows share a step group when their observations do; the similar ones
\* gather around the first observation that is like none before it.
StepGroupsSound(first, similarity) ==
    /\ \A i, k \in Real : first[i] = first[k] => data.uid[i] = data.uid[k]
    /\ \A i, k \in Real :
          data.uid[i] = data.uid[k] /\ data.anchor[i] = data.anchor[k] => first[i] = first[k]
    /\ \A i \in Real : first[i] \in Real /\ first[first[i]] = first[i]
    /\ \A i \in Real : first[i] # i =>
          IF similarity THEN Similar(data.anchor[i], data.anchor[first[i]])
          ELSE data.anchor[i] = data.anchor[first[i]]
    /\ similarity =>
          \A i, k \in Real : /\ first[i] = i /\ first[k] = k /\ i < k /\ data.uid[i] = data.uid[k]
                             => ~Similar(data.anchor[k], data.anchor[i])

(* The estimators that compare outcomes see every trajectory once, with    *)
(* the sum of its steps: GRPO subtracts the mean of its prompt, RLOO the   *)
(* mean of the others, and GiGPO adds how much better a step did than      *)
(* those that started from the same, or a similar, observation of the same *)
(* prompt.  Such a group never depends on the order of the rows when the   *)
(* observations are equal (_trajectory_total_scores, _build_step_groups,   *)
(* compute_grpo_outcome_advantage, compute_rloo_outcome_advantage,         *)
(* compute_gigpo_outcome_advantage).                                       *)
OutcomesAsDefined ==
    Estimated =>
    /\ estimator = "grpo" => OnTokens(computed.advantages, [i \in Real |-> Relative(i)])
    /\ estimator = "rloo" => OnTokens(computed.advantages, [i \in Real |-> LeftOut(i)])
    /\ \A similarity \in BOOLEAN :
          estimator = (IF similarity THEN "gigpo_similar" ELSE "gigpo") =>
          LET first == StepGroups(data, similarity)
          IN  /\ StepGroupsSound(first, similarity)
              /\ OnTokens(computed.advantages, [i \in Real |-> Stepped(i, first)])

----------------------------------------------------------------------------
\* The clipped objective of PPO with a second bound for bad actions.
Objective(advantage, ratio) ==
    IF advantage >= 0 THEN advantage * Min({ratio, 10 + ClipHigh})
    ELSE advantage * Min({DualClip, Max({ratio, 10 - ClipLow})})

\* The output that predicts response token j of row i.
PlaceOf(i, j) == <<i, PromptLength(i) + j - 1>>

PolicyTerm(w) == -Objective(computed.advantages[w[1]][w[2]], Ratio(PlaceOf(w[1], w[2])))

CriticTerm(w) ==
    LET i == w[1]
        j == w[2]
    IN  ValueTokenLoss(Prediction(PlaceOf(i, j)), computed.returns[i][j], data.value[i][j])

(* The loss of a micro-batch is the share of its rows in the loss of the   *)
(* whole mini-batch, in every aggregation mode: over all ranks, and after  *)
(* they have averaged their gradients, the micro-batches add up to the mean*)
(* over the tokens that count, or over the real rows that the plan counts. *)
(* These include rows without a token that counts (for the critic, a step  *)
(* whose first token is a tool's), which add nothing: the mean over rows is*)
(* then smaller than the one agg_loss takes on one device when it is given *)
(* no count, and equal to it when every real row has such a token.         *)
(* Padding and tokens of tools count nowhere, and every term meets the     *)
(* output that predicted its token (agg_loss, ppo_loss, value_loss,        *)
(* _slice_response_from_unpad_output, _assign_global_mini_batch_info).     *)
LossAsDefined ==
    loss # None =>
    LET Share(terms, term) ==
            LET mine == {w \in terms : w[1] \in loss.rows}
                ofRow(i) == {w \in mine : w[1] = i}
                mean(i) == (TokenScale * SumFunctionOnSet(term, ofRow(i))) \div Cardinality(ofRow(i))
            IN  IF loss.mode = "seq-mean-token-mean"
                THEN SumFunctionOnSet([i \in loss.rows |-> IF ofRow(i) = {} THEN 0 ELSE mean(i)], loss.rows)
                ELSE TokenScale * SumFunctionOnSet(term, mine)
        Counted(terms) == IF loss.mode = "token-mean" THEN Cardinality(terms) ELSE Cardinality(Real)
        Fits(l, terms, term) == l.num * Counted(terms) = Ranks * Share(terms, term) * l.den
        learnt == IF estimator = "token_gae" THEN Written ELSE {w \in Written : w[2] = 1}
    IN  /\ Fits(loss.policy, Written, [w \in Written |-> PolicyTerm(w)])
        /\ Fits(loss.critic, learnt, [w \in learnt |-> CriticTerm(w)])
=============================================================================
