--------------------------- MODULE StepAdvantage ----------------------------
(***************************************************************************)
(* The advantage estimators of the trainer.  A batch holds one row per     *)
(* step of a trajectory, in any order, and copies of rows that only fill   *)
(* it up.  Numbers are integers: where the code takes a mean, both sides   *)
(* are multiplied by Scale (or, when centring, by the number of values),   *)
(* and the division by the standard deviation, a positive factor for each  *)
(* group, is left out.                                                     *)
(*                                                                         *)
(* A batch b has, for every row, valid (no padding), traj, step, uid (its  *)
(* prompt), anchor (its observation), and for every row and token mask,    *)
(* reward and value.                                                       *)
(***************************************************************************)
EXTENDS Integers, FiniteSetsExt, Functions

CONSTANTS NumRows, ResponseLength, Gamma, Lambda, StepWeight, Similar(_, _),
    Scale       \* a multiple of every possible size of a group

ASSUME EstimatorAssumption ==
    /\ NumRows \in Nat \ {0} /\ ResponseLength \in Nat \ {0}
    /\ Gamma \in Int /\ Lambda \in Int /\ StepWeight \in Int
    /\ Scale \in Nat /\ \A n \in 1..NumRows : Scale % n = 0

Rows == 1..NumRows
Tokens == 1..ResponseLength

\* Defect: the copies count like rows of their own.
ValidWithPadding(b) == Rows

\* get_valid_data: compute_advantage leaves padding rows out.
Valid(b) == {i \in Rows : b.valid[i]}

----------------------------------------------------------------------------
(* The sequences of steps of the trajectories.                             *)

StepReward(b, i) ==
    SumFunctionOnSet([j \in Tokens |-> b.reward[i][j] * b.mask[i][j]], Tokens)

Trajectories(b) == {b.traj[i] : i \in Valid(b)}
LastStep(b) == Max({b.step[i] : i \in Valid(b)})
RowsAt(b, t, s) == {i \in Valid(b) : b.traj[i] = t /\ b.step[i] = s}

\* A (step, trajectory) table of zeros with x, a number for every row, written into it.
Table(b, x) ==
    [s \in 0..LastStep(b) |-> [t \in Trajectories(b) |-> SumFunctionOnSet(x, RowsAt(b, t, s))]]

\* The loop over the steps, last one first, for all trajectories at once.
Backwards(b, table, factor) ==
    LET last[s \in 0..LastStep(b) + 1] ==
            IF s > LastStep(b) THEN [t \in Trajectories(b) |-> 0]
            ELSE [t \in Trajectories(b) |-> table[s][t] + factor * last[s + 1][t]]
    IN  [i \in Valid(b) |-> last[b.step[i]][b.traj[i]]]

\* Only the steps of the batch are centred, not their tokens.
Centred(b, x) ==
    LET sum == SumFunctionOnSet(x, Valid(b))
    IN  [i \in Valid(b) |-> Cardinality(Valid(b)) * x[i] - sum]

Broadcast(b, x) ==
    [i \in Rows |-> [j \in Tokens |-> IF i \in Valid(b) THEN x[i] * b.mask[i][j] ELSE 0]]

RewardTable(b) == Table(b, [i \in Valid(b) |-> StepReward(b, i)])

\* The value before the first response token stands for the step.
ValueTable(b) == Table(b, [i \in Valid(b) |-> b.value[i][1]])

Deltas(b, rewards, values) ==
    [s \in 0..LastStep(b) |-> [t \in Trajectories(b) |->
        rewards[s][t] + Gamma * (IF s < LastStep(b) THEN values[s + 1][t] ELSE 0) - values[s][t]]]

StepGAE(b) ==
    LET advantage == Backwards(b, Deltas(b, RewardTable(b), ValueTable(b)), Gamma * Lambda)
    IN  [advantages |-> Broadcast(b, Centred(b, advantage)),
         returns |-> Broadcast(b, [i \in Valid(b) |-> advantage[i] + b.value[i][1]])]

\* Backwards over the tokens of all steps of a trajectory; a token that the
\* model did not write, and a step without a row, change nothing.
Generated(b) == {w \in Valid(b) \X Tokens : b.mask[w[1]][w[2]] = 1}
LastToken(b) == (LastStep(b) + 1) * ResponseLength
TokenPlace(b, w) == b.step[w[1]] * ResponseLength + w[2] - 1
TokensAt(b, t, p) == {w \in Generated(b) : b.traj[w[1]] = t /\ TokenPlace(b, w) = p}

TokenUpdate(b, w, after) ==
    LET i == w[1]
        j == w[2]
    IN  [value |-> b.value[i][j],
         gae |-> b.reward[i][j] + Gamma * after.value - b.value[i][j] + Gamma * Lambda * after.gae]

TokenBackwards(b) ==
    LET later[p \in 0..LastToken(b)] ==
            IF p = LastToken(b) THEN [t \in Trajectories(b) |-> [value |-> 0, gae |-> 0]]
            ELSE [t \in Trajectories(b) |->
                    LET here == TokensAt(b, t, p)
                    IN  IF here = {} THEN later[p + 1][t]
                        ELSE TokenUpdate(b, CHOOSE w \in here : TRUE, later[p + 1][t])]
    IN  [w \in Valid(b) \X Tokens |-> later[TokenPlace(b, w)][b.traj[w[1]]].gae * b.mask[w[1]][w[2]]]

TokenGAE(b) ==
    LET gae == TokenBackwards(b)
        sum == SumFunctionOnSet(gae, Generated(b))
    IN  [advantages |-> [i \in Rows |-> [j \in Tokens |->
             IF i \in Valid(b) THEN Cardinality(Generated(b)) * gae[<<i, j>>] - sum ELSE 0]],
         returns |-> [i \in Rows |-> [j \in Tokens |->
             IF i \in Valid(b) THEN (gae[<<i, j>>] + b.value[i][j]) * b.mask[i][j] ELSE 0]]]

DiscountedReturns(b) == Backwards(b, RewardTable(b), Gamma)

Reinforce(b) ==
    [advantages |-> Broadcast(b, Centred(b, DiscountedReturns(b))),
     returns |-> Broadcast(b, DiscountedReturns(b))]

----------------------------------------------------------------------------
(* The estimators that compare the outcomes of a prompt.                   *)

\* One score and one prompt for each trajectory; the first row names it.
TotalScores(b) ==
    [t \in Trajectories(b) |->
        SumFunctionOnSet([i \in Valid(b) |-> StepReward(b, i)], {i \in Valid(b) : b.traj[i] = t})]
PromptOf(b, t) == b.uid[Min({i \in Valid(b) : b.traj[i] = t})]
Siblings(b, t) == {u \in Trajectories(b) : PromptOf(b, u) = PromptOf(b, t)}

\* Mean of a group, times Scale; a trajectory without sibling has mean zero.
GroupMean(b, t) ==
    LET group == Siblings(b, t)
    IN  IF Cardinality(group) = 1 THEN 0
        ELSE (Scale * SumFunctionOnSet(TotalScores(b), group)) \div Cardinality(group)

Outcome(b, x) == LET a == Broadcast(b, x) IN [advantages |-> a, returns |-> a]

RelativeScore(b, t) == Scale * TotalScores(b)[t] - GroupMean(b, t)

Grpo(b) == Outcome(b, [i \in Valid(b) |-> RelativeScore(b, b.traj[i])])

LeaveOneOut(b, t) ==
    LET n == Cardinality(Siblings(b, t))
    IN  IF n = 1 THEN Scale * TotalScores(b)[t] ELSE (RelativeScore(b, t) * n) \div (n - 1)

Rloo(b) == Outcome(b, [i \in Valid(b) |-> LeaveOneOut(b, b.traj[i])])

\* The first row of the group of rows that observed the same, among the rows
\* of a prompt: either by equality, or the first cluster whose first
\* observation is similar enough.
SameObservation(b, i) ==
    Min({k \in Valid(b) : b.uid[k] = b.uid[i] /\ b.anchor[k] = b.anchor[i]})

\* Defect: a row joins the group of any earlier row like it.
SimilarClustersChained(b) ==
    LET first[i \in Valid(b)] ==
            LET open == {k \in Valid(b) : /\ k < i /\ b.uid[k] = b.uid[i]
                                          /\ Similar(b.anchor[i], b.anchor[k])}
            IN  IF open = {} THEN i ELSE first[Min(open)]
    IN  first

SimilarClusters(b) ==
    LET first[i \in Valid(b)] ==
            LET open == {k \in Valid(b) : /\ k < i /\ b.uid[k] = b.uid[i] /\ first[k] = k
                                          /\ Similar(b.anchor[i], b.anchor[k])}
            IN  IF open = {} THEN i ELSE Min(open)
    IN  first

StepGroups(b, similarity) ==
    IF similarity THEN SimilarClusters(b) ELSE [i \in Valid(b) |-> SameObservation(b, i)]

Gigpo(b, similarity) ==
    LET groups == StepGroups(b, similarity)
        returns == DiscountedReturns(b)
        mean(i) == LET group == {k \in Valid(b) : groups[k] = groups[i]}
                   IN  (Scale * SumFunctionOnSet(returns, group)) \div Cardinality(group)
    IN  Outcome(b, [i \in Valid(b) |->
            RelativeScore(b, b.traj[i]) + StepWeight * (Scale * returns[i] - mean(i))])

Estimators == {"gae", "token_gae", "reinforce", "grpo", "rloo", "gigpo", "gigpo_similar"}

ComputeAdvantage(b, estimator) ==
    CASE estimator = "gae" -> StepGAE(b)
      [] estimator = "token_gae" -> TokenGAE(b)
      [] estimator = "reinforce" -> Reinforce(b)
      [] estimator = "grpo" -> Grpo(b)
      [] estimator = "rloo" -> Rloo(b)
      [] estimator = "gigpo" -> Gigpo(b, FALSE)
      [] estimator = "gigpo_similar" -> Gigpo(b, TRUE)
=============================================================================
