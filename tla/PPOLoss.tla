------------------------------ MODULE PPOLoss -------------------------------
(***************************************************************************)
(* The losses of a micro-batch on one rank: the response part of the       *)
(* model's output, the clipped losses of policy and critic for each token, *)
(* and their aggregation with the denominators of the whole mini-batch.    *)
(* Probability ratios and clip ranges are in tenths.  A loss is a fraction.*)
(***************************************************************************)
EXTENDS StepAdvantage, SequencesExt

CONSTANTS ClipLow, ClipHigh, DualClip, ClipValue, PromptLength(_),
    Ratio(_), Prediction(_),    \* what policy and critic put out at a place
    TokenScale                  \* a multiple of every possible number of tokens of a row

ASSUME LossAssumption ==
    /\ ClipLow \in Nat /\ ClipHigh \in Nat /\ DualClip \in Int /\ ClipValue \in Int
    /\ TokenScale \in Nat /\ \A n \in Tokens : TokenScale % n = 0
    /\ \A i \in Rows : PromptLength(i) \in Nat \ {0}

Modes == {"token-mean", "seq-mean-token-sum", "seq-mean-token-mean"}

Clamp(x, low, high) == Max({low, Min({x, high})})

\* The rows of a micro-batch laid out without padding, position by position.
Unpadded(b, rows) ==
    FlattenSeq([n \in DOMAIN rows |->
        [p \in 1..(PromptLength(rows[n]) + b.length[rows[n]]) |-> <<rows[n], p>>]])

\* The place whose output scores response token j of the n-th row: a model
\* predicts a token at the position before it.  Padded at the end.
ResponseOutput(b, rows, n, j) ==
    LET width == [m \in 1..n |-> PromptLength(rows[m]) + b.length[rows[m]]]
        ends == SumFunctionOnSet(width, 1..n)
        i == rows[n]
    IN  IF j <= b.length[i] THEN {Unpadded(b, rows)[ends - b.length[i] - 1 + j]} ELSE {}

PolicyTokenLoss(advantage, ratio) ==
    LET loss == Max({-advantage * ratio, -advantage * Clamp(ratio, 10 - ClipLow, 10 + ClipHigh)})
    IN  IF advantage < 0 THEN Min({-advantage * DualClip, loss}) ELSE loss

Square(x) == x * x

ValueTokenLoss(prediction, return, value) ==
    Max({Square(prediction - return),
         Square(Clamp(prediction, value - ClipValue, value + ClipValue) - return)})

\* The critic learns the value of a step at its first token only.
CriticMask(b, estimator) ==
    IF estimator = "token_gae" THEN b.mask
    ELSE [i \in Rows |-> [j \in Tokens |-> IF j = 1 THEN b.mask[i][1] ELSE 0]]

\* The denominators of the mini-batch, as planned for all ranks.
GlobalInfo(b, mask, ranks) ==
    [dpSize |-> ranks,
     tokens |-> SumFunctionOnSet([i \in Valid(b) |-> SumFunctionOnSet(mask[i], Tokens)], Valid(b)),
     size |-> Cardinality(Valid(b))]

\* Defect: every micro-batch takes its own mean.
AggLossLocal(loss, mask, rows, mode, info) ==
    LET sum(i) == SumFunctionOnSet([j \in Tokens |-> loss[i][j] * mask[i][j]], Tokens)
        count(i) == SumFunctionOnSet(mask[i], Tokens)
        answered == {i \in rows : count(i) > 0}
        row(i) == IF mode = "seq-mean-token-mean" THEN (TokenScale * sum(i)) \div count(i)
                  ELSE TokenScale * sum(i)
        denominator == IF mode = "token-mean" THEN SumFunctionOnSet([i \in rows |-> count(i)], rows)
                       ELSE Cardinality(answered)
    IN  IF denominator = 0 THEN [num |-> 0, den |-> 1]
        ELSE [num |-> info.dpSize * SumFunctionOnSet([i \in answered |-> row(i)], answered),
              den |-> denominator]

AggLoss(loss, mask, rows, mode, info) ==
    LET sum(i) == SumFunctionOnSet([j \in Tokens |-> loss[i][j] * mask[i][j]], Tokens)
        count(i) == SumFunctionOnSet(mask[i], Tokens)
        answered == {i \in rows : count(i) > 0}
        row(i) == IF mode = "seq-mean-token-mean" THEN (TokenScale * sum(i)) \div count(i)
                  ELSE TokenScale * sum(i)
        denominator == IF mode = "token-mean" THEN info.tokens ELSE info.size
    IN  IF denominator = 0 THEN [num |-> 0, den |-> 1]
        ELSE [num |-> info.dpSize * SumFunctionOnSet([i \in answered |-> row(i)], answered),
              den |-> denominator]

\* The output for every response token; nothing at a padded one.
ResponseTable(b, rows, output) ==
    [i \in ToSet(rows) |-> [j \in Tokens |->
        LET places == ResponseOutput(b, rows, CHOOSE n \in DOMAIN rows : rows[n] = i, j)
        IN  SumFunctionOnSet(output, places)]]

PolicyLoss(b, advantages, rows, mode, ranks) ==
    LET ratio == ResponseTable(b, rows, [p \in ToSet(Unpadded(b, rows)) |-> Ratio(p)])
        loss == [i \in ToSet(rows) |-> [j \in Tokens |-> PolicyTokenLoss(advantages[i][j], ratio[i][j])]]
    IN  AggLoss(loss, b.mask, ToSet(rows), mode, GlobalInfo(b, b.mask, ranks))

ValueLoss(b, estimator, returns, rows, mode, ranks) ==
    LET predicted == ResponseTable(b, rows, [p \in ToSet(Unpadded(b, rows)) |-> Prediction(p)])
        mask == CriticMask(b, estimator)
        loss == [i \in ToSet(rows) |-> [j \in Tokens |->
                    ValueTokenLoss(predicted[i][j], returns[i][j], b.value[i][j])]]
    IN  AggLoss(loss, mask, ToSet(rows), mode, GlobalInfo(b, mask, ranks))
=============================================================================
