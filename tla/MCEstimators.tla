---------------------------- MODULE MCEstimators ----------------------------
(* Four rows of two tokens.  One family of batches varies the tokens the    *)
(* model wrote, the other the prompts and the observations; both vary the   *)
(* order of the rows and where the copies stand that pad them.              *)
EXTENDS Estimators

\* Observations along a line: a neighbour is similar, the ends are not.
MCSimilar(a, b) == a - b \in -1..1

\* Numbers without a pattern, so that no two sums agree by chance.
MCRatio(place) == 4 + ((7 * place[1] + 5 * place[2] * place[2]) % 23)
MCPrediction(place) == ((5 * place[1] + 3 * place[2] * place[2]) % 7) - 2
MCPromptLength(i) == 1 + (i % 2)
RewardAt(place, j) == ((7 * place[1] + 5 * place[2] * place[2] + 3 * j) % 6) - 2
ValueAt(place, j) == ((4 * place[1] + 3 * place[2] + 5 * j + place[2] * j) % 5) - 1

Places(lengths) == UNION {{t} \X (0..(lengths[t] - 1)) : t \in DOMAIN lengths}

\* Rows for the steps of trajectories of these lengths, the rest are copies.
Layouts(lengths) ==
    {l \in [Rows -> Places(lengths)] : Range(l) = Places(lengths)}

Batch(layout, uid, anchor, mask) ==
    LET valid == [i \in Rows |-> \A k \in 1..(i - 1) : layout[k] # layout[i]]
    IN  [valid |-> valid,
         traj |-> [i \in Rows |-> layout[i][1]],
         step |-> [i \in Rows |-> layout[i][2]],
         uid |-> [i \in Rows |-> uid[layout[i][1]]],
         anchor |-> [i \in Rows |-> anchor[layout[i]]],
         mask |-> [i \in Rows |-> IF valid[i] THEN mask[layout[i]] ELSE <<0, 0>>],
         length |-> [i \in Rows |-> mask[layout[i]][2] + 1],
         reward |-> [i \in Rows |-> [j \in Tokens |-> RewardAt(layout[i], j)]],
         value |-> [i \in Rows |-> [j \in Tokens |-> ValueAt(layout[i], j)]]]

Masks == {<<1, 1>>, <<1, 0>>, <<0, 1>>}

TokenBatches(lengths) ==
    {Batch(layout, <<1, 1>>, [p \in Places(lengths) |-> 1], mask) :
       layout \in Layouts(lengths), mask \in [Places(lengths) -> Masks]}

\* Prompts and observations up to renaming.
Prompts(n) == IF n = 2 THEN {<<1, 1>>} ELSE {<<1, 1, 1>>, <<1, 1, 2>>}

\* The line may be read from either end; short trajectories are alike.
Observations(lengths) ==
    {a \in [Places(lengths) -> 1..3] : a[<<1, 0>>] < 3 /\ a[<<2, 0>>] <= a[<<Len(lengths), 0>>]}

GroupBatches(lengths) ==
    {Batch(layout, uid, anchor, [p \in Places(lengths) |-> <<1, 1>>]) :
       layout \in Layouts(lengths), uid \in Prompts(Len(lengths)),
       anchor \in Observations(lengths)}

MCBatchFamilies ==
    {TokenBatches(lengths) : lengths \in {<<3, 1>>, <<2, 1>>}}
    \cup {GroupBatches(lengths) : lengths \in {<<2, 1, 1>>, <<2, 1>>}}

MCMicroBatches == {<<1, 2>>, <<4>>}
=============================================================================
