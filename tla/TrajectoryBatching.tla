------------------------- MODULE TrajectoryBatching -------------------------
(***************************************************************************)
(* The path of one training batch from the rollout to the local batches of *)
(* the data-parallel ranks: _pad_dataproto_to_world_size, _balance_batch,  *)
(* prepare_trajectory_mini_batch and the dispatch of the worker group.     *)
(* The planner is modelled with the lists the code builds, in their order, *)
(* because the dispatch cuts the flattened list into equal chunks: a rank  *)
(* gets its own entries only if every list has the length the others have. *)
(***************************************************************************)
EXTENDS TrajectoryPlan, SequencesExt

CONSTANTS
  RefDpSize,        (* data-parallel size of a second consumer (ref/critic) *)
  MaxTrajectories,  (* bound: trajectories of the rollout                   *)
  MaxSteps,         (* bound: steps (rows) of a trajectory                  *)
  MaxRows,          (* bound: rows of the rollout                           *)
  MaxTokens         (* bound: response tokens of a row                      *)

ASSUME BoundsAssumption ==
  /\ RefDpSize \in Nat \ {0}
  /\ MaxTrajectories \in Nat \ {0}
  /\ MaxSteps \in Nat \ {0}
  /\ MaxRows \in Nat \ {0}
  /\ MaxTokens \in Nat \ {0}

VARIABLES
  stage,     (* how far the batch has come                               *)
  batch,     (* the training batch, a sequence of rows                   *)
  prepared,  (* the update batch: a sequence of entries, rank-major      *)
  local      (* the chunk of the update batch each rank received         *)

batchingVars == <<stage, batch, prepared, local>>

BatchRows == [uid : 1 .. MaxTrajectories, valid : BOOLEAN, tokens : 0 .. MaxTokens]

-----------------------------------------------------------------------------
(* _pad_dataproto_to_world_size *)

(* reduce(math.lcm, dp_sizes) *)
SizeDivisor ==
  Min({n \in 1 .. DpSize * RefDpSize : n % DpSize = 0 /\ n % RefDpSize = 0})

PadRow(row) == [row EXCEPT !.valid = FALSE, !.tokens = 0]

(* pad_dataproto_to_divisor appends copies of the leading rows, again and  *)
(* again when there are fewer rows than padding; they keep their           *)
(* trajectory uid and lose sample_mask and response_mask.                  *)
PaddedBatch(d) ==
  d \o [k \in 1 .. CeilDiv(Len(d), SizeDivisor) * SizeDivisor - Len(d) |->
          PadRow(d[((k - 1) % Len(d)) + 1])]

-----------------------------------------------------------------------------
(* prepare_trajectory_mini_batch: the lists *)

(* What a loop over the indices 1 .. n collects that appends those in S. *)
InOrder(n, S) ==
  LET collected[i \in 0 .. n] ==
        IF i = 0 THEN <<>>
        ELSE IF i \in S THEN Append(collected[i - 1], i) ELSE collected[i - 1]
  IN collected[n]

(* Defect: groups in the order of their uid, not of first appearance. *)
TrajectoryGroupsByUid(d) ==
  LET uids == InOrder(MaxTrajectories, TrajectoryUids(d))
  IN [g \in 1 .. Len(uids) |-> InOrder(Len(d), GroupRows(d, uids[g]))]

(* _build_trajectory_batches: the groups in order of first appearance,     *)
(* each with its rows in batch order.                                      *)
TrajectoryGroups(d) ==
  LET first == InOrder(Len(d), FirstRows(d))
  IN [g \in 1 .. Len(first) |-> InOrder(Len(d), GroupRows(d, d[first[g]].uid))]

(* _chunk_groups *)
TrajectoryBatches(d) ==
  LET groups == TrajectoryGroups(d)
  IN [k \in 1 .. CeilDiv(Len(groups), MiniBatchSize) |->
        SubSeq(groups, (k - 1) * MiniBatchSize + 1,
                       Min({k * MiniBatchSize, Len(groups)}))]

(* Groups go round-robin over the ranks: group g (from 0) to g % dp_size.  *)
RankRows(groups, r) ==
  FlattenSeq([k \in 1 .. CeilDiv(Len(groups) - r, DpSize) |->
                groups[(k - 1) * DpSize + r + 1]])

Entry(source, id, padding) ==
  [source |-> source, mini_batch_id |-> id, is_padding |-> padding]

(* Defect: ranks keep the lengths their trajectories give them. *)
PaddedRankEntriesUneven(groups, id, r) ==
  LET rows == RankRows(groups, r)
  IN [k \in 1 .. Len(rows) |-> Entry(rows[k], id, FALSE)]

(* The entries of rank r for one mini-batch, padded with its first row. *)
PaddedRankEntries(groups, id, r) ==
  LET rows == RankRows(groups, r)
      maxLocalRows == Max({1} \cup {Len(RankRows(groups, q)) : q \in Ranks})
  IN [k \in 1 .. maxLocalRows |->
        IF k <= Len(rows) THEN Entry(rows[k], id, FALSE)
                          ELSE Entry(groups[1][1], id, TRUE)]

(* _build_rank_ordered_entries: all entries of rank 0, then of rank 1, ... *)
RankEntries(batches, r) ==
  FlattenSeq([m \in 1 .. Len(batches) |-> PaddedRankEntries(batches[m], m - 1, r)])

RankOrderedEntries(batches) ==
  FlattenSeq([r \in 1 .. DpSize |-> RankEntries(batches, r - 1)])

(* Defect: trajectories are counted where rows are meant. *)
GlobalSizeInTrajectories(groups) == Len(groups)

(* _assign_global_mini_batch_info: totals over the real rows of a mini-batch *)
GlobalSize(groups) == Len(FlattenSeq(groups))

GlobalTokenNum(d, groups) ==
  FoldSeq(LAMBDA i, sum : sum + d[i].tokens, 0, FlattenSeq(groups))

(* The update batch: the entry's row with the masks of _zero_padding_loss_masks *)
(* and the per-mini-batch totals every rank divides its loss by.                *)
PreparedBatch(d) ==
  LET batches == TrajectoryBatches(d)
      entries == RankOrderedEntries(batches)
  IN [p \in 1 .. Len(entries) |->
        LET e == entries[p]
            groups == batches[e.mini_batch_id + 1]
        IN [source |-> e.source,
            mini_batch_id |-> e.mini_batch_id,
            sample_mask |-> ~e.is_padding,
            tokens |-> IF e.is_padding THEN 0 ELSE d[e.source].tokens,
            mini_batch_global_size |-> GlobalSize(groups),
            mini_batch_global_response_token_num |-> GlobalTokenNum(d, groups)]]

(* The worker group cuts the update batch into DpSize equal chunks. *)
Chunk(s, r) ==
  LET n == Len(s) \div DpSize IN SubSeq(s, r * n + 1, (r + 1) * n)

(* split_data_proto_by_mini_batch_id, for one id *)
LocalMiniBatch(s, m) ==
  LET indices == InOrder(Len(s), {k \in DOMAIN s : s[k].mini_batch_id = m})
  IN [k \in DOMAIN indices |-> s[indices[k]]]

-----------------------------------------------------------------------------
(* A finished rollout: the rows of a trajectory are contiguous and at least *)
(* one trajectory took a step.                                              *)
RolloutBatch(steps, tokens) ==
  FlattenSeq([t \in 1 .. MaxTrajectories |->
    [s \in 1 .. steps[t] |-> [uid |-> t, valid |-> TRUE, tokens |-> tokens[t]]]])

BatchingInit ==
  /\ stage = "rollout"
  /\ \E steps \in [1 .. MaxTrajectories -> 0 .. MaxSteps],
        tokens \in [1 .. MaxTrajectories -> 0 .. MaxTokens] :
       /\ batch = RolloutBatch(steps, tokens)
       /\ Len(batch) \in 1 .. MaxRows
  /\ prepared = <<>>
  /\ local = [r \in Ranks |-> <<>>]

PadToWorldSize ==
  /\ stage = "rollout"
  /\ batch' = PaddedBatch(batch)
  /\ stage' = "padded"
  /\ UNCHANGED <<prepared, local>>

(* _balance_batch reorders all rows, the padding ones included, by length;  *)
(* trainer.balance_batch = False leaves them alone.                         *)
BalanceBatch ==
  /\ stage = "padded"
  /\ \E p \in Permutations(1 .. Len(batch)) \cap [1 .. Len(batch) -> 1 .. Len(batch)] :
       batch' = [i \in 1 .. Len(batch) |-> batch[p[i]]]
  /\ stage' = "balanced"
  /\ UNCHANGED <<prepared, local>>

PrepareTrajectoryMiniBatch ==
  /\ stage = "balanced"
  /\ ValidIndices(batch) # {}
  /\ prepared' = PreparedBatch(batch)
  /\ stage' = "prepared"
  /\ UNCHANGED <<batch, local>>

Dispatch ==
  /\ stage = "prepared"
  /\ local' = [r \in Ranks |-> Chunk(prepared, r)]
  /\ stage' = "dispatched"
  /\ UNCHANGED <<batch, prepared>>

Finished == stage = "dispatched" /\ UNCHANGED batchingVars

BatchingNext ==
  \/ PadToWorldSize
  \/ BalanceBatch
  \/ PrepareTrajectoryMiniBatch
  \/ Dispatch
  \/ Finished

BatchingSpec == BatchingInit /\ [][BatchingNext]_batchingVars

-----------------------------------------------------------------------------
(* Properties *)

Dispatched == stage = "dispatched"

(* The equal cut of the flattened list hands every rank the same positive    *)
(* number of entries of every mini-batch id: no rank skips an id in          *)
(* split_data_proto_by_mini_batch_id or has more to do than the others,      *)
(* which would leave the ranks in different collectives.                     *)
RanksAligned ==
  Dispatched =>
    /\ Len(prepared) % DpSize = 0
    /\ \A m \in MiniBatchIds(batch), q, r \in Ranks :
         /\ Len(LocalMiniBatch(local[r], m)) > 0
         /\ Len(LocalMiniBatch(local[r], m)) = Len(LocalMiniBatch(local[q], m))

SumOver(S, val(_)) == MapThenSumSet(val, S)

(* The loss denominators travel with the rows: for every entry of a rank     *)
(* the row count and the response-token count of its mini-batch are those    *)
(* of the unmasked entries of ALL ranks together, so the sum over the ranks  *)
(* is a mean over the mini-batch and padding has no weight.                  *)
GlobalInfoExact ==
  Dispatched =>
    \A r \in Ranks : \A k \in DOMAIN local[r] :
      LET e == local[r][k]
          same == {x \in Ranks \X (1 .. Len(local[r])) :
                     local[x[1]][x[2]].mini_batch_id = e.mini_batch_id}
      IN  /\ e.mini_batch_global_size
               = Cardinality({x \in same : local[x[1]][x[2]].sample_mask})
          /\ e.mini_batch_global_response_token_num
               = SumOver(same, LAMBDA x : local[x[1]][x[2]].tokens)

(* The lists implement the plan: what rank r finds under mini-batch id m are *)
(* the rows TrajectoryPlan assigns to it, and as many entries as it counts.  *)
ImplementsPlan ==
  Dispatched =>
    \A m \in MiniBatchIds(batch), r \in Ranks :
      LET mine == LocalMiniBatch(local[r], m)
      IN  /\ Len(mine) = LocalCount(batch, m, r)
          /\ {mine[k].source : k \in {j \in DOMAIN mine : mine[j].sample_mask}}
               = LocalRows(batch, m, r)

=============================================================================
