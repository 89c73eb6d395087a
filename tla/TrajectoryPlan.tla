--------------------------- MODULE TrajectoryPlan ---------------------------
(***************************************************************************)
(* What prepare_trajectory_mini_batch promises, stated on SETS of rows:    *)
(* which rows of an update batch are trained on, in which PPO mini-batch   *)
(* and on which data-parallel rank, and how many rows every rank holds.    *)
(*                                                                         *)
(* An update batch d is a sequence of rows.  A row is one agent step:      *)
(*   uid    the trajectory the step belongs to (trajectory_uids)           *)
(*   valid  sample_mask: FALSE for a row that only pads the batch          *)
(*   tokens number of response tokens that enter the loss (response_mask)  *)
(*                                                                         *)
(* TrajectoryBatching gives the lists the code really builds and is        *)
(* checked against this module; PPOUpdate runs the ranks on this plan.     *)
(***************************************************************************)
EXTENDS Integers, Sequences, FiniteSets, FiniteSetsExt

CONSTANTS
  DpSize,         (* data-parallel ranks of the worker group                 *)
  MiniBatchSize   (* trajectories per PPO mini-batch: ppo_mini_batch_size*n  *)

(* prepare_trajectory_mini_batch raises ValueError on sizes that are not   *)
(* positive.                                                               *)
ASSUME SizesAssumption ==
  /\ DpSize \in Nat \ {0}
  /\ MiniBatchSize \in Nat \ {0}

Ranks == 0 .. DpSize - 1

CeilDiv(a, b) == (a + b - 1) \div b

-----------------------------------------------------------------------------
(* Rows whose sample_mask is set. *)
ValidIndices(d) == {i \in 1 .. Len(d) : d[i].valid}

TrajectoryUids(d) == {d[i].uid : i \in ValidIndices(d)}

GroupRows(d, u) == {i \in ValidIndices(d) : d[i].uid = u}

(* The rows that open a group: OrderedDict keeps trajectories in the order *)
(* in which their first row appears.                                       *)
FirstRows(d) ==
  {i \in ValidIndices(d) : \A j \in GroupRows(d, d[i].uid) : i <= j}

(* Position of row i's trajectory in that order, counted from 0. *)
GroupIndex(d, i) ==
  Cardinality({j \in FirstRows(d) :
                 \A k \in GroupRows(d, d[i].uid) : j < k})

NumMiniBatches(d) == CeilDiv(Cardinality(TrajectoryUids(d)), MiniBatchSize)

MiniBatchIds(d) == 0 .. NumMiniBatches(d) - 1

MiniBatchOf(d, i) == GroupIndex(d, i) \div MiniBatchSize

RankOf(d, i) == (GroupIndex(d, i) % MiniBatchSize) % DpSize

-----------------------------------------------------------------------------
(* The real rows rank r trains on in mini-batch m. *)
LocalRows(d, m, r) ==
  {i \in ValidIndices(d) : MiniBatchOf(d, i) = m /\ RankOf(d, i) = r}

(* max(1, *(len(entries) for entries in per_rank_for_mini_batch)) *)
MaxLocalRows(d, m) ==
  Max({1} \cup {Cardinality(LocalRows(d, m, r)) : r \in Ranks})

(* Defect: ranks are not padded to the longest one. *)
LocalPaddingNone(d, m, r) == 0

(* Padding entries rank r receives for mini-batch m. *)
LocalPadding(d, m, r) == MaxLocalRows(d, m) - Cardinality(LocalRows(d, m, r))

(* Entries, real and padding, that rank r holds for mini-batch m. *)
LocalCount(d, m, r) == Cardinality(LocalRows(d, m, r)) + LocalPadding(d, m, r)

=============================================================================
