-------------------------- MODULE PPOUpdateProofs ---------------------------
(***************************************************************************)
(* What the trajectory plan guarantees for every batch, every number of    *)
(* ranks and every mini-batch size, and what the ranks that work through   *)
(* it guarantee for every batch, group size, micro-batch size, number of   *)
(* epochs and both workers: the ranks' collectives match (SameWork), one   *)
(* optimizer step is one whole mini-batch on all ranks                     *)
(* (StepIsMiniBatch), a refused mini-batch is refused by all ranks         *)
(* (FailTogether), and the update as a whole keeps the promise of          *)
(* UpdatePromise.  The second half proves that the lists of                *)
(* prepare_trajectory_mini_batch, cut by the dispatch into equal chunks,   *)
(* implement that plan, and that the totals written beside every row are   *)
(* those of its whole mini-batch.                                          *)
(***************************************************************************)
EXTENDS PPOUpdate, TrajectoryBatching, FiniteSetTheorems, SequenceFacts, TLAPS

-----------------------------------------------------------------------------
(* Sizes *)

LEMMA ValidIndicesFinite ==
  ASSUME NEW d, Len(d) \in Nat
  PROVE  /\ ValidIndices(d) \subseteq 1 .. Len(d)
         /\ IsFiniteSet(ValidIndices(d))
<1>1. ValidIndices(d) \subseteq 1 .. Len(d)
  BY DEF ValidIndices
<1>2. IsFiniteSet(1 .. Len(d))
  BY FS_Interval
<1>3. QED
  BY <1>1, <1>2, FS_Subset

LEMMA LocalRowsBounded ==
  ASSUME NEW d, Len(d) \in Nat, NEW m, NEW r
  PROVE  /\ IsFiniteSet(LocalRows(d, m, r))
         /\ Cardinality(LocalRows(d, m, r)) \in Nat
         /\ Cardinality(LocalRows(d, m, r)) <= Len(d)
<1> DEFINE I == 1 .. Len(d)
<1>1. LocalRows(d, m, r) \subseteq I
  BY ValidIndicesFinite DEF LocalRows
<1>2. IsFiniteSet(I)
      /\ Cardinality(I) = IF 1 > Len(d) THEN 0 ELSE Len(d) - 1 + 1
  BY FS_Interval, 1 \in Int, Len(d) \in Int
<1>3. Cardinality(I) = Len(d)
  BY <1>2
<1>4. IsFiniteSet(LocalRows(d, m, r))
      /\ Cardinality(LocalRows(d, m, r)) <= Cardinality(I)
  <2> HIDE DEF I
  <2> QED BY <1>1, <1>2, FS_Subset
<1>5. Cardinality(LocalRows(d, m, r)) \in Nat
  BY <1>4, FS_CardinalityType
<1>6. QED
  BY <1>3, <1>4, <1>5

LEMMA MaxLocalRowsBounds ==
  ASSUME NEW d, Len(d) \in Nat, NEW m
  PROVE  /\ MaxLocalRows(d, m) \in Nat \ {0}
         /\ \A r \in Ranks : Cardinality(LocalRows(d, m, r)) <= MaxLocalRows(d, m)
<1> DEFINE C == {Cardinality(LocalRows(d, m, r)) : r \in Ranks}
           S == {1} \cup C
           b == Len(d) + 1
<1>1. \A x \in C : x \in Nat /\ x <= Len(d)
  BY LocalRowsBounded
<1>2. b \in Nat /\ 1 <= b
  OBVIOUS
<1>3. S \subseteq Nat /\ S # {} /\ (\A x \in S : x <= b)
  <2> HIDE DEF C
  <2> QED BY <1>1
<1>4. Max(S) \in S /\ (\A x \in S : x <= Max(S))
  <2> HIDE DEF S, C, b
  <2> QED BY <1>2, <1>3, MaxProperties
<1>5. MaxLocalRows(d, m) = Max(S)
  BY DEF MaxLocalRows
<1>6. 1 \in S /\ \A r \in Ranks : Cardinality(LocalRows(d, m, r)) \in S
  OBVIOUS
<1>7. Max(S) \in Nat /\ 1 <= Max(S)
  <2> HIDE DEF S, C
  <2> QED BY <1>3, <1>4, <1>6
<1>8. MaxLocalRows(d, m) \in Nat \ {0}
  <2> HIDE DEF S, C
  <2> QED BY <1>5, <1>7
<1>9. ASSUME NEW r \in Ranks
      PROVE  Cardinality(LocalRows(d, m, r)) <= MaxLocalRows(d, m)
  <2> HIDE DEF S, C
  <2> QED BY <1>4, <1>5, <1>6
<1>10. QED
  BY <1>8, <1>9

(* All ranks hold the same positive number of entries of a mini-batch, the *)
(* reason why _build_rank_ordered_entries pads.                            *)
THEOREM RanksHoldEqualCounts ==
  ASSUME NEW d, Len(d) \in Nat, NEW m, NEW r \in Ranks
  PROVE  /\ LocalCount(d, m, r) = MaxLocalRows(d, m)
         /\ LocalCount(d, m, r) \in Nat \ {0}
         /\ LocalPadding(d, m, r) \in Nat
<1>1. Cardinality(LocalRows(d, m, r)) \in Nat
  BY LocalRowsBounded
<1>2. MaxLocalRows(d, m) \in Nat \ {0}
      /\ Cardinality(LocalRows(d, m, r)) <= MaxLocalRows(d, m)
  BY MaxLocalRowsBounds
<1>3. QED
  BY <1>1, <1>2 DEF LocalCount, LocalPadding

-----------------------------------------------------------------------------
(* Trajectories *)

(* "PPO mini-batches preserve whole trajectories": two valid rows of one   *)
(* trajectory belong to one mini-batch and one rank.                       *)
THEOREM PlanKeepsTrajectoriesWhole ==
  ASSUME NEW d, NEW i \in ValidIndices(d), NEW j \in ValidIndices(d),
         d[i].uid = d[j].uid
  PROVE  MiniBatchOf(d, i) = MiniBatchOf(d, j) /\ RankOf(d, i) = RankOf(d, j)
<1>1. GroupIndex(d, i) = GroupIndex(d, j)
  BY DEF GroupIndex
<1>2. QED
  BY <1>1 DEF MiniBatchOf, RankOf

(* Every trajectory has a first row. *)
LEMMA FirstRowExists ==
  ASSUME NEW d, Len(d) \in Nat, NEW i \in ValidIndices(d)
  PROVE  \E f \in FirstRows(d) : f \in GroupRows(d, d[i].uid)
<1>1. GroupRows(d, d[i].uid) \subseteq Nat
  BY ValidIndicesFinite DEF GroupRows
<1>2. i \in GroupRows(d, d[i].uid)
  BY DEF GroupRows
<1>3. PICK f \in GroupRows(d, d[i].uid) : \A k \in GroupRows(d, d[i].uid) : f <= k
  BY <1>1, <1>2, LeastNatural
<1>4. f \in ValidIndices(d) /\ d[f].uid = d[i].uid
  BY DEF GroupRows
<1>5. f \in FirstRows(d)
  BY <1>3, <1>4 DEF FirstRows
<1>6. QED
  BY <1>5

(* Trajectories have as many first rows as they are themselves. *)
LEMMA FirstRowsCountTrajectories ==
  ASSUME NEW d, Len(d) \in Nat
  PROVE  /\ IsFiniteSet(FirstRows(d))
         /\ IsFiniteSet(TrajectoryUids(d))
         /\ Cardinality(FirstRows(d)) = Cardinality(TrajectoryUids(d))
<1> DEFINE F == FirstRows(d)
           U == TrajectoryUids(d)
           uidOf == [i \in F |-> d[i].uid]
<1>1. F \subseteq ValidIndices(d) /\ ValidIndices(d) \subseteq Nat
  BY ValidIndicesFinite DEF FirstRows
<1>2. IsFiniteSet(F)
  BY <1>1, ValidIndicesFinite, FS_Subset
<1>3. uidOf \in [F -> U]
  BY <1>1 DEF TrajectoryUids
<1>4. \A i, j \in F : uidOf[i] = uidOf[j] => i = j
  <2>1. SUFFICES ASSUME NEW i \in F, NEW j \in F, d[i].uid = d[j].uid
                 PROVE  i = j
    OBVIOUS
  <2>2. i \in GroupRows(d, d[j].uid) /\ j \in GroupRows(d, d[i].uid)
    BY <1>1, <2>1 DEF GroupRows
  <2>3. i <= j /\ j <= i
    BY <2>2 DEF FirstRows
  <2>4. QED
    BY <1>1, <2>3
<1>5. \A u \in U : \E i \in F : uidOf[i] = u
  <2>1. TAKE u \in U
  <2>2. PICK k \in ValidIndices(d) : d[k].uid = u
    BY DEF TrajectoryUids
  <2>3. PICK f \in FirstRows(d) : f \in GroupRows(d, d[k].uid)
    BY FirstRowExists
  <2>4. uidOf[f] = u
    BY <2>2, <2>3 DEF GroupRows
  <2>5. QED
    BY <2>4
<1>6. uidOf \in Bijection(F, U)
  <2> HIDE DEF F, U, uidOf
  <2>1. uidOf \in Injection(F, U)
    BY <1>3, <1>4 DEF Injection, IsInjective
  <2>2. uidOf \in Surjection(F, U)
    BY <1>3, <1>5 DEF Surjection
  <2>3. QED
    BY <2>1, <2>2 DEF Bijection
<1>7. ExistsBijection(F, U)
  BY <1>6 DEF ExistsBijection
<1>8. QED
  BY <1>2, <1>7, FS_Bijection

(* A trajectory's position in the order of first appearance is a number    *)
(* below the number of trajectories.                                       *)
LEMMA GroupIndexRange ==
  ASSUME NEW d, Len(d) \in Nat, NEW i \in ValidIndices(d)
  PROVE  /\ GroupIndex(d, i) \in Nat
         /\ Cardinality(TrajectoryUids(d)) \in Nat
         /\ GroupIndex(d, i) < Cardinality(TrajectoryUids(d))
<1> DEFINE F == FirstRows(d)
           B == {j \in F : \A k \in GroupRows(d, d[i].uid) : j < k}
<1>1. IsFiniteSet(F) /\ Cardinality(F) = Cardinality(TrajectoryUids(d))
  BY FirstRowsCountTrajectories
<1>2. PICK f \in F : f \in GroupRows(d, d[i].uid)
  BY FirstRowExists
<1>3. f \in Nat
  BY ValidIndicesFinite DEF FirstRows
<1>4. f \notin B /\ B \subseteq F
  BY <1>2, <1>3
<1>5. IsFiniteSet(B) /\ Cardinality(B) <= Cardinality(F)
      /\ (Cardinality(F) = Cardinality(B) => F = B)
  <2> HIDE DEF B, F
  <2> QED BY <1>1, <1>4, FS_Subset
<1>6. Cardinality(B) \in Nat /\ Cardinality(F) \in Nat
  BY <1>1, <1>5, FS_CardinalityType
<1>7. Cardinality(B) # Cardinality(F)
  BY <1>2, <1>4, <1>5
<1>8. GroupIndex(d, i) = Cardinality(B)
  BY DEF GroupIndex
<1>9. QED
  BY <1>1, <1>5, <1>6, <1>7, <1>8

(* Division by a positive number: the quotient of g < c lies below the     *)
(* rounded-up quotient of c.                                               *)
LEMMA DivBounds ==
  ASSUME NEW g \in Nat, NEW c \in Nat, NEW n \in Nat \ {0}, g < c
  PROVE  /\ g \div n \in Nat
         /\ g \div n < CeilDiv(c, n)
         /\ g % n \in 0 .. n - 1
<1>1. g \div n \in Nat /\ g % n \in 0 .. n - 1 /\ g = n * (g \div n) + (g % n)
  OBVIOUS
<1> DEFINE q == g \div n
           e == c + n - 1
           k == e \div n
<1>2. e \in Nat /\ k \in Nat /\ e % n \in 0 .. n - 1 /\ e = n * k + (e % n)
  OBVIOUS
<1>3. n * q + n <= e
  BY <1>1
<1>4. n * q + n < n * k + n
  BY <1>2, <1>3
<1>5. q < k
  <2> HIDE DEF q, k, e
  <2>1. q \in Nat /\ k \in Nat
    BY <1>1, <1>2 DEF q
  <2>2. n * q < n * k
    BY <1>4, <2>1
  <2>3. QED
    BY <2>1, <2>2
<1>6. QED
  BY <1>1, <1>5 DEF CeilDiv

(* Every valid row of the batch is planned for exactly one rank of exactly *)
(* one of the NumMiniBatches mini-batches: nothing is dropped, nothing is  *)
(* trained on twice, and no row of the padding is planned as a real one.   *)
THEOREM PlanPartitionsRows ==
  ASSUME NEW d, Len(d) \in Nat
  PROVE  /\ \A i \in ValidIndices(d) :
              \E m \in MiniBatchIds(d), r \in Ranks : i \in LocalRows(d, m, r)
         /\ \A m, n \in MiniBatchIds(d), q, r \in Ranks :
              (m # n \/ q # r) => LocalRows(d, m, q) \cap LocalRows(d, n, r) = {}
         /\ \A m \in MiniBatchIds(d), r \in Ranks :
              LocalRows(d, m, r) \subseteq ValidIndices(d)
<1>1. ASSUME NEW i \in ValidIndices(d)
      PROVE  \E m \in MiniBatchIds(d), r \in Ranks : i \in LocalRows(d, m, r)
  <2> DEFINE g == GroupIndex(d, i)
             c == Cardinality(TrajectoryUids(d))
  <2>1. g \in Nat /\ c \in Nat /\ g < c
    BY GroupIndexRange
  <2>2. /\ g \div MiniBatchSize \in Nat
        /\ g \div MiniBatchSize < CeilDiv(c, MiniBatchSize)
        /\ g % MiniBatchSize \in 0 .. MiniBatchSize - 1
    <3> HIDE DEF g, c
    <3> QED BY <2>1, DivBounds, SizesAssumption
  <2>3. (g % MiniBatchSize) % DpSize \in 0 .. DpSize - 1
    <3> HIDE DEF g
    <3>1. g % MiniBatchSize \in Nat
      BY <2>2, SizesAssumption
    <3>2. QED
      BY <3>1, SizesAssumption
  <2>4. CeilDiv(c, MiniBatchSize) \in Int
    <3> HIDE DEF c
    <3> QED BY <2>1, SizesAssumption DEF CeilDiv
  <2>5. MiniBatchOf(d, i) \in MiniBatchIds(d)
    <3>1. MiniBatchOf(d, i) = g \div MiniBatchSize
      BY DEF MiniBatchOf
    <3>2. NumMiniBatches(d) = CeilDiv(c, MiniBatchSize)
      BY DEF NumMiniBatches
    <3>3. QED
      <4> HIDE DEF g, c
      <4> QED BY <3>1, <3>2, <2>2, <2>4 DEF MiniBatchIds
  <2>6. RankOf(d, i) \in Ranks
    BY <2>3 DEF RankOf, Ranks
  <2>7. i \in LocalRows(d, MiniBatchOf(d, i), RankOf(d, i))
    BY DEF LocalRows
  <2>8. QED
    BY <2>5, <2>6, <2>7
<1>2. \A m, n \in MiniBatchIds(d), q, r \in Ranks :
        (m # n \/ q # r) => LocalRows(d, m, q) \cap LocalRows(d, n, r) = {}
  BY DEF LocalRows
<1>3. \A m \in MiniBatchIds(d), r \in Ranks :
        LocalRows(d, m, r) \subseteq ValidIndices(d)
  BY DEF LocalRows
<1>4. QED
  BY <1>1, <1>2, <1>3

(* A batch with a valid row has at least one mini-batch. *)
THEOREM PlanHasMiniBatch ==
  ASSUME NEW d, Len(d) \in Nat, ValidIndices(d) # {}
  PROVE  NumMiniBatches(d) \in Nat \ {0}
<1>1. PICK i \in ValidIndices(d) : TRUE
  OBVIOUS
<1> DEFINE c == Cardinality(TrajectoryUids(d))
<1>2. GroupIndex(d, i) \in Nat /\ c \in Nat /\ GroupIndex(d, i) < c
  BY GroupIndexRange
<1>3. 0 \in Nat /\ 0 < c
  BY <1>2
<1>4. 0 \div MiniBatchSize \in Nat /\ 0 \div MiniBatchSize < CeilDiv(c, MiniBatchSize)
  <2> HIDE DEF c
  <2> QED BY <1>2, <1>3, DivBounds, SizesAssumption
<1>5. CeilDiv(c, MiniBatchSize) \in Int
  <2> HIDE DEF c
  <2> QED BY <1>2, SizesAssumption DEF CeilDiv
<1>6. QED
  BY <1>4, <1>5 DEF NumMiniBatches

-----------------------------------------------------------------------------
(* Counting micro-batches *)

LEMMA CeilDivFacts ==
  ASSUME NEW n \in Nat \ {0}, NEW s \in Nat \ {0}
  PROVE  /\ CeilDiv(n, s) \in Nat \ {0}
         /\ CeilDiv(n, s) * s >= n
<1> DEFINE e == n + s - 1
           k == e \div s
<1>1. e \in Nat /\ k \in Nat /\ e % s \in 0 .. s - 1 /\ e = s * k + (e % s)
  OBVIOUS
<1>2. s * k >= n
  BY <1>1
<1>3. k * s = s * k
  BY <1>1
<1>4. k # 0
  BY <1>1
<1>5. QED
  BY <1>1, <1>2, <1>3, <1>4 DEF CeilDiv

(* What is covered are entries, and so numbers. *)
LEMMA CoveredEntries ==
  ASSUME NEW k, NEW c, NEW n
  PROVE  Covered(k, c, n) \in SUBSET Nat
<1>1. Covered(k, c, n) \subseteq 1 .. n
  BY DEF Covered
<1>2. QED
  BY <1>1

(* Nothing is covered before the first micro-batch. *)
LEMMA CoveredNone ==
  ASSUME NEW c \in Nat \ {0}, NEW n \in Nat
  PROVE  Covered(0, c, n) = {}
<1>1. 0 * n = 0 /\ 0 \div c = 0 /\ 0 * MicroBatchSize = 0
  BY UpdateAssumption
<1>2. QED
  BY <1>1 DEF Covered

(* Each micro-batch extends what is covered by its own entries. *)
LEMMA CoveredNext ==
  ASSUME NEW k \in Nat, NEW c \in Nat \ {0}, NEW n \in Nat
  PROVE  Covered(k + 1, c, n) = Covered(k, c, n) \cup MicroBatch(k, c, n)
<1>1. CASE workerImpl = "legacy"
  <2> DEFINE a == k * MicroBatchSize
             b == (k + 1) * MicroBatchSize
  <2>1. a \in Nat /\ b \in Nat /\ a <= b
    BY UpdateAssumption
  <2>2. QED
    <3> HIDE DEF a, b
    <3> USE DEF a, b
    <3> QED BY <1>1, <2>1 DEF Covered, MicroBatch
<1>2. CASE workerImpl # "legacy"
  <2> DEFINE x == k * n
             y == (k + 1) * n
             a == x \div c
             b == y \div c
  <2>1. x \in Nat /\ y \in Nat /\ x <= y
    OBVIOUS
  <2>2. a \in Nat /\ b \in Nat /\ a <= b
    <3> HIDE DEF x, y
    <3>1. a \in Nat /\ x % c \in 0 .. c - 1 /\ x = c * a + (x % c)
      BY <2>1
    <3>2. b \in Nat /\ y % c \in 0 .. c - 1 /\ y = c * b + (y % c)
      BY <2>1
    <3> HIDE DEF a, b
    <3>3. c * a <= c * b + (c - 1)
      BY <2>1, <3>1, <3>2
    <3>4. c * a < c * (b + 1)
      BY <3>1, <3>2, <3>3
    <3>5. a < b + 1
      BY <3>1, <3>2, <3>4
    <3>6. QED
      BY <3>1, <3>2, <3>5
  <2>3. QED
    BY <1>2, <2>2 DEF Covered, MicroBatch
<1>3. QED
  BY <1>1, <1>2

(* The last micro-batch completes the mini-batch. *)
LEMMA CoveredAll ==
  ASSUME NEW c \in Nat \ {0}, NEW n \in Nat \ {0},
         workerImpl = "legacy" => c = MicroBatches(n)
  PROVE  Covered(c, c, n) = 1 .. n
<1>1. CASE workerImpl = "legacy"
  <2>1. c * MicroBatchSize >= n /\ c * MicroBatchSize \in Nat
    BY <1>1, CeilDivFacts, UpdateAssumption DEF MicroBatches
  <2>2. QED
    BY <1>1, <2>1 DEF Covered
<1>2. CASE workerImpl # "legacy"
  <2>1. (c * n) \div c = n
    OBVIOUS
  <2>2. QED
    BY <1>2, <2>1 DEF Covered
<1>3. QED
  BY <1>1, <1>2

-----------------------------------------------------------------------------
(* What the plan and the types give *)

(* The plan hands every rank the same positive number of entries. *)
LEMMA PlanEqual ==
  ASSUME TypeOK
  PROVE  /\ numMiniBatch \in Nat \ {0}
         /\ \A m \in Ids, q, r \in Ranks :
              rows[m][r] \in Nat \ {0} /\ rows[m][q] = rows[m][r]
<1>1. PICK d \in Batches :
        /\ numMiniBatch = NumMiniBatches(d)
        /\ rows = [m \in MiniBatchIds(d) |-> [r \in Ranks |-> LocalCount(d, m, r)]]
  BY DEF TypeOK
<1>2. Len(d) \in Nat /\ ValidIndices(d) # {}
  <2>1. d \in Seq([uid : Nat, valid : BOOLEAN, tokens : Nat])
    BY UpdateAssumption
  <2>2. QED
    BY <2>1, UpdateAssumption
<1>3. numMiniBatch \in Nat \ {0}
  BY <1>1, <1>2, PlanHasMiniBatch
<1>4. MiniBatchIds(d) = Ids
  BY <1>1 DEF MiniBatchIds, Ids
<1>5. ASSUME NEW m \in Ids, NEW r \in Ranks
      PROVE  rows[m][r] = MaxLocalRows(d, m) /\ rows[m][r] \in Nat \ {0}
  <2>1. rows[m][r] = LocalCount(d, m, r)
    BY <1>1, <1>4
  <2>2. QED
    BY <1>2, <2>1, RanksHoldEqualCounts
<1>6. QED
  BY <1>3, <1>5

(* Every rank always points at a mini-batch of the update. *)
LEMMA CurrentFacts ==
  ASSUME TypeOK
  PROVE  \A r \in Ranks : Current(r) \in Ids /\ Rows(r) \in Nat \ {0}
<1>1. ASSUME NEW r \in Ranks
      PROVE  Current(r) \in Ids
  <2>1. order \in [Epochs -> Orders] /\ epoch[r] \in Epochs /\ position[r] \in Ids
    BY DEF TypeOK
  <2>2. order[epoch[r]] \in [Ids -> Ids]
    BY <2>1 DEF Orders
  <2>3. QED
    BY <2>1, <2>2 DEF Current
<1>2. QED
  BY <1>1, PlanEqual DEF Rows

(* Ranks in lock step work on the same mini-batch with equally many entries. *)
LEMMA SameRows ==
  ASSUME TypeOK, LockStep
  PROVE  \A q, r \in Ranks : Current(q) = Current(r) /\ Rows(q) = Rows(r)
<1>1. \A q, r \in Ranks : Current(q) = Current(r)
  BY DEF LockStep, Current
<1>2. QED
  BY <1>1, CurrentFacts, PlanEqual DEF Rows

(* The count the group agrees on is a positive number of micro-batches. *)
LEMMA AgreedPositive ==
  ASSUME NEW n \in Nat \ {0}, \A r \in Ranks : numMicro[r] = n
  PROVE  AgreedMicroBatches \in Nat \ {0}
<1> DEFINE S == {numMicro[r] : r \in Ranks}
<1>1. 0 \in Ranks
  BY SizesAssumption DEF Ranks
<1>2. S = {n}
  BY <1>1
<1>3. Max(S) = n
  <2> HIDE DEF S
  <2>1. S \subseteq Nat /\ S # {} /\ n \in Nat /\ \A x \in S : x <= n
    BY <1>2
  <2>2. Max(S) \in S
    BY <2>1, MaxProperties
  <2>3. QED
    BY <1>2, <2>2
<1>4. CeilDiv(n, DividedBy) \in Nat \ {0}
  BY CeilDivFacts, UpdateAssumption
<1>5. CeilDiv(n, DividedBy) * DividedBy \in Nat \ {0}
  <2> DEFINE c == CeilDiv(n, DividedBy)
  <2>1. c \in Nat \ {0}
    BY <1>4
  <2>2. CeilDiv(n, DividedBy) * DividedBy >= n
    BY CeilDivFacts, UpdateAssumption
  <2> HIDE DEF c
  <2>3. c * DividedBy \in Nat
    BY <2>1, UpdateAssumption
  <2>4. QED
    BY <2>2, <2>3 DEF c
<1>6. QED
  BY <1>3, <1>5 DEF AgreedMicroBatches

-----------------------------------------------------------------------------
(* The inductive invariant *)

LEMMA InitIInv == Init => IInv
<1> SUFFICES ASSUME Init PROVE IInv
  OBVIOUS
<1>1. PICK d \in Batches :
        /\ numMiniBatch = NumMiniBatches(d)
        /\ rows = [m \in MiniBatchIds(d) |-> [r \in Ranks |-> LocalCount(d, m, r)]]
  BY DEF Init
<1>2. Len(d) \in Nat /\ ValidIndices(d) # {}
  <2>1. d \in Seq([uid : Nat, valid : BOOLEAN, tokens : Nat])
    BY UpdateAssumption
  <2>2. QED
    BY <2>1, UpdateAssumption
<1>3. 0 \in Ids
  <2>1. numMiniBatch \in Nat \ {0}
    BY <1>1, <1>2, PlanHasMiniBatch
  <2>2. QED
    BY <2>1 DEF Ids
<1>4. 0 \in Epochs
  BY UpdateAssumption DEF Epochs
<1>5. TypeOK
  BY <1>1, <1>3, <1>4 DEF Init, TypeOK, PcValues
<1>6. LockStep
  BY DEF Init, LockStep
<1>7. BlockedInCollective /\ Progress /\ StepIsMiniBatch
  BY DEF Init, BlockedInCollective, Progress, StepIsMiniBatch
<1>8. QED
  BY <1>5, <1>6, <1>7 DEF IInv

LEMMA BeginMiniBatchIInv ==
  ASSUME IInv, NEW p \in Ranks, BeginMiniBatch(p)
  PROVE  IInv'
<1>1. /\ TypeOK /\ LockStep /\ BlockedInCollective /\ Progress /\ StepIsMiniBatch
  BY DEF IInv
<1>2. /\ pc[p] = "begin"
      /\ numMicro' = [numMicro EXCEPT ![p] = MicroBatches(Rows(p))]
      /\ micro' = [micro EXCEPT ![p] = 0]
      /\ seen' = [seen EXCEPT ![p] = {}]
      /\ pc' = [pc EXCEPT ![p] = FirstStage]
      /\ UNCHANGED <<workerImpl, numMiniBatch, rows, order, blocked, epoch, position, applied>>
  BY DEF BeginMiniBatch, FirstStage, plan
<1>3. /\ \A r \in Ranks : Rows(r)' = Rows(r) /\ Rows(r) \in Nat \ {0}
      /\ MicroBatches(Rows(p)) \in Nat \ {0}
  BY <1>1, <1>2, CurrentFacts, CeilDivFacts, UpdateAssumption
     DEF Rows, Current, MicroBatches
<1>4. FirstStage \in {"count", "forward"}
      /\ (FirstStage = "count" <=> workerImpl = "engine")
  BY UpdateAssumption DEF FirstStage
<1>5. TypeOK'
  BY <1>1, <1>2, <1>3, <1>4 DEF TypeOK, PcValues, Ids, Orders
<1>6. LockStep'
  <2>1. \A q, r \in Ranks : epoch'[q] = epoch'[r] /\ position'[q] = position'[r]
    BY <1>1, <1>2 DEF LockStep
  <2>2. /\ pc'[p] = FirstStage
        /\ micro'[p] = 0
        /\ numMicro'[p] = MicroBatches(Rows(p))
    BY <1>1, <1>2 DEF TypeOK
  <2>3. \A r \in Ranks \ {p} : /\ pc'[r] = pc[r]
                               /\ micro'[r] = micro[r]
                               /\ numMicro'[r] = numMicro[r]
    BY <1>1, <1>2 DEF TypeOK
  <2>4. \A r \in Ranks : Rows(r) = Rows(p)
    BY <1>1, SameRows
  <2>5. \A r \in Ranks : pc'[r] # "begin" =>
          /\ pc'[r] = FirstStage
          /\ micro'[r] = 0
          /\ numMicro'[r] = MicroBatches(Rows(r))
    BY <1>1, <1>2, <2>2, <2>3 DEF LockStep
  <2>6. \A r \in Ranks : numMicro'[r] = MicroBatches(Rows(r)) =>
          numMicro'[r] = MicroBatches(Rows(p)) /\ numMicro'[r] = MicroBatches(Rows(r)')
    BY <1>3, <2>4
  <2>7. QED
    BY <1>2, <2>1, <2>5, <2>6 DEF LockStep, FirstStage
<1>7. BlockedInCollective'
  BY <1>1, <1>2, <1>4 DEF BlockedInCollective, TypeOK
<1>8. Progress'
  <2>1. Covered(0, MicroBatches(Rows(p)), Rows(p)) = {}
    BY <1>3, CoveredNone
  <2>2. /\ pc'[p] = FirstStage
        /\ micro'[p] = 0
        /\ seen'[p] = {}
        /\ numMicro'[p] = MicroBatches(Rows(p))
    BY <1>1, <1>2 DEF TypeOK
  <2>3. \A r \in Ranks \ {p} : /\ pc'[r] = pc[r]
                               /\ micro'[r] = micro[r]
                               /\ seen'[r] = seen[r]
                               /\ numMicro'[r] = numMicro[r]
    BY <1>1, <1>2 DEF TypeOK
  <2>4. SUFFICES ASSUME NEW r \in Ranks
                 PROVE  /\ pc'[r] = "count" =>
                             micro'[r] = 0 /\ seen'[r] = {} /\ numMicro'[r] > 0
                             /\ workerImpl = "engine"
                        /\ pc'[r] = "forward" =>
                             /\ micro'[r] < numMicro'[r]
                             /\ workerImpl = "legacy" =>
                                  numMicro'[r] = MicroBatches(Rows(r))
                             /\ seen'[r] = Covered(micro'[r], numMicro'[r], Rows(r))
                        /\ pc'[r] = "step" => seen'[r] = 1 .. Rows(r)
    BY <1>2, <1>3 DEF Progress, MicroBatches, CeilDiv, Covered
  <2>5. CASE r = p
    <3>1. FirstStage # "step" /\ 0 < MicroBatches(Rows(p))
      BY <1>3, <1>4
    <3>2. FirstStage = "count" => workerImpl = "engine"
      BY <1>4
    <3>3. QED
      BY <2>1, <2>2, <2>5, <3>1, <3>2
  <2>6. CASE r # p
    BY <1>1, <2>3, <2>6 DEF Progress
  <2>7. QED
    BY <2>5, <2>6
<1>9. StepIsMiniBatch'
  BY <1>1, <1>2 DEF StepIsMiniBatch
<1>10. QED
  BY <1>5, <1>6, <1>7, <1>8, <1>9 DEF IInv

LEMMA EnterIInv ==
  ASSUME IInv, NEW p \in Ranks, Enter(p)
  PROVE  IInv'
<1>1. /\ TypeOK /\ LockStep /\ BlockedInCollective /\ Progress /\ StepIsMiniBatch
  BY DEF IInv
<1>2. /\ pc[p] \in {"count", "forward", "step"}
      /\ blocked' = blocked \cup {p}
      /\ UNCHANGED <<workerImpl, numMiniBatch, rows, order, pc, epoch, position, numMicro,
                     micro, seen, applied>>
  BY DEF Enter, plan, counters
<1>3. \A r \in Ranks : Rows(r)' = Rows(r)
  BY <1>2 DEF Rows, Current
<1>4. TypeOK'
  BY <1>1, <1>2 DEF TypeOK, Ids, Orders
<1>5. LockStep' /\ Progress' /\ StepIsMiniBatch'
  <2>1. FirstStage' = FirstStage
    BY <1>2 DEF FirstStage
  <2>2. \A r \in Ranks : Covered(micro[r], numMicro[r], Rows(r))'
                          = Covered(micro[r], numMicro[r], Rows(r))
    BY <1>2, <1>3 DEF Covered
  <2>3. QED
    BY <1>1, <1>2, <1>3, <2>1, <2>2
       DEF LockStep, Progress, StepIsMiniBatch, MicroBatches, CeilDiv
<1>6. BlockedInCollective'
  BY <1>1, <1>2 DEF BlockedInCollective
<1>7. QED
  BY <1>4, <1>5, <1>6 DEF IInv

LEMMA AllReduceCountIInv ==
  ASSUME IInv, AllReduceCount
  PROVE  IInv'
<1>1. /\ TypeOK /\ LockStep /\ BlockedInCollective /\ Progress /\ StepIsMiniBatch
  BY DEF IInv
<1> DEFINE n == AgreedMicroBatches
<1>2. /\ \A r \in Ranks : pc[r] = "count"
      /\ numMicro' = [r \in Ranks |-> n]
      /\ pc' = [r \in Ranks |-> IF n > Rows(r) THEN "failed" ELSE "forward"]
      /\ blocked' = {}
      /\ UNCHANGED <<workerImpl, numMiniBatch, rows, order, epoch, position, micro, seen, applied>>
  BY DEF AllReduceCount, GroupAt, plan
<1>3. n \in Nat \ {0}
  <2>1. 0 \in Ranks
    BY SizesAssumption DEF Ranks
  <2>2. numMicro[0] \in Nat /\ numMicro[0] > 0
    BY <1>1, <1>2, <2>1 DEF TypeOK, Progress
  <2>3. \A r \in Ranks : pc[r] # "begin"
    BY <1>2
  <2>4. \A r \in Ranks : numMicro[r] = numMicro[0]
    BY <1>1, <2>1, <2>3 DEF LockStep
  <2>5. QED
    BY <2>2, <2>4, AgreedPositive
<1> HIDE DEF n
<1>4. \A q, r \in Ranks : Rows(r)' = Rows(r) /\ Rows(r) \in Nat \ {0} /\ Rows(q) = Rows(r)
  BY <1>1, <1>2, CurrentFacts, SameRows DEF Rows, Current
<1>5. TypeOK'
  BY <1>1, <1>2, <1>3 DEF TypeOK, PcValues, Ids, Orders
<1>6. \A q, r \in Ranks : pc'[q] = pc'[r] /\ pc'[r] \in {"failed", "forward"}
  BY <1>2, <1>4
<1>7. LockStep'
  BY <1>1, <1>2, <1>6 DEF LockStep
<1>8. BlockedInCollective'
  BY <1>2 DEF BlockedInCollective
<1>9. Progress'
  <2>1. ASSUME NEW r \in Ranks, pc'[r] = "forward"
        PROVE  /\ micro'[r] < numMicro'[r]
               /\ workerImpl # "legacy"
               /\ seen'[r] = Covered(micro'[r], numMicro'[r], Rows(r))
    <3>1. micro'[r] = 0 /\ seen'[r] = {} /\ numMicro'[r] = n
          /\ workerImpl = "engine"
      BY <1>1, <1>2 DEF Progress
    <3>2. Covered(0, n, Rows(r)) = {}
      BY <1>3, <1>4, CoveredNone
    <3>3. QED
      BY <1>3, <3>1, <3>2
  <2>2. QED
    BY <1>2, <1>4, <1>6, <2>1 DEF Progress, Covered
<1>10. StepIsMiniBatch'
  BY <1>1, <1>2 DEF StepIsMiniBatch
<1>11. QED
  BY <1>5, <1>7, <1>8, <1>9, <1>10 DEF IInv

LEMMA ForwardBackwardIInv ==
  ASSUME IInv, ForwardBackward
  PROVE  IInv'
<1>1. /\ TypeOK /\ LockStep /\ BlockedInCollective /\ Progress /\ StepIsMiniBatch
  BY DEF IInv
<1>2. /\ \A r \in Ranks : pc[r] = "forward"
      /\ seen' = [r \in Ranks |->
                    seen[r] \cup MicroBatch(micro[r], numMicro[r], Rows(r))]
      /\ micro' = [r \in Ranks |-> micro[r] + 1]
      /\ pc' = [r \in Ranks |->
                  IF micro[r] + 1 = numMicro[r] THEN "step" ELSE "forward"]
      /\ blocked' = {}
      /\ UNCHANGED <<workerImpl, numMiniBatch, rows, order, epoch, position, numMicro, applied>>
  BY DEF ForwardBackward, GroupAt, plan
<1>3. \A r \in Ranks : Rows(r)' = Rows(r) /\ Rows(r) \in Nat \ {0}
  BY <1>1, <1>2, CurrentFacts DEF Rows, Current
<1>4. ASSUME NEW r \in Ranks
      PROVE  /\ micro[r] \in Nat
             /\ numMicro[r] \in Nat \ {0}
             /\ micro[r] < numMicro[r]
             /\ workerImpl = "legacy" => numMicro[r] = MicroBatches(Rows(r))
             /\ seen[r] = Covered(micro[r], numMicro[r], Rows(r))
  BY <1>1, <1>2 DEF TypeOK, Progress
<1>5. \A r \in Ranks : seen'[r] = Covered(micro[r] + 1, numMicro[r], Rows(r))
  BY <1>2, <1>3, <1>4, CoveredNext
<1>6. \A r \in Ranks : seen'[r] \in SUBSET Nat
  BY <1>5, CoveredEntries
<1>7. TypeOK'
  <2>1. seen' \in [Ranks -> SUBSET Nat]
    BY <1>2, <1>6
  <2>2. micro' \in [Ranks -> Nat] /\ pc' \in [Ranks -> PcValues]
    BY <1>2, <1>4 DEF PcValues
  <2>3. QED
    BY <1>1, <1>2, <2>1, <2>2 DEF TypeOK, Ids, Orders
<1>8. LockStep'
  BY <1>1, <1>2 DEF LockStep
<1>9. BlockedInCollective'
  BY <1>2 DEF BlockedInCollective
<1>10. Progress'
  <2>1. SUFFICES ASSUME NEW r \in Ranks
                 PROVE  /\ pc'[r] \in {"forward", "step"}
                        /\ pc'[r] = "forward" =>
                             /\ micro'[r] < numMicro'[r]
                             /\ workerImpl = "legacy" =>
                                  numMicro'[r] = MicroBatches(Rows(r))
                             /\ seen'[r] = Covered(micro'[r], numMicro'[r], Rows(r))
                        /\ pc'[r] = "step" => seen'[r] = 1 .. Rows(r)
    BY <1>2, <1>3 DEF Progress, MicroBatches, CeilDiv, Covered
  <2>2. CASE micro[r] + 1 = numMicro[r]
    <3>1. Covered(numMicro[r], numMicro[r], Rows(r)) = 1 .. Rows(r)
      BY <1>3, <1>4, CoveredAll
    <3>2. QED
      BY <1>2, <1>5, <2>2, <3>1
  <2>3. CASE micro[r] + 1 # numMicro[r]
    BY <1>2, <1>4, <1>5, <2>3
  <2>4. QED
    BY <2>2, <2>3
<1>11. StepIsMiniBatch'
  BY <1>1, <1>2 DEF StepIsMiniBatch
<1>12. QED
  BY <1>7, <1>8, <1>9, <1>10, <1>11 DEF IInv

(* Where a rank goes after a step is again a mini-batch of an epoch. *)
LEMMA NextPosition ==
  ASSUME TypeOK, NEW r \in Ranks
  PROVE  /\ (IF LastPosition(r) /\ ~Done(r) THEN epoch[r] + 1 ELSE epoch[r]) \in Epochs
         /\ (IF Done(r) THEN position[r]
             ELSE IF LastPosition(r) THEN 0 ELSE position[r] + 1) \in Ids
<1>1. numMiniBatch \in Nat \ {0}
  BY PlanEqual
<1>2. epoch[r] \in 0 .. PpoEpochs - 1 /\ position[r] \in 0 .. numMiniBatch - 1
  BY DEF TypeOK, Epochs, Ids
<1>3. (LastPosition(r) /\ ~Done(r)) => epoch[r] + 1 # PpoEpochs
  BY DEF Done
<1>4. ~LastPosition(r) => position[r] + 1 # numMiniBatch
  BY DEF LastPosition
<1>5. QED
  BY <1>1, <1>2, <1>3, <1>4, UpdateAssumption DEF Epochs, Ids

LEMMA OptimizerStepIInv ==
  ASSUME IInv, OptimizerStep
  PROVE  IInv'
<1>1. /\ TypeOK /\ LockStep /\ BlockedInCollective /\ Progress /\ StepIsMiniBatch
  BY DEF IInv
<1> DEFINE rec == [epoch |-> [r \in Ranks |-> epoch[r]],
                   id    |-> [r \in Ranks |-> Current(r)],
                   seen  |-> seen]
<1>2. /\ \A r \in Ranks : pc[r] = "step"
      /\ applied' = Append(applied, rec)
      /\ pc' = [r \in Ranks |-> IF Done(r) THEN "done" ELSE "begin"]
      /\ epoch' = [r \in Ranks |->
           IF LastPosition(r) /\ ~Done(r) THEN epoch[r] + 1 ELSE epoch[r]]
      /\ position' = [r \in Ranks |->
           IF Done(r) THEN position[r]
           ELSE IF LastPosition(r) THEN 0 ELSE position[r] + 1]
      /\ blocked' = {}
      /\ UNCHANGED <<workerImpl, numMiniBatch, rows, order, numMicro, micro, seen>>
  BY DEF OptimizerStep, GroupAt, plan
<1>3. \A r \in Ranks : Current(r) \in Ids /\ Rows(r) \in Nat \ {0}
  BY <1>1, CurrentFacts
<1>4. rec \in [epoch : [Ranks -> Epochs], id : [Ranks -> Ids],
               seen : [Ranks -> SUBSET Nat]]
  BY <1>1, <1>3 DEF TypeOK
<1>5. \A q, r \in Ranks : /\ rec.epoch[q] = rec.epoch[r]
                          /\ rec.id[q] = rec.id[r]
                          /\ rec.seen[r] = 1 .. rows[rec.id[r]][r]
  <2>1. \A q, r \in Ranks : epoch[q] = epoch[r] /\ Current(q) = Current(r)
    BY <1>1, SameRows DEF LockStep
  <2>2. \A r \in Ranks : seen[r] = 1 .. rows[Current(r)][r]
    BY <1>1, <1>2 DEF Progress, Rows
  <2>3. QED
    BY <2>1, <2>2
<1> HIDE DEF rec
<1>6. TypeOK'
  <2>1. epoch' \in [Ranks -> Epochs] /\ position' \in [Ranks -> Ids]
    BY <1>1, <1>2, NextPosition
  <2>2. pc' \in [Ranks -> PcValues]
    BY <1>2 DEF PcValues
  <2>3. applied' \in Seq([epoch : [Ranks -> Epochs], id : [Ranks -> Ids],
                          seen : [Ranks -> SUBSET Nat]])
    <3> DEFINE R == [epoch : [Ranks -> Epochs], id : [Ranks -> Ids],
                     seen : [Ranks -> SUBSET Nat]]
    <3>1. applied \in Seq(R) /\ rec \in R
      BY <1>1, <1>4 DEF TypeOK
    <3> HIDE DEF R
    <3>2. Append(applied, rec) \in Seq(R)
      BY <3>1
    <3>3. QED
      BY <1>2, <3>2 DEF R
  <2>4. /\ workerImpl' \in {"legacy", "engine"}
        /\ \E d \in Batches :
             /\ numMiniBatch' = NumMiniBatches(d)
             /\ rows' = [m \in MiniBatchIds(d) |-> [r \in Ranks |-> LocalCount(d, m, r)]]
        /\ Ids' = Ids
        /\ Orders' = Orders
        /\ order' \in [Epochs -> Orders]
    BY <1>1, <1>2 DEF TypeOK, Ids, Orders
  <2>5. /\ blocked' \subseteq Ranks
        /\ numMicro' \in [Ranks -> Nat]
        /\ micro' \in [Ranks -> Nat]
        /\ seen' \in [Ranks -> SUBSET Nat]
    BY <1>1, <1>2 DEF TypeOK
  <2>6. QED
    BY <2>1, <2>2, <2>3, <2>4, <2>5 DEF TypeOK
<1>7. LockStep'
  <2>1. \A q, r \in Ranks : (LastPosition(q) <=> LastPosition(r)) /\ (Done(q) <=> Done(r))
    BY <1>1 DEF LockStep, LastPosition, Done
  <2>2. \A q, r \in Ranks : epoch'[q] = epoch'[r] /\ position'[q] = position'[r]
    BY <1>1, <1>2, <2>1 DEF LockStep
  <2>3. \A q, r \in Ranks : pc'[q] = pc'[r]
    BY <1>2, <2>1
  <2>4. \A q, r \in Ranks : micro'[q] = micro'[r] /\ numMicro'[q] = numMicro'[r]
    BY <1>1, <1>2 DEF LockStep
  <2>5. QED
    BY <2>2, <2>3, <2>4 DEF LockStep
<1>8. BlockedInCollective'
  BY <1>2 DEF BlockedInCollective
<1>9. Progress'
  <2>1. \A r \in Ranks : pc'[r] \in {"begin", "done"}
    BY <1>2
  <2>2. QED
    BY <2>1 DEF Progress
<1>10. StepIsMiniBatch'
  <2>1. applied \in Seq([epoch : [Ranks -> Epochs], id : [Ranks -> Ids],
                         seen : [Ranks -> SUBSET Nat]])
    BY <1>1 DEF TypeOK
  <2>2. \A s \in DOMAIN applied' : (s \in DOMAIN applied /\ applied'[s] = applied[s])
                                   \/ applied'[s] = rec
    BY <1>2, <2>1
  <2>3. SUFFICES ASSUME NEW s \in DOMAIN applied', NEW q \in Ranks, NEW r \in Ranks
                 PROVE  /\ applied'[s].epoch[q] = applied'[s].epoch[r]
                        /\ applied'[s].id[q] = applied'[s].id[r]
                        /\ applied'[s].seen[r] = 1 .. rows[applied'[s].id[r]][r]
    BY <1>2 DEF StepIsMiniBatch
  <2>4. CASE s \in DOMAIN applied /\ applied'[s] = applied[s]
    BY <1>1, <2>4 DEF StepIsMiniBatch
  <2>5. CASE applied'[s] = rec
    BY <1>5, <2>5
  <2>6. QED
    BY <2>2, <2>4, <2>5
<1>11. QED
  BY <1>6, <1>7, <1>8, <1>9, <1>10 DEF IInv

(* A step that changes nothing preserves everything. *)
LEMMA StutterIInv ==
  ASSUME IInv, UNCHANGED vars
  PROVE  IInv'
<1>1. TypeOK /\ LockStep /\ BlockedInCollective /\ Progress /\ StepIsMiniBatch
  BY DEF IInv
<1>2. TypeOK'
  BY <1>1 DEF vars, plan, counters, TypeOK, Ids, Orders
<1>3. LockStep' /\ BlockedInCollective'
  <2>1. /\ pc' = pc /\ blocked' = blocked /\ epoch' = epoch /\ position' = position
        /\ numMicro' = numMicro /\ micro' = micro /\ seen' = seen /\ applied' = applied
        /\ workerImpl' = workerImpl /\ numMiniBatch' = numMiniBatch /\ rows' = rows /\ order' = order
    BY DEF vars, plan, counters
  <2>2. LockStep'
    BY <1>1, <2>1 DEF LockStep, FirstStage, Current, Rows
  <2>3. BlockedInCollective'
    BY <1>1, <2>1 DEF BlockedInCollective
  <2>4. QED
    BY <2>2, <2>3
<1>4. Progress'
  BY <1>1 DEF vars, plan, counters, Progress, Rows, Current, FirstStage, Covered
<1>5. StepIsMiniBatch'
  BY <1>1 DEF vars, plan, counters, StepIsMiniBatch, Rows
<1>6. QED
  BY <1>2, <1>3, <1>4, <1>5 DEF IInv

LEMMA NextIInv == IInv /\ [Next]_vars => IInv'
<1> SUFFICES ASSUME IInv, [Next]_vars PROVE IInv'
  OBVIOUS
<1>1. ASSUME NEW r \in Ranks, BeginMiniBatch(r) PROVE IInv'
  BY <1>1, BeginMiniBatchIInv
<1>2. ASSUME NEW r \in Ranks, Enter(r) PROVE IInv'
  BY <1>2, EnterIInv
<1>3. CASE AllReduceCount
  BY <1>3, AllReduceCountIInv
<1>4. CASE ForwardBackward
  BY <1>4, ForwardBackwardIInv
<1>5. CASE OptimizerStep
  BY <1>5, OptimizerStepIInv
<1>6. CASE Returned
  BY <1>6, StutterIInv DEF Returned
<1>7. CASE UNCHANGED vars
  BY <1>7, StutterIInv
<1>8. QED
  BY <1>1, <1>2, <1>3, <1>4, <1>5, <1>6, <1>7 DEF Next

LEMMA SpecIInv == Spec => []IInv
BY InitIInv, NextIInv, PTL DEF Spec

-----------------------------------------------------------------------------
(* The theorems *)

(* Type correctness. *)
THEOREM TypeCorrect == Spec => []TypeOK
<1>1. IInv => TypeOK
  BY DEF IInv
<1>2. QED
  BY <1>1, SpecIInv, PTL

(* Whenever the whole group is inside a collective, all ranks are in the    *)
(* same one for the same piece of work: the workers of dp_actor, dp_critic  *)
(* and engine_workers never mix or block each other's collectives.          *)
THEOREM CollectivesMatch == Spec => []SameWork
<1>1. IInv => SameWork
  <2>1. SUFFICES ASSUME IInv, blocked = Ranks, NEW q \in Ranks, NEW r \in Ranks
                 PROVE  /\ pc[q] = pc[r]
                        /\ epoch[q] = epoch[r]
                        /\ Current(q) = Current(r)
                        /\ micro[q] = micro[r]
                        /\ numMicro[q] = numMicro[r]
    BY DEF SameWork
  <2>2. pc[q] # "begin" /\ pc[r] # "begin"
    BY <2>1 DEF IInv, BlockedInCollective
  <2>3. Current(q) = Current(r)
    BY <2>1, SameRows DEF IInv
  <2>4. QED
    BY <2>1, <2>2, <2>3 DEF IInv, LockStep
<1>2. QED
  BY <1>1, SpecIInv, PTL

(* Every optimizer step is one mini-batch, the same on all ranks, with the  *)
(* gradient of every entry each rank holds of it.                           *)
THEOREM StepsAreMiniBatches == Spec => []StepIsMiniBatch
<1>1. IInv => StepIsMiniBatch
  BY DEF IInv
<1>2. QED
  BY <1>1, SpecIInv, PTL

(* The engine's refusal of a mini-batch with fewer rows than micro-batches  *)
(* is raised by all ranks or by none.                                       *)
THEOREM RefusedByAll == Spec => []FailTogether
<1>1. IInv => FailTogether
  <2>1. SUFFICES ASSUME IInv, NEW q \in Ranks, pc[q] = "failed", NEW r \in Ranks
                 PROVE  pc[r] = "failed"
    BY DEF FailTogether
  <2>2. pc[q] # FirstStage /\ pc[q] # "begin"
    BY <2>1 DEF FirstStage
  <2>3. pc[r] # "begin"
    BY <2>1, <2>2 DEF IInv, LockStep
  <2>4. QED
    BY <2>1, <2>2, <2>3 DEF IInv, LockStep
<1>2. QED
  BY <1>1, SpecIInv, PTL

-----------------------------------------------------------------------------
(* The promise: every step of the ranks is one of it, or leaves it alone *)

(* The order of an epoch has every mini-batch. *)
LEMMA OrderOnto ==
  ASSUME TypeOK, NEW e \in Epochs
  PROVE  {order[e][p] : p \in 0 .. numMiniBatch - 1} = Ids
<1>1. numMiniBatch \in Nat \ {0}
  BY PlanEqual
<1>2. order[e] \in Injection(Ids, Ids)
  BY DEF TypeOK, Orders, Injection, IsInjective
<1>3. IsFiniteSet(Ids)
  BY <1>1, FS_Interval DEF Ids
<1>4. order[e] \in Surjection(Ids, Ids)
  BY <1>2, <1>3, FS_Injection
<1>5. order[e] \in [Ids -> Ids] /\ \A m \in Ids : \E p \in Ids : order[e][p] = m
  BY <1>4 DEF Surjection
<1>6. QED
  BY <1>5 DEF Ids

LEMMA InitPromise == Init => Promise!Init
<1> SUFFICES ASSUME Init PROVE Promise!Init
  OBVIOUS
<1>1. TypeOK
  BY InitIInv DEF IInv
<1>2. 0 \in Ranks /\ 0 \in Epochs
  BY SizesAssumption, UpdateAssumption DEF Ranks, Epochs
<1>3. /\ epoch[0] = 0 /\ position[0] = 0 /\ applied = <<>>
      /\ \A r \in Ranks : pc[r] = "begin"
  BY <1>2 DEF Init
<1>4. ~AllDone /\ Status = "running"
  BY <1>2, <1>3 DEF AllDone, Status
<1>5. Pending = Ids /\ DOMAIN Held = Ids
  BY <1>1, <1>2, <1>3, <1>4, OrderOnto DEF Pending, Held
<1>6. Ids # {}
  BY <1>1, PlanEqual DEF Ids
<1>7. QED
  BY <1>3, <1>4, <1>5, <1>6 DEF Promise!Init

(* What the promise is read from. *)
Kept == <<workerImpl, numMiniBatch, rows, order, epoch, position, applied>>

LEMMA PromiseUnchanged ==
  ASSUME UNCHANGED Kept, AllDone' <=> AllDone,
         (\E r \in Ranks : pc'[r] = "failed") <=> (\E r \in Ranks : pc[r] = "failed")
  PROVE  UNCHANGED Promise!vars
<1>1. Held' = Held
  BY DEF Kept, Held, Ids
<1>2. Pending' = Pending /\ Status' = Status
  BY DEF Kept, Pending, Status
<1>3. QED
  BY <1>1, <1>2 DEF Promise!vars, Kept

(* The step of the optimizer: what it adds to the history. *)
LEMMA AppliedWhole ==
  ASSUME IInv, OptimizerStep
  PROVE  applied' = Append(applied, [epoch |-> Promise!OnAllRanks(epoch[0]),
                                     id |-> Promise!OnAllRanks(Current(0)),
                                     seen |-> Held[Current(0)]])
<1>1. TypeOK /\ LockStep /\ Progress /\ 0 \in Ranks
  BY SizesAssumption DEF IInv, Ranks
<1>2. \A r \in Ranks : pc[r] = "step"
  BY DEF OptimizerStep, GroupAt
<1>3. \A r \in Ranks : epoch[r] = epoch[0] /\ Current(r) = Current(0)
  BY <1>1, SameRows DEF LockStep
<1>4. [r \in Ranks |-> epoch[r]] = Promise!OnAllRanks(epoch[0])
      /\ [r \in Ranks |-> Current(r)] = Promise!OnAllRanks(Current(0))
  BY <1>3 DEF Promise!OnAllRanks
<1>5. Held[Current(0)] = [r \in Ranks |-> 1 .. rows[Current(0)][r]]
  BY <1>1, CurrentFacts DEF Held
<1>6. \A r \in Ranks : seen[r] = 1 .. rows[Current(0)][r]
  BY <1>1, <1>2, <1>3 DEF Progress, Rows
<1>7. seen = [r \in Ranks |-> seen[r]]
  BY <1>1 DEF TypeOK
<1>8. seen = Held[Current(0)]
  BY <1>5, <1>6, <1>7
<1>9. QED
  BY <1>4, <1>8 DEF OptimizerStep

(* What remains of an epoch after the mini-batch at position p. *)
LEMMA PendingAfter ==
  ASSUME TypeOK, NEW e \in Epochs, NEW p \in Ids
  PROVE  /\ order[e][p] \in {order[e][q] : q \in p .. numMiniBatch - 1}
         /\ {order[e][q] : q \in p + 1 .. numMiniBatch - 1}
              = {order[e][q] : q \in p .. numMiniBatch - 1} \ {order[e][p]}
         /\ p + 1 = numMiniBatch <=> {order[e][q] : q \in p .. numMiniBatch - 1} = {order[e][p]}
<1>1. numMiniBatch \in Nat \ {0} /\ p \in 0 .. numMiniBatch - 1
  BY PlanEqual DEF Ids
<1>2. \A a, b \in 0 .. numMiniBatch - 1 : order[e][a] = order[e][b] => a = b
  BY DEF TypeOK, Orders, Ids
<1>3. p .. numMiniBatch - 1 = {p} \cup (p + 1 .. numMiniBatch - 1) /\ p \notin p + 1 .. numMiniBatch - 1
      /\ p + 1 .. numMiniBatch - 1 \subseteq 0 .. numMiniBatch - 1
  BY <1>1
<1>4. \A q \in p + 1 .. numMiniBatch - 1 : order[e][q] # order[e][p]
  BY <1>1, <1>2, <1>3
<1>5. p + 1 = numMiniBatch <=> p + 1 .. numMiniBatch - 1 = {}
  BY <1>1
<1>6. QED
  BY <1>3, <1>4, <1>5

LEMMA OptimizerStepPromise ==
  ASSUME IInv, OptimizerStep
  PROVE  \E m \in Pending : Promise!Apply(m)
<1> DEFINE e == epoch[0]
           p == position[0]
           m == Current(0)
<1>1. TypeOK /\ LockStep /\ 0 \in Ranks
  BY SizesAssumption DEF IInv, Ranks
<1>2. e \in Epochs /\ p \in Ids /\ m = order[e][p] /\ numMiniBatch \in Nat \ {0}
  BY <1>1, PlanEqual DEF TypeOK, Current
<1>3. /\ \A r \in Ranks : pc[r] = "step"
      /\ pc' = [r \in Ranks |-> IF Done(r) THEN "done" ELSE "begin"]
      /\ epoch' = [r \in Ranks |->
           IF LastPosition(r) /\ ~Done(r) THEN epoch[r] + 1 ELSE epoch[r]]
      /\ position' = [r \in Ranks |->
           IF Done(r) THEN position[r]
           ELSE IF LastPosition(r) THEN 0 ELSE position[r] + 1]
      /\ UNCHANGED <<workerImpl, numMiniBatch, rows, order>>
  BY DEF OptimizerStep, GroupAt, plan
<1>4. \A r \in Ranks : (LastPosition(r) <=> p + 1 = numMiniBatch)
                       /\ (Done(r) <=> p + 1 = numMiniBatch /\ e + 1 = PpoEpochs)
  BY <1>1 DEF LockStep, LastPosition, Done
<1>5. ~AllDone /\ Status = "running" /\ Pending = {order[e][q] : q \in p .. numMiniBatch - 1}
  BY <1>1, <1>3 DEF AllDone, Status, Pending
<1>6. Held' = Held /\ (workerImpl = "engine")' = (workerImpl = "engine") /\ DOMAIN Held = Ids
  BY <1>3 DEF Held, Ids
<1>7. applied' = Append(applied, [epoch |-> Promise!OnAllRanks(e), id |-> Promise!OnAllRanks(m),
                                  seen |-> Held[m]])
  BY AppliedWhole
<1>8. /\ m \in Pending
      /\ {order[e][q] : q \in p + 1 .. numMiniBatch - 1} = Pending \ {m}
      /\ p + 1 = numMiniBatch <=> Pending = {m}
  BY <1>1, <1>2, <1>5, PendingAfter
<1>9. TypeOK'
  BY OptimizerStepIInv DEF IInv
<1>10. /\ AllDone' <=> (p + 1 = numMiniBatch /\ e + 1 = PpoEpochs)
       /\ ~\E r \in Ranks : pc'[r] = "failed"
  BY <1>1, <1>3, <1>4 DEF AllDone
<1> HIDE DEF m
<1>11. CASE p + 1 # numMiniBatch
  <2>1. epoch'[0] = e /\ position'[0] = p + 1
    BY <1>1, <1>3, <1>4, <1>11
  <2>2. Pending' = {order[e][q] : q \in p + 1 .. numMiniBatch - 1} /\ Status' = "running"
    BY <1>3, <1>10, <1>11, <2>1 DEF Pending, Status
  <2>3. Promise!Apply(m)
    BY <1>5, <1>6, <1>7, <1>8, <1>11, <2>1, <2>2 DEF Promise!Apply
  <2>4. QED
    BY <1>8, <2>3
<1>12. CASE p + 1 = numMiniBatch /\ e + 1 # PpoEpochs
  <2>1. epoch'[0] = e + 1 /\ position'[0] = 0
    BY <1>1, <1>3, <1>4, <1>12
  <2>2. e + 1 \in Epochs /\ e + 1 < PpoEpochs
    BY <1>2, <1>12, UpdateAssumption DEF Epochs
  <2>3. Pending' = {order[e + 1][q] : q \in 0 .. numMiniBatch - 1} /\ Status' = "running"
    BY <1>3, <1>10, <1>12, <2>1 DEF Pending, Status
  <2>4. Pending' = DOMAIN Held
    BY <1>1, <1>6, <2>2, <2>3, OrderOnto
  <2>5. Promise!Apply(m)
    BY <1>5, <1>6, <1>7, <1>8, <1>12, <2>1, <2>2, <2>3, <2>4 DEF Promise!Apply
  <2>6. QED
    BY <1>8, <2>5
<1>13. CASE p + 1 = numMiniBatch /\ e + 1 = PpoEpochs
  <2>1. epoch'[0] = e
    BY <1>1, <1>3, <1>4, <1>13
  <2>2. Pending' = {} /\ Status' = "returned"
    BY <1>10, <1>13 DEF Pending, Status
  <2>3. Promise!Apply(m)
    BY <1>5, <1>6, <1>7, <1>8, <1>13, <2>1, <2>2 DEF Promise!Apply
  <2>4. QED
    BY <1>8, <2>3
<1>14. QED
  BY <1>11, <1>12, <1>13

LEMMA NextPromise ==
  ASSUME IInv, [Next]_vars
  PROVE  [Promise!Next]_(Promise!vars)
<1>1. TypeOK /\ LockStep /\ Progress /\ 0 \in Ranks
  BY SizesAssumption DEF IInv, Ranks
<1>2. ASSUME NEW r \in Ranks, BeginMiniBatch(r) PROVE UNCHANGED Promise!vars
  <2>1. /\ pc[r] = "begin" /\ UNCHANGED Kept
        /\ pc' = [pc EXCEPT ![r] = IF workerImpl = "engine" THEN "count" ELSE "forward"]
    BY <1>2 DEF BeginMiniBatch, plan, Kept
  <2>2. pc'[r] \in {"count", "forward"} /\ \A q \in Ranks : q # r => pc'[q] = pc[q]
    BY <1>1, <2>1 DEF TypeOK
  <2>3. ~AllDone /\ ~AllDone'
    BY <2>1, <2>2 DEF AllDone
  <2>4. (\E q \in Ranks : pc'[q] = "failed") <=> (\E q \in Ranks : pc[q] = "failed")
    BY <2>1, <2>2
  <2>5. QED
    BY <2>1, <2>3, <2>4, PromiseUnchanged
<1>3. ASSUME NEW r \in Ranks, Enter(r) PROVE UNCHANGED Promise!vars
  <2>1. UNCHANGED Kept /\ pc' = pc
    BY <1>3 DEF Enter, plan, counters, Kept
  <2>2. QED
    BY <2>1, PromiseUnchanged DEF AllDone
<1>4. CASE AllReduceCount
  <2>1. /\ \A r \in Ranks : pc[r] = "count" /\ pc'[r] = IF AgreedMicroBatches > Rows(r) THEN "failed" ELSE "forward"
        /\ UNCHANGED Kept
    BY <1>4 DEF AllReduceCount, GroupAt, plan, Kept
  <2>2. ~AllDone /\ ~AllDone' /\ ~\E r \in Ranks : pc[r] = "failed"
    BY <1>1, <2>1 DEF AllDone
  <2>3. CASE \E r \in Ranks : pc'[r] = "failed"
    <3>1. Held' = Held /\ Pending' = Pending
      BY <2>1, <2>2 DEF Kept, Held, Ids, Pending
    <3>2. Status = "running" /\ Status' = "raised"
      BY <2>2, <2>3 DEF Status
    <3>3. workerImpl = "engine" /\ workerImpl' = workerImpl
      BY <1>1, <2>1 DEF Progress, Kept
    <3>4. Promise!Refuse
      BY <2>1, <3>1, <3>2, <3>3 DEF Promise!Refuse, Kept
    <3>5. QED
      BY <3>4 DEF Promise!Next
  <2>4. CASE ~\E r \in Ranks : pc'[r] = "failed"
    BY <2>1, <2>2, <2>4, PromiseUnchanged
  <2>5. QED
    BY <2>3, <2>4
<1>5. CASE ForwardBackward
  <2>1. /\ \A r \in Ranks : pc[r] = "forward" /\ pc'[r] \in {"step", "forward"}
        /\ UNCHANGED Kept
    BY <1>5 DEF ForwardBackward, GroupAt, plan, Kept
  <2>2. QED
    BY <1>1, <2>1, PromiseUnchanged DEF AllDone
<1>6. CASE OptimizerStep
  BY <1>6, OptimizerStepPromise DEF Promise!Next
<1>7. CASE Returned \/ UNCHANGED vars
  <2>1. UNCHANGED Kept /\ pc' = pc
    BY <1>7 DEF Returned, vars, plan, counters, Kept
  <2>2. QED
    BY <2>1, PromiseUnchanged DEF AllDone
<1>8. QED
  BY <1>2, <1>3, <1>4, <1>5, <1>6, <1>7 DEF Next

(* An update of any batches, sizes and orders on any number of ranks keeps *)
(* its promise: every epoch applies each mini-batch once, whole and on all *)
(* ranks, and no update returns before its last epoch is through           *)
(* (update_policy, update_critic, train_mini_batch).                       *)
THEOREM UpdateKeepsPromise == Spec => KeepsPromise
<1>1. Init => Promise!Init
  BY InitPromise
<1>2. IInv /\ [Next]_vars => [Promise!Next]_(Promise!vars)
  BY NextPromise
<1>3. QED
  BY <1>1, <1>2, SpecIInv, PTL DEF Spec, KeepsPromise, Promise!Spec

-----------------------------------------------------------------------------
(* The indices a loop of prepare_trajectory_mini_batch collects *)

(* q lists the elements of S among 1 .. n in increasing order. *)
Lists(q, n, S) ==
  /\ q \in Seq(1 .. n)
  /\ \A a \in 1 .. Len(q) : q[a] \in S
  /\ \A a, b \in 1 .. Len(q) : a < b => q[a] < q[b]
  /\ \A x \in 1 .. n : x \in S => \E a \in 1 .. Len(q) : q[a] = x

(* One more index keeps a list a list. *)
LEMMA ListsMore ==
  ASSUME NEW q, NEW i \in Nat, NEW S, Lists(q, i, S),
         NEW r, r = IF i + 1 \in S THEN Append(q, i + 1) ELSE q
  PROVE  Lists(r, i + 1, S)
<1> DEFINE j == i + 1
<1>1. 1 .. j = (1 .. i) \cup {j} /\ j \notin 1 .. i /\ j \in Nat /\ i < j
  OBVIOUS
<1>2. q \in Seq(1 .. i) /\ Len(q) \in Nat
  BY DEF Lists
<1>3. r = IF j \in S THEN Append(q, j) ELSE q
  OBVIOUS
<1> HIDE DEF j
<1>4. CASE j \notin S
  <2>1. q \in Seq(1 .. j)
    BY <1>1, <1>2
  <2>2. QED
    BY <1>1, <1>3, <1>4, <2>1 DEF Lists, j
<1>5. CASE j \in S
  <2>1. /\ r \in Seq(1 .. j) /\ Len(r) = Len(q) + 1 /\ r[Len(q) + 1] = j
        /\ \A a \in 1 .. Len(q) : r[a] = q[a] /\ q[a] \in 1 .. i
    <3>1. r = Append(q, j) /\ j \in 1 .. j
      BY <1>1, <1>3, <1>5
    <3>2. q \in Seq(1 .. j)
      BY <1>1, <1>2
    <3>3. \A a \in 1 .. Len(q) : q[a] \in 1 .. i
      BY <1>2
    <3>4. \A a \in 1 .. Len(q) : Append(q, j)[a] = q[a]
      BY <3>2
    <3>5. Append(q, j) \in Seq(1 .. j) /\ Len(Append(q, j)) = Len(q) + 1 /\ Append(q, j)[Len(q) + 1] = j
      BY <3>1, <3>2
    <3>6. QED
      BY <3>1, <3>3, <3>4, <3>5
  <2>2. \A a \in 1 .. Len(r) : a \in 1 .. Len(q) \/ a = Len(q) + 1
    BY <1>2, <2>1
  <2>3. \A a \in 1 .. Len(r) : r[a] \in S
    BY <1>5, <2>1, <2>2 DEF Lists
  <2>4. \A a, b \in 1 .. Len(r) : a < b => r[a] < r[b]
    <3>1. SUFFICES ASSUME NEW a \in 1 .. Len(r), NEW b \in 1 .. Len(r), a < b PROVE r[a] < r[b]
      OBVIOUS
    <3>2. a \in 1 .. Len(q)
      BY <1>2, <2>1, <3>1
    <3>3. CASE b \in 1 .. Len(q)
      BY <2>1, <3>1, <3>2, <3>3 DEF Lists
    <3>4. CASE b = Len(q) + 1
      <4>1. q[a] \in 1 .. i
        BY <2>1, <3>2
      <4>2. q[a] < j
        BY <4>1 DEF j
      <4>3. QED
        BY <2>1, <3>2, <3>4, <4>2
    <3>5. QED
      BY <2>2, <3>3, <3>4
  <2>5. \A x \in 1 .. j : x \in S => \E a \in 1 .. Len(r) : r[a] = x
    <3>1. SUFFICES ASSUME NEW x \in 1 .. j, x \in S PROVE \E a \in 1 .. Len(r) : r[a] = x
      OBVIOUS
    <3>2. CASE x = j
      BY <1>2, <2>1, <3>2
    <3>3. CASE x \in 1 .. i
      <4>1. PICK a \in 1 .. Len(q) : q[a] = x
        BY <3>1, <3>3 DEF Lists
      <4>2. a \in 1 .. Len(r)
        BY <1>2, <2>1
      <4>3. QED
        BY <2>1, <4>1, <4>2
    <3>4. QED
      BY <1>1, <3>2, <3>3
  <2>6. QED
    BY <2>1, <2>3, <2>4, <2>5 DEF Lists, j
<1>6. QED
  BY <1>4, <1>5

(* InOrder lists the elements. *)
LEMMA InOrderLists ==
  ASSUME NEW n \in Nat, NEW S
  PROVE  Lists(InOrder(n, S), n, S)
<1> DEFINE X == Seq(1 .. n)
           G == [x \in X |-> [i \in 1 .. n |-> IF i \in S THEN Append(x, i) ELSE x]]
           Eq(h) == h = [i \in 0 .. n |->
                           IF i = 0 THEN <<>>
                           ELSE IF i \in S THEN Append(h[i - 1], i) ELSE h[i - 1]]
           F == CHOOSE h : Eq(h)
<1>1. <<>> \in X /\ Closed(G, X, n)
  <2>1. <<>> \in X
    OBVIOUS
  <2>2. ASSUME NEW x \in X, NEW i \in 1 .. n PROVE G[x][i] \in X
    <3>1. Append(x, i) \in X
      OBVIOUS
    <3>2. G[x][i] = IF i \in S THEN Append(x, i) ELSE x
      <4> HIDE DEF X
      <4> QED OBVIOUS
    <3>3. QED
      <4> HIDE DEF X, G
      <4> QED BY <3>1, <3>2
  <2>3. QED
    <3> HIDE DEF X, G
    <3> QED BY <2>1, <2>2 DEF Closed
<1>2. PICK f, h : Folded(f, h, n, X, <<>>, G)
  <2> HIDE DEF X, G
  <2> QED BY <1>1, FoldExists
<1>3. /\ f \in [0 .. n -> X] /\ f[0] = <<>>
      /\ \A i \in 1 .. n : f[i] = IF i \in S THEN Append(f[i - 1], i) ELSE f[i - 1]
  <2>1. f \in [0 .. n -> X] /\ Along(f, n, <<>>, G)
    BY <1>2 DEF Folded
  <2>2. ASSUME NEW i \in 1 .. n PROVE f[i] = IF i \in S THEN Append(f[i - 1], i) ELSE f[i - 1]
    <3>1. i - 1 \in 0 .. n
      OBVIOUS
    <3>2. f[i - 1] \in X
      BY <2>1, <3>1
    <3>3. f[i] = G[f[i - 1]][i]
      BY <2>1 DEF Along
    <3>4. QED
      BY <3>2, <3>3
  <2>3. f[0] = <<>>
    BY <2>1 DEF Along
  <2>4. QED
    BY <2>1, <2>2, <2>3
<1>4. Eq(f)
  <2>1. f = [i \in 0 .. n |-> f[i]]
    BY <1>3
  <2>2. \A i \in 0 .. n : f[i] = IF i = 0 THEN <<>>
                           ELSE IF i \in S THEN Append(f[i - 1], i) ELSE f[i - 1]
    <3>1. SUFFICES ASSUME NEW i \in 0 .. n
                   PROVE  f[i] = IF i = 0 THEN <<>>
                           ELSE IF i \in S THEN Append(f[i - 1], i) ELSE f[i - 1]
      OBVIOUS
    <3>2. i = 0 \/ i \in 1 .. n
      OBVIOUS
    <3> HIDE DEF X
    <3>3. QED
      BY <1>3, <3>2
  <2>3. QED
    BY <2>1, <2>2
<1>5. Eq(F)
  <2> HIDE DEF Eq
  <2> QED BY <1>4
<1>6. InOrder(n, S) = F[n]
  BY DEF InOrder
<1> DEFINE T == {i \in 0 .. n : Lists(F[i], i, S)}
<1>7. \A i \in 0 .. n : F[i] = IF i = 0 THEN <<>>
                           ELSE IF i \in S THEN Append(F[i - 1], i) ELSE F[i - 1]
  <2> HIDE DEF F
  <2> QED BY <1>5
<1> HIDE DEF F
<1>8. 0 \in T
  <2>1. F[0] = <<>>
    BY <1>7
  <2>2. Lists(<<>>, 0, S)
    BY DEF Lists
  <2>3. QED
    BY <2>1, <2>2
<1>9. ASSUME NEW i \in 0 .. n - 1, i \in T PROVE i + 1 \in T
  <2>1. i + 1 \in 0 .. n /\ i + 1 # 0 /\ (i + 1) - 1 = i /\ i \in Nat
    OBVIOUS
  <2>2. F[i + 1] = IF i + 1 \in S THEN Append(F[i], i + 1) ELSE F[i]
    BY <1>7, <2>1
  <2>3. Lists(F[i], i, S)
    BY <1>9
  <2>4. Lists(F[i + 1], i + 1, S)
    BY <2>1, <2>2, <2>3, ListsMore
  <2>5. QED
    BY <2>1, <2>4
<1>10. \A i \in 0 .. n - 1 : i \in T => i + 1 \in T
  BY <1>9
<1>11. n \in T
  <2> HIDE DEF T
  <2>1. 0 .. n \subseteq T
    BY <1>8, <1>10, UpTo
  <2>2. QED
    BY <2>1
<1>12. QED
  BY <1>6, <1>11

(* The first c elements of a list are c. *)
LEMMA ListsHead ==
  ASSUME NEW q, NEW n \in Nat, NEW S, Lists(q, n, S), NEW c \in 0 .. Len(q)
  PROVE  /\ IsFiniteSet({q[a] : a \in 1 .. c})
         /\ Cardinality({q[a] : a \in 1 .. c}) = c
<1> DEFINE I == 1 .. c
           E == {q[a] : a \in I}
           f == [a \in I |-> q[a]]
<1>1. Len(q) \in Nat /\ c \in Nat /\ \A a \in I : a \in 1 .. Len(q) /\ q[a] \in Nat
  BY DEF Lists
<1>2. \A a, b \in I : f[a] = f[b] => a = b
  <2>1. SUFFICES ASSUME NEW a \in I, NEW b \in I, q[a] = q[b] PROVE a = b
    OBVIOUS
  <2>2. ~ (q[a] < q[b]) /\ ~ (q[b] < q[a])
    BY <1>1, <2>1
  <2>3. ~ (a < b) /\ ~ (b < a)
    BY <1>1, <2>2 DEF Lists
  <2>4. QED
    BY <2>3
<1>3. f \in Bijection(I, E)
  <2>1. f \in [I -> E]
    OBVIOUS
  <2>2. \A e \in E : \E a \in I : f[a] = e
    OBVIOUS
  <2> HIDE DEF I, E, f
  <2>3. f \in Injection(I, E)
    BY <1>2, <2>1 DEF Injection, IsInjective
  <2>4. f \in Surjection(I, E)
    BY <2>1, <2>2 DEF Surjection
  <2>5. QED
    BY <2>3, <2>4 DEF Bijection
<1>4. IsFiniteSet(I) /\ Cardinality(I) = c
  <2>1. 1 \in Int /\ c \in Int /\ (1 > c => c = 0)
    BY <1>1
  <2>2. IsFiniteSet(I) /\ Cardinality(I) = IF 1 > c THEN 0 ELSE c - 1 + 1
    BY <2>1, FS_Interval
  <2>3. QED
    BY <1>1, <2>1, <2>2
<1>5. ExistsBijection(I, E)
  <2> HIDE DEF I, E, f
  <2> QED BY <1>3 DEF ExistsBijection
<1>6. IsFiniteSet(E) /\ Cardinality(E) = Cardinality(I)
  <2> HIDE DEF I, E
  <2> QED BY <1>4, <1>5, FS_Bijection
<1>7. QED
  BY <1>4, <1>6

CountsBelow(q, n, S) ==
  \A a \in 1 .. Len(q) : Cardinality({x \in 1 .. n : x \in S /\ x < q[a]}) = a - 1

(* A list is as long as its set, and counts what lies below each element. *)
LEMMA ListsCount ==
  ASSUME NEW q, NEW n \in Nat, NEW S, Lists(q, n, S)
  PROVE  /\ Len(q) = Cardinality({x \in 1 .. n : x \in S})
         /\ CountsBelow(q, n, S)
<1>1. q \in Seq(1 .. n) /\ Len(q) \in Nat /\ \A a \in 1 .. Len(q) : q[a] \in 1 .. n /\ q[a] \in S
  BY DEF Lists
<1>2. {q[a] : a \in 1 .. Len(q)} = {x \in 1 .. n : x \in S}
  <2>1. \A x \in 1 .. n : x \in S => \E a \in 1 .. Len(q) : q[a] = x
    BY DEF Lists
  <2>2. QED
    BY <1>1, <2>1
<1>3. Len(q) \in 0 .. Len(q)
  BY <1>1
<1>4. Len(q) = Cardinality({x \in 1 .. n : x \in S})
  BY <1>2, <1>3, ListsHead
<1>5. ASSUME NEW a \in 1 .. Len(q)
      PROVE  Cardinality({x \in 1 .. n : x \in S /\ x < q[a]}) = a - 1
  <2>1. a - 1 \in 0 .. Len(q) /\ a \in Nat /\ \A b \in 1 .. a - 1 : b \in 1 .. Len(q) /\ b < a
    BY <1>1
  <2>2. {q[b] : b \in 1 .. a - 1} = {x \in 1 .. n : x \in S /\ x < q[a]}
    <3>1. \A b \in 1 .. a - 1 : q[b] \in 1 .. n /\ q[b] \in S /\ q[b] < q[a]
      BY <1>1, <2>1 DEF Lists
    <3>2. ASSUME NEW x \in 1 .. n, x \in S, x < q[a] PROVE \E b \in 1 .. a - 1 : q[b] = x
      <4>1. PICK b \in 1 .. Len(q) : q[b] = x
        BY <3>2 DEF Lists
      <4>2. q[a] \in Nat /\ ~ (q[a] < x) /\ x # q[a]
        BY <1>1, <3>2
      <4>3. ~ (a < b) /\ a # b
        BY <4>1, <4>2 DEF Lists
      <4>4. b \in 1 .. a - 1
        BY <2>1, <4>3
      <4>5. QED
        BY <4>1, <4>4
    <3>3. QED
      BY <3>1, <3>2
  <2>3. QED
    BY <2>1, <2>2, ListsHead
<1>6. QED
  BY <1>4, <1>5 DEF CountsBelow

(* The list of an interval. *)
LEMMA ListsInterval ==
  ASSUME NEW q, NEW n \in Nat, NEW S, NEW a \in Nat, NEW b \in Nat, a <= b, b <= n,
         Lists(q, n, S), \A x \in 1 .. n : x \in S <=> x \in a + 1 .. b
  PROVE  Len(q) = b - a /\ \A k \in 1 .. b - a : q[k] = a + k
<1>1. q \in Seq(1 .. n) /\ Len(q) \in Nat /\ \A k \in 1 .. Len(q) : q[k] \in a + 1 .. b /\ q[k] \in 1 .. n
  <2>1. q \in Seq(1 .. n) /\ \A k \in 1 .. Len(q) : q[k] \in S
    BY DEF Lists
  <2>2. QED
    BY <2>1
<1>2. Len(q) = b - a
  <2>1. {x \in 1 .. n : x \in S} = a + 1 .. b
    OBVIOUS
  <2>2. Cardinality(a + 1 .. b) = IF a + 1 > b THEN 0 ELSE b - (a + 1) + 1
    <3>1. a + 1 \in Int /\ b \in Int
      OBVIOUS
    <3>2. QED
      BY <3>1, FS_Interval
  <2>3. Len(q) = Cardinality(a + 1 .. b)
    BY <2>1, ListsCount
  <2>4. QED
    BY <2>2, <2>3
<1>3. ASSUME NEW k \in 1 .. b - a PROVE q[k] = a + k
  <2>1. k \in 1 .. Len(q) /\ q[k] \in a + 1 .. b
    BY <1>1, <1>2
  <2>2. {x \in 1 .. n : x \in S /\ x < q[k]} = a + 1 .. q[k] - 1
    BY <2>1
  <2>3. Cardinality(a + 1 .. q[k] - 1) = IF a + 1 > q[k] - 1 THEN 0 ELSE (q[k] - 1) - (a + 1) + 1
    <3>1. a + 1 \in Int /\ q[k] - 1 \in Int
      BY <2>1
    <3>2. QED
      BY <3>1, FS_Interval
  <2>4. Cardinality(a + 1 .. q[k] - 1) = k - 1
    <3>1. CountsBelow(q, n, S)
      BY ListsCount
    <3>2. QED
      BY <2>1, <2>2, <3>1 DEF CountsBelow
  <2>5. QED
    BY <2>1, <2>3, <2>4
<1>4. QED
  BY <1>2, <1>3

-----------------------------------------------------------------------------
(* The trajectories, in the order in which they first appear *)

GroupOf(d, g) == {i \in ValidIndices(d) : GroupIndex(d, i) = g - 1}

GroupsRight(d, groups) ==
  /\ groups \in [1 .. Cardinality(TrajectoryUids(d)) -> Seq(1 .. Len(d))]
  /\ \A g \in 1 .. Cardinality(TrajectoryUids(d)) :
       Lists(groups[g], Len(d), GroupOf(d, g)) /\ Len(groups[g]) > 0

(* The trajectories before that of row i are the first rows before its own. *)
LEMMA IndexOfFirst ==
  ASSUME NEW d, Len(d) \in Nat, NEW f \in FirstRows(d), NEW i \in GroupRows(d, d[f].uid)
  PROVE  GroupIndex(d, i) = Cardinality({x \in 1 .. Len(d) : x \in FirstRows(d) /\ x < f})
<1>1. d[i].uid = d[f].uid /\ i \in ValidIndices(d)
  BY DEF GroupRows
<1>2. f \in GroupRows(d, d[f].uid) /\ \A k \in GroupRows(d, d[f].uid) : f <= k
  BY DEF GroupRows, FirstRows
<1>3. FirstRows(d) \subseteq 1 .. Len(d) /\ GroupRows(d, d[f].uid) \subseteq 1 .. Len(d)
  BY ValidIndicesFinite DEF FirstRows, GroupRows
<1>4. \A x \in FirstRows(d) : (\A k \in GroupRows(d, d[f].uid) : x < k) <=> x < f
  <2>1. TAKE x \in FirstRows(d)
  <2>2. ASSUME x < f, NEW k \in GroupRows(d, d[f].uid) PROVE x < k
    <3>1. x \in Nat /\ f \in Nat /\ k \in Nat /\ f <= k
      BY <1>2, <1>3
    <3>2. QED
      BY <2>2, <3>1
  <2>3. QED
    BY <1>2, <2>2
<1>5. {j \in FirstRows(d) : \A k \in GroupRows(d, d[i].uid) : j < k}
        = {x \in 1 .. Len(d) : x \in FirstRows(d) /\ x < f}
  BY <1>1, <1>3, <1>4
<1>6. QED
  BY <1>5 DEF GroupIndex

(* _build_trajectory_batches: group g (from 1) is the trajectory at g - 1. *)
LEMMA GroupsAreTrajectories ==
  ASSUME NEW d, Len(d) \in Nat
  PROVE  GroupsRight(d, TrajectoryGroups(d))
<1> DEFINE n == Len(d)
           first == InOrder(n, FirstRows(d))
           c == Cardinality(TrajectoryUids(d))
           groups == TrajectoryGroups(d)
<1>1. Lists(first, n, FirstRows(d))
  BY InOrderLists
<1>2. FirstRows(d) \subseteq ValidIndices(d) /\ ValidIndices(d) \subseteq 1 .. n
  BY ValidIndicesFinite DEF FirstRows
<1>3. Len(first) = c /\ \A a \in 1 .. Len(first) :
        Cardinality({x \in 1 .. n : x \in FirstRows(d) /\ x < first[a]}) = a - 1
  <2>1. {x \in 1 .. n : x \in FirstRows(d)} = FirstRows(d)
    BY <1>2
  <2>2. Len(first) = Cardinality({x \in 1 .. n : x \in FirstRows(d)})
        /\ \A a \in 1 .. Len(first) :
             Cardinality({x \in 1 .. n : x \in FirstRows(d) /\ x < first[a]}) = a - 1
    <3> HIDE DEF first, n
    <3> QED BY <1>1, ListsCount DEF n, CountsBelow
  <2>3. Cardinality(FirstRows(d)) = Cardinality(TrajectoryUids(d))
    BY FirstRowsCountTrajectories
  <2>4. QED
    BY <2>1, <2>2, <2>3
<1>4. groups = [g \in 1 .. c |-> InOrder(n, GroupRows(d, d[first[g]].uid))]
  BY <1>3 DEF TrajectoryGroups
<1> HIDE DEF first, groups, c
<1>5. ASSUME NEW g \in 1 .. c
      PROVE  groups[g] \in Seq(1 .. n) /\ Lists(groups[g], n, GroupOf(d, g)) /\ Len(groups[g]) > 0
  <2> DEFINE f == first[g]
             S == GroupRows(d, d[f].uid)
  <2>1. f \in FirstRows(d) /\ groups[g] = InOrder(n, S)
    BY <1>1, <1>3, <1>4 DEF Lists
  <2>2. \A i \in S : GroupIndex(d, i) = g - 1 /\ i \in ValidIndices(d)
    <3>1. Cardinality({x \in 1 .. n : x \in FirstRows(d) /\ x < f}) = g - 1
      BY <1>3
    <3>2. \A i \in S : i \in ValidIndices(d)
      BY DEF GroupRows
    <3>3. ASSUME NEW i \in S PROVE GroupIndex(d, i) = g - 1
      <4> HIDE DEF f
      <4> QED BY <2>1, <3>1, <3>3, IndexOfFirst
    <3>4. QED
      BY <3>2, <3>3
  <2>3. ASSUME NEW i \in ValidIndices(d), GroupIndex(d, i) = g - 1 PROVE i \in S
    <3>1. PICK e \in FirstRows(d) : e \in GroupRows(d, d[i].uid)
      BY FirstRowExists
    <3>2. PICK a \in 1 .. Len(first) : first[a] = e
      BY <1>1, <1>2, <3>1 DEF Lists
    <3>3. i \in GroupRows(d, d[e].uid)
      BY <3>1 DEF GroupRows
    <3>4. GroupIndex(d, i) = Cardinality({x \in 1 .. n : x \in FirstRows(d) /\ x < e})
      BY <3>3, IndexOfFirst
    <3>5. GroupIndex(d, i) = a - 1
      BY <1>3, <3>2, <3>4
    <3>6. c \in Nat
      BY <1>1, <1>3 DEF Lists
    <3>7. a = g
      BY <1>3, <2>3, <3>5, <3>6
    <3>8. QED
      BY <3>2, <3>3, <3>7
  <2>4. S = GroupOf(d, g)
    BY <2>2, <2>3 DEF GroupOf, GroupRows
  <2>5. Lists(groups[g], n, S)
    BY <2>1, InOrderLists
  <2>6. Len(groups[g]) > 0
    <3>1. f \in S /\ f \in 1 .. n
      BY <1>2, <2>1 DEF GroupRows
    <3>2. PICK a \in 1 .. Len(groups[g]) : groups[g][a] = f
      BY <2>5, <3>1 DEF Lists
    <3>3. Len(groups[g]) \in Nat
      BY <2>5 DEF Lists
    <3>4. QED
      BY <3>2, <3>3
  <2>7. QED
    BY <2>4, <2>5, <2>6 DEF Lists
<1>6. groups \in [1 .. c -> Seq(1 .. n)]
  BY <1>4, <1>5
<1>7. QED
  BY <1>5, <1>6 DEF GroupsRight, c, groups

-----------------------------------------------------------------------------
(* Mini-batches of trajectories *)

(* m pieces of n are less than c exactly if fewer pieces than CeilDiv. *)
LEMMA CeilDivCut ==
  ASSUME NEW n \in Nat \ {0}, NEW c \in Int, c + n - 1 \in Nat, NEW m \in Nat
  PROVE  /\ CeilDiv(c, n) \in Nat
         /\ m < CeilDiv(c, n) <=> m * n < c
<1> DEFINE e == c + n - 1
           k == e \div n
<1>1. e \in Nat /\ k \in Nat /\ e % n \in 0 .. n - 1 /\ e = n * k + (e % n)
  OBVIOUS
<1>2. CeilDiv(c, n) = k
  BY DEF CeilDiv
<1> HIDE DEF k
<1>3. n * k < c + n /\ n * k >= c
  BY <1>1
<1>4. n * k \in Int /\ m * n \in Int /\ n * m = m * n
  BY <1>1
<1>5. ASSUME m < k PROVE m * n < c
  <2>1. PICK j \in Nat : k = m + 1 + j
    <3>1. k - (m + 1) \in Nat /\ k = m + 1 + (k - (m + 1))
      BY <1>1, <1>5
    <3>2. QED
      BY <3>1
  <2>2. n * k = n * m + n + n * j /\ n * j \in Nat
    BY <2>1
  <2>3. QED
    BY <1>3, <1>4, <2>2
<1>6. ASSUME ~ (m < k) PROVE ~ (m * n < c)
  <2>1. PICK j \in Nat : m = k + j
    <3>1. m - k \in Nat /\ m = k + (m - k)
      BY <1>1, <1>6
    <3>2. QED
      BY <3>1
  <2>2. n * m = n * k + n * j /\ n * j \in Nat
    BY <1>1, <2>1
  <2>3. QED
    BY <1>3, <1>4, <2>2
<1>7. QED
  BY <1>1, <1>2, <1>5, <1>6

-----------------------------------------------------------------------------
(* b are the trajectories of mini-batch m: at most MiniBatchSize of them,  *)
(* fewer only at the end.                                                  *)
CutRight(d, m, b, s) ==
  /\ s \in 1 .. MiniBatchSize
  /\ m * MiniBatchSize + s <= Cardinality(TrajectoryUids(d))
  /\ s = MiniBatchSize \/ m * MiniBatchSize + s = Cardinality(TrajectoryUids(d))
  /\ b \in [1 .. s -> Seq(1 .. Len(d))]
  /\ \A p \in 1 .. s : b[p] = TrajectoryGroups(d)[m * MiniBatchSize + p]

(* A batch has finitely many trajectories. *)
LEMMA TrajectoriesCounted ==
  ASSUME NEW d, Len(d) \in Nat
  PROVE  Cardinality(TrajectoryUids(d)) \in Nat
BY FirstRowsCountTrajectories, FS_CardinalityType

(* _chunk_groups *)
LEMMA BatchesAreCut ==
  ASSUME NEW d, Len(d) \in Nat
  PROVE  /\ NumMiniBatches(d) \in Nat
         /\ Len(TrajectoryBatches(d)) = NumMiniBatches(d)
         /\ \A m \in MiniBatchIds(d) : \E s : CutRight(d, m, TrajectoryBatches(d)[m + 1], s)
<1> DEFINE c == Cardinality(TrajectoryUids(d))
           n == NumMiniBatches(d)
           B == MiniBatchSize
           groups == TrajectoryGroups(d)
           cut(k) == SubSeq(groups, (k - 1) * B + 1, Min({k * B, c}))
<1>1. c \in Nat /\ B \in Nat \ {0} /\ c + B - 1 \in Nat
  BY TrajectoriesCounted, SizesAssumption
<1>2. groups \in [1 .. c -> Seq(1 .. Len(d))]
  BY GroupsAreTrajectories DEF GroupsRight
<1> HIDE DEF groups, c
<1>3. Len(groups) = c
  BY <1>1, <1>2
<1>4. n \in Nat /\ \A m \in Nat : m < n <=> m * B < c
  <2>1. ASSUME NEW m \in Nat PROVE CeilDiv(c, B) \in Nat /\ (m < CeilDiv(c, B) <=> m * B < c)
    BY <1>1, CeilDivCut
  <2>2. n = CeilDiv(c, B) /\ 0 \in Nat
    BY DEF NumMiniBatches, c
  <2>3. QED
    BY <2>1, <2>2
<1>5. TrajectoryBatches(d) = [k \in 1 .. n |-> cut(k)]
  BY <1>3 DEF TrajectoryBatches, NumMiniBatches, c, groups
<1>6. ASSUME NEW m \in MiniBatchIds(d) PROVE \E s : CutRight(d, m, TrajectoryBatches(d)[m + 1], s)
  <2> DEFINE s == (IF (m + 1) * B <= c THEN (m + 1) * B ELSE c) - m * B
  <2>1. m \in Nat /\ m < n /\ m + 1 \in 1 .. n /\ (m + 1) - 1 = m
    BY <1>4 DEF MiniBatchIds
  <2>2. m * B < c /\ m * B \in Nat /\ (m + 1) * B = m * B + B /\ (m + 1) * B \in Nat
    <3>1. m * B < c
      BY <1>4, <2>1
    <3>2. m * B \in Nat /\ (m + 1) * B = m * B + B
      BY <1>1, <2>1
    <3>3. QED
      BY <1>1, <3>1, <3>2
  <2>3. s \in 1 .. B /\ m * B + s <= c /\ (s = B \/ m * B + s = c) /\ m * B + s \in Nat
    BY <1>1, <2>2
  <2>4. Min({(m + 1) * B, c}) = m * B + s
    <3>1. Min({(m + 1) * B, c}) = IF (m + 1) * B <= c THEN (m + 1) * B ELSE c
      BY <1>1, <2>2, SmallerOf
    <3>2. QED
      BY <1>1, <2>2, <3>1
  <2>5. TrajectoryBatches(d)[m + 1] = SubSeq(groups, m * B + 1, m * B + s)
    BY <1>5, <2>1, <2>4
  <2> HIDE DEF s
  <2> DEFINE a == m * B
  <2>6. SubSeq(groups, a + 1, a + s) = [p \in 1 .. s |-> groups[a + p]]
    <3>1. a \in Nat /\ s \in Nat /\ a + s <= Len(groups) /\ groups \in Seq(Seq(1 .. Len(d)))
      BY <1>1, <1>2, <1>3, <2>2, <2>3
    <3> HIDE DEF a
    <3>2. QED
      BY <3>1, SubSeqIs
  <2>7. \A p \in 1 .. s : a + p \in 1 .. c
    BY <1>1, <2>2, <2>3
  <2>8. CutRight(d, m, TrajectoryBatches(d)[m + 1], s)
    BY <1>2, <2>3, <2>5, <2>6, <2>7 DEF CutRight, c, groups
  <2>9. QED
    BY <2>8
<1>7. QED
  <2>1. Len(TrajectoryBatches(d)) = n
    <3> HIDE DEF cut, n
    <3> QED BY <1>4, <1>5
  <2>2. \A m \in MiniBatchIds(d) : \E s : CutRight(d, m, TrajectoryBatches(d)[m + 1], s)
    BY <1>6
  <2>3. n \in Nat
    BY <1>4
  <2> HIDE DEF cut
  <2>4. QED
    BY <2>1, <2>2, <2>3

-----------------------------------------------------------------------------
(* The trajectories of a rank *)

(* q is the rows of the plan for rank r in mini-batch m, each of them once. *)
RowsRight(d, m, r, q) ==
  /\ q \in Seq(1 .. Len(d))
  /\ \A k \in 1 .. Len(q) : q[k] \in LocalRows(d, m, r)
  /\ \A x \in LocalRows(d, m, r) : \E k \in 1 .. Len(q) : q[k] = x
  /\ \A k, l \in 1 .. Len(q) : q[k] = q[l] => k = l

(* The trajectories of rank r: every DpSize-th, from the rth on. *)
Dealt(b, s, r) == [k \in 1 .. CeilDiv(s - r, DpSize) |-> b[(k - 1) * DpSize + r + 1]]

(* Piece t of a rank is the trajectory with this index. *)
DealtIndex(m, r, t) == m * MiniBatchSize + (t - 1) * DpSize + r

(* What a rank is dealt are the trajectories with these indices. *)
LEMMA DealtRight ==
  ASSUME NEW d, Len(d) \in Nat, NEW m \in Nat, NEW b, NEW s, CutRight(d, m, b, s),
         NEW r \in Ranks
  PROVE  /\ CeilDiv(s - r, DpSize) \in Nat
         /\ Dealt(b, s, r) \in [1 .. CeilDiv(s - r, DpSize) -> Seq(1 .. Len(d))]
         /\ \A t \in 1 .. CeilDiv(s - r, DpSize) :
              /\ DealtIndex(m, r, t) \in Nat
              /\ DealtIndex(m, r, t) \div MiniBatchSize = m
              /\ (DealtIndex(m, r, t) % MiniBatchSize) % DpSize = r
              /\ Lists(Dealt(b, s, r)[t], Len(d), GroupOf(d, DealtIndex(m, r, t) + 1))
<1> DEFINE K == CeilDiv(s - r, DpSize)
<1>1. s \in 1 .. MiniBatchSize /\ r \in Nat /\ r <= DpSize - 1 /\ DpSize \in Nat \ {0}
      /\ MiniBatchSize \in Nat \ {0} /\ s - r \in Int /\ (s - r) + DpSize - 1 \in Nat
  BY SizesAssumption DEF Ranks, CutRight
<1>2. K \in Nat /\ \A t \in 1 .. K : (t - 1) * DpSize < s - r
  <2>1. ASSUME NEW k \in Nat PROVE K \in Nat /\ (k < K <=> k * DpSize < s - r)
    BY <1>1, CeilDivCut
  <2>2. K \in Nat
    <3>1. 0 \in Nat
      OBVIOUS
    <3>2. QED
      BY <2>1, <3>1
  <2>3. ASSUME NEW t \in 1 .. K PROVE (t - 1) * DpSize < s - r
    <3>1. t - 1 \in Nat /\ t - 1 < K
      BY <2>2
    <3>2. QED
      BY <2>1, <3>1
  <2>4. QED
    BY <2>2, <2>3
<1> HIDE DEF K
<1>3. ASSUME NEW t \in 1 .. K
      PROVE  /\ DealtIndex(m, r, t) \in Nat
             /\ DealtIndex(m, r, t) \div MiniBatchSize = m
             /\ (DealtIndex(m, r, t) % MiniBatchSize) % DpSize = r
             /\ Dealt(b, s, r)[t] \in Seq(1 .. Len(d))
             /\ Lists(Dealt(b, s, r)[t], Len(d), GroupOf(d, DealtIndex(m, r, t) + 1))
  <2> DEFINE x == (t - 1) * DpSize + r
             g == DealtIndex(m, r, t)
             B == m * MiniBatchSize
  <2>1. t - 1 \in Nat /\ x \in Nat /\ x < s
    <3>1. t - 1 \in Nat /\ (t - 1) * DpSize < s - r
      BY <1>2
    <3>2. (t - 1) * DpSize \in Nat
      BY <1>1, <3>1
    <3>3. QED
      BY <1>1, <3>1, <3>2
  <2>2. x % DpSize = r
    <3>1. r \in 0 .. DpSize - 1
      BY <1>1
    <3>2. QED
      BY <1>1, <2>1, <3>1, DivMod
  <2>3. B \in Nat /\ g = B + x /\ DealtIndex(m, r, t) = g
    <3>1. B \in Nat
      BY <1>1
    <3>2. (t - 1) * DpSize \in Int
      BY <1>1, <2>1
    <3>3. QED
      BY <1>1, <3>1, <3>2 DEF DealtIndex
  <2>4. Dealt(b, s, r)[t] = b[x + 1]
    BY <1>2 DEF Dealt, K
  <2> HIDE DEF x, g
  <2>5. x \in 0 .. MiniBatchSize - 1
    BY <1>1, <2>1
  <2>6. g \in Nat /\ g \div MiniBatchSize = m /\ g % MiniBatchSize = x
    <3>1. (B + x) \div MiniBatchSize = m /\ (B + x) % MiniBatchSize = x
      BY <1>1, <2>5, DivMod
    <3> HIDE DEF B
    <3>2. QED
      BY <2>1, <2>3, <3>1
  <2>7. x + 1 \in 1 .. s
    BY <1>1, <2>1
  <2>8. b[x + 1] = TrajectoryGroups(d)[g + 1] /\ b[x + 1] \in Seq(1 .. Len(d))
    <3>1. b[x + 1] = TrajectoryGroups(d)[B + (x + 1)] /\ b[x + 1] \in Seq(1 .. Len(d))
      BY <2>7 DEF CutRight
    <3>2. B + (x + 1) = g + 1
      <4> HIDE DEF B
      <4> QED BY <2>1, <2>3
    <3>3. QED
      BY <3>1, <3>2
  <2>9. g + 1 \in 1 .. Cardinality(TrajectoryUids(d))
    <3>1. B + s <= Cardinality(TrajectoryUids(d)) /\ Cardinality(TrajectoryUids(d)) \in Nat
      BY TrajectoriesCounted DEF CutRight
    <3> HIDE DEF B
    <3>2. QED
      BY <1>1, <2>1, <2>3, <3>1
  <2>10. Lists(TrajectoryGroups(d)[g + 1], Len(d), GroupOf(d, g + 1))
    BY <2>9, GroupsAreTrajectories DEF GroupsRight
  <2>11. QED
    BY <2>2, <2>3, <2>4, <2>6, <2>8, <2>10
<1>4. Dealt(b, s, r) = [k \in 1 .. K |-> b[(k - 1) * DpSize + r + 1]]
  BY DEF Dealt, K
<1>5. Dealt(b, s, r) \in [1 .. K -> Seq(1 .. Len(d))]
  <2>1. Dealt(b, s, r) = [k \in 1 .. K |-> Dealt(b, s, r)[k]]
    BY <1>4
  <2>2. QED
    BY <1>3, <2>1
<1>6. QED
  BY <1>2, <1>3, <1>5 DEF K

(* Different pieces are different trajectories. *)
LEMMA SameDealtIndex ==
  ASSUME NEW m \in Nat, NEW r \in Ranks, NEW t \in Nat \ {0}, NEW u \in Nat \ {0},
         DealtIndex(m, r, t) = DealtIndex(m, r, u)
  PROVE  t = u
<1>1. r \in 0 .. DpSize - 1 /\ DpSize \in Nat \ {0} /\ MiniBatchSize \in Nat \ {0}
  BY SizesAssumption DEF Ranks
<1>2. t - 1 \in Nat /\ u - 1 \in Nat
  OBVIOUS
<1> DEFINE B == m * MiniBatchSize
           x == (t - 1) * DpSize
           y == (u - 1) * DpSize
<1>3. B \in Nat /\ x \in Nat /\ y \in Nat
  BY <1>1, <1>2
<1>4. B + x + r = B + y + r
  BY DEF DealtIndex
<1>5. x + r = y + r
  <2> HIDE DEF B, x, y
  <2> QED BY <1>1, <1>3, <1>4
<1>6. (x + r) \div DpSize = t - 1
  BY <1>1, <1>2, DivMod
<1>7. (y + r) \div DpSize = u - 1
  BY <1>1, <1>2, DivMod
<1>8. QED
  <2> HIDE DEF x, y
  <2> QED BY <1>5, <1>6, <1>7

(* The rank and mini-batch of a row name the piece it is in. *)
LEMMA DealtToRank ==
  ASSUME NEW d, Len(d) \in Nat, NEW m \in Nat, NEW b, NEW s, CutRight(d, m, b, s),
         NEW r \in Ranks, NEW x \in LocalRows(d, m, r)
  PROVE  \E t \in 1 .. CeilDiv(s - r, DpSize) : x \in GroupOf(d, DealtIndex(m, r, t) + 1)
<1> DEFINE g == GroupIndex(d, x)
           c == Cardinality(TrajectoryUids(d))
           M == MiniBatchSize
           y == g % M
           k == y \div DpSize
<1>1. x \in ValidIndices(d) /\ g \div M = m /\ (g % M) % DpSize = r
  BY DEF LocalRows, MiniBatchOf, RankOf
<1>2. g \in Nat /\ g < c /\ c \in Nat
  BY <1>1, GroupIndexRange
<1>3. M \in Nat \ {0} /\ DpSize \in Nat \ {0} /\ r \in 0 .. DpSize - 1
  BY SizesAssumption DEF Ranks
<1>4. s \in 1 .. M /\ (s = M \/ m * M + s = c)
  BY DEF CutRight
<1> HIDE DEF g, c
<1>5. y \in 0 .. M - 1 /\ g = M * m + y
  BY <1>1, <1>2, <1>3
<1>6. M * m = m * M /\ m * M \in Nat
  BY <1>3
<1>7. y < s
  BY <1>2, <1>3, <1>4, <1>5, <1>6
<1> HIDE DEF y
<1>8. k \in Nat /\ y = DpSize * k + r
  <2>1. y \in Nat /\ y % DpSize = r
    BY <1>1, <1>3, <1>5 DEF y
  <2>2. QED
    BY <1>3, <2>1
<1> HIDE DEF k
<1>9. k * DpSize < s - r /\ DpSize * k = k * DpSize /\ k * DpSize \in Nat
  <2>1. DpSize * k = k * DpSize /\ k * DpSize \in Nat
    BY <1>3, <1>8
  <2>2. QED
    BY <1>3, <1>4, <1>7, <1>8, <2>1
<1>10. CeilDiv(s - r, DpSize) \in Nat /\ k < CeilDiv(s - r, DpSize)
  <2>1. s - r \in Int /\ (s - r) + DpSize - 1 \in Nat
    BY <1>3, <1>4
  <2>2. QED
    BY <1>3, <1>8, <1>9, <2>1, CeilDivCut
<1>11. k + 1 \in 1 .. CeilDiv(s - r, DpSize) /\ (k + 1) - 1 = k
  BY <1>8, <1>10
<1>12. DealtIndex(m, r, k + 1) = g
  <2>1. DealtIndex(m, r, k + 1) = m * M + k * DpSize + r
    BY <1>11 DEF DealtIndex
  <2>2. QED
    BY <1>3, <1>5, <1>6, <1>8, <1>9, <2>1
<1>13. x \in GroupOf(d, g + 1)
  BY <1>1, <1>2 DEF GroupOf, g
<1>14. QED
  BY <1>11, <1>12, <1>13

(* _build_rank_ordered_entries deals the trajectories as the plan says. *)
LEMMA RankRowsRight ==
  ASSUME NEW d, Len(d) \in Nat, NEW m \in Nat, NEW b, NEW s, CutRight(d, m, b, s),
         NEW r \in Ranks
  PROVE  RowsRight(d, m, r, RankRows(b, r))
<1> DEFINE q == RankRows(b, r)
           N == 1 .. Len(d)
           K == CeilDiv(s - r, DpSize)
           P == Dealt(b, s, r)
<1>1. Len(b) = s
  BY DEF CutRight
<1>2. q = FlattenSeq(P)
  BY <1>1 DEF RankRows, Dealt
<1>3. K \in Nat /\ P \in [1 .. K -> Seq(N)]
  BY DealtRight
<1>4. \A t \in 1 .. K : /\ DealtIndex(m, r, t) \in Nat
                        /\ DealtIndex(m, r, t) \div MiniBatchSize = m
                        /\ (DealtIndex(m, r, t) % MiniBatchSize) % DpSize = r
                        /\ Lists(P[t], Len(d), GroupOf(d, DealtIndex(m, r, t) + 1))
  BY DealtRight
<1> HIDE DEF q, K, P
<1>5. q \in Seq(N) /\ \E off : Joined(q, 0, K, P, off)
  BY <1>2, <1>3, FlattenJoins
<1>6. PICK off : Joined(q, 0, K, P, off)
  BY <1>5
<1>7. ASSUME NEW p \in 1 .. Len(q)
      PROVE  InPiece(p, q, K, P, off)
  BY <1>3, <1>6, JoinedRow
<1>8. ASSUME NEW t \in 1 .. K, NEW k \in 1 .. Len(P[t])
      PROVE  /\ P[t][k] \in LocalRows(d, m, r)
             /\ GroupIndex(d, P[t][k]) = DealtIndex(m, r, t)
  <2>1. P[t][k] \in GroupOf(d, DealtIndex(m, r, t) + 1)
    BY <1>4 DEF Lists
  <2>2. P[t][k] \in ValidIndices(d) /\ GroupIndex(d, P[t][k]) = DealtIndex(m, r, t)
    <3>1. DealtIndex(m, r, t) \in Nat
      BY <1>4
    <3>2. QED
      BY <2>1, <3>1 DEF GroupOf
  <2>3. QED
    BY <1>4, <2>2 DEF LocalRows, MiniBatchOf, RankOf
<1>9. \A p \in 1 .. Len(q) : q[p] \in LocalRows(d, m, r)
  <2>1. TAKE p \in 1 .. Len(q)
  <2>2. PICK t \in 1 .. K : \E k \in 1 .. Len(P[t]) : q[p] = P[t][k]
    BY <1>7 DEF InPiece
  <2>3. QED
    BY <1>8, <2>2
<1>10. \A x \in LocalRows(d, m, r) : \E p \in 1 .. Len(q) : q[p] = x
  <2>1. TAKE x \in LocalRows(d, m, r)
  <2>2. PICK t \in 1 .. K : x \in GroupOf(d, DealtIndex(m, r, t) + 1)
    BY DealtToRank DEF K
  <2>3. x \in 1 .. Len(d)
    BY <2>2, ValidIndicesFinite DEF GroupOf
  <2>4. PICK k \in 1 .. Len(P[t]) : P[t][k] = x
    BY <1>4, <2>2, <2>3 DEF Lists
  <2>5. off[t - 1] + k \in 1 .. Len(q) /\ q[off[t - 1] + k] = P[t][k]
    <3>1. 0 \in Int /\ K \in Int /\ t \in 0 + 1 .. K
      BY <1>3
    <3>2. QED
      BY <1>6, <3>1, JoinedInside
  <2>6. QED
    BY <2>4, <2>5
<1>11. \A p, o \in 1 .. Len(q) : q[p] = q[o] => p = o
  <2>1. SUFFICES ASSUME NEW p \in 1 .. Len(q), NEW o \in 1 .. Len(q), q[p] = q[o] PROVE p = o
    OBVIOUS
  <2>2. PICK t \in 1 .. K : \E k \in 1 .. Len(P[t]) : p = off[t - 1] + k /\ q[p] = P[t][k]
    BY <1>7 DEF InPiece
  <2>3. PICK k \in 1 .. Len(P[t]) : p = off[t - 1] + k /\ q[p] = P[t][k]
    BY <2>2
  <2>4. PICK u \in 1 .. K : \E l \in 1 .. Len(P[u]) : o = off[u - 1] + l /\ q[o] = P[u][l]
    BY <1>7 DEF InPiece
  <2>5. PICK l \in 1 .. Len(P[u]) : o = off[u - 1] + l /\ q[o] = P[u][l]
    BY <2>4
  <2>6. DealtIndex(m, r, t) = DealtIndex(m, r, u)
    BY <1>8, <2>1, <2>3, <2>5
  <2>7. t = u
    <3>1. t \in Nat \ {0} /\ u \in Nat \ {0}
      BY <1>3
    <3>2. QED
      BY <2>6, <3>1, SameDealtIndex
  <2>8. k = l
    <3>1. P[t] \in Seq(N) /\ Len(P[t]) \in Nat /\ l \in 1 .. Len(P[t]) /\ P[t][k] = P[t][l]
      BY <1>3, <2>1, <2>3, <2>5, <2>7
    <3>2. P[t][k] \in N /\ P[t][l] \in N
      <4>1. \A j \in 1 .. Len(P[t]) : P[t][j] \in N
        BY <3>1, SeqElements
      <4>2. QED
        BY <3>1, <4>1
    <3>3. ~ (P[t][k] < P[t][l]) /\ ~ (P[t][l] < P[t][k])
      BY <3>1, <3>2
    <3>4. ~ (k < l) /\ ~ (l < k)
      BY <1>4, <3>1, <3>3 DEF Lists
    <3>5. QED
      BY <3>1, <3>4
  <2>9. QED
    BY <2>3, <2>5, <2>7, <2>8
<1>12. QED
  BY <1>5, <1>9, <1>10, <1>11 DEF RowsRight, q

(* A rank has as many rows as the plan gives it. *)
LEMMA RowsCounted ==
  ASSUME NEW d, Len(d) \in Nat, NEW m, NEW r, NEW q, RowsRight(d, m, r, q)
  PROVE  Len(q) = Cardinality(LocalRows(d, m, r))
<1> DEFINE I == 1 .. Len(q)
           E == LocalRows(d, m, r)
           f == [a \in I |-> q[a]]
<1>1. f \in [I -> E] /\ (\A a, b \in I : f[a] = f[b] => a = b) /\ \A e \in E : \E a \in I : f[a] = e
  BY DEF RowsRight
<1>2. Len(q) \in Nat
  BY DEF RowsRight
<1> HIDE DEF I, E, f
<1>3. f \in Bijection(I, E)
  <2>3. f \in Injection(I, E)
    BY <1>1 DEF Injection, IsInjective
  <2>4. f \in Surjection(I, E)
    BY <1>1 DEF Surjection
  <2>5. QED
    BY <2>3, <2>4 DEF Bijection
<1>4. ExistsBijection(1 .. Len(q), E)
  BY <1>3 DEF ExistsBijection, I
<1>5. Cardinality(E) = Len(q)
  BY <1>2, <1>4, FS_CountingElements
<1>6. QED
  BY <1>5 DEF E

-----------------------------------------------------------------------------
(* The entries of a rank for one mini-batch *)

EntryType(d) == [source : 1 .. Len(d), mini_batch_id : Nat, is_padding : BOOLEAN]

(* No row is there twice but as padding. *)
OnceEach(entries) ==
  \A k, l \in 1 .. Len(entries) :
    ~ entries[k].is_padding /\ ~ entries[l].is_padding /\ entries[k].source = entries[l].source => k = l

(* The entries of rank r for mini-batch m are as many as on the rank with  *)
(* most rows; those that do not pad are the rows of the plan.              *)
EntriesRight(d, m, r, entries) ==
  /\ entries \in Seq(EntryType(d))
  /\ Len(entries) = MaxLocalRows(d, m)
  /\ \A k \in 1 .. Len(entries) : entries[k].mini_batch_id = m
  /\ \A k \in 1 .. Len(entries) : entries[k].is_padding \/ entries[k].source \in LocalRows(d, m, r)
  /\ \A x \in LocalRows(d, m, r) :
       \E k \in 1 .. Len(entries) : entries[k].source = x /\ ~ entries[k].is_padding
  /\ OnceEach(entries)

(* The padding of _build_rank_ordered_entries evens the ranks out. *)
LEMMA PaddedEntriesRight ==
  ASSUME NEW d, Len(d) \in Nat, NEW m \in Nat, NEW b, NEW s, CutRight(d, m, b, s),
         NEW r \in Ranks
  PROVE  EntriesRight(d, m, r, PaddedRankEntries(b, m, r))
<1> DEFINE q == RankRows(b, r)
           most == MaxLocalRows(d, m)
           entries == PaddedRankEntries(b, m, r)
           pad == b[1][1]
<1>1. ASSUME NEW o \in Ranks
      PROVE  /\ RowsRight(d, m, o, RankRows(b, o))
             /\ Len(RankRows(b, o)) = Cardinality(LocalRows(d, m, o))
  <2>1. RowsRight(d, m, o, RankRows(b, o))
    BY RankRowsRight
  <2>2. QED
    BY <2>1, RowsCounted
<1>2. Max({1} \cup {Len(RankRows(b, o)) : o \in Ranks}) = most
  <2>1. {Len(RankRows(b, o)) : o \in Ranks} = {Cardinality(LocalRows(d, m, o)) : o \in Ranks}
    BY <1>1
  <2>2. QED
    BY <2>1 DEF MaxLocalRows
<1>3. entries = [k \in 1 .. most |-> IF k <= Len(q) THEN Entry(q[k], m, FALSE) ELSE Entry(pad, m, TRUE)]
  BY <1>2 DEF PaddedRankEntries
<1>4. most \in Nat \ {0} /\ Len(q) \in Nat /\ Len(q) <= most
  <2>1. most \in Nat \ {0} /\ Cardinality(LocalRows(d, m, r)) <= most
    BY MaxLocalRowsBounds
  <2>2. Len(q) \in Nat /\ Len(q) = Cardinality(LocalRows(d, m, r))
    BY <1>1 DEF RowsRight
  <2>3. QED
    BY <2>1, <2>2
<1>5. pad \in 1 .. Len(d)
  <2>1. 1 \in 1 .. s /\ m * MiniBatchSize + 1 \in 1 .. Cardinality(TrajectoryUids(d))
    <3>1. s \in Nat /\ 1 <= s /\ MiniBatchSize \in Nat /\ Cardinality(TrajectoryUids(d)) \in Nat
          /\ m * MiniBatchSize + s <= Cardinality(TrajectoryUids(d))
      BY SizesAssumption, TrajectoriesCounted DEF CutRight
    <3>2. m * MiniBatchSize \in Nat
      BY <3>1
    <3>3. QED
      BY <3>1, <3>2
  <2>2. b[1] = TrajectoryGroups(d)[m * MiniBatchSize + 1]
    BY <2>1 DEF CutRight
  <2>3. b[1] \in Seq(1 .. Len(d)) /\ Len(b[1]) > 0
    BY <2>1, <2>2, GroupsAreTrajectories DEF GroupsRight
  <2>4. QED
    BY <2>3
<1>6. RowsRight(d, m, r, q)
  BY <1>1
<1> HIDE DEF q, most, entries, pad
<1>7. ASSUME NEW k \in 1 .. most
      PROVE  /\ entries[k] \in EntryType(d) /\ entries[k].mini_batch_id = m
             /\ k <= Len(q) => entries[k].source = q[k] /\ ~ entries[k].is_padding /\ k \in 1 .. Len(q)
             /\ ~ (k <= Len(q)) => entries[k].is_padding
  <2>1. CASE k <= Len(q)
    <3>1. k \in 1 .. Len(q)
      BY <1>4, <2>1
    <3>2. q[k] \in 1 .. Len(d)
      BY <1>6, <3>1 DEF RowsRight
    <3>3. entries[k] = Entry(q[k], m, FALSE)
      BY <1>3, <2>1
    <3>4. QED
      BY <2>1, <3>1, <3>2, <3>3 DEF Entry, EntryType
  <2>2. CASE ~ (k <= Len(q))
    <3>1. entries[k] = Entry(pad, m, TRUE)
      BY <1>3, <2>2
    <3>2. QED
      BY <1>5, <2>2, <3>1 DEF Entry, EntryType
  <2>3. QED
    BY <2>1, <2>2
<1>8. entries \in Seq(EntryType(d)) /\ Len(entries) = most
  <2>1. entries = [k \in 1 .. most |-> entries[k]]
    BY <1>3
  <2>2. entries \in [1 .. most -> EntryType(d)]
    BY <1>7, <2>1
  <2>3. QED
    BY <1>4, <2>2
<1>9. \A x \in LocalRows(d, m, r) :
        \E k \in 1 .. Len(entries) : entries[k].source = x /\ ~ entries[k].is_padding
  <2>1. TAKE x \in LocalRows(d, m, r)
  <2>2. PICK k \in 1 .. Len(q) : q[k] = x
    BY <1>6 DEF RowsRight
  <2>3. k \in 1 .. most /\ k <= Len(q)
    BY <1>4
  <2>4. QED
    BY <1>7, <1>8, <2>2, <2>3
<1>10. \A k \in 1 .. Len(entries) : entries[k].is_padding \/ entries[k].source \in LocalRows(d, m, r)
  BY <1>6, <1>7, <1>8 DEF RowsRight
<1>11. OnceEach(entries)
  <2>1. SUFFICES ASSUME NEW k \in 1 .. most, NEW l \in 1 .. most, ~ entries[k].is_padding,
                        ~ entries[l].is_padding, entries[k].source = entries[l].source
                 PROVE  k = l
    BY <1>8 DEF OnceEach
  <2>2. k \in 1 .. Len(q) /\ l \in 1 .. Len(q) /\ q[k] = q[l]
    BY <1>7, <2>1
  <2>3. QED
    BY <1>6, <2>2 DEF RowsRight
<1>12. QED
  BY <1>7, <1>8, <1>9, <1>10, <1>11 DEF EntriesRight, most, entries

-----------------------------------------------------------------------------
(* The entries of a rank, and of all ranks, one after the other *)

RankPieces(d, r) ==
  [m \in 1 .. NumMiniBatches(d) |-> PaddedRankEntries(TrajectoryBatches(d)[m], m - 1, r)]

(* Piece m + 1 of every rank is its entries of mini-batch m, and it is at  *)
(* the same place on all ranks.                                            *)
RankJoined(d, r, off) ==
  /\ RankEntries(TrajectoryBatches(d), r) \in Seq(EntryType(d))
  /\ Joined(RankEntries(TrajectoryBatches(d), r), 0, NumMiniBatches(d), RankPieces(d, r), off)
  /\ \A t \in 1 .. NumMiniBatches(d) : EntriesRight(d, t - 1, r, RankPieces(d, r)[t])

(* The entries of one rank, mini-batch by mini-batch. *)
LEMMA RankEntriesJoined ==
  ASSUME NEW d, Len(d) \in Nat, NEW r \in Ranks
  PROVE  \E off : RankJoined(d, r, off)
<1> DEFINE b == TrajectoryBatches(d)
           n == NumMiniBatches(d)
           P == RankPieces(d, r)
           q == RankEntries(b, r)
<1>1. n \in Nat /\ Len(b) = n /\ \A m \in MiniBatchIds(d) : \E s : CutRight(d, m, b[m + 1], s)
  BY BatchesAreCut
<1>2. q = FlattenSeq(P)
  BY <1>1 DEF RankEntries, RankPieces
<1>3. ASSUME NEW t \in 1 .. n PROVE EntriesRight(d, t - 1, r, P[t])
  <2>1. t - 1 \in MiniBatchIds(d) /\ t - 1 \in Nat /\ (t - 1) + 1 = t
    BY <1>1 DEF MiniBatchIds
  <2>2. PICK s : CutRight(d, t - 1, b[t], s)
    BY <1>1, <2>1
  <2>3. EntriesRight(d, t - 1, r, PaddedRankEntries(b[t], t - 1, r))
    <3> HIDE DEF b
    <3> QED BY <2>1, <2>2, PaddedEntriesRight
  <2>4. QED
    BY <2>3 DEF RankPieces
<1>4. P \in [1 .. n -> Seq(EntryType(d))]
  <2>1. P = [t \in 1 .. n |-> P[t]]
    BY DEF RankPieces
  <2> HIDE DEF P
  <2>2. \A t \in 1 .. n : P[t] \in Seq(EntryType(d))
    BY <1>3 DEF EntriesRight
  <2>3. QED
    BY <2>1, <2>2
<1> HIDE DEF P, q, n
<1>5. q \in Seq(EntryType(d)) /\ \E off : Joined(q, 0, n, P, off)
  BY <1>1, <1>2, <1>4, FlattenJoins
<1>6. QED
  BY <1>3, <1>5 DEF RankJoined, P, q, n

(* The mini-batches begin at the same place on all ranks. *)
LEMMA RanksJoined ==
  ASSUME NEW d, Len(d) \in Nat
  PROVE  \E off : \A r \in Ranks : RankJoined(d, r, off)
<1> DEFINE n == NumMiniBatches(d)
<1>1. 0 \in Ranks /\ n \in Nat
  BY SizesAssumption, BatchesAreCut DEF Ranks
<1>2. PICK off : RankJoined(d, 0, off)
  BY <1>1, RankEntriesJoined
<1>3. ASSUME NEW r \in Ranks PROVE RankJoined(d, r, off)
  <2>1. PICK f : RankJoined(d, r, f)
    BY RankEntriesJoined
  <2>2. \A t \in 0 + 1 .. n : Len(RankPieces(d, 0)[t]) = Len(RankPieces(d, r)[t])
    BY <1>2, <2>1 DEF RankJoined, EntriesRight
  <2>3. 0 \in Int /\ n \in Int /\ 0 <= n
    BY <1>1
  <2>4. Joined(RankEntries(TrajectoryBatches(d), 0), 0, n, RankPieces(d, 0), off)
        /\ Joined(RankEntries(TrajectoryBatches(d), r), 0, n, RankPieces(d, r), f)
    BY <1>2, <2>1 DEF RankJoined
  <2>5. off = f
    <3> HIDE DEF n
    <3> QED BY <2>2, <2>3, <2>4, JoinedSame
  <2>6. QED
    BY <2>1, <2>5
<1>4. QED
  BY <1>3

(* The flat list is the entries of rank 0, of rank 1, ..., equally many.   *)
EvenlyJoined(q, d, len) ==
  /\ q \in Seq(EntryType(d)) /\ Len(q) = DpSize * len
  /\ \A r \in Ranks, k \in 1 .. len :
       r * len + k \in 1 .. Len(q) /\ q[r * len + k] = RankEntries(TrajectoryBatches(d), r)[k]

(* Ranks with equally many entries divide the flat list evenly. *)
LEMMA AllEntriesEven ==
  ASSUME NEW d, Len(d) \in Nat, NEW len \in Nat,
         \A r \in Ranks : /\ RankEntries(TrajectoryBatches(d), r) \in Seq(EntryType(d))
                          /\ Len(RankEntries(TrajectoryBatches(d), r)) = len
  PROVE  EvenlyJoined(RankOrderedEntries(TrajectoryBatches(d)), d, len)
<1> DEFINE b == TrajectoryBatches(d)
           R == [r \in 1 .. DpSize |-> RankEntries(b, r - 1)]
           q == RankOrderedEntries(b)
<1>1. DpSize \in Nat \ {0} /\ \A r \in 1 .. DpSize : r - 1 \in Ranks
  BY SizesAssumption DEF Ranks
<1>2. R \in [1 .. DpSize -> Seq(EntryType(d))] /\ (\A r \in 1 .. DpSize : Len(R[r]) = len) /\ q = FlattenSeq(R)
  <2>1. q = FlattenSeq(R)
    BY DEF RankOrderedEntries
  <2>2. \A r \in 1 .. DpSize : R[r] \in Seq(EntryType(d)) /\ Len(R[r]) = len
    BY <1>1
  <2>3. QED
    <3> HIDE DEF q
    <3> QED BY <2>1, <2>2
<1>3. \A r \in Ranks : r + 1 \in 1 .. DpSize /\ r + 1 \in 0 + 1 .. DpSize /\ (r + 1) - 1 = r /\ R[r + 1] = RankEntries(b, r)
  BY <1>1 DEF Ranks
<1> HIDE DEF R, q, b
<1>4. q \in Seq(EntryType(d)) /\ \E off : Joined(q, 0, DpSize, R, off)
  <2>1. DpSize \in Nat
    BY <1>1
  <2>2. QED
    BY <1>2, <2>1, FlattenJoins
<1>5. PICK off : Joined(q, 0, DpSize, R, off)
  BY <1>4
<1>6. \A t \in 0 .. DpSize : off[t] = t * len
  <2>1. DpSize \in Nat
    BY <1>1
  <2>2. OfLength(R, DpSize, len)
    BY <1>2 DEF OfLength
  <2>3. Even(off, DpSize, len)
    BY <1>5, <2>1, <2>2, JoinedEven
  <2>4. QED
    BY <2>3 DEF Even
<1>7. Len(q) = DpSize * len
  BY <1>1, <1>5, <1>6 DEF Joined
<1>8. ASSUME NEW r \in Ranks, NEW k \in 1 .. len
      PROVE  r * len + k \in 1 .. Len(q) /\ q[r * len + k] = RankEntries(b, r)[k]
  <2>1. 0 \in Int /\ DpSize \in Int /\ r + 1 \in 0 + 1 .. DpSize
    BY <1>1, <1>3
  <2>2. k \in 1 .. Len(R[r + 1])
    BY <1>2, <1>3
  <2>3. off[(r + 1) - 1] + k \in 1 .. Len(q) /\ q[off[(r + 1) - 1] + k] = R[r + 1][k]
    BY <1>5, <2>1, <2>2, JoinedInside
  <2>4. r \in 0 .. DpSize
    BY <1>1 DEF Ranks
  <2>5. QED
    BY <1>3, <1>6, <2>3, <2>4
<1>9. QED
  BY <1>4, <1>7, <1>8 DEF EvenlyJoined, q, b

-----------------------------------------------------------------------------
(* What the dispatch gives a rank *)

(* A row of the update batch stands for the entry e. *)
RowRight(d, row, e) ==
  /\ row.source = e.source /\ row.mini_batch_id = e.mini_batch_id
  /\ row.sample_mask = ~ e.is_padding
  /\ row.tokens = IF e.is_padding THEN 0 ELSE d[e.source].tokens
  /\ row.mini_batch_global_size = GlobalSize(TrajectoryBatches(d)[e.mini_batch_id + 1])
  /\ row.mini_batch_global_response_token_num
       = GlobalTokenNum(d, TrajectoryBatches(d)[e.mini_batch_id + 1])

(* What a rank receives: c is its entries, row for row. *)
ChunkRight(d, r, c) ==
  LET entries == RankEntries(TrajectoryBatches(d), r)
  IN  /\ Len(c) \in Nat /\ DOMAIN c = 1 .. Len(c) /\ Len(c) = Len(entries)
      /\ \A k \in 1 .. Len(c) : RowRight(d, c[k], entries[k])

(* The equal cut of the update batch gives every rank its own entries. *)
LEMMA ChunksAreRanks ==
  ASSUME NEW d, Len(d) \in Nat
  PROVE  /\ Len(PreparedBatch(d)) \in Nat
         /\ Len(PreparedBatch(d)) % DpSize = 0
         /\ \A r \in Ranks : ChunkRight(d, r, Chunk(PreparedBatch(d), r))
<1> DEFINE n == NumMiniBatches(d)
           b == TrajectoryBatches(d)
           all == RankOrderedEntries(b)
           q == PreparedBatch(d)
<1>1. PICK off : \A r \in Ranks : RankJoined(d, r, off)
  BY RanksJoined
<1> DEFINE len == off[n]
<1>2. DpSize \in Nat \ {0} /\ 0 \in Ranks /\ \A r \in Ranks : r \in Nat /\ r <= DpSize - 1
  BY SizesAssumption DEF Ranks
<1>3. \A r \in Ranks : RankEntries(b, r) \in Seq(EntryType(d)) /\ Len(RankEntries(b, r)) = len
  BY <1>1 DEF RankJoined, Joined
<1>4. len \in Nat
  BY <1>2, <1>3
<1> HIDE DEF len
<1>5. EvenlyJoined(all, d, len)
  BY <1>3, <1>4, AllEntriesEven
<1>6. Len(all) = DpSize * len /\ DpSize * len \in Nat
  BY <1>2, <1>4, <1>5 DEF EvenlyJoined
<1>7. /\ q = [p \in 1 .. Len(all) |-> q[p]]
      /\ \A p \in 1 .. Len(all) : RowRight(d, q[p], all[p])
  <2>1. q = [p \in 1 .. Len(all) |-> q[p]]
    BY DEF PreparedBatch
  <2>2. ASSUME NEW p \in 1 .. Len(all) PROVE RowRight(d, q[p], all[p])
    <3> DEFINE e == all[p]
    <3>1. q[p] = [source |-> e.source,
                  mini_batch_id |-> e.mini_batch_id,
                  sample_mask |-> ~e.is_padding,
                  tokens |-> IF e.is_padding THEN 0 ELSE d[e.source].tokens,
                  mini_batch_global_size |-> GlobalSize(b[e.mini_batch_id + 1]),
                  mini_batch_global_response_token_num |-> GlobalTokenNum(d, b[e.mini_batch_id + 1])]
      BY DEF PreparedBatch
    <3> HIDE DEF e, q
    <3>2. RowRight(d, q[p], e)
      BY <3>1 DEF RowRight
    <3>3. QED
      BY <3>2 DEF e
  <2>3. QED
    BY <2>1, <2>2
<1> HIDE DEF q, all, b
<1>8. Len(q) = DpSize * len
  BY <1>6, <1>7
<1>9. len * DpSize = DpSize * len /\ (len * DpSize + 0) \div DpSize = len /\ (len * DpSize + 0) % DpSize = 0
  <2>1. 0 \in 0 .. DpSize - 1
    BY <1>2
  <2>2. QED
    BY <1>2, <1>4, <2>1, DivMod
<1>10. Len(q) \div DpSize = len /\ Len(q) % DpSize = 0
  BY <1>2, <1>4, <1>8, <1>9
<1>11. q \in Seq({q[p] : p \in 1 .. Len(all)})
  BY <1>6, <1>7
<1>12. ASSUME NEW r \in Ranks PROVE ChunkRight(d, r, Chunk(q, r))
  <2> DEFINE a == r * len
             s == len
             c == Chunk(q, r)
  <2>1. a \in Nat /\ (r + 1) * len = a + s /\ a + s <= Len(q)
    <3>1. r * len \in Nat /\ (r + 1) * len = r * len + len
      BY <1>2, <1>4
    <3>2. PICK j \in Nat : DpSize = r + 1 + j
      <4>1. DpSize - (r + 1) \in Nat /\ DpSize = r + 1 + (DpSize - (r + 1))
        BY <1>2
      <4>2. QED
        BY <4>1
    <3>3. DpSize * len = r * len + len + j * len /\ j * len \in Nat
      BY <1>2, <1>4, <3>2
    <3>4. QED
      BY <1>4, <1>8, <3>1, <3>3
  <2>2. c = SubSeq(q, a + 1, a + s)
    BY <1>10, <2>1 DEF Chunk
  <2>3. s \in Nat
    BY <1>4
  <2> HIDE DEF a, s, c
  <2>4. c = [p \in 1 .. s |-> q[a + p]]
    BY <1>11, <2>1, <2>2, <2>3, SubSeqIs
  <2>5. Len(c) = len /\ DOMAIN c = 1 .. len
    BY <1>4, <2>4 DEF s
  <2>6. ASSUME NEW k \in 1 .. len
        PROVE  RowRight(d, c[k], RankEntries(b, r)[k])
    <3>1. r * len + k \in 1 .. Len(all) /\ all[r * len + k] = RankEntries(b, r)[k]
      BY <1>5 DEF EvenlyJoined, b
    <3>2. c[k] = q[r * len + k]
      BY <2>4 DEF a, s
    <3>3. QED
      BY <1>7, <3>1, <3>2
  <2>7. Len(RankEntries(b, r)) = len
    BY <1>3 DEF b
  <2>8. QED
    BY <1>4, <2>5, <2>6, <2>7 DEF ChunkRight, b, c
<1>13. QED
  BY <1>6, <1>8, <1>10, <1>12 DEF q

-----------------------------------------------------------------------------
(* The rows of a rank's chunk with id m are the piece its entries of that *)
(* mini-batch make up.                                                     *)
LEMMA IdsArePieces ==
  ASSUME NEW d, Len(d) \in Nat, NEW r \in Ranks, NEW off, RankJoined(d, r, off),
         NEW c, ChunkRight(d, r, c), NEW m \in MiniBatchIds(d)
  PROVE  /\ off[m] \in Nat /\ off[m + 1] = off[m] + Len(RankPieces(d, r)[m + 1])
         /\ off[m + 1] \in Nat /\ off[m + 1] <= Len(c)
         /\ Len(RankPieces(d, r)[m + 1]) \in Nat
         /\ \A k \in 1 .. Len(RankPieces(d, r)[m + 1]) :
              off[m] + k \in 1 .. Len(c)
              /\ RankEntries(TrajectoryBatches(d), r)[off[m] + k] = RankPieces(d, r)[m + 1][k]
         /\ \A x \in 1 .. Len(c) : x \in {k \in DOMAIN c : c[k].mini_batch_id = m}
                                     <=> x \in off[m] + 1 .. off[m + 1]
<1> DEFINE n == NumMiniBatches(d)
           E == RankEntries(TrajectoryBatches(d), r)
           P == RankPieces(d, r)
           t == m + 1
<1>1. n \in Nat /\ m \in Nat /\ t \in 1 .. n /\ t \in 0 + 1 .. n /\ t - 1 = m
  BY BatchesAreCut DEF MiniBatchIds
<1>2. Joined(E, 0, n, P, off) /\ (\A u \in 1 .. n : EntriesRight(d, u - 1, r, P[u])) /\ Len(c) = Len(E)
      /\ DOMAIN c = 1 .. Len(c) /\ \A k \in 1 .. Len(c) : c[k].mini_batch_id = E[k].mini_batch_id
  BY DEF RankJoined, ChunkRight, RowRight
<1> HIDE DEF n, E, P
<1>3. /\ Len(P[t]) \in Nat /\ off[t - 1] \in Nat /\ off[t] \in Nat
      /\ off[t] = off[t - 1] + Len(P[t]) /\ off[t] <= Len(E)
      /\ \A k \in 1 .. Len(P[t]) : off[t - 1] + k \in 1 .. Len(E) /\ E[off[t - 1] + k] = P[t][k]
  <2>1. 0 \in Int /\ n \in Int
    BY <1>1
  <2> HIDE DEF t
  <2>2. QED
    BY <1>1, <1>2, <2>1, JoinedInside
<1>4. off[m] \in Nat /\ off[m + 1] \in Nat /\ off[m + 1] = off[m] + Len(P[t]) /\ Len(P[t]) \in Nat
  BY <1>1, <1>3
<1>5. ASSUME NEW x \in 1 .. Len(c), c[x].mini_batch_id = m PROVE x \in off[m] + 1 .. off[m + 1]
  <2>1. InPiece(x, E, n, P, off)
    BY <1>1, <1>2, JoinedRow
  <2>2. PICK u \in 1 .. n : \E k \in 1 .. Len(P[u]) : x = off[u - 1] + k /\ E[x] = P[u][k]
    BY <2>1 DEF InPiece
  <2>3. PICK k \in 1 .. Len(P[u]) : x = off[u - 1] + k /\ E[x] = P[u][k]
    BY <2>2
  <2>4. P[u][k].mini_batch_id = u - 1
    BY <1>2 DEF EntriesRight
  <2>5. u - 1 = m
    BY <1>2, <1>5, <2>3, <2>4
  <2>6. u = t /\ x = off[m] + k /\ k \in 1 .. Len(P[t])
    <3>1. u = t
      BY <1>1, <2>5
    <3>2. QED
      BY <2>3, <2>5, <3>1
  <2> HIDE DEF t
  <2>7. QED
    BY <1>1, <1>4, <2>6
<1>6. ASSUME NEW x \in off[m] + 1 .. off[m + 1] PROVE c[x].mini_batch_id = m /\ x \in 1 .. Len(c)
  <2>1. PICK k \in 1 .. Len(P[t]) : x = off[m] + k
    <3> DEFINE l == Len(P[t])
               a == off[m]
               e == off[m + 1]
    <3>1. a \in Nat /\ e \in Nat /\ e = a + l /\ l \in Nat /\ x \in a + 1 .. e
      BY <1>4
    <3> HIDE DEF l, a, e
    <3>2. x - a \in 1 .. l /\ x = a + (x - a)
      BY <3>1
    <3>3. QED
      BY <3>2 DEF l, a
  <2>2. x \in 1 .. Len(E) /\ E[x] = P[t][k]
    BY <1>1, <1>3, <2>1
  <2>3. P[t][k].mini_batch_id = t - 1
    BY <1>1, <1>2 DEF EntriesRight
  <2>4. QED
    BY <1>1, <1>2, <2>2, <2>3
<1>7. \A x \in 1 .. Len(c) : x \in {k \in DOMAIN c : c[k].mini_batch_id = m} <=> x \in off[m] + 1 .. off[m + 1]
  BY <1>2, <1>5, <1>6
<1>8. QED
  BY <1>1, <1>2, <1>3, <1>7 DEF E, P

(* What a rank finds under a mini-batch id is what the plan gives it. *)
LocalRight(d, m, r, mine) ==
  /\ Len(mine) = MaxLocalRows(d, m)
  /\ {mine[k].source : k \in {j \in DOMAIN mine : mine[j].sample_mask}} = LocalRows(d, m, r)

(* split_data_proto_by_mini_batch_id finds what the plan assigns. *)
LEMMA LocalMiniBatchRight ==
  ASSUME NEW d, Len(d) \in Nat, NEW r \in Ranks, NEW c, ChunkRight(d, r, c), NEW m \in MiniBatchIds(d)
  PROVE  LocalRight(d, m, r, LocalMiniBatch(c, m))
<1> DEFINE E == RankEntries(TrajectoryBatches(d), r)
           p == RankPieces(d, r)[m + 1]
           S == {k \in DOMAIN c : c[k].mini_batch_id = m}
           q == InOrder(Len(c), S)
           mine == LocalMiniBatch(c, m)
<1>1. PICK off : RankJoined(d, r, off)
  BY RankEntriesJoined
<1>2. /\ off[m] \in Nat /\ off[m + 1] = off[m] + Len(p) /\ off[m + 1] \in Nat /\ off[m + 1] <= Len(c)
      /\ Len(p) \in Nat
      /\ \A k \in 1 .. Len(p) : off[m] + k \in 1 .. Len(c) /\ E[off[m] + k] = p[k]
      /\ \A x \in 1 .. Len(c) : x \in S <=> x \in off[m] + 1 .. off[m + 1]
  BY <1>1, IdsArePieces
<1>3. EntriesRight(d, m, r, p)
  <2>1. NumMiniBatches(d) \in Nat /\ m + 1 \in 1 .. NumMiniBatches(d) /\ (m + 1) - 1 = m
    BY BatchesAreCut DEF MiniBatchIds
  <2>2. QED
    BY <1>1, <2>1 DEF RankJoined
<1>4. Len(c) \in Nat /\ \A k \in 1 .. Len(c) : /\ c[k].source = E[k].source
                                               /\ c[k].sample_mask = ~ E[k].is_padding
  BY DEF ChunkRight, RowRight
<1> HIDE DEF E, p, S
<1>5. Lists(q, Len(c), S)
  BY <1>4, InOrderLists
<1>6. q \in Seq(1 .. Len(c))
  BY <1>5 DEF Lists
<1>7. mine = [k \in DOMAIN q |-> c[q[k]]]
  BY DEF LocalMiniBatch, S
<1> HIDE DEF q, mine
<1>8. Len(q) = Len(p) /\ \A k \in 1 .. Len(p) : q[k] = off[m] + k
  <2> DEFINE a == off[m]
             e == off[m + 1]
  <2>1. a \in Nat /\ e \in Nat /\ a <= e /\ e <= Len(c) /\ e - a = Len(p)
        /\ \A x \in 1 .. Len(c) : x \in S <=> x \in a + 1 .. e
    BY <1>2
  <2> HIDE DEF a, e
  <2>2. Len(q) = e - a /\ \A k \in 1 .. e - a : q[k] = a + k
    BY <1>4, <1>5, <2>1, ListsInterval
  <2>3. QED
    BY <2>1, <2>2 DEF a
<1>9. DOMAIN mine = 1 .. Len(p) /\ Len(mine) = Len(p)
      /\ \A k \in 1 .. Len(p) : /\ mine[k].source = p[k].source
                                /\ mine[k].sample_mask = ~ p[k].is_padding
  <2>1. DOMAIN q = 1 .. Len(p)
    BY <1>6, <1>8
  <2>2. DOMAIN mine = 1 .. Len(p) /\ Len(mine) = Len(p)
    BY <1>2, <1>7, <2>1
  <2>3. ASSUME NEW k \in 1 .. Len(p) PROVE mine[k].source = p[k].source /\ mine[k].sample_mask = ~ p[k].is_padding
    <3>1. mine[k] = c[off[m] + k]
      BY <1>7, <1>8, <2>1
    <3>2. QED
      BY <1>2, <1>4, <3>1
  <2>4. QED
    BY <2>2, <2>3
<1>10. {mine[k].source : k \in {j \in DOMAIN mine : mine[j].sample_mask}} = LocalRows(d, m, r)
  <2>1. ASSUME NEW k \in DOMAIN mine, mine[k].sample_mask PROVE mine[k].source \in LocalRows(d, m, r)
    BY <1>3, <1>9, <2>1 DEF EntriesRight
  <2>2. ASSUME NEW x \in LocalRows(d, m, r)
        PROVE  \E k \in DOMAIN mine : mine[k].sample_mask /\ mine[k].source = x
    <3>1. PICK k \in 1 .. Len(p) : p[k].source = x /\ ~ p[k].is_padding
      BY <1>3 DEF EntriesRight
    <3>2. QED
      BY <1>9, <3>1
  <2>3. QED
    BY <2>1, <2>2
<1>11. QED
  BY <1>3, <1>9, <1>10 DEF LocalRight, EntriesRight, mine

-----------------------------------------------------------------------------
(* The path of a batch *)

(* The least common multiple of the sizes is positive. *)
LEMMA SizeDivisorType == SizeDivisor \in Nat \ {0}
<1> DEFINE p == RefDpSize * DpSize
           S == {n \in 1 .. DpSize * RefDpSize : n % DpSize = 0 /\ n % RefDpSize = 0}
<1>1. DpSize \in Nat \ {0} /\ RefDpSize \in Nat \ {0}
  BY SizesAssumption, BoundsAssumption
<1>2. p \in Nat \ {0} /\ p = DpSize * RefDpSize
  BY <1>1
<1>3. p % DpSize = 0 /\ p % RefDpSize = 0
  <2>1. 0 \in 0 .. DpSize - 1 /\ 0 \in 0 .. RefDpSize - 1
    BY <1>1
  <2>2. (RefDpSize * DpSize + 0) % DpSize = 0
    BY <1>1, <2>1, DivMod
  <2>3. (DpSize * RefDpSize + 0) % RefDpSize = 0
    BY <1>1, <2>1, DivMod
  <2>4. QED
    BY <1>2, <2>2, <2>3
<1>4. S \subseteq Nat /\ p \in S
  BY <1>2, <1>3
<1>5. Min(S) \in S
  BY <1>4, LeastIsMin
<1>6. QED
  BY <1>5 DEF SizeDivisor

(* Padding leaves a batch of rows, and a longer one. *)
LEMMA PaddedBatchType ==
  ASSUME NEW d \in Seq(BatchRows), Len(d) > 0
  PROVE  PaddedBatch(d) \in Seq(BatchRows) /\ Len(PaddedBatch(d)) > 0
<1> DEFINE n == SizeDivisor
           c == Len(d)
           x == CeilDiv(c, n) * n - c
           row(k) == PadRow(d[((k - 1) % Len(d)) + 1])
           pad == [k \in 1 .. x |-> row(k)]
<1>1. n \in Nat \ {0} /\ c \in Nat \ {0}
  BY SizeDivisorType
<1>2. x \in Nat
  <2>1. c + n - 1 \in Nat /\ c \in Int
    BY <1>1
  <2>2. CeilDiv(c, n) \in Nat
    <3>1. 0 \in Nat
      OBVIOUS
    <3> HIDE DEF n, c
    <3>2. QED
      BY <1>1, <2>1, <3>1, CeilDivCut
  <2>3. ~ (CeilDiv(c, n) * n < c)
    <3> HIDE DEF n, c
    <3> QED BY <1>1, <2>1, <2>2, CeilDivCut
  <2> HIDE DEF n, c
  <2>4. CeilDiv(c, n) * n \in Nat
    BY <1>1, <2>2
  <2>5. QED
    BY <1>1, <2>3, <2>4
<1>3. \A k \in 1 .. x : row(k) \in BatchRows
  <2>1. TAKE k \in 1 .. x
  <2>2. ((k - 1) % Len(d)) + 1 \in 1 .. Len(d)
    BY <1>1, <1>2
  <2>3. d[((k - 1) % Len(d)) + 1] \in BatchRows
    BY <2>2
  <2>4. 0 \in 0 .. MaxTokens
    BY BoundsAssumption
  <2>5. QED
    BY <2>3, <2>4 DEF PadRow, BatchRows
<1>4. pad \in Seq(BatchRows)
  <2> HIDE DEF x, row
  <2> QED BY <1>2, <1>3
<1>5. PaddedBatch(d) = d \o pad
  BY DEF PaddedBatch
<1> HIDE DEF pad
<1>6. QED
  BY <1>4, <1>5

(* A finished rollout is a sequence of rows. *)
LEMMA RolloutBatchType ==
  ASSUME NEW steps \in [1 .. MaxTrajectories -> 0 .. MaxSteps],
         NEW tokens \in [1 .. MaxTrajectories -> 0 .. MaxTokens]
  PROVE  RolloutBatch(steps, tokens) \in Seq(BatchRows)
<1> DEFINE row(t) == [uid |-> t, valid |-> TRUE, tokens |-> tokens[t]]
           oneOf(t) == [s \in 1 .. steps[t] |-> row(t)]
           pieces == [t \in 1 .. MaxTrajectories |-> oneOf(t)]
<1>1. MaxTrajectories \in Nat /\ MaxSteps \in Nat /\ MaxTokens \in Nat
  BY BoundsAssumption
<1>2. \A t \in 1 .. MaxTrajectories : row(t) \in BatchRows /\ steps[t] \in Nat
  BY <1>1 DEF BatchRows
<1> HIDE DEF row
<1>3. \A t \in 1 .. MaxTrajectories : oneOf(t) \in Seq(BatchRows)
  BY <1>2
<1> HIDE DEF oneOf
<1>4. pieces \in [1 .. MaxTrajectories -> Seq(BatchRows)]
  BY <1>3
<1> HIDE DEF pieces
<1>5. FlattenSeq(pieces) \in Seq(BatchRows)
  BY <1>1, <1>4, FlattenJoins
<1>6. QED
  BY <1>5 DEF RolloutBatch, pieces, oneOf, row

-----------------------------------------------------------------------------
(* What the stages have left behind. *)
BatchRight == batch \in Seq(BatchRows) /\ Len(batch) > 0

PreparedRight == stage \in {"prepared", "dispatched"} => prepared = PreparedBatch(batch)

LocalsRight == stage = "dispatched" => local = [r \in Ranks |-> Chunk(prepared, r)]

BInv == BatchRight /\ PreparedRight /\ LocalsRight

LEMMA InitBInv == BatchingInit => BInv
<1> SUFFICES ASSUME BatchingInit PROVE BInv
  OBVIOUS
<1>1. PICK steps \in [1 .. MaxTrajectories -> 0 .. MaxSteps],
           tokens \in [1 .. MaxTrajectories -> 0 .. MaxTokens] :
             batch = RolloutBatch(steps, tokens) /\ Len(batch) \in 1 .. MaxRows
  BY DEF BatchingInit
<1>2. batch \in Seq(BatchRows) /\ Len(batch) > 0
  BY <1>1, RolloutBatchType
<1>3. QED
  BY <1>2 DEF BatchingInit, BInv, BatchRight, PreparedRight, LocalsRight

LEMMA NextBInv == BInv /\ [BatchingNext]_batchingVars => BInv'
<1> SUFFICES ASSUME BInv, [BatchingNext]_batchingVars PROVE BInv'
  OBVIOUS
<1> USE DEF BInv, BatchRight, PreparedRight, LocalsRight
<1>1. CASE PadToWorldSize
  <2>1. batch' = PaddedBatch(batch) /\ stage' = "padded"
    BY <1>1 DEF PadToWorldSize
  <2>2. batch' \in Seq(BatchRows) /\ Len(batch') > 0
    BY <2>1, PaddedBatchType
  <2>3. QED
    BY <2>1, <2>2
<1>2. CASE BalanceBatch
  <2>1. PICK p \in [1 .. Len(batch) -> 1 .. Len(batch)] : batch' = [i \in 1 .. Len(batch) |-> batch[p[i]]]
    BY <1>2 DEF BalanceBatch
  <2>2. \A i \in 1 .. Len(batch) : p[i] \in 1 .. Len(batch)
    OBVIOUS
  <2>3. batch' \in Seq(BatchRows) /\ Len(batch') > 0
    <3>1. Len(batch) \in Nat /\ \A i \in 1 .. Len(batch) : batch[p[i]] \in BatchRows
      BY <2>2
    <3>2. QED
      BY <2>1, <3>1
  <2>4. stage' = "balanced"
    BY <1>2 DEF BalanceBatch
  <2>5. QED
    BY <2>3, <2>4
<1>3. CASE PrepareTrajectoryMiniBatch
  BY <1>3 DEF PrepareTrajectoryMiniBatch
<1>4. CASE Dispatch
  BY <1>4 DEF Dispatch
<1>5. CASE UNCHANGED batchingVars
  BY <1>5 DEF batchingVars
<1>6. QED
  BY <1>1, <1>2, <1>3, <1>4, <1>5 DEF BatchingNext, Finished

LEMMA BatchingInductive == BatchingSpec => []BInv
BY InitBInv, NextBInv, PTL DEF BatchingSpec

(* After the dispatch every rank holds what the plan gives it. *)
LEMMA RanksHoldThePlan ==
  ASSUME BInv, Dispatched
  PROVE  /\ Len(batch) \in Nat /\ Len(prepared) % DpSize = 0
         /\ \A m \in MiniBatchIds(batch), r \in Ranks :
              LocalRight(batch, m, r, LocalMiniBatch(local[r], m))
<1>1. Len(batch) \in Nat /\ prepared = PreparedBatch(batch) /\ \A r \in Ranks : local[r] = Chunk(prepared, r)
  BY DEF BInv, BatchRight, PreparedRight, LocalsRight, Dispatched
<1>2. Len(prepared) % DpSize = 0 /\ \A r \in Ranks : ChunkRight(batch, r, local[r])
  BY <1>1, ChunksAreRanks
<1>3. QED
  BY <1>1, <1>2, LocalMiniBatchRight

(* The equal cut of the flattened update batch gives all ranks the same,   *)
(* positive number of entries under every mini-batch id, so that no rank   *)
(* leaves a collective of update_policy to the others.                     *)
THEOREM EqualCutAlignsRanks == BatchingSpec => []RanksAligned
<1>1. BInv => RanksAligned
  <2>1. SUFFICES ASSUME BInv, Dispatched, NEW m \in MiniBatchIds(batch), NEW q \in Ranks, NEW r \in Ranks
                 PROVE  /\ Len(LocalMiniBatch(local[r], m)) > 0
                        /\ Len(LocalMiniBatch(local[r], m)) = Len(LocalMiniBatch(local[q], m))
    BY RanksHoldThePlan DEF RanksAligned
  <2>2. Len(LocalMiniBatch(local[r], m)) = MaxLocalRows(batch, m)
        /\ Len(LocalMiniBatch(local[q], m)) = MaxLocalRows(batch, m) /\ Len(batch) \in Nat
    BY <2>1, RanksHoldThePlan DEF LocalRight
  <2>3. MaxLocalRows(batch, m) \in Nat \ {0}
    BY <2>2, MaxLocalRowsBounds
  <2>4. QED
    BY <2>2, <2>3
<1>2. QED
  BY <1>1, BatchingInductive, PTL

(* The lists prepare_trajectory_mini_batch builds, flattened and cut by    *)
(* the dispatch, implement the plan PPOUpdate runs on.                     *)
THEOREM ListsImplementPlan == BatchingSpec => []ImplementsPlan
<1>1. BInv => ImplementsPlan
  <2>1. SUFFICES ASSUME BInv, Dispatched, NEW m \in MiniBatchIds(batch), NEW r \in Ranks
                 PROVE  LET mine == LocalMiniBatch(local[r], m)
                        IN  /\ Len(mine) = LocalCount(batch, m, r)
                            /\ {mine[k].source : k \in {j \in DOMAIN mine : mine[j].sample_mask}}
                                 = LocalRows(batch, m, r)
    BY DEF ImplementsPlan
  <2>2. LocalRight(batch, m, r, LocalMiniBatch(local[r], m)) /\ Len(batch) \in Nat
    BY <2>1, RanksHoldThePlan
  <2>3. LocalCount(batch, m, r) = MaxLocalRows(batch, m)
    <3>1. MaxLocalRows(batch, m) \in Nat /\ Cardinality(LocalRows(batch, m, r)) \in Nat
      BY <2>2, MaxLocalRowsBounds, LocalRowsBounded
    <3>2. QED
      BY <3>1 DEF LocalCount, LocalPadding
  <2>4. QED
    BY <2>2, <2>3 DEF LocalRight
<1>2. QED
  BY <1>1, BatchingInductive, PTL

-----------------------------------------------------------------------------
(* The totals of a mini-batch *)

MiniBatchRows(d, m) == {i \in ValidIndices(d) : MiniBatchOf(d, i) = m}

(* q is the rows of mini-batch m, each of them once. *)
RowsListed(d, m, q) ==
  /\ q \in Seq(1 .. Len(d))
  /\ \A k \in 1 .. Len(q) : q[k] \in MiniBatchRows(d, m)
  /\ \A x \in MiniBatchRows(d, m) : \E k \in 1 .. Len(q) : q[k] = x
  /\ \A k, l \in 1 .. Len(q) : q[k] = q[l] => k = l

(* The groups of a mini-batch, one after the other, are its rows. *)
LEMMA GroupsListed ==
  ASSUME NEW d, Len(d) \in Nat, NEW m \in Nat, NEW b, NEW s, CutRight(d, m, b, s)
  PROVE  RowsListed(d, m, FlattenSeq(b))
<1> DEFINE q == FlattenSeq(b)
           N == 1 .. Len(d)
           B == MiniBatchSize
           c == Cardinality(TrajectoryUids(d))
           g(t) == m * B + (t - 1)
<1>1. s \in 1 .. B /\ B \in Nat \ {0} /\ c \in Nat /\ m * B \in Nat /\ m * B + s <= c
      /\ (s = B \/ m * B + s = c)
  BY SizesAssumption, TrajectoriesCounted DEF CutRight
<1>2. b \in [1 .. s -> Seq(N)] /\ s \in Nat
  BY <1>1 DEF CutRight
<1> HIDE DEF c
<1>3. ASSUME NEW t \in 1 .. s
      PROVE  g(t) \in Nat /\ g(t) \div B = m /\ g(t) % B = t - 1 /\ Lists(b[t], Len(d), GroupOf(d, g(t) + 1))
  <2>1. (m * B + (t - 1)) \div B = m /\ (m * B + (t - 1)) % B = t - 1
    <3>1. t - 1 \in 0 .. B - 1
      BY <1>1
    <3>2. QED
      BY <1>1, <3>1, DivMod
  <2>2. g(t) \in Nat /\ m * B + t = g(t) + 1 /\ g(t) + 1 \in 1 .. c
    BY <1>1
  <2>3. b[t] = TrajectoryGroups(d)[g(t) + 1]
    <3>1. b[t] = TrajectoryGroups(d)[m * B + t]
      BY DEF CutRight
    <3> HIDE DEF g
    <3>2. QED
      BY <2>2, <3>1
  <2> HIDE DEF g
  <2>4. Lists(TrajectoryGroups(d)[g(t) + 1], Len(d), GroupOf(d, g(t) + 1))
    BY <2>2, GroupsAreTrajectories DEF GroupsRight, c
  <2>5. QED
    BY <2>1, <2>2, <2>3, <2>4 DEF g
<1>4. q \in Seq(N) /\ \E off : Joined(q, 0, s, b, off)
  BY <1>2, FlattenJoins
<1>5. PICK off : Joined(q, 0, s, b, off)
  BY <1>4
<1> HIDE DEF g, q
<1>6. ASSUME NEW p \in 1 .. Len(q) PROVE InPiece(p, q, s, b, off)
  BY <1>2, <1>5, JoinedRow
<1>7. ASSUME NEW t \in 1 .. s, NEW k \in 1 .. Len(b[t])
      PROVE  b[t][k] \in MiniBatchRows(d, m) /\ GroupIndex(d, b[t][k]) % B = t - 1
  <2>1. b[t][k] \in GroupOf(d, g(t) + 1)
    BY <1>3 DEF Lists
  <2>2. b[t][k] \in ValidIndices(d) /\ GroupIndex(d, b[t][k]) = g(t)
    <3>1. g(t) \in Nat /\ (g(t) + 1) - 1 = g(t)
      BY <1>3
    <3>2. QED
      BY <2>1, <3>1 DEF GroupOf
  <2>3. QED
    BY <1>3, <2>2 DEF MiniBatchRows, MiniBatchOf
<1>8. \A p \in 1 .. Len(q) : q[p] \in MiniBatchRows(d, m)
  BY <1>6, <1>7 DEF InPiece
<1>9. \A x \in MiniBatchRows(d, m) : \E p \in 1 .. Len(q) : q[p] = x
  <2>1. TAKE x \in MiniBatchRows(d, m)
  <2> DEFINE i == GroupIndex(d, x)
             t == (i % B) + 1
  <2>2. x \in ValidIndices(d) /\ i \div B = m
    BY DEF MiniBatchRows, MiniBatchOf
  <2>3. i \in Nat /\ i < c
    BY <2>2, GroupIndexRange DEF c
  <2> HIDE DEF i
  <2>4. i % B \in 0 .. B - 1 /\ i = B * m + (i % B) /\ B * m = m * B
    BY <1>1, <2>2, <2>3
  <2>5. t \in 1 .. s /\ t - 1 = i % B
    BY <1>1, <2>3, <2>4
  <2>6. g(t) = i
    BY <1>1, <2>4, <2>5 DEF g
  <2> HIDE DEF t
  <2>7. x \in GroupOf(d, g(t) + 1)
    BY <2>2, <2>3, <2>6 DEF GroupOf, i
  <2>8. x \in 1 .. Len(d)
    BY <2>2, ValidIndicesFinite
  <2>9. PICK k \in 1 .. Len(b[t]) : b[t][k] = x
    BY <1>3, <2>5, <2>7, <2>8 DEF Lists
  <2>10. off[t - 1] + k \in 1 .. Len(q) /\ q[off[t - 1] + k] = b[t][k]
    <3>1. 0 \in Int /\ s \in Int /\ t \in 0 + 1 .. s
      BY <1>2, <2>5
    <3>2. QED
      BY <1>5, <3>1, JoinedInside
  <2>11. QED
    BY <2>9, <2>10
<1>10. \A p, o \in 1 .. Len(q) : q[p] = q[o] => p = o
  <2>1. SUFFICES ASSUME NEW p \in 1 .. Len(q), NEW o \in 1 .. Len(q), q[p] = q[o] PROVE p = o
    OBVIOUS
  <2>2. PICK t \in 1 .. s : \E k \in 1 .. Len(b[t]) : p = off[t - 1] + k /\ q[p] = b[t][k]
    BY <1>6 DEF InPiece
  <2>3. PICK k \in 1 .. Len(b[t]) : p = off[t - 1] + k /\ q[p] = b[t][k]
    BY <2>2
  <2>4. PICK u \in 1 .. s : \E l \in 1 .. Len(b[u]) : o = off[u - 1] + l /\ q[o] = b[u][l]
    BY <1>6 DEF InPiece
  <2>5. PICK l \in 1 .. Len(b[u]) : o = off[u - 1] + l /\ q[o] = b[u][l]
    BY <2>4
  <2>6. t = u
    <3>1. t - 1 = u - 1
      BY <1>7, <2>1, <2>3, <2>5
    <3>2. QED
      BY <1>2, <3>1
  <2>7. k = l
    <3>1. b[t] \in Seq(N) /\ Len(b[t]) \in Nat /\ l \in 1 .. Len(b[t]) /\ b[t][k] = b[t][l]
      BY <1>2, <2>1, <2>3, <2>5, <2>6
    <3>2. b[t][k] \in N /\ b[t][l] \in N
      <4>1. \A j \in 1 .. Len(b[t]) : b[t][j] \in N
        BY <3>1, SeqElements
      <4>2. QED
        BY <3>1, <4>1
    <3>3. ~ (b[t][k] < b[t][l]) /\ ~ (b[t][l] < b[t][k])
      BY <3>1, <3>2
    <3>4. ~ (k < l) /\ ~ (l < k)
      BY <1>3, <3>1, <3>3 DEF Lists
    <3>5. QED
      BY <3>1, <3>4
  <2>8. QED
    BY <2>3, <2>5, <2>6, <2>7
<1>11. QED
  BY <1>4, <1>8, <1>9, <1>10 DEF RowsListed, q

-----------------------------------------------------------------------------
TokensOf(d, q) == [k \in 1 .. Len(q) |-> d[q[k]].tokens]

(* GlobalTokenNum is the sum of the tokens of the rows listed. *)
LEMMA TokensAddUp ==
  ASSUME NEW d, NEW groups, NEW S, FlattenSeq(groups) \in Seq(S),
         NEW t, Total(t, 1 .. Len(FlattenSeq(groups)), TokensOf(d, FlattenSeq(groups))),
         \A k \in 1 .. Len(FlattenSeq(groups)) : d[FlattenSeq(groups)[k]].tokens \in Nat
  PROVE  GlobalTokenNum(d, groups) = t[1 .. Len(FlattenSeq(groups))]
<1> DEFINE q == FlattenSeq(groups)
           D == 1 .. Len(q)
           w == TokensOf(d, q)
           Step(h, s) == IF s = {} THEN 0
                         ELSE LET x == CHOOSE x \in s : TRUE IN h[s \ {x}] + d[q[x]].tokens
           Eq(h) == h = [s \in SUBSET (DOMAIN q) |->
                           IF s = {} THEN 0
                           ELSE LET x == CHOOSE x \in s : TRUE IN h[s \ {x}] + d[q[x]].tokens]
           F == CHOOSE h : Eq(h)
<1>1. DOMAIN q = D /\ IsFiniteSet(D) /\ \A k \in D : w[k] = d[q[k]].tokens /\ w[k] \in Nat
  <2>1. Len(q) \in Int /\ 1 \in Int
    OBVIOUS
  <2>2. IsFiniteSet(D)
    BY <2>1, FS_Interval
  <2>3. QED
    BY <2>2 DEF TokensOf
<1>2. t \in [SUBSET D -> Nat] /\ t[{}] = 0 /\ \A s \in SUBSET D : \A x \in s : t[s] = w[x] + t[s \ {x}]
  BY DEF Total
<1>3. Eq(t)
  <2>1. ASSUME NEW s \in SUBSET D PROVE t[s] = Step(t, s)
    <3>1. CASE s = {}
      BY <1>2, <3>1
    <3>2. CASE s # {}
      <4> DEFINE x == CHOOSE x \in s : TRUE
      <4>1. x \in s
        BY <3>2
      <4> HIDE DEF x
      <4>2. t[s] = w[x] + t[s \ {x}] /\ t[s \ {x}] \in Nat /\ w[x] \in Nat /\ w[x] = d[q[x]].tokens
        BY <1>1, <1>2, <4>1
      <4>3. t[s] = t[s \ {x}] + d[q[x]].tokens
        BY <4>2
      <4>4. QED
        BY <3>2, <4>3 DEF x
    <3>3. QED
      BY <3>1, <3>2
  <2>2. t = [s \in SUBSET D |-> Step(t, s)]
    <3> HIDE DEF Step, D
    <3> QED BY <1>2, <2>1
  <2>3. QED
    BY <1>1, <2>2
<1>4. Eq(F)
  <2> HIDE DEF Eq
  <2> QED BY <1>3
<1>5. AddsUp(F, D, w)
  <2> HIDE DEF F
  <2>1. \A s \in SUBSET D : F[s] = Step(F, s)
    BY <1>1, <1>4
  <2>2. F[{}] = 0
    BY <2>1
  <2> DEFINE Z(s) == CHOOSE x \in s : TRUE
  <2>3. ASSUME NEW s \in SUBSET D, s # {} PROVE Z(s) \in s /\ F[s] = F[s \ {Z(s)}] + d[q[Z(s)]].tokens
    BY <2>1, <2>3
  <2>4. \A s \in SUBSET D : s # {} => \E x \in s : F[s] = F[s \ {x}] + w[x]
    BY <1>1, <2>3
  <2>5. QED
    BY <2>2, <2>4 DEF AddsUp
<1>6. F[D] = t[D]
  <2> HIDE DEF F, D, w
  <2> QED BY <1>1, <1>5, TotalIsSum DEF D, w
<1>7. GlobalTokenNum(d, groups) = F[DOMAIN q]
  BY DEF GlobalTokenNum, FoldSeq, FoldFunction, FoldFunctionOnSet, MapThenFoldSet
<1>8. QED
  BY <1>1, <1>6, <1>7

(* The rows of chunk c with id m stand, from row a + 1 on, for these entries. *)
Window(d, m, r, c, a, entries) ==
  /\ a \in Nat /\ Len(entries) \in Nat /\ EntriesRight(d, m, r, entries)
  /\ \A k \in 1 .. Len(entries) : a + k \in 1 .. Len(c) /\ RowRight(d, c[a + k], entries[k])
  /\ \A k \in 1 .. Len(c) : c[k].mini_batch_id = m => k - a \in 1 .. Len(entries)

(* Every rank has such a window for every mini-batch. *)
LEMMA WindowExists ==
  ASSUME NEW d, Len(d) \in Nat, NEW r \in Ranks, NEW c, ChunkRight(d, r, c), NEW m \in MiniBatchIds(d)
  PROVE  \E a, entries : Window(d, m, r, c, a, entries)
<1> DEFINE E == RankEntries(TrajectoryBatches(d), r)
           p == RankPieces(d, r)[m + 1]
<1>1. PICK off : RankJoined(d, r, off)
  BY RankEntriesJoined
<1> DEFINE a == off[m]
<1>2. /\ a \in Nat /\ off[m + 1] = a + Len(p) /\ Len(p) \in Nat
      /\ \A k \in 1 .. Len(p) : a + k \in 1 .. Len(c) /\ E[a + k] = p[k]
      /\ \A k \in 1 .. Len(c) : c[k].mini_batch_id = m => k \in a + 1 .. off[m + 1]
  <2>1. \A k \in 1 .. Len(c) : k \in {x \in DOMAIN c : c[x].mini_batch_id = m} <=> k \in off[m] + 1 .. off[m + 1]
    BY <1>1, IdsArePieces
  <2>2. \A k \in 1 .. Len(c) : c[k].mini_batch_id = m => k \in off[m] + 1 .. off[m + 1]
    BY <2>1 DEF ChunkRight
  <2>3. QED
    BY <1>1, <2>2, IdsArePieces
<1>3. EntriesRight(d, m, r, p)
  <2>1. NumMiniBatches(d) \in Nat /\ m + 1 \in 1 .. NumMiniBatches(d) /\ (m + 1) - 1 = m
    BY BatchesAreCut DEF MiniBatchIds
  <2>2. QED
    BY <1>1, <2>1 DEF RankJoined
<1>4. \A k \in 1 .. Len(c) : RowRight(d, c[k], E[k])
  BY DEF ChunkRight
<1> HIDE DEF E, p, a
<1>5. \A k \in 1 .. Len(p) : a + k \in 1 .. Len(c) /\ RowRight(d, c[a + k], p[k])
  BY <1>2, <1>4
<1>6. \A k \in 1 .. Len(c) : c[k].mini_batch_id = m => k - a \in 1 .. Len(p)
  BY <1>2
<1>7. Window(d, m, r, c, a, p)
  BY <1>2, <1>3, <1>5, <1>6 DEF Window
<1>8. QED
  BY <1>7

(* All entries of a mini-batch on all ranks, and those that are real rows. *)
Same(loc, L, m) == {x \in Ranks \X (1 .. L) : loc[x[1]][x[2]].mini_batch_id = m}

Real(loc, L, m) == {x \in Same(loc, L, m) : loc[x[1]][x[2]].sample_mask}

TokensHeld(loc, L, m) == [x \in Same(loc, L, m) |-> loc[x[1]][x[2]].tokens]

LocRight(d, loc, L) == \A r \in Ranks : ChunkRight(d, r, loc[r]) /\ Len(loc[r]) = L

(* A real entry is a row of the mini-batch that the plan puts on this rank, *)
(* the others carry no token.                                               *)
LEMMA HeldRows ==
  ASSUME NEW d, Len(d) \in Nat, NEW loc, NEW L, LocRight(d, loc, L), NEW m \in MiniBatchIds(d)
  PROVE  /\ \A x \in Real(loc, L, m) :
              /\ loc[x[1]][x[2]].source \in LocalRows(d, m, x[1])
              /\ loc[x[1]][x[2]].tokens = d[loc[x[1]][x[2]].source].tokens
         /\ \A x \in Same(loc, L, m) \ Real(loc, L, m) : loc[x[1]][x[2]].tokens = 0
<1>1. SUFFICES ASSUME NEW x \in Same(loc, L, m)
               PROVE  /\ loc[x[1]][x[2]].sample_mask =>
                           /\ loc[x[1]][x[2]].source \in LocalRows(d, m, x[1])
                           /\ loc[x[1]][x[2]].tokens = d[loc[x[1]][x[2]].source].tokens
                      /\ ~ loc[x[1]][x[2]].sample_mask => loc[x[1]][x[2]].tokens = 0
  BY DEF Real
<1> DEFINE r == x[1]
           k == x[2]
           c == loc[r]
<1>2. r \in Ranks /\ k \in 1 .. L /\ c[k].mini_batch_id = m
  BY DEF Same
<1>3. ChunkRight(d, r, c) /\ Len(c) = L
  BY <1>2 DEF LocRight
<1> HIDE DEF r, k, c
<1>4. PICK a, e : Window(d, m, r, c, a, e)
  BY <1>2, <1>3, WindowExists
<1>5. k - a \in 1 .. Len(e) /\ a \in Nat /\ Len(e) \in Nat
  BY <1>2, <1>3, <1>4 DEF Window
<1>6. k = a + (k - a)
  <2>1. k \in Int
    <3>1. Len(c) \in Nat
      BY <1>3 DEF ChunkRight
    <3>2. QED
      BY <1>2, <1>3, <3>1
  <2>2. QED
    BY <1>5, <2>1
<1> DEFINE j == k - a
<1>7. j \in 1 .. Len(e) /\ k = a + j
  BY <1>5, <1>6
<1> HIDE DEF j
<1>8. RowRight(d, c[k], e[j])
  BY <1>4, <1>7 DEF Window
<1>9. e[j].is_padding \in BOOLEAN /\ (~ e[j].is_padding => e[j].source \in LocalRows(d, m, r))
  <2>1. EntriesRight(d, m, r, e)
    BY <1>4 DEF Window
  <2>2. e[j] \in EntryType(d)
    BY <1>7, <2>1 DEF EntriesRight
  <2>3. QED
    BY <1>7, <2>1, <2>2 DEF EntriesRight, EntryType
<1>10. c[k].source = e[j].source /\ c[k].sample_mask = ~ e[j].is_padding
       /\ c[k].tokens = IF e[j].is_padding THEN 0 ELSE d[e[j].source].tokens
  BY <1>8 DEF RowRight
<1>11. QED
  BY <1>9, <1>10 DEF r, k, c

(* No row is held twice but as padding. *)
LEMMA HeldOnce ==
  ASSUME NEW d, Len(d) \in Nat, NEW loc, NEW L, LocRight(d, loc, L), NEW m \in MiniBatchIds(d),
         NEW x \in Real(loc, L, m), NEW y \in Real(loc, L, m),
         loc[x[1]][x[2]].source = loc[y[1]][y[2]].source
  PROVE  x = y
<1>1. /\ x[1] \in Ranks /\ x[2] \in 1 .. L /\ x = <<x[1], x[2]>>
      /\ y[1] \in Ranks /\ y[2] \in 1 .. L /\ y = <<y[1], y[2]>>
  BY DEF Real, Same
<1>2. x[1] = y[1]
  <2>1. loc[x[1]][x[2]].source \in LocalRows(d, m, x[1]) /\ loc[y[1]][y[2]].source \in LocalRows(d, m, y[1])
    BY HeldRows
  <2>2. QED
    BY <2>1 DEF LocalRows
<1> DEFINE r == x[1]
           k == x[2]
           l == y[2]
           c == loc[r]
<1>3. c[k].source = c[l].source /\ c[k].mini_batch_id = m /\ c[l].mini_batch_id = m
      /\ c[k].sample_mask /\ c[l].sample_mask
  BY <1>2 DEF Real, Same
<1>4. ChunkRight(d, r, c) /\ Len(c) = L /\ r \in Ranks /\ k \in 1 .. L /\ l \in 1 .. L
  BY <1>1 DEF LocRight
<1> HIDE DEF r, k, l, c
<1>5. PICK a, e : Window(d, m, r, c, a, e)
  BY <1>4, WindowExists
<1> DEFINE i == k - a
           j == l - a
<1>6. i \in 1 .. Len(e) /\ j \in 1 .. Len(e) /\ k = a + i /\ l = a + j
  <2>1. k \in Int /\ l \in Int
    <3>1. Len(c) \in Nat
      BY <1>4 DEF ChunkRight
    <3>2. QED
      BY <1>4, <3>1
  <2>2. a \in Nat
    BY <1>5 DEF Window
  <2>3. i \in 1 .. Len(e) /\ j \in 1 .. Len(e)
    BY <1>3, <1>4, <1>5 DEF Window
  <2>4. QED
    BY <2>1, <2>2, <2>3
<1> HIDE DEF i, j
<1>7. RowRight(d, c[k], e[i]) /\ RowRight(d, c[l], e[j])
  BY <1>5, <1>6 DEF Window
<1>8. ~ e[i].is_padding /\ ~ e[j].is_padding /\ e[i].source = e[j].source
  BY <1>3, <1>7 DEF RowRight
<1>9. i = j
  BY <1>5, <1>6, <1>8 DEF Window, EntriesRight, OnceEach
<1>10. k = l
  BY <1>6, <1>9
<1>11. QED
  BY <1>1, <1>2, <1>10 DEF k, l

(* Every row of the mini-batch is held by a rank. *)
LEMMA HeldSomewhere ==
  ASSUME NEW d, Len(d) \in Nat, NEW loc, NEW L, LocRight(d, loc, L), NEW m \in MiniBatchIds(d),
         NEW i \in MiniBatchRows(d, m)
  PROVE  \E x \in Real(loc, L, m) : loc[x[1]][x[2]].source = i
<1> DEFINE r == RankOf(d, i)
           c == loc[r]
<1>1. i \in ValidIndices(d) /\ MiniBatchOf(d, i) = m
  BY DEF MiniBatchRows
<1>2. r \in Ranks
  <2>1. GroupIndex(d, i) \in Nat
    BY <1>1, GroupIndexRange
  <2>2. GroupIndex(d, i) % MiniBatchSize \in Nat /\ DpSize \in Nat \ {0}
    BY <2>1, SizesAssumption
  <2>3. QED
    BY <2>2 DEF RankOf, Ranks
<1>3. i \in LocalRows(d, m, r)
  BY <1>1 DEF LocalRows
<1>4. ChunkRight(d, r, c) /\ Len(c) = L
  BY <1>2 DEF LocRight
<1> HIDE DEF r, c
<1>5. PICK a, e : Window(d, m, r, c, a, e)
  BY <1>2, <1>4, WindowExists
<1>6. PICK k \in 1 .. Len(e) : e[k].source = i /\ ~ e[k].is_padding
  BY <1>3, <1>5 DEF Window, EntriesRight
<1>7. a + k \in 1 .. L /\ RowRight(d, c[a + k], e[k]) /\ e[k].mini_batch_id = m
  BY <1>4, <1>5, <1>6 DEF Window, EntriesRight
<1>8. c[a + k].mini_batch_id = m /\ c[a + k].sample_mask /\ c[a + k].source = i
  BY <1>6, <1>7 DEF RowRight
<1>9. <<r, a + k>> \in Real(loc, L, m)
  BY <1>2, <1>7, <1>8 DEF Real, Same, c
<1>10. QED
  BY <1>8, <1>9 DEF c

(* The list of a mini-batch's rows names its real entries. *)
LEMMA RealNamed ==
  ASSUME NEW d \in Seq(BatchRows), NEW loc, NEW L, LocRight(d, loc, L), NEW m \in MiniBatchIds(d),
         NEW q, RowsListed(d, m, q)
  PROVE  \E h : Names(h, Same(loc, L, m), Real(loc, L, m), Len(q), TokensHeld(loc, L, m), TokensOf(d, q))
<1> DEFINE S == Same(loc, L, m)
           M == Real(loc, L, m)
           n == Len(q)
           source(x) == loc[x[1]][x[2]].source
           h == [x \in M |-> CHOOSE k \in 1 .. n : q[k] = source(x)]
<1>1. Len(d) \in Nat
  OBVIOUS
<1>2. \A x \in M : h[x] \in 1 .. n /\ q[h[x]] = source(x)
  <2>1. TAKE x \in M
  <2>2. source(x) \in MiniBatchRows(d, m)
    <3>1. source(x) \in LocalRows(d, m, x[1])
      BY <1>1, HeldRows
    <3>2. QED
      BY <3>1 DEF LocalRows, MiniBatchRows
  <2>3. \E k \in 1 .. n : q[k] = source(x)
    BY <2>2 DEF RowsListed
  <2>4. QED
    BY <2>3
<1>3. h \in [M -> 1 .. n]
  BY <1>2
<1> HIDE DEF h
<1>4. \A x, y \in M : h[x] = h[y] => x = y
  <2>1. SUFFICES ASSUME NEW x \in M, NEW y \in M, h[x] = h[y] PROVE x = y
    OBVIOUS
  <2>2. source(x) = source(y)
    BY <1>2, <2>1
  <2>3. QED
    BY <1>1, <2>2, HeldOnce
<1>5. \A i \in 1 .. n : \E x \in M : h[x] = i
  <2>1. TAKE i \in 1 .. n
  <2>2. q[i] \in MiniBatchRows(d, m)
    BY DEF RowsListed
  <2>3. PICK x \in M : source(x) = q[i]
    BY <1>1, <2>2, HeldSomewhere
  <2>4. q[h[x]] = q[i] /\ h[x] \in 1 .. n
    BY <1>2, <2>3
  <2>5. h[x] = i
    BY <2>4 DEF RowsListed
  <2>6. QED
    BY <2>5
<1>6. \A x \in M : TokensHeld(loc, L, m)[x] = TokensOf(d, q)[h[x]]
  <2>1. TAKE x \in M
  <2>2. loc[x[1]][x[2]].tokens = d[source(x)].tokens
    BY <1>1, HeldRows
  <2>3. TokensHeld(loc, L, m)[x] = loc[x[1]][x[2]].tokens
    BY DEF TokensHeld, Real
  <2>4. TokensOf(d, q)[h[x]] = d[source(x)].tokens
    BY <1>2 DEF TokensOf
  <2>5. QED
    BY <2>2, <2>3, <2>4
<1>7. \A x \in S \ M : TokensHeld(loc, L, m)[x] = 0
  BY <1>1, HeldRows DEF TokensHeld
<1>8. M \subseteq S
  BY DEF Real
<1>9. Names(h, S, M, n, TokensHeld(loc, L, m), TokensOf(d, q))
  BY <1>3, <1>4, <1>5, <1>6, <1>7, <1>8 DEF Names
<1>10. QED
  BY <1>9

(* The ranks hold finitely many entries. *)
LEMMA SameFinite ==
  ASSUME NEW loc, NEW L \in Nat, NEW m
  PROVE  IsFiniteSet(Same(loc, L, m))
<1>1. IsFiniteSet(Ranks) /\ IsFiniteSet(1 .. L)
  <2>1. 0 \in Int /\ DpSize - 1 \in Int /\ 1 \in Int /\ L \in Int
    BY SizesAssumption
  <2>2. QED
    BY <2>1, FS_Interval DEF Ranks
<1>2. IsFiniteSet(Ranks \X (1 .. L))
  BY <1>1, FS_Product
<1>3. Same(loc, L, m) \subseteq Ranks \X (1 .. L)
  BY DEF Same
<1>4. QED
  BY <1>2, <1>3, FS_Subset

(* SumOver, which adds up in an order nobody chose, is the sum. *)
LEMMA HeldTokensAddUp ==
  ASSUME NEW loc, NEW L \in Nat, NEW m, NEW t, Total(t, Same(loc, L, m), TokensHeld(loc, L, m))
  PROVE  SumOver(Same(loc, L, m), LAMBDA x : loc[x[1]][x[2]].tokens) = t[Same(loc, L, m)]
<1> DEFINE S == Same(loc, L, m)
           w == TokensHeld(loc, L, m)
           Step(h, s) == IF s = {} THEN 0
                         ELSE LET x == CHOOSE x \in s : TRUE IN loc[x[1]][x[2]].tokens + h[s \ {x}]
           Eq(h) == h = [s \in SUBSET S |->
                           IF s = {} THEN 0
                           ELSE LET x == CHOOSE x \in s : TRUE IN loc[x[1]][x[2]].tokens + h[s \ {x}]]
           F == CHOOSE h : Eq(h)
<1>1. IsFiniteSet(S) /\ \A x \in S : w[x] = loc[x[1]][x[2]].tokens
  BY SameFinite DEF TokensHeld
<1>2. t \in [SUBSET S -> Nat] /\ t[{}] = 0 /\ \A s \in SUBSET S : \A x \in s : t[s] = w[x] + t[s \ {x}]
  BY DEF Total
<1> HIDE DEF S, w
<1> DEFINE Z(s) == CHOOSE x \in s : TRUE
<1>3. Eq(t)
  <2>1. ASSUME NEW s \in SUBSET S PROVE t[s] = Step(t, s)
    <3>1. CASE s = {}
      BY <1>2, <3>1
    <3>2. CASE s # {}
      <4>1. Z(s) \in s
        BY <3>2
      <4> HIDE DEF Z
      <4>2. t[s] = loc[Z(s)[1]][Z(s)[2]].tokens + t[s \ {Z(s)}]
        BY <1>1, <1>2, <4>1
      <4>3. QED
        BY <3>2, <4>2 DEF Z
    <3>3. QED
      BY <3>1, <3>2
  <2>2. t = [s \in SUBSET S |-> Step(t, s)]
    <3> HIDE DEF Step
    <3> QED BY <1>2, <2>1
  <2>3. QED
    BY <2>2
<1>4. Eq(F)
  <2> HIDE DEF Eq
  <2> QED BY <1>3
<1>5. AddsUp(F, S, w)
  <2> HIDE DEF F
  <2>1. \A s \in SUBSET S : F[s] = Step(F, s)
    BY <1>4
  <2>2. F[{}] = 0
    BY <2>1
  <2>3. ASSUME NEW s \in SUBSET S, s # {}
        PROVE  Z(s) \in s /\ F[s] = loc[Z(s)[1]][Z(s)[2]].tokens + F[s \ {Z(s)}]
    BY <2>1, <2>3
  <2>4. \A s \in SUBSET S : s # {} => \E x \in s : F[s] = w[x] + F[s \ {x}]
    BY <1>1, <2>3
  <2>5. QED
    BY <2>2, <2>4 DEF AddsUp
<1>6. F[S] = t[S]
  <2> HIDE DEF F
  <2> QED BY <1>1, <1>5, TotalIsSum DEF S, w
<1>7. SumOver(S, LAMBDA x : loc[x[1]][x[2]].tokens) = F[S]
  BY DEF SumOver, MapThenSumSet, MapThenFoldSet
<1>8. QED
  BY <1>6, <1>7 DEF S

(* The totals _assign_global_mini_batch_info computes are those of the      *)
(* entries the ranks hold.                                                  *)
ExactTotals(d, loc, L, m) ==
  /\ GlobalSize(TrajectoryBatches(d)[m + 1]) = Cardinality(Real(loc, L, m))
  /\ GlobalTokenNum(d, TrajectoryBatches(d)[m + 1])
       = SumOver(Same(loc, L, m), LAMBDA x : loc[x[1]][x[2]].tokens)

LEMMA TotalsExact ==
  ASSUME NEW d \in Seq(BatchRows), NEW loc, NEW L \in Nat, LocRight(d, loc, L), NEW m \in MiniBatchIds(d)
  PROVE  ExactTotals(d, loc, L, m)
<1> DEFINE b == TrajectoryBatches(d)[m + 1]
           q == FlattenSeq(b)
           w == TokensOf(d, q)
           v == TokensHeld(loc, L, m)
           S == Same(loc, L, m)
           M == Real(loc, L, m)
<1>1. Len(d) \in Nat /\ m \in Nat
  BY BatchesAreCut DEF MiniBatchIds
<1>2. PICK s : CutRight(d, m, b, s)
  BY <1>1, BatchesAreCut
<1>3. RowsListed(d, m, q)
  BY <1>1, <1>2, GroupsListed
<1>4. PICK h : Names(h, S, M, Len(q), v, w)
  BY <1>3, RealNamed
<1>5. Len(q) \in Nat /\ q \in Seq(1 .. Len(d)) /\ w \in [1 .. Len(q) -> Nat]
      /\ \A k \in 1 .. Len(q) : d[q[k]].tokens \in Nat
  <2>1. q \in Seq(1 .. Len(d))
    BY <1>3 DEF RowsListed
  <2>2. \A k \in 1 .. Len(q) : q[k] \in 1 .. Len(d)
    BY <2>1, SeqElements
  <2>3. \A i \in 1 .. Len(d) : d[i].tokens \in 0 .. MaxTokens
    <3>1. \A i \in 1 .. Len(d) : d[i] \in BatchRows
      BY SeqElements
    <3>2. QED
      BY <3>1 DEF BatchRows
  <2>4. MaxTokens \in Nat
    BY BoundsAssumption
  <2> HIDE DEF q
  <2>5. \A k \in 1 .. Len(q) : d[q[k]].tokens \in Nat
    BY <2>2, <2>3, <2>4
  <2>6. w \in [1 .. Len(q) -> Nat]
    BY <2>5 DEF TokensOf
  <2>7. QED
    BY <2>1, <2>5, <2>6
<1>6. PICK t : Total(t, 1 .. Len(q), w)
  <2> HIDE DEF q, w
  <2> QED BY <1>5, TotalExists
<1>7. PICK u : Total(u, S, v) /\ u[S] = t[1 .. Len(q)]
  <2> HIDE DEF q, w, S, v, M
  <2> QED BY <1>4, <1>5, <1>6, TotalRenamed
<1>8. GlobalSize(b) = Cardinality(M)
  <2>1. Cardinality(M) = Len(q)
    <3> HIDE DEF q, w, S, v, M
    <3> QED BY <1>4, <1>5, NamesCount
  <2>2. QED
    BY <2>1 DEF GlobalSize
<1>9. GlobalTokenNum(d, b) = t[1 .. Len(q)]
  <2> HIDE DEF b
  <2> QED BY <1>5, <1>6, TokensAddUp
<1>10. SumOver(S, LAMBDA x : loc[x[1]][x[2]].tokens) = u[S]
  BY <1>7, HeldTokensAddUp
<1>11. QED
  BY <1>7, <1>8, <1>9, <1>10 DEF ExactTotals

(* An id on a row of a chunk is that of a mini-batch of the plan. *)
LEMMA IdOfMiniBatch ==
  ASSUME NEW d, Len(d) \in Nat, NEW r \in Ranks, NEW c, ChunkRight(d, r, c), NEW k \in 1 .. Len(c)
  PROVE  /\ c[k].mini_batch_id \in MiniBatchIds(d)
         /\ c[k].mini_batch_global_size = GlobalSize(TrajectoryBatches(d)[c[k].mini_batch_id + 1])
         /\ c[k].mini_batch_global_response_token_num
              = GlobalTokenNum(d, TrajectoryBatches(d)[c[k].mini_batch_id + 1])
<1> DEFINE E == RankEntries(TrajectoryBatches(d), r)
           n == NumMiniBatches(d)
           P == RankPieces(d, r)
<1>1. PICK off : RankJoined(d, r, off)
  BY RankEntriesJoined
<1>2. RowRight(d, c[k], E[k]) /\ k \in 1 .. Len(E)
  BY DEF ChunkRight
<1>3. n \in Nat /\ Joined(E, 0, n, P, off) /\ \A t \in 1 .. n : EntriesRight(d, t - 1, r, P[t])
  BY <1>1, BatchesAreCut DEF RankJoined
<1> HIDE DEF E, n, P
<1>4. InPiece(k, E, n, P, off)
  BY <1>2, <1>3, JoinedRow
<1>5. PICK t \in 1 .. n : \E j \in 1 .. Len(P[t]) : E[k] = P[t][j]
  BY <1>4 DEF InPiece
<1>6. E[k].mini_batch_id = t - 1
  BY <1>3, <1>5 DEF EntriesRight
<1>7. t - 1 \in MiniBatchIds(d)
  BY <1>3 DEF MiniBatchIds, n
<1>8. QED
  BY <1>2, <1>6, <1>7 DEF RowRight

(* The row count and the response-token count every entry carries are those *)
(* of the real entries of its mini-batch on all ranks together, so that the *)
(* losses the ranks add up are a mean over the mini-batch.                  *)
THEOREM LossDenominatorsExact == BatchingSpec => []GlobalInfoExact
<1>1. BInv => GlobalInfoExact
  <2>1. SUFFICES ASSUME BInv, Dispatched, NEW r \in Ranks, NEW k \in DOMAIN local[r]
                 PROVE  LET e == local[r][k]
                            same == Same(local, Len(local[r]), e.mini_batch_id)
                        IN  /\ e.mini_batch_global_size
                                 = Cardinality({x \in same : local[x[1]][x[2]].sample_mask})
                            /\ e.mini_batch_global_response_token_num
                                 = SumOver(same, LAMBDA x : local[x[1]][x[2]].tokens)
    BY DEF GlobalInfoExact, Same
  <2> DEFINE d == batch
             L == Len(local[r])
             m == local[r][k].mini_batch_id
  <2>2. d \in Seq(BatchRows) /\ Len(d) \in Nat /\ prepared = PreparedBatch(d)
        /\ \A o \in Ranks : local[o] = Chunk(prepared, o)
    BY <2>1 DEF BInv, BatchRight, PreparedRight, LocalsRight, Dispatched
  <2>3. \A o \in Ranks : ChunkRight(d, o, local[o])
    BY <2>2, ChunksAreRanks
  <2>4. LocRight(d, local, L) /\ L \in Nat /\ k \in 1 .. L
    <3>1. PICK off : \A o \in Ranks : RankJoined(d, o, off)
      BY <2>2, RanksJoined
    <3>2. \A o \in Ranks : Len(local[o]) = off[NumMiniBatches(d)]
      BY <2>3, <3>1 DEF ChunkRight, RankJoined, Joined
    <3>3. QED
      BY <2>3, <3>2 DEF LocRight, ChunkRight
  <2>5. /\ m \in MiniBatchIds(d)
        /\ local[r][k].mini_batch_global_size = GlobalSize(TrajectoryBatches(d)[m + 1])
        /\ local[r][k].mini_batch_global_response_token_num = GlobalTokenNum(d, TrajectoryBatches(d)[m + 1])
    BY <2>2, <2>3, <2>4, IdOfMiniBatch
  <2>6. /\ GlobalSize(TrajectoryBatches(d)[m + 1]) = Cardinality(Real(local, L, m))
        /\ GlobalTokenNum(d, TrajectoryBatches(d)[m + 1])
             = SumOver(Same(local, L, m), LAMBDA x : local[x[1]][x[2]].tokens)
    <3>1. ExactTotals(d, local, L, m)
      <4> HIDE DEF d, L, m
      <4> QED BY <2>2, <2>4, <2>5, TotalsExact
    <3>2. QED
      BY <3>1 DEF ExactTotals
  <2>7. QED
    BY <2>5, <2>6 DEF Real
<1>2. QED
  BY <1>1, BatchingInductive, PTL
=============================================================================
