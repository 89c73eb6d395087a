------------------------- MODULE AgentRolloutProofs -------------------------
(***************************************************************************)
(* For every number of workers, every training batch and every choice of   *)
(* tools and rewards: no loop of the rollout asks a sleeping engine, every *)
(* trajectory is whole in the training batch, its final answer is scored,  *)
(* the rollout keeps the promise of RolloutPromise, and a validation       *)
(* reports of each trajectory its own steps.                               *)
(***************************************************************************)
EXTENDS Validation, SequenceFacts, SequenceTheorems, TLAPS

(* Nothing is assumed of the steps a loop holds: only where it is. *)
FlowShape ==
  /\ DOMAIN flow = Trajectories
  /\ \A t \in Trajectories : "pc" \in DOMAIN flow[t] /\ flow[t].pc \in PCs

WorkerShape == worker \in [Workers -> {"idle", "running", "returned", "raised"}]

Asked == 1 .. Len(GenBatch)

PromptShape == prompts \in Seq(Nat \ {0}) /\ prompts # <<>> /\ Asked \subseteq Trajectories

(* Before the call nothing runs, and only what was asked for ever runs. *)
OnlyAskedRun ==
  /\ \A t \in Trajectories \ Asked : At(t, "idle")
  /\ manager = "idle" => \A t \in Trajectories : At(t, "idle")
  /\ manager = "idle" => \A w \in Workers : worker[w] = "idle"

(* The engines are awake from the dispatch until the manager sleeps them.  *)
AwakeUntilReturn ==
  manager \in {"waiting", "collected", "raised"} => awake = {"rollout", "reward"}

(* A worker that returned has no loop running any more. *)
ReturnedIsFinished ==
  \A w \in Workers : worker[w] = "returned" =>
    \A i \in DOMAIN Chunk(w) : At(Chunk(w)[i], "finished")

(* The manager only waits when every worker has a chunk. *)
WaitsForAll == manager = "waiting" => NumChunks = NumWorkers

(* Once all outputs are there, all loops are finished. *)
CollectedIsFinished ==
  manager \in {"collected", "returned", "aligned"} =>
    \A t \in Asked : At(t, "finished")

RInv ==
  /\ FlowShape /\ WorkerShape /\ PromptShape
  /\ manager \in {"idle", "waiting", "collected", "returned", "aligned", "raised"}
  /\ OnlyAskedRun /\ AwakeUntilReturn /\ ReturnedIsFinished /\ WaitsForAll
  /\ CollectedIsFinished

-----------------------------------------------------------------------------
(* The chunks *)

LEMMA MinOfTwo ==
  ASSUME NEW a \in Int, NEW b \in Int
  PROVE  Min({a, b}) = IF a <= b THEN a ELSE b
<1>1. \A x \in {a, b} : (\A y \in {a, b} : x =< y) => x = IF a <= b THEN a ELSE b
  OBVIOUS
<1>2. \E x \in {a, b} : \A y \in {a, b} : x =< y
  OBVIOUS
<1>3. QED
  BY <1>1, <1>2 DEF Min

(* The batch sent to the manager has n entries for each prompt. *)
LEMMA AskedCount ==
  ASSUME PromptShape
  PROVE  Len(GenBatch) \in Nat \ {0}
<1>1. Len(prompts) \in Nat /\ Len(prompts) # 0
  BY DEF PromptShape
<1>2. Len(prompts) * RolloutN \in Nat \ {0}
  BY <1>1, RolloutAssumption
<1>3. QED
  BY <1>2 DEF GenBatch, Repeat

(* A chunk holds nothing else. *)
LEMMA ChunkAsked ==
  ASSUME PromptShape, NEW w \in Workers, NEW i \in DOMAIN Chunk(w)
  PROVE  Chunk(w)[i] \in Asked
<1> DEFINE L == Len(GenBatch)
           S == SplitSize
           first == (w - 1) * S
<1>1. L \in Nat \ {0} /\ NumWorkers \in Nat \ {0}
  BY AskedCount, RolloutAssumption
<1>2. S \in Nat \ {0}
  BY <1>1 DEF SplitSize
<1> HIDE DEF L, S
<1>3. w - 1 \in Nat
  BY <1>1 DEF Workers
<1>4. first \in Nat
  BY <1>2, <1>3
<1>5. Chunk(w) = [j \in 1 .. Min({S, L - first}) |-> first + j]
  BY DEF Chunk, S, L
<1> HIDE DEF first
<1>6. Min({S, L - first}) = IF S <= L - first THEN S ELSE L - first
  BY <1>1, <1>2, <1>4, MinOfTwo
<1>7. i \in Nat \ {0} /\ i <= L - first /\ Chunk(w)[i] = first + i
  BY <1>1, <1>2, <1>4, <1>5, <1>6
<1>8. QED
  BY <1>1, <1>4, <1>7 DEF Asked, L

(* Every trajectory asked for is in the chunk of one of the workers, when  *)
(* there are as many chunks as workers.                                    *)
LEMMA ChunksCover ==
  ASSUME PromptShape, NumChunks = NumWorkers, NEW t \in Asked
  PROVE  \E w \in Workers : \E i \in DOMAIN Chunk(w) : Chunk(w)[i] = t
<1> DEFINE L == Len(GenBatch)
           S == SplitSize
           w == (t - 1) \div S + 1
           i == t - (w - 1) * S
<1>1. L \in Nat \ {0} /\ NumWorkers \in Nat \ {0}
  BY AskedCount, RolloutAssumption
<1>2. S \in Nat \ {0}
  BY <1>1 DEF SplitSize
<1>3. t \in Nat \ {0} /\ t <= L
  BY <1>1 DEF Asked
<1> HIDE DEF L, S
<1>4. /\ (t - 1) \div S \in Nat
      /\ t - 1 = S * ((t - 1) \div S) + ((t - 1) % S)
      /\ (t - 1) % S \in 0 .. S - 1
  BY <1>2, <1>3
<1>5. /\ (L - 1) \div S \in Nat
      /\ (t - 1) \div S <= (L - 1) \div S
  BY <1>1, <1>2, <1>3
<1>6. NumWorkers = ((L - 1) \div S) + 1
  BY DEF NumChunks, L, S
<1>7. w \in Workers
  BY <1>4, <1>5, <1>6, <1>1 DEF Workers
<1>8. (w - 1) * S = S * ((t - 1) \div S)
  BY <1>2, <1>4
<1>9. i \in 1 .. S /\ i <= L - (w - 1) * S
  BY <1>1, <1>2, <1>3, <1>4, <1>8
<1>10. i \in DOMAIN Chunk(w) /\ Chunk(w)[i] = t
  <2> DEFINE first == (w - 1) * S
  <2>1. first \in Nat
    BY <1>2, <1>4, <1>8
  <2>2. Min({S, L - first}) = IF S <= L - first THEN S ELSE L - first
    BY <1>1, <1>2, <2>1, MinOfTwo
  <2>3. i \in 1 .. Min({S, L - first}) /\ first + i = t
    BY <1>1, <1>2, <1>3, <1>9, <2>1, <2>2
  <2>4. Chunk(w) = [j \in 1 .. Min({S, L - first}) |-> first + j]
    BY DEF Chunk, S, L
  <2>5. QED
    BY <2>3, <2>4
<1>11. QED
  BY <1>7, <1>10

-----------------------------------------------------------------------------
(* Sums *)

LEMMA EmptyReward == TotalReward(<<>>) = NoReward
<1> DEFINE q == <<>>
           Eq(h) == h = [s \in SUBSET (DOMAIN q) |->
                           IF s = {} THEN NoReward
                           ELSE LET x == Max(s) IN
                                IF q[x] = NoReward THEN h[s \ {x}]
                                ELSE IF h[s \ {x}] = NoReward THEN q[x] ELSE h[s \ {x}] + q[x]]
           F == CHOOSE h : Eq(h)
           g == [s \in SUBSET (DOMAIN q) |-> NoReward]
<1>1. DOMAIN q = {} /\ SUBSET (DOMAIN q) = {{}}
  OBVIOUS
<1>2. Eq(g)
  BY <1>1
<1>3. Eq(F)
  <2> HIDE DEF Eq, g
  <2> QED BY <1>2
<1>4. F[DOMAIN q] = NoReward
  <2> HIDE DEF F
  <2> QED BY <1>1, <1>3
<1>5. QED
  BY <1>4 DEF TotalReward, FoldLeft, MapThenFoldSet

LEMMA RewardType ==
  ASSUME NEW n \in Nat, NEW q \in [1 .. n -> Int \cup {NoReward}]
  PROVE  TotalReward(q) \in Int \cup {NoReward}
<1> DEFINE X == Int \cup {NoReward}
           G == [x \in X |-> [i \in 1 .. n |-> IF q[i] = NoReward THEN x
                                               ELSE IF x = NoReward THEN q[i] ELSE x + q[i]]]
           Eq(h) == h = [s \in SUBSET (DOMAIN q) |->
                           IF s = {} THEN NoReward
                           ELSE LET x == Max(s) IN
                                IF q[x] = NoReward THEN h[s \ {x}]
                                ELSE IF h[s \ {x}] = NoReward THEN q[x] ELSE h[s \ {x}] + q[x]]
           F == CHOOSE h : Eq(h)
<1>1. \A x \in X, i \in 1 .. n : G[x][i] \in X
  BY LoopAssumption
<1>2. NoReward \in X /\ DOMAIN q = 1 .. n
  OBVIOUS
<1>3. PICK f, h : Folded(f, h, n, X, NoReward, G)
  <2> HIDE DEF X, G
  <2>1. Closed(G, X, n)
    BY <1>1 DEF Closed
  <2>2. QED
    BY <1>2, <2>1, FoldExists
<1>13. h \in [SUBSET (1 .. n) -> X] /\ OverSubsets(h, n, NoReward, G)
  BY <1>3 DEF Folded
<1>4. ASSUME NEW s \in SUBSET (1 .. n), s # {}
      PROVE  Max(s) \in s /\ s \ {Max(s)} \in SUBSET (1 .. n)
  <2>1. s \subseteq Nat /\ \A x \in s : x <= n
    OBVIOUS
  <2>2. QED
    BY <2>1, <1>4, MaxProperties
<1>5. Eq(h)
  <2>1. ASSUME NEW s \in SUBSET (1 .. n), s # {}
        PROVE  h[s] = LET x == Max(s) IN
                      IF q[x] = NoReward THEN h[s \ {x}]
                      ELSE IF h[s \ {x}] = NoReward THEN q[x] ELSE h[s \ {x}] + q[x]
    <3>1. h[s] = G[h[s \ {Max(s)}]][Max(s)]
      BY <1>13, <2>1 DEF OverSubsets
    <3>2. h[s \ {Max(s)}] \in X /\ Max(s) \in 1 .. n
      BY <1>13, <1>4, <2>1
    <3>3. QED
      BY <3>1, <3>2
  <2>2. h[{}] = NoReward
    BY <1>13 DEF OverSubsets
  <2> DEFINE E(s) == IF s = {} THEN NoReward
                     ELSE LET x == Max(s) IN
                          IF q[x] = NoReward THEN h[s \ {x}]
                          ELSE IF h[s \ {x}] = NoReward THEN q[x] ELSE h[s \ {x}] + q[x]
  <2>3. \A s \in SUBSET (1 .. n) : h[s] = E(s)
    BY <2>1, <2>2
  <2>4. h = [s \in SUBSET (1 .. n) |-> E(s)]
    <3> HIDE DEF E
    <3> QED BY <1>13, <2>3
  <2>5. QED
    BY <2>4, <1>2
<1>6. Eq(F)
  <2> HIDE DEF Eq
  <2> QED BY <1>5
<1>7. F[{}] = h[{}]
  <2>1. F[{}] = NoReward
    <3> HIDE DEF F
    <3> QED BY <1>6
  <2>2. QED
    BY <2>1, <1>13 DEF OverSubsets
<1>8. ASSUME NEW s \in SUBSET (1 .. n), s # {}, F[s \ {Max(s)}] = h[s \ {Max(s)}]
      PROVE  F[s] = h[s]
  <2> HIDE DEF F
  <2>1. F[s] = LET x == Max(s) IN
               IF q[x] = NoReward THEN F[s \ {x}]
               ELSE IF F[s \ {x}] = NoReward THEN q[x] ELSE F[s \ {x}] + q[x]
    BY <1>6, <1>8, <1>2
  <2>2. h[s] = LET x == Max(s) IN
               IF q[x] = NoReward THEN h[s \ {x}]
               ELSE IF h[s \ {x}] = NoReward THEN q[x] ELSE h[s \ {x}] + q[x]
    BY <1>5, <1>8, <1>2
  <2>3. QED
    BY <1>8, <2>1, <2>2
<1>9. F[1 .. n] = h[1 .. n]
  <2> HIDE DEF F
  <2>1. AgreeUpwards(F, h, n)
    BY <1>7, <1>8 DEF AgreeUpwards
  <2>2. \A s \in SUBSET (1 .. n) : F[s] = h[s]
    BY <2>1, FoldUnique
  <2>3. QED
    BY <2>2
<1>10. TotalReward(q) = F[DOMAIN q]
  BY DEF TotalReward, FoldLeft, MapThenFoldSet
<1>11. h[1 .. n] \in X
  BY <1>13
<1>12. QED
  BY <1>2, <1>9, <1>10, <1>11

(* SumSeq adds up from the front. *)
LEMMA SumAlong ==
  ASSUME NEW n \in Nat, NEW q \in [1 .. n -> Nat]
  PROVE  \E f \in [0 .. n -> Nat] :
           f[0] = 0 /\ (\A i \in 1 .. n : f[i] = f[i - 1] + q[i]) /\ SumSeq(q) = f[n]
<1> DEFINE G == [x \in Nat |-> [i \in 1 .. n |-> x + q[i]]]
           Eq(h) == h = [s \in SUBSET (DOMAIN q) |->
                           IF s = {} THEN 0 ELSE LET x == Max(s) IN h[s \ {x}] + q[x]]
           F == CHOOSE h : Eq(h)
<1>1. \A x \in Nat, i \in 1 .. n : G[x][i] \in Nat
  OBVIOUS
<1>2. DOMAIN q = 1 .. n /\ 0 \in Nat
  OBVIOUS
<1>3. PICK f, h : Folded(f, h, n, Nat, 0, G)
  <2> HIDE DEF G
  <2>1. Closed(G, Nat, n)
    BY <1>1 DEF Closed
  <2>2. QED
    BY <1>2, <2>1, FoldExists
<1>4. f \in [0 .. n -> Nat] /\ h \in [SUBSET (1 .. n) -> Nat] /\ h[1 .. n] = f[n]
      /\ OverSubsets(h, n, 0, G) /\ Along(f, n, 0, G)
  BY <1>3 DEF Folded
<1>5. ASSUME NEW s \in SUBSET (1 .. n), s # {}
      PROVE  Max(s) \in s /\ s \ {Max(s)} \in SUBSET (1 .. n) /\ Max(s) \in 1 .. n
  <2>1. s \subseteq Nat /\ \A x \in s : x <= n
    OBVIOUS
  <2>2. QED
    BY <2>1, <1>5, MaxProperties
<1>6. \A s \in SUBSET (1 .. n) : s # {} => h[s] = h[s \ {Max(s)}] + q[Max(s)]
  <2>1. SUFFICES ASSUME NEW s \in SUBSET (1 .. n), s # {}
                 PROVE  h[s] = h[s \ {Max(s)}] + q[Max(s)]
    OBVIOUS
  <2>2. h[s] = G[h[s \ {Max(s)}]][Max(s)]
    BY <1>4, <2>1 DEF OverSubsets
  <2>3. h[s \ {Max(s)}] \in Nat /\ Max(s) \in 1 .. n
    BY <1>4, <1>5, <2>1
  <2>4. QED
    BY <2>2, <2>3
<1>7. h[{}] = 0
  BY <1>4 DEF OverSubsets
<1>8. Eq(h)
  BY <1>2, <1>4, <1>6, <1>7
<1>9. Eq(F)
  <2> HIDE DEF Eq
  <2> QED BY <1>8
<1>10. F[1 .. n] = h[1 .. n]
  <2> HIDE DEF F
  <2>1. F[{}] = 0 /\ \A s \in SUBSET (1 .. n) : s # {} => F[s] = F[s \ {Max(s)}] + q[Max(s)]
    BY <1>2, <1>9
  <2>2. AgreeUpwards(F, h, n)
    BY <1>6, <1>7, <2>1 DEF AgreeUpwards
  <2>3. \A s \in SUBSET (1 .. n) : F[s] = h[s]
    BY <2>2, FoldUnique
  <2>4. QED
    BY <2>3
<1>11. SumSeq(q) = F[DOMAIN q]
  BY DEF SumSeq, FoldLeft, MapThenFoldSet
<1>12. SumSeq(q) = f[n]
  <2> HIDE DEF F
  <2> QED BY <1>2, <1>4, <1>10, <1>11
<1>13. f[0] = 0 /\ \A i \in 1 .. n : f[i] = f[i - 1] + q[i]
  <2>1. ASSUME NEW i \in 1 .. n PROVE f[i] = f[i - 1] + q[i]
    <3>1. f[i] = G[f[i - 1]][i]
      <4> HIDE DEF G
      <4> QED BY <1>4 DEF Along
    <3>2. f[i - 1] \in Nat
      BY <1>4
    <3>3. QED
      BY <3>1, <3>2
  <2>2. QED
    BY <2>1, <1>4 DEF Along
<1>14. QED
  BY <1>4, <1>12, <1>13

(* The lengths of the first pieces add up to where the next one begins. *)
LEMMA SumIsOffset ==
  ASSUME NEW L \in Nat, NEW q, NEW R, NEW off, Joined(q, 0, L, R, off),
         NEW lengths \in Seq(Nat), Len(lengths) = L, \A t \in 1 .. L : lengths[t] = Len(R[t]),
         NEW i \in 0 .. L
  PROVE  SumSeq(SubSeq(lengths, 1, i)) = off[i]
<1> DEFINE s == SubSeq(lengths, 1, i)
<1>1. s \in [1 .. i -> Nat] /\ i \in Nat /\ \A k \in 1 .. i : s[k] = lengths[k]
  <2>1. i \in Nat /\ i <= Len(lengths) /\ \A k \in 1 .. i : lengths[k] \in Nat
    OBVIOUS
  <2>2. s = [k \in 1 .. i |-> lengths[k]]
    <3>1. 1 \in Int /\ i \in Int /\ (1 + 0) = 1 /\ 1 .. (1 + i) - 1 = 1 .. i
      BY <2>1
    <3>2. QED
      BY <2>1, <3>1
  <2> HIDE DEF s
  <2>3. QED
    BY <2>1, <2>2
<1> HIDE DEF s
<1>2. PICK f \in [0 .. i -> Nat] :
           f[0] = 0 /\ (\A k \in 1 .. i : f[k] = f[k - 1] + s[k]) /\ SumSeq(s) = f[i]
  BY <1>1, SumAlong
<1> DEFINE T == {k \in 0 .. i : f[k] = off[k]}
<1>3. 0 \in T
  BY <1>2 DEF Joined
<1>4. ASSUME NEW k \in 0 .. i - 1, k \in T PROVE k + 1 \in T
  <2>1. k + 1 \in 1 .. i /\ (k + 1) - 1 = k /\ k + 1 \in 0 + 1 .. L /\ k + 1 \in 1 .. L /\ k + 1 \in 0 .. i
    OBVIOUS
  <2>2. f[k + 1] = f[k] + s[k + 1]
    BY <1>2, <2>1
  <2>3. off[k + 1] = off[k] + Len(R[k + 1])
    BY <2>1 DEF Joined
  <2>4. QED
    BY <1>1, <1>4, <2>1, <2>2, <2>3
<1>5. \A k \in 0 .. i - 1 : k \in T => k + 1 \in T
  BY <1>4
<1>6. i \in T
  <2> HIDE DEF T
  <2>1. 0 .. i \subseteq T
    BY <1>1, <1>3, <1>5, UpTo
  <2>2. QED
    BY <2>1
<1>7. QED
  BY <1>2, <1>6 DEF s

-----------------------------------------------------------------------------
(* The episodes *)

Step == [reward : Int \cup {NoReward}, done : BOOLEAN]

(* The steps a loop holds are an episode, of which the last step alone may *)
(* be the final answer, with the score of the reward worker; a loop that   *)
(* still runs has room for another step.                                   *)
FlowRight(f) ==
  /\ f \in [pc : PCs, steps : Seq(Step), pending : Step, time : Nat]
  /\ Len(f.steps) <= MaxSteps
  /\ \A k \in 1 .. Len(f.steps) :
       /\ f.steps[k].reward \in Int
       /\ f.steps[k].done => k = Len(f.steps) /\ f.steps[k].reward \in Scores
  /\ f.pc \in LoopPoints => LoopGoesOn(f.steps)
  /\ f.pc = "idle" => f.steps = <<>>
  /\ f.pending.done => f.pending.reward = NoReward

FlowsRight == DOMAIN flow = Trajectories /\ \A t \in Trajectories : FlowRight(flow[t])

LEMMA AnswerWithoutReward ==
  ASSUME NEW results \in ToolResults
  PROVE  /\ ToolEnvStep(results) \in Step
         /\ ToolEnvStep(results).done => ToolEnvStep(results).reward = NoReward
<1>1. PICK n \in Nat : results \in [1 .. n -> ToolRewards \cup {NoReward}]
  <2>1. \A n \in 0 .. MaxToolCalls : n \in Nat
    BY LoopAssumption
  <2>2. \E n \in 0 .. MaxToolCalls : results \in [1 .. n -> ToolRewards \cup {NoReward}]
    BY DEF ToolResults, BoundedSeq, SeqOf
  <2>3. QED
    BY <2>1, <2>2
<1>2. results \in [1 .. n -> Int \cup {NoReward}]
  BY <1>1, LoopAssumption
<1>3. TotalReward(results) \in Int \cup {NoReward}
  BY <1>2, RewardType
<1>4. results = <<>> => TotalReward(results) = NoReward
  BY EmptyReward
<1>5. QED
  BY <1>3, <1>4 DEF ToolEnvStep, Step

(* What a loop is left with when a step is appended. *)
Appended(f, step) ==
  [f EXCEPT !.pc = IF LoopGoesOn(Append(f.steps, step)) THEN "prompting" ELSE "finished",
            !.steps = Append(f.steps, step), !.pending = NoStep]

(* A step appended to an episode that goes on makes an episode again. *)
LEMMA AppendRight ==
  ASSUME NEW f, FlowRight(f), f.pc = "scoring", NEW step \in ScoredSteps(f.pending)
  PROVE  FlowRight(Appended(f, step))
<1> DEFINE next == Appended(f, step)
           old == f.steps
           new == Append(f.steps, step)
           n == Len(f.steps)
<1>1. old \in Seq(Step) /\ n \in Nat /\ f.pending \in Step /\ f.time \in Nat
  BY DEF FlowRight
<1>2. step \in Step /\ step.reward \in Int /\ (step.done => step.reward \in Scores)
  BY <1>1, LoopAssumption DEF ScoredSteps, Step, FlowRight
<1>3. n < MaxSteps /\ (old # <<>> => ~ old[n].done)
  BY DEF FlowRight, LoopGoesOn, LoopPoints, Last
<1>4. new \in Seq(Step) /\ Len(new) = n + 1 /\ new[n + 1] = step /\ \A k \in 1 .. n : new[k] = old[k]
  BY <1>1, <1>2
<1>5. n + 1 <= MaxSteps
  BY <1>1, <1>3, LoopAssumption
<1>6. ASSUME NEW k \in 1 .. Len(new)
      PROVE  new[k].reward \in Int /\ (new[k].done => k = Len(new) /\ new[k].reward \in Scores)
  <2>1. CASE k = n + 1
    BY <2>1, <1>2, <1>4
  <2>2. CASE k # n + 1
    <3>1. k \in 1 .. n /\ new[k] = old[k]
      BY <2>2, <1>1, <1>4, <1>6
    <3>2. old[k].reward \in Int /\ (old[k].done => k = n)
      BY <3>1 DEF FlowRight
    <3>3. old # <<>>
      BY <3>1
    <3>4. ~ old[k].done
      BY <3>2, <3>3, <1>3
    <3>5. QED
      BY <3>1, <3>2, <3>4
  <2>3. QED
    BY <2>1, <2>2
<1>7. NoStep \in Step /\ ~ NoStep.done
  BY DEF NoStep, Step
<1>8. /\ next \in [pc : PCs, steps : Seq(Step), pending : Step, time : Nat]
      /\ next.steps = new /\ next.pending = NoStep /\ next.pc # "idle"
      /\ next.pc \in LoopPoints => LoopGoesOn(new)
  BY <1>1, <1>4, <1>7 DEF FlowRight, PCs, LoopPoints, Appended
<1> HIDE DEF next
<1>9. FlowRight(next)
  BY <1>4, <1>5, <1>6, <1>7, <1>8 DEF FlowRight
<1>10. QED
  BY <1>9 DEF next

LEMMA FlowStepRight ==
  ASSUME FlowsRight, NEW t \in Trajectories, FlowStep(t)
  PROVE  FlowsRight'
<1>1. FlowRight(flow[t]) /\ DOMAIN flow = Trajectories
  BY DEF FlowsRight
<1>2. FlowRight(flow'[t]) /\ \E f : flow' = [flow EXCEPT ![t] = f]
  <2>1. CASE ObsToPrompt(t)
    <3>1. PICK next \in {"generating", "finished"} : flow' = [flow EXCEPT ![t].pc = next]
      BY <2>1 DEF ObsToPrompt
    <3>2. flow'[t] = [flow[t] EXCEPT !.pc = next]
      BY <3>1, <1>1
    <3>3. flow[t].pc = "prompting"
      BY <2>1 DEF ObsToPrompt, At
    <3>4. QED
      BY <3>1, <3>2, <3>3, <1>1 DEF FlowRight, PCs, LoopPoints
  <2>2. CASE Generated(t)
    <3>1. flow'[t] = [flow[t] EXCEPT !.pc = "acting"]
      BY <2>2, <1>1 DEF Generated
    <3>2. flow[t].pc = "generating"
      BY <2>2 DEF Generated, At
    <3>3. QED
      BY <2>2, <3>1, <3>2, <1>1 DEF FlowRight, PCs, LoopPoints, Generated
  <2>3. CASE EnvStep(t)
    <3>1. PICK results \in ToolResults :
            flow' = [flow EXCEPT ![t].pc = "scoring", ![t].pending = ToolEnvStep(results),
                                 ![t].time = @ + 1]
      BY <2>3 DEF EnvStep
    <3>2. flow'[t] = [flow[t] EXCEPT !.pc = "scoring", !.pending = ToolEnvStep(results), !.time = @ + 1]
      BY <3>1, <1>1
    <3>3. flow[t].pc = "acting"
      BY <2>3 DEF EnvStep, At
    <3>4. ToolEnvStep(results) \in Step
          /\ (ToolEnvStep(results).done => ToolEnvStep(results).reward = NoReward)
      BY AnswerWithoutReward
    <3>5. FlowRight(flow'[t])
      <4> DEFINE p == ToolEnvStep(results)
                 next == flow'[t]
      <4>1. p \in Step /\ (p.done => p.reward = NoReward) /\ flow[t].time + 1 \in Nat
        BY <3>4, <1>1 DEF FlowRight
      <4>2. next = [flow[t] EXCEPT !.pc = "scoring", !.pending = p, !.time = flow[t].time + 1]
        BY <3>2
      <4> HIDE DEF p, next
      <4>3. /\ next \in [pc : PCs, steps : Seq(Step), pending : Step, time : Nat]
            /\ next.pc = "scoring" /\ next.steps = flow[t].steps /\ next.pending = p
        BY <4>1, <4>2, <1>1 DEF FlowRight, PCs, LoopPoints
      <4>4. FlowRight(next)
        BY <4>1, <4>3, <3>3, <1>1 DEF FlowRight, LoopPoints
      <4>5. QED
        BY <4>4 DEF next
    <3>6. QED
      BY <3>1, <3>5
  <2>4. CASE AppendStep(t)
    <3>1. flow[t].pc = "scoring"
      BY <2>4 DEF AppendStep, At
    <3>2. PICK step \in ScoredSteps(flow[t].pending) :
            flow' = [flow EXCEPT
              ![t].pc = IF LoopGoesOn(Append(flow[t].steps, step)) THEN "prompting" ELSE "finished",
              ![t].steps = Append(flow[t].steps, step), ![t].pending = NoStep]
      BY <2>4 DEF AppendStep
    <3>3. flow'[t] = Appended(flow[t], step)
      BY <3>2, <1>1 DEF Appended
    <3>4. FlowRight(flow'[t])
      <4>1. FlowRight(Appended(flow[t], step))
        BY <3>1, <3>2, <1>1, AppendRight
      <4>2. QED
        BY <4>1, <3>3
    <3>5. QED
      BY <3>2, <3>4
  <2>5. CASE FlowRaises(t)
    <3>1. flow'[t] = [flow[t] EXCEPT !.pc = "failed"]
      BY <2>5, <1>1 DEF FlowRaises
    <3>2. FlowRight(flow'[t])
      BY <3>1, <1>1 DEF FlowRight, PCs, LoopPoints
    <3>3. QED
      BY <2>5, <3>2 DEF FlowRaises
  <2>6. QED
    BY <2>1, <2>2, <2>3, <2>4, <2>5 DEF FlowStep
<1>3. DOMAIN flow' = Trajectories /\ \A u \in Trajectories \ {t} : flow'[u] = flow[u]
  BY <1>1, <1>2
<1>4. QED
  BY <1>2, <1>3 DEF FlowsRight

-----------------------------------------------------------------------------
(* The rows of the output *)

(* The worker a trajectory runs on and its place in the chunk. *)
WorkerOf(t) == (t - 1) \div SplitSize + 1

IndexIn(t) == t - (WorkerOf(t) - 1) * SplitSize

(* Where the chunks end. *)
Ends == [w \in 0 .. NumWorkers |-> IF w * SplitSize <= Len(GenBatch) THEN w * SplitSize ELSE Len(GenBatch)]

LEMMA ChunkEnds ==
  ASSUME PromptShape, NumChunks = NumWorkers
  PROVE  /\ Ends \in [0 .. NumWorkers -> Nat] /\ Ends[0] = 0 /\ Ends[NumWorkers] = Len(GenBatch)
         /\ \A w \in Workers : Ends[w - 1] = (w - 1) * SplitSize /\ Ends[w - 1] <= Ends[w]
<1> DEFINE L == Len(GenBatch)
           S == SplitSize
           d == (L - 1) \div S
<1>1. L \in Nat \ {0} /\ NumWorkers \in Nat \ {0}
  BY AskedCount, RolloutAssumption
<1>2. S \in Nat \ {0}
  BY <1>1 DEF SplitSize
<1>3. NumWorkers = d + 1
  BY DEF NumChunks
<1>4. Ends = [w \in 0 .. NumWorkers |-> IF w * S <= L THEN w * S ELSE L]
  BY DEF Ends
<1> HIDE DEF L, S
<1>5. d \in Nat /\ L - 1 = S * d + ((L - 1) % S) /\ (L - 1) % S \in 0 .. S - 1
  BY <1>1, <1>2
<1> HIDE DEF d
<1>6. \A w \in 0 .. NumWorkers : w * S \in Nat
  BY <1>1, <1>2
<1>7. Ends \in [0 .. NumWorkers -> Nat]
  BY <1>1, <1>4, <1>6
<1>8. ASSUME NEW w \in 0 .. d PROVE w * S <= L
  <2>1. w * S <= S * d
    BY <1>2, <1>5
  <2>2. S * d \in Nat /\ w * S \in Nat
    BY <1>2, <1>5
  <2>3. QED
    BY <1>1, <1>2, <1>5, <2>1, <2>2
<1>9. ASSUME NEW w \in Workers PROVE Ends[w - 1] = (w - 1) * S /\ Ends[w - 1] <= Ends[w]
  <2>1. w - 1 \in 0 .. d /\ w - 1 \in 0 .. NumWorkers /\ w \in 0 .. NumWorkers
    BY <1>1, <1>3, <1>5 DEF Workers
  <2>2. (w - 1) * S <= L
    BY <1>8, <2>1
  <2>3. Ends[w - 1] = (w - 1) * S
    BY <1>4, <2>1, <2>2
  <2>4. (w - 1) * S <= w * S
    <3>1. w * S = (w - 1) * S + S
      BY <2>1, <1>2
    <3>2. QED
      BY <3>1, <1>2, <1>6, <2>1
  <2>5. Ends[w] = IF w * S <= L THEN w * S ELSE L
    BY <1>4, <2>1
  <2>6. QED
    BY <2>2, <2>3, <2>4, <2>5
<1>10. Ends[0] = 0
  <2>1. 0 \in 0 .. NumWorkers /\ 0 * S = 0
    BY <1>1, <1>2
  <2>2. QED
    BY <1>1, <1>4, <2>1
<1>11. Ends[NumWorkers] = L
  <2>1. NumWorkers \in 0 .. NumWorkers
    BY <1>1
  <2>2. NumWorkers * S = S * d + S
    BY <1>2, <1>3, <1>5
  <2>3. S * d \in Nat
    BY <1>2, <1>5
  <2>4. L <= NumWorkers * S
    BY <1>1, <1>2, <1>5, <2>2, <2>3
  <2>5. NumWorkers * S \in Nat
    BY <1>6, <2>1
  <2>6. NumWorkers * S <= L => NumWorkers * S = L
    BY <1>1, <2>4, <2>5
  <2>7. Ends[NumWorkers] = IF NumWorkers * S <= L THEN NumWorkers * S ELSE L
    BY <1>4, <2>1
  <2>8. QED
    BY <2>6, <2>7
<1>12. QED
  BY <1>7, <1>9, <1>10, <1>11 DEF S, L

LEMMA ChunkIs ==
  ASSUME PromptShape, NumChunks = NumWorkers, NEW w \in Workers
  PROVE  /\ Ends[w - 1] \in Nat /\ Ends[w] \in Nat /\ Ends[w - 1] <= Ends[w]
         /\ Ends[w] <= Len(GenBatch)
         /\ Chunk(w) = [i \in 1 .. Ends[w] - Ends[w - 1] |-> Ends[w - 1] + i]
         /\ \A i \in 1 .. Ends[w] - Ends[w - 1] :
              /\ Ends[w - 1] + i \in Asked
              /\ WorkerOf(Ends[w - 1] + i) = w /\ IndexIn(Ends[w - 1] + i) = i
<1> DEFINE L == Len(GenBatch)
           S == SplitSize
           e == Ends[w - 1]
           n == Ends[w] - Ends[w - 1]
<1>1. L \in Nat \ {0} /\ NumWorkers \in Nat \ {0}
  BY AskedCount, RolloutAssumption
<1>2. S \in Nat \ {0}
  BY <1>1 DEF SplitSize
<1>3. w \in Nat \ {0} /\ w \in 0 .. NumWorkers /\ w - 1 \in 0 .. NumWorkers
  BY <1>1 DEF Workers
<1>4. Ends[w] = IF w * S <= L THEN w * S ELSE L
  BY <1>3 DEF Ends
<1>5. e \in Nat /\ Ends[w] \in Nat /\ e <= Ends[w] /\ e = (w - 1) * S
  BY <1>3, ChunkEnds
<1>6. Chunk(w) = [i \in 1 .. Min({S, L - (w - 1) * S}) |-> (w - 1) * S + i]
  BY DEF Chunk
<1> HIDE DEF L, S
<1>7. w * S = e + S
  BY <1>2, <1>3, <1>5
<1> HIDE DEF e
<1>8. Min({S, L - e}) = IF S <= L - e THEN S ELSE L - e
  BY <1>1, <1>2, <1>5, MinOfTwo
<1>9. n = Min({S, L - e})
  BY <1>1, <1>2, <1>4, <1>5, <1>7, <1>8 DEF e
<1>10. Chunk(w) = [i \in 1 .. n |-> e + i]
  BY <1>5, <1>6, <1>9
<1>11. Ends[w] <= L
  BY <1>1, <1>2, <1>4, <1>5, <1>7
<1>12. ASSUME NEW i \in 1 .. n
       PROVE  /\ e + i \in 1 .. L
              /\ (((e + i) - 1) \div S) + 1 = w /\ (e + i) - (w - 1) * S = i
  <2>1. i \in Nat \ {0} /\ i <= S /\ e + i <= L
    BY <1>1, <1>2, <1>5, <1>8, <1>9
  <2>2. (e + i) - 1 = S * (w - 1) + (i - 1) /\ i - 1 \in 0 .. S - 1
    BY <2>1, <1>2, <1>3, <1>5
  <2>3. ((e + i) - 1) \div S = w - 1
    <3> DEFINE u == (e + i) - 1
               k == u \div S
    <3>1. u \in Nat /\ k \in Nat /\ u = S * k + (u % S) /\ u % S \in 0 .. S - 1
      BY <1>2, <1>5, <2>1
    <3> HIDE DEF k
    <3>2. u = S * (w - 1) + (i - 1) /\ w - 1 \in Nat /\ S * (w - 1) \in Nat /\ S * k \in Nat
      <4>1. u = S * (w - 1) + (i - 1)
        BY <2>2
      <4> HIDE DEF u
      <4>2. w - 1 \in Nat
        BY <1>3
      <4>3. S * (w - 1) \in Nat /\ S * k \in Nat
        BY <1>2, <3>1, <4>2
      <4>4. QED
        BY <4>1, <4>2, <4>3
    <3> HIDE DEF u
    <3>3. ASSUME k <= w - 2 PROVE FALSE
      <4>1. S * (w - 1) = S * (w - 2) + S
        BY <1>2, <1>3
      <4>2. S * k <= S * (w - 2)
        BY <1>2, <1>3, <3>1, <3>3
      <4>3. S * (w - 2) \in Int
        BY <1>2, <1>3
      <4>4. QED
        BY <1>2, <2>2, <3>1, <3>2, <4>1, <4>2, <4>3
    <3>4. ASSUME w <= k PROVE FALSE
      <4>1. S * w = S * (w - 1) + S
        BY <1>2, <1>3
      <4>2. S * w <= S * k
        BY <1>2, <1>3, <3>1, <3>4
      <4>3. S * w \in Int
        BY <1>2, <1>3
      <4>4. QED
        BY <1>2, <2>2, <3>1, <3>2, <4>1, <4>2, <4>3
    <3>5. k = w - 1
      BY <3>1, <1>3, <3>3, <3>4
    <3>6. QED
      BY <3>5 DEF k, u
  <2>4. QED
    BY <1>1, <1>2, <1>3, <1>5, <2>1, <2>3
<1>13. \A i \in 1 .. n : /\ e + i \in Asked /\ WorkerOf(e + i) = w /\ IndexIn(e + i) = i
  <2>1. SUFFICES ASSUME NEW i \in 1 .. n
                 PROVE e + i \in Asked /\ WorkerOf(e + i) = w /\ IndexIn(e + i) = i
    OBVIOUS
  <2>2. QED
    BY <1>12 DEF Asked, WorkerOf, IndexIn, L, S
<1>14. QED
  BY <1>5, <1>10, <1>11, <1>13 DEF e, L

Row == [trajectory : Int \X Int, index : Int, from : Int, step : Step]

(* The rows of one trajectory, and its length as a sequence. *)
RowsOf == [t \in Asked |->
            [k \in DOMAIN flow[t].steps |->
              [trajectory |-> <<WorkerOf(t), IndexIn(t)>>, index |-> k - 1,
               from |-> t, step |-> flow[t].steps[k]]]]

LengthOf == [t \in Asked |-> <<Len(flow[t].steps)>>]

LEMMA RowsOfShape ==
  ASSUME FlowsRight, PromptShape, NEW t \in Asked
  PROVE  /\ flow[t].steps \in Seq(Step) /\ DOMAIN flow[t].steps = 1 .. Len(flow[t].steps)
         /\ RowsOf[t] \in Seq(Row) /\ Len(RowsOf[t]) = Len(flow[t].steps)
         /\ \A k \in 1 .. Len(flow[t].steps) :
              RowsOf[t][k] = [trajectory |-> <<WorkerOf(t), IndexIn(t)>>, index |-> k - 1,
                              from |-> t, step |-> flow[t].steps[k]]
<1> DEFINE s == flow[t].steps
           n == Len(s)
           W == WorkerOf(t)
           I == IndexIn(t)
           row(k) == [trajectory |-> <<W, I>>, index |-> k - 1, from |-> t, step |-> s[k]]
<1>1. s \in Seq(Step)
  BY DEF FlowsRight, FlowRight, PromptShape
<1>2. RowsOf[t] = [k \in DOMAIN s |-> row(k)]
  BY DEF RowsOf
<1>3. t \in Int /\ W \in Int /\ I \in Int
  <2>1. t \in Int /\ Len(GenBatch) \in Nat \ {0} /\ NumWorkers \in Nat \ {0}
    BY AskedCount, RolloutAssumption DEF Asked
  <2>2. SplitSize \in Nat \ {0}
    BY <2>1 DEF SplitSize
  <2>3. (t - 1) \div SplitSize \in Int
    BY <2>1, <2>2
  <2>4. QED
    BY <2>1, <2>2, <2>3 DEF WorkerOf, IndexIn
<1> HIDE DEF s, W, I
<1>4. n \in Nat /\ DOMAIN s = 1 .. n /\ \A k \in 1 .. n : s[k] \in Step
  BY <1>1
<1> HIDE DEF n
<1>5. \A k \in 1 .. n : row(k) \in Row
  BY <1>3, <1>4 DEF Row
<1> HIDE DEF row
<1>6. RowsOf[t] \in [1 .. n -> Row]
  BY <1>2, <1>4, <1>5
<1>7. RowsOf[t] \in Seq(Row) /\ Len(RowsOf[t]) = n
  BY <1>4, <1>6
<1>8. \A k \in 1 .. n : RowsOf[t][k] = row(k)
  BY <1>2, <1>4
<1>9. QED
  BY <1>1, <1>4, <1>7, <1>8 DEF s, n, W, I, row

LEMMA WorkerRowsJoin ==
  ASSUME FlowsRight, PromptShape, NumChunks = NumWorkers, NEW w \in Workers
  PROVE  /\ WorkerRows(w) \in Seq(Row)
         /\ \E off : Joined(WorkerRows(w), Ends[w - 1], Ends[w], RowsOf, off)
<1> DEFINE e == Ends[w - 1]
           n == Ends[w] - e
           pieces == [i \in 1 .. n |-> RowsOf[e + i]]
<1>1. /\ e \in Nat /\ n \in Nat /\ Ends[w] = e + n /\ e = e + 0
      /\ Chunk(w) = [i \in 1 .. n |-> e + i]
      /\ \A i \in 1 .. n : e + i \in Asked /\ WorkerOf(e + i) = w /\ IndexIn(e + i) = i
  BY ChunkIs
<1> HIDE DEF e, n
<1>2. pieces \in [1 .. n -> Seq(Row)]
  <2>1. \A i \in 1 .. n : RowsOf[e + i] \in Seq(Row)
    BY <1>1, RowsOfShape
  <2>2. QED
    BY <2>1
<1>3. WorkerRows(w) = FlattenSeq(pieces)
  <2> DEFINE rowsOf(i) == LET t == Chunk(w)[i] IN
               [k \in DOMAIN flow[t].steps |->
                 [trajectory |-> <<w, i>>, index |-> k - 1, from |-> t, step |-> flow[t].steps[k]]]
  <2>1. DOMAIN Chunk(w) = 1 .. n
    BY <1>1
  <2>2. ASSUME NEW i \in 1 .. n PROVE rowsOf(i) = RowsOf[e + i]
    <3>1. Chunk(w)[i] = e + i /\ e + i \in Asked /\ WorkerOf(e + i) = w /\ IndexIn(e + i) = i
      BY <1>1
    <3>2. QED
      BY <3>1 DEF RowsOf
  <2>3. [i \in DOMAIN Chunk(w) |-> rowsOf(i)] = pieces
    <3> HIDE DEF rowsOf
    <3> QED BY <2>1, <2>2
  <2>4. QED
    BY <2>3 DEF WorkerRows
<1>4. FlattenSeq(pieces) \in Seq(Row) /\ \E off : Joined(FlattenSeq(pieces), 0, n, pieces, off)
  <2> HIDE DEF pieces
  <2> QED BY <1>1, <1>2, FlattenJoins
<1>5. PICK off : Joined(FlattenSeq(pieces), 0, n, pieces, off)
  BY <1>4
<1>6. \A i \in 0 + 1 .. n : RowsOf[e + i] = pieces[i]
  BY <1>1
<1>7. \E g : Joined(FlattenSeq(pieces), e + 0, e + n, RowsOf, g)
  <2> HIDE DEF pieces
  <2>1. 0 \in Int /\ n \in Int /\ e \in Int /\ 0 <= n
    BY <1>1
  <2>2. QED
    BY <1>5, <1>6, <2>1, JoinedShift
<1>8. QED
  <2> HIDE DEF pieces
  <2>1. WorkerRows(w) \in Seq(Row) /\ \E g : Joined(WorkerRows(w), e, Ends[w], RowsOf, g)
    BY <1>1, <1>3, <1>4, <1>7
  <2>2. QED
    BY <2>1 DEF e

LEMMA WorkerNumStepsJoin ==
  ASSUME FlowsRight, PromptShape, NumChunks = NumWorkers, NEW w \in Workers
  PROVE  /\ WorkerNumSteps(w) \in Seq(Nat)
         /\ \E off : Joined(WorkerNumSteps(w), Ends[w - 1], Ends[w], LengthOf, off)
<1> DEFINE e == Ends[w - 1]
           n == Ends[w] - e
           q == WorkerNumSteps(w)
           P == [i \in 1 .. n |-> LengthOf[e + i]]
           off == [i \in 0 .. n |-> i]
<1>1. /\ e \in Nat /\ n \in Nat /\ Ends[w] = e + n /\ e = e + 0
      /\ Chunk(w) = [i \in 1 .. n |-> e + i]
      /\ \A i \in 1 .. n : e + i \in Asked
  BY ChunkIs
<1> HIDE DEF e, n
<1>2. q = [i \in 1 .. n |-> Len(flow[e + i].steps)]
  BY <1>1 DEF WorkerNumSteps
<1>3. \A i \in 1 .. n : Len(flow[e + i].steps) \in Nat
  BY <1>1, RowsOfShape
<1> HIDE DEF q
<1>4. q \in Seq(Nat) /\ Len(q) = n
  BY <1>1, <1>2, <1>3
<1>5. \A i \in 1 .. n : P[i] = <<q[i]>>
  BY <1>1, <1>2 DEF LengthOf
<1> HIDE DEF P
<1>6. Joined(q, 0, n, P, off)
  <2>1. off \in [0 .. n -> Nat] /\ off[0] = 0 /\ off[n] = Len(q) /\ 0 + 1 = 1
    BY <1>1, <1>4
  <2>2. ASSUME NEW t \in 0 + 1 .. n
        PROVE  /\ Len(P[t]) \in Nat /\ off[t] = off[t - 1] + Len(P[t])
               /\ \A k \in 1 .. Len(P[t]) : q[off[t - 1] + k] = P[t][k]
    <3>1. t \in 1 .. n /\ t - 1 \in 0 .. n /\ t \in 0 .. n /\ (t - 1) + 1 = t
      BY <1>1
    <3>2. off[t] = t /\ off[t - 1] = t - 1
      BY <3>1
    <3> HIDE DEF off
    <3>3. P[t] = <<q[t]>>
      BY <1>5, <3>1
    <3>4. Len(P[t]) = 1 /\ P[t][1] = q[t] /\ \A k \in 1 .. 1 : k = 1
      BY <3>3
    <3>5. QED
      BY <3>1, <3>2, <3>4
  <2>3. QED
    <3> HIDE DEF off
    <3> QED BY <2>1, <2>2 DEF Joined
<1>7. \A i \in 0 + 1 .. n : LengthOf[e + i] = P[i]
  BY <1>1 DEF P
<1>8. \E g : Joined(q, e + 0, e + n, LengthOf, g)
  <2>1. 0 \in Int /\ n \in Int /\ e \in Int /\ 0 <= n
    BY <1>1
  <2>2. QED
    <3> HIDE DEF off
    <3> QED BY <1>6, <1>7, <2>1, JoinedShift
<1>9. QED
  <2>1. q \in Seq(Nat) /\ \E g : Joined(q, e, Ends[w], LengthOf, g)
    BY <1>1, <1>4, <1>8
  <2>2. QED
    BY <2>1 DEF e, q

(* The output holds the rows of all trajectories, in their order. *)
RowsJoined ==
  /\ output.rows \in Seq(Row)
  /\ \E off : Joined(output.rows, 0, Len(GenBatch), RowsOf, off)

LengthsRight ==
  /\ output.numSteps \in Seq(Nat) /\ Len(output.numSteps) = Len(GenBatch)
  /\ \A t \in Asked : output.numSteps[t] = Len(flow[t].steps)

LEMMA GenBatchShape ==
  ASSUME PromptShape
  PROVE  GenBatch \in Seq(Nat \ {0}) /\ DOMAIN GenBatch = Asked /\ TrainerBatch = GenBatch
<1> DEFINE n == Len(prompts) * RolloutN
<1>1. Len(prompts) \in Nat \ {0} /\ RolloutN \in Nat \ {0}
  BY RolloutAssumption DEF PromptShape
<1>2. n \in Nat
  BY <1>1
<1>3. GenBatch = [k \in 1 .. n |-> prompts[((k - 1) \div RolloutN) + 1]]
  BY DEF GenBatch, Repeat
<1>4. ASSUME NEW k \in 1 .. n PROVE prompts[((k - 1) \div RolloutN) + 1] \in Nat \ {0}
  <2> DEFINE d == (k - 1) \div RolloutN
  <2>1. d \in Nat /\ k - 1 = RolloutN * d + ((k - 1) % RolloutN) /\ (k - 1) % RolloutN \in Nat
    BY <1>1, <1>2
  <2>2. RolloutN * d <= k - 1
    <3> HIDE DEF d
    <3>1. RolloutN * d \in Nat
      BY <1>1, <2>1
    <3>2. QED
      BY <2>1, <3>1
  <2>3. ASSUME Len(prompts) <= d PROVE FALSE
    <3> HIDE DEF d
    <3>1. Len(prompts) * RolloutN <= RolloutN * d
      BY <1>1, <2>1, <2>3
    <3>2. RolloutN * d \in Nat
      BY <1>1, <2>1
    <3>3. QED
      BY <1>2, <2>2, <3>1, <3>2
  <2>4. d + 1 \in 1 .. Len(prompts)
    <3> HIDE DEF d
    <3> QED BY <1>1, <2>1, <2>3
  <2>5. QED
    <3> HIDE DEF d
    <3>1. prompts[d + 1] \in Nat \ {0}
      BY <2>4 DEF PromptShape
    <3>2. QED
      BY <3>1 DEF d
<1> HIDE DEF n
<1>5. GenBatch \in Seq(Nat \ {0}) /\ Len(GenBatch) = n /\ DOMAIN GenBatch = 1 .. n
  BY <1>2, <1>3, <1>4
<1>6. QED
  BY <1>5 DEF Asked, TrainerBatch, GenBatch

LEMMA CollectedRight ==
  ASSUME FlowsRight, PromptShape, NumChunks = NumWorkers
  PROVE  LET rows == Concat([w \in Workers |-> WorkerRows(w)])
             numSteps == Concat([w \in Workers |-> WorkerNumSteps(w)])
         IN /\ rows \in Seq(Row)
            /\ \E off : Joined(rows, 0, Len(GenBatch), RowsOf, off)
            /\ numSteps \in Seq(Nat) /\ Len(numSteps) = Len(GenBatch)
            /\ \A t \in Asked : numSteps[t] = Len(flow[t].steps)
<1> DEFINE all == [w \in Workers |-> WorkerRows(w)]
           lengths == [w \in Workers |-> WorkerNumSteps(w)]
           L == Len(GenBatch)
<1>1. NumWorkers \in Nat /\ Workers = 1 .. NumWorkers /\ L \in Nat
  BY RolloutAssumption, AskedCount DEF Workers
<1>2. all \in [1 .. NumWorkers -> Seq(Row)]
  BY <1>1, WorkerRowsJoin
<1>3. lengths \in [1 .. NumWorkers -> Seq(Nat)]
  BY <1>1, WorkerNumStepsJoin
<1>4. Ends \in [0 .. NumWorkers -> Int] /\ Ends[0] = 0 /\ Ends[NumWorkers] = L
      /\ \A w \in 1 .. NumWorkers : Ends[w - 1] <= Ends[w]
  BY <1>1, ChunkEnds
<1>5. Chunked(all, NumWorkers, Ends, RowsOf)
  <2>1. \A w \in 1 .. NumWorkers : \E off : Joined(all[w], Ends[w - 1], Ends[w], RowsOf, off)
    BY <1>1, WorkerRowsJoin
  <2>2. QED
    <3> HIDE DEF all
    <3> QED BY <1>4, <2>1 DEF Chunked
<1>6. Chunked(lengths, NumWorkers, Ends, LengthOf)
  <2>1. \A w \in 1 .. NumWorkers : \E off : Joined(lengths[w], Ends[w - 1], Ends[w], LengthOf, off)
    BY <1>1, WorkerNumStepsJoin
  <2>2. QED
    <3> HIDE DEF lengths
    <3> QED BY <1>4, <2>1 DEF Chunked
<1> HIDE DEF all, lengths, L
<1>7. FlattenSeq(all) \in Seq(Row) /\ FlattenSeq(lengths) \in Seq(Nat)
  BY <1>1, <1>2, <1>3, FlattenJoins
<1>8. \E off : Joined(FlattenSeq(all), 0, L, RowsOf, off)
  BY <1>1, <1>2, <1>4, <1>5, FlattenChunks
<1>9. PICK off : Joined(FlattenSeq(lengths), 0, L, LengthOf, off)
  <2>1. \E off : Joined(FlattenSeq(lengths), 0, Ends[NumWorkers], LengthOf, off)
    BY <1>1, <1>3, <1>6, FlattenChunks
  <2>2. QED
    BY <1>4, <2>1
<1>10. \A t \in 1 .. L : Len(LengthOf[t]) = 1 /\ LengthOf[t][1] = Len(flow[t].steps)
  BY DEF LengthOf, Asked, L
<1>11. Len(FlattenSeq(lengths)) = L /\ \A t \in 1 .. L : FlattenSeq(lengths)[t] = Len(flow[t].steps)
  BY <1>1, <1>9, <1>10, JoinedSingles
<1>12. QED
  BY <1>7, <1>8, <1>11 DEF Concat, Asked, all, lengths, L

(* The alignment of fit finds for each row the uid of its own trajectory. *)
LEMMA UidsRight ==
  ASSUME FlowsRight, PromptShape, RowsJoined, LengthsRight, NEW r \in DOMAIN output.rows
  PROVE  SampleLevelRepeat(TrainerBatch, output.numSteps)[r] = GenBatch[output.rows[r].from]
<1> DEFINE L == Len(GenBatch)
           s == GenBatch
           pieces == [i \in 1 .. L |-> [k \in 1 .. output.numSteps[i] |-> s[i]]]
<1>1. L \in Nat /\ s \in Seq(Nat \ {0}) /\ DOMAIN s = 1 .. L /\ Asked = 1 .. L /\ TrainerBatch = s
  BY GenBatchShape DEF Asked
<1>2. SampleLevelRepeat(TrainerBatch, output.numSteps) = FlattenSeq(pieces)
  BY <1>1 DEF SampleLevelRepeat
<1> HIDE DEF s
<1>3. \A i \in 1 .. L : output.numSteps[i] \in Nat /\ output.numSteps[i] = Len(RowsOf[i])
  BY <1>1, RowsOfShape DEF LengthsRight
<1>4. \A i \in 1 .. L : /\ pieces[i] = [k \in 1 .. output.numSteps[i] |-> s[i]]
                        /\ s[i] \in Nat
  BY <1>1
<1> HIDE DEF pieces
<1>5. \A i \in 1 .. L : pieces[i] \in Seq(Nat) /\ Len(pieces[i]) = Len(RowsOf[i])
                        /\ \A k \in 1 .. Len(RowsOf[i]) : pieces[i][k] = s[i]
  <2>1. TAKE i \in 1 .. L
  <2> DEFINE n == output.numSteps[i]
  <2>2. n \in Nat /\ n = Len(RowsOf[i]) /\ pieces[i] = [k \in 1 .. n |-> s[i]] /\ s[i] \in Nat
    BY <1>3, <1>4
  <2> HIDE DEF n
  <2>3. QED
    BY <2>2
<1>6. pieces \in [1 .. L -> Seq(Nat)]
  <2>1. DOMAIN pieces = 1 .. L /\ pieces = [i \in 1 .. L |-> pieces[i]]
    BY DEF pieces
  <2>2. QED
    BY <1>5, <2>1
<1> HIDE DEF L
<1>7. PICK g : Joined(FlattenSeq(pieces), 0, L, pieces, g)
  BY <1>1, <1>6, FlattenJoins
<1>8. PICK off : Joined(output.rows, 0, L, RowsOf, off)
  BY DEF RowsJoined, L
<1>9. g = off
  <2>1. 0 \in Int /\ L \in Int /\ 0 <= L /\ \A t \in 0 + 1 .. L : Len(pieces[t]) = Len(RowsOf[t])
    BY <1>1, <1>5
  <2>2. QED
    BY <1>7, <1>8, <2>1, JoinedSame
<1>10. r \in 1 .. Len(output.rows)
  BY DEF RowsJoined
<1>11. PICK t \in 1 .. L : \E k \in 1 .. Len(RowsOf[t]) :
            r = off[t - 1] + k /\ output.rows[r] = RowsOf[t][k]
  <2>1. InPiece(r, output.rows, L, RowsOf, off)
    BY <1>1, <1>8, <1>10, JoinedRow
  <2>2. QED
    BY <2>1 DEF InPiece
<1>12. PICK k \in 1 .. Len(RowsOf[t]) : r = off[t - 1] + k /\ output.rows[r] = RowsOf[t][k]
  BY <1>11
<1>13. t \in Asked /\ t \in 1 .. L
  BY <1>1
<1>14. output.rows[r].from = t
  <2>1. Len(RowsOf[t]) = Len(flow[t].steps)
        /\ \A j \in 1 .. Len(flow[t].steps) :
              RowsOf[t][j] = [trajectory |-> <<WorkerOf(t), IndexIn(t)>>, index |-> j - 1,
                              from |-> t, step |-> flow[t].steps[j]]
    BY <1>13, RowsOfShape
  <2>2. RowsOf[t][k].from = t
    <3>1. k \in 1 .. Len(flow[t].steps)
      BY <1>12, <2>1
    <3>2. RowsOf[t][k] = [trajectory |-> <<WorkerOf(t), IndexIn(t)>>, index |-> k - 1,
                          from |-> t, step |-> flow[t].steps[k]]
      BY <2>1, <3>1
    <3>3. QED
      BY <3>2
  <2>3. QED
    BY <1>12, <2>2
<1>15. FlattenSeq(pieces)[r] = s[t]
  <2>1. FlattenSeq(pieces)[g[t - 1] + k] = pieces[t][k]
    BY <1>5, <1>7, <1>12, <1>13 DEF Joined
  <2>2. QED
    BY <1>5, <1>9, <1>12, <1>13, <2>1
<1>16. QED
  BY <1>2, <1>14, <1>15 DEF s

-----------------------------------------------------------------------------
(* The invariant *)

(* A step of a loop is taken by a loop that runs and moves no other. *)
LEMMA FlowStepFacts ==
  ASSUME FlowShape, NEW t \in Trajectories, FlowStep(t)
  PROVE  /\ FlowShape'
         /\ flow[t].pc \in LoopPoints
         /\ \A u \in Trajectories \ {t} : flow'[u] = flow[u]
<1> USE DEF FlowShape, LoopPoints, PCs, At
<1>1. CASE ObsToPrompt(t)
  BY <1>1 DEF ObsToPrompt
<1>2. CASE Generated(t)
  BY <1>2 DEF Generated
<1>3. CASE EnvStep(t)
  BY <1>3 DEF EnvStep
<1>4. CASE AppendStep(t)
  BY <1>4 DEF AppendStep
<1>5. CASE FlowRaises(t)
  BY <1>5 DEF FlowRaises
<1>6. QED
  BY <1>1, <1>2, <1>3, <1>4, <1>5 DEF FlowStep

LEMMA InitRInv == Init => RInv
<1> SUFFICES ASSUME Init PROVE RInv
  OBVIOUS
<1>1. PICK n \in PromptCounts : prompts = [i \in 1 .. n |-> i]
  BY DEF Init
<1>2. n \in Nat \ {0} /\ n * RolloutN \in Nat /\ 1 .. n * RolloutN \subseteq Trajectories
  BY RolloutAssumption
<1>3. prompts \in Seq(Nat \ {0}) /\ Len(prompts) = n
  BY <1>1, <1>2
<1>4. Len(GenBatch) = n * RolloutN
  BY <1>2, <1>3 DEF GenBatch, Repeat
<1>5. PromptShape
  BY <1>2, <1>3, <1>4 DEF PromptShape, Asked
<1>6. FlowShape /\ \A t \in Trajectories : At(t, "idle")
  BY DEF Init, FlowShape, IdleFlow, PCs, At
<1>7. QED
  BY <1>5, <1>6 DEF Init, RInv, WorkerShape, OnlyAskedRun, AwakeUntilReturn,
     ReturnedIsFinished, WaitsForAll, CollectedIsFinished

(* What depends on the prompts alone does not change. *)
LEMMA PromptsKept ==
  ASSUME prompts' = prompts
  PROVE  /\ GenBatch' = GenBatch /\ Asked' = Asked
         /\ SplitSize' = SplitSize /\ NumChunks' = NumChunks
         /\ PromptShape => PromptShape'
         /\ \A w : Chunk(w)' = Chunk(w)
BY DEF GenBatch, Asked, SplitSize, NumChunks, PromptShape, Chunk, Repeat

LEMMA RunFlowRInv ==
  ASSUME RInv, NEW t \in Trajectories, RunFlow(t)
  PROVE  RInv'
<1>1. UNCHANGED rolloutVars /\ FlowShape /\ FlowStep(t)
  BY DEF RunFlow, RInv
<1>2. FlowShape' /\ flow[t].pc \in LoopPoints
      /\ \A u \in Trajectories \ {t} : flow'[u] = flow[u]
  BY <1>1, FlowStepFacts
<1>3. \A u \in Trajectories : ~ (flow[u].pc \in LoopPoints) => flow'[u] = flow[u]
  BY <1>2
<1>4. \A u \in Trajectories : /\ flow[u].pc = "idle" => flow'[u].pc = "idle"
                              /\ flow[u].pc = "finished" => flow'[u].pc = "finished"
  BY <1>3 DEF LoopPoints
<1>5. prompts' = prompts /\ manager' = manager /\ worker' = worker /\ awake' = awake
  BY <1>1 DEF rolloutVars
<1>6. WorkerShape' /\ PromptShape' /\ AwakeUntilReturn' /\ WaitsForAll'
  BY <1>5, PromptsKept DEF RInv, WorkerShape, AwakeUntilReturn, WaitsForAll
<1>7. OnlyAskedRun'
  <2>1. \A u \in Trajectories \ Asked : flow'[u].pc = "idle"
    BY <1>4 DEF RInv, OnlyAskedRun, At
  <2>2. Asked' = Asked
    BY <1>5, PromptsKept
  <2>3. manager # "idle"
    BY <1>2 DEF RInv, OnlyAskedRun, At, LoopPoints
  <2>4. QED
    BY <2>1, <2>2, <2>3, <1>5 DEF OnlyAskedRun, At
<1>8. CollectedIsFinished'
  BY <1>4, <1>5, PromptsKept DEF RInv, CollectedIsFinished, PromptShape, At
<1>9. ReturnedIsFinished'
  <2>1. SUFFICES ASSUME NEW w \in Workers, worker[w] = "returned", NEW i \in DOMAIN Chunk(w)
                 PROVE  At(Chunk(w)[i], "finished")'
    BY <1>5, PromptsKept DEF ReturnedIsFinished
  <2>2. At(Chunk(w)[i], "finished")
    BY <2>1 DEF RInv, ReturnedIsFinished
  <2>3. flow[t].pc # "finished"
    BY <1>2 DEF LoopPoints
  <2>4. CASE Chunk(w)[i] \in Trajectories
    BY <2>2, <2>4, <1>4, <1>5, PromptsKept DEF At
  <2>5. CASE Chunk(w)[i] \notin Trajectories
    BY <2>1, <2>5, ChunkAsked DEF RInv, PromptShape
  <2>6. QED
    BY <2>4, <2>5
<1>10. QED
  BY <1>2, <1>5, <1>6, <1>7, <1>8, <1>9 DEF RInv

(* The dispatch wakes the engines before the first loop starts. *)
LEMMA StartRolloutRInv ==
  ASSUME RInv, StartRollout
  PROVE  RInv'
<1>1. prompts' = prompts
  BY DEF StartRollout
<1>2. Asked' = Asked /\ NumChunks' = NumChunks /\ PromptShape'
      /\ \A w : Chunk(w)' = Chunk(w)
  BY <1>1, PromptsKept DEF RInv
<1>3. manager = "idle" /\ \A t \in Trajectories : flow[t].pc = "idle"
  BY DEF StartRollout, RInv, OnlyAskedRun, At
<1>4. flow' = [t \in Trajectories |->
                IF t \in Asked THEN StartFlow(flow[t]) ELSE flow[t]]
  <2>1. Len(GenBatch) \in Nat
    BY AskedCount DEF RInv
  <2>2. DOMAIN GenBatch = Asked
    <3> DEFINE n == Len(prompts) * RolloutN
    <3>1. n \in Nat
      BY RolloutAssumption DEF RInv, PromptShape
    <3> HIDE DEF n
    <3>2. DOMAIN GenBatch = 1 .. n /\ Len(GenBatch) = n
      BY <3>1 DEF GenBatch, Repeat, n
    <3>3. QED
      BY <3>2 DEF Asked
  <2>3. QED
    BY <2>2 DEF StartRollout
<1>5. FlowShape'
  BY <1>4 DEF RInv, FlowShape, StartFlow, PCs, LoopPoints
<1>6. \A t \in Trajectories \ Asked : flow'[t].pc = "idle"
  BY <1>3, <1>4
<1>7. manager' \in {"waiting", "raised"} /\ awake' = {"rollout", "reward"}
      /\ (manager' = "waiting" => NumChunks = NumWorkers)
  BY DEF StartRollout
<1>8. worker' \in [Workers -> {"running", "idle"}]
  BY DEF StartRollout
<1>9. QED
  BY <1>2, <1>5, <1>6, <1>7, <1>8 DEF RInv, OnlyAskedRun, AwakeUntilReturn,
     WaitsForAll, CollectedIsFinished, ReturnedIsFinished, WorkerShape, At

(* A worker returns only when all its loops have finished. *)
LEMMA WorkerStepRInv ==
  ASSUME RInv, NEW w \in Workers, WorkerStep(w)
  PROVE  RInv'
<1>1. /\ flow' = flow /\ prompts' = prompts /\ manager' = manager /\ awake' = awake
      /\ worker[w] = "running"
      /\ \E s \in {"raised", "returned"} : worker' = [worker EXCEPT ![w] = s]
      /\ worker'[w] = "returned" => \A i \in DOMAIN Chunk(w) : flow[Chunk(w)[i]].pc = "finished"
  BY DEF WorkerStep, WorkerReturns, WorkerRaises, At, RInv, WorkerShape
<1>2. Asked' = Asked /\ NumChunks' = NumChunks /\ PromptShape'
      /\ \A v : Chunk(v)' = Chunk(v)
  BY <1>1, PromptsKept DEF RInv
<1>3. WorkerShape'
  BY <1>1 DEF RInv, WorkerShape
<1>4. ReturnedIsFinished'
  <2>1. SUFFICES ASSUME NEW v \in Workers, worker'[v] = "returned", NEW i \in DOMAIN Chunk(v)
                 PROVE  flow[Chunk(v)[i]].pc = "finished"
    BY <1>1, <1>2 DEF ReturnedIsFinished, At
  <2>2. CASE v = w
    BY <2>1, <2>2, <1>1
  <2>3. CASE v # w
    BY <2>1, <2>3, <1>1 DEF RInv, ReturnedIsFinished, At, WorkerShape
  <2>4. QED
    BY <2>2, <2>3
<1>5. manager # "idle"
  BY <1>1 DEF RInv, OnlyAskedRun
<1>6. FlowShape' /\ OnlyAskedRun' /\ AwakeUntilReturn' /\ WaitsForAll' /\ CollectedIsFinished'
  BY <1>1, <1>2, <1>5 DEF RInv, FlowShape, OnlyAskedRun, AwakeUntilReturn, WaitsForAll,
     CollectedIsFinished, At
<1>7. QED
  BY <1>1, <1>2, <1>3, <1>4, <1>6 DEF RInv

(* The manager collects only when every loop of every worker has finished, *)
(* and puts the engines to sleep only after that.                          *)
LEMMA ManagerRInv ==
  ASSUME RInv, CollectOutputs \/ GetRaises \/ TeacherRaises \/ ReturnOutput \/ AlignBatch
  PROVE  RInv'
<1>1. flow' = flow /\ prompts' = prompts /\ worker' = worker
  BY DEF CollectOutputs, GetRaises, TeacherRaises, ReturnOutput, AlignBatch
<1>2. Asked' = Asked /\ NumChunks' = NumChunks /\ PromptShape'
      /\ \A v : Chunk(v)' = Chunk(v)
  BY <1>1, PromptsKept DEF RInv
<1>3. FlowShape' /\ WorkerShape' /\ ReturnedIsFinished'
  BY <1>1, <1>2 DEF RInv, FlowShape, WorkerShape, ReturnedIsFinished, At
<1>4. manager' \in {"collected", "raised", "returned", "aligned"}
  BY DEF CollectOutputs, GetRaises, TeacherRaises, ReturnOutput, AlignBatch
<1>5. OnlyAskedRun' /\ WaitsForAll'
  BY <1>1, <1>2, <1>4 DEF RInv, OnlyAskedRun, WaitsForAll, At
<1>6. AwakeUntilReturn'
  BY DEF RInv, AwakeUntilReturn, CollectOutputs, GetRaises, TeacherRaises,
     ReturnOutput, AlignBatch
<1>7. CollectedIsFinished'
  <2>1. CASE CollectOutputs
    <3>1. NumChunks = NumWorkers /\ \A w \in Workers : worker[w] = "returned"
      BY <2>1 DEF CollectOutputs, RInv, WaitsForAll
    <3>2. \A t \in Asked : flow[t].pc = "finished"
      BY <3>1, ChunksCover DEF RInv, ReturnedIsFinished, At
    <3>3. QED
      BY <3>2, <1>1, <1>2 DEF CollectedIsFinished, At
  <2>2. CASE GetRaises \/ TeacherRaises
    BY <2>2 DEF GetRaises, TeacherRaises, CollectedIsFinished
  <2>3. CASE ReturnOutput \/ AlignBatch
    <3>1. \A t \in Asked : flow[t].pc = "finished"
      BY <2>3 DEF ReturnOutput, AlignBatch, RInv, CollectedIsFinished, At
    <3>2. QED
      BY <3>1, <1>1, <1>2 DEF CollectedIsFinished, At
  <2>4. QED
    BY <2>1, <2>2, <2>3
<1>8. QED
  BY <1>2, <1>3, <1>4, <1>5, <1>6, <1>7 DEF RInv

LEMMA StutterRInv ==
  ASSUME RInv, UNCHANGED vars
  PROVE  RInv'
<1>1. prompts' = prompts /\ flow' = flow /\ manager' = manager /\ worker' = worker
      /\ awake' = awake
  BY DEF vars, rolloutVars
<1>2. Asked' = Asked /\ NumChunks' = NumChunks /\ PromptShape'
      /\ \A v : Chunk(v)' = Chunk(v)
  BY <1>1, PromptsKept DEF RInv
<1>3. QED
  BY <1>1, <1>2 DEF RInv, FlowShape, WorkerShape, OnlyAskedRun, AwakeUntilReturn,
     ReturnedIsFinished, WaitsForAll, CollectedIsFinished, At

LEMMA NextRInv == RInv /\ [Next]_vars => RInv'
<1> SUFFICES ASSUME RInv, [Next]_vars PROVE RInv'
  OBVIOUS
<1>1. ASSUME NEW t \in Trajectories, RunFlow(t) PROVE RInv'
  BY <1>1, RunFlowRInv
<1>2. ASSUME NEW w \in Workers, WorkerStep(w) PROVE RInv'
  BY <1>2, WorkerStepRInv
<1>3. CASE ManagerStep
  BY <1>3, StartRolloutRInv, ManagerRInv DEF ManagerStep
<1>4. CASE UNCHANGED vars
  BY <1>4, StutterRInv
<1>5. QED
  BY <1>1, <1>2, <1>3, <1>4 DEF Next

-----------------------------------------------------------------------------
(* The invariant of the output *)

OutputRight ==
  manager \in {"collected", "returned", "aligned"} => RowsJoined /\ LengthsRight

(* The batch is the output with the uids of the prompts. *)
BatchRight ==
  /\ manager # "aligned" => batch = <<>>
  /\ manager = "aligned" =>
       /\ DOMAIN batch = DOMAIN output.rows
       /\ \A r \in DOMAIN batch :
            LET row == output.rows[r] IN
            /\ batch[r].uid = GenBatch[row.from]
            /\ batch[r].trajectory = row.trajectory /\ batch[r].index = row.index
            /\ batch[r].from = row.from /\ batch[r].step = row.step

EInv == RInv /\ FlowsRight /\ OutputRight /\ BatchRight

(* What the output holds of the steps only depends on those asked for. *)
LEMMA OutputKept ==
  ASSUME prompts' = prompts, PromptShape, \A u \in Asked : flow'[u] = flow[u], output' = output,
         RowsJoined, LengthsRight
  PROVE  RowsJoined' /\ LengthsRight'
<1>1. GenBatch' = GenBatch /\ Asked' = Asked /\ SplitSize' = SplitSize
  BY PromptsKept
<1>2. \A t : WorkerOf(t)' = WorkerOf(t) /\ IndexIn(t)' = IndexIn(t)
  BY <1>1 DEF WorkerOf, IndexIn
<1>3. RowsOf' = RowsOf
  BY <1>1, <1>2 DEF RowsOf
<1>4. RowsJoined'
  BY <1>1, <1>3 DEF RowsJoined, Row, Step
<1>5. LengthsRight'
  BY <1>1 DEF LengthsRight
<1>6. QED
  BY <1>4, <1>5

LEMMA InitEInv == Init => EInv
<1> SUFFICES ASSUME Init PROVE EInv
  OBVIOUS
<1>1. RInv
  BY InitRInv
<1>2. FlowRight(IdleFlow)
  <2>1. NoStep \in Step /\ ~ NoStep.done
    BY DEF NoStep, Step
  <2>2. <<>> \in Seq(Step) /\ Len(<<>>) = 0 /\ 0 <= MaxSteps /\ 0 \in Nat
    BY LoopAssumption
  <2>3. IdleFlow.pc = "idle" /\ IdleFlow.steps = <<>> /\ IdleFlow.pending = NoStep
        /\ IdleFlow \in [pc : PCs, steps : Seq(Step), pending : Step, time : Nat]
    BY <2>1, <2>2 DEF IdleFlow, PCs
  <2>4. QED
    BY <2>1, <2>2, <2>3 DEF FlowRight, LoopPoints
<1>3. FlowsRight
  BY <1>2 DEF Init, FlowsRight
<1>4. OutputRight /\ BatchRight
  BY DEF Init, OutputRight, BatchRight
<1>5. QED
  BY <1>1, <1>3, <1>4 DEF EInv

LEMMA RunFlowEInv ==
  ASSUME EInv, NEW t \in Trajectories, RunFlow(t)
  PROVE  EInv'
<1>1. UNCHANGED rolloutVars /\ FlowShape /\ FlowStep(t) /\ RInv /\ FlowsRight
  BY DEF RunFlow, EInv, RInv
<1>2. RInv' /\ FlowsRight'
  BY <1>1, RunFlowRInv, FlowStepRight
<1>3. flow[t].pc \in LoopPoints /\ \A u \in Trajectories \ {t} : flow'[u] = flow[u]
  BY <1>1, FlowStepFacts
<1>4. /\ prompts' = prompts /\ manager' = manager /\ output' = output /\ batch' = batch
      /\ GenBatch' = GenBatch
  BY <1>1, PromptsKept DEF rolloutVars
<1>5. OutputRight'
  <2>1. SUFFICES ASSUME manager \in {"collected", "returned", "aligned"}
                 PROVE  RowsJoined' /\ LengthsRight'
    BY <1>4 DEF OutputRight
  <2>2. \A u \in Asked : flow'[u] = flow[u]
    BY <1>1, <1>3, <2>1 DEF RInv, CollectedIsFinished, At, LoopPoints, PromptShape
  <2>3. RowsJoined /\ LengthsRight /\ PromptShape
    BY <2>1, <1>1 DEF EInv, OutputRight, RInv
  <2>4. QED
    BY <1>4, <2>2, <2>3, OutputKept
<1>6. BatchRight'
  BY <1>4 DEF EInv, BatchRight
<1>7. QED
  BY <1>2, <1>5, <1>6 DEF EInv

LEMMA StartRolloutEInv ==
  ASSUME EInv, StartRollout
  PROVE  EInv'
<1>1. RInv'
  BY StartRolloutRInv DEF EInv
<1>2. \A t \in Trajectories : flow[t].pc = "idle" /\ FlowRight(flow[t])
  BY DEF StartRollout, EInv, RInv, OnlyAskedRun, At, FlowsRight
<1>3. ASSUME NEW f, FlowRight(f), f.pc = "idle" PROVE FlowRight(StartFlow(f))
  <2>1. f.steps = <<>> /\ Len(f.steps) < MaxSteps
    BY <1>3, LoopAssumption DEF FlowRight
  <2>2. LoopGoesOn(f.steps)
    BY <2>1 DEF LoopGoesOn
  <2>3. StartFlow(f) \in [pc : PCs, steps : Seq(Step), pending : Step, time : Nat]
        /\ StartFlow(f).steps = f.steps /\ StartFlow(f).pending = f.pending
        /\ StartFlow(f).pc = "prompting"
    BY <1>3 DEF FlowRight, StartFlow, PCs, LoopPoints
  <2>4. QED
    BY <1>3, <2>2, <2>3 DEF FlowRight
<1>4. FlowsRight'
  BY <1>2, <1>3 DEF StartRollout, FlowsRight
<1>5. manager = "idle" /\ manager' \in {"waiting", "raised"} /\ batch' = batch
  BY DEF StartRollout
<1>6. OutputRight' /\ BatchRight'
  BY <1>5 DEF EInv, OutputRight, BatchRight
<1>7. QED
  BY <1>1, <1>4, <1>6 DEF EInv

LEMMA WorkerStepEInv ==
  ASSUME EInv, NEW w \in Workers, WorkerStep(w)
  PROVE  EInv'
<1>1. RInv'
  BY WorkerStepRInv DEF EInv
<1>2. /\ flow' = flow /\ prompts' = prompts /\ manager' = manager /\ output' = output
      /\ batch' = batch /\ GenBatch' = GenBatch /\ PromptShape
  BY PromptsKept DEF WorkerStep, WorkerReturns, WorkerRaises, EInv, RInv
<1>3. FlowsRight' /\ BatchRight'
  BY <1>2 DEF EInv, FlowsRight, BatchRight
<1>4. OutputRight'
  BY <1>2, OutputKept DEF EInv, OutputRight
<1>5. QED
  BY <1>1, <1>3, <1>4 DEF EInv

LEMMA ManagerEInv ==
  ASSUME EInv, CollectOutputs \/ GetRaises \/ TeacherRaises \/ ReturnOutput \/ AlignBatch
  PROVE  EInv'
<1>1. RInv /\ RInv'
  BY ManagerRInv DEF EInv
<1>2. flow' = flow /\ prompts' = prompts /\ GenBatch' = GenBatch /\ PromptShape /\ Asked' = Asked
  BY PromptsKept DEF CollectOutputs, GetRaises, TeacherRaises, ReturnOutput, AlignBatch, EInv, RInv
<1>3. FlowsRight /\ FlowsRight'
  BY <1>2 DEF EInv, FlowsRight
<1>4. CASE CollectOutputs
  <2>1. NumChunks = NumWorkers
    BY <1>1, <1>4 DEF CollectOutputs, RInv, WaitsForAll
  <2>2. /\ output'.rows = Concat([w \in Workers |-> WorkerRows(w)])
        /\ output'.numSteps = Concat([w \in Workers |-> WorkerNumSteps(w)])
        /\ manager' = "collected" /\ manager = "waiting" /\ batch' = batch
    BY <1>4 DEF CollectOutputs
  <2>3. /\ output'.rows \in Seq(Row)
        /\ \E off : Joined(output'.rows, 0, Len(GenBatch), RowsOf, off)
        /\ output'.numSteps \in Seq(Nat) /\ Len(output'.numSteps) = Len(GenBatch)
        /\ \A t \in Asked : output'.numSteps[t] = Len(flow[t].steps)
    BY <1>2, <1>3, <2>1, <2>2, CollectedRight
  <2>4. RowsOf' = RowsOf
    <3>1. SplitSize' = SplitSize
      BY <1>2, PromptsKept
    <3>2. QED
      BY <1>2, <3>1 DEF RowsOf, WorkerOf, IndexIn
  <2>5. RowsJoined'
    BY <1>2, <2>3, <2>4 DEF RowsJoined, Row, Step
  <2>6. LengthsRight'
    BY <1>2, <2>3 DEF LengthsRight
  <2>7. BatchRight'
    BY <2>2 DEF EInv, BatchRight
  <2>8. QED
    BY <1>1, <1>3, <2>5, <2>6, <2>7 DEF EInv, OutputRight
<1>5. CASE GetRaises \/ TeacherRaises
  <2>1. manager' = "raised" /\ manager # "aligned" /\ batch' = batch
    BY <1>5 DEF GetRaises, TeacherRaises
  <2>2. QED
    BY <1>1, <1>3, <2>1 DEF EInv, OutputRight, BatchRight
<1>6. CASE ReturnOutput
  <2>1. output' = output /\ manager' = "returned" /\ manager = "collected" /\ batch' = batch
    BY <1>6 DEF ReturnOutput
  <2>2. OutputRight'
    BY <1>2, <2>1, OutputKept DEF EInv, OutputRight
  <2>3. QED
    BY <1>1, <1>3, <2>1, <2>2 DEF EInv, BatchRight
<1>7. CASE AlignBatch
  <2>1. output' = output /\ manager' = "aligned" /\ manager = "returned"
    BY <1>7 DEF AlignBatch
  <2>2. RowsJoined /\ LengthsRight
    BY <2>1 DEF EInv, OutputRight
  <2>3. OutputRight'
    BY <1>2, <2>1, <2>2, OutputKept DEF OutputRight
  <2> DEFINE uids == SampleLevelRepeat(TrainerBatch, output.numSteps)
  <2>4. batch' = [r \in DOMAIN output.rows |->
                  [uid |-> uids[r], trajectory |-> output.rows[r].trajectory,
                   index |-> output.rows[r].index, from |-> output.rows[r].from,
                   step |-> output.rows[r].step]]
    BY <1>7 DEF AlignBatch
  <2>5. \A r \in DOMAIN output.rows : uids[r] = GenBatch[output.rows[r].from]
    BY <1>2, <1>3, <2>2, UidsRight
  <2> HIDE DEF uids
  <2>6. BatchRight'
    BY <1>2, <2>1, <2>4, <2>5 DEF BatchRight
  <2>7. QED
    BY <1>1, <1>3, <2>3, <2>6 DEF EInv
<1>8. QED
  BY <1>4, <1>5, <1>6, <1>7

LEMMA NextEInv == EInv /\ [Next]_vars => EInv'
<1> SUFFICES ASSUME EInv, [Next]_vars PROVE EInv'
  OBVIOUS
<1>1. ASSUME NEW t \in Trajectories, RunFlow(t) PROVE EInv'
  BY <1>1, RunFlowEInv
<1>2. ASSUME NEW w \in Workers, WorkerStep(w) PROVE EInv'
  BY <1>2, WorkerStepEInv
<1>3. CASE ManagerStep
  BY <1>3, StartRolloutEInv, ManagerEInv DEF ManagerStep
<1>4. CASE UNCHANGED vars
  <2>1. /\ flow' = flow /\ prompts' = prompts /\ manager' = manager /\ output' = output
        /\ batch' = batch
    BY <1>4 DEF vars, rolloutVars
  <2>2. RInv' /\ PromptShape /\ GenBatch' = GenBatch
    BY <1>4, <2>1, StutterRInv, PromptsKept DEF EInv, RInv
  <2>3. FlowsRight' /\ BatchRight'
    BY <2>1, <2>2 DEF EInv, FlowsRight, BatchRight
  <2>4. OutputRight'
    BY <2>1, <2>2, OutputKept DEF EInv, OutputRight
  <2>5. QED
    BY <2>2, <2>3, <2>4 DEF EInv
<1>5. QED
  BY <1>1, <1>2, <1>3, <1>4 DEF Next

(* Row r of the batch is step k of trajectory t. *)
IsStep(r, t, k) ==
  /\ batch[r].trajectory = <<WorkerOf(t), IndexIn(t)>> /\ batch[r].index = k - 1
  /\ batch[r].from = t /\ batch[r].step = flow[t].steps[k]

(* The batch holds the steps trajectory after trajectory, those of t after *)
(* off[t - 1].                                                             *)
BatchJoined(off) ==
  /\ off \in [0 .. Len(GenBatch) -> Nat]
  /\ \A t \in Asked : \A k \in 1 .. Len(flow[t].steps) :
       off[t - 1] + k \in DOMAIN batch /\ IsStep(off[t - 1] + k, t, k)
  /\ \A r \in DOMAIN batch : r \in Nat /\
       \E t \in Asked : \E k \in 1 .. Len(flow[t].steps) : r = off[t - 1] + k /\ IsStep(r, t, k)

LEMMA AlignedJoined ==
  ASSUME EInv, manager = "aligned"
  PROVE  \E off : BatchJoined(off)
<1> DEFINE L == Len(GenBatch)
           rows == output.rows
<1>1. /\ RowsJoined /\ PromptShape /\ FlowsRight /\ DOMAIN batch = DOMAIN rows
      /\ \A r \in DOMAIN batch :
            /\ batch[r].trajectory = rows[r].trajectory /\ batch[r].index = rows[r].index
            /\ batch[r].from = rows[r].from /\ batch[r].step = rows[r].step
  BY DEF EInv, OutputRight, BatchRight, RInv
<1>2. L \in Nat /\ Asked = 1 .. L
  BY <1>1, AskedCount DEF Asked
<1>3. PICK off : Joined(rows, 0, L, RowsOf, off)
  BY <1>1 DEF RowsJoined
<1>4. rows \in Seq(Row) /\ DOMAIN rows = 1 .. Len(rows)
  BY <1>1 DEF RowsJoined
<1> HIDE DEF rows, L
<1>5. ASSUME NEW t \in Asked, NEW k \in 1 .. Len(flow[t].steps), NEW r \in DOMAIN batch,
             rows[r] = RowsOf[t][k]
      PROVE  IsStep(r, t, k)
  <2>1. RowsOf[t][k] = [trajectory |-> <<WorkerOf(t), IndexIn(t)>>, index |-> k - 1,
                        from |-> t, step |-> flow[t].steps[k]]
    BY <1>1, RowsOfShape
  <2>2. QED
    BY <1>1, <1>5, <2>1 DEF IsStep
<1>6. \A t \in Asked : Len(RowsOf[t]) = Len(flow[t].steps) /\ Len(flow[t].steps) \in Nat
  BY <1>1, RowsOfShape
<1>7. ASSUME NEW t \in Asked, NEW k \in 1 .. Len(flow[t].steps)
      PROVE  off[t - 1] + k \in DOMAIN batch /\ IsStep(off[t - 1] + k, t, k)
  <2>1. off[t - 1] + k \in 1 .. Len(rows) /\ rows[off[t - 1] + k] = RowsOf[t][k]
    <3>1. PieceAt(t, rows, RowsOf, off)
      BY <1>2, <1>3, JoinedPiece
    <3>2. QED
      BY <3>1, <1>6 DEF PieceAt
  <2>2. off[t - 1] + k \in DOMAIN batch
    BY <1>1, <1>4, <2>1
  <2>3. QED
    BY <1>5, <2>1, <2>2
<1>8. ASSUME NEW r \in DOMAIN batch
      PROVE  r \in Nat /\
             \E t \in Asked : \E k \in 1 .. Len(flow[t].steps) : r = off[t - 1] + k /\ IsStep(r, t, k)
  <2>1. r \in 1 .. Len(rows) /\ r \in Nat
    BY <1>1, <1>4
  <2>2. InPiece(r, rows, L, RowsOf, off)
    BY <1>2, <1>3, <2>1, JoinedRow
  <2>3. PICK t \in 1 .. L : \E k \in 1 .. Len(RowsOf[t]) : r = off[t - 1] + k /\ rows[r] = RowsOf[t][k]
    BY <2>2 DEF InPiece
  <2>4. PICK k \in 1 .. Len(RowsOf[t]) : r = off[t - 1] + k /\ rows[r] = RowsOf[t][k]
    BY <2>3
  <2>5. t \in Asked /\ k \in 1 .. Len(flow[t].steps)
    BY <1>2, <1>6, <2>3, <2>4
  <2>6. IsStep(r, t, k)
    BY <1>5, <2>4, <2>5
  <2>7. QED
    BY <2>1, <2>4, <2>5, <2>6
<1>9. off \in [0 .. L -> Nat]
  BY <1>3 DEF Joined
<1>10. BatchJoined(off)
  BY <1>7, <1>8, <1>9 DEF BatchJoined, L
<1>11. QED
  BY <1>10

(* The trajectory uid tells the trajectories apart. *)
LEMMA UidsDiffer ==
  ASSUME PromptShape, NEW t \in Asked, NEW u \in Asked,
         WorkerOf(t) = WorkerOf(u), IndexIn(t) = IndexIn(u)
  PROVE  t = u
<1>1. t \in Int /\ u \in Int /\ Len(GenBatch) \in Nat \ {0} /\ NumWorkers \in Nat \ {0}
  BY AskedCount, RolloutAssumption DEF Asked
<1>2. SplitSize \in Nat \ {0}
  BY <1>1 DEF SplitSize
<1>3. WorkerOf(u) \in Int
  BY <1>1, <1>2 DEF WorkerOf
<1>4. (WorkerOf(u) - 1) * SplitSize \in Int
  BY <1>2, <1>3
<1>5. t - (WorkerOf(u) - 1) * SplitSize = u - (WorkerOf(u) - 1) * SplitSize
  BY DEF IndexIn
<1>6. QED
  BY <1>1, <1>4, <1>5

-----------------------------------------------------------------------------
(* The validation *)

RowOf(t, k) == [trajectory |-> <<WorkerOf(t), IndexIn(t)>>, index |-> k - 1,
                from |-> t, step |-> flow[t].steps[k]]

(* What is dumped of step k of trajectory t. *)
DumpOf(t, k) == [uid |-> GenBatch[t], index |-> k - 1, row |-> RowOf(t, k)]

DumpedStep == [uid : Nat \ {0}, index : Int, row : Row]

DumpsOf == [t \in Asked |-> [k \in 1 .. Len(flow[t].steps) |-> DumpOf(t, k)]]

(* What is known of the output and of the flows when the validation counts. *)
Counted(off) ==
  /\ off \in [0 .. Len(GenBatch) -> Nat] /\ off[0] = 0 /\ off[Len(GenBatch)] = Len(output.rows)
  /\ \A t \in Asked :
       /\ off[t] = off[t - 1] + Len(flow[t].steps)
       /\ StartOf(t) = off[t - 1] /\ off[t - 1] <= Len(output.rows) /\ off[t] <= Len(output.rows)
       /\ \A k \in 1 .. Len(flow[t].steps) :
            /\ off[t - 1] + k \in 1 .. Len(output.rows)
            /\ output.rows[off[t - 1] + k] = RowOf(t, k)

OutputKnown == FlowsRight /\ PromptShape /\ RowsJoined /\ LengthsRight

LEMMA CountedRows ==
  ASSUME OutputKnown
  PROVE  \E off : Counted(off) /\ Joined(output.rows, 0, Len(GenBatch), RowsOf, off)
<1> DEFINE L == Len(GenBatch)
           q == output.rows
<1> USE DEF OutputKnown
<1>1. L \in Nat /\ Asked = 1 .. L
  BY AskedCount DEF Asked
<1>2. PICK off : Joined(q, 0, L, RowsOf, off)
  BY DEF RowsJoined
<1>3. off \in [0 .. L -> Nat] /\ off[0] = 0 /\ off[L] = Len(q)
  BY <1>2 DEF Joined
<1>4. ASSUME NEW t \in Asked
      PROVE  /\ off[t] = off[t - 1] + Len(flow[t].steps)
             /\ StartOf(t) = off[t - 1] /\ off[t - 1] <= Len(q) /\ off[t] <= Len(q)
             /\ \A k \in 1 .. Len(flow[t].steps) :
                  off[t - 1] + k \in 1 .. Len(q) /\ q[off[t - 1] + k] = RowOf(t, k)
  <2> DEFINE n == Len(flow[t].steps)
  <2>1. t \in 1 .. L /\ t \in 0 + 1 .. L /\ t - 1 \in 0 .. L /\ 0 \in Int /\ L \in Int
    BY <1>1
  <2>2. n \in Nat /\ Len(RowsOf[t]) = n /\ \A k \in 1 .. n : RowsOf[t][k] = RowOf(t, k)
    <3>1. /\ flow[t].steps \in Seq(Step) /\ Len(RowsOf[t]) = Len(flow[t].steps)
          /\ \A k \in 1 .. Len(flow[t].steps) :
              RowsOf[t][k] = [trajectory |-> <<WorkerOf(t), IndexIn(t)>>, index |-> k - 1,
                              from |-> t, step |-> flow[t].steps[k]]
      BY RowsOfShape
    <3>2. QED
      BY <3>1 DEF RowOf
  <2>3. /\ off[t - 1] \in Nat /\ off[t] \in Nat
        /\ off[t] = off[t - 1] + Len(RowsOf[t]) /\ off[t] <= Len(q)
        /\ \A k \in 1 .. Len(RowsOf[t]) : off[t - 1] + k \in 1 .. Len(q)
                                          /\ q[off[t - 1] + k] = RowsOf[t][k]
    <3> HIDE DEF q, L
    <3>1. PieceAt(t, q, RowsOf, off)
      BY <1>1, <1>2, <2>1, JoinedPiece
    <3>2. QED
      BY <3>1 DEF PieceAt
  <2>4. StartOf(t) = off[t - 1]
    <3>1. /\ output.numSteps \in Seq(Nat) /\ Len(output.numSteps) = L
          /\ \A u \in 1 .. L : output.numSteps[u] = Len(RowsOf[u])
      BY <1>1, RowsOfShape DEF LengthsRight
    <3>2. SumSeq(SubSeq(output.numSteps, 1, t - 1)) = off[t - 1]
      <4> HIDE DEF q, L
      <4> QED BY <1>1, <1>2, <2>1, <3>1, SumIsOffset
    <3>3. QED
      BY <3>2 DEF StartOf
  <2>5. Len(q) \in Nat
    BY DEF RowsJoined
  <2> HIDE DEF n, q
  <2>6. off[t] = off[t - 1] + n /\ off[t] <= Len(q)
    BY <2>2, <2>3
  <2>7. off[t - 1] <= Len(q)
    <3> HIDE DEF OutputKnown
    <3> QED BY <2>2, <2>3, <2>5, <2>6
  <2>8. \A k \in 1 .. n : off[t - 1] + k \in 1 .. Len(q) /\ q[off[t - 1] + k] = RowOf(t, k)
    BY <2>2, <2>3
  <2>9. QED
    <3> HIDE DEF OutputKnown
    <3> QED BY <2>4, <2>6, <2>7, <2>8 DEF n
<1>5. Counted(off)
  <2> HIDE DEF OutputKnown
  <2> QED BY <1>3, <1>4 DEF Counted
<1>6. QED
  BY <1>2, <1>5

(* The steps are dumped trajectory after trajectory. *)
DumpedAt(off) ==
  /\ DumpedSteps \in Seq(DumpedStep) /\ Len(DumpedSteps) = Len(output.rows)
  /\ \A t \in Asked : \A k \in 1 .. Len(flow[t].steps) :
       /\ off[t - 1] + k \in DOMAIN DumpedSteps
       /\ DumpedSteps[off[t - 1] + k] = DumpOf(t, k)
  /\ \A p \in DOMAIN DumpedSteps : \E t \in Asked : \E k \in 1 .. Len(flow[t].steps) :
       p = off[t - 1] + k /\ DumpedSteps[p] = DumpOf(t, k)

LEMMA DumpJoins ==
  ASSUME OutputKnown
  PROVE  \E off : Counted(off) /\ DumpedAt(off)
<1> DEFINE L == Len(GenBatch)
<1>1. L \in Nat /\ Asked = 1 .. L /\ FlowsRight /\ PromptShape
  BY AskedCount DEF Asked, OutputKnown
<1>2. PICK off : Counted(off) /\ Joined(output.rows, 0, L, RowsOf, off)
  BY CountedRows
<1>3. \A t \in Asked : /\ Len(flow[t].steps) \in Nat /\ Len(RowsOf[t]) = Len(flow[t].steps)
                       /\ output.numSteps[t] = Len(flow[t].steps)
                       /\ TrainerBatch[t] = GenBatch[t] /\ GenBatch[t] \in Nat \ {0}
  <2>1. \A t \in Asked : flow[t].steps \in Seq(Step) /\ Len(RowsOf[t]) = Len(flow[t].steps)
    BY <1>1, RowsOfShape
  <2>2. GenBatch \in Seq(Nat \ {0}) /\ DOMAIN GenBatch = Asked /\ TrainerBatch = GenBatch
    BY <1>1, GenBatchShape
  <2>3. QED
    BY <2>1, <2>2 DEF OutputKnown, LengthsRight
<1>4. ASSUME NEW t \in Asked, NEW k \in 1 .. Len(flow[t].steps)
      PROVE  DumpOf(t, k) \in DumpedStep
  <2>1. RowsOf[t] \in Seq(Row) /\ Len(RowsOf[t]) = Len(flow[t].steps) /\ RowsOf[t][k] = RowOf(t, k)
    BY <1>1, RowsOfShape DEF RowOf
  <2>2. RowOf(t, k) \in Row
    BY <1>3, <2>1
  <2>3. k - 1 \in Int /\ GenBatch[t] \in Nat \ {0}
    BY <1>3
  <2>4. QED
    BY <2>2, <2>3 DEF DumpOf, DumpedStep
<1>5. DumpedSteps = FlattenSeq(DumpsOf)
  <2> DEFINE piece(t) == [k \in 1 .. output.numSteps[t] |->
                  [uid |-> TrainerBatch[t], index |-> k - 1, row |-> output.rows[StartOf(t) + k]]]
  <2>1. ASSUME NEW t \in Asked PROVE piece(t) = DumpsOf[t]
    <3>1. output.numSteps[t] = Len(flow[t].steps) /\ TrainerBatch[t] = GenBatch[t]
      BY <1>3
    <3>2. \A k \in 1 .. Len(flow[t].steps) : output.rows[StartOf(t) + k] = RowOf(t, k)
      BY <1>2 DEF Counted
    <3>3. QED
      BY <3>1, <3>2 DEF DumpsOf, DumpOf
  <2>2. DOMAIN output.numSteps = Asked
    BY <1>1 DEF OutputKnown, LengthsRight
  <2>3. DumpsOf = [t \in Asked |-> DumpsOf[t]]
    BY DEF DumpsOf
  <2>4. DumpedSteps = FlattenSeq([t \in DOMAIN output.numSteps |-> piece(t)])
    BY DEF DumpedSteps
  <2> HIDE DEF piece
  <2>5. [t \in Asked |-> piece(t)] = [t \in Asked |-> DumpsOf[t]]
    BY <2>1
  <2>6. QED
    BY <2>2, <2>3, <2>4, <2>5
<1>6. \A t \in Asked : /\ DumpsOf[t] \in Seq(DumpedStep) /\ Len(DumpsOf[t]) = Len(flow[t].steps)
                       /\ \A k \in 1 .. Len(flow[t].steps) : DumpsOf[t][k] = DumpOf(t, k)
  <2>1. TAKE t \in Asked
  <2> DEFINE n == Len(flow[t].steps)
  <2>2. DumpsOf[t] = [k \in 1 .. n |-> DumpOf(t, k)] /\ n \in Nat
    BY <1>3 DEF DumpsOf
  <2>3. \A k \in 1 .. n : DumpOf(t, k) \in DumpedStep
    BY <1>4
  <2> HIDE DEF n
  <2>4. QED
    BY <2>2, <2>3 DEF n
<1>7. DumpsOf \in [1 .. L -> Seq(DumpedStep)]
  <2>1. DumpsOf = [t \in Asked |-> DumpsOf[t]]
    BY DEF DumpsOf
  <2>2. QED
    BY <1>1, <1>6, <2>1
<1> HIDE DEF L
<1>8. DumpedSteps \in Seq(DumpedStep) /\ \E g : Joined(DumpedSteps, 0, L, DumpsOf, g)
  BY <1>1, <1>5, <1>7, FlattenJoins
<1>9. PICK g : Joined(DumpedSteps, 0, L, DumpsOf, g)
  BY <1>8
<1>10. g = off
  <2>1. 0 \in Int /\ L \in Int /\ 0 <= L /\ \A t \in 0 + 1 .. L : Len(DumpsOf[t]) = Len(RowsOf[t])
    BY <1>1, <1>3, <1>6
  <2>2. QED
    BY <1>2, <1>9, <2>1, JoinedSame
<1>11. Len(DumpedSteps) = Len(output.rows)
  BY <1>2, <1>9, <1>10 DEF Joined
<1>12. DOMAIN DumpedSteps = 1 .. Len(DumpedSteps)
  BY <1>8
<1>13. ASSUME NEW t \in Asked, NEW k \in 1 .. Len(flow[t].steps)
       PROVE  off[t - 1] + k \in DOMAIN DumpedSteps /\ DumpedSteps[off[t - 1] + k] = DumpOf(t, k)
  <2>1. Joined(DumpedSteps, 0, L, DumpsOf, off)
    BY <1>9, <1>10
  <2>2. PieceAt(t, DumpedSteps, DumpsOf, off)
    BY <1>1, <2>1, JoinedPiece
  <2>3. QED
    BY <1>6, <1>12, <2>2 DEF PieceAt
<1>14. ASSUME NEW p \in DOMAIN DumpedSteps
       PROVE  \E t \in Asked : \E k \in 1 .. Len(flow[t].steps) :
                 p = off[t - 1] + k /\ DumpedSteps[p] = DumpOf(t, k)
  <2>1. InPiece(p, DumpedSteps, L, DumpsOf, off)
    BY <1>1, <1>9, <1>10, <1>12, JoinedRow
  <2>2. PICK t \in 1 .. L : \E k \in 1 .. Len(DumpsOf[t]) :
           p = off[t - 1] + k /\ DumpedSteps[p] = DumpsOf[t][k]
    BY <2>1 DEF InPiece
  <2>3. QED
    BY <1>1, <1>6, <2>2
<1>15. DumpedAt(off)
  BY <1>8, <1>11, <1>13, <1>14 DEF DumpedAt
<1>16. QED
  BY <1>2, <1>15

(* A step is dumped once, and nothing else is. *)
LEMMA DumpedOnce ==
  ASSUME OutputKnown
  PROVE  /\ DumpedSteps \in Seq(DumpedStep) /\ IsInjective(DumpedSteps)
         /\ \A t \in Asked : \A k \in 1 .. Len(flow[t].steps) : DumpOf(t, k) \in Range(DumpedSteps)
         /\ \A d \in Range(DumpedSteps) :
              \E t \in Asked : \E k \in 1 .. Len(flow[t].steps) : d = DumpOf(t, k)
<1>1. PICK off : DumpedAt(off)
  BY DumpJoins
<1>2. \A t, u, j, k : DumpOf(t, k) = DumpOf(u, j) => t = u /\ k - 1 = j - 1
  BY DEF DumpOf, RowOf
<1>3. \A t \in Asked : Len(flow[t].steps) \in Nat
  BY RowsOfShape DEF OutputKnown
<1>4. IsInjective(DumpedSteps)
  <2>1. SUFFICES ASSUME NEW p \in DOMAIN DumpedSteps, NEW q \in DOMAIN DumpedSteps,
                        DumpedSteps[p] = DumpedSteps[q]
                 PROVE  p = q
    BY DEF IsInjective
  <2>2. PICK t \in Asked : \E k \in 1 .. Len(flow[t].steps) :
               p = off[t - 1] + k /\ DumpedSteps[p] = DumpOf(t, k)
    BY <1>1 DEF DumpedAt
  <2>3. PICK u \in Asked : \E k \in 1 .. Len(flow[u].steps) :
               q = off[u - 1] + k /\ DumpedSteps[q] = DumpOf(u, k)
    BY <1>1 DEF DumpedAt
  <2>4. PICK k \in 1 .. Len(flow[t].steps) : p = off[t - 1] + k /\ DumpedSteps[p] = DumpOf(t, k)
    BY <2>2
  <2>5. PICK j \in 1 .. Len(flow[u].steps) : q = off[u - 1] + j /\ DumpedSteps[q] = DumpOf(u, j)
    BY <2>3
  <2>6. t = u /\ k - 1 = j - 1
    BY <1>2, <2>1, <2>4, <2>5
  <2>7. k = j
    BY <1>3, <2>6
  <2>8. QED
    BY <2>4, <2>5, <2>6, <2>7
<1>5. \A t \in Asked : \A k \in 1 .. Len(flow[t].steps) : DumpOf(t, k) \in Range(DumpedSteps)
  BY <1>1 DEF DumpedAt, Range
<1>6. \A d \in Range(DumpedSteps) :
        \E t \in Asked : \E k \in 1 .. Len(flow[t].steps) : d = DumpOf(t, k)
  BY <1>1 DEF DumpedAt, Range
<1>7. QED
  BY <1>1, <1>4, <1>5, <1>6 DEF DumpedAt

(* The steps of a uid are all its dumped steps, once each, by step_index. *)
StepsSorted(s, uid) ==
  /\ s \in Seq(DumpedStep) /\ IsInjective(s)
  /\ Range(s) = {d \in Range(DumpedSteps) : d.uid = uid}
  /\ \A i, k \in DOMAIN s : i < k => s[i].index <= s[k].index

LEMMA StepsOfIs ==
  ASSUME OutputKnown, NEW uid
  PROVE  StepsSorted(StepsOf(uid), uid)
<1> DEFINE D == DumpedSteps
           mine == Among(D, {d \in ToSet(D) : d.uid = uid})
           pieces == [n \in 1 .. MaxSteps |-> Among(mine, {d \in ToSet(mine) : d.index = n - 1})]
           key == [d \in Range(mine) |-> d.index + 1]
<1>1. /\ D \in Seq(DumpedStep) /\ IsInjective(D)
      /\ \A d \in Range(D) : \E t \in Asked : \E k \in 1 .. Len(flow[t].steps) : d = DumpOf(t, k)
  BY DumpedOnce
<1>2. StepsOf(uid) = FlattenSeq(pieces)
  BY DEF StepsOf
<1>3. \A s : ToSet(s) = Range(s)
  BY DEF ToSet, Range
<1>4. mine \in Seq(DumpedStep) /\ IsInjective(mine) /\ Range(mine) = {d \in Range(D) : d.uid = uid}
  <2> HIDE DEF D
  <2>1. /\ mine \in Seq(DumpedStep) /\ IsInjective(mine)
        /\ Range(mine) = Range(D) \cap {d \in ToSet(D) : d.uid = uid}
    BY <1>1, AmongFacts
  <2>2. QED
    BY <1>3, <2>1
<1> HIDE DEF mine
<1>5. ASSUME NEW n \in 1 .. MaxSteps
      PROVE  /\ pieces[n] \in Seq(DumpedStep) /\ IsInjective(pieces[n])
             /\ Range(pieces[n]) = {d \in Range(mine) : d.index = n - 1}
  <2> DEFINE S == {d \in ToSet(mine) : d.index = n - 1}
  <2>1. pieces[n] = Among(mine, S)
    OBVIOUS
  <2> HIDE DEF S, pieces
  <2>2. /\ pieces[n] \in Seq(DumpedStep) /\ IsInjective(pieces[n])
        /\ Range(pieces[n]) = Range(mine) \cap S
    BY <1>4, <2>1, AmongFacts
  <2>3. QED
    BY <1>3, <2>2 DEF S
<1>6. pieces \in [1 .. MaxSteps -> Seq(DumpedStep)]
  <2>1. pieces = [n \in 1 .. MaxSteps |-> pieces[n]]
    OBVIOUS
  <2> HIDE DEF pieces
  <2>2. QED
    BY <1>5, <2>1
<1>7. \A d \in Range(mine) : d.index \in Int /\ d.index + 1 \in 1 .. MaxSteps
  <2>1. SUFFICES ASSUME NEW d \in Range(mine)
                 PROVE  d.index \in Int /\ d.index + 1 \in 1 .. MaxSteps
    OBVIOUS
  <2>2. PICK t \in Asked : \E k \in 1 .. Len(flow[t].steps) : d = DumpOf(t, k)
    BY <1>1, <1>4, <2>1
  <2>3. PICK k \in 1 .. Len(flow[t].steps) : d = DumpOf(t, k)
    BY <2>2
  <2>4. Len(flow[t].steps) \in Nat
    BY RowsOfShape DEF OutputKnown
  <2>5. Len(flow[t].steps) <= MaxSteps
    BY DEF OutputKnown, FlowsRight, FlowRight, PromptShape
  <2>6. d.index = k - 1 /\ MaxSteps \in Nat
    BY <2>3, LoopAssumption DEF DumpOf
  <2>7. QED
    BY <2>4, <2>5, <2>6
<1>8. Keyed(pieces, Range(mine), MaxSteps, key)
  <2>1. \A d \in Range(mine) : key[d] = d.index + 1 /\ key[d] \in 1 .. MaxSteps
    BY <1>7
  <2> HIDE DEF key, pieces
  <2>2. ASSUME NEW n \in 1 .. MaxSteps
        PROVE  Range(pieces[n]) = {d \in Range(mine) : key[d] = n} /\ IsInjective(pieces[n])
    <3>1. \A d \in Range(mine) : d.index = n - 1 <=> key[d] = n
      BY <1>7, <2>1
    <3>2. QED
      BY <1>5, <3>1
  <2>3. QED
    BY <2>1, <2>2 DEF Keyed
<1>9. PICK q : q = FlattenSeq(pieces)
  OBVIOUS
<1>10. q \in Seq(DumpedStep) /\ Range(q) = Range(mine) /\ IsInjective(q) /\ OrderedBy(q, key)
  <2>1. MaxSteps \in Nat
    BY LoopAssumption
  <2> HIDE DEF key, pieces
  <2>2. QED
    BY <1>6, <1>8, <1>9, <2>1, KeyedSorted
<1>11. \A i, k \in DOMAIN q : i < k => q[i].index <= q[k].index
  <2>1. SUFFICES ASSUME NEW i \in DOMAIN q, NEW k \in DOMAIN q, i < k
                 PROVE  q[i].index <= q[k].index
    OBVIOUS
  <2>2. q[i] \in Range(mine) /\ q[k] \in Range(mine)
    BY <1>10 DEF Range
  <2>3. key[q[i]] <= key[q[k]]
    <3> HIDE DEF key
    <3> QED BY <1>10, <2>1 DEF OrderedBy
  <2>4. key[q[i]] = q[i].index + 1 /\ key[q[k]] = q[k].index + 1
    BY <2>2
  <2>5. QED
    BY <1>7, <2>2, <2>3, <2>4
<1>12. QED
  BY <1>2, <1>4, <1>9, <1>10, <1>11 DEF StepsSorted

(* The steps of the trajectories of a prompt. *)
StepsFor(uid) ==
  UNION {{t} \X (1 .. Len(flow[t].steps)) : t \in {u \in 1 .. Len(GenBatch) : GenBatch[u] = uid}}

LEMMA StepsForIs ==
  ASSUME NEW uid, NEW x
  PROVE  x \in StepsFor(uid) <=>
           \E t \in Asked : GenBatch[t] = uid /\ \E k \in 1 .. Len(flow[t].steps) : x = <<t, k>>
BY DEF StepsFor, Asked

(* What an entry lists of the prompt. *)
EntryHolds(s, uid) ==
  /\ Len(s) = Cardinality(StepsFor(uid))
  /\ \A x \in StepsFor(uid) : \E k \in DOMAIN s : s[k].row = RowOf(x[1], x[2])
  /\ \A i, k \in DOMAIN s : i < k => s[i].index <= s[k].index

LEMMA EntryWhole ==
  ASSUME OutputKnown, NEW uid
  PROVE  EntryHolds(StepsOf(uid), uid) /\ StepsOf(uid) \in Seq(DumpedStep)
<1>1. PICK s : s = StepsOf(uid)
  OBVIOUS
<1>2. StepsSorted(s, uid)
  BY <1>1, StepsOfIs
<1>3. s \in Seq(DumpedStep) /\ DOMAIN s = 1 .. Len(s) /\ Len(s) \in Nat
  BY <1>2 DEF StepsSorted
<1> DEFINE M == StepsFor(uid)
           name == [k \in 1 .. Len(s) |-> <<s[k].row.from, s[k].row.index + 1>>]
<1>4. ASSUME NEW p \in 1 .. Len(s)
      PROVE  \E t \in Asked : \E k \in 1 .. Len(flow[t].steps) :
               s[p] = DumpOf(t, k) /\ name[p] = <<t, k>> /\ <<t, k>> \in M
  <2>1. s[p] \in Range(DumpedSteps) /\ s[p].uid = uid
    BY <1>2, <1>3 DEF StepsSorted, Range
  <2>2. PICK t \in Asked : \E k \in 1 .. Len(flow[t].steps) : s[p] = DumpOf(t, k)
    BY <2>1, DumpedOnce
  <2>3. PICK k \in 1 .. Len(flow[t].steps) : s[p] = DumpOf(t, k)
    BY <2>2
  <2>4. k \in Int /\ (k - 1) + 1 = k
    BY RowsOfShape DEF OutputKnown
  <2>5. name[p] = <<t, k>>
    <3>1. s[p].row.from = t /\ s[p].row.index = k - 1
      BY <2>3 DEF DumpOf, RowOf
    <3>2. QED
      BY <2>4, <3>1
  <2>6. GenBatch[t] = uid
    BY <2>1, <2>3 DEF DumpOf
  <2>7. <<t, k>> \in M
    BY <2>6, StepsForIs
  <2>8. QED
    BY <2>3, <2>5, <2>7
<1>5. ASSUME NEW x \in M
      PROVE  \E p \in 1 .. Len(s) : name[p] = x /\ s[p].row = RowOf(x[1], x[2])
  <2>1. PICK t \in Asked : GenBatch[t] = uid /\ \E k \in 1 .. Len(flow[t].steps) : x = <<t, k>>
    BY StepsForIs
  <2>2. PICK k \in 1 .. Len(flow[t].steps) : x = <<t, k>>
    BY <2>1
  <2>3. DumpOf(t, k) \in Range(DumpedSteps) /\ DumpOf(t, k).uid = uid
    BY <2>1, DumpedOnce DEF DumpOf
  <2>4. DumpOf(t, k) \in Range(s)
    BY <1>2, <2>3 DEF StepsSorted
  <2>5. PICK p \in 1 .. Len(s) : s[p] = DumpOf(t, k)
    BY <1>3, <2>4 DEF Range
  <2>6. s[p].row = RowOf(t, k) /\ s[p].row.from = t /\ s[p].row.index = k - 1
    BY <2>5 DEF DumpOf, RowOf
  <2>7. k \in Int /\ (k - 1) + 1 = k
    BY RowsOfShape DEF OutputKnown
  <2>8. QED
    BY <2>2, <2>6, <2>7
<1>6. \A p \in 1 .. Len(s) : name[p] \in M
  <2> HIDE DEF M, name
  <2> QED BY <1>4
<1>7. ASSUME NEW p \in 1 .. Len(s), NEW q \in 1 .. Len(s), name[p] = name[q]
      PROVE  p = q
  <2>1. PICK t \in Asked : \E k \in 1 .. Len(flow[t].steps) : s[p] = DumpOf(t, k) /\ name[p] = <<t, k>>
    BY <1>4
  <2>2. PICK k \in 1 .. Len(flow[t].steps) : s[p] = DumpOf(t, k) /\ name[p] = <<t, k>>
    BY <2>1
  <2>3. PICK u \in Asked : \E j \in 1 .. Len(flow[u].steps) : s[q] = DumpOf(u, j) /\ name[q] = <<u, j>>
    BY <1>4
  <2>4. PICK j \in 1 .. Len(flow[u].steps) : s[q] = DumpOf(u, j) /\ name[q] = <<u, j>>
    BY <2>3
  <2>5. t = u /\ k = j
    <3>1. <<t, k>> = <<u, j>>
      <4> HIDE DEF name
      <4> QED BY <1>7, <2>2, <2>4
    <3>2. QED
      BY <3>1
  <2>6. s[p] = s[q]
    BY <2>2, <2>4, <2>5
  <2>7. QED
    BY <1>2, <1>3, <2>6 DEF StepsSorted, IsInjective
<1>8. Cardinality(M) = Len(s)
  <2>1. name \in [1 .. Len(s) -> M]
    <3>1. name = [k \in 1 .. Len(s) |-> name[k]]
      OBVIOUS
    <3> HIDE DEF M, name
    <3>2. QED
      BY <1>6, <3>1
  <2> HIDE DEF M, name
  <2>2. name \in Injection(1 .. Len(s), M)
    BY <1>7, <2>1 DEF Injection, IsInjective
  <2>3. name \in Surjection(1 .. Len(s), M)
    BY <1>5, <2>1 DEF Surjection
  <2>4. ExistsBijection(1 .. Len(s), M)
    BY <2>2, <2>3 DEF Bijection, ExistsBijection
  <2>5. QED
    BY <1>3, <2>4, FS_CountingElements
<1>9. \A x \in M : \E k \in DOMAIN s : s[k].row = RowOf(x[1], x[2])
  <2> HIDE DEF M, name
  <2> QED BY <1>3, <1>5
<1>10. EntryHolds(s, uid)
  BY <1>2, <1>8, <1>9 DEF EntryHolds, StepsSorted
<1>11. QED
  BY <1>1, <1>3, <1>10

EntriesFor(mine, entries, uid) == mine = {j \in DOMAIN entries : entries[j].uid = uid}

OneEntry(mine, entries, uid) ==
  IF StepsFor(uid) = {} THEN mine = {}
  ELSE \E j \in mine : mine = {j} /\ entries[j] = Entry(uid)

(* A prompt has one entry if it has steps, and none otherwise. *)
LEMMA EntryOnce ==
  ASSUME OutputKnown, NEW uid, NEW entries, entries = DumpEntries,
         NEW mine, EntriesFor(mine, entries, uid)
  PROVE  OneEntry(mine, entries, uid)
<1> DEFINE id == [k \in DOMAIN DumpedSteps |-> k]
           firsts == Among(id, FirstOfUid)
<1>1. PICK D : D = DumpedSteps
  OBVIOUS
<1>2. D \in Seq(DumpedStep) /\ DOMAIN D = 1 .. Len(D) /\ Len(D) \in Nat
  BY <1>1, DumpedOnce
<1>3. firsts \in Seq(Nat) /\ IsInjective(firsts) /\ Range(firsts) = FirstOfUid
  <2>1. id = [k \in 1 .. Len(D) |-> k]
    BY <1>1, <1>2
  <2>2. id \in Seq(Nat) /\ Range(id) = 1 .. Len(D) /\ IsInjective(id)
    <3> HIDE DEF id
    <3>1. id \in [1 .. Len(D) -> Nat] /\ DOMAIN id = 1 .. Len(D) /\ \A k \in 1 .. Len(D) : id[k] = k
      BY <1>2, <2>1
    <3>2. id \in Seq(Nat)
      BY <1>2, <3>1
    <3>3. QED
      BY <3>1, <3>2 DEF Range, IsInjective
  <2>3. FirstOfUid \subseteq 1 .. Len(D)
    BY <1>1, <1>2 DEF FirstOfUid
  <2> HIDE DEF id
  <2>4. firsts \in Seq(Nat) /\ IsInjective(firsts) /\ Range(firsts) = Range(id) \cap FirstOfUid
    BY <2>2, AmongFacts
  <2>5. QED
    BY <2>2, <2>3, <2>4
<1>4. entries = [e \in DOMAIN firsts |-> Entry(DumpedSteps[firsts[e]].uid)]
  BY DEF DumpEntries
<1> HIDE DEF firsts, id
<1>5. \A e \in DOMAIN firsts : firsts[e] \in FirstOfUid
  BY <1>3 DEF Range
<1>6. DOMAIN entries = DOMAIN firsts
      /\ \A e \in DOMAIN firsts : entries[e] = Entry(D[firsts[e]].uid)
                                  /\ entries[e].uid = D[firsts[e]].uid
  BY <1>1, <1>4 DEF Entry
<1>7. \A k \in FirstOfUid : k \in 1 .. Len(D) /\ \A j \in 1 .. k - 1 : D[j].uid # D[k].uid
  BY <1>1, <1>2 DEF FirstOfUid
<1>8. ASSUME NEW i \in mine, NEW j \in mine PROVE i = j
  <2>1. i \in DOMAIN firsts /\ j \in DOMAIN firsts /\ D[firsts[i]].uid = uid /\ D[firsts[j]].uid = uid
    BY <1>6 DEF EntriesFor
  <2>2. /\ firsts[i] \in 1 .. Len(D) /\ \A l \in 1 .. firsts[i] - 1 : D[l].uid # uid
        /\ firsts[j] \in 1 .. Len(D) /\ \A l \in 1 .. firsts[j] - 1 : D[l].uid # uid
    BY <1>5, <1>7, <2>1
  <2>3. ~ (firsts[i] < firsts[j]) /\ ~ (firsts[j] < firsts[i])
    BY <1>2, <2>1, <2>2
  <2>4. firsts[i] = firsts[j]
    BY <2>2, <2>3
  <2>5. QED
    BY <1>3, <2>1, <2>4 DEF IsInjective
<1>9. CASE StepsFor(uid) = {}
  <2>1. SUFFICES ASSUME NEW j \in mine PROVE FALSE
    BY <1>9 DEF OneEntry
  <2>2. j \in DOMAIN firsts /\ D[firsts[j]].uid = uid /\ firsts[j] \in DOMAIN D
    BY <1>2, <1>5, <1>6, <1>7 DEF EntriesFor
  <2>3. D[firsts[j]] \in Range(DumpedSteps)
    BY <1>1, <2>2 DEF Range
  <2>4. PICK t \in Asked : \E k \in 1 .. Len(flow[t].steps) : D[firsts[j]] = DumpOf(t, k)
    BY <2>3, DumpedOnce
  <2>5. PICK k \in 1 .. Len(flow[t].steps) : D[firsts[j]] = DumpOf(t, k)
    BY <2>4
  <2>6. GenBatch[t] = uid
    BY <2>2, <2>5 DEF DumpOf
  <2>7. <<t, k>> \in StepsFor(uid)
    BY <2>6, StepsForIs
  <2>8. QED
    BY <1>9, <2>7
<1>10. CASE StepsFor(uid) # {}
  <2>1. PICK x : x \in StepsFor(uid)
    BY <1>10
  <2>2. PICK t \in Asked : GenBatch[t] = uid /\ \E k \in 1 .. Len(flow[t].steps) : x = <<t, k>>
    BY <2>1, StepsForIs
  <2>3. PICK k \in 1 .. Len(flow[t].steps) : x = <<t, k>>
    BY <2>2
  <2>4. DumpOf(t, k) \in Range(DumpedSteps) /\ DumpOf(t, k).uid = uid
    BY <2>2, DumpedOnce DEF DumpOf
  <2> DEFINE T == {p \in 1 .. Len(D) : D[p].uid = uid}
  <2>5. T # {} /\ T \subseteq Nat
    BY <1>1, <1>2, <2>4 DEF Range
  <2>6. PICK p \in T : \A q \in T : p <= q
    <3> HIDE DEF T
    <3> QED BY <2>5, LeastNatural
  <2>7. p \in FirstOfUid
    <3>1. p \in 1 .. Len(D) /\ \A j \in 1 .. p - 1 : D[j].uid # D[p].uid
      BY <1>2, <2>6
    <3>2. QED
      BY <1>1, <1>2, <3>1 DEF FirstOfUid
  <2>8. PICK j \in DOMAIN firsts : firsts[j] = p
    BY <1>3, <2>7 DEF Range
  <2>9. j \in mine /\ entries[j] = Entry(uid)
    BY <1>6, <2>6, <2>8 DEF EntriesFor
  <2>10. mine = {j}
    BY <1>8, <2>9
  <2>11. QED
    BY <1>10, <2>9, <2>10 DEF OneEntry
<1>11. QED
  BY <1>9, <1>10

IsRow(row, t, k) == row.from = t /\ row.index = k - 1 /\ row.step = flow[t].steps[k]

EntryTells(e, uid) ==
  /\ Len(e.steps) = Cardinality(StepsFor(uid))
  /\ \A s \in StepsFor(uid) : \E k \in DOMAIN e.steps : IsRow(e.steps[k].row, s[1], s[2])
  /\ \A i, k \in DOMAIN e.steps : i < k => e.steps[i].index <= e.steps[k].index
  /\ e.input = e.steps[1].row /\ e.output = e.steps[Len(e.steps)].row

(* What the entry of a prompt with steps says of it. *)
LEMMA EntryRight ==
  ASSUME OutputKnown, NEW uid, StepsFor(uid) # {}, NEW e, e = Entry(uid)
  PROVE  EntryTells(e, uid)
<1>1. PICK s : s = StepsOf(uid)
  OBVIOUS
<1>2. s \in Seq(DumpedStep) /\ EntryHolds(s, uid)
  BY <1>1, EntryWhole
<1>3. s # <<>>
  <2>1. PICK x : x \in StepsFor(uid)
    OBVIOUS
  <2>2. \E k \in DOMAIN s : TRUE
    BY <1>2, <2>1 DEF EntryHolds
  <2>3. QED
    BY <2>2
<1>4. Head(s) = s[1] /\ Last(s) = s[Len(s)]
  BY <1>2, <1>3 DEF Last
<1>5. e.steps = s /\ e.input = Head(s).row /\ e.output = Last(s).row
  BY <1>1 DEF Entry
<1>6. ASSUME NEW x \in StepsFor(uid) PROVE \E k \in DOMAIN s : IsRow(s[k].row, x[1], x[2])
  <2>1. PICK k \in DOMAIN s : s[k].row = RowOf(x[1], x[2])
    BY <1>2 DEF EntryHolds
  <2>2. IsRow(s[k].row, x[1], x[2])
    BY <2>1 DEF RowOf, IsRow
  <2>3. QED
    BY <2>2
<1>7. QED
  BY <1>2, <1>4, <1>5, <1>6 DEF EntryHolds, EntryTells

(* The line of the table of trajectory t is about it. *)
SampleRight(sample, t) ==
  /\ Len(sample.scored) = Len(flow[t].steps)
  /\ \A k \in 1 .. Len(flow[t].steps) : IsRow(sample.scored[k], t, k)
  /\ Len(flow[t].steps) > 0 => /\ IsRow(sample.input, t, 1)
                               /\ IsRow(sample.output, t, Len(flow[t].steps))

LEMMA SampleIs ==
  ASSUME OutputKnown, NEW t \in Asked, StartOf(t) < Len(output.rows)
  PROVE  SampleRight(Sample(t), t)
<1>1. PICK off : Counted(off)
  BY CountedRows
<1>2. PICK start, n, q : start = StartOf(t) /\ n = Len(flow[t].steps) /\ q = output.rows
  OBVIOUS
<1>3. n \in Nat /\ output.numSteps[t] = n /\ q \in Seq(Row) /\ Len(q) \in Nat
  BY <1>2, RowsOfShape DEF OutputKnown, LengthsRight, RowsJoined
<1>4. t - 1 \in 0 .. Len(GenBatch) /\ t \in 0 .. Len(GenBatch)
  BY AskedCount DEF Asked, OutputKnown
<1>5. /\ start \in Nat /\ start + n <= Len(q) /\ start < Len(q)
      /\ \A k \in 1 .. n : start + k \in 1 .. Len(q) /\ q[start + k] = RowOf(t, k)
  BY <1>1, <1>2, <1>4 DEF Counted
<1>6. /\ Sample(t).scored = SubSeq(q, start + 1, start + n)
      /\ Sample(t).input = RowAt(start) /\ Sample(t).output = RowAt(start + n - 1)
  BY <1>2, <1>3 DEF Sample
<1>7. Len(SubSeq(q, start + 1, start + n)) = n
      /\ \A k \in 1 .. n : SubSeq(q, start + 1, start + n)[k] = RowOf(t, k)
  <2>1. PICK r : r = SubSeq(q, start + 1, start + n)
    OBVIOUS
  <2>2. r = [i \in 1 .. n |-> q[start + i]]
    BY <1>3, <1>5, <2>1, SubSeqIs
  <2>3. Len(r) = n /\ \A k \in 1 .. n : r[k] = q[start + k]
    BY <1>3, <2>2
  <2>4. QED
    BY <1>5, <2>1, <2>3
<1>8. ASSUME NEW i \in Nat, i < Len(q) PROVE RowAt(i) = q[i + 1]
  <2>1. i % Len(q) = i
    BY <1>3, <1>8
  <2>2. QED
    BY <1>2, <2>1 DEF RowAt
<1>9. ASSUME n > 0 PROVE RowAt(start) = RowOf(t, 1) /\ RowAt(start + n - 1) = RowOf(t, n)
  <2>1. start + n - 1 \in Nat /\ start + n - 1 < Len(q) /\ (start + n - 1) + 1 = start + n
    BY <1>3, <1>5, <1>9
  <2>2. RowAt(start) = q[start + 1] /\ RowAt(start + n - 1) = q[start + n]
    BY <1>5, <1>8, <2>1
  <2>3. 1 \in 1 .. n /\ n \in 1 .. n
    BY <1>3, <1>9
  <2>4. QED
    BY <1>5, <2>2, <2>3
<1>10. \A k : IsRow(RowOf(t, k), t, k)
  BY DEF RowOf, IsRow
<1>11. QED
  BY <1>2, <1>6, <1>7, <1>9, <1>10 DEF SampleRight

(* What the validation holds is what it counts off the output. *)
ValidatedRight ==
  /\ validated.at \in {"none", "raised", "dumped"}
  /\ validated.at # "none" => manager = "returned"
  /\ validated.at = "raised" => \E i \in DOMAIN output.numSteps : StartOf(i) >= Len(output.rows)
  /\ validated.at = "dumped" =>
       /\ \A i \in DOMAIN output.numSteps : ~ (StartOf(i) >= Len(output.rows))
       /\ validated.samples = [i \in DOMAIN output.numSteps |-> Sample(i)]
       /\ validated.entries = DumpEntries

VInv == EInv /\ ValidatedRight

(* No trajectory after the last one with a step starts past the rows. *)
LEMMA OnlyLastRaises ==
  ASSUME OutputKnown, NEW i \in Asked, StartOf(i) >= Len(output.rows)
  PROVE  Len(flow[Len(GenBatch)].steps) = 0
<1> DEFINE L == Len(GenBatch)
<1>1. PICK off : Counted(off) /\ Joined(output.rows, 0, L, RowsOf, off)
  BY CountedRows
<1>2. L \in Nat \ {0} /\ Asked = 1 .. L /\ L \in Asked
  BY AskedCount DEF Asked, OutputKnown
<1>3. Len(flow[L].steps) \in Nat /\ Len(output.rows) \in Nat
  BY <1>2, RowsOfShape DEF OutputKnown, RowsJoined
<1>4. /\ off \in [0 .. L -> Nat] /\ off[L] = Len(output.rows) /\ StartOf(i) = off[i - 1]
      /\ off[L] = off[L - 1] + Len(flow[L].steps)
  BY <1>1, <1>2 DEF Counted
<1> HIDE DEF L
<1>5. i - 1 \in 0 .. L /\ L - 1 \in 0 .. L /\ i - 1 <= L - 1 /\ 0 \in Int /\ L \in Int
  BY <1>2
<1>6. off[i - 1] <= off[L - 1]
  BY <1>1, <1>5, JoinedGrows
<1>7. off[i - 1] \in Nat /\ off[L - 1] \in Nat /\ off[L] \in Nat
  BY <1>2, <1>4, <1>5
<1>8. Len(flow[L].steps) = 0
  BY <1>3, <1>4, <1>6, <1>7
<1>9. QED
  BY <1>8 DEF L

LEMMA ReportsRight ==
  ASSUME VInv
  PROVE  ReportsItsOwn
<1>1. CASE validated.at = "none"
  BY <1>1 DEF ReportsItsOwn
<1>2. CASE validated.at # "none"
  <2>1. OutputKnown /\ 1 .. Len(GenBatch) = Asked /\ DOMAIN output.numSteps = Asked
    BY <1>2 DEF VInv, EInv, RInv, ValidatedRight, OutputRight, OutputKnown, Asked, LengthsRight
  <2>2. ASSUME validated.at = "raised" PROVE Len(flow[Len(GenBatch)].steps) = 0
    BY <2>1, <2>2, OnlyLastRaises DEF VInv, ValidatedRight
  <2>3. ASSUME validated.at = "dumped", NEW t \in Asked
        PROVE  SampleRight(validated.samples[t], t)
    <3>1. validated.samples[t] = Sample(t) /\ ~ (StartOf(t) >= Len(output.rows))
      BY <2>1, <2>3 DEF VInv, ValidatedRight
    <3>2. PICK off : Counted(off)
      BY <2>1, CountedRows
    <3>3. StartOf(t) \in Nat /\ Len(output.rows) \in Nat
      <4>1. t - 1 \in 0 .. Len(GenBatch)
        BY <2>1, AskedCount DEF Asked, OutputKnown
      <4>2. QED
        BY <2>1, <3>2, <4>1 DEF Counted, OutputKnown, RowsJoined
    <3>4. StartOf(t) < Len(output.rows)
      BY <3>1, <3>3
    <3>5. QED
      BY <2>1, <3>1, <3>4, SampleIs
  <2>4. ASSUME validated.at = "dumped", NEW uid,
               NEW mine, EntriesFor(mine, validated.entries, uid)
        PROVE  IF StepsFor(uid) = {} THEN mine = {}
               ELSE \E j \in mine : mine = {j} /\ EntryTells(validated.entries[j], uid)
    <3>1. PICK entries : entries = validated.entries
      OBVIOUS
    <3>2. entries = DumpEntries /\ EntriesFor(mine, entries, uid)
      BY <2>4, <3>1 DEF VInv, ValidatedRight
    <3>3. OneEntry(mine, entries, uid)
      BY <2>1, <3>2, EntryOnce
    <3>4. CASE StepsFor(uid) = {}
      BY <3>3, <3>4 DEF OneEntry
    <3>5. CASE StepsFor(uid) # {}
      <4>1. PICK j \in mine : mine = {j} /\ entries[j] = Entry(uid)
        BY <3>3, <3>5 DEF OneEntry
      <4>2. EntryTells(entries[j], uid)
        BY <2>1, <3>5, <4>1, EntryRight
      <4>3. QED
        BY <3>1, <3>5, <4>1, <4>2
    <3>6. QED
      BY <3>4, <3>5
  <2>5. ASSUME validated.at = "dumped", NEW uid
        PROVE  LET mine == {j \in DOMAIN validated.entries : validated.entries[j].uid = uid}
               IN  IF StepsFor(uid) = {} THEN mine = {}
                   ELSE \E j \in mine : mine = {j} /\ EntryTells(validated.entries[j], uid)
    <3> DEFINE mine == {j \in DOMAIN validated.entries : validated.entries[j].uid = uid}
    <3>1. EntriesFor(mine, validated.entries, uid)
      BY DEF EntriesFor
    <3> HIDE DEF mine
    <3>2. IF StepsFor(uid) = {} THEN mine = {}
          ELSE \E j \in mine : mine = {j} /\ EntryTells(validated.entries[j], uid)
      BY <2>4, <2>5, <3>1
    <3>3. QED
      BY <3>2 DEF mine
  <2>6. validated.at = "dumped" =>
          /\ \A t \in 1 .. Len(GenBatch) : SampleRight(validated.samples[t], t)
          /\ \A uid \in ToSet(prompts) :
               IF StepsFor(uid) = {}
               THEN {j \in DOMAIN validated.entries : validated.entries[j].uid = uid} = {}
               ELSE \E j \in {l \in DOMAIN validated.entries : validated.entries[l].uid = uid} :
                      /\ {l \in DOMAIN validated.entries : validated.entries[l].uid = uid} = {j}
                      /\ EntryTells(validated.entries[j], uid)
    BY <2>1, <2>3, <2>5
  <2>7. validated.at = "raised" => Len(flow[Len(GenBatch)].steps) = 0
    BY <2>2
  <2>8. QED
    BY <2>6, <2>7 DEF ReportsItsOwn, SampleRight, IsRow, EntryTells, StepsFor
<1>3. QED
  BY <1>1, <1>2

LEMMA InitVInv == ValidationInit => VInv
<1> SUFFICES ASSUME ValidationInit PROVE VInv
  OBVIOUS
<1>1. EInv
  BY InitEInv DEF ValidationInit
<1>2. validated.at = "none"
  BY DEF ValidationInit, NotValidated
<1>3. QED
  BY <1>1, <1>2 DEF VInv, ValidatedRight

(* What is counted depends on the output and the prompts alone. *)
LEMMA CountsKept ==
  ASSUME output' = output, prompts' = prompts
  PROVE  /\ \A i : StartOf(i)' = StartOf(i) /\ Sample(i)' = Sample(i)
         /\ DumpEntries' = DumpEntries
<1>1. \A i : StartOf(i)' = StartOf(i)
  BY DEF StartOf
<1>2. \A k : RowAt(k)' = RowAt(k)
  BY DEF RowAt
<1>3. \A i : Sample(i)' = Sample(i)
  BY <1>1, <1>2 DEF Sample
<1>4. DumpedSteps' = DumpedSteps
  BY <1>1 DEF DumpedSteps, TrainerBatch
<1>5. \A uid : StepsOf(uid)' = StepsOf(uid)
  BY <1>4 DEF StepsOf
<1>6. \A uid : Entry(uid)' = Entry(uid)
  BY <1>5 DEF Entry
<1>7. FirstOfUid' = FirstOfUid
  BY <1>4 DEF FirstOfUid
<1>8. DumpEntries' = DumpEntries
  BY <1>4, <1>6, <1>7 DEF DumpEntries
<1>9. QED
  BY <1>1, <1>3, <1>8

LEMMA NextVInv == VInv /\ [ValidationNext]_validationVars => VInv'
<1> SUFFICES ASSUME VInv, [ValidationNext]_validationVars PROVE VInv'
  OBVIOUS
<1>1. EInv'
  <2>1. [Next]_vars
    BY DEF ValidationNext, Validate, validationVars
  <2>2. QED
    BY <2>1, NextEInv DEF VInv
<1>2. CASE validated.at = "none" /\ validated' = validated
  BY <1>1, <1>2 DEF VInv, ValidatedRight
<1>3. CASE UNCHANGED validationVars
  <2>1. output' = output /\ prompts' = prompts /\ manager' = manager /\ validated' = validated
    BY <1>3 DEF validationVars, vars, rolloutVars
  <2>2. ValidatedRight'
    BY <2>1, CountsKept DEF VInv, ValidatedRight
  <2>3. QED
    BY <1>1, <2>2 DEF VInv
<1>4. CASE Validate
  <2>1. output' = output /\ prompts' = prompts /\ manager' = manager /\ manager = "returned"
        /\ validated.at = "none"
    BY <1>4 DEF Validate, vars, rolloutVars
  <2>2. DOMAIN output'.numSteps = DOMAIN output.numSteps
    BY <2>1
  <2>3. CASE \E i \in DOMAIN output.numSteps : StartOf(i) >= Len(output.rows)
    <3>1. validated' = [validated EXCEPT !.at = "raised"]
      BY <1>4, <2>3 DEF Validate
    <3>2. validated.at = "none" /\ (validated'.at = "raised" \/ "at" \notin DOMAIN validated)
      BY <2>1, <3>1
    <3>3. QED
      BY <1>1, <2>1, <2>2, <2>3, <3>1, <3>2, CountsKept DEF VInv, ValidatedRight
  <2>4. CASE ~ \E i \in DOMAIN output.numSteps : StartOf(i) >= Len(output.rows)
    <3>1. validated' = [at |-> "dumped",
                        samples |-> [i \in DOMAIN output.numSteps |-> Sample(i)],
                        entries |-> DumpEntries]
      BY <1>4, <2>4 DEF Validate
    <3>2. /\ validated'.at = "dumped" /\ validated'.entries = DumpEntries
          /\ validated'.samples = [i \in DOMAIN output.numSteps |-> Sample(i)]
      BY <3>1
    <3>3. QED
      BY <1>1, <2>1, <2>2, <2>4, <3>2, CountsKept DEF VInv, ValidatedRight
  <2>5. QED
    BY <2>3, <2>4
<1>5. QED
  BY <1>2, <1>3, <1>4 DEF ValidationNext

-----------------------------------------------------------------------------
(* The promise *)

(* What the trainer may expect of the mapping of the promise. *)
MappedStatus ==
  IF Returned THEN "returned" ELSE IF manager = "raised" THEN "raised" ELSE "called"

MappedAnswer == IF Returned THEN [i \in DOMAIN output.numSteps |-> EpisodeAt(i)] ELSE <<>>

(* The rows that the promise counts off for episode i are its steps. *)
LEMMA EpisodeIs ==
  ASSUME FlowsRight, PromptShape, RowsJoined, LengthsRight, NEW i \in Asked
  PROVE  EpisodeAt(i).prompt = GenBatch[i] /\ Promise!IsEpisode(EpisodeAt(i).steps)
<1> DEFINE L == Len(GenBatch)
           q == output.rows
           lengths == output.numSteps
           first == SumSeq(SubSeq(lengths, 1, i - 1))
           rows == SubSeq(q, first + 1, first + lengths[i])
           n == Len(flow[i].steps)
<1>1. L \in Nat /\ Asked = 1 .. L /\ i \in 1 .. L /\ i - 1 \in 0 .. L
  BY AskedCount DEF Asked
<1>2. /\ lengths \in Seq(Nat) /\ Len(lengths) = L /\ lengths[i] = n
      /\ \A t \in 1 .. L : lengths[t] = Len(RowsOf[t])
  BY <1>1, RowsOfShape DEF LengthsRight
<1>3. PICK off : Joined(q, 0, L, RowsOf, off)
  BY DEF RowsJoined
<1>4. q \in Seq(Row)
  BY DEF RowsJoined
<1>5. /\ RowsOf[i] \in Seq(Row) /\ Len(RowsOf[i]) = n /\ n \in Nat
      /\ \A k \in 1 .. n : RowsOf[i][k].from = i /\ RowsOf[i][k].step = flow[i].steps[k]
  <2>1. /\ flow[i].steps \in Seq(Step) /\ RowsOf[i] \in Seq(Row) /\ Len(RowsOf[i]) = n
        /\ \A k \in 1 .. n :
              RowsOf[i][k] = [trajectory |-> <<WorkerOf(i), IndexIn(i)>>, index |-> k - 1,
                              from |-> i, step |-> flow[i].steps[k]]
    BY RowsOfShape
  <2>2. n \in Nat
    BY <2>1
  <2> HIDE DEF n
  <2>3. ASSUME NEW k \in 1 .. n
        PROVE  RowsOf[i][k].from = i /\ RowsOf[i][k].step = flow[i].steps[k]
    <3>1. RowsOf[i][k] = [trajectory |-> <<WorkerOf(i), IndexIn(i)>>, index |-> k - 1,
                          from |-> i, step |-> flow[i].steps[k]]
      BY <2>1
    <3>2. QED
      BY <3>1
  <2>4. QED
    BY <2>1, <2>2, <2>3
<1> HIDE DEF L, q, lengths
<1>6. first = off[i - 1]
  BY <1>1, <1>2, <1>3, SumIsOffset
<1> HIDE DEF first
<1>7. /\ first \in Nat
      /\ \A k \in 1 .. n : first + k \in 1 .. Len(q) /\ q[first + k] = RowsOf[i][k]
  <2>1. 0 \in Int /\ L \in Int /\ i \in 0 + 1 .. L
    BY <1>1
  <2>2. /\ off[i - 1] \in Nat
        /\ \A k \in 1 .. Len(RowsOf[i]) :
             off[i - 1] + k \in 1 .. Len(q) /\ q[off[i - 1] + k] = RowsOf[i][k]
    BY <1>3, <2>1, JoinedInside
  <2>3. Len(RowsOf[i]) = n
    BY <1>5
  <2> HIDE DEF n
  <2>4. QED
    BY <1>6, <2>2, <2>3
<1> HIDE DEF n
<1>8. Len(rows) = n /\ DOMAIN rows = 1 .. n /\ \A k \in 1 .. n : rows[k] = RowsOf[i][k]
  <2>1. ASSUME NEW j \in first + 1 .. first + n PROVE q[j] \in Row
    <3>1. j - first \in 1 .. n /\ first + (j - first) = j
      BY <1>5, <1>7
    <3>2. QED
      BY <1>4, <1>7, <3>1
  <2>2. /\ rows \in Seq(Row)
        /\ Len(rows) = IF first + 1 <= first + n THEN (first + n) - (first + 1) + 1 ELSE 0
        /\ \A k \in 1 .. (first + n) - (first + 1) + 1 : rows[k] = q[(first + 1) + k - 1]
    <3>1. first + 1 \in Int /\ first + n \in Int
      BY <1>5, <1>7
    <3>2. QED
      BY <1>2, <2>1, <3>1, SubSeqProperties
  <2> HIDE DEF rows
  <2>3. Len(rows) = n /\ DOMAIN rows = 1 .. n
    BY <1>5, <1>7, <2>2
  <2>4. ASSUME NEW k \in 1 .. n PROVE rows[k] = q[first + k]
    <3>1. k \in 1 .. (first + n) - (first + 1) + 1 /\ (first + 1) + k - 1 = first + k
      BY <1>5, <1>7
    <3>2. QED
      BY <2>2, <3>1
  <2>5. QED
    BY <1>7, <2>3, <2>4
<1>9. EpisodeAt(i) = [prompt |-> IF rows = <<>> THEN GenBatch[i]
                       ELSE IF \A k \in DOMAIN rows : rows[k].from = rows[1].from
                              THEN GenBatch[rows[1].from] ELSE 0,
                     steps |-> [k \in DOMAIN rows |-> rows[k].step]]
  BY DEF EpisodeAt, rows, first, lengths, q
<1> HIDE DEF rows
<1>10. EpisodeAt(i).prompt = GenBatch[i]
  <2>1. CASE n = 0
    <3>1. rows = <<>>
      BY <1>8, <2>1
    <3>2. QED
      BY <1>9, <3>1
  <2>2. CASE n # 0
    <3>1. 1 \in 1 .. n /\ rows # <<>> /\ \A k \in 1 .. n : rows[k].from = i
      BY <1>5, <1>8, <2>2
    <3>2. QED
      BY <1>8, <1>9, <3>1
  <2>3. QED
    BY <2>1, <2>2
<1>11. EpisodeAt(i).steps = [k \in 1 .. n |-> flow[i].steps[k]]
  <2>1. \A k \in 1 .. n : rows[k].step = flow[i].steps[k]
    BY <1>5, <1>8
  <2>2. QED
    BY <1>8, <1>9, <2>1
<1>12. FlowRight(flow[i])
  BY DEF FlowsRight, PromptShape
<1>13. Promise!IsEpisode(EpisodeAt(i).steps)
  <2> DEFINE s == EpisodeAt(i).steps
  <2>1. Len(s) = n /\ \A k \in 1 .. n : s[k] = flow[i].steps[k]
    BY <1>5, <1>11
  <2> HIDE DEF s
  <2>2. n <= MaxSteps /\ \A k \in 1 .. n : /\ flow[i].steps[k].reward \in Int
                                           /\ flow[i].steps[k].done => k = n
    BY <1>12 DEF FlowRight, n
  <2>3. Promise!IsEpisode(s)
    BY <2>1, <2>2 DEF Promise!IsEpisode
  <2>4. QED
    BY <2>3 DEF s
<1>14. QED
  BY <1>10, <1>13

LEMMA PromiseInit == Init => Promise!Init
<1> SUFFICES ASSUME Init PROVE Promise!Init
  OBVIOUS
<1>1. PromptShape
  BY InitRInv DEF RInv
<1>2. GenBatch \in Seq(Nat \ {0})
  BY <1>1, GenBatchShape
<1>3. ~ Returned /\ manager # "raised"
  BY DEF Init, Returned
<1>4. QED
  BY <1>2, <1>3 DEF Promise!Init

LEMMA PromiseStep ==
  EInv /\ EInv' /\ [Next]_vars => [Promise!Next]_<<GenBatch, MappedStatus, MappedAnswer>>
<1> SUFFICES ASSUME EInv, EInv', [Next]_vars
             PROVE  [Promise!Next]_<<GenBatch, MappedStatus, MappedAnswer>>
  OBVIOUS
<1>1. prompts' = prompts
  BY DEF Next, RunFlow, WorkerStep, ManagerStep, StartRollout, CollectOutputs, GetRaises,
         TeacherRaises, ReturnOutput, AlignBatch, WorkerReturns, WorkerRaises, vars, rolloutVars
<1>2. GenBatch' = GenBatch
  BY <1>1, PromptsKept
<1>3. output' = output => \A i : EpisodeAt(i)' = EpisodeAt(i)
  BY <1>2 DEF EpisodeAt
<1>4. CASE manager' = manager /\ (Returned => output' = output)
  <2>1. MappedStatus' = MappedStatus
    BY <1>4 DEF MappedStatus, Returned
  <2>2. MappedAnswer' = MappedAnswer
    BY <1>3, <1>4 DEF MappedAnswer, Returned
  <2>3. QED
    BY <1>2, <2>1, <2>2
<1>5. CASE ~ Returned /\ ~ Returned' /\ manager # "raised"
  <2>1. MappedAnswer' = MappedAnswer /\ MappedAnswer = <<>>
    BY <1>5 DEF MappedAnswer
  <2>2. MappedStatus = "called" /\ MappedStatus' \in {"called", "raised"}
    BY <1>5 DEF MappedStatus
  <2>3. QED
    BY <1>2, <2>1, <2>2 DEF Promise!Next, Promise!Raise, MappedStatus, MappedAnswer
<1>6. CASE ReturnOutput
  <2>1. manager = "collected" /\ manager' = "returned" /\ output' = output
    BY <1>6 DEF ReturnOutput
  <2>2. MappedStatus = "called" /\ MappedStatus' = "returned"
    BY <2>1 DEF MappedStatus, Returned
  <2>3. FlowsRight /\ PromptShape /\ RowsJoined /\ LengthsRight
    BY <2>1 DEF EInv, RInv, OutputRight
  <2>4. DOMAIN output.numSteps = Asked /\ Len(GenBatch) \in Nat
    BY <2>3, AskedCount DEF LengthsRight, Asked
  <2>5. MappedAnswer' = [i \in Asked |-> EpisodeAt(i)]
    BY <1>3, <2>1, <2>4 DEF MappedAnswer, Returned
  <2>6. Len(MappedAnswer') = Len(GenBatch)
    BY <2>4, <2>5 DEF Asked
  <2>7. \A i \in 1 .. Len(GenBatch) : /\ MappedAnswer'[i].prompt = GenBatch[i]
                                      /\ Promise!IsEpisode(MappedAnswer'[i].steps)
    BY <2>3, <2>5, EpisodeIs DEF Asked
  <2>8. Promise!Return
    BY <1>2, <2>2, <2>6, <2>7 DEF Promise!Return, MappedStatus, MappedAnswer
  <2>9. QED
    BY <2>8 DEF Promise!Next
<1>7. CASE AlignBatch
  <2>1. manager = "returned" /\ manager' = "aligned" /\ output' = output
    BY <1>7 DEF AlignBatch
  <2>2. MappedStatus' = MappedStatus
    BY <2>1 DEF MappedStatus, Returned
  <2>3. MappedAnswer' = MappedAnswer
    BY <1>3, <2>1 DEF MappedAnswer, Returned
  <2>4. QED
    BY <1>2, <2>2, <2>3
<1>8. CASE UNCHANGED vars
  BY <1>4, <1>8 DEF vars, rolloutVars
<1>9. ASSUME NEW t \in Trajectories, RunFlow(t)
      PROVE  [Promise!Next]_<<GenBatch, MappedStatus, MappedAnswer>>
  BY <1>4, <1>9 DEF RunFlow, rolloutVars
<1>10. ASSUME NEW w \in Workers, WorkerStep(w)
       PROVE  [Promise!Next]_<<GenBatch, MappedStatus, MappedAnswer>>
  BY <1>4, <1>10 DEF WorkerStep, WorkerReturns, WorkerRaises
<1>11. CASE StartRollout \/ CollectOutputs \/ GetRaises \/ TeacherRaises
  <2>1. manager \in {"idle", "waiting", "collected"} /\ manager' \in {"waiting", "collected", "raised"}
    BY <1>11 DEF StartRollout, CollectOutputs, GetRaises, TeacherRaises
  <2>2. QED
    BY <1>5, <2>1 DEF Returned
<1>12. QED
  BY <1>6, <1>7, <1>8, <1>9, <1>10, <1>11 DEF Next, ManagerStep

-----------------------------------------------------------------------------
(* The theorems *)

(* A loop that waits for the LLM or for the reward worker finds the engine *)
(* awake: the manager puts the engines to sleep only after every loop has  *)
(* ended, and leaves them awake when it raises.                            *)
THEOREM RequestsFindEnginesAwake == Spec => []AwakeWhileInUse
<1>1. RInv => AwakeWhileInUse
  <2>1. SUFFICES ASSUME RInv, NEW t \in Trajectories, flow[t].pc \in {"generating", "scoring"}
                 PROVE  awake = {"rollout", "reward"}
    BY DEF AwakeWhileInUse, At
  <2>2. t \in Asked /\ manager # "idle"
    BY <2>1 DEF RInv, OnlyAskedRun, At
  <2>3. manager \notin {"collected", "returned", "aligned"}
    BY <2>1, <2>2 DEF RInv, CollectedIsFinished, At
  <2>4. QED
    BY <2>1, <2>2, <2>3 DEF RInv, AwakeUntilReturn
<1>2. QED
  BY <1>1, InitRInv, NextRInv, PTL DEF Spec

(* The batch of the training holds each trajectory exactly once, with all  *)
(* its steps in order, under a trajectory uid of its own and the uid of    *)
(* its prompt, however many workers there are and however long each        *)
(* trajectory was.                                                         *)
THEOREM BatchHoldsEpisodesWhole == Spec => []EpisodesWhole
<1>1. EInv => EpisodesWhole
  <2>1. SUFFICES ASSUME EInv, manager = "aligned" PROVE EpisodesWhole
    BY DEF EpisodesWhole
  <2>2. PICK off : BatchJoined(off)
    BY <2>1, AlignedJoined
  <2>3. PromptShape /\ 1 .. Len(GenBatch) = Asked /\ FlowsRight /\ Asked \subseteq Trajectories
    BY <2>1 DEF EInv, RInv, Asked, PromptShape
  <2>4. ASSUME NEW t \in Asked
        PROVE  LET mine == {r \in DOMAIN batch : batch[r].from = t} IN
               /\ \A k \in DOMAIN flow[t].steps : \E r \in mine : batch[r].index = k - 1
               /\ \A r \in mine : /\ batch[r].index + 1 \in DOMAIN flow[t].steps
                                  /\ batch[r].step = flow[t].steps[batch[r].index + 1]
               /\ \A q, r \in mine : q < r => batch[q].index < batch[r].index
    <3> DEFINE mine == {r \in DOMAIN batch : batch[r].from = t}
               n == Len(flow[t].steps)
    <3>1. DOMAIN flow[t].steps = 1 .. n /\ n \in Nat
      BY <2>3, RowsOfShape
    <3>2. off[t - 1] \in Nat
      BY <2>2, <2>3 DEF BatchJoined
    <3>3. ASSUME NEW k \in 1 .. n
          PROVE  \E r \in mine : batch[r].index = k - 1
      <4>1. off[t - 1] + k \in DOMAIN batch /\ IsStep(off[t - 1] + k, t, k)
        BY <2>2 DEF BatchJoined
      <4>2. QED
        BY <4>1 DEF IsStep
    <3>4. ASSUME NEW r \in mine
          PROVE  \E k \in 1 .. n : r = off[t - 1] + k /\ batch[r].index = k - 1
                                   /\ batch[r].step = flow[t].steps[k]
      <4>1. PICK u \in Asked : \E k \in 1 .. Len(flow[u].steps) : r = off[u - 1] + k /\ IsStep(r, u, k)
        BY <2>2 DEF BatchJoined
      <4>2. u = t
        BY <4>1 DEF IsStep
      <4>3. QED
        BY <4>1, <4>2 DEF IsStep
    <3>5. ASSUME NEW r \in mine
          PROVE  batch[r].index + 1 \in 1 .. n /\ batch[r].step = flow[t].steps[batch[r].index + 1]
      <4>1. PICK k \in 1 .. n : r = off[t - 1] + k /\ batch[r].index = k - 1
                                /\ batch[r].step = flow[t].steps[k]
        BY <3>4
      <4>2. batch[r].index + 1 = k
        BY <4>1
      <4>3. QED
        BY <4>1, <4>2
    <3>6. ASSUME NEW q \in mine, NEW r \in mine, q < r
          PROVE  batch[q].index < batch[r].index
      <4>1. PICK j \in 1 .. n : q = off[t - 1] + j /\ batch[q].index = j - 1
        BY <3>4
      <4>2. PICK k \in 1 .. n : r = off[t - 1] + k /\ batch[r].index = k - 1
        BY <3>4
      <4>3. j < k
        BY <3>2, <3>6, <4>1, <4>2
      <4>4. QED
        BY <4>1, <4>2, <4>3
    <3> HIDE DEF mine
    <3>7. /\ \A k \in DOMAIN flow[t].steps : \E r \in mine : batch[r].index = k - 1
          /\ \A r \in mine : /\ batch[r].index + 1 \in DOMAIN flow[t].steps
                             /\ batch[r].step = flow[t].steps[batch[r].index + 1]
          /\ \A q, r \in mine : q < r => batch[q].index < batch[r].index
      BY <3>1, <3>3, <3>5, <3>6
    <3>8. QED
      BY <3>7 DEF mine
  <2>5. ASSUME NEW q \in DOMAIN batch, NEW r \in DOMAIN batch
        PROVE  batch[q].trajectory = batch[r].trajectory <=> batch[q].from = batch[r].from
    <3>1. PICK t \in Asked : batch[q].from = t /\ batch[q].trajectory = <<WorkerOf(t), IndexIn(t)>>
      BY <2>2 DEF BatchJoined, IsStep
    <3>2. PICK u \in Asked : batch[r].from = u /\ batch[r].trajectory = <<WorkerOf(u), IndexIn(u)>>
      BY <2>2 DEF BatchJoined, IsStep
    <3>3. WorkerOf(t) = WorkerOf(u) /\ IndexIn(t) = IndexIn(u) => t = u
      BY <2>3, UidsDiffer
    <3>4. QED
      BY <3>1, <3>2, <3>3
  <2>6. \A r \in DOMAIN batch : batch[r].uid = GenBatch[batch[r].from]
    BY <2>1 DEF EInv, BatchRight
  <2>7. QED
    BY <2>3, <2>4, <2>5, <2>6 DEF EpisodesWhole
<1>2. QED
  BY <1>1, InitEInv, NextEInv, PTL DEF Spec

(* A row that ends an episode carries the score of the reward worker. *)
THEOREM AnswersAreScored == Spec => []FinalAnswersScored
<1>1. EInv => FinalAnswersScored
  <2>1. SUFFICES ASSUME EInv, NEW r \in DOMAIN batch, batch[r].step.done
                 PROVE  batch[r].step.reward \in Scores
    BY DEF FinalAnswersScored
  <2>2. manager = "aligned"
    BY <2>1 DEF EInv, BatchRight
  <2>3. PICK off : BatchJoined(off)
    BY <2>1, <2>2, AlignedJoined
  <2>4. PICK t \in Asked : \E k \in 1 .. Len(flow[t].steps) : batch[r].step = flow[t].steps[k]
    BY <2>3 DEF BatchJoined, IsStep
  <2>5. FlowRight(flow[t])
    BY <2>1 DEF EInv, RInv, PromptShape, FlowsRight
  <2>6. QED
    BY <2>1, <2>4, <2>5 DEF FlowRight
<1>2. QED
  BY <1>1, InitEInv, NextEInv, PTL DEF Spec

(* The rollout keeps its promise: it raises, or returns once, with one     *)
(* whole episode for each prompt, in the order of the request.             *)
THEOREM PromiseKept == Spec => KeepsPromise
<1>1. Init => Promise!Init
  BY PromiseInit
<1>2. EInv /\ EInv' /\ [Next]_vars => [Promise!Next]_<<GenBatch, MappedStatus, MappedAnswer>>
  BY PromiseStep
<1>3. QED
  BY <1>1, <1>2, InitEInv, NextEInv, PTL DEF Spec, KeepsPromise, Promise!Spec, MappedStatus, MappedAnswer

(* A validation adds up, shows and dumps of each trajectory exactly its    *)
(* own steps, each prompt once, and it fails only where the last           *)
(* trajectory has no step.                                                 *)
THEOREM ValidationReportsItsOwn == ValidationSpec => []ReportsItsOwn
<1>1. VInv => ReportsItsOwn
  BY ReportsRight
<1>2. QED
  BY <1>1, InitVInv, NextVInv, PTL DEF ValidationSpec
=============================================================================
