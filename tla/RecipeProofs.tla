---------------------------- MODULE RecipeProofs ----------------------------
(***************************************************************************)
(* Theorems about the episodes of the recipes: of the paper search agent,  *)
(* for every number of steps and concurrent calls, all papers and queries; *)
(* of the HotpotQA and ALFWorld flows, for any limits, commands and        *)
(* rewards.                                                                *)
(***************************************************************************)
EXTENDS RecipeFlows, PaperSearch, SequenceFacts, TLAPS

-----------------------------------------------------------------------------
(* Paper search: the neighbours of a paper are asked for at most once. *)

(* What was asked for is in the pool, so the invariant needs no types. *)
FetchedFromPool == fetched \in Seq(DOMAIN pool)

FetchedInv == FetchedFromPool /\ ExpandedOnce

-----------------------------------------------------------------------------
(* The pool only grows; what holds of its papers goes on holding. *)
LEMMA PoolGrows ==
  ASSUME FetchedInv, UNCHANGED <<expanded, fetched>>, DOMAIN pool \subseteq DOMAIN pool'
  PROVE  FetchedInv'
<1>1. fetched \in Seq(DOMAIN pool')
  BY DEF FetchedInv, FetchedFromPool
<1>2. QED
  BY <1>1 DEF FetchedInv, FetchedFromPool, ExpandedOnce

LEMMA InitFetchedInv == PaperInit => FetchedInv
BY DEF PaperInit, FetchedInv, FetchedFromPool, ExpandedOnce, IsInjective, Range

LEMMA StartExpandFetchedInv ==
  ASSUME FetchedInv, NEW i, StartExpand(i)
  PROVE  FetchedInv'
<1> DEFINE p == calls[i].arg
<1>1. pool' = pool
  BY DEF StartExpand
<1>2. CASE p \notin DOMAIN pool \/ p \in expanded
  BY <1>1, <1>2, PoolGrows DEF StartExpand
<1>3. CASE p \in DOMAIN pool /\ p \notin expanded
  <2>1. expanded' = expanded \union {p} /\ fetched' = Append(fetched, p)
    BY <1>3 DEF StartExpand
  <2>2. /\ fetched \in Seq(DOMAIN pool) /\ IsInjective(fetched)
        /\ Range(fetched) = expanded /\ expanded \subseteq DOMAIN pool
    BY DEF FetchedInv, FetchedFromPool, ExpandedOnce
  <2>3. /\ fetched' \in Seq(DOMAIN pool) /\ IsInjective(fetched')
        /\ Range(fetched') = Range(fetched) \union {p}
    BY <1>3, <2>1, <2>2, AppendNew
  <2>4. QED
    BY <1>1, <1>3, <2>1, <2>2, <2>3 DEF FetchedInv, FetchedFromPool, ExpandedOnce
<1>4. QED
  BY <1>2, <1>3

LEMMA ScoresArriveFetchedInv ==
  ASSUME FetchedInv, NEW i, ScoresArrive(i)
  PROVE  FetchedInv'
<1>1. UNCHANGED <<expanded, fetched>> /\ DOMAIN pool \subseteq DOMAIN pool'
  BY DEF ScoresArrive
<1>2. QED
  BY <1>1, PoolGrows

LEMMA OthersFetchedInv ==
  ASSUME FetchedInv, UNCHANGED <<pool, expanded, fetched>>
  PROVE  FetchedInv'
BY PoolGrows

LEMMA NextFetchedInv == FetchedInv /\ [PaperNext]_paperVars => FetchedInv'
<1> SUFFICES ASSUME FetchedInv, [PaperNext]_paperVars PROVE FetchedInv'
  OBVIOUS
<1>1. CASE StopSearching \/ ExecuteToolCalls \/ FinishStep
  BY <1>1, OthersFetchedInv DEF StopSearching, ExecuteToolCalls, FinishStep
<1>2. ASSUME NEW i \in DOMAIN calls, CallStep(i) PROVE FetchedInv'
  <2>1. CASE StartSearch(i) \/ ServiceAnswers(i) \/ ServiceFails(i)
    BY <2>1, OthersFetchedInv DEF StartSearch, ServiceAnswers, ServiceFails
  <2>2. CASE StartExpand(i)
    BY <2>2, StartExpandFetchedInv
  <2>3. CASE ScoresArrive(i)
    BY <2>3, ScoresArriveFetchedInv
  <2>4. QED
    BY <1>2, <2>1, <2>2, <2>3 DEF CallStep
<1>3. CASE UNCHANGED paperVars
  BY <1>3, OthersFetchedInv DEF paperVars
<1>4. QED
  BY <1>1, <1>2, <1>3 DEF PaperNext

-----------------------------------------------------------------------------
(* However the calls of a step interleave, the paper service is asked for  *)
(* the neighbours of a paper at most once, and only for papers of the pool *)
(* (PaperSearchRuntime.expand).                                            *)
THEOREM NeverExpandedTwice == PaperSpec => []ExpandedOnce
<1>1. FetchedInv => ExpandedOnce
  BY DEF FetchedInv
<1>2. QED
  BY <1>1, InitFetchedInv, NextFetchedInv, PTL DEF PaperSpec

-----------------------------------------------------------------------------
(* Paper search: a paper is kept and paid for once. *)

(* Two lists without repetitions that share no element. *)
LEMMA ConcatNew ==
  ASSUME NEW P, NEW s \in Seq(P), NEW r \in Seq(P), IsInjective(s), IsInjective(r),
         Range(s) \cap Range(r) = {}
  PROVE  /\ s \o r \in Seq(P) /\ IsInjective(s \o r)
         /\ Range(s \o r) = Range(s) \cup Range(r)
<1> DEFINE m == Len(s)
           n == Len(r)
           t == s \o r
<1>1. /\ m \in Nat /\ n \in Nat /\ t \in Seq(P) /\ Len(t) = m + n /\ DOMAIN t = 1 .. m + n
      /\ DOMAIN s = 1 .. m /\ DOMAIN r = 1 .. n
      /\ (\A i \in 1 .. m : t[i] = s[i]) /\ \A i \in 1 .. n : t[m + i] = r[i]
  OBVIOUS
<1> HIDE DEF m, n, t
<1>2. \A i \in DOMAIN t : i \in DOMAIN s \/ \E k \in DOMAIN r : i = m + k
  <2>1. SUFFICES ASSUME NEW i \in DOMAIN t, i \notin DOMAIN s PROVE \E k \in DOMAIN r : i = m + k
    OBVIOUS
  <2>2. i - m \in DOMAIN r /\ i = m + (i - m)
    BY <1>1, <2>1
  <2>3. QED
    BY <2>2
<1>3. DOMAIN s \subseteq DOMAIN t /\ \A k \in DOMAIN r : m + k \in DOMAIN t
  BY <1>1
<1>4. Range(t) = Range(s) \cup Range(r)
  BY <1>1, <1>2, <1>3 DEF Range
<1>5. IsInjective(t)
  <2>1. SUFFICES ASSUME NEW a \in DOMAIN t, NEW b \in DOMAIN t, t[a] = t[b] PROVE a = b
    BY DEF IsInjective
  <2>2. \A i \in DOMAIN s, k \in DOMAIN r : s[i] # r[k]
    BY DEF Range
  <2>3. CASE a \in DOMAIN s
    <3>1. b \in DOMAIN s
      BY <1>1, <1>2, <2>1, <2>2, <2>3
    <3>2. QED
      BY <1>1, <2>1, <2>3, <3>1 DEF IsInjective
  <2>4. CASE a \notin DOMAIN s
    <3>1. PICK k \in DOMAIN r : a = m + k
      BY <1>2, <2>4
    <3>2. b \notin DOMAIN s
      BY <1>1, <2>1, <2>2, <3>1
    <3>3. PICK j \in DOMAIN r : b = m + j
      BY <1>2, <3>2
    <3>4. r[k] = r[j]
      BY <1>1, <2>1, <3>1, <3>3
    <3>5. QED
      BY <3>1, <3>3, <3>4 DEF IsInjective
  <2>5. QED
    BY <2>3, <2>4
<1>6. QED
  BY <1>1, <1>4, <1>5 DEF t

CallType ==
  [kind : {"search", "expand"}, arg : SearchQueries \cup Papers,
   pc : {"ready", "asking", "scoring", "done"}, found : Seq(Papers), reward : Int]

(* A call finds a paper once, and is paid when it is done. *)
CallRight(c) ==
  c \in CallType /\ IsInjective(c.found) /\ (c.pc # "done" => c.reward = 0)

CallsRight ==
  /\ calls \in Seq(CallType) /\ \A i \in DOMAIN calls : CallRight(calls[i])
  /\ pc # "execute" => calls = <<>>

PoolRight ==
  /\ ordered \in Seq(Papers) /\ IsInjective(ordered)
  /\ pool \in [Range(ordered) -> Nat]

(* What the calls of the step have earned, and what the papers are worth. *)
Earned == [i \in DOMAIN calls |-> calls[i].reward]
Value == [k \in DOMAIN ordered |-> Worth(pool[ordered[k]])]

PaidInv ==
  /\ rewards \in Seq(Int) /\ CallsRight /\ PoolRight
  /\ Sum(rewards) + Sum(Earned) <= Sum(Value)

LEMMA WorthType ==
  ASSUME NEW score \in Nat
  PROVE  Worth(score) \in Nat
BY SearchAssumption DEF Worth

LEMMA ValueType ==
  ASSUME PoolRight
  PROVE  Value \in Seq(Int)
<1>1. \A k \in DOMAIN ordered : pool[ordered[k]] \in Nat
  BY DEF PoolRight, Range
<1>2. \A k \in DOMAIN ordered : Worth(pool[ordered[k]]) \in Int
  BY <1>1, WorthType
<1>3. DOMAIN ordered = 1 .. Len(ordered) /\ Len(ordered) \in Nat
  BY DEF PoolRight
<1>4. QED
  BY <1>2, <1>3 DEF Value

LEMMA EarnedType ==
  ASSUME CallsRight
  PROVE  /\ Earned \in [1 .. Len(calls) -> Int] /\ Len(calls) \in Nat /\ Earned \in Seq(Int)
         /\ DOMAIN calls = 1 .. Len(calls)
<1>1. DOMAIN calls = 1 .. Len(calls) /\ Len(calls) \in Nat
  BY DEF CallsRight
<1>2. \A i \in DOMAIN calls : calls[i].reward \in Int
  BY DEF CallsRight, CallRight, CallType
<1>3. QED
  BY <1>1, <1>2 DEF Earned

LEMMA PaidInvPaidOnce == PaidInv => PaidOnce
<1>1. SUFFICES ASSUME PaidInv PROVE PaidOnce
  OBVIOUS
<1>2. IsInjective(ordered) /\ Range(ordered) = DOMAIN pool
  BY <1>1 DEF PaidInv, PoolRight
<1>3. /\ Sum([i \in DOMAIN calls |-> calls[i].reward]) = Sum(Earned)
      /\ Sum([k \in DOMAIN ordered |-> Worth(pool[ordered[k]])]) = Sum(Value)
  BY DEF Earned, Value
<1>4. QED
  BY <1>1, <1>2, <1>3 DEF PaidInv, PaidOnce

LEMMA InitPaidInv == PaperInit => PaidInv
<1>1. SUFFICES ASSUME PaperInit PROVE PaidInv
  OBVIOUS
<1>2. rewards = <<>> /\ calls = <<>> /\ ordered = <<>> /\ pool = <<>> /\ pc = "generate"
  BY <1>1 DEF PaperInit
<1>3. Earned = <<>> /\ Value = <<>>
  BY <1>2 DEF Earned, Value
<1>4. CallsRight
  BY <1>2 DEF CallsRight
<1>5. PoolRight
  BY <1>2 DEF PoolRight, IsInjective, Range
<1>6. rewards \in Seq(Int)
  BY <1>2
<1>7. QED
  BY <1>2, <1>3, <1>4, <1>5, <1>6, SumNone DEF PaidInv

(* One call goes on; what it earns is covered by what the pool gains. *)
LEMMA CallGoesOn ==
  ASSUME CallsRight, NEW i \in DOMAIN calls, NEW c, CallRight(c), calls[i].pc # "done",
         calls' = [calls EXCEPT ![i] = c], pc' = pc, pc = "execute"
  PROVE  CallsRight' /\ Sum(Earned') = Sum(Earned) + c.reward /\ Sum(Earned) \in Int
<1>1. /\ calls \in Seq(CallType) /\ DOMAIN calls = 1 .. Len(calls) /\ Len(calls) \in Nat
      /\ c \in CallType
  BY DEF CallsRight, CallRight
<1>2. /\ calls' \in Seq(CallType) /\ DOMAIN calls' = DOMAIN calls /\ calls'[i] = c
      /\ Len(calls') = Len(calls)
      /\ \A k \in DOMAIN calls : k # i => calls'[k] = calls[k]
  BY <1>1
<1>3. CallsRight'
  <2>1. \A k \in DOMAIN calls : CallRight(calls'[k])
    BY <1>2 DEF CallsRight
  <2>2. QED
    BY <1>2, <2>1 DEF CallsRight
<1>4. Earned \in [1 .. Len(calls) -> Int]
  BY EarnedType
<1>5. Earned' \in [1 .. Len(calls) -> Int]
  <2>1. Earned' = [k \in DOMAIN calls' |-> calls'[k].reward]
    BY DEF Earned
  <2>2. \A k \in DOMAIN calls : calls'[k].reward \in Int
    BY <1>2, <1>3 DEF CallsRight, CallRight, CallType
  <2>3. QED
    BY <1>1, <1>2, <2>1, <2>2
<1>6. \A k \in 1 .. Len(calls) : k # i => Earned'[k] = Earned[k]
  BY <1>1, <1>2 DEF Earned
<1>7. Earned[i] = 0 /\ Earned'[i] = c.reward /\ c.reward \in Int
  BY <1>1, <1>2 DEF Earned, CallsRight, CallRight, CallType
<1>8. Sum(Earned) \in Int /\ Sum(Earned') = (Sum(Earned) - Earned[i]) + Earned'[i]
  BY <1>1, <1>4, <1>5, <1>6, SumUpdate
<1>9. QED
  BY <1>3, <1>7, <1>8

LEMMA TaskStepPaidInv ==
  ASSUME PaidInv, NEW i \in DOMAIN calls, NEW c, CallRight(c), calls[i].pc # "done",
         calls' = [calls EXCEPT ![i] = c], c.reward <= 0,
         UNCHANGED <<pc, rewards, pool, ordered>>
  PROVE  PaidInv'
<1>1. pc = "execute"
  BY DEF PaidInv, CallsRight
<1>2. CallsRight' /\ Sum(Earned') = Sum(Earned) + c.reward /\ Sum(Earned) \in Int
  BY <1>1, CallGoesOn DEF PaidInv
<1>3. PoolRight' /\ Value' = Value
  BY DEF PaidInv, PoolRight, Value
<1>4. Sum(rewards) \in Int /\ Sum(Value) \in Int
  BY SumConcat, ValueType DEF PaidInv
<1>5. c.reward \in Int
  BY DEF CallRight, CallType
<1>6. Sum(rewards) + Sum(Earned') <= Sum(Value)
  BY <1>2, <1>4, <1>5 DEF PaidInv
<1>7. QED
  BY <1>2, <1>3, <1>6 DEF PaidInv

(* The two forms in which a call is changed. *)
LEMMA FinishRight ==
  ASSUME CallsRight, NEW i \in DOMAIN calls, NEW reward \in Int
  PROVE  \E c : CallRight(c) /\ c.reward = reward /\ Finish(i, reward) = [calls EXCEPT ![i] = c]
<1> DEFINE c == [calls[i] EXCEPT !.pc = "done", !.reward = reward]
<1>1. CallRight(calls[i]) /\ calls \in Seq(CallType)
  BY DEF CallsRight
<1>2. CallRight(c) /\ c.reward = reward
  BY <1>1 DEF CallRight, CallType
<1>3. Finish(i, reward) = [calls EXCEPT ![i] = c]
  BY <1>1 DEF Finish
<1>4. QED
  BY <1>2, <1>3

LEMMA AdvanceRight ==
  ASSUME CallsRight, NEW i \in DOMAIN calls, calls[i].pc # "done",
         NEW at \in {"asking", "scoring"}, NEW found \in Seq(Papers), IsInjective(found)
  PROVE  LET c == [calls[i] EXCEPT !.pc = at, !.found = found]
         IN  CallRight(c) /\ c.reward = 0
<1>1. CallRight(calls[i])
  BY DEF CallsRight
<1>2. QED
  BY <1>1 DEF CallRight, CallType

LEMMA StartsPaidInv ==
  ASSUME PaidInv, NEW i \in DOMAIN calls, StartSearch(i) \/ StartExpand(i)
  PROVE  PaidInv'
<1> USE DEF Refused
<1>1. /\ CallsRight /\ calls[i].pc = "ready" /\ UNCHANGED <<pc, rewards, pool, ordered>>
      /\ calls' \in {Finish(i, -1), [calls EXCEPT ![i].pc = "asking"]}
  BY DEF PaidInv, StartSearch, StartExpand, NextToStart
<1>2. CASE calls' = Finish(i, -1)
  <2>1. PICK c : CallRight(c) /\ c.reward = -1 /\ Finish(i, -1) = [calls EXCEPT ![i] = c]
    BY <1>1, FinishRight
  <2>2. QED
    BY <1>1, <1>2, <2>1, TaskStepPaidInv
<1>3. CASE calls' = [calls EXCEPT ![i].pc = "asking"]
  <2> DEFINE c == [calls[i] EXCEPT !.pc = "asking"]
  <2>1. CallRight(calls[i]) /\ calls \in Seq(CallType)
    BY <1>1 DEF CallsRight
  <2>2. CallRight(c) /\ c.reward = 0
    BY <1>1, <2>1 DEF CallRight, CallType
  <2>3. calls' = [calls EXCEPT ![i] = c]
    BY <1>3
  <2>4. PICK d : d = c
    OBVIOUS
  <2>5. CallRight(d) /\ d.reward <= 0 /\ calls' = [calls EXCEPT ![i] = d]
    <3> HIDE DEF c
    <3> QED BY <2>2, <2>3, <2>4
  <2> HIDE DEF c
  <2>6. QED
    BY <1>1, <2>5, TaskStepPaidInv
<1>4. QED
  BY <1>1, <1>2, <1>3

LEMMA AnswersPaidInv ==
  ASSUME PaidInv, NEW i \in DOMAIN calls, ServiceAnswers(i) \/ ServiceFails(i)
  PROVE  PaidInv'
<1>1. /\ CallsRight /\ calls[i].pc = "asking" /\ UNCHANGED <<pc, rewards, pool, ordered>>
  BY DEF PaidInv, ServiceAnswers, ServiceFails
<1>2. CASE calls' = Finish(i, 0)
  <2>1. PICK c : CallRight(c) /\ c.reward = 0 /\ Finish(i, 0) = [calls EXCEPT ![i] = c]
    BY <1>1, FinishRight
  <2>2. QED
    BY <1>1, <1>2, <2>1, TaskStepPaidInv
<1>3. CASE calls' # Finish(i, 0)
  <2>1. PICK answer \in Listings(i) :
          LET new == Among(answer, Papers \ DOMAIN pool)
          IN  calls' = [calls EXCEPT ![i].pc = "scoring", ![i].found = new]
    BY <1>3 DEF ServiceAnswers, ServiceFails
  <2> DEFINE new == Among(answer, Papers \ DOMAIN pool)
             c == [calls[i] EXCEPT !.pc = "scoring", !.found = new]
  <2>2. answer \in Seq(Papers) /\ IsInjective(answer)
    BY <2>1, SearchAssumption DEF Listings, SeqOf
  <2>3. new \in Seq(Papers) /\ IsInjective(new)
    BY <2>2, AmongFacts
  <2> HIDE DEF new
  <2>4. CallRight(c) /\ c.reward = 0
    BY <1>1, <2>3, AdvanceRight
  <2>5. calls' = [calls EXCEPT ![i] = c]
    <3>1. calls' = [calls EXCEPT ![i].pc = "scoring", ![i].found = new]
      BY <2>1 DEF new
    <3>2. calls \in Seq(CallType) /\ calls[i] \in CallType
      BY <1>1 DEF CallsRight
    <3>3. QED
      BY <3>1, <3>2 DEF CallType
  <2>6. PICK d : d = c
    OBVIOUS
  <2>7. CallRight(d) /\ d.reward <= 0 /\ calls' = [calls EXCEPT ![i] = d]
    <3> HIDE DEF c
    <3> QED BY <2>4, <2>5, <2>6
  <2> HIDE DEF c
  <2>8. QED
    BY <1>1, <2>7, TaskStepPaidInv
<1>4. QED
  BY <1>2, <1>3

(* A call is not paid more than its papers are worth. *)
LEMMA RewardCovered ==
  ASSUME NEW n \in Nat, NEW kept \in [1 .. n -> Nat]
  PROVE  LET worth == [k \in 1 .. n |-> Worth(kept[k])]
         IN  /\ worth \in Seq(Int) /\ Sum(worth) \in Int
             /\ CallReward(kept) \in Int /\ CallReward(kept) <= Sum(worth)
<1> DEFINE worth == [k \in 1 .. n |-> Worth(kept[k])]
           paid == [k \in 1 .. n |-> IF k \in TopScores(kept) THEN Worth(kept[k]) ELSE 0]
<1>1. DOMAIN kept = 1 .. n
  OBVIOUS
<1>2. CallReward(kept) = Sum(paid)
  BY <1>1 DEF CallReward
<1>3. \A k \in 1 .. n : Worth(kept[k]) \in Nat
  BY WorthType
<1>4. /\ worth \in [1 .. n -> Int] /\ paid \in [1 .. n -> Int]
      /\ \A k \in 1 .. n : paid[k] <= worth[k]
  BY <1>3
<1> HIDE DEF paid, worth
<1>5. Sum(paid) \in Int /\ Sum(worth) \in Int /\ Sum(paid) <= Sum(worth)
  BY <1>4, SumMonotone
<1>6. worth \in Seq(Int)
  BY <1>4
<1>7. QED
  BY <1>2, <1>5, <1>6 DEF worth

LEMMA ScoresArrivePaidInv ==
  ASSUME PaidInv, NEW i \in DOMAIN calls, ScoresArrive(i)
  PROVE  PaidInv'
<1>1. PICK relevance \in [Range(calls[i].found) -> Relevances \union {0}] :
        LET kept == Kept(i, relevance) IN
        /\ pool' = [p \in DOMAIN pool \union Range(kept) |->
                     IF p \in DOMAIN pool THEN pool[p] ELSE relevance[p]]
        /\ ordered' = ordered \o kept
        /\ calls' = Finish(i, Paid(i, relevance))
  BY DEF ScoresArrive
<1> DEFINE found == calls[i].found
           kept == Kept(i, relevance)
           scores == [k \in DOMAIN kept |-> relevance[kept[k]]]
           reward == CallReward(scores)
           worth == [k \in 1 .. Len(kept) |-> Worth(scores[k])]
<1>2. /\ pool' = [p \in DOMAIN pool \union Range(kept) |->
                   IF p \in DOMAIN pool THEN pool[p] ELSE relevance[p]]
      /\ ordered' = ordered \o kept
      /\ calls' = Finish(i, reward)
  BY <1>1 DEF Paid
<1>3. CallsRight /\ PoolRight /\ calls[i].pc = "scoring" /\ UNCHANGED <<pc, rewards>>
  BY DEF PaidInv, ScoresArrive
<1>4. found \in Seq(Papers) /\ IsInjective(found)
  BY <1>3 DEF CallsRight, CallRight, CallType
<1>5. /\ kept \in Seq(Papers) /\ IsInjective(kept)
      /\ Range(kept) = Range(found) \cap {p \in Range(found) : relevance[p] > 0 /\ p \notin DOMAIN pool}
  BY <1>4, AmongFacts DEF Kept
<1>6. /\ Len(kept) \in Nat /\ DOMAIN kept = 1 .. Len(kept)
      /\ Range(kept) \cap DOMAIN pool = {} /\ Range(kept) \subseteq Range(found)
      /\ \A k \in DOMAIN kept : kept[k] \in Range(kept)
  <2>1. Len(kept) \in Nat /\ DOMAIN kept = 1 .. Len(kept)
    <3> HIDE DEF kept
    <3> QED BY <1>5
  <2>2. Range(kept) \cap DOMAIN pool = {} /\ Range(kept) \subseteq Range(found)
    <3> HIDE DEF kept, found
    <3> QED BY <1>5
  <2>3. \A k \in DOMAIN kept : kept[k] \in Range(kept)
    <3> HIDE DEF kept
    <3> QED BY DEF Range
  <2>4. QED
    BY <2>1, <2>2, <2>3
<1>7. \A p \in Range(found) : relevance[p] \in Nat
  <2>1. relevance \in [Range(found) -> Relevances \union {0}]
    BY <1>1
  <2>2. Relevances \union {0} \subseteq Nat
    BY SearchAssumption
  <2> HIDE DEF found
  <2>3. \A p \in Range(found) : relevance[p] \in Relevances \union {0}
    BY <2>1
  <2>4. QED
    BY <2>2, <2>3
<1> HIDE DEF kept, found
<1>8. scores \in [1 .. Len(kept) -> Nat] /\ \A k \in 1 .. Len(kept) : scores[k] = relevance[kept[k]]
  BY <1>6, <1>7
<1> HIDE DEF scores
<1>9. /\ worth \in Seq(Int) /\ Sum(worth) \in Int
      /\ reward \in Int /\ reward <= Sum(worth)
  BY <1>6, <1>8, RewardCovered
<1>10. DOMAIN pool = Range(ordered) /\ ordered \in Seq(Papers) /\ IsInjective(ordered)
       /\ \A p \in DOMAIN pool : pool[p] \in Nat
  BY <1>3 DEF PoolRight
<1>11. /\ ordered' \in Seq(Papers) /\ IsInjective(ordered')
       /\ Range(ordered') = Range(ordered) \cup Range(kept)
  <2>1. Range(ordered) \cap Range(kept) = {}
    BY <1>6, <1>10
  <2>2. QED
    BY <1>2, <1>5, <1>10, <2>1, ConcatNew
<1>12. PoolRight'
  <2>1. DOMAIN pool' = Range(ordered') /\ \A p \in DOMAIN pool' : pool'[p] \in Nat
    BY <1>2, <1>6, <1>7, <1>10, <1>11
  <2>2. pool' = [p \in DOMAIN pool' |-> pool'[p]]
    BY <1>2
  <2>3. pool' \in [Range(ordered') -> Nat]
    BY <2>1, <2>2
  <2>4. QED
    BY <1>11, <2>3 DEF PoolRight
<1>13. Value' = Value \o worth
  <2> DEFINE m == Len(ordered)
             n == Len(kept)
  <2>1. /\ m \in Nat /\ n \in Nat /\ DOMAIN ordered = 1 .. m /\ DOMAIN ordered' = 1 .. m + n
        /\ (\A k \in 1 .. m : ordered'[k] = ordered[k]) /\ Len(ordered') = m + n
        /\ \A k \in 1 .. n : ordered'[m + k] = kept[k]
    BY <1>2, <1>5, <1>10
  <2>2. Value' = [k \in DOMAIN ordered' |-> Worth(pool'[ordered'[k]])]
    BY DEF Value
  <2>3. Value \in Seq(Int) /\ Len(Value) = m /\ \A k \in 1 .. m : Value[k] = Worth(pool[ordered[k]])
    BY <1>3, <2>1, ValueType DEF Value
  <2>4. Len(worth) = n /\ worth \in Seq(Int) /\ \A k \in 1 .. n : worth[k] = Worth(scores[k])
    BY <1>6, <1>9
  <2> HIDE DEF m, n, worth
  <2>5. \A k \in 1 .. m : k \in DOMAIN ordered' /\ Value'[k] = Value[k]
    <3>1. SUFFICES ASSUME NEW k \in 1 .. m PROVE k \in DOMAIN ordered' /\ Value'[k] = Value[k]
      OBVIOUS
    <3>2. k \in DOMAIN ordered' /\ ordered'[k] = ordered[k] /\ ordered[k] \in DOMAIN pool
      BY <1>10, <2>1 DEF Range
    <3>3. pool'[ordered[k]] = pool[ordered[k]]
      BY <1>2, <3>2
    <3>4. QED
      BY <2>2, <2>3, <3>2, <3>3
  <2>6. \A k \in 1 .. n : m + k \in DOMAIN ordered' /\ Value'[m + k] = worth[k]
    <3>1. SUFFICES ASSUME NEW k \in 1 .. n PROVE m + k \in DOMAIN ordered' /\ Value'[m + k] = worth[k]
      OBVIOUS
    <3>2. m + k \in DOMAIN ordered' /\ ordered'[m + k] = kept[k]
      BY <2>1
    <3>3. kept[k] \in Range(kept) /\ kept[k] \notin DOMAIN pool
      BY <1>6, <3>1 DEF n
    <3>4. pool'[kept[k]] = relevance[kept[k]]
      BY <1>2, <3>3
    <3>5. scores[k] = relevance[kept[k]]
      BY <1>8, <3>1 DEF n
    <3>6. QED
      BY <2>2, <2>4, <3>2, <3>4, <3>5
  <2>7. Value' \in Seq(Int) /\ Len(Value') = m + n
    <3>1. Value' \in Seq(Int)
      <4>1. \A k \in DOMAIN ordered' : k \in 1 .. m \/ \E j \in 1 .. n : k = m + j
        <5>1. SUFFICES ASSUME NEW k \in DOMAIN ordered', k \notin 1 .. m
                       PROVE  \E j \in 1 .. n : k = m + j
          OBVIOUS
        <5>2. k - m \in 1 .. n /\ k = m + (k - m)
          BY <2>1, <5>1
        <5>3. QED
          BY <5>2
      <4>2. \A k \in 1 .. m : Value[k] \in Int
        BY <2>3
      <4>3. \A k \in 1 .. n : worth[k] \in Int
        BY <2>4
      <4>4. \A k \in DOMAIN ordered' : Value'[k] \in Int
        BY <2>5, <2>6, <4>1, <4>2, <4>3
      <4>5. DOMAIN ordered' = 1 .. m + n /\ m + n \in Nat
        BY <2>1
      <4>6. QED
        BY <2>2, <4>4, <4>5
    <3>2. QED
      BY <2>1, <2>2, <3>1
  <2>8. /\ Value \o worth \in Seq(Int) /\ Len(Value \o worth) = m + n
        /\ (\A k \in 1 .. m : (Value \o worth)[k] = Value[k])
        /\ \A k \in 1 .. n : (Value \o worth)[m + k] = worth[k]
    <3>1. Value \in Seq(Int) /\ Len(Value) = m /\ worth \in Seq(Int) /\ Len(worth) = n
      BY <2>3, <2>4
    <3>2. /\ Value \o worth \in Seq(Int) /\ Len(Value \o worth) = Len(Value) + Len(worth)
          /\ (\A k \in 1 .. Len(Value) : (Value \o worth)[k] = Value[k])
          /\ \A k \in 1 .. Len(worth) : (Value \o worth)[Len(Value) + k] = worth[k]
      <4>1. PICK a \in Seq(Int), b \in Seq(Int) : a = Value /\ b = worth
        BY <3>1
      <4>2. /\ a \o b \in Seq(Int) /\ Len(a \o b) = Len(a) + Len(b)
            /\ (\A k \in 1 .. Len(a) : (a \o b)[k] = a[k])
            /\ \A k \in 1 .. Len(b) : (a \o b)[Len(a) + k] = b[k]
        BY ConcatElements
      <4>3. QED
        BY <4>1, <4>2
    <3>3. QED
      BY <3>1, <3>2
  <2>9. \A k \in 1 .. m + n : Value'[k] = (Value \o worth)[k]
    <3>1. SUFFICES ASSUME NEW k \in 1 .. m + n PROVE Value'[k] = (Value \o worth)[k]
      OBVIOUS
    <3>2. CASE k \in 1 .. m
      BY <2>5, <2>8, <3>2
    <3>3. CASE k \notin 1 .. m
      <4>1. k - m \in 1 .. n /\ k = m + (k - m)
        BY <2>1, <3>3
      <4>2. QED
        BY <2>6, <2>8, <4>1
    <3>4. QED
      BY <3>2, <3>3
  <2>10. QED
    <3>1. ASSUME NEW a \in Seq(Int), NEW b \in Seq(Int), Len(a) = m + n, Len(b) = m + n,
                 \A k \in 1 .. m + n : a[k] = b[k]
          PROVE  a = b
      BY <3>1
    <3> HIDE DEF Value
    <3>2. QED
      BY <2>7, <2>8, <2>9, <3>1
<1>14. Sum(Value) \in Int /\ Sum(Value') = Sum(Value) + Sum(worth)
  BY <1>3, <1>9, <1>13, ValueType, SumConcat
<1>15. PICK c : CallRight(c) /\ c.reward = reward /\ Finish(i, reward) = [calls EXCEPT ![i] = c]
  BY <1>3, <1>9, FinishRight
<1>16. CallsRight' /\ Sum(Earned') = Sum(Earned) + reward /\ Sum(Earned) \in Int
  <2>1. pc = "execute"
    BY <1>3 DEF CallsRight
  <2>2. QED
    BY <1>2, <1>3, <1>15, <2>1, CallGoesOn
<1>17. Sum(rewards) \in Int /\ rewards \in Seq(Int) /\ Sum(rewards) + Sum(Earned) <= Sum(Value)
  BY SumConcat DEF PaidInv
<1>18. Sum(rewards) + Sum(Earned') <= Sum(Value')
  BY <1>9, <1>14, <1>16, <1>17
<1>19. QED
  BY <1>3, <1>12, <1>16, <1>17, <1>18 DEF PaidInv

LEMMA StepsPaidInv ==
  ASSUME PaidInv, StopSearching \/ ExecuteToolCalls \/ FinishStep
  PROVE  PaidInv'
<1>1. CallsRight /\ PoolRight /\ rewards \in Seq(Int) /\ Sum(rewards) \in Int /\ Sum(Earned) \in Int
      /\ Sum(rewards) + Sum(Earned) <= Sum(Value) /\ Earned \in Seq(Int)
  BY SumConcat, EarnedType DEF PaidInv
<1>2. PoolRight' /\ Value' = Value
  BY <1>1 DEF PoolRight, Value, StopSearching, ExecuteToolCalls, FinishStep
<1>3. ASSUME NEW cs, cs = <<>> PROVE Sum([i \in DOMAIN cs |-> cs[i].reward]) = 0
  <2>1. [i \in DOMAIN cs |-> cs[i].reward] = <<>>
    BY <1>3
  <2>2. QED
    BY <2>1, SumNone
<1>4. CASE StopSearching
  <2>1. calls = <<>> /\ calls' = <<>> /\ pc' = "finished" /\ rewards' = Append(rewards, 0)
    BY <1>1, <1>4 DEF StopSearching, CallsRight
  <2>2. CallsRight'
    BY <2>1 DEF CallsRight
  <2>3. Sum(Earned) = 0 /\ Sum(Earned') = 0
    BY <1>3, <2>1 DEF Earned
  <2>4. rewards' \in Seq(Int) /\ Sum(rewards') = Sum(rewards) + 0
    BY <1>1, <2>1, SumAppend
  <2>5. QED
    BY <1>1, <1>2, <2>2, <2>3, <2>4 DEF PaidInv
<1>5. CASE ExecuteToolCalls
  <2>1. calls = <<>> /\ pc' = "execute" /\ rewards' = rewards
    BY <1>1, <1>5 DEF ExecuteToolCalls, CallsRight
  <2>2. PICK requests \in SeqOf(Requests, MaxParallelCalls) :
          calls' = [i \in DOMAIN requests |-> NewCall(requests[i])]
    BY <1>5 DEF ExecuteToolCalls
  <2>3. PICK n \in Nat : requests \in [1 .. n -> Requests]
    BY <2>2, SearchAssumption DEF SeqOf
  <2>4. \A r \in Requests : CallRight(NewCall(r)) /\ NewCall(r).reward = 0
    BY DEF Requests, NewCall, CallRight, CallType, IsInjective
  <2>5. /\ DOMAIN calls' = 1 .. n /\ calls' \in Seq(CallType)
        /\ \A i \in 1 .. n : CallRight(calls'[i]) /\ calls'[i].reward = 0
    <3>1. \A i \in 1 .. n : NewCall(requests[i]) \in CallType
      BY <2>3, <2>4 DEF CallRight
    <3>2. QED
      BY <2>2, <2>3, <2>4, <3>1
  <2>6. CallsRight'
    BY <2>1, <2>5 DEF CallsRight
  <2>7. Sum(Earned') = 0
    <3> DEFINE q == [i \in 1 .. n |-> 0]
               f == [i \in 0 .. n |-> 0]
    <3>1. Earned' = q
      BY <2>5 DEF Earned
    <3>2. q \in [1 .. n -> Int] /\ SumsAlong(f, q, n) /\ f[n] = 0
      BY <2>3 DEF SumsAlong
    <3> HIDE DEF q, f
    <3>3. QED
      BY <2>3, <3>1, <3>2, SumIs
  <2>8. Sum(Earned) = 0
    BY <1>3, <2>1 DEF Earned
  <2>9. QED
    BY <1>1, <1>2, <2>1, <2>6, <2>7, <2>8 DEF PaidInv
<1>6. CASE FinishStep
  <2>1. /\ calls' = <<>> /\ rewards' = Append(rewards, Sum(Earned))
    BY <1>6 DEF FinishStep, Earned
  <2>2. CallsRight'
    BY <2>1 DEF CallsRight
  <2>3. rewards' \in Seq(Int) /\ Sum(rewards') = Sum(rewards) + Sum(Earned)
    BY <1>1, <2>1, SumAppend
  <2>4. Sum(Earned') = 0
    BY <1>3, <2>1 DEF Earned
  <2>5. QED
    BY <1>1, <1>2, <2>2, <2>3, <2>4 DEF PaidInv
<1>7. QED
  BY <1>4, <1>5, <1>6

LEMMA NextPaidInv == PaidInv /\ [PaperNext]_paperVars => PaidInv'
<1>1. SUFFICES ASSUME PaidInv, [PaperNext]_paperVars PROVE PaidInv'
  OBVIOUS
<1>2. CASE StopSearching \/ ExecuteToolCalls \/ FinishStep
  BY <1>1, <1>2, StepsPaidInv
<1>3. ASSUME NEW i \in DOMAIN calls, CallStep(i) PROVE PaidInv'
  BY <1>1, <1>3, StartsPaidInv, AnswersPaidInv, ScoresArrivePaidInv DEF CallStep
<1>4. CASE UNCHANGED paperVars
  <2>1. UNCHANGED <<pc, calls, pool, ordered, rewards>>
    BY <1>4 DEF paperVars
  <2>2. CallsRight' /\ PoolRight' /\ Earned' = Earned /\ Value' = Value
    BY <1>1, <2>1 DEF PaidInv, CallsRight, PoolRight, Earned, Value
  <2>3. QED
    BY <1>1, <2>1, <2>2 DEF PaidInv
<1>5. QED
  BY <1>1, <1>2, <1>3, <1>4 DEF PaperNext

(* However the calls of a step interleave and whatever the service and the *)
(* selector answer, the order of discovery lists each paper of the pool    *)
(* once, and the rewards never exceed what these papers are worth          *)
(* (PaperSearchRuntime.search, expand).                                    *)
THEOREM NeverPaidTwice == PaperSpec => []PaidOnce
<1>1. QED
  BY InitPaidInv, NextPaidInv, PaidInvPaidOnce, PTL DEF PaperSpec

-----------------------------------------------------------------------------
(* ALFWorld: the history in the prompt is that of the game. *)

Complaints(n) == [k \in 1 .. n |-> InvalidCall]

AlfHistory ==
  /\ executed \in Seq(AlfCommands)
  /\ observation \in [of : Nat, complaints : Nat]
  /\ alfAt # "raised" => /\ actions = executed \o Complaints(observation.complaints)
                         /\ observation.of = Len(executed)

LEMMA NoneInvalid ==
  ASSUME NEW S, NEW s \in Seq(S)
  PROVE  s \o Complaints(0) = s
<1>1. Complaints(0) = <<>>
  BY DEF Complaints
<1>2. QED
  BY <1>1

(* One complaint more. *)
LEMMA OneMoreInvalid ==
  ASSUME NEW s \in Seq(AlfCommands), NEW n \in Nat
  PROVE  Append(s \o Complaints(n), InvalidCall) = s \o Complaints(n + 1)
<1> DEFINE S == AlfCommands \cup {InvalidCall}
           m == Len(s)
<1>1. s \in Seq(S) /\ m \in Nat
  OBVIOUS
<1>2. /\ Complaints(n) \in Seq(S) /\ Len(Complaints(n)) = n
      /\ Complaints(n + 1) \in Seq(S) /\ Len(Complaints(n + 1)) = n + 1
      /\ (\A k \in 1 .. n : Complaints(n)[k] = InvalidCall)
      /\ \A k \in 1 .. n + 1 : Complaints(n + 1)[k] = InvalidCall
  BY DEF Complaints
<1> HIDE DEF S
<1>3. PICK a \in Seq(S), b \in Seq(S) : a = Complaints(n) /\ b = Complaints(n + 1)
  BY <1>2
<1>4. /\ s \o a \in Seq(S) /\ Len(s \o a) = m + n
      /\ (\A k \in 1 .. m : (s \o a)[k] = s[k]) /\ \A k \in 1 .. n : (s \o a)[m + k] = a[k]
  <2>1. /\ s \o a \in Seq(S) /\ Len(s \o a) = Len(s) + Len(a)
        /\ (\A k \in 1 .. Len(s) : (s \o a)[k] = s[k])
        /\ \A k \in 1 .. Len(a) : (s \o a)[Len(s) + k] = a[k]
    BY <1>1, ConcatElements
  <2>2. Len(a) = n
    BY <1>2, <1>3
  <2>3. QED
    BY <2>1, <2>2
<1>5. /\ s \o b \in Seq(S) /\ Len(s \o b) = m + (n + 1)
      /\ (\A k \in 1 .. m : (s \o b)[k] = s[k]) /\ \A k \in 1 .. n + 1 : (s \o b)[m + k] = b[k]
  <2>1. /\ s \o b \in Seq(S) /\ Len(s \o b) = Len(s) + Len(b)
        /\ (\A k \in 1 .. Len(s) : (s \o b)[k] = s[k])
        /\ \A k \in 1 .. Len(b) : (s \o b)[Len(s) + k] = b[k]
    BY <1>1, ConcatElements
  <2>2. Len(b) = n + 1
    BY <1>2, <1>3
  <2>3. QED
    BY <2>1, <2>2
<1> HIDE DEF m
<1>6. PICK c \in Seq(S), d \in Seq(S) : c = s \o a /\ d = s \o b
  BY <1>4, <1>5
<1> DEFINE e == Append(c, InvalidCall)
<1>7. InvalidCall \in S
  BY DEF S
<1>8. /\ e \in Seq(S) /\ Len(e) = (m + n) + 1 /\ e[(m + n) + 1] = InvalidCall
      /\ \A k \in 1 .. m + n : e[k] = c[k]
  <2>1. Len(c) = m + n
    BY <1>4, <1>6
  <2>2. e \in Seq(S) /\ Len(e) = Len(c) + 1 /\ e[Len(c) + 1] = InvalidCall
        /\ \A k \in 1 .. Len(c) : e[k] = c[k]
    BY <1>7
  <2>3. QED
    BY <2>1, <2>2
<1> HIDE DEF e
<1>9. \A k \in 1 .. (m + n) + 1 : e[k] = d[k]
  <2>1. SUFFICES ASSUME NEW k \in 1 .. (m + n) + 1 PROVE e[k] = d[k]
    OBVIOUS
  <2>2. CASE k \in 1 .. m
    <3>1. k \in 1 .. m + n
      BY <1>1, <2>2
    <3>2. QED
      BY <1>4, <1>5, <1>6, <1>8, <2>2, <3>1
  <2>3. CASE k \notin 1 .. m
    <3>1. k - m \in 1 .. n + 1 /\ k = m + (k - m)
      BY <1>1, <2>3
    <3>2. d[k] = InvalidCall
      BY <1>2, <1>3, <1>5, <1>6, <3>1
    <3>3. CASE k = (m + n) + 1
      BY <1>8, <3>2, <3>3
    <3>4. CASE k # (m + n) + 1
      <4>1. k - m \in 1 .. n /\ k \in 1 .. m + n
        BY <1>1, <2>3, <3>4
      <4>2. e[k] = InvalidCall
        BY <1>2, <1>3, <1>4, <1>6, <1>8, <3>1, <4>1
      <4>3. QED
        BY <3>2, <4>2
    <3>5. QED
      BY <3>3, <3>4
  <2>4. QED
    BY <2>2, <2>3
<1>10. e = d
  <2>1. Len(d) = (m + n) + 1
    BY <1>1, <1>5, <1>6
  <2>2. QED
    BY <1>6, <1>8, <1>9, <2>1
<1>11. QED
  BY <1>3, <1>6, <1>10 DEF e

LEMMA InitAlfHistory == AlfInit => AlfHistory
<1>1. SUFFICES ASSUME AlfInit PROVE AlfHistory
  OBVIOUS
<1>2. /\ executed = <<>> /\ actions = <<>>
      /\ observation = [of |-> 0, complaints |-> 0]
  BY <1>1 DEF AlfInit
<1>3. executed \in Seq(AlfCommands) /\ Len(executed) = 0
  BY <1>2
<1>4. actions = executed \o Complaints(0)
  BY <1>2, <1>3, NoneInvalid
<1>5. QED
  BY <1>2, <1>3, <1>4 DEF AlfHistory

LEMMA NextAlfHistory == AlfHistory /\ [AlfNext]_alfVars => AlfHistory'
<1>1. SUFFICES ASSUME AlfHistory, [AlfNext]_alfVars PROVE AlfHistory'
  OBVIOUS
<1>2. CASE AlfReset
  BY <1>1, <1>2 DEF AlfHistory, AlfReset
<1>3. ASSUME NEW command \in AlfCommands, NEW answer \in EnvAnswers, PlayCommand(command, answer)
      PROVE  AlfHistory'
  <2>1. /\ executed' = Append(executed, command) /\ actions' = executed'
        /\ observation' = [of |-> Len(executed'), complaints |-> 0]
    BY <1>3 DEF PlayCommand, Executed, CopyOfExecuted
  <2>2. executed' \in Seq(AlfCommands) /\ Len(executed') \in Nat
    BY <1>1, <2>1 DEF AlfHistory
  <2>3. executed' \o Complaints(0) = executed'
    BY <2>2, NoneInvalid
  <2>4. QED
    BY <2>1, <2>2, <2>3 DEF AlfHistory
<1>4. CASE PlayInvalid
  <2>1. /\ alfAt # "raised" /\ executed' = executed /\ actions' = Append(actions, InvalidCall)
        /\ observation' = [observation EXCEPT !.complaints = @ + 1]
    BY <1>4 DEF PlayInvalid, MayPlay
  <2>2. /\ observation'.complaints = observation.complaints + 1 /\ observation'.of = observation.of
        /\ observation' \in [of : Nat, complaints : Nat] /\ observation.complaints \in Nat
    <3>1. observation \in [of : Nat, complaints : Nat]
      BY <1>1 DEF AlfHistory
    <3>2. PICK o \in [of : Nat, complaints : Nat] : o = observation
      BY <3>1
    <3>3. observation' = [o EXCEPT !.complaints = o.complaints + 1]
      BY <2>1, <3>2
    <3>4. QED
      BY <3>2, <3>3
  <2>3. actions' = executed \o Complaints(observation.complaints + 1)
    BY <1>1, <2>1, <2>2, OneMoreInvalid DEF AlfHistory
  <2>4. QED
    BY <1>1, <2>1, <2>2, <2>3 DEF AlfHistory
<1>5. CASE PlayRaises
  BY <1>1, <1>5 DEF AlfHistory, PlayRaises, Executed
<1>6. CASE AlfReturns
  BY <1>1, <1>6 DEF AlfHistory, AlfReturns
<1>7. CASE UNCHANGED alfVars
  BY <1>1, <1>7 DEF AlfHistory, alfVars
<1>8. QED
  BY <1>1, <1>2, <1>3, <1>4, <1>5, <1>6, <1>7 DEF AlfNext

(* What one recipe does leaves the others alone. *)
LEMMA OneRecipe ==
  ASSUME [Next]_vars
  PROVE  [AlfNext]_alfVars /\ [HotpotNext]_hotpotVars /\ [ShopNext]_shopVars
BY DEF Next, HotpotStep, AlfStep, ShopStep, vars

(* For any commands, answers and limits, and whatever calls are malformed: *)
(* the history an ALFWorld prompt tells is the one the game has seen,      *)
(* followed by the invalid calls since (AlfworldAgentFlow.run).            *)
THEOREM HistoryOfTheGame == Spec => []HistoryTrue
<1>1. Init => AlfHistory
  BY InitAlfHistory DEF Init
<1>2. AlfHistory /\ [Next]_vars => AlfHistory'
  BY OneRecipe, NextAlfHistory
<1>3. AlfHistory => HistoryTrue
  <2>1. SUFFICES ASSUME AlfHistory, alfAt \in {"play", "over"}
                 PROVE  /\ \A i \in DOMAIN executed : executed[i] # InvalidCall
                        /\ actions = executed \o [k \in 1 .. observation.complaints |-> InvalidCall]
                        /\ observation.of = Len(executed)
    BY DEF HistoryTrue
  <2>2. \A i \in DOMAIN executed : executed[i] \in AlfCommands
    BY <2>1 DEF AlfHistory
  <2>3. QED
    BY <2>1, <2>2, AlfAssumption DEF AlfHistory, Complaints
<1>4. QED
  BY <1>1, <1>2, <1>3, PTL DEF Spec

-----------------------------------------------------------------------------
(* HotpotQA and ALFWorld: only the last row is scored, with the totals.    *)

AlfRowType ==
  [seen : [of : Nat, complaints : Nat], final : BOOLEAN, reward : {0, 1}, envReward : Int,
   dense : Int, success : BOOLEAN, valid : BOOLEAN]

(* What the game has paid in the first i of these rows. *)
PaidUpTo(rows, i) == Sum([k \in 1 .. i |-> rows[k].envReward])

RowsScored(rows, ended, won, total) ==
  /\ rows \in Seq(AlfRowType) /\ ended \in BOOLEAN
  /\ ended => Len(rows) > 0
  /\ total = PaidUpTo(rows, Len(rows))
  /\ \A i \in 1 .. Len(rows) :
       /\ rows[i].final <=> i = Len(rows) /\ ended
       /\ rows[i].dense = PaidUpTo(rows, i)
       /\ rows[i].reward > 0 => rows[i].final /\ won

AlfScored ==
  /\ AlfHistory /\ success \in BOOLEAN
  /\ RowsScored(alfRows, finished, success, denseReward)

LEMMA PaidNext ==
  ASSUME NEW rows \in Seq(AlfRowType), NEW row \in AlfRowType
  PROVE  /\ \A i \in 1 .. Len(rows) : PaidUpTo(Append(rows, row), i) = PaidUpTo(rows, i)
         /\ PaidUpTo(rows, Len(rows)) \in Int
         /\ PaidUpTo(Append(rows, row), Len(rows) + 1) = PaidUpTo(rows, Len(rows)) + row.envReward
<1> DEFINE n == Len(rows)
           r == Append(rows, row)
           q == [k \in 1 .. n |-> rows[k].envReward]
<1>1. /\ n \in Nat /\ r \in Seq(AlfRowType) /\ Len(r) = n + 1 /\ r[n + 1] = row
      /\ \A k \in 1 .. n : r[k] = rows[k] /\ rows[k] \in AlfRowType
  OBVIOUS
<1> HIDE DEF n, r
<1>2. \A k \in 1 .. n : rows[k].envReward \in Int
  BY <1>1 DEF AlfRowType
<1>3. q \in Seq(Int) /\ Len(q) = n
  BY <1>1, <1>2
<1>4. row.envReward \in Int
  BY DEF AlfRowType
<1>5. ASSUME NEW i \in 1 .. n PROVE PaidUpTo(r, i) = PaidUpTo(rows, i)
  <2>1. \A k \in 1 .. i : k \in 1 .. n
    BY <1>1
  <2>2. [k \in 1 .. i |-> r[k].envReward] = [k \in 1 .. i |-> rows[k].envReward]
    BY <1>1, <2>1
  <2>3. QED
    BY <2>2 DEF PaidUpTo
<1>6. [k \in 1 .. n + 1 |-> r[k].envReward] = Append(q, row.envReward)
  <2> DEFINE a == [k \in 1 .. n + 1 |-> r[k].envReward]
             b == Append(q, row.envReward)
  <2>1. b \in Seq(Int) /\ Len(b) = n + 1 /\ b[n + 1] = row.envReward
        /\ \A k \in 1 .. n : b[k] = rows[k].envReward
    <3>1. b \in Seq(Int) /\ Len(b) = Len(q) + 1 /\ b[Len(q) + 1] = row.envReward
          /\ \A k \in 1 .. Len(q) : b[k] = q[k]
      <4> HIDE DEF q
      <4> QED BY <1>3, <1>4
    <3>2. \A k \in 1 .. n : q[k] = rows[k].envReward
      OBVIOUS
    <3> HIDE DEF b, q
    <3>3. QED
      BY <1>3, <3>1, <3>2
  <2>2. a \in Seq(Int) /\ Len(a) = n + 1 /\ a[n + 1] = row.envReward
        /\ \A k \in 1 .. n : a[k] = rows[k].envReward
    <3>1. \A k \in 1 .. n + 1 : k \in 1 .. n \/ k = n + 1
      BY <1>1
    <3>2. \A k \in 1 .. n + 1 : r[k].envReward \in Int
      BY <1>1, <1>2, <1>4, <3>1
    <3>3. n + 1 \in Nat /\ n + 1 \in 1 .. n + 1 /\ \A k \in 1 .. n : k \in 1 .. n + 1
      BY <1>1
    <3>4. a \in Seq(Int) /\ Len(a) = n + 1
      BY <3>2, <3>3
    <3>5. QED
      BY <1>1, <3>3, <3>4
  <2> HIDE DEF a, b
  <2>3. a = b
    <3>1. \A k \in 1 .. n + 1 : a[k] = b[k]
      BY <1>1, <2>1, <2>2
    <3>2. QED
      BY <1>1, <2>1, <2>2, <3>1
  <2>4. QED
    BY <2>3 DEF a, b
<1>7. Sum(q) \in Int /\ Sum(Append(q, row.envReward)) = Sum(q) + row.envReward
  <2> HIDE DEF q
  <2> QED BY <1>3, <1>4, SumAppend
<1>8. PaidUpTo(rows, n) = Sum(q) /\ PaidUpTo(r, n + 1) = Sum(Append(q, row.envReward))
  BY <1>6 DEF PaidUpTo
<1>9. QED
  BY <1>5, <1>7, <1>8 DEF n, r

LEMMA RowAdded ==
  ASSUME NEW rows, NEW won, NEW total, RowsScored(rows, FALSE, won, total),
         NEW row \in AlfRowType, NEW newWon, row.dense = total + row.envReward,
         row.reward > 0 => row.final /\ newWon
  PROVE  RowsScored(Append(rows, row), row.final, newWon, total + row.envReward)
<1> DEFINE n == Len(rows)
           r == Append(rows, row)
<1>1. rows \in Seq(AlfRowType) /\ total = PaidUpTo(rows, n)
      /\ \A i \in 1 .. n : /\ ~ rows[i].final /\ rows[i].dense = PaidUpTo(rows, i)
                           /\ ~ (rows[i].reward > 0)
  BY DEF RowsScored
<1>2. /\ n \in Nat /\ r \in Seq(AlfRowType) /\ Len(r) = n + 1 /\ r[n + 1] = row
      /\ \A k \in 1 .. n : r[k] = rows[k]
  BY <1>1
<1>3. /\ \A i \in 1 .. n : PaidUpTo(r, i) = PaidUpTo(rows, i)
      /\ PaidUpTo(r, n + 1) = total + row.envReward
  BY <1>1, PaidNext
<1>4. row.final \in BOOLEAN
  BY DEF AlfRowType
<1> HIDE DEF n, r
<1>5. ASSUME NEW i \in 1 .. n + 1
      PROVE  /\ r[i].final <=> i = n + 1 /\ row.final
             /\ r[i].dense = PaidUpTo(r, i)
             /\ r[i].reward > 0 => r[i].final /\ newWon
  <2>1. CASE i \in 1 .. n
    <3>1. i # n + 1
      BY <1>2, <2>1
    <3>2. QED
      BY <1>1, <1>2, <1>3, <2>1, <3>1
  <2>2. CASE i = n + 1
    BY <1>2, <1>3, <1>4, <2>2
  <2>3. QED
    BY <1>2, <2>1, <2>2
<1>6. Len(r) = n + 1 /\ n + 1 > 0 /\ total + row.envReward = PaidUpTo(r, Len(r))
  BY <1>2, <1>3
<1>7. RowsScored(r, row.final, newWon, total + row.envReward)
  BY <1>2, <1>4, <1>5, <1>6 DEF RowsScored
<1>8. QED
  BY <1>7 DEF r

LEMMA InitAlfScored == AlfInit => AlfScored
<1>1. SUFFICES ASSUME AlfInit PROVE AlfScored
  OBVIOUS
<1>2. AlfHistory
  BY <1>1, InitAlfHistory
<1>3. alfRows = <<>> /\ finished = FALSE /\ success = FALSE /\ denseReward = 0
  BY <1>1 DEF AlfInit
<1>4. PaidUpTo(<<>>, 0) = 0
  <2>1. [k \in 1 .. 0 |-> <<>>[k].envReward] = <<>>
    OBVIOUS
  <2>2. QED
    BY <2>1, SumNone DEF PaidUpTo
<1>5. <<>> \in Seq(AlfRowType) /\ Len(<<>>) = 0 /\ 1 .. 0 = {}
  OBVIOUS
<1>6. RowsScored(<<>>, FALSE, FALSE, 0)
  BY <1>4, <1>5 DEF RowsScored
<1>7. QED
  BY <1>2, <1>3, <1>6 DEF AlfScored

LEMMA AlfKeepsScored ==
  ASSUME AlfScored, AlfHistory', UNCHANGED <<alfRows, finished, success, denseReward>>
  PROVE  AlfScored'
BY DEF AlfScored

LEMMA NextAlfScored == AlfScored /\ [AlfNext]_alfVars => AlfScored'
<1>1. SUFFICES ASSUME AlfScored, [AlfNext]_alfVars PROVE AlfScored'
  OBVIOUS
<1>2. AlfHistory'
  BY <1>1, NextAlfHistory DEF AlfScored
<1>3. /\ success \in BOOLEAN /\ observation \in [of : Nat, complaints : Nat]
      /\ RowsScored(alfRows, finished, success, denseReward)
  BY <1>1 DEF AlfScored, AlfHistory
<1>4. denseReward \in Int /\ alfRows \in Seq(AlfRowType)
  <2>1. alfRows \in Seq(AlfRowType) /\ denseReward = PaidUpTo(alfRows, Len(alfRows))
    BY <1>3 DEF RowsScored
  <2>2. PICK row : row = [seen |-> observation, final |-> FALSE, reward |-> 0, envReward |-> 0,
                          dense |-> 0, success |-> FALSE, valid |-> FALSE]
    OBVIOUS
  <2>3. row \in AlfRowType
    BY <1>3, <2>2 DEF AlfRowType
  <2>4. QED
    BY <2>1, <2>3, PaidNext
<1>5. CASE AlfReset \/ PlayRaises \/ AlfReturns \/ UNCHANGED alfVars
  BY <1>1, <1>2, <1>5, AlfKeepsScored DEF AlfReset, PlayRaises, AlfReturns, alfVars
<1>6. CASE PlayInvalid
  <2>1. /\ ~finished /\ alfRows' = Append(alfRows, AlfRow(0, FALSE))
        /\ UNCHANGED <<finished, success, denseReward>>
    BY <1>6 DEF PlayInvalid, MayPlay
  <2>2. PICK row : row = AlfRow(0, FALSE)
    OBVIOUS
  <2>3. row \in AlfRowType /\ row.dense = denseReward + row.envReward /\ row.reward = 0
        /\ row.final = FALSE /\ row.envReward = 0 /\ denseReward + row.envReward = denseReward
    BY <1>3, <1>4, <2>1, <2>2 DEF AlfRow, AlfRowType
  <2>4. RowsScored(alfRows, FALSE, success, denseReward) /\ finished = FALSE
    BY <1>3, <2>1 DEF RowsScored
  <2>5. row.reward > 0 => row.final /\ success
    BY <2>3
  <2>6. RowsScored(Append(alfRows, row), row.final, success, denseReward + row.envReward)
    BY <2>3, <2>4, <2>5, RowAdded
  <2>7. RowsScored(alfRows', finished', success', denseReward')
    BY <2>1, <2>2, <2>3, <2>4, <2>6
  <2>8. QED
    BY <1>2, <1>3, <2>1, <2>7 DEF AlfScored
<1>7. ASSUME NEW command \in AlfCommands, NEW answer \in EnvAnswers, PlayCommand(command, answer)
      PROVE  AlfScored'
  <2>1. /\ ~finished /\ finished' = answer.done /\ success' = answer.won
        /\ denseReward' = denseReward + answer.reward
        /\ alfRows' = alfRows \o (IF answer.done
                                  THEN <<AlfRow(answer.reward, command \in admissible), FinalRow>>
                                  ELSE <<AlfRow(answer.reward, command \in admissible)>>)
    BY <1>7 DEF PlayCommand, MayPlay
  <2>2. answer.reward \in Int /\ answer.done \in BOOLEAN /\ answer.won \in BOOLEAN
        /\ (answer.won => answer.done)
    BY AlfAssumption DEF EnvAnswers
  <2>3. PICK row, last : row = AlfRow(answer.reward, command \in admissible) /\ last = FinalRow
    OBVIOUS
  <2>4. PICK total : total = denseReward + answer.reward
    OBVIOUS
  <2>5. total \in Int /\ total + 0 = total
    BY <1>4, <2>2, <2>4
  <2>6. row \in AlfRowType /\ row.dense = denseReward + row.envReward /\ row.reward = 0
        /\ row.final = FALSE /\ row.envReward = answer.reward
    BY <1>3, <2>1, <2>2, <2>3, <2>4, <2>5 DEF AlfRow, AlfRowType
  <2>7. /\ last \in AlfRowType /\ last.dense = total /\ last.envReward = 0 /\ last.final = TRUE
        /\ last.reward = IF answer.won THEN 1 ELSE 0
    BY <1>3, <2>1, <2>2, <2>3, <2>4, <2>5 DEF FinalRow, AlfRowType
  <2>8. RowsScored(alfRows, FALSE, success, denseReward)
    <3>1. finished = FALSE
      BY <1>3, <2>1 DEF RowsScored
    <3>2. QED
      BY <1>3, <3>1
  <2>9. RowsScored(Append(alfRows, row), FALSE, answer.won, total)
    <3>1. row.reward > 0 => row.final /\ answer.won
      BY <2>6
    <3>2. RowsScored(Append(alfRows, row), row.final, answer.won, denseReward + row.envReward)
      BY <2>6, <2>8, <3>1, RowAdded
    <3>3. QED
      BY <2>4, <2>6, <3>2
  <2>10. CASE answer.done
    <3>1. PICK rows : rows = Append(alfRows, row)
      OBVIOUS
    <3>2. last.reward > 0 => last.final /\ answer.won
      BY <2>7
    <3>3. last.dense = total + last.envReward
      BY <2>5, <2>7
    <3>4. RowsScored(Append(rows, last), last.final, answer.won, total + last.envReward)
      BY <2>7, <2>9, <3>1, <3>2, <3>3, RowAdded
    <3>5. alfRows' = Append(rows, last)
      <4>1. alfRows' = alfRows \o <<row, last>>
        BY <2>1, <2>3, <2>10
      <4>2. \A s \in Seq(AlfRowType) : s \o <<row, last>> = Append(Append(s, row), last)
        BY <2>6, <2>7
      <4>3. QED
        BY <1>4, <3>1, <4>1, <4>2
    <3>6. RowsScored(alfRows', finished', success', denseReward')
      BY <2>1, <2>4, <2>5, <2>7, <2>10, <3>4, <3>5
    <3>7. QED
      BY <1>2, <2>1, <2>2, <3>6 DEF AlfScored
  <2>11. CASE ~answer.done
    <3>1. alfRows' = Append(alfRows, row)
      <4>1. alfRows' = alfRows \o <<row>>
        BY <2>1, <2>3, <2>11
      <4>2. \A s \in Seq(AlfRowType) : s \o <<row>> = Append(s, row)
        BY <2>6
      <4>3. QED
        BY <1>4, <4>1, <4>2
    <3>2. finished' = FALSE /\ success' = answer.won /\ denseReward' = total
      BY <2>1, <2>2, <2>4, <2>11
    <3>3. RowsScored(alfRows', finished', success', denseReward')
      BY <2>9, <3>1, <3>2
    <3>4. QED
      BY <1>2, <2>1, <2>2, <3>3 DEF AlfScored
  <2>12. QED
    BY <2>10, <2>11
<1>8. QED
  BY <1>1, <1>5, <1>6, <1>7 DEF AlfNext

(* Of the rows of a HotpotQA episode. *)
HotpotScored ==
  /\ \E S : hotpotRows \in Seq(S)
  /\ Len(hotpotRows) <= HotpotSteps
  /\ \A i \in 1 .. Len(hotpotRows) :
       /\ hotpotRows[i].final => i = Len(hotpotRows) /\ hotpotAt = "over"
       /\ hotpotRows[i].reward > 0 => hotpotRows[i].final
       /\ hotpotAt = "over" /\ i = Len(hotpotRows) /\ ~hotpotRows[i].final => i = HotpotSteps

LEMMA InitHotpotScored == HotpotInit => HotpotScored
<1>1. SUFFICES ASSUME HotpotInit PROVE HotpotScored
  OBVIOUS
<1>2. hotpotRows = <<>> /\ hotpotRows \in Seq(Nat) /\ Len(hotpotRows) = 0
  BY <1>1 DEF HotpotInit
<1>3. QED
  BY <1>2, HotpotAssumption DEF HotpotScored

LEMMA NextHotpotScored == HotpotScored /\ [HotpotNext]_hotpotVars => HotpotScored'
<1>1. SUFFICES ASSUME HotpotScored, [HotpotNext]_hotpotVars PROVE HotpotScored'
  OBVIOUS
<1>2. PICK S : hotpotRows \in Seq(S)
  BY <1>1 DEF HotpotScored
<1> DEFINE n == Len(hotpotRows)
<1>3. ASSUME NEW row, hotpotRows' = Append(hotpotRows, row), MayAsk,
             \/ row.final = FALSE /\ row.reward = 0 /\ hotpotAt' = hotpotAt
             \/ row.final = TRUE /\ hotpotAt' = "over"
      PROVE  HotpotScored'
  <2>1. hotpotAt = "ask" /\ n \in Nat /\ n + 1 <= HotpotSteps
    BY <1>2, <1>3, HotpotAssumption DEF MayAsk
  <2>2. hotpotRows \in Seq(S \cup {row}) /\ row \in S \cup {row}
    BY <1>2
  <2>3. /\ hotpotRows' \in Seq(S \cup {row}) /\ Len(hotpotRows') = n + 1
        /\ hotpotRows'[n + 1] = row /\ \A i \in 1 .. n : hotpotRows'[i] = hotpotRows[i]
    BY <1>3, <2>2
  <2>4. \A i \in 1 .. n : ~hotpotRows[i].final /\ ~(hotpotRows[i].reward > 0)
    BY <1>1, <2>1 DEF HotpotScored
  <2>5. \A i \in 1 .. n + 1 : i \in 1 .. n \/ i = n + 1
    BY <2>1
  <2>6. \A i \in 1 .. n : i # n + 1
    BY <2>1
  <2> HIDE DEF n
  <2>7. ASSUME NEW i \in 1 .. n + 1
        PROVE  /\ hotpotRows'[i].final => i = n + 1 /\ hotpotAt' = "over"
               /\ hotpotRows'[i].reward > 0 => hotpotRows'[i].final
               /\ hotpotAt' = "over" /\ i = n + 1 /\ ~hotpotRows'[i].final => i = HotpotSteps
    <3>1. CASE i \in 1 .. n
      BY <2>3, <2>4, <2>6, <3>1
    <3>2. CASE i = n + 1
      BY <1>3, <2>1, <2>3, <3>2
    <3>3. QED
      BY <2>5, <3>1, <3>2
  <2>8. hotpotRows' \in Seq(S \cup {row}) /\ Len(hotpotRows') <= HotpotSteps
    BY <2>1, <2>3
  <2>9. \A i \in 1 .. Len(hotpotRows') :
            /\ hotpotRows'[i].final => i = Len(hotpotRows') /\ hotpotAt' = "over"
            /\ hotpotRows'[i].reward > 0 => hotpotRows'[i].final
            /\ hotpotAt' = "over" /\ i = Len(hotpotRows') /\ ~hotpotRows'[i].final
               => i = HotpotSteps
    BY <2>3, <2>7
  <2>10. \E T : hotpotRows' \in Seq(T)
    BY <2>8
  <2>11. Len(hotpotRows') <= HotpotSteps
    BY <2>8
  <2>12. QED
    BY <2>9, <2>10, <2>11 DEF HotpotScored
<1>4. CASE Begin
  BY <1>1, <1>4 DEF HotpotScored, Begin
<1>5. ASSUME NEW cs \in Calls, NEW works \in BOOLEAN, CallTools(cs, works)
      PROVE  HotpotScored'
  <2>1. PICK row : row = HotpotRow(0, FALSE)
    OBVIOUS
  <2>2. row.final = FALSE /\ row.reward = 0
    BY <2>1 DEF HotpotRow
  <2>3. hotpotRows' = Append(hotpotRows, row) /\ MayAsk /\ hotpotAt' = hotpotAt
    BY <1>5, <2>1 DEF CallTools, SearchRow
  <2>4. QED
    BY <1>3, <2>2, <2>3
<1>6. ASSUME NEW answer \in Answers, NEW broken \in BOOLEAN, GiveAnswer(answer, broken)
      PROVE  HotpotScored'
  <2>1. PICK row : row = HotpotRow(ExactMatch(answer), TRUE)
    OBVIOUS
  <2>2. row.final = TRUE
    BY <2>1 DEF HotpotRow
  <2>3. hotpotRows' = Append(hotpotRows, row) /\ MayAsk /\ hotpotAt' = "over"
    BY <1>6, <2>1 DEF GiveAnswer
  <2>4. QED
    BY <1>3, <2>2, <2>3
<1>7. CASE HotpotReturns
  <2>1. n \in Nat /\ n <= HotpotSteps /\ hotpotAt = "ask" /\ ~ (n < HotpotSteps)
        /\ hotpotRows' = hotpotRows /\ hotpotAt' = "over"
    BY <1>1, <1>2, <1>7 DEF HotpotScored, HotpotReturns, MayAsk
  <2>2. n = HotpotSteps
    BY <2>1, HotpotAssumption
  <2>3. QED
    BY <1>1, <2>1, <2>2 DEF HotpotScored
<1>8. CASE UNCHANGED hotpotVars
  BY <1>1, <1>8 DEF HotpotScored, hotpotVars
<1>9. QED
  BY <1>1, <1>4, <1>5, <1>6, <1>7, <1>8 DEF HotpotNext

(* In HotpotQA and ALFWorld, for any limits and answers, only the last row *)
(* is left to the reward function, it is there exactly if the agent        *)
(* answered or the game ended, and it tells the success and the sum of the *)
(* rewards of the rows before it (the run methods of the two flows).       *)
THEOREM LastRowScored == Spec => []ScoredAtTheEnd
<1>1. Init => AlfScored /\ HotpotScored
  BY InitAlfScored, InitHotpotScored DEF Init
<1>2. AlfScored /\ HotpotScored /\ [Next]_vars => AlfScored' /\ HotpotScored'
  BY OneRecipe, NextAlfScored, NextHotpotScored
<1>3. AlfScored /\ HotpotScored => ScoredAtTheEnd
  <2>1. SUFFICES ASSUME AlfScored, HotpotScored PROVE ScoredAtTheEnd
    OBVIOUS
  <2>2. DOMAIN hotpotRows = 1 .. Len(hotpotRows)
    BY <2>1 DEF HotpotScored
  <2>3. RowsScored(alfRows, finished, success, denseReward)
    BY <2>1 DEF AlfScored
  <2>4. DOMAIN alfRows = 1 .. Len(alfRows)
    BY <2>3 DEF RowsScored
  <2>5. \A i : Sum([k \in 1 .. i |-> alfRows[k].envReward]) = PaidUpTo(alfRows, i)
    BY DEF PaidUpTo
  <2>6. ASSUME NEW i \in DOMAIN alfRows
        PROVE  LET row == alfRows[i]
                   paid == Sum([k \in 1 .. i |-> alfRows[k].envReward])
               IN  /\ row.final <=> i = Len(alfRows) /\ finished
                   /\ row.dense = paid
                   /\ row.reward > 0 => row.final /\ success
    <3>1. /\ alfRows[i].final <=> i = Len(alfRows) /\ finished
          /\ alfRows[i].dense = PaidUpTo(alfRows, i)
          /\ alfRows[i].reward > 0 => alfRows[i].final /\ success
      BY <2>3, <2>4 DEF RowsScored
    <3>2. QED
      BY <2>5, <3>1
  <2>7. ASSUME NEW i \in DOMAIN hotpotRows
        PROVE  LET row == hotpotRows[i]
               IN  /\ row.final => i = Len(hotpotRows) /\ hotpotAt = "over"
                   /\ row.reward > 0 => row.final
                   /\ hotpotAt = "over" /\ i = Len(hotpotRows) /\ ~row.final => i = HotpotSteps
    BY <2>1, <2>2 DEF HotpotScored
  <2>8. QED
    BY <2>6, <2>7 DEF ScoredAtTheEnd
<1>4. QED
  BY <1>1, <1>2, <1>3, PTL DEF Spec

-----------------------------------------------------------------------------
(* HotpotQA: the passages of the prompt can be traced. *)

Texts == Range(Corpus)
Passage == [query : DOMAIN Nearest, text : Texts]

LEMMA FoundType ==
  ASSUME NEW query \in DOMAIN Nearest
  PROVE  Found(query) \in Seq(Texts)
<1> DEFINE ids == Among(Nearest[query], 0 .. Len(Corpus) - 1)
<1>1. Nearest[query] \in Seq(Int)
  BY HotpotAssumption
<1>2. ids \in Seq(Int) /\ Range(ids) \subseteq 0 .. Len(Corpus) - 1
  <2> HIDE DEF ids
  <2>1. /\ Among(Nearest[query], 0 .. Len(Corpus) - 1) \in Seq(Int)
        /\ Range(Among(Nearest[query], 0 .. Len(Corpus) - 1))
             = Range(Nearest[query]) \cap (0 .. Len(Corpus) - 1)
    BY <1>1, AmongFacts
  <2>2. QED
    BY <2>1 DEF ids
<1>3. Found(query) = [k \in DOMAIN ids |-> Corpus[ids[k] + 1]]
  BY DEF Found
<1>4. Len(Corpus) \in Nat /\ DOMAIN Corpus = 1 .. Len(Corpus)
      /\ \A k \in 1 .. Len(Corpus) : Corpus[k] \in Texts
  BY HotpotAssumption DEF Texts, Range
<1> HIDE DEF ids
<1>5. DOMAIN ids = 1 .. Len(ids) /\ Len(ids) \in Nat
  BY <1>2
<1>6. ASSUME NEW k \in 1 .. Len(ids) PROVE Corpus[ids[k] + 1] \in Texts
  <2>1. ids[k] \in 0 .. Len(Corpus) - 1
    BY <1>2, <1>5 DEF Range
  <2>2. ids[k] + 1 \in 1 .. Len(Corpus)
    BY <1>4, <2>1
  <2>3. QED
    BY <1>4, <2>2
<1>7. [k \in 1 .. Len(ids) |-> Corpus[ids[k] + 1]] \in Seq(Texts)
  BY <1>5, <1>6
<1>8. QED
  BY <1>3, <1>5, <1>7

(* What one text that is found does to the list. *)
Listing(p, query, text) ==
  IF \E i \in DOMAIN p : p[i].text = text THEN p
  ELSE Append(p, [query |-> query, text |-> text])

LEMMA ListingType ==
  ASSUME NEW p \in Seq(Passage), NEW query \in DOMAIN Nearest, NEW text \in Texts
  PROVE  Listing(p, query, text) \in Seq(Passage)
<1>1. [query |-> query, text |-> text] \in Passage
  BY DEF Passage
<1>2. QED
  BY <1>1 DEF Listing

(* Ingest lists one text after the other. *)
IngestsAlong(f, base, query, n) ==
  /\ f \in [0 .. n -> Seq(Passage)] /\ f[0] = base
  /\ \A i \in 1 .. n : f[i] = Listing(f[i - 1], query, Found(query)[i])
  /\ Ingest(base, query) = f[n]

LEMMA IngestSteps ==
  ASSUME NEW query \in DOMAIN Nearest, NEW base \in Seq(Passage), NEW n, n = Len(Found(query))
  PROVE  \E f : IngestsAlong(f, base, query, n)
<1> DEFINE q == Found(query)
           X == Seq(Passage)
           G == [x \in X |-> [i \in 1 .. n |-> Listing(x, query, q[i])]]
           Eq(h) == h = [s \in SUBSET (DOMAIN q) |->
                           IF s = {} THEN base
                           ELSE LET x == Max(s)
                                IN  IF \E i \in DOMAIN h[s \ {x}] : h[s \ {x}][i].text = q[x]
                                    THEN h[s \ {x}]
                                    ELSE Append(h[s \ {x}], [query |-> query, text |-> q[x]])]
           F == CHOOSE h : Eq(h)
<1>1. q \in Seq(Texts) /\ n \in Nat /\ DOMAIN q = 1 .. n /\ \A i \in 1 .. n : q[i] \in Texts
  BY FoundType
<1> HIDE DEF q
<1>2. Closed(G, X, n)
  <2>1. ASSUME NEW x \in X, NEW i \in 1 .. n PROVE G[x][i] \in X
    <3>1. Listing(x, query, q[i]) \in X
      BY <1>1, ListingType
    <3>2. QED
      BY <3>1
  <2>2. QED
    <3> HIDE DEF X, G
    <3> QED BY <2>1 DEF Closed
<1>3. PICK f, h : Folded(f, h, n, X, base, G)
  <2> HIDE DEF X, G
  <2>1. base \in X
    BY DEF X
  <2>2. QED
    BY <1>1, <1>2, <2>1, FoldExists
<1>4. f \in [0 .. n -> X] /\ h \in [SUBSET (1 .. n) -> X] /\ h[1 .. n] = f[n]
      /\ OverSubsets(h, n, base, G) /\ Along(f, n, base, G)
  BY <1>3 DEF Folded
<1>5. ASSUME NEW s \in SUBSET (1 .. n), s # {}
      PROVE  Max(s) \in s /\ s \ {Max(s)} \in SUBSET (1 .. n) /\ Max(s) \in 1 .. n
  <2>1. s \subseteq Nat /\ \A x \in s : x <= n
    BY <1>1
  <2>2. QED
    BY <1>1, <2>1, <1>5, MaxProperties
<1>6. \A s \in SUBSET (1 .. n) : s # {} => h[s] = Listing(h[s \ {Max(s)}], query, q[Max(s)])
  <2>1. SUFFICES ASSUME NEW s \in SUBSET (1 .. n), s # {}
                 PROVE  h[s] = Listing(h[s \ {Max(s)}], query, q[Max(s)])
    OBVIOUS
  <2>2. h[s] = G[h[s \ {Max(s)}]][Max(s)]
    <3> HIDE DEF G
    <3> QED BY <1>4, <2>1 DEF OverSubsets
  <2>3. h[s \ {Max(s)}] \in X /\ Max(s) \in 1 .. n
    <3> HIDE DEF X
    <3> QED BY <1>4, <1>5, <2>1
  <2>4. QED
    <3> HIDE DEF X
    <3> QED BY <2>2, <2>3
<1>7. h[{}] = base
  BY <1>4 DEF OverSubsets
<1> HIDE DEF X, G
<1>8. Eq(h)
  <2>1. DOMAIN h = SUBSET (1 .. n) /\ h = [s \in SUBSET (1 .. n) |-> h[s]]
    BY <1>4
  <2>2. \A s \in SUBSET (1 .. n) :
          h[s] = IF s = {} THEN base
                 ELSE LET x == Max(s)
                      IN  IF \E i \in DOMAIN h[s \ {x}] : h[s \ {x}][i].text = q[x]
                          THEN h[s \ {x}]
                          ELSE Append(h[s \ {x}], [query |-> query, text |-> q[x]])
    BY <1>6, <1>7 DEF Listing
  <2>3. QED
    BY <1>1, <2>1, <2>2
<1>9. Eq(F)
  <2> HIDE DEF Eq
  <2> QED BY <1>8
<1>10. F[1 .. n] = h[1 .. n]
  <2> HIDE DEF F
  <2>1. /\ F[{}] = base
        /\ \A s \in SUBSET (1 .. n) : s # {} => F[s] = Listing(F[s \ {Max(s)}], query, q[Max(s)])
    BY <1>1, <1>9 DEF Listing
  <2>2. AgreeUpwards(F, h, n)
    BY <1>6, <1>7, <2>1 DEF AgreeUpwards
  <2>3. \A s \in SUBSET (1 .. n) : F[s] = h[s]
    BY <1>1, <2>2, FoldUnique
  <2>4. QED
    BY <2>3
<1>11. Ingest(base, query) = F[DOMAIN q]
  BY DEF Ingest, FoldLeft, MapThenFoldSet, q
<1>12. Ingest(base, query) = f[n]
  <2> HIDE DEF F
  <2> QED BY <1>1, <1>4, <1>10, <1>11
<1>13. ASSUME NEW i \in 1 .. n PROVE f[i] = Listing(f[i - 1], query, q[i])
  <2>1. f[i] = G[f[i - 1]][i]
    BY <1>4 DEF Along
  <2>2. f[i - 1] \in X
    BY <1>1, <1>4
  <2>3. QED
    BY <2>1, <2>2 DEF G
<1>14. f[0] = base
  BY <1>4 DEF Along
<1>15. QED
  BY <1>4, <1>12, <1>13, <1>14 DEF X, q, IngestsAlong

(* A list of passages that begins with an earlier one. *)
Grown(p, r) == Len(p) <= Len(r) /\ \A k \in 1 .. Len(p) : r[k] = p[k]

(* Each passage stands once, under a query of qs that finds it. *)
Traced(p, qs) ==
  /\ p \in Seq(Passage)
  /\ \A k \in 1 .. Len(p) : p[k].query \in qs /\ Contains(Found(p[k].query), p[k].text)
  /\ \A j, k \in 1 .. Len(p) : j < k => p[j].text # p[k].text

LEMMA ListingTraced ==
  ASSUME NEW qs, NEW p, Traced(p, qs), NEW query \in DOMAIN Nearest, query \in qs,
         NEW text \in Texts, Contains(Found(query), text)
  PROVE  Traced(Listing(p, query, text), qs) /\ Grown(p, Listing(p, query, text))
<1>1. p \in Seq(Passage) /\ Len(p) \in Nat /\ DOMAIN p = 1 .. Len(p)
  BY DEF Traced
<1>2. CASE \E k \in DOMAIN p : p[k].text = text
  BY <1>1, <1>2 DEF Listing, Grown
<1>3. CASE ~\E k \in DOMAIN p : p[k].text = text
  <2> DEFINE new == [query |-> query, text |-> text]
             r == Append(p, new)
             n == Len(p)
  <2>1. Listing(p, query, text) = r
    BY <1>3 DEF Listing
  <2>2. new \in Passage /\ new.query = query /\ new.text = text
    BY DEF Passage
  <2>3. r \in Seq(Passage) /\ Len(r) = n + 1 /\ r[n + 1] = new /\ \A k \in 1 .. n : r[k] = p[k]
    BY <1>1, <2>2
  <2> HIDE DEF new, r, n
  <2>4. n \in Nat /\ n = Len(p)
    BY <1>1 DEF n
  <2>5. \A k \in 1 .. n + 1 : k \in 1 .. n \/ k = n + 1
    BY <2>4
  <2>6. \A k \in 1 .. n + 1 : r[k].query \in qs /\ Contains(Found(r[k].query), r[k].text)
    BY <2>2, <2>3, <2>4, <2>5 DEF Traced
  <2>7. ASSUME NEW j \in 1 .. n + 1, NEW k \in 1 .. n + 1, j < k PROVE r[j].text # r[k].text
    <3>1. j \in 1 .. n
      BY <2>4, <2>7
    <3>2. CASE k \in 1 .. n
      BY <2>3, <2>4, <2>7, <3>1, <3>2 DEF Traced
    <3>3. CASE k = n + 1
      BY <1>1, <1>3, <2>2, <2>3, <2>4, <3>1, <3>3
    <3>4. QED
      BY <2>5, <3>2, <3>3
  <2>8. Traced(r, qs)
    BY <2>3, <2>6, <2>7 DEF Traced
  <2>9. Grown(p, r)
    BY <2>3, <2>4 DEF Grown
  <2>10. QED
    BY <2>1, <2>8, <2>9
<1>4. QED
  BY <1>2, <1>3

LEMMA GrownSame ==
  ASSUME NEW S, NEW p \in Seq(S)
  PROVE  Grown(p, p)
<1>1. Len(p) \in Nat
  OBVIOUS
<1>2. QED
  BY <1>1 DEF Grown

LEMMA GrownTrans ==
  ASSUME NEW S, NEW p \in Seq(S), NEW q \in Seq(S), NEW r \in Seq(S), Grown(p, q), Grown(q, r)
  PROVE  Grown(p, r)
<1>1. Len(p) \in Nat /\ Len(q) \in Nat /\ Len(r) \in Nat
  OBVIOUS
<1>2. \A k \in 1 .. Len(p) : k \in 1 .. Len(q)
  BY <1>1 DEF Grown
<1>3. QED
  BY <1>1, <1>2 DEF Grown

(* What grows step by step, and stays traced, does so in the end. *)
LEMMA StepsTraced ==
  ASSUME NEW qs, NEW n \in Nat, NEW f, Traced(f[0], qs),
         \A i \in 1 .. n : Traced(f[i - 1], qs) => Traced(f[i], qs) /\ Grown(f[i - 1], f[i])
  PROVE  Traced(f[n], qs) /\ Grown(f[0], f[n])
<1> DEFINE T == {i \in 0 .. n : Traced(f[i], qs) /\ Grown(f[0], f[i])}
<1>1. 0 \in T
  <2>1. Grown(f[0], f[0])
    <3>1. Len(f[0]) \in Nat
      BY DEF Traced
    <3>2. QED
      BY <3>1 DEF Grown
  <2>2. QED
    BY <2>1
<1>2. ASSUME NEW i \in 0 .. n - 1, i \in T PROVE i + 1 \in T
  <2>1. i + 1 \in 1 .. n /\ (i + 1) - 1 = i /\ i + 1 \in 0 .. n
    BY <1>2
  <2>2. Traced(f[i], qs) /\ Grown(f[0], f[i])
    BY <1>2
  <2>3. Traced(f[i + 1], qs) /\ Grown(f[i], f[i + 1])
    BY <2>1, <2>2
  <2>4. f[0] \in Seq(Passage) /\ f[i] \in Seq(Passage) /\ f[i + 1] \in Seq(Passage)
    BY <2>2, <2>3 DEF Traced
  <2>5. Grown(f[0], f[i + 1])
    BY <2>2, <2>3, <2>4, GrownTrans
  <2>6. QED
    BY <2>1, <2>3, <2>5
<1>3. 0 .. n \subseteq T
  <2> HIDE DEF T
  <2> QED BY <1>1, <1>2, UpTo
<1>4. n \in T
  BY <1>3
<1>5. QED
  BY <1>4

LEMMA IngestTraced ==
  ASSUME NEW qs, NEW query \in DOMAIN Nearest, query \in qs, NEW base, Traced(base, qs)
  PROVE  Traced(Ingest(base, query), qs) /\ Grown(base, Ingest(base, query))
<1>1. PICK n : n = Len(Found(query))
  OBVIOUS
<1>2. Found(query) \in Seq(Texts) /\ n \in Nat
      /\ \A i \in 1 .. n : Found(query)[i] \in Texts /\ Contains(Found(query), Found(query)[i])
  BY <1>1, FoundType DEF Contains
<1>3. base \in Seq(Passage)
  BY DEF Traced
<1>4. PICK f : IngestsAlong(f, base, query, n)
  BY <1>1, <1>3, IngestSteps
<1>5. /\ f \in [0 .. n -> Seq(Passage)] /\ f[0] = base
      /\ \A i \in 1 .. n : f[i] = Listing(f[i - 1], query, Found(query)[i])
      /\ Ingest(base, query) = f[n]
  BY <1>4 DEF IngestsAlong
<1>6. \A i \in 1 .. n : Traced(f[i - 1], qs) => Traced(f[i], qs) /\ Grown(f[i - 1], f[i])
  BY <1>2, <1>5, ListingTraced
<1>7. Traced(f[n], qs) /\ Grown(f[0], f[n])
  BY <1>2, <1>5, <1>6, StepsTraced
<1>8. QED
  BY <1>5, <1>7

LEMMA IngestType ==
  ASSUME NEW query \in DOMAIN Nearest, NEW base \in Seq(Passage)
  PROVE  Ingest(base, query) \in Seq(Passage)
<1>1. PICK n : n = Len(Found(query))
  OBVIOUS
<1>2. PICK f : IngestsAlong(f, base, query, n)
  BY <1>1, IngestSteps
<1>3. n \in Nat
  BY <1>1, FoundType
<1>4. QED
  BY <1>2, <1>3 DEF IngestsAlong

(* A batch is ingested one query after the other. *)
BatchAlong(f, base, batch, n) ==
  /\ f \in [0 .. n -> Seq(Passage)] /\ f[0] = base
  /\ \A i \in 1 .. n : f[i] = Ingest(f[i - 1], batch[i])
  /\ FoldLeft(Ingest, base, batch) = f[n]

LEMMA BatchSteps ==
  ASSUME NEW batch \in Seq(DOMAIN Nearest), NEW base \in Seq(Passage), NEW n, n = Len(batch)
  PROVE  \E f : BatchAlong(f, base, batch, n)
<1> DEFINE X == Seq(Passage)
           G == [x \in X |-> [i \in 1 .. n |-> Ingest(x, batch[i])]]
           Eq(h) == h = [s \in SUBSET (DOMAIN batch) |->
                           IF s = {} THEN base
                           ELSE LET x == Max(s) IN Ingest(h[s \ {x}], batch[x])]
           F == CHOOSE h : Eq(h)
<1>1. n \in Nat /\ DOMAIN batch = 1 .. n /\ \A i \in 1 .. n : batch[i] \in DOMAIN Nearest
  OBVIOUS
<1>2. Closed(G, X, n)
  <2>1. ASSUME NEW x \in X, NEW i \in 1 .. n PROVE G[x][i] \in X
    <3>1. Ingest(x, batch[i]) \in X
      BY <1>1, IngestType
    <3>2. QED
      BY <3>1
  <2>2. QED
    <3> HIDE DEF X, G
    <3> QED BY <2>1 DEF Closed
<1>3. PICK f, h : Folded(f, h, n, X, base, G)
  <2> HIDE DEF X, G
  <2>1. base \in X
    BY DEF X
  <2>2. QED
    BY <1>1, <1>2, <2>1, FoldExists
<1>4. f \in [0 .. n -> X] /\ h \in [SUBSET (1 .. n) -> X] /\ h[1 .. n] = f[n]
      /\ OverSubsets(h, n, base, G) /\ Along(f, n, base, G)
  BY <1>3 DEF Folded
<1>5. ASSUME NEW s \in SUBSET (1 .. n), s # {}
      PROVE  Max(s) \in s /\ s \ {Max(s)} \in SUBSET (1 .. n) /\ Max(s) \in 1 .. n
  <2>1. s \subseteq Nat /\ \A x \in s : x <= n
    BY <1>1
  <2>2. QED
    BY <1>1, <2>1, <1>5, MaxProperties
<1>6. \A s \in SUBSET (1 .. n) : s # {} => h[s] = Ingest(h[s \ {Max(s)}], batch[Max(s)])
  <2>1. SUFFICES ASSUME NEW s \in SUBSET (1 .. n), s # {}
                 PROVE  h[s] = Ingest(h[s \ {Max(s)}], batch[Max(s)])
    OBVIOUS
  <2>2. h[s] = G[h[s \ {Max(s)}]][Max(s)]
    <3> HIDE DEF G
    <3> QED BY <1>4, <2>1 DEF OverSubsets
  <2>3. h[s \ {Max(s)}] \in X /\ Max(s) \in 1 .. n
    <3> HIDE DEF X
    <3> QED BY <1>4, <1>5, <2>1
  <2>4. QED
    <3> HIDE DEF X
    <3> QED BY <2>2, <2>3
<1>7. h[{}] = base
  BY <1>4 DEF OverSubsets
<1> HIDE DEF X, G
<1>8. Eq(h)
  <2>1. DOMAIN h = SUBSET (1 .. n) /\ h = [s \in SUBSET (1 .. n) |-> h[s]]
    BY <1>4
  <2>2. \A s \in SUBSET (1 .. n) :
          h[s] = IF s = {} THEN base
                 ELSE LET x == Max(s) IN Ingest(h[s \ {x}], batch[x])
    BY <1>6, <1>7
  <2>3. QED
    BY <1>1, <2>1, <2>2
<1>9. Eq(F)
  <2> HIDE DEF Eq
  <2> QED BY <1>8
<1>10. F[1 .. n] = h[1 .. n]
  <2> HIDE DEF F
  <2>1. /\ F[{}] = base
        /\ \A s \in SUBSET (1 .. n) : s # {} => F[s] = Ingest(F[s \ {Max(s)}], batch[Max(s)])
    BY <1>1, <1>9
  <2>2. AgreeUpwards(F, h, n)
    BY <1>6, <1>7, <2>1 DEF AgreeUpwards
  <2>3. \A s \in SUBSET (1 .. n) : F[s] = h[s]
    BY <1>1, <2>2, FoldUnique
  <2>4. QED
    BY <2>3
<1>11. FoldLeft(Ingest, base, batch) = F[DOMAIN batch]
  BY DEF FoldLeft, MapThenFoldSet
<1>12. FoldLeft(Ingest, base, batch) = f[n]
  <2> HIDE DEF F
  <2> QED BY <1>1, <1>4, <1>10, <1>11
<1>13. ASSUME NEW i \in 1 .. n PROVE f[i] = Ingest(f[i - 1], batch[i])
  <2>1. f[i] = G[f[i - 1]][i]
    BY <1>4 DEF Along
  <2>2. f[i - 1] \in X
    BY <1>1, <1>4
  <2>3. QED
    BY <2>1, <2>2 DEF G
<1>14. f[0] = base
  BY <1>4 DEF Along
<1>15. QED
  BY <1>4, <1>12, <1>13, <1>14 DEF X, BatchAlong

LEMMA BatchTraced ==
  ASSUME NEW qs, NEW batch \in Seq(DOMAIN Nearest), Range(batch) \subseteq qs,
         NEW base, Traced(base, qs)
  PROVE  /\ Traced(FoldLeft(Ingest, base, batch), qs)
         /\ Grown(base, FoldLeft(Ingest, base, batch))
<1>1. PICK n : n = Len(batch)
  OBVIOUS
<1>2. n \in Nat /\ \A i \in 1 .. n : batch[i] \in DOMAIN Nearest /\ batch[i] \in qs
  BY <1>1 DEF Range
<1>3. base \in Seq(Passage)
  BY DEF Traced
<1>4. PICK f : BatchAlong(f, base, batch, n)
  BY <1>1, <1>3, BatchSteps
<1>5. /\ f \in [0 .. n -> Seq(Passage)] /\ f[0] = base
      /\ \A i \in 1 .. n : f[i] = Ingest(f[i - 1], batch[i])
      /\ FoldLeft(Ingest, base, batch) = f[n]
  BY <1>4 DEF BatchAlong
<1>6. \A i \in 1 .. n : Traced(f[i - 1], qs) => Traced(f[i], qs) /\ Grown(f[i - 1], f[i])
  BY <1>2, <1>5, IngestTraced
<1>7. Traced(f[n], qs) /\ Grown(f[0], f[n])
  BY <1>2, <1>5, <1>6, StepsTraced
<1>8. QED
  BY <1>5, <1>7

(* The prompt of a row shows a beginning of the list p, its anchor one     *)
(* that is no shorter.                                                     *)
RowTraced(row, p) ==
  \E a, b \in 0 .. Len(p) :
    /\ a <= b
    /\ row.prompt.shown = SubSeq(p, 1, a) /\ row.anchor.passages = SubSeq(p, 1, b)
    /\ row.prompt.tokens <= PromptLength
    /\ row.prompt.cut =>
         \A n \in 1 .. a : Sum([k \in 1 .. n |-> Length[p[k].text].chars]) <= MinChars

LEMMA LengthsAddUp ==
  ASSUME NEW p \in Seq(Passage), NEW n \in 0 .. Len(p)
  PROVE  /\ Sum([k \in 1 .. n |-> Length[p[k].text].chars]) \in Int
         /\ Sum([k \in 1 .. n |-> Length[p[k].text].tokens]) \in Int
<1> DEFINE c == [k \in 1 .. n |-> Length[p[k].text].chars]
           t == [k \in 1 .. n |-> Length[p[k].text].tokens]
<1>1. n \in Nat /\ \A k \in 1 .. n : k \in 1 .. Len(p)
  OBVIOUS
<1>2. ASSUME NEW k \in 1 .. n PROVE p[k].text \in Texts
  <2>1. p[k] \in Passage
    BY <1>1
  <2>2. QED
    BY <2>1 DEF Passage
<1>3. c \in [1 .. n -> Int] /\ t \in [1 .. n -> Int]
  BY <1>2, HotpotAssumption DEF Texts
<1> HIDE DEF c, t
<1>4. PICK f : SumsAlong(f, c, n) /\ Sum(c) = f[n]
  BY <1>1, <1>3, SumSteps
<1>5. PICK g : SumsAlong(g, t, n) /\ Sum(t) = g[n]
  BY <1>1, <1>3, SumSteps
<1>6. Sum(c) \in Int /\ Sum(t) \in Int
  BY <1>1, <1>4, <1>5 DEF SumsAlong
<1>7. QED
  BY <1>6 DEF c, t

FeedbackLines == {"no query", "unparsable"}

HotpotTypes ==
  /\ passages \in Seq(Passage) /\ queries \in Seq(DOMAIN Nearest)
  /\ feedback \in Seq(FeedbackLines)

LEMMA LineAdded ==
  ASSUME feedback \in Seq(FeedbackLines)
  PROVE  /\ Append(feedback, "no query") \in Seq(FeedbackLines)
         /\ Append(feedback, "unparsable") \in Seq(FeedbackLines)
<1>1. PICK x, y \in FeedbackLines : x = "no query" /\ y = "unparsable"
  BY DEF FeedbackLines
<1>2. Append(feedback, x) \in Seq(FeedbackLines) /\ Append(feedback, y) \in Seq(FeedbackLines)
  OBVIOUS
<1>3. QED
  BY <1>1, <1>2

(* Within a larger budget stand no fewer passages. *)
LEMMA WithinFacts ==
  ASSUME HotpotTypes, NEW m \in Int
  PROVE  /\ PassagesWithin(m) \in 0 .. Len(passages)
         /\ \A k \in 1 .. PassagesWithin(m) : Chars(k) <= m
         /\ \A l \in Int : m <= l => PassagesWithin(m) <= PassagesWithin(l)
<1> DEFINE S(l) == {n \in 0 .. Len(passages) : \A k \in 1 .. n : Chars(k) <= l}
<1>1. Len(passages) \in Nat /\ \A k \in 0 .. Len(passages) : Chars(k) \in Int
  <2>1. PICK p \in Seq(Passage) : p = passages
    BY DEF HotpotTypes
  <2>2. ASSUME NEW n \in 0 .. Len(p) PROVE Chars(n) \in Int
    <3>1. Sum([k \in 1 .. n |-> Length[p[k].text].chars]) \in Int
      BY LengthsAddUp
    <3>2. QED
      BY <2>1, <3>1 DEF Chars
  <2>3. Len(passages) \in Nat
    BY <2>1
  <2>4. QED
    BY <2>1, <2>2, <2>3
<1>2. \A l : PassagesWithin(l) = Max(S(l))
  BY DEF PassagesWithin
<1>3. ASSUME NEW l \in Int PROVE Max(S(l)) \in S(l) /\ \A x \in S(l) : x <= Max(S(l))
  <2>1. 0 \in S(l) /\ S(l) \subseteq Nat /\ \A x \in S(l) : x <= Len(passages)
    BY <1>1
  <2> HIDE DEF S
  <2>2. QED
    BY <1>1, <2>1, MaxProperties
<1>4. ASSUME NEW l \in Int, m <= l PROVE Max(S(m)) <= Max(S(l))
  <2>1. Max(S(m)) \in S(m)
    BY <1>3
  <2>2. S(m) \subseteq S(l)
    <3>1. ASSUME NEW n \in 0 .. Len(passages), NEW k \in 1 .. n, Chars(k) <= m PROVE Chars(k) <= l
      <4>1. Chars(k) \in Int
        BY <1>1
      <4>2. QED
        BY <1>4, <3>1, <4>1
    <3>2. QED
      BY <3>1
  <2> HIDE DEF S
  <2>3. QED
    BY <1>3, <2>1, <2>2
<1>5. Max(S(m)) \in S(m)
  BY <1>3
<1>6. Max(S(m)) \in 0 .. Len(passages) /\ \A k \in 1 .. Max(S(m)) : Chars(k) <= m
  BY <1>5
<1> HIDE DEF S
<1>7. QED
  BY <1>2, <1>4, <1>6

(* Where the block stops shrinking. *)
Fits(m) == Tokens(PassagesWithin(m)) <= PromptLength \/ m <= MinChars

LEMMA PromptFits ==
  \E m \in 0 .. FullBlock :
    /\ Fits(m)
    /\ Prompt.shown = SubSeq(passages, 1, PassagesWithin(m))
    /\ Prompt.tokens = IF Tokens(PassagesWithin(m)) <= PromptLength
                         THEN Tokens(PassagesWithin(m)) ELSE PromptLength
    /\ Prompt.cut => Tokens(PassagesWithin(m)) > PromptLength
<1> DEFINE B == FullBlock
           S == {m \in 0 .. B : Fits(m)}
           g == [m \in 0 .. B |-> Max({MinChars, (72 * m) \div 100})]
           Eq(h) == h = [m \in 0 .. FullBlock |->
                           IF Tokens(PassagesWithin(m)) <= PromptLength \/ m <= MinChars THEN m
                           ELSE h[Max({MinChars, (72 * m) \div 100})]]
           F == CHOOSE h : Eq(h)
<1>1. B \in Nat /\ MinChars \in Nat
  BY HotpotAssumption DEF FullBlock
<1>2. Shrinks(g, B, S)
  <2>1. SUFFICES ASSUME NEW m \in 0 .. B, m \notin S PROVE g[m] \in 0 .. m - 1
    BY DEF Shrinks
  <2>2. m \in Nat /\ MinChars < m
    BY <1>1, <2>1 DEF Fits
  <2>3. (72 * m) \div 100 \in 0 .. m - 1
    <3>1. PICK d : d = (72 * m) \div 100
      OBVIOUS
    <3>2. m >= 1 /\ 72 * m \in Nat
      BY <1>1, <2>2
    <3>3. d \in Int /\ 100 * d <= 72 * m /\ 72 * m < 100 * d + 100
      BY <3>1, <3>2
    <3>4. d >= 0 /\ d < m
      BY <2>2, <3>2, <3>3
    <3>5. QED
      BY <2>2, <3>1, <3>3, <3>4
  <2>4. \A x \in {MinChars, (72 * m) \div 100} : x \in Nat /\ x <= m
    BY <1>1, <2>2, <2>3
  <2>5. Max({MinChars, (72 * m) \div 100}) \in {MinChars, (72 * m) \div 100}
    BY <2>2, <2>4, MaxProperties
  <2>6. QED
    BY <1>1, <2>1, <2>2, <2>3, <2>5
<1> HIDE DEF S
<1>3. PICK h \in [0 .. B -> Nat] : ShrunkTo(h, B, S, g)
  <2> HIDE DEF B, g
  <2> QED BY <1>1, <1>2, ShrinkExists
<1>4. \A m \in 0 .. B : (m \in S) = (Tokens(PassagesWithin(m)) <= PromptLength \/ m <= MinChars)
  BY DEF S, Fits
<1>5. Eq(h)
  <2>1. \A m \in 0 .. B : h[m] = IF m \in S THEN m ELSE h[g[m]]
    BY <1>3 DEF ShrunkTo
  <2>2. \A m \in 0 .. B :
          h[m] = IF Tokens(PassagesWithin(m)) <= PromptLength \/ m <= MinChars THEN m
                 ELSE h[Max({MinChars, (72 * m) \div 100})]
    BY <1>4, <2>1
  <2>3. h = [m \in 0 .. FullBlock |-> h[m]]
    OBVIOUS
  <2>4. QED
    BY <2>2, <2>3
<1>6. Eq(F)
  <2> HIDE DEF Eq
  <2> QED BY <1>5
<1>7. ShrunkTo(F, B, S, g)
  <2>1. \A m \in 0 .. B :
          F[m] = IF Tokens(PassagesWithin(m)) <= PromptLength \/ m <= MinChars THEN m
                 ELSE F[Max({MinChars, (72 * m) \div 100})]
    <3> HIDE DEF F
    <3> QED BY <1>6
  <2> HIDE DEF F
  <2>2. \A m \in 0 .. B : F[m] = IF m \in S THEN m ELSE F[g[m]]
    BY <1>4, <2>1
  <2>3. QED
    BY <2>2 DEF ShrunkTo
<1>8. Prompt = LET shown == PassagesWithin(F[FullBlock])
                   tokens == Tokens(shown)
               IN  [shown |-> SubSeq(passages, 1, shown),
                    tokens |-> IF tokens <= PromptLength THEN tokens ELSE PromptLength,
                    cut |-> tokens > PromptLength]
  BY DEF Prompt
<1>9. F[B] \in S /\ F[B] \in 0 .. B
  <2> HIDE DEF B, g, F
  <2> QED BY <1>1, <1>2, <1>7, ShrinkEnds
<1> HIDE DEF F
<1>10. F[B] \in 0 .. FullBlock /\ Fits(F[B])
  BY <1>9 DEF S
<1>11. QED
  BY <1>8, <1>10

(* What a turn shows is traced. *)
LEMMA PromptTraced ==
  ASSUME HotpotTypes, NEW row, row.prompt = Prompt, row.anchor = Anchor
  PROVE  RowTraced(row, passages)
<1>1. PICK m \in 0 .. FullBlock :
        /\ Fits(m)
        /\ Prompt.shown = SubSeq(passages, 1, PassagesWithin(m))
        /\ Prompt.tokens = IF Tokens(PassagesWithin(m)) <= PromptLength
                             THEN Tokens(PassagesWithin(m)) ELSE PromptLength
        /\ Prompt.cut => Tokens(PassagesWithin(m)) > PromptLength
  BY PromptFits
<1>2. PICK a, b : a = PassagesWithin(m) /\ b = PassagesWithin(FullBlock)
  OBVIOUS
<1>3. m \in Int /\ FullBlock \in Int /\ m <= FullBlock /\ PromptLength \in Int /\ MinChars \in Int
  BY HotpotAssumption DEF FullBlock
<1>4. a \in 0 .. Len(passages) /\ b \in 0 .. Len(passages) /\ a <= b
      /\ \A k \in 1 .. a : Chars(k) <= m
  BY <1>2, <1>3, WithinFacts
<1>5. Tokens(a) \in Int
  <2>1. PICK p \in Seq(Passage) : p = passages
    BY DEF HotpotTypes
  <2>2. Sum([k \in 1 .. a |-> Length[p[k].text].tokens]) \in Int
    BY <1>4, <2>1, LengthsAddUp
  <2>3. BaseTokens \in Int /\ Len(queries) \in Int /\ Len(feedback) \in Int
    BY HotpotAssumption DEF HotpotTypes
  <2>4. QED
    BY <2>1, <2>2, <2>3 DEF Tokens
<1>6. ASSUME Prompt.cut, NEW n \in 1 .. a PROVE Chars(n) <= MinChars
  <2>1. m <= MinChars
    <3>1. Tokens(a) > PromptLength /\ Fits(m)
      BY <1>1, <1>2, <1>6
    <3>2. QED
      BY <1>2, <1>3, <1>5, <3>1 DEF Fits
  <2>2. Chars(n) <= m /\ Chars(n) \in Int
    <3>1. PICK p \in Seq(Passage) : p = passages
      BY DEF HotpotTypes
    <3>2. n \in 0 .. Len(p)
      BY <1>4, <3>1
    <3>3. Sum([k \in 1 .. n |-> Length[p[k].text].chars]) \in Int
      BY <3>2, LengthsAddUp
    <3>4. QED
      BY <1>4, <3>1, <3>3 DEF Chars
  <2>3. QED
    BY <1>3, <2>1, <2>2
<1>7. row.prompt.tokens <= PromptLength
  BY <1>1, <1>2, <1>3, <1>5
<1>8. row.prompt.shown = SubSeq(passages, 1, a) /\ row.anchor.passages = SubSeq(passages, 1, b)
  <2>1. Anchor.passages = SubSeq(passages, 1, PassagesWithin(FullBlock))
    BY DEF Anchor
  <2>2. QED
    BY <1>1, <1>2, <2>1
<1>9. row.prompt.cut => \A n \in 1 .. a : Chars(n) <= MinChars
  BY <1>6
<1>10. QED
  BY <1>4, <1>7, <1>8, <1>9 DEF RowTraced, Chars

(* And stays so while the list grows. *)
LEMMA RowStaysTraced ==
  ASSUME NEW p \in Seq(Passage), NEW r \in Seq(Passage), Grown(p, r), NEW row, RowTraced(row, p)
  PROVE  RowTraced(row, r)
<1>1. Len(p) \in Nat /\ Len(r) \in Nat /\ Len(p) <= Len(r) /\ \A k \in 1 .. Len(p) : r[k] = p[k]
  BY DEF Grown
<1>2. PICK a, b \in 0 .. Len(p) :
        /\ a <= b
        /\ row.prompt.shown = SubSeq(p, 1, a) /\ row.anchor.passages = SubSeq(p, 1, b)
        /\ row.prompt.tokens <= PromptLength
        /\ row.prompt.cut =>
             \A n \in 1 .. a : Sum([k \in 1 .. n |-> Length[p[k].text].chars]) <= MinChars
  BY DEF RowTraced
<1>3. ASSUME NEW c \in 0 .. Len(p) PROVE SubSeq(r, 1, c) = SubSeq(p, 1, c)
  <2>1. SubSeq(p, 0 + 1, 0 + c) = [k \in 1 .. c |-> p[0 + k]]
    BY <1>1, SubSeqIs
  <2>2. SubSeq(r, 0 + 1, 0 + c) = [k \in 1 .. c |-> r[0 + k]]
    BY <1>1, SubSeqIs
  <2>3. \A k \in 1 .. c : k \in 1 .. Len(p) /\ 0 + k = k
    BY <1>1
  <2>4. QED
    BY <1>1, <2>1, <2>2, <2>3
<1>4. ASSUME NEW n \in 1 .. a
      PROVE  Sum([k \in 1 .. n |-> Length[r[k].text].chars])
               = Sum([k \in 1 .. n |-> Length[p[k].text].chars])
  <2>1. \A k \in 1 .. n : r[k] = p[k]
    BY <1>1, <1>2
  <2>2. [k \in 1 .. n |-> Length[r[k].text].chars] = [k \in 1 .. n |-> Length[p[k].text].chars]
    BY <2>1
  <2>3. QED
    BY <2>2
<1>5. a \in 0 .. Len(r) /\ b \in 0 .. Len(r)
  BY <1>1
<1>6. SubSeq(r, 1, a) = SubSeq(p, 1, a) /\ SubSeq(r, 1, b) = SubSeq(p, 1, b)
  BY <1>3
<1>7. row.prompt.cut =>
        \A n \in 1 .. a : Sum([k \in 1 .. n |-> Length[r[k].text].chars]) <= MinChars
  BY <1>2, <1>4
<1>8. QED
  BY <1>2, <1>5, <1>6, <1>7 DEF RowTraced

(* The searches counted for a row are those its successor lists; n are the *)
(* queries so far.                                                         *)
Counted(rows, n) ==
  \A i \in 1 .. Len(rows) :
    rows[i].searches = IF i < Len(rows) THEN Len(rows[i + 1].anchor.queries) ELSE n

EvidenceInv ==
  /\ HotpotTypes /\ Traced(passages, Range(queries))
  /\ \E S : hotpotRows \in Seq(S)
  /\ hotpotAt = "start" => hotpotRows = <<>>
  /\ \A i \in 1 .. Len(hotpotRows) : RowTraced(hotpotRows[i], passages)
  /\ Counted(hotpotRows, Len(queries))

LEMMA InitEvidence == HotpotInit => EvidenceInv
<1>1. SUFFICES ASSUME HotpotInit PROVE EvidenceInv
  OBVIOUS
<1>2. /\ hotpotRows = <<>> /\ hotpotRows \in Seq(Nat) /\ Len(hotpotRows) = 0
      /\ passages = <<>> /\ queries = <<>> /\ feedback = <<>>
  BY <1>1 DEF HotpotInit
<1>3. HotpotTypes
  BY <1>2 DEF HotpotTypes
<1>4. Traced(passages, Range(queries))
  BY <1>2 DEF Traced
<1>5. QED
  BY <1>2, <1>3, <1>4 DEF EvidenceInv, Counted

LEMMA TracedMore ==
  ASSUME NEW qs, NEW rs, qs \subseteq rs, NEW p, Traced(p, qs)
  PROVE  Traced(p, rs)
BY DEF Traced

LEMMA ConcatRange ==
  ASSUME NEW S, NEW a \in Seq(S), NEW b \in Seq(S)
  PROVE  Range(a) \subseteq Range(a \o b) /\ Range(b) \subseteq Range(a \o b)
<1> DEFINE c == a \o b
<1>1. /\ c \in Seq(S) /\ Len(a) \in Nat /\ Len(b) \in Nat
      /\ Len(c) = Len(a) + Len(b)
      /\ (\A k \in 1 .. Len(a) : c[k] = a[k])
      /\ \A k \in 1 .. Len(b) : c[Len(a) + k] = b[k]
  BY ConcatElements
<1> HIDE DEF c
<1>2. DOMAIN a = 1 .. Len(a) /\ DOMAIN b = 1 .. Len(b) /\ DOMAIN c = 1 .. Len(a) + Len(b)
  BY <1>1
<1>3. ASSUME NEW k \in 1 .. Len(a) PROVE k \in DOMAIN c /\ c[k] = a[k]
  BY <1>1, <1>2
<1>4. ASSUME NEW k \in 1 .. Len(b) PROVE Len(a) + k \in DOMAIN c /\ c[Len(a) + k] = b[k]
  BY <1>1, <1>2
<1>5. Range(a) \subseteq Range(c) /\ Range(b) \subseteq Range(c)
  BY <1>2, <1>3, <1>4 DEF Range
<1>6. QED
  BY <1>5 DEF c

LEMMA SearchTraced ==
  ASSUME HotpotTypes, Traced(passages, Range(queries)), NEW batch \in Seq(DOMAIN Nearest),
         NEW works \in BOOLEAN, SearchBatch(batch, works), feedback' = feedback
  PROVE  HotpotTypes' /\ Traced(passages', Range(queries')) /\ Grown(passages, passages')
<1>1. PICK p, q : p = passages /\ q = queries
  OBVIOUS
<1>2. queries' = q \o batch /\ q \in Seq(DOMAIN Nearest) /\ Traced(p, Range(q)) /\ p \in Seq(Passage)
  BY <1>1 DEF HotpotTypes, SearchBatch
<1>3. q \o batch \in Seq(DOMAIN Nearest)
  BY <1>2, ConcatElements
<1>4. Range(q) \subseteq Range(q \o batch) /\ Range(batch) \subseteq Range(q \o batch)
  BY <1>2, ConcatRange
<1>5. Traced(p, Range(q \o batch))
  BY <1>2, <1>4, TracedMore
<1>6. Traced(FoldLeft(Ingest, p, batch), Range(q \o batch)) /\ Grown(p, FoldLeft(Ingest, p, batch))
  BY <1>4, <1>5, BatchTraced
<1>7. Grown(p, p)
  BY <1>2, GrownSame
<1>8. Traced(passages', Range(queries')) /\ Grown(passages, passages')
  <2>1. CASE works
    <3>1. passages' = FoldLeft(Ingest, p, batch)
      BY <1>1, <2>1, Zenon DEF SearchBatch
    <3>2. QED
      BY <1>1, <1>2, <1>6, <3>1, Zenon
  <2>2. CASE ~works
    <3>1. passages' = p
      BY <1>1, <2>2, Zenon DEF SearchBatch
    <3>2. QED
      BY <1>1, <1>2, <1>5, <1>7, <3>1, Zenon
  <2>3. QED
    BY <2>1, <2>2
<1>9. HotpotTypes'
  BY <1>2, <1>3, <1>8 DEF HotpotTypes, Traced
<1>10. QED
  BY <1>8, <1>9

(* A turn adds a row. *)
LEMMA TurnTraced ==
  ASSUME EvidenceInv, NEW row, row.prompt = Prompt, row.anchor = Anchor,
         row.searches = Len(queries'), hotpotRows' = Append(hotpotRows, row),
         HotpotTypes', Traced(passages', Range(queries')), Grown(passages, passages'),
         hotpotAt' # "start"
  PROVE  EvidenceInv'
<1>1. PICK S : hotpotRows \in Seq(S)
  BY DEF EvidenceInv
<1>2. PICK p, r, n, q : p = passages /\ r = passages' /\ n = Len(hotpotRows) /\ q = Len(queries')
  OBVIOUS
<1>3. hotpotRows \in Seq(S \cup {row}) /\ row \in S \cup {row}
  BY <1>1
<1>4. /\ hotpotRows' \in Seq(S \cup {row}) /\ Len(hotpotRows') = n + 1 /\ n \in Nat
      /\ hotpotRows'[n + 1] = row /\ \A i \in 1 .. n : hotpotRows'[i] = hotpotRows[i]
  BY <1>2, <1>3
<1>5. p \in Seq(Passage) /\ r \in Seq(Passage) /\ Grown(p, r)
  BY <1>2 DEF Traced, EvidenceInv
<1>6. RowTraced(row, p)
  BY <1>2, PromptTraced DEF EvidenceInv
<1>7. \A i \in 1 .. n + 1 : i \in 1 .. n \/ i = n + 1
  BY <1>4
<1>8. \A i \in 1 .. n + 1 : RowTraced(hotpotRows'[i], r)
  <2>1. ASSUME NEW i \in 1 .. n PROVE RowTraced(hotpotRows'[i], r)
    <3>1. RowTraced(hotpotRows[i], p)
      BY <1>2, <2>1 DEF EvidenceInv
    <3>2. PICK w : w = hotpotRows[i]
      OBVIOUS
    <3>3. RowTraced(w, r)
      BY <1>5, <3>1, <3>2, RowStaysTraced
    <3>4. QED
      BY <1>4, <3>2, <3>3
  <2>2. RowTraced(hotpotRows'[n + 1], r)
    BY <1>4, <1>5, <1>6, RowStaysTraced
  <2>3. QED
    BY <1>7, <2>1, <2>2
<1>9. \A i \in 1 .. n + 1 :
        hotpotRows'[i].searches = IF i < n + 1 THEN Len(hotpotRows'[i + 1].anchor.queries) ELSE q
  <2>1. SUFFICES ASSUME NEW i \in 1 .. n + 1
                 PROVE  hotpotRows'[i].searches
                          = IF i < n + 1 THEN Len(hotpotRows'[i + 1].anchor.queries) ELSE q
    OBVIOUS
  <2>2. Anchor.queries = queries
    BY DEF Anchor
  <2>3. CASE i = n + 1
    BY <1>2, <1>4, <2>3
  <2>4. CASE i = n
    <3>1. hotpotRows[n].searches = Len(queries) /\ n \in 1 .. n /\ n < n + 1
      BY <1>2, <1>4, <2>1, <2>4 DEF EvidenceInv, Counted
    <3>2. QED
      BY <1>4, <2>2, <2>4, <3>1
  <2>5. CASE i < n
    <3>1. i \in 1 .. n /\ i + 1 \in 1 .. n /\ i < n + 1
      BY <1>4, <2>1, <2>5
    <3>2. hotpotRows[i].searches = Len(hotpotRows[i + 1].anchor.queries)
      BY <1>2, <2>5, <3>1 DEF EvidenceInv, Counted
    <3>3. QED
      BY <1>4, <3>1, <3>2
  <2>6. QED
    BY <1>4, <2>1, <2>3, <2>4, <2>5
<1>10. Counted(hotpotRows', q)
  BY <1>4, <1>9 DEF Counted
<1>11. \E T : hotpotRows' \in Seq(T)
  BY <1>4
<1>12. \A i \in 1 .. Len(hotpotRows') : RowTraced(hotpotRows'[i], passages')
  BY <1>2, <1>4, <1>8
<1>13. QED
  BY <1>2, <1>10, <1>11, <1>12 DEF EvidenceInv

LEMMA BeginEvidence == EvidenceInv /\ Begin => EvidenceInv'
<1>1. SUFFICES ASSUME EvidenceInv, Begin PROVE EvidenceInv'
  OBVIOUS
<1>2. hotpotRows = <<>> /\ hotpotRows' = <<>> /\ feedback' = feedback /\ hotpotAt' = "ask"
  BY <1>1 DEF EvidenceInv, Begin
<1>3. PICK works \in BOOLEAN : SearchBatch(<<Question>>, works)
  BY <1>1, Zenon DEF Begin
<1>4. <<Question>> \in Seq(DOMAIN Nearest)
  BY HotpotAssumption
<1>5. HotpotTypes' /\ Traced(passages', Range(queries'))
  BY <1>1, <1>2, <1>3, <1>4, SearchTraced DEF EvidenceInv
<1>6. hotpotRows' \in Seq(Nat) /\ Len(hotpotRows') = 0
  BY <1>2
<1>7. QED
  BY <1>2, <1>5, <1>6 DEF EvidenceInv, Counted

(* The calls of a turn that are searched are queries. *)
LEMMA BatchType ==
  ASSUME NEW cs \in Calls
  PROVE  Among(SubSeq(cs, 1, IF Len(cs) < MaxCalls THEN Len(cs) ELSE MaxCalls), DOMAIN Nearest)
           \in Seq(DOMAIN Nearest)
<1> DEFINE P == DOMAIN Nearest \cup {"useless"}
           t == SubSeq(cs, 1, IF Len(cs) < MaxCalls THEN Len(cs) ELSE MaxCalls)
           a == Among(t, DOMAIN Nearest)
<1>1. PICK n \in 1 .. MaxCalls + 1 : cs \in [1 .. n -> P]
  BY DEF Calls
<1>2. n \in Nat /\ MaxCalls \in Nat
  BY <1>1, HotpotAssumption
<1>3. cs \in Seq(P) /\ Len(cs) = n
  <2> HIDE DEF P
  <2> QED BY <1>1, <1>2
<1>4. t \in Seq(P)
  <2> HIDE DEF P
  <2> QED BY <1>2, <1>3
<1> HIDE DEF P, t
<1>5. Among(t, DOMAIN Nearest) \in Seq(P) /\ Range(Among(t, DOMAIN Nearest)) \subseteq DOMAIN Nearest
  BY <1>4, AmongFacts
<1>6. Among(t, DOMAIN Nearest) \in Seq(DOMAIN Nearest)
  <2>1. PICK b : b = Among(t, DOMAIN Nearest)
    OBVIOUS
  <2>2. b \in Seq(P) /\ \A k \in 1 .. Len(b) : b[k] \in DOMAIN Nearest
    BY <1>5, <2>1 DEF Range
  <2>3. b \in Seq(DOMAIN Nearest)
    BY <2>2
  <2>4. QED
    BY <2>1, <2>3
<1>7. QED
  BY <1>6 DEF t

LEMMA CallToolsEvidence ==
  ASSUME EvidenceInv, NEW cs \in Calls, NEW works \in BOOLEAN, CallTools(cs, works)
  PROVE  EvidenceInv'
<1>1. PICK batch : batch = Among(SubSeq(cs, 1, IF Len(cs) < MaxCalls THEN Len(cs) ELSE MaxCalls),
                                 DOMAIN Nearest)
  OBVIOUS
<1>2. batch \in Seq(DOMAIN Nearest)
  BY <1>1, BatchType
<1>3. hotpotAt = "ask" /\ hotpotAt' = hotpotAt /\ hotpotRows' = Append(hotpotRows, HotpotRow(0, FALSE))
  BY DEF CallTools, MayAsk, SearchRow
<1>4. HotpotTypes' /\ Traced(passages', Range(queries')) /\ Grown(passages, passages')
  <2>1. CASE batch # <<>>
    <3>1. SearchBatch(batch, works) /\ feedback' = feedback
      BY <1>1, <2>1, Zenon DEF CallTools
    <3>2. QED
      BY <1>2, <3>1, SearchTraced DEF EvidenceInv
  <2>2. CASE batch = <<>>
    <3>1. feedback' = Append(feedback, "no query") /\ passages' = passages /\ queries' = queries
      BY <1>1, <2>2, Zenon DEF CallTools
    <3>2. HotpotTypes'
      BY <3>1, LineAdded DEF EvidenceInv, HotpotTypes
    <3>3. Traced(passages', Range(queries'))
      BY <3>1 DEF EvidenceInv
    <3>4. PICK p \in Seq(Passage) : p = passages
      BY DEF EvidenceInv, HotpotTypes
    <3>5. passages' = p /\ Grown(p, p)
      BY <3>1, <3>4, GrownSame
    <3>6. QED
      BY <3>2, <3>3, <3>4, <3>5
  <2>3. QED
    BY <2>1, <2>2
<1>5. PICK row : row = HotpotRow(0, FALSE)
  OBVIOUS
<1>6. row.prompt = Prompt /\ row.anchor = Anchor /\ row.searches = Len(queries')
  BY <1>5 DEF HotpotRow
<1>7. QED
  BY <1>3, <1>4, <1>5, <1>6, TurnTraced

LEMMA GiveAnswerEvidence ==
  ASSUME EvidenceInv, NEW answer, NEW broken \in BOOLEAN, GiveAnswer(answer, broken)
  PROVE  EvidenceInv'
<1>1. /\ hotpotAt' = "over" /\ passages' = passages /\ queries' = queries
      /\ hotpotRows' = Append(hotpotRows, HotpotRow(ExactMatch(answer), TRUE))
      /\ feedback' = IF broken THEN Append(feedback, "unparsable") ELSE feedback
  BY DEF GiveAnswer
<1>2. HotpotTypes'
  BY <1>1, LineAdded DEF EvidenceInv, HotpotTypes
<1>3. Traced(passages', Range(queries')) /\ Grown(passages, passages')
  <2>1. Len(passages) \in Nat
    BY DEF EvidenceInv, HotpotTypes
  <2>2. QED
    BY <1>1, <2>1 DEF EvidenceInv, Grown
<1>4. PICK row : row = HotpotRow(ExactMatch(answer), TRUE)
  OBVIOUS
<1>5. row.prompt = Prompt /\ row.anchor = Anchor /\ row.searches = Len(queries')
  BY <1>4 DEF HotpotRow
<1>6. QED
  BY <1>1, <1>2, <1>3, <1>4, <1>5, TurnTraced

LEMMA NextEvidence == EvidenceInv /\ [HotpotNext]_hotpotVars => EvidenceInv'
<1>1. SUFFICES ASSUME EvidenceInv, [HotpotNext]_hotpotVars PROVE EvidenceInv'
  OBVIOUS
<1>2. CASE Begin
  BY <1>1, <1>2, BeginEvidence
<1>3. ASSUME NEW cs \in Calls, NEW works \in BOOLEAN, CallTools(cs, works) PROVE EvidenceInv'
  BY <1>1, <1>3, CallToolsEvidence
<1>4. ASSUME NEW answer \in Answers, NEW broken \in BOOLEAN, GiveAnswer(answer, broken)
      PROVE  EvidenceInv'
  BY <1>1, <1>4, GiveAnswerEvidence
<1>5. CASE HotpotReturns \/ UNCHANGED hotpotVars
  <2>1. /\ passages' = passages /\ queries' = queries /\ feedback' = feedback
        /\ hotpotRows' = hotpotRows /\ (hotpotAt' = "start" => hotpotAt = "start")
    BY <1>5 DEF HotpotReturns, hotpotVars
  <2>2. HotpotTypes'
    BY <1>1, <2>1 DEF EvidenceInv, HotpotTypes
  <2>3. QED
    BY <1>1, <2>1, <2>2 DEF EvidenceInv
<1>6. QED
  BY <1>1, <1>2, <1>3, <1>4, <1>5, Zenon DEF HotpotNext

(* Of two beginnings of a list the shorter one is a prefix of the other. *)
LEMMA Beginnings ==
  ASSUME NEW S, NEW p \in Seq(S), NEW a \in 0 .. Len(p), NEW b \in 0 .. Len(p), a <= b
  PROVE  /\ Len(SubSeq(p, 1, a)) = a
         /\ IsPrefix(SubSeq(p, 1, a), SubSeq(p, 1, b))
         /\ IsPrefix(SubSeq(p, 1, b), p)
<1> DEFINE u == SubSeq(p, 1, a)
           w == SubSeq(p, 1, b)
<1>1. a \in Nat /\ b \in Nat /\ Len(p) \in Nat
  OBVIOUS
<1>2. /\ u \in Seq(S) /\ Len(u) = a /\ \A k \in 1 .. a : u[k] = p[k]
      /\ w \in Seq(S) /\ Len(w) = b /\ \A k \in 1 .. b : w[k] = p[k]
  BY <1>1
<1> HIDE DEF u, w
<1>3. ASSUME NEW s \in Seq(S), NEW t \in Seq(S), Len(s) <= Len(t),
             \A k \in 1 .. Len(s) : s[k] = t[k]
      PROVE  IsPrefix(s, t)
  <2>1. Len(s) \in Nat /\ Len(t) \in Nat
    OBVIOUS
  <2>2. SubSeq(s, 0 + 1, 0 + Len(s)) = [k \in 1 .. Len(s) |-> s[0 + k]]
    BY <2>1, SubSeqIs
  <2>3. SubSeq(t, 0 + 1, 0 + Len(s)) = [k \in 1 .. Len(s) |-> t[0 + k]]
    BY <1>3, <2>1, SubSeqIs
  <2>4. \A k \in 1 .. Len(s) : 0 + k = k
    BY <2>1
  <2>5. SubSeq(s, 1, Len(s)) = SubSeq(t, 1, Len(s))
    BY <1>3, <2>1, <2>2, <2>3, <2>4
  <2>6. QED
    BY <1>3, <2>5 DEF IsPrefix
<1>4. \A k \in 1 .. a : k \in 1 .. b
  BY <1>1
<1>5. IsPrefix(u, w) /\ IsPrefix(w, p)
  BY <1>1, <1>2, <1>3, <1>4
<1>6. QED
  BY <1>2, <1>5 DEF u, w

LEMMA EvidenceFollows == EvidenceInv => EvidenceAccounted
<1>1. SUFFICES ASSUME EvidenceInv PROVE EvidenceAccounted
  OBVIOUS
<1>2. passages \in Seq(Passage) /\ DOMAIN passages = 1 .. Len(passages) /\ Len(passages) \in Nat
      /\ queries \in Seq(DOMAIN Nearest) /\ DOMAIN hotpotRows = 1 .. Len(hotpotRows)
  BY <1>1 DEF EvidenceInv, HotpotTypes
<1>3. ASSUME NEW i \in DOMAIN passages
      PROVE  /\ Contains(queries, passages[i].query)
             /\ Contains(Found(passages[i].query), passages[i].text)
             /\ \A j \in i + 1 .. Len(passages) : passages[i].text # passages[j].text
  <2>1. i \in 1 .. Len(passages)
    BY <1>2
  <2>2. passages[i].query \in Range(queries) /\ Contains(Found(passages[i].query), passages[i].text)
    BY <1>1, <2>1 DEF EvidenceInv, Traced
  <2>3. Contains(queries, passages[i].query)
    <3>1. DOMAIN queries = 1 .. Len(queries)
      BY <1>2
    <3>2. PICK k \in DOMAIN queries : passages[i].query = queries[k]
      BY <2>2 DEF Range
    <3>3. QED
      BY <3>1, <3>2 DEF Contains
  <2>4. ASSUME NEW j \in i + 1 .. Len(passages) PROVE passages[i].text # passages[j].text
    <3>1. j \in 1 .. Len(passages) /\ i < j
      BY <1>2, <2>1
    <3>2. QED
      BY <1>1, <2>1, <3>1 DEF EvidenceInv, Traced
  <2>5. QED
    BY <2>2, <2>3, <2>4
<1>4. ASSUME NEW i \in DOMAIN hotpotRows
      PROVE  LET row == hotpotRows[i]
             IN  /\ IsPrefix(row.prompt.shown, row.anchor.passages)
                 /\ IsPrefix(row.anchor.passages, passages)
                 /\ row.prompt.tokens <= PromptLength
                 /\ row.prompt.cut => \A n \in 1 .. Len(row.prompt.shown) : Chars(n) <= MinChars
                 /\ row.searches = IF i < Len(hotpotRows) THEN Len(hotpotRows[i + 1].anchor.queries)
                                   ELSE Len(queries)
  <2>1. i \in 1 .. Len(hotpotRows)
    BY <1>2
  <2>2. RowTraced(hotpotRows[i], passages)
    BY <1>1, <2>1 DEF EvidenceInv
  <2>3. PICK row, p : row = hotpotRows[i] /\ p = passages
    OBVIOUS
  <2>4. PICK a, b \in 0 .. Len(p) :
          /\ a <= b
          /\ row.prompt.shown = SubSeq(p, 1, a) /\ row.anchor.passages = SubSeq(p, 1, b)
          /\ row.prompt.tokens <= PromptLength
          /\ row.prompt.cut =>
               \A n \in 1 .. a : Sum([k \in 1 .. n |-> Length[p[k].text].chars]) <= MinChars
    BY <2>2, <2>3 DEF RowTraced
  <2>5. /\ Len(SubSeq(p, 1, a)) = a /\ IsPrefix(SubSeq(p, 1, a), SubSeq(p, 1, b))
        /\ IsPrefix(SubSeq(p, 1, b), p)
    BY <1>2, <2>3, <2>4, Beginnings
  <2>6. row.prompt.cut => \A n \in 1 .. Len(row.prompt.shown) : Chars(n) <= MinChars
    BY <2>3, <2>4, <2>5 DEF Chars
  <2>7. row.searches = IF i < Len(hotpotRows) THEN Len(hotpotRows[i + 1].anchor.queries)
                       ELSE Len(queries)
    BY <1>1, <2>1, <2>3 DEF EvidenceInv, Counted
  <2>8. QED
    BY <2>3, <2>4, <2>5, <2>6, <2>7
<1>5. QED
  BY <1>3, <1>4 DEF EvidenceAccounted

(* In every episode of every instance a HotpotQA passage is listed once,   *)
(* under a query of the history that finds it, and every prompt shows a    *)
(* beginning of the list, within its length (_ingest_results,              *)
(* _format_passage_list, _prompt_ids_within_budget).                       *)
THEOREM EvidenceTraced == Spec => []EvidenceAccounted
<1>1. Init => EvidenceInv
  BY InitEvidence DEF Init
<1>2. EvidenceInv /\ [Next]_vars => EvidenceInv'
  BY OneRecipe, NextEvidence
<1>3. QED
  BY <1>1, <1>2, EvidenceFollows, PTL DEF Spec

----------------------------------------------------------------------------
(* WebShop: the catalogue and what it offers. *)

LEMMA ProductIs ==
  ASSUME NEW a \in Asins
  PROVE  \E i \in Products : Product(a) = Catalogue[i] /\ Catalogue[i].asin = a
<1>1. PICK i \in Products : Catalogue[i].asin = a  BY DEF Asins
<1>2. (CHOOSE k \in Products : Catalogue[k].asin = a) \in Products
      /\ Catalogue[CHOOSE k \in Products : Catalogue[k].asin = a].asin = a
  BY <1>1
<1> QED  BY <1>2 DEF Product

LEMMA ProductFacts ==
  ASSUME NEW a \in Asins
  PROVE  /\ Product(a) \in ProductType /\ Product(a).asin = a
         /\ Values(Product(a).options) \cap (Controls \cup Asins \cup {""}) = {}
<1>1. PICK i \in Products : Product(a) = Catalogue[i] /\ Catalogue[i].asin = a  BY ProductIs
<1>2. Catalogue[i] \in ProductType
  BY CatalogueAssumption, SeqElements DEF Products
<1> QED  BY <1>1, <1>2, CatalogueAssumption

(* An option is offered with the values it has. *)
LEMMA DistinctFacts ==
  ASSUME NEW S, NEW values \in Seq(S)
  PROVE  Distinct(values) \in Seq(S) /\ ToSet(Distinct(values)) = ToSet(values)
<1> DEFINE places == [i \in DOMAIN values |-> i]
           First == {i \in DOMAIN values : \A j \in 1 .. i - 1 : values[j] # values[i]}
           firsts == Among(places, First)
<1>1. places \in Seq(Nat) /\ Len(places) = Len(values) /\ Range(places) = DOMAIN values
      /\ DOMAIN values = 1 .. Len(values) /\ Len(values) \in Nat
  <2>1. DOMAIN values = 1 .. Len(values) /\ Len(values) \in Nat  OBVIOUS
  <2>2. places \in [1 .. Len(values) -> Nat]  BY <2>1
  <2>3. places \in Seq(Nat) /\ Len(places) = Len(values)  BY <2>1, <2>2
  <2>4. Range(places) = DOMAIN values  BY DEF Range
  <2> QED  BY <2>1, <2>3, <2>4
<1> HIDE DEF places
<1>2. firsts \in Seq(Nat) /\ Range(firsts) = First
  <2>1. firsts \in Seq(Nat) /\ Range(firsts) = Range(places) \cap First
    <3> HIDE DEF First
    <3> QED  BY <1>1, AmongFacts
  <2> QED  BY <1>1, <2>1
<1>3. Distinct(values) = [k \in DOMAIN firsts |-> values[firsts[k]]]
  BY DEF Distinct, places
<1>4. DOMAIN firsts = 1 .. Len(firsts) /\ Len(firsts) \in Nat
      /\ \A k \in 1 .. Len(firsts) : firsts[k] \in First /\ firsts[k] \in 1 .. Len(values)
  <2> HIDE DEF firsts, First
  <2>1. DOMAIN firsts = 1 .. Len(firsts) /\ Len(firsts) \in Nat  BY <1>2
  <2>2. First \subseteq DOMAIN values  BY DEF First
  <2> QED  BY <1>1, <1>2, <2>1, <2>2 DEF Range
<1>5. Distinct(values) \in Seq(S)
  <2>1. \A i \in 1 .. Len(values) : values[i] \in S  BY SeqElements
  <2>2. Distinct(values) \in [1 .. Len(firsts) -> S]
    <3> HIDE DEF firsts, First
    <3> QED  BY <1>3, <1>4, <2>1
  <2> HIDE DEF firsts
  <2> QED  BY <1>4, <2>2
<1>6. ASSUME NEW v \in ToSet(values)
      PROVE  v \in ToSet(Distinct(values))
  <2> DEFINE At == {i \in DOMAIN values : values[i] = v}
  <2>1. At \subseteq Nat /\ At # {}  BY <1>1 DEF ToSet
  <2>2. PICK i \in At : \A j \in At : i <= j  BY <2>1, LeastNatural
  <2>3. i \in First
    <3>1. i \in DOMAIN values /\ values[i] = v  BY <2>2
    <3>2. ASSUME NEW j \in 1 .. i - 1, values[j] = v  PROVE FALSE
      <4>1. j \in 1 .. Len(values) /\ j < i /\ i \in Nat  BY <1>1, <3>1
      <4>2. j \in At  BY <1>1, <4>1, <3>2
      <4> QED  BY <2>2, <4>1, <4>2
    <3> QED  BY <3>1, <3>2
  <2>4. PICK k \in DOMAIN firsts : firsts[k] = i  BY <1>2, <2>3 DEF Range
  <2> QED  BY <1>3, <2>2, <2>4 DEF ToSet
<1>7. ToSet(Distinct(values)) \subseteq ToSet(values)
  BY <1>1, <1>3, <1>4 DEF ToSet
<1> QED  BY <1>5, <1>6, <1>7

OptionType == [name : STRING, values : Seq(STRING)]

LEMMA OptionsFacts ==
  ASSUME NEW a \in Asins
  PROVE  /\ Options[a] \in Seq(OptionType)
         /\ Values(Options[a]) \cap (Controls \cup Asins \cup {""}) = {}
         /\ {Options[a][i].name : i \in DOMAIN Options[a]}
              \subseteq {Product(a).options[i].name : i \in DOMAIN Product(a).options}
<1> DEFINE raw == Product(a).options
           Some == {o \in ToSet(raw) : o.values # <<>>}
           kept == Among(raw, Some)
           Named(k) == {i \in DOMAIN kept : kept[i].name = kept[k].name}
           merged == ValuesOfLast(kept)
<1>1. raw \in Seq(OptionType)  BY ProductFacts DEF ProductType, OptionType
<1>2. Options[a] = Distinct(merged)  BY DEF Options
<1> HIDE DEF raw
<1>3. kept \in Seq(OptionType) /\ Range(kept) = Range(raw) \cap Some
  <2> HIDE DEF Some
  <2> QED  BY <1>1, AmongFacts
<1>4. Range(raw) = ToSet(raw)  BY DEF Range, ToSet
<1> HIDE DEF kept
<1>5. DOMAIN kept = 1 .. Len(kept) /\ Len(kept) \in Nat
      /\ \A i \in DOMAIN kept : kept[i] \in OptionType /\ kept[i] \in ToSet(raw)
  BY <1>3, <1>4, SeqElements DEF Range
<1>6. ASSUME NEW k \in DOMAIN kept
      PROVE  Max(Named(k)) \in DOMAIN kept
  <2> DEFINE At == Named(k)
  <2>1. At \subseteq Nat /\ k \in At /\ \A x \in At : x <= Len(kept)  BY <1>5
  <2>2. Max(At) \in At
    <3> HIDE DEF At
    <3> QED  BY <1>5, <2>1, MaxProperties
  <2> QED  BY <2>2
<1>7. merged = [k \in DOMAIN kept |->
                  [name |-> kept[k].name, values |-> Distinct(kept[Max(Named(k))].values)]]
  BY DEF ValuesOfLast
<1> HIDE DEF Named, merged
<1>8. ASSUME NEW k \in DOMAIN kept
      PROVE  /\ merged[k] \in OptionType
             /\ merged[k].name = kept[k].name
             /\ ToSet(merged[k].values) = ToSet(kept[Max(Named(k))].values)
  <2>1. kept[Max(Named(k))].values \in Seq(STRING)  BY <1>5, <1>6 DEF OptionType
  <2>2. Distinct(kept[Max(Named(k))].values) \in Seq(STRING)
        /\ ToSet(Distinct(kept[Max(Named(k))].values)) = ToSet(kept[Max(Named(k))].values)
    BY <2>1, DistinctFacts
  <2>3. merged[k] = [name |-> kept[k].name, values |-> Distinct(kept[Max(Named(k))].values)]
    BY <1>7
  <2>4. kept[k].name \in STRING  BY <1>5 DEF OptionType
  <2> QED  BY <2>2, <2>3, <2>4 DEF OptionType
<1>9. merged \in Seq(OptionType) /\ DOMAIN merged = DOMAIN kept
  <2>1. merged \in [1 .. Len(kept) -> OptionType]  BY <1>5, <1>7, <1>8
  <2> QED  BY <1>5, <2>1
<1>10. Options[a] \in Seq(OptionType) /\ ToSet(Options[a]) = ToSet(merged)
  BY <1>2, <1>9, DistinctFacts
<1>11. ASSUME NEW j \in DOMAIN Options[a]
       PROVE  \E k \in DOMAIN kept : Options[a][j] = merged[k]
  <2>1. Options[a][j] \in ToSet(Options[a])  BY DEF ToSet
  <2> QED  BY <1>9, <1>10, <2>1 DEF ToSet
<1>12. Values(Options[a]) \subseteq Values(raw)
  <2>1. SUFFICES ASSUME NEW j \in DOMAIN Options[a], NEW v \in ToSet(Options[a][j].values)
                 PROVE  v \in Values(raw)
    BY DEF Values
  <2>2. PICK k \in DOMAIN kept : Options[a][j] = merged[k]  BY <1>11
  <2>3. v \in ToSet(kept[Max(Named(k))].values)  BY <1>8, <2>1, <2>2
  <2>4. PICK i \in DOMAIN raw : kept[Max(Named(k))] = raw[i]  BY <1>5, <1>6 DEF ToSet
  <2> QED  BY <2>3, <2>4 DEF Values
<1>13. \A j \in DOMAIN Options[a] : \E i \in DOMAIN raw : Options[a][j].name = raw[i].name
  <2> TAKE j \in DOMAIN Options[a]
  <2>1. PICK k \in DOMAIN kept : Options[a][j] = merged[k]  BY <1>11
  <2>2. Options[a][j].name = kept[k].name  BY <1>8, <2>1
  <2> QED  BY <1>5, <2>2 DEF ToSet
<1>14. Values(raw) \cap (Controls \cup Asins \cup {""}) = {}  BY ProductFacts DEF raw
<1> QED  BY <1>10, <1>12, <1>13, <1>14 DEF raw

(* The ranking lists every product once. *)
LEMMA RankedFacts ==
  ASSUME NEW q \in Queries
  PROVE  Ranked[q] \in Seq(Products) /\ Len(Ranked[q]) = Len(Catalogue)
<1> DEFINE N == Len(Catalogue)
           place == [i \in Products |-> Cardinality(Before(q, i))]
<1>1. N \in Nat /\ Products = 1 .. N /\ IsFiniteSet(Products) /\ Cardinality(Products) = N
  <2>1. Catalogue \in Seq(ProductType)  BY CatalogueAssumption
  <2>2. N \in Nat  BY <2>1
  <2>3. Products = 1 .. N  BY DEF Products
  <2> HIDE DEF N
  <2>4. IsFiniteSet(1 .. N) /\ Cardinality(1 .. N) = N  BY <2>2, FS_Interval, Z3
  <2> QED  BY <2>2, <2>3, <2>4
<1>2. Score[q] \in [Products -> Int]  BY ScoreAssumption
<1>3. ASSUME NEW i \in Products
      PROVE  /\ IsFiniteSet(Before(q, i)) /\ Before(q, i) \subseteq Products \ {i}
             /\ Cardinality(Before(q, i)) \in 0 .. N - 1
  <2>1. Before(q, i) \subseteq Products \ {i}  BY <1>1, <1>2 DEF Before
  <2>2. IsFiniteSet(Products \ {i}) /\ Cardinality(Products \ {i}) = N - 1
    <3> HIDE DEF N
    <3> QED  BY <1>1, FS_RemoveElement
  <2>3. IsFiniteSet(Before(q, i)) /\ Cardinality(Before(q, i)) <= N - 1
    BY <2>1, <2>2, FS_Subset
  <2>4. Cardinality(Before(q, i)) \in Nat  BY <2>3, FS_CardinalityType
  <2> QED  BY <1>1, <2>1, <2>3, <2>4
<1>4. ASSUME NEW i \in Products, NEW k \in Products, i # k
      PROVE  Cardinality(Before(q, i)) # Cardinality(Before(q, k))
  <2>1. ASSUME NEW x \in Products, NEW y \in Products, x \in Before(q, y)
        PROVE  Cardinality(Before(q, x)) < Cardinality(Before(q, y))
    <3>1. Before(q, x) \subseteq Before(q, y)  BY <1>1, <1>2, <2>1 DEF Before
    <3>2. Before(q, x) # Before(q, y)  BY <1>3, <2>1
    <3> QED  BY <1>3, <3>1, <3>2, FS_Subset
  <2>2. i \in Before(q, k) \/ k \in Before(q, i)  BY <1>1, <1>2, <1>4 DEF Before
  <2>3. Cardinality(Before(q, i)) \in Int /\ Cardinality(Before(q, k)) \in Int  BY <1>3
  <2> QED  BY <2>1, <2>2, <2>3
<1>5. ASSUME NEW n \in 1 .. N
      PROVE  \E i \in Products : Cardinality(Before(q, i)) = n - 1
  <2>1. place \in [Products -> 0 .. N - 1]  BY <1>3
  <2>2. \A x, y \in Products : place[x] = place[y] => x = y  BY <1>4
  <2> HIDE DEF place, N
  <2>3. IsFiniteSet(0 .. N - 1) /\ Cardinality(0 .. N - 1) = N  BY <1>1, FS_Interval
  <2>4. place \in Injection(Products, 0 .. N - 1)  BY <2>1, <2>2 DEF Injection, IsInjective
  <2>5. place \in Surjection(Products, 0 .. N - 1)
    BY <1>1, <2>3, <2>4, FS_Injection
  <2>6. PICK i \in Products : place[i] = n - 1  BY <1>1, <2>5 DEF Surjection
  <2> QED  BY <2>6 DEF place
<1>6. Ranked[q] = [n \in Products |-> CHOOSE i \in Products : Cardinality(Before(q, i)) = n - 1]
  BY DEF Ranked
<1>7. \A n \in 1 .. N : Ranked[q][n] \in Products
  BY <1>1, <1>5, <1>6
<1>8. Ranked[q] \in [1 .. N -> Products]  BY <1>1, <1>6, <1>7
<1> HIDE DEF N
<1>9. Ranked[q] \in Seq(Products) /\ Len(Ranked[q]) = N  BY <1>1, <1>8
<1> QED  BY <1>9 DEF N

(* What a page of results lists are products. *)
Typed == Queries \cup {""}

LEMMA PieceOf ==
  ASSUME NEW S, NEW s \in Seq(S), NEW m \in Nat \ {0}, NEW n \in Int, n <= Len(s)
  PROVE  SubSeq(s, m, n) \in Seq(S) /\ ToSet(SubSeq(s, m, n)) \subseteq ToSet(s)
<1>1. Len(s) \in Nat /\ DOMAIN s = 1 .. Len(s) /\ \A i \in 1 .. Len(s) : s[i] \in S
  BY SeqElements
<1>2. SubSeq(s, m, n) \in Seq(S)  BY <1>1
<1>3. DOMAIN SubSeq(s, m, n) = 1 .. (n - m) + 1
      /\ \A i \in 1 .. (n - m) + 1 : SubSeq(s, m, n)[i] = s[m + i - 1]
  BY <1>1
<1>4. \A i \in 1 .. (n - m) + 1 : m + i - 1 \in 1 .. Len(s)  BY <1>1
<1> QED  BY <1>1, <1>2, <1>3, <1>4 DEF ToSet

LEMMA SearchFinds ==
  ASSUME NEW g, NEW q \in Typed
  PROVE  Search(g, q) \in Seq(Products)
<1> DEFINE top == SubSeq(Ranked[q], 1, IF TopK < Len(Catalogue) THEN TopK ELSE Len(Catalogue))
           Hit == {i \in Products : Score[q][i] > 0}
<1>1. Search(g, q) = IF q = "" THEN <<>>
                     ELSE IF g.full \/ Among(top, Hit) # <<>> THEN Among(top, Hit)
                     ELSE SubSeq(top, 1, 1)
  BY DEF Search
<1>2. CASE q = ""
  <2> HIDE DEF top, Hit
  <2>1. Search(g, q) = <<>>  BY <1>1, <1>2
  <2> QED  BY <2>1
<1>3. CASE q # ""
  <2>1. q \in Queries  BY <1>3 DEF Typed
  <2>2. Ranked[q] \in Seq(Products) /\ Len(Ranked[q]) = Len(Catalogue)  BY <2>1, RankedFacts
  <2>3. Len(Catalogue) \in Nat
    <3>1. Catalogue \in Seq(ProductType)  BY CatalogueAssumption
    <3> QED  BY <3>1
  <2>4. (IF TopK < Len(Catalogue) THEN TopK ELSE Len(Catalogue)) \in Int
        /\ (IF TopK < Len(Catalogue) THEN TopK ELSE Len(Catalogue)) <= Len(Catalogue)
    BY <2>3, WindowAssumption
  <2>5. top \in Seq(Products)
    <3> DEFINE n == IF TopK < Len(Catalogue) THEN TopK ELSE Len(Catalogue)
    <3> HIDE DEF n
    <3>1. n \in Int /\ n <= Len(Ranked[q])  BY <2>2, <2>4 DEF n
    <3>2. SubSeq(Ranked[q], 1, n) \in Seq(Products)  BY <2>2, <3>1, PieceOf
    <3> QED  BY <3>2 DEF n
  <2>6. Search(g, q) = Among(top, Hit) \/ Search(g, q) = SubSeq(top, 1, 1)
    <3> HIDE DEF top, Hit
    <3> QED  BY <1>1, <1>3
  <2>7. Len(top) >= 1
    <3> DEFINE n == IF TopK < Len(Catalogue) THEN TopK ELSE Len(Catalogue)
    <3>1. Catalogue \in Seq(ProductType) /\ Catalogue # <<>>  BY CatalogueAssumption
    <3>2. n \in Nat /\ n >= 1 /\ n <= Len(Ranked[q])  BY <2>2, <2>3, <3>1, WindowAssumption
    <3> HIDE DEF n
    <3>3. Len(SubSeq(Ranked[q], 1, n)) = n  BY <2>2, <3>2
    <3> QED  BY <3>2, <3>3 DEF n
  <2> HIDE DEF top, Hit
  <2>8. Among(top, Hit) \in Seq(Products)  BY <2>5, AmongFacts
  <2>9. SubSeq(top, 1, 1) \in Seq(Products)  BY <2>5, <2>7, PieceOf
  <2> QED  BY <2>6, <2>8, <2>9
<1> QED  BY <1>2, <1>3

LEMMA PageLists ==
  ASSUME NEW g, NEW q \in Typed, NEW n \in Nat
  PROVE  ToSet(OnPage(Search(g, q), n)) \subseteq Products
<1> DEFINE r == Search(g, q)
           last == IF (n + 1) * PageSize < Len(r) THEN (n + 1) * PageSize ELSE Len(r)
<1>1. r \in Seq(Products)  BY SearchFinds
<1> HIDE DEF r
<1>2. n * PageSize \in Nat /\ (n + 1) * PageSize \in Nat  BY WindowAssumption
<1>3. last \in Int /\ last <= Len(r)  BY <1>1, <1>2
<1>4. n * PageSize + 1 \in Nat \ {0}  BY <1>2
<1>5. OnPage(r, n) = SubSeq(r, n * PageSize + 1, last)  BY DEF OnPage
<1> HIDE DEF last
<1>6. ToSet(OnPage(r, n)) \subseteq ToSet(r)  BY <1>1, <1>3, <1>4, <1>5, PieceOf
<1>7. ToSet(r) \subseteq Products  BY <1>1, SeqElements DEF ToSet
<1> QED  BY <1>6, <1>7 DEF r

(* The states of an episode. *)
Pages == {"home", "search_results", "item", "subpage", "done"}

IsChoice(o) == o = [n \in DOMAIN o |-> o[n]]

IsState(s) ==
  /\ s = [page |-> s.page, query |-> s.query, pageNum |-> s.pageNum, asin |-> s.asin,
          subpage |-> s.subpage, options |-> s.options]
  /\ s.page \in Pages /\ s.query \in Typed /\ s.pageNum \in Nat
  /\ s.asin \in Asins \cup {NoAsin} /\ IsChoice(s.options)

LEMMA NoChoice == IsChoice(<<>>)
BY DEF IsChoice

LEMMA HomeState == IsState(Home) /\ ~IsState(Unavailable)
<1>1. Home.options = <<>>  BY DEF Home
<1>2. IsChoice(Home.options)  BY <1>1, NoChoice
<1>3. QED  BY <1>2 DEF IsState, Home, Pages, Unavailable, Typed

Fields(s, p, q, k, a, u, o) ==
  s = [page |-> p, query |-> q, pageNum |-> k, asin |-> a, subpage |-> u, options |-> o]

LEMMA ShownState ==
  ASSUME NEW s, IsState(s)
  PROVE  /\ IsState(Shown(s)) /\ Shown(s).asin = s.asin /\ Shown(s).options = s.options
         /\ Shown(s).page = "item"
<1>1. PICK p, q, k, a, u, o : Fields(s, p, q, k, a, u, o)  BY DEF IsState, Fields
<1>2. /\ q \in Typed /\ k \in Nat /\ a \in Asins \cup {NoAsin} /\ s.asin = a /\ s.options = o
  BY <1>1 DEF IsState, Fields
<1> DEFINE first == [s EXCEPT !.page = "item"]
<1>3. first = [page |-> "item", query |-> q, pageNum |-> k, asin |-> a, subpage |-> u, options |-> o]
  BY <1>1 DEF Fields
<1>4. Shown(s) = [first EXCEPT !.subpage = ""]  BY DEF Shown
<1> HIDE DEF first
<1>5. Shown(s) = [page |-> "item", query |-> q, pageNum |-> k, asin |-> a, subpage |-> "", options |-> o]
  BY <1>3, <1>4
<1>6. PICK v : v = ""  OBVIOUS
<1>7. Shown(s) = [page |-> "item", query |-> q, pageNum |-> k, asin |-> a, subpage |-> v, options |-> o]
  BY <1>5, <1>6
<1> QED  BY <1>2, <1>7 DEF IsState, Pages

LEMMA OpenedState ==
  ASSUME NEW s, IsState(s), NEW a \in Asins
  PROVE  /\ IsState(Opened(s, a)) /\ Opened(s, a).asin = a /\ Opened(s, a).options = <<>>
         /\ Opened(s, a).page = "item"
<1>1. IsState(Shown(s)) /\ Shown(s).page = "item"  BY ShownState
<1>2. PICK p, q, k, b, u, o : Fields(Shown(s), p, q, k, b, u, o)  BY <1>1 DEF IsState, Fields
<1>3. q \in Typed /\ k \in Nat /\ p = "item"  BY <1>1, <1>2 DEF IsState, Fields
<1> DEFINE first == [Shown(s) EXCEPT !.asin = a]
<1>4. first = [page |-> p, query |-> q, pageNum |-> k, asin |-> a, subpage |-> u, options |-> o]
  BY <1>2 DEF Fields
<1>5. Opened(s, a) = [first EXCEPT !.options = <<>>]  BY DEF Opened
<1> HIDE DEF first
<1>6. Opened(s, a) = [page |-> p, query |-> q, pageNum |-> k, asin |-> a, subpage |-> u, options |-> <<>>]
  BY <1>4, <1>5
<1>7. Opened(s, a).options = <<>>  BY <1>6
<1> QED  BY <1>3, <1>6, <1>7, NoChoice DEF IsState, Pages

(* The options after a choice. *)
WithOption(s, v) ==
  LET name == OptionLookup[s.asin][v]
  IN  [n \in DOMAIN s.options \cup {name} |-> IF n = name THEN v ELSE s.options[n]]

LEMMA ChosenState ==
  ASSUME NEW s, IsState(s), NEW v
  PROVE  /\ IsState(Chosen(s, v)) /\ Chosen(s, v).asin = s.asin
         /\ Chosen(s, v).page = "item"
         /\ Chosen(s, v).options = WithOption(s, v)
<1>1. IsState(Shown(s)) /\ Shown(s).page = "item" /\ Shown(s).asin = s.asin  BY ShownState
<1>2. PICK p, q, k, b, u, o : Fields(Shown(s), p, q, k, b, u, o)  BY <1>1 DEF IsState, Fields
<1>3. q \in Typed /\ k \in Nat /\ p = "item" /\ b = s.asin /\ b \in Asins \cup {NoAsin}
  BY <1>1, <1>2 DEF IsState, Fields
<1>4. Chosen(s, v) = [Shown(s) EXCEPT !.options = WithOption(s, v)]  BY DEF Chosen, WithOption
<1>5. Chosen(s, v) = [page |-> p, query |-> q, pageNum |-> k, asin |-> b, subpage |-> u,
                      options |-> WithOption(s, v)]
  BY <1>2, <1>4 DEF Fields
<1>6. IsChoice(WithOption(s, v))  BY DEF WithOption, IsChoice
<1> QED  BY <1>3, <1>5, <1>6 DEF IsState, Pages

(* What a click that is not denied does to the product and its options. *)
ClickKeeps(s, t) ==
  /\ t \notin Asins
  /\ t \notin Values(Options[s.asin]) \/ s.asin = NoAsin
  /\ Clicked(s, t).asin = s.asin /\ Clicked(s, t).options = s.options

ClickOpens(s, t) == t \in Asins /\ Clicked(s, t) = Opened(s, t)

ClickChooses(s, t) ==
  /\ t \notin Asins /\ s.asin # NoAsin /\ t \in Values(Options[s.asin])
  /\ Clicked(s, t) = Chosen(s, t)

LEMMA ClickCases ==
  ASSUME NEW s, IsState(s), NEW t, Clicked(s, t) # Unavailable
  PROVE  /\ IsState(Clicked(s, t))
         /\ ClickKeeps(s, t) \/ ClickOpens(s, t) \/ ClickChooses(s, t)
         /\ s.page # "done" /\ Clicked(s, t).page = "done" => t = "buy now"
<1>1. t \in Controls => t \notin Asins /\ (s.asin # NoAsin => t \notin Values(Options[s.asin]))
  BY CatalogueAssumption, OptionsFacts, ProductFacts DEF IsState
<1>2. t \in Asins => t \notin Controls
  BY CatalogueAssumption
<1>3. PICK p, q, k, a, u, o : Fields(s, p, q, k, a, u, o)  BY DEF IsState, Fields
<1>4. /\ p \in Pages /\ q \in Typed /\ k \in Nat /\ a \in Asins \cup {NoAsin}
      /\ s.page = p /\ s.query = q /\ s.pageNum = k /\ s.asin = a /\ s.options = o
  BY <1>3 DEF IsState, Fields
<1>5. CASE t = "buy now"
  <2>1. Clicked(s, t) = [s EXCEPT !.page = "done"]
    BY <1>1, <1>5 DEF Clicked, Controls, Subpages
  <2>2. Clicked(s, t) = [page |-> "done", query |-> q, pageNum |-> k, asin |-> a, subpage |-> u, options |-> o]
    BY <1>3, <2>1 DEF Fields
  <2>3. IsState(Clicked(s, t))  BY <1>4, <2>2 DEF IsState, Pages
  <2>4. ClickKeeps(s, t)
    <3>1. t \in Controls  BY <1>5 DEF Controls
    <3>2. t \notin Asins /\ (t \notin Values(Options[s.asin]) \/ s.asin = NoAsin)
      BY <1>1, <3>1
    <3>3. Clicked(s, t).asin = s.asin /\ Clicked(s, t).options = s.options  BY <1>4, <2>2
    <3> QED  BY <3>2, <3>3 DEF ClickKeeps
  <2> QED  BY <1>5, <2>3, <2>4
<1>6. CASE t = "back to search"
  <2> DEFINE page == IF s.query # "" THEN "search_results" ELSE "home"
             first == [s EXCEPT !.page = page]
  <2>1. Clicked(s, t) = [first EXCEPT !.subpage = ""]
    BY <1>1, <1>6 DEF Clicked, Controls, Subpages
  <2>2. page \in Pages /\ page # "done"  BY DEF Pages
  <2> HIDE DEF page
  <2>3. first = [page |-> page, query |-> q, pageNum |-> k, asin |-> a, subpage |-> u, options |-> o]
    BY <1>3 DEF Fields
  <2> HIDE DEF first
  <2>4. PICK v : v = ""  OBVIOUS
  <2>5. Clicked(s, t) = [page |-> page, query |-> q, pageNum |-> k, asin |-> a, subpage |-> v, options |-> o]
    BY <2>1, <2>3, <2>4
  <2>6. IsState(Clicked(s, t)) /\ Clicked(s, t).page # "done"  BY <1>4, <2>2, <2>5 DEF IsState
  <2>7. ClickKeeps(s, t)
    <3>1. t \in Controls  BY <1>6 DEF Controls
    <3>2. t \notin Asins /\ (t \notin Values(Options[s.asin]) \/ s.asin = NoAsin)
      BY <1>1, <3>1
    <3>3. Clicked(s, t).asin = s.asin /\ Clicked(s, t).options = s.options  BY <1>4, <2>5
    <3> QED  BY <3>2, <3>3 DEF ClickKeeps
  <2> QED  BY <2>6, <2>7
<1>7. CASE t = "back to item"
  <2>1. Clicked(s, t) = IF s.asin # NoAsin THEN Shown(s) ELSE s
    BY <1>1, <1>7 DEF Clicked, Controls, Subpages
  <2>2. IsState(Clicked(s, t)) /\ Clicked(s, t).asin = s.asin /\ Clicked(s, t).options = s.options
        /\ (Clicked(s, t).page = "item" \/ Clicked(s, t) = s)
    BY <2>1, ShownState
  <2>3. ClickKeeps(s, t)
    <3>1. t \in Controls  BY <1>7 DEF Controls
    <3>2. t \notin Asins /\ (t \notin Values(Options[s.asin]) \/ s.asin = NoAsin)
      BY <1>1, <3>1
    <3>3. Clicked(s, t).asin = s.asin /\ Clicked(s, t).options = s.options  BY <2>2
    <3> QED  BY <3>2, <3>3 DEF ClickKeeps
  <2> QED  BY <2>2, <2>3
<1>8. CASE t \in {"next >", "< prev"}
  <2>1. t \notin Asins /\ t \notin Subpages /\ ~(s.asin # NoAsin /\ t \in Values(Options[s.asin]))
    BY <1>1, <1>8 DEF Controls, Subpages
  <2>2. s.page = "search_results"
    BY <1>8, <2>1 DEF Clicked
  <2>3. Clicked(s, t) = [s EXCEPT !.pageNum = @ + 1]
        \/ Clicked(s, t) = [s EXCEPT !.pageNum = IF @ > 0 THEN @ - 1 ELSE 0]
    BY <1>8, <2>1, <2>2 DEF Clicked
  <2>4. PICK n \in Nat :
          Clicked(s, t) = [page |-> p, query |-> q, pageNum |-> n, asin |-> a, subpage |-> u, options |-> o]
    <3>1. CASE Clicked(s, t) = [s EXCEPT !.pageNum = @ + 1]
      <4>1. Clicked(s, t) = [page |-> p, query |-> q, pageNum |-> k + 1, asin |-> a, subpage |-> u, options |-> o]
        BY <1>3, <3>1 DEF Fields
      <4>2. k + 1 \in Nat  BY <1>4
      <4> QED  BY <4>1, <4>2
    <3>2. CASE Clicked(s, t) = [s EXCEPT !.pageNum = IF @ > 0 THEN @ - 1 ELSE 0]
      <4> DEFINE n == IF k > 0 THEN k - 1 ELSE 0
      <4>1. n \in Nat  BY <1>4
      <4>2. Clicked(s, t) = [page |-> p, query |-> q, pageNum |-> n, asin |-> a, subpage |-> u, options |-> o]
        BY <1>3, <3>2 DEF Fields
      <4> HIDE DEF n
      <4> QED  BY <4>1, <4>2
    <3> QED  BY <2>3, <3>1, <3>2
  <2>5. IsState(Clicked(s, t)) /\ Clicked(s, t).page = s.page  BY <1>4, <2>4 DEF IsState
  <2>6. ClickKeeps(s, t)  BY <2>1, <1>4, <2>4 DEF ClickKeeps
  <2> QED  BY <2>2, <2>5, <2>6
<1>9. CASE t \in Asins
  <2>1. t \notin Controls  BY <1>2, <1>9
  <2>2. s.asin # NoAsin => t \notin Values(Options[s.asin])
    BY <1>9, OptionsFacts, ProductFacts DEF IsState
  <2>3. Clicked(s, t) = Opened(s, t)  BY <1>9, <2>1, <2>2 DEF Clicked, Controls, Subpages
  <2> QED  BY <1>9, <2>3, OpenedState DEF ClickOpens
<1>10. CASE t \in Subpages
  <2>1. t \notin Asins /\ ~(s.asin # NoAsin /\ t \in Values(Options[s.asin]))
    BY <1>1, <1>10 DEF Controls
  <2>2. s.asin # NoAsin
    BY <1>10, <2>1 DEF Clicked, Subpages
  <2> DEFINE first == [s EXCEPT !.page = "subpage"]
  <2>3. Clicked(s, t) = [first EXCEPT !.subpage = t]
    BY <1>10, <2>1, <2>2 DEF Clicked, Subpages
  <2>4. first = [page |-> "subpage", query |-> q, pageNum |-> k, asin |-> a, subpage |-> u, options |-> o]
    BY <1>3 DEF Fields
  <2> HIDE DEF first
  <2>5. Clicked(s, t) = [page |-> "subpage", query |-> q, pageNum |-> k, asin |-> a, subpage |-> t, options |-> o]
    BY <2>3, <2>4
  <2>6. IsState(Clicked(s, t)) /\ Clicked(s, t).page # "done"  BY <1>4, <2>5 DEF IsState, Pages
  <2>7. ClickKeeps(s, t)  BY <2>1, <1>4, <2>5 DEF ClickKeeps
  <2> QED  BY <2>6, <2>7
<1>11. CASE t \notin Controls /\ t \notin Asins
  <2>1. s.asin # NoAsin /\ t \in Values(Options[s.asin]) /\ Clicked(s, t) = Chosen(s, t)
    BY <1>11 DEF Clicked, Controls, Subpages
  <2> QED  BY <1>11, <2>1, ChosenState DEF ClickChooses
<1> QED  BY <1>5, <1>6, <1>7, <1>8, <1>9, <1>10, <1>11 DEF Controls

(* Every click that is listed works. *)
LEMMA MenuWorks ==
  ASSUME NEW g, NEW s, IsState(s), NEW t \in AvailableActions(g, s)
  PROVE  ~Denied(s, Click(t))
<1>1. SUFFICES ASSUME Clicked(s, t) = Unavailable PROVE FALSE
  BY DEF Denied, NewState, Click
<1>2. Unavailable.page = "unavailable"  BY DEF Unavailable, Home
<1>3. t \in Controls => t \notin Asins /\ (s.asin # NoAsin => t \notin Values(Options[s.asin]))
  BY CatalogueAssumption, OptionsFacts, ProductFacts DEF IsState
<1>4. PICK p, q, k, a, u, o : Fields(s, p, q, k, a, u, o)  BY DEF IsState, Fields
<1>5. p \in Pages /\ s.page = p /\ s.asin = a  BY <1>4 DEF IsState, Fields
<1>6. s.query \in Typed /\ s.pageNum \in Nat  BY DEF IsState
<1>7. CASE t = "buy now"
  <2>1. Clicked(s, t) = [s EXCEPT !.page = "done"]
    BY <1>3, <1>7 DEF Clicked, Controls, Subpages
  <2>2. Clicked(s, t) = [page |-> "done", query |-> q, pageNum |-> k, asin |-> a, subpage |-> u, options |-> o]
    BY <1>4, <2>1 DEF Fields
  <2> QED  BY <1>1, <1>2, <2>2
<1>8. CASE t = "back to search"
  <2> DEFINE page == IF s.query # "" THEN "search_results" ELSE "home"
             first == [s EXCEPT !.page = page]
  <2>1. Clicked(s, t) = [first EXCEPT !.subpage = ""]
    BY <1>3, <1>8 DEF Clicked, Controls, Subpages
  <2>2. page # "unavailable"  OBVIOUS
  <2> HIDE DEF page
  <2>3. first = [page |-> page, query |-> q, pageNum |-> k, asin |-> a, subpage |-> u, options |-> o]
    BY <1>4 DEF Fields
  <2> HIDE DEF first
  <2>4. PICK v : v = ""  OBVIOUS
  <2>5. Clicked(s, t) = [page |-> page, query |-> q, pageNum |-> k, asin |-> a, subpage |-> v, options |-> o]
    BY <2>1, <2>3, <2>4
  <2> QED  BY <1>1, <1>2, <2>2, <2>5
<1>9. CASE t = "back to item"
  <2>1. Clicked(s, t) = IF s.asin # NoAsin THEN Shown(s) ELSE s
    BY <1>3, <1>9 DEF Clicked, Controls, Subpages
  <2> QED  BY <1>1, <2>1, ShownState, HomeState
<1>10. CASE t \in {"next >", "< prev"} /\ s.page = "search_results"
  <2>1. t \notin Asins /\ t \notin Subpages /\ ~(s.asin # NoAsin /\ t \in Values(Options[s.asin]))
    BY <1>3, <1>10 DEF Controls, Subpages
  <2>2. Clicked(s, t) = [s EXCEPT !.pageNum = @ + 1]
        \/ Clicked(s, t) = [s EXCEPT !.pageNum = IF @ > 0 THEN @ - 1 ELSE 0]
    BY <1>10, <2>1 DEF Clicked
  <2>3. Clicked(s, t).page = s.page
    BY <1>4, <2>2 DEF Fields
  <2> QED  BY <1>1, <1>2, <1>10, <2>3
<1>11. CASE t \in Asins
  <2>1. t \notin Controls  BY <1>3, <1>11
  <2>2. s.asin # NoAsin => t \notin Values(Options[s.asin])
    BY <1>11, OptionsFacts, ProductFacts DEF IsState
  <2>3. Clicked(s, t) = Opened(s, t)  BY <1>11, <2>1, <2>2 DEF Clicked, Controls, Subpages
  <2> QED  BY <1>1, <1>11, <2>3, OpenedState, HomeState
<1>12. CASE t \in Subpages /\ s.asin # NoAsin
  <2>1. t \in Controls  BY <1>12 DEF Controls
  <2> DEFINE first == [s EXCEPT !.page = "subpage"]
  <2>2. Clicked(s, t) = [first EXCEPT !.subpage = t]
    BY <1>3, <1>12, <2>1 DEF Clicked, Subpages
  <2>3. first = [page |-> "subpage", query |-> q, pageNum |-> k, asin |-> a, subpage |-> u, options |-> o]
    BY <1>4 DEF Fields
  <2> HIDE DEF first
  <2>4. Clicked(s, t) = [page |-> "subpage", query |-> q, pageNum |-> k, asin |-> a, subpage |-> t, options |-> o]
    BY <2>2, <2>3
  <2> QED  BY <1>1, <1>2, <2>4
<1>13. CASE s.asin # NoAsin /\ t \in Values(Options[s.asin])
  <2>1. t \notin Controls /\ t \notin Asins
    BY <1>13, OptionsFacts, ProductFacts DEF IsState
  <2>2. Clicked(s, t) = Chosen(s, t)  BY <1>13, <2>1 DEF Clicked, Controls, Subpages
  <2> QED  BY <1>1, <2>2, ChosenState, HomeState
<1>14. CASE s.page = "search_results"
  <2> DEFINE listed == {Catalogue[i].asin : i \in ToSet(OnPage(Search(g, s.query), s.pageNum))}
  <2>1. t \in listed \/ t \in {"next >", "< prev"}
    BY <1>14 DEF AvailableActions
  <2>2. listed \subseteq Asins
    BY <1>6, PageLists DEF Asins
  <2> HIDE DEF listed
  <2> QED  BY <1>10, <1>11, <1>14, <2>1, <2>2
<1>15. CASE s.page = "item" /\ s.asin # NoAsin
  <2>1. t \in Subpages \/ t \in Values(Options[s.asin]) \/ t \in {"back to search", "buy now"}
    BY <1>15 DEF AvailableActions
  <2> QED  BY <1>7, <1>8, <1>12, <1>13, <1>15, <2>1
<1>16. CASE s.page = "subpage" /\ s.asin # NoAsin
  <2>1. t \in {"back to item", "back to search", "buy now"}
    BY <1>16 DEF AvailableActions
  <2> QED  BY <1>7, <1>8, <1>9, <2>1
<1>17. s.page = "search_results" \/ (s.page = "item" /\ s.asin # NoAsin)
         \/ (s.page = "subpage" /\ s.asin # NoAsin)
  BY DEF AvailableActions
<1> QED  BY <1>14, <1>15, <1>16, <1>17

(* A command searches, clicks or is denied, and leads to a state again. *)
LEMMA CommandKinds ==
  ASSUME NEW c \in Commands
  PROVE  \/ c.verb = "search" /\ c.of \in Queries /\ c = SearchFor(c.of)
         \/ c.verb = "click" /\ c = Click(c.of)
         \/ c.verb = "" /\ \A s : Denied(s, c)
<1>1. ASSUME NEW q \in Queries, c = SearchFor(q)
      PROVE  c.verb = "search" /\ c.of \in Queries /\ c = SearchFor(c.of)
  BY <1>1 DEF SearchFor
<1>2. ASSUME NEW t, c = Click(t)
      PROVE  c.verb = "click" /\ c = Click(c.of)
  BY <1>2 DEF Click
<1>3. ASSUME c = Garbled
      PROVE  c.verb = "" /\ \A s : Denied(s, c)
  BY <1>3 DEF Garbled, Denied, NewState
<1> QED  BY <1>1, <1>2, <1>3 DEF Commands

LEMMA SearchedState ==
  ASSUME NEW s, IsState(s), NEW c \in Commands, c.verb = "search"
  PROVE  /\ IsState(After(s, c)) /\ After(s, c).asin = NoAsin
         /\ After(s, c).page = "search_results"
<1>1. PICK p, q, k, a, u, o : Fields(s, p, q, k, a, u, o)  BY DEF IsState, Fields
<1>2. c.of \in Queries
  BY CommandKinds
<1> DEFINE s1 == [s EXCEPT !.page = "search_results"]
           s2 == [s1 EXCEPT !.query = c.of]
           s3 == [s2 EXCEPT !.pageNum = 0]
           s4 == [s3 EXCEPT !.asin = NoAsin]
           s5 == [s4 EXCEPT !.subpage = ""]
<1>3. s1 = [page |-> "search_results", query |-> q, pageNum |-> k, asin |-> a, subpage |-> u, options |-> o]
  BY <1>1 DEF Fields
<1> HIDE DEF s1
<1>4. s2 = [page |-> "search_results", query |-> c.of, pageNum |-> k, asin |-> a, subpage |-> u, options |-> o]
  BY <1>3
<1> HIDE DEF s2
<1>5. s3 = [page |-> "search_results", query |-> c.of, pageNum |-> 0, asin |-> a, subpage |-> u, options |-> o]
  BY <1>4
<1> HIDE DEF s3
<1>6. s4 = [page |-> "search_results", query |-> c.of, pageNum |-> 0, asin |-> NoAsin, subpage |-> u, options |-> o]
  BY <1>5
<1> HIDE DEF s4
<1> HIDE DEF s4
<1>7. PICK v : v = ""  OBVIOUS
<1>8. s5 = [s4 EXCEPT !.subpage = v]  BY <1>7
<1>9. \A x : [s4 EXCEPT !.subpage = x] =
          [page |-> "search_results", query |-> c.of, pageNum |-> 0, asin |-> NoAsin, subpage |-> x, options |-> o]
  BY <1>6
<1> HIDE DEF s5
<1>10. s5 = [page |-> "search_results", query |-> c.of, pageNum |-> 0, asin |-> NoAsin, subpage |-> v, options |-> o]
  BY <1>8, <1>9
<1> USE DEF s5
<1>11. NewState(s, c) = s5
  BY CommandKinds DEF NewState, s1, s2, s3, s4
<1> HIDE DEF s5
<1>12. IsState(s5) /\ s5.asin = NoAsin /\ s5.page = "search_results"
  <2>1. IsChoice(o)  BY <1>1 DEF IsState, Fields
  <2> QED  BY <1>2, <1>10, <2>1 DEF IsState, Pages, Typed
<1>13. ~Denied(s, c)  BY <1>11, <1>12, HomeState DEF Denied
<1> QED  BY <1>11, <1>12, <1>13 DEF After

LEMMA AfterState ==
  ASSUME NEW s, IsState(s), NEW c \in Commands
  PROVE  IsState(After(s, c))
<1>1. CASE Denied(s, c)
  BY <1>1 DEF After
<1>2. CASE ~Denied(s, c) /\ c.verb = "click"
  <2>1. After(s, c) = Clicked(s, c.of) /\ Clicked(s, c.of) # Unavailable
    BY <1>2 DEF After, Denied, NewState
  <2> QED  BY <2>1, ClickCases
<1>3. CASE ~Denied(s, c) /\ c.verb # "click"
  BY <1>3, CommandKinds, SearchedState
<1> QED  BY <1>1, <1>2, <1>3

(* What the flow shows belongs to the state it holds. *)
MenuInv ==
  /\ IsState(envState)
  /\ \E v, k : screen = [view |-> v, complaints |-> k]
  /\ phase = "play" => /\ screen.view = View(goal, envState)
                       /\ menu = AvailableActions(goal, envState)

LEMMA InitMenuInv == ShopInit => MenuInv
BY HomeState DEF ShopInit, MenuInv

LEMMA NextMenuInv == MenuInv /\ [ShopNext]_shopVars => MenuInv'
<1> SUFFICES ASSUME MenuInv, [ShopNext]_shopVars PROVE MenuInv'
  OBVIOUS
<1>1. CASE Reset
  BY <1>1, HomeState DEF Reset, MenuInv
<1>2. ASSUME NEW c \in Commands, Turn(c) PROVE MenuInv'
  <2> DEFINE r == Step(goal, envState, c)
  <2>1. /\ r.state = After(envState, c)
        /\ r.view = View(goal, After(envState, c))
        /\ r.menu = AvailableActions(goal, After(envState, c))
    BY DEF Step, Answer
  <2>2. /\ envState' = r.state /\ screen' = [view |-> r.view, complaints |-> 0]
        /\ menu' = r.menu /\ goal' = goal
    BY <1>2 DEF Turn
  <2>3. IsState(After(envState, c))  BY AfterState DEF MenuInv
  <2> HIDE DEF r
  <2>4. screen'.view = r.view  BY <2>2
  <2> QED  BY <2>1, <2>2, <2>3, <2>4 DEF MenuInv
<1>3. CASE TurnLost
  BY <1>3 DEF TurnLost, MenuInv
<1>4. CASE InvalidTurn
  <2>1. PICK v, k : screen = [view |-> v, complaints |-> k]  BY DEF MenuInv
  <2>2. screen' = [view |-> v, complaints |-> k + 1]  BY <1>4, <2>1 DEF InvalidTurn
  <2>3. screen'.view = screen.view  BY <2>1, <2>2
  <2> QED  BY <1>4, <2>2, <2>3 DEF InvalidTurn, MenuInv
<1>5. CASE Return
  BY <1>5 DEF Return, MenuInv
<1>6. CASE UNCHANGED shopVars
  BY <1>6 DEF shopVars, MenuInv
<1> QED  BY <1>1, <1>2, <1>3, <1>4, <1>5, <1>6 DEF ShopNext

LEMMA MenuInvHonours == MenuInv => MenuHonoured
BY MenuWorks DEF MenuInv, MenuHonoured

----------------------------------------------------------------------------
(* WebShop: what is paid for was bought. *)

(* The goals. *)
GoalRight(g) ==
  /\ g.asin \in Asins /\ g.full \in BOOLEAN
  /\ IsFiniteSet(g.attributes) /\ Cardinality(g.attributes) <= Handful
  /\ ~g.full => /\ IsFiniteSet(DOMAIN g.options) /\ Cardinality(DOMAIN g.options) <= Handful
                /\ \A n \in DOMAIN g.options : g.options[n] \in Values(Options[g.asin])
  /\ g.full => /\ g.options \in Seq(STRING)
               /\ Cardinality(g.attributes) + Len(g.options) <= Handful
  /\ g.limit \in Int /\ Product(g.asin).price <= g.limit

LEMMA UnlimitedIs == Unlimited \in Nat
BY SMT DEF Unlimited

LEMMA CatalogueEntry ==
  ASSUME NEW i \in Products
  PROVE  /\ Catalogue[i] \in ProductType /\ Catalogue[i].asin \in Asins
         /\ Product(Catalogue[i].asin) = Catalogue[i]
         /\ Catalogue[i].price \in 0 .. Unlimited
<1>1. Catalogue \in Seq(ProductType) /\ i \in 1 .. Len(Catalogue)
  BY CatalogueAssumption DEF Products
<1>2. Catalogue[i] \in ProductType  BY <1>1, SeqElements
<1>3. Catalogue[i].asin \in Asins  BY DEF Asins
<1>4. PICK k \in Products : Product(Catalogue[i].asin) = Catalogue[k]
                            /\ Catalogue[k].asin = Catalogue[i].asin
  BY <1>3, ProductIs
<1>5. k = i  BY <1>4, CatalogueAssumption
<1> QED  BY <1>2, <1>3, <1>4, <1>5 DEF ProductType

LEMMA BuildGoalsRight == \A g \in BuildGoals : GoalRight(g) /\ ~g.full
<1> SUFFICES ASSUME NEW g \in BuildGoals PROVE GoalRight(g) /\ ~g.full
  OBVIOUS
<1>1. PICK i \in Products : \E c \in OptionCombos(Catalogue[i].asin) :
        g = [full |-> FALSE, asin |-> Catalogue[i].asin, attributes |-> Catalogue[i].wanted,
             options |-> c, limit |-> (3 * Catalogue[i].price) \div 2 + 1]
  BY DEF BuildGoals
<1> DEFINE p == Catalogue[i]
<1>2. PICK c \in OptionCombos(p.asin) :
        g = [full |-> FALSE, asin |-> p.asin, attributes |-> p.wanted, options |-> c,
             limit |-> (3 * p.price) \div 2 + 1]
  BY <1>1
<1>3. p \in ProductType /\ p.asin \in Asins /\ Product(p.asin) = p /\ p.price \in 0 .. Unlimited
  BY CatalogueEntry
<1> DEFINE opts == Options[p.asin]
           Names2 == {opts[k].name : k \in DOMAIN opts}
<1>4. opts \in Seq(OptionType) /\ Names2 \subseteq {p.options[k].name : k \in DOMAIN p.options}
  <2> DEFINE a == p.asin
  <2>1. a \in Asins /\ Product(a) = p  BY <1>3
  <2> HIDE DEF a
  <2>2. /\ Options[a] \in Seq(OptionType)
        /\ {Options[a][k].name : k \in DOMAIN Options[a]}
             \subseteq {Product(a).options[k].name : k \in DOMAIN Product(a).options}
    BY <2>1, OptionsFacts
  <2>3. Product(a).options = p.options  BY <2>1
  <2>4. /\ Options[a] \in Seq(OptionType)
        /\ {Options[a][k].name : k \in DOMAIN Options[a]}
             \subseteq {p.options[k].name : k \in DOMAIN p.options}
    BY <2>2, <2>3
  <2> QED  BY <2>4 DEF a
<1>5. c \in [Names2 -> Values(opts)]
  BY DEF OptionCombos
<1> HIDE DEF opts, Names2
<1>6. DOMAIN c = Names2 /\ \A n \in DOMAIN c : c[n] \in Values(Options[p.asin])
  BY <1>5 DEF opts
<1>7. p.options \in Seq(OptionType)  BY <1>3 DEF ProductType, OptionType
<1>8. IsFiniteSet(p.wanted) /\ Cardinality(p.wanted) <= Handful /\ Len(p.options) <= Handful
  BY GoalAssumption
<1> HIDE DEF p
<1>9. IsFiniteSet(Names2) /\ Cardinality(Names2) <= Handful
  <2> DEFINE All == {p.options[k].name : k \in 1 .. Len(p.options)}
  <2>1. Len(p.options) \in Nat /\ DOMAIN p.options = 1 .. Len(p.options)  BY <1>7
  <2>2. IsFiniteSet(1 .. Len(p.options)) /\ Cardinality(1 .. Len(p.options)) = Len(p.options)
    <3> DEFINE m == Len(p.options)
    <3> HIDE DEF m
    <3>1. m \in Nat  BY <2>1 DEF m
    <3>2. IsFiniteSet(1 .. m) /\ Cardinality(1 .. m) = m  BY <3>1, FS_Interval
    <3> QED  BY <3>2 DEF m
  <2>3. IsFiniteSet(All) /\ Cardinality(All) <= Len(p.options)
    <3> DEFINE f == [k \in 1 .. Len(p.options) |-> p.options[k].name]
    <3>1. f \in Surjection(1 .. Len(p.options), All)  BY DEF Surjection
    <3> HIDE DEF f, All
    <3> QED  BY <2>2, <3>1, FS_Surjection
  <2>4. Names2 \subseteq All  BY <1>4, <2>1
  <2> HIDE DEF All
  <2>5. IsFiniteSet(Names2) /\ Cardinality(Names2) <= Cardinality(All)  BY <2>3, <2>4, FS_Subset
  <2>6. Cardinality(Names2) \in Nat /\ Cardinality(All) \in Nat  BY <2>3, <2>5, FS_CardinalityType
  <2> QED  BY <1>8, <2>1, <2>3, <2>5, <2>6 DEF Handful
<1>10. g.limit \in Int /\ p.price <= g.limit
  <2>1. p.price \in Nat  BY <1>3, UnlimitedIs
  <2>2. g.limit = (3 * p.price) \div 2 + 1  BY <1>2
  <2> QED  BY <2>1, <2>2
<1>11. g.asin = p.asin /\ g.full = FALSE /\ g.attributes = p.wanted /\ g.options = c
  BY <1>2
<1> QED  BY <1>3, <1>6, <1>8, <1>9, <1>10, <1>11 DEF GoalRight

LEMMA HumanGoalsRight == \A g \in HumanGoals : GoalRight(g)
<1> SUFFICES ASSUME NEW g \in HumanGoals PROVE GoalRight(g)
  OBVIOUS
<1>1. PICK i \in Products : \E h \in ToSet(Catalogue[i].human), u \in PriceUpper(Catalogue[i].price) :
        g = [full |-> TRUE, asin |-> Catalogue[i].asin, attributes |-> h.attributes,
             options |-> h.options, limit |-> u]
  BY DEF HumanGoals
<1> DEFINE p == Catalogue[i]
<1>2. PICK h \in ToSet(p.human), u \in PriceUpper(p.price) :
        g = [full |-> TRUE, asin |-> p.asin, attributes |-> h.attributes, options |-> h.options, limit |-> u]
  BY <1>1
<1>3. p \in ProductType /\ p.asin \in Asins /\ Product(p.asin) = p /\ p.price \in 0 .. Unlimited
  BY CatalogueEntry
<1>4. IsFiniteSet(h.attributes) /\ Cardinality(h.attributes) + Len(h.options) <= Handful
  BY GoalAssumption
<1> HIDE DEF p
<1>5. h.options \in Seq(STRING)
  <2> DEFINE HumanType == [attributes : SUBSET STRING, options : Seq(STRING), instructed : BOOLEAN]
  <2>1. p.human \in Seq(HumanType)
    BY <1>3 DEF ProductType
  <2>2. PICK k \in DOMAIN p.human : h = p.human[k]  BY DEF ToSet
  <2>3. h \in HumanType
    <3> HIDE DEF HumanType
    <3>1. k \in 1 .. Len(p.human)  BY <2>1
    <3> QED  BY <2>1, <2>2, <3>1, SeqElements
  <2> QED  BY <2>3
<1>6. u \in Int /\ p.price <= u
  <2>1. u = Unlimited \/ (u \in PriceRange /\ u > p.price)  BY DEF PriceUpper
  <2>2. p.price \in Int /\ p.price <= Unlimited /\ Unlimited \in Int  BY <1>3, UnlimitedIs
  <2>3. u \in PriceRange => u \in Int  BY ScoreAssumption
  <2>4. PICK price : price = p.price  OBVIOUS
  <2>5. price \in Int /\ price <= Unlimited /\ (u = Unlimited \/ (u \in PriceRange /\ u > price))
    BY <2>1, <2>2, <2>4
  <2>6. u \in Int  BY <2>1, <2>2, <2>3
  <2>7. price <= u  BY <2>5, <2>6
  <2> QED  BY <2>4, <2>6, <2>7
<1>7. g.asin = p.asin /\ g.full = TRUE /\ g.attributes = h.attributes /\ g.options = h.options /\ g.limit = u
  BY <1>2
<1>8. Cardinality(h.attributes) \in Nat /\ Len(h.options) \in Nat
  BY <1>4, <1>5, FS_CardinalityType
<1>9. Cardinality(h.attributes) <= Handful  BY <1>4, <1>8 DEF Handful
<1> QED  BY <1>3, <1>4, <1>5, <1>6, <1>7, <1>9 DEF GoalRight

(* A part of a score is full, or clearly less. *)
PartRight(h, a) ==
  /\ ScorePart(h, a) \in 0 .. 1000
  /\ h = a => ScorePart(h, a) = 1000
  /\ h < a => ScorePart(h, a) <= 995

LEMMA ScorePartFacts ==
  ASSUME NEW h \in Nat, NEW a \in Nat, h <= a, a <= Handful
  PROVE  PartRight(h, a)
<1>1. CASE a = 0
  BY <1>1 DEF ScorePart, PartRight
<1>2. CASE a # 0
  <2> DEFINE x == 1000 * h
             d == x \div a
  <2>1. ScorePart(h, a) = d  BY <1>2 DEF ScorePart
  <2>2. x \in Nat /\ a \in Nat \ {0}  BY <1>2
  <2> HIDE DEF x
  <2>3. d \in Nat /\ a * d <= x /\ x < a * d + a  BY <2>2
  <2> HIDE DEF d
  <2>4. ASSUME d >= 1001 PROVE FALSE
    <3>1. a * d >= a * 1001  BY <2>2, <2>3, <2>4
    <3> QED  BY <2>2, <2>3, <3>1 DEF x
  <2>5. ASSUME h = a PROVE d = 1000
    <3>1. ASSUME d <= 999 PROVE FALSE
      <4>1. a * d <= a * 999  BY <2>2, <2>3, <3>1
      <4> QED  BY <2>2, <2>3, <2>5, <4>1 DEF x
    <3> QED  BY <2>3, <2>4, <3>1
  <2>6. ASSUME h < a, d >= 996 PROVE FALSE
    <3>1. a * d >= a * 996  BY <2>2, <2>3, <2>6
    <3> QED  BY <2>2, <2>3, <2>6, <3>1 DEF x, Handful
  <2> QED  BY <2>1, <2>3, <2>4, <2>5, <2>6 DEF PartRight
<1> QED  BY <1>1, <1>2

(* A success has all that the goal asks for. *)
LEMMA AllOf ==
  ASSUME NEW S, IsFiniteSet(S), NEW T, T \subseteq S
  PROVE  /\ Cardinality(T) \in Nat /\ Cardinality(S) \in Nat /\ Cardinality(T) <= Cardinality(S)
         /\ Cardinality(T) = Cardinality(S) => T = S
BY FS_Subset, FS_CardinalityType

LEMMA PriceIs ==
  ASSUME NEW a \in Asins
  PROVE  Product(a).price \in Int
<1>1. PICK i \in Products : Product(a) = Catalogue[i]  BY ProductIs
<1>2. Catalogue[i].price \in 0 .. Unlimited  BY CatalogueEntry
<1> QED  BY <1>1, <1>2, UnlimitedIs

SmallMeans(g, s) ==
  /\ s.asin = g.asin
  /\ g.attributes \subseteq Product(s.asin).text
  /\ Product(s.asin).price <= g.limit
  /\ \A n \in DOMAIN g.options : n \in DOMAIN s.options /\ s.options[n] = g.options[n]

LEMMA SmallSuccess ==
  ASSUME NEW g, GoalRight(g), ~g.full, NEW s, s.asin \in Asins
  PROVE  SmallScore(g, s) >= 999 <=> SmallMeans(g, s)
<1> DEFINE found == g.attributes \cap Product(s.asin).text
           chosen == {n \in DOMAIN g.options : n \in DOMAIN s.options /\ s.options[n] = g.options[n]}
           target == IF Product(s.asin).asin = g.asin THEN 1 ELSE 0
           A == Cardinality(g.attributes)
           O == Cardinality(DOMAIN g.options)
           a == ScorePart(Cardinality(found), A)
           o == ScorePart(Cardinality(chosen), O)
           p == IF Product(s.asin).price <= g.limit THEN 100 ELSE 0
           score == 350 * target + (300 * a) \div 1000 + (250 * o) \div 1000 + p
<1>1. SmallScore(g, s) = IF target = 1 THEN score ELSE score \div 2
  BY DEF SmallScore
<1>2. /\ IsFiniteSet(g.attributes) /\ A <= Handful
      /\ IsFiniteSet(DOMAIN g.options) /\ O <= Handful
  BY DEF GoalRight
<1>3. /\ Cardinality(found) \in Nat /\ A \in Nat /\ Cardinality(found) <= A
      /\ Cardinality(found) = A <=> found = g.attributes
  <2>1. found \subseteq g.attributes  OBVIOUS
  <2> HIDE DEF found
  <2> QED  BY <1>2, <2>1, AllOf
<1>4. /\ Cardinality(chosen) \in Nat /\ O \in Nat /\ Cardinality(chosen) <= O
      /\ Cardinality(chosen) = O <=> chosen = DOMAIN g.options
  <2>1. chosen \subseteq DOMAIN g.options  OBVIOUS
  <2> HIDE DEF chosen
  <2> QED  BY <1>2, <2>1, AllOf
<1>5. Product(s.asin).asin = s.asin  BY OptionsFacts, ProductFacts
<1>6. /\ found = g.attributes <=> g.attributes \subseteq Product(s.asin).text
      /\ chosen = DOMAIN g.options
           <=> \A n \in DOMAIN g.options : n \in DOMAIN s.options /\ s.options[n] = g.options[n]
      /\ target \in {0, 1} /\ (target = 1 <=> s.asin = g.asin)
      /\ p \in {0, 100} /\ (p = 100 <=> Product(s.asin).price <= g.limit)
  BY <1>5
<1> HIDE DEF found, chosen, target, A, O, p
<1>7. /\ a \in 0 .. 1000 /\ (found = g.attributes => a = 1000) /\ (found # g.attributes => a <= 995)
      /\ o \in 0 .. 1000 /\ (chosen = DOMAIN g.options => o = 1000)
      /\ (chosen # DOMAIN g.options => o <= 995)
  <2>1. PartRight(Cardinality(found), A)  BY <1>2, <1>3, ScorePartFacts
  <2>2. PartRight(Cardinality(chosen), O)
    <3> DEFINE c == Cardinality(chosen)
    <3>1. c \in Nat /\ O \in Nat /\ c <= O /\ O <= Handful  BY <1>2, <1>4
    <3> HIDE DEF c
    <3>2. PartRight(c, O)  BY <3>1, ScorePartFacts
    <3> QED  BY <3>2 DEF c
  <2> QED  BY <1>3, <1>4, <2>1, <2>2 DEF PartRight
<1> HIDE DEF a, o
<1>8. (SmallScore(g, s) >= 999) <=> (target = 1 /\ a = 1000 /\ o = 1000 /\ p = 100)
  <2>1. score \in Int /\ score <= 1000 /\ score \div 2 <= 500
    BY <1>6, <1>7
  <2>2. ASSUME target = 1 /\ a = 1000 /\ o = 1000 /\ p = 100 PROVE score = 1000
    BY <2>2
  <2>3. ASSUME target = 1, ~(a = 1000 /\ o = 1000 /\ p = 100) PROVE score < 999
    BY <1>6, <1>7, <2>3
  <2> HIDE DEF score
  <2> QED  BY <1>1, <1>6, <2>1, <2>2, <2>3
<1>9. a = 1000 <=> found = g.attributes  BY <1>7
<1>10. o = 1000 <=> chosen = DOMAIN g.options  BY <1>7
<1> QED  BY <1>6, <1>8, <1>9, <1>10 DEF SmallMeans

FullMeans(g, s) ==
  /\ g.attributes \subseteq Product(s.asin).text
  /\ Product(s.asin).price <= g.limit
  /\ \A k \in DOMAIN g.options : \E n \in DOMAIN s.options : Alike(s.options[n], g.options[k])

LEMMA TypeScores ==
  ASSUME NEW g, NEW item
  PROVE  TypeScore(g, item) \in {0, 100, 500, 1000}
BY DEF TypeScore

LEMMA FullSuccess ==
  ASSUME NEW g, GoalRight(g), g.full, NEW s, s.asin \in Asins
  PROVE  /\ FullScore(g, s) >= 999 => FullMeans(g, s)
         /\ FullMeans(g, s) /\ TypeScore(g, Product(s.asin)) = 1000 => FullScore(g, s) = 1000
<1> DEFINE item == Product(s.asin)
           found == g.attributes \cap item.text
           selected == {s.options[n] : n \in DOMAIN s.options}
           options == {k \in DOMAIN g.options : \E v \in selected : Alike(v, g.options[k])}
           p == IF item.price <= g.limit THEN 1 ELSE 0
           hits == Cardinality(found) + Cardinality(options) + p
           all == Cardinality(g.attributes) + Len(g.options) + 1
           T == TypeScore(g, item)
<1>1. FullScore(g, s) = (T * hits) \div all
  BY DEF FullScore
<1>2. /\ IsFiniteSet(g.attributes) /\ g.options \in Seq(STRING)
      /\ Cardinality(g.attributes) + Len(g.options) <= Handful
  BY DEF GoalRight
<1>3. /\ Cardinality(found) \in Nat /\ Cardinality(g.attributes) \in Nat
      /\ Cardinality(found) <= Cardinality(g.attributes)
      /\ Cardinality(found) = Cardinality(g.attributes) <=> found = g.attributes
  <2>1. found \subseteq g.attributes  OBVIOUS
  <2> HIDE DEF found
  <2> QED  BY <1>2, <2>1, AllOf
<1>4. /\ Cardinality(options) \in Nat /\ Len(g.options) \in Nat
      /\ Cardinality(options) <= Len(g.options)
      /\ Cardinality(options) = Len(g.options) <=> options = DOMAIN g.options
  <2>1. options \subseteq DOMAIN g.options  OBVIOUS
  <2>2. DOMAIN g.options = 1 .. Len(g.options) /\ Len(g.options) \in Nat  BY <1>2
  <2> HIDE DEF options
  <2> DEFINE m == Len(g.options)
  <2>3. m \in Nat /\ options \subseteq 1 .. m  BY <2>1, <2>2
  <2> HIDE DEF m
  <2>4. IsFiniteSet(1 .. m) /\ Cardinality(1 .. m) = m  BY <2>3, FS_Interval
  <2>5. /\ Cardinality(options) \in Nat /\ Cardinality(options) <= m
        /\ Cardinality(options) = m <=> options = 1 .. m
    BY <2>3, <2>4, AllOf
  <2> QED  BY <2>2, <2>5 DEF m
<1>5. /\ found = g.attributes <=> g.attributes \subseteq item.text
      /\ options = DOMAIN g.options
           <=> \A k \in DOMAIN g.options : \E n \in DOMAIN s.options : Alike(s.options[n], g.options[k])
      /\ p \in {0, 1} /\ (p = 1 <=> item.price <= g.limit)
  OBVIOUS
<1>6. T \in {0, 100, 500, 1000}  BY TypeScores
<1>7. FullMeans(g, s) <=> found = g.attributes /\ options = DOMAIN g.options /\ p = 1
  BY <1>5 DEF FullMeans
<1> HIDE DEF item, found, selected, options, p, T
<1>8. hits \in Nat /\ all \in Nat \ {0} /\ hits <= all /\ all <= Handful + 1
      /\ (hits = all <=> found = g.attributes /\ options = DOMAIN g.options /\ p = 1)
  BY <1>2, <1>3, <1>4, <1>5 DEF Handful
<1> HIDE DEF hits, all
<1> DEFINE x == T * hits
           d == x \div all
<1>9. x \in Nat /\ x <= 1000 * hits /\ (T = 1000 => x = 1000 * hits)
  BY <1>6, <1>8
<1> HIDE DEF x
<1>10. d \in Nat /\ all * d <= x /\ x < all * d + all
  BY <1>8, <1>9
<1>11. FullScore(g, s) = d  BY <1>1 DEF x
<1> HIDE DEF d
<1>12. ASSUME hits # all, d >= 999 PROVE FALSE
  <2>1. all * d >= all * 999  BY <1>8, <1>10, <1>12
  <2> QED  BY <1>8, <1>9, <1>10, <1>12, <2>1 DEF Handful
<1>13. ASSUME hits = all, T = 1000 PROVE d = 1000
  <2>1. ASSUME d >= 1001 PROVE FALSE
    <3>1. all * d >= all * 1001  BY <1>8, <1>10, <2>1
    <3> QED  BY <1>8, <1>9, <1>10, <1>13, <3>1
  <2>2. ASSUME d <= 999 PROVE FALSE
    <3>1. all * d <= all * 999  BY <1>8, <1>10, <2>2
    <3> QED  BY <1>8, <1>9, <1>10, <1>13, <3>1
  <2> QED  BY <1>10, <2>1, <2>2
<1> QED  BY <1>7, <1>8, <1>10, <1>11, <1>12, <1>13 DEF T, item

LEMMA SuccessMeans ==
  ASSUME NEW g, GoalRight(g), NEW s, IsState(s), Success(g, s)
  PROVE  s.asin \in Asins /\ IF g.full THEN FullMeans(g, s) ELSE SmallMeans(g, s)
<1>1. s.asin # NoAsin
  <2>1. s.asin = NoAsin => TaskScore(g, s) = 0  BY DEF TaskScore
  <2> QED  BY <2>1 DEF Success
<1>2. s.asin \in Asins  BY <1>1 DEF IsState
<1>3. TaskScore(g, s) = IF g.full THEN FullScore(g, s) ELSE SmallScore(g, s)
  BY <1>1 DEF TaskScore
<1>4. g.full \in BOOLEAN  BY DEF GoalRight
<1> QED  BY <1>2, <1>3, <1>4, SmallSuccess, FullSuccess DEF Success

(* Where a command was given last. *)
LEMMA LastIs ==
  ASSUME NEW T, NEW h \in Seq(T), NEW S
  PROVE  /\ LastOf(h, S) \in 0 .. Len(h)
         /\ LastOf(h, S) > 0 => h[LastOf(h, S)] \in S
         /\ \A i \in 1 .. Len(h) : h[i] \in S => i <= LastOf(h, S)
<1> DEFINE at == {0} \cup {i \in DOMAIN h : h[i] \in S}
<1>1. Len(h) \in Nat /\ DOMAIN h = 1 .. Len(h)  OBVIOUS
<1>2. at \subseteq Nat /\ 0 \in at /\ \A x \in at : x <= Len(h)  BY <1>1
<1>3. LastOf(h, S) = Max(at)  BY DEF LastOf
<1>4. Max(at) \in at /\ \A x \in at : x <= Max(at)
  <2> HIDE DEF at
  <2> QED  BY <1>1, <1>2, MaxProperties
<1> QED  BY <1>1, <1>3, <1>4

LEMMA LastUnique ==
  ASSUME NEW T, NEW h \in Seq(T), NEW S, NEW k \in 0 .. Len(h),
         k > 0 => h[k] \in S, \A i \in 1 .. Len(h) : h[i] \in S => i <= k
  PROVE  LastOf(h, S) = k
<1>1. Len(h) \in Nat  OBVIOUS
<1> DEFINE m == LastOf(h, S)
<1>2. /\ m \in 0 .. Len(h) /\ (m > 0 => h[m] \in S)
      /\ \A i \in 1 .. Len(h) : h[i] \in S => i <= m
  BY LastIs
<1> HIDE DEF m
<1>3. m <= k /\ k <= m  BY <1>1, <1>2
<1> QED  BY <1>1, <1>2, <1>3 DEF m

LEMMA LastAppended ==
  ASSUME NEW T, NEW h \in Seq(T), NEW c \in T, NEW S
  PROVE  LastOf(Append(h, c), S) = IF c \in S THEN Len(h) + 1 ELSE LastOf(h, S)
<1> DEFINE n == Append(h, c)
           m == LastOf(h, S)
           k == IF c \in S THEN Len(h) + 1 ELSE m
<1>1. /\ n \in Seq(T) /\ Len(h) \in Nat /\ Len(n) = Len(h) + 1 /\ n[Len(h) + 1] = c
      /\ \A i \in 1 .. Len(h) : n[i] = h[i]
  OBVIOUS
<1>2. /\ m \in 0 .. Len(h) /\ (m > 0 => h[m] \in S)
      /\ \A i \in 1 .. Len(h) : h[i] \in S => i <= m
  BY LastIs
<1> HIDE DEF n, m
<1>3. k \in 0 .. Len(n) /\ (k > 0 => n[k] \in S)  BY <1>1, <1>2
<1>4. \A i \in 1 .. Len(n) : n[i] \in S => i <= k  BY <1>1, <1>2
<1> HIDE DEF k
<1>5. LastOf(n, S) = k  BY <1>1, <1>3, <1>4, LastUnique
<1> QED  BY <1>5 DEF n, m, k

(* The product of a state was opened last, and its options are the values *)
(* clicked last since.                                                    *)
Since(h, a, n) == LastOf(h, Naming(a, n)) > LastOf(h, Openings)

Tells(h, s) ==
  s.asin # NoAsin =>
    /\ LastOf(h, Openings) > 0 /\ h[LastOf(h, Openings)] = Click(s.asin)
    /\ \A n : n \in DOMAIN s.options <=> n \in OptionNames(s.asin) /\ Since(h, s.asin, n)
    /\ \A n \in DOMAIN s.options : s.options[n] = h[LastOf(h, Naming(s.asin, n))].of

Given == Commands \cup {Invalid}

(* What is clicked on a product's page. *)
LEMMA LookupDomain ==
  ASSUME NEW a \in Asins
  PROVE  /\ DOMAIN OptionLookup[a] = Values(Options[a])
         /\ DOMAIN OptionLookup[a] \cap (Controls \cup Asins) = {}
         /\ \A n : n \in OptionNames(a) <=> \E v \in DOMAIN OptionLookup[a] : OptionLookup[a][v] = n
<1>1. DOMAIN OptionLookup[a] = Values(Options[a])  BY DEF OptionLookup
<1> QED  BY <1>1, OptionsFacts, ProductFacts DEF OptionNames, Range

LEMMA NamingIs ==
  ASSUME NEW a \in Asins, NEW n, NEW c
  PROVE  c \in Naming(a, n) <=> /\ c = Click(c.of) /\ c.of \in DOMAIN OptionLookup[a]
                                /\ OptionLookup[a][c.of] = n
BY DEF Naming, Click

LEMMA OpeningIs ==
  ASSUME NEW t
  PROVE  Click(t) \in Openings <=> t \in Asins
BY DEF Openings, Click, SearchFor

LEMMA VerbsOf ==
  /\ \A c \in Openings : c.verb = "search" \/ c.verb = "click"
  /\ \A a, n : \A c \in Naming(a, n) : c.verb = "click"
BY DEF Openings, Naming, Click, SearchFor

(* A command that neither opens nor chooses leaves the tale as it is. *)
LEMMA TellsOn ==
  ASSUME NEW h \in Seq(Given), NEW s, IsState(s), Tells(h, s), NEW c \in Given, NEW u,
         u.asin = s.asin, u.options = s.options,
         c \notin Openings, s.asin # NoAsin => \A n : c \notin Naming(s.asin, n)
  PROVE  Tells(Append(h, c), u)
<1> SUFFICES ASSUME s.asin # NoAsin PROVE Tells(Append(h, c), u)
  BY DEF Tells
<1> DEFINE hh == Append(h, c)
<1>1. LastOf(hh, Openings) = LastOf(h, Openings)
      /\ \A n : LastOf(hh, Naming(s.asin, n)) = LastOf(h, Naming(s.asin, n))
  BY LastAppended
<1>2. /\ Len(h) \in Nat /\ \A i \in 1 .. Len(h) : hh[i] = h[i]
      /\ LastOf(h, Openings) \in 0 .. Len(h)
      /\ \A n : LastOf(h, Naming(s.asin, n)) \in 0 .. Len(h)
  BY LastIs
<1> HIDE DEF hh
<1>3. \A n : n \in DOMAIN u.options => LastOf(h, Naming(s.asin, n)) \in 1 .. Len(h)
  BY <1>2 DEF Tells, Since
<1>4. \A n : Since(hh, s.asin, n) <=> Since(h, s.asin, n)  BY <1>1 DEF Since
<1>5. hh[LastOf(h, Openings)] = h[LastOf(h, Openings)]  BY <1>2 DEF Tells
<1>6. \A n \in DOMAIN u.options :
        u.options[n] = hh[LastOf(hh, Naming(s.asin, n))].of
  BY <1>1, <1>2, <1>3 DEF Tells
<1>7. /\ LastOf(h, Openings) > 0 /\ h[LastOf(h, Openings)] = Click(s.asin)
      /\ \A n : n \in DOMAIN s.options <=> n \in OptionNames(s.asin) /\ Since(h, s.asin, n)
  BY DEF Tells
<1>8. Tells(hh, u)
  BY <1>1, <1>4, <1>5, <1>6, <1>7 DEF Tells
<1> QED  BY <1>8 DEF hh

LEMMA TellsOpened ==
  ASSUME NEW h \in Seq(Given), NEW a \in Asins, Click(a) \in Given, NEW u,
         u.asin = a, u.options = <<>>
  PROVE  Tells(Append(h, Click(a)), u)
<1> DEFINE c == Click(a)
           hh == Append(h, c)
<1>1. c \in Openings  BY OpeningIs
<1>2. ASSUME NEW n PROVE c \notin Naming(a, n)
  <2>1. c.of = a  BY DEF Click
  <2> HIDE DEF c
  <2> QED  BY <2>1, NamingIs, LookupDomain
<1>3. c \in Given  OBVIOUS
<1> HIDE DEF c
<1>4. /\ LastOf(hh, Openings) = Len(h) + 1
      /\ \A n : LastOf(hh, Naming(a, n)) = LastOf(h, Naming(a, n))
  BY <1>1, <1>2, <1>3, LastAppended
<1>5. Len(h) \in Nat /\ hh[Len(h) + 1] = c /\ \A n : LastOf(h, Naming(a, n)) \in 0 .. Len(h)
  BY <1>3, LastIs
<1> HIDE DEF hh
<1>6. \A n : ~Since(hh, a, n)  BY <1>4, <1>5 DEF Since
<1>7. DOMAIN u.options = {}  OBVIOUS
<1>8. hh[LastOf(hh, Openings)] = Click(u.asin) /\ LastOf(hh, Openings) > 0
  BY <1>4, <1>5 DEF c
<1>9. Tells(hh, u)  BY <1>6, <1>7, <1>8 DEF Tells
<1> QED  BY <1>9 DEF hh, c

LEMMA TellsChosen ==
  ASSUME NEW h \in Seq(Given), NEW s, IsState(s), s.asin # NoAsin, Tells(h, s),
         NEW t \in Values(Options[s.asin]), Click(t) \in Given, NEW u,
         u.asin = s.asin, u.options = WithOption(s, t)
  PROVE  Tells(Append(h, Click(t)), u)
<1> DEFINE c == Click(t)
           hh == Append(h, c)
           a == s.asin
           name == OptionLookup[a][t]
<1>1. a \in Asins  BY DEF IsState
<1>2. t \in DOMAIN OptionLookup[a] /\ t \notin Asins /\ name \in OptionNames(a)
  BY <1>1, LookupDomain
<1>3. c.of = t /\ c \in Given /\ c \notin Openings
  BY <1>2, OpeningIs DEF Click
<1>4. \A n : c \in Naming(a, n) <=> n = name
  BY <1>1, <1>2, <1>3, NamingIs
<1>5. DOMAIN u.options = DOMAIN s.options \cup {name}
      /\ \A n \in DOMAIN u.options : u.options[n] = IF n = name THEN t ELSE s.options[n]
  BY DEF WithOption
<1>6. u.asin = a  OBVIOUS
<1>7. /\ LastOf(h, Openings) > 0 /\ h[LastOf(h, Openings)] = Click(a)
      /\ \A n : n \in DOMAIN s.options <=> n \in OptionNames(a) /\ Since(h, a, n)
      /\ \A n \in DOMAIN s.options : s.options[n] = h[LastOf(h, Naming(a, n))].of
  BY DEF Tells
<1>8. c = Click(t)  OBVIOUS
<1> HIDE DEF c, a, name
<1>9. /\ LastOf(hh, Openings) = LastOf(h, Openings)
      /\ LastOf(hh, Naming(a, name)) = Len(h) + 1
      /\ \A n : n # name => LastOf(hh, Naming(a, n)) = LastOf(h, Naming(a, n))
  BY <1>3, <1>4, LastAppended
<1>10. /\ Len(h) \in Nat /\ hh[Len(h) + 1] = c /\ \A i \in 1 .. Len(h) : hh[i] = h[i]
       /\ LastOf(h, Openings) \in 0 .. Len(h)
       /\ \A n : LastOf(h, Naming(a, n)) \in 0 .. Len(h)
  BY <1>3, LastIs
<1> HIDE DEF hh
<1>11. Since(hh, a, name) /\ \A n : n # name => (Since(hh, a, n) <=> Since(h, a, n))
  BY <1>9, <1>10 DEF Since
<1>12. \A n : n \in DOMAIN u.options <=> n \in OptionNames(a) /\ Since(hh, a, n)
  BY <1>2, <1>5, <1>7, <1>11 DEF name
<1>13. ASSUME NEW n \in DOMAIN u.options
       PROVE  u.options[n] = hh[LastOf(hh, Naming(a, n))].of
  <2>1. CASE n = name
    BY <1>3, <1>5, <1>9, <1>10, <2>1
  <2>2. CASE n # name
    <3>1. n \in DOMAIN s.options  BY <1>5, <2>2
    <3>2. Since(h, a, n) /\ u.options[n] = h[LastOf(h, Naming(a, n))].of
      BY <1>5, <1>7, <2>2, <3>1
    <3>3. LastOf(h, Naming(a, n)) \in 1 .. Len(h)  BY <1>7, <1>10, <3>2 DEF Since
    <3> QED  BY <1>9, <1>10, <2>2, <3>2, <3>3
  <2> QED  BY <2>1, <2>2
<1>14. LastOf(hh, Openings) > 0 /\ hh[LastOf(hh, Openings)] = Click(a)
  BY <1>7, <1>9, <1>10
<1>15. Tells(hh, u)  BY <1>6, <1>12, <1>13, <1>14 DEF Tells
<1> QED  BY <1>8, <1>15 DEF hh

(* A command that is answered. *)
LEMMA TellsAfter ==
  ASSUME NEW h \in Seq(Given), NEW s, IsState(s), Tells(h, s), NEW c \in Commands
  PROVE  Tells(Append(h, c), After(s, c))
<1>1. c \in Given  BY DEF Given
<1>2. CASE c.verb = "search"
  <2>1. After(s, c).asin = NoAsin  BY <1>2, SearchedState
  <2> QED  BY <2>1 DEF Tells
<1>3. CASE c.verb # "search" /\ c.verb # "click"
  <2>1. Denied(s, c) /\ c.verb = ""  BY <1>3, CommandKinds
  <2>2. After(s, c) = s  BY <2>1 DEF After
  <2>3. c \notin Openings  BY <1>3, VerbsOf
  <2>4. \A n : c \notin Naming(s.asin, n)  BY <1>3, VerbsOf
  <2> QED  BY <1>1, <2>2, <2>3, <2>4, TellsOn
<1>4. CASE c.verb = "click"
  <2>1. c = Click(c.of)  BY <1>4, CommandKinds
  <2> DEFINE t == c.of
  <2>2. NewState(s, c) = Clicked(s, t)  BY <1>4 DEF NewState
  <2>3. ASSUME t \notin Asins, t \notin Values(Options[s.asin]) \/ s.asin = NoAsin
        PROVE  c \notin Openings /\ (s.asin # NoAsin => \A n : c \notin Naming(s.asin, n))
    <3>1. c \notin Openings  BY <2>1, <2>3, OpeningIs
    <3>2. ASSUME s.asin # NoAsin, NEW n PROVE c \notin Naming(s.asin, n)
      <4>1. s.asin \in Asins  BY <3>2 DEF IsState
      <4> QED  BY <2>3, <3>2, <4>1, NamingIs, LookupDomain
    <3> QED  BY <3>1, <3>2
  <2>4. CASE Clicked(s, t) = Unavailable
    <3>1. After(s, c) = s  BY <2>2, <2>4 DEF After, Denied
    <3>2. t \notin Asins /\ (t \notin Values(Options[s.asin]) \/ s.asin = NoAsin)
      <4>1. ASSUME t \in Asins PROVE FALSE
        <5>1. t \notin Controls  BY <4>1, CatalogueAssumption
        <5>2. s.asin # NoAsin => t \notin Values(Options[s.asin])
          BY <4>1, OptionsFacts, ProductFacts DEF IsState
        <5>3. Clicked(s, t) = Opened(s, t)  BY <4>1, <5>1, <5>2 DEF Clicked, Controls, Subpages
        <5> QED  BY <2>4, <4>1, <5>3, OpenedState, HomeState
      <4>2. ASSUME t \in Values(Options[s.asin]), s.asin # NoAsin PROVE FALSE
        <5>1. t \notin Controls /\ t \notin Asins  BY <4>2, OptionsFacts, ProductFacts DEF IsState
        <5>2. Clicked(s, t) = Chosen(s, t)  BY <4>2, <5>1 DEF Clicked, Controls, Subpages
        <5> QED  BY <2>4, <5>2, ChosenState, HomeState
      <4> QED  BY <4>1, <4>2
    <3> QED  BY <1>1, <2>3, <3>1, <3>2, TellsOn
  <2>5. CASE Clicked(s, t) # Unavailable
    <3>1. After(s, c) = Clicked(s, t)  BY <2>2, <2>5 DEF After, Denied
    <3>2. ClickKeeps(s, t) \/ ClickOpens(s, t) \/ ClickChooses(s, t)
      BY <2>5, ClickCases
    <3>3. CASE ClickKeeps(s, t)
      <4>1. /\ t \notin Asins /\ (t \notin Values(Options[s.asin]) \/ s.asin = NoAsin)
            /\ After(s, c).asin = s.asin /\ After(s, c).options = s.options
        BY <3>1, <3>3 DEF ClickKeeps
      <4> QED  BY <1>1, <2>3, <4>1, TellsOn
    <3>4. CASE ClickOpens(s, t)
      <4>1. t \in Asins /\ After(s, c).asin = t /\ After(s, c).options = <<>>
        BY <3>1, <3>4, OpenedState DEF ClickOpens
      <4> QED  BY <1>1, <2>1, <4>1, TellsOpened
    <3>5. CASE ClickChooses(s, t)
      <4>1. /\ s.asin # NoAsin /\ t \in Values(Options[s.asin])
            /\ After(s, c).asin = s.asin /\ After(s, c).options = WithOption(s, t)
        BY <3>1, <3>5, ChosenState DEF ClickChooses
      <4> QED  BY <1>1, <2>1, <4>1, TellsChosen
    <3> QED  BY <3>2, <3>3, <3>4, <3>5
  <2> QED  BY <2>4, <2>5
<1> QED  BY <1>2, <1>3, <1>4

LEMMA TellsInvalid ==
  ASSUME NEW h \in Seq(Given), NEW s, IsState(s), Tells(h, s)
  PROVE  Tells(Append(h, Invalid), s)
<1>1. Invalid \in Given /\ Invalid.verb # "search" /\ Invalid.verb # "click"
  BY DEF Given, Invalid
<1> QED  BY <1>1, TellsOn, VerbsOf

(* The one command that ends an episode. *)
LEMMA BuysOnly ==
  ASSUME NEW s, IsState(s), s.page # "done", NEW c \in Commands, After(s, c).page = "done"
  PROVE  c = Click("buy now")
<1>1. ~Denied(s, c)  BY DEF After
<1>2. c.verb = "click"
  <2>1. c.verb # "search"  BY SearchedState
  <2> QED  BY <1>1, <2>1, CommandKinds
<1>3. c = Click(c.of)  BY <1>2, CommandKinds
<1>4. After(s, c) = Clicked(s, c.of) /\ Clicked(s, c.of) # Unavailable
  BY <1>1, <1>2 DEF After, Denied, NewState
<1> QED  BY <1>3, <1>4, ClickCases

(* What the clicks bought is what the state holds. *)
LEMMA BoughtIs ==
  ASSUME NEW h \in Seq(Given), NEW s, s.asin \in Asins, Tells(h, s)
  PROVE  /\ Bought(h).asin = s.asin
         /\ \A n \in DOMAIN s.options : <<n, s.options[n]>> \in Bought(h).clicked
<1> DEFINE opened == LastOf(h, Openings)
           asin == h[opened].of
           Held == {n \in OptionNames(asin) : LastOf(h, Naming(asin, n)) > opened}
<1>1. s.asin # NoAsin  BY CatalogueAssumption
<1>2. /\ opened > 0 /\ h[opened] = Click(s.asin)
      /\ \A n : n \in DOMAIN s.options <=> n \in OptionNames(s.asin) /\ Since(h, s.asin, n)
      /\ \A n \in DOMAIN s.options : s.options[n] = h[LastOf(h, Naming(s.asin, n))].of
  BY <1>1 DEF Tells
<1>3. asin = s.asin /\ h[opened].verb = "click"  BY <1>2 DEF Click
<1>4. opened \in Nat  BY LastIs
<1>5. Bought(h) = [asin |-> asin, clicked |-> {<<n, h[LastOf(h, Naming(asin, n))].of>> : n \in Held}]
  BY <1>2, <1>3, <1>4 DEF Bought
<1>6. \A n \in DOMAIN s.options : n \in Held  BY <1>2, <1>3 DEF Since
<1> HIDE DEF Held, opened, asin
<1>7. Bought(h).asin = asin
      /\ Bought(h).clicked = {<<n, h[LastOf(h, Naming(asin, n))].of>> : n \in Held}
  BY <1>5
<1> QED  BY <1>2, <1>3, <1>6, <1>7

LEMMA Appended ==
  ASSUME NEW T, NEW h \in Seq(T), NEW c \in T
  PROVE  Append(h, c) \in Seq(T) /\ Append(h, c) # <<>> /\ Last(Append(h, c)) = c
<1>1. Append(h, c) \in Seq(T) /\ Len(Append(h, c)) = Len(h) + 1 /\ Len(h) \in Nat
      /\ Append(h, c)[Len(h) + 1] = c
  OBVIOUS
<1>2. Append(h, c) # <<>>
  <2>1. Len(<<>>) = 0  OBVIOUS
  <2> QED  BY <1>1, <2>1
<1> QED  BY <1>1, <1>2 DEF Last

LEMMA SuccessDeserved ==
  ASSUME NEW g, GoalRight(g), NEW h \in Seq(Given), NEW u, IsState(u),
         Tells(Append(h, Click("buy now")), u), Click("buy now") \in Given, Success(g, u)
  PROVE  Deserved(g, Append(h, Click("buy now")))
<1> DEFINE hh == Append(h, Click("buy now"))
           bought == Bought(hh)
<1>1. u.asin \in Asins /\ IF g.full THEN FullMeans(g, u) ELSE SmallMeans(g, u)
  BY SuccessMeans
<1>2. hh # <<>> /\ Last(hh) = Click("buy now") /\ hh \in Seq(Given)
  <2> DEFINE c == Click("buy now")
  <2>1. c \in Given  OBVIOUS
  <2> HIDE DEF c
  <2>2. Append(h, c) \in Seq(Given) /\ Append(h, c) # <<>> /\ Last(Append(h, c)) = c
    BY <2>1, Appended
  <2> QED  BY <2>2 DEF c
<1>3. bought.asin = u.asin /\ \A n \in DOMAIN u.options : <<n, u.options[n]>> \in bought.clicked
  <2> HIDE DEF hh
  <2>1. Tells(hh, u)  BY DEF hh
  <2> QED  BY <1>1, <1>2, <2>1, BoughtIs
<1>4. u.asin # NoAsin  BY <1>1, CatalogueAssumption
<1>5. Deserved(g, hh) =
        LET b == bought
        IN  /\ hh # <<>> /\ Last(hh) = Click("buy now")
            /\ b.asin # NoAsin
            /\ g.attributes \subseteq Product(b.asin).text
            /\ Product(b.asin).price <= g.limit
            /\ IF g.full
               THEN \A o \in ToSet(g.options) : \E c \in b.clicked : Alike(c[2], o)
               ELSE /\ b.asin = g.asin
                    /\ \A n \in DOMAIN g.options : <<n, g.options[n]>> \in b.clicked
  BY DEF Deserved
<1> HIDE DEF hh, bought
<1>6. CASE g.full
  <2>1. FullMeans(g, u)  BY <1>1, <1>6
  <2>2. ASSUME NEW o \in ToSet(g.options) PROVE \E c \in bought.clicked : Alike(c[2], o)
    <3>1. PICK k \in DOMAIN g.options : o = g.options[k]  BY DEF ToSet
    <3>2. PICK n \in DOMAIN u.options : Alike(u.options[n], o)  BY <2>1, <3>1 DEF FullMeans
    <3>3. <<n, u.options[n]>> \in bought.clicked  BY <1>3
    <3> DEFINE c == <<n, u.options[n]>>
    <3>4. c[2] = u.options[n]  OBVIOUS
    <3> HIDE DEF c
    <3>5. Alike(c[2], o)  BY <3>2, <3>4
    <3> QED  BY <3>3, <3>5 DEF c
  <2> QED  BY <1>2, <1>3, <1>4, <1>5, <1>6, <2>1, <2>2 DEF FullMeans, hh
<1>7. CASE ~g.full
  <2>1. SmallMeans(g, u)  BY <1>1, <1>7
  <2> QED  BY <1>2, <1>3, <1>4, <1>5, <1>7, <2>1 DEF SmallMeans, hh
<1> QED  BY <1>6, <1>7 DEF hh

(* So far nothing was paid, or it was deserved. *)
BoughtInv ==
  /\ IsState(envState) /\ GoalRight(goal)
  /\ history \in Seq(Given) /\ Tells(history, envState)
  /\ \E T : steps \in Seq(T)
  /\ ~done => envState.page # "done" /\ \A i \in DOMAIN steps : ~(steps[i].reward > 0)
  /\ PaidForPurchase

LEMMA InitBoughtInv == ShopInit => BoughtInv
<1> SUFFICES ASSUME ShopInit PROVE BoughtInv
  OBVIOUS
<1>1. /\ goal \in BuildGoals \cup HumanGoals /\ envState = Home /\ history = <<>> /\ steps = <<>>
  BY DEF ShopInit
<1>2. GoalRight(goal)  BY <1>1, BuildGoalsRight, HumanGoalsRight
<1>3. IsState(Home) /\ Home.asin = NoAsin /\ Home.page = "home"
  BY HomeState DEF Home
<1>4. DOMAIN steps = {} /\ history \in Seq(Given) /\ steps \in Seq({})
  BY <1>1
<1> QED  BY <1>1, <1>2, <1>3, <1>4 DEF BoughtInv, Tells, PaidForPurchase

(* Another step without a reward. *)
LEMMA UnpaidStep ==
  ASSUME BoughtInv, ~done, NEW r, ~(r.reward > 0), steps' = Append(steps, r)
  PROVE  /\ \E T : steps' \in Seq(T)
         /\ \A i \in DOMAIN steps' : ~(steps'[i].reward > 0)
<1>1. PICK T : steps \in Seq(T)  BY DEF BoughtInv
<1>2. steps \in Seq(T \cup {r}) /\ steps' \in Seq(T \cup {r})  BY <1>1
<1>3. \A i \in DOMAIN steps : ~(steps[i].reward > 0)  BY DEF BoughtInv
<1>4. ASSUME NEW i \in DOMAIN steps' PROVE ~(steps'[i].reward > 0)
  <2>1. i \in 1 .. Len(steps) + 1 /\ Len(steps) \in Nat  BY <1>2
  <2>2. CASE i \in 1 .. Len(steps)
    <3>1. steps'[i] = steps[i] /\ i \in DOMAIN steps  BY <1>2, <2>2
    <3> QED  BY <1>3, <3>1
  <2>3. CASE i = Len(steps) + 1
    <3>1. steps'[i] = r  BY <1>2, <2>3
    <3> QED  BY <3>1
  <2> QED  BY <2>1, <2>2, <2>3
<1> QED  BY <1>2, <1>4

LEMMA NextBoughtInv == BoughtInv /\ [ShopNext]_shopVars => BoughtInv'
<1> SUFFICES ASSUME BoughtInv, [ShopNext]_shopVars PROVE BoughtInv'
  OBVIOUS
<1>1. CASE Reset
  <2>1. IsState(Home) /\ Home.asin = NoAsin /\ Home.page = "home"
    BY HomeState DEF Home
  <2>2. Tells(history, Home)  BY <2>1 DEF Tells
  <2> QED  BY <1>1, <2>1, <2>2 DEF Reset, BoughtInv, PaidForPurchase
<1>2. ASSUME NEW c \in Commands, Turn(c) PROVE BoughtInv'
  <2> DEFINE u == After(envState, c)
             pay == IF u.page = "done" /\ Success(goal, u) THEN Bonus ELSE 0
             won == u.page = "done" /\ Success(goal, u)
             r == [seen |-> screen, reward |-> pay, success |-> won]
  <2>1. ~done /\ envState.page # "done"  BY <1>2 DEF Turn, MayTurn, BoughtInv
  <2>2. /\ envState' = u /\ history' = Append(history, c) /\ goal' = goal
        /\ done' = (u.page = "done") /\ steps' = Append(steps, r)
    <3> DEFINE response == Step(goal, envState, c)
    <3>1. response.state = u /\ response.done = (u.page = "done") /\ response.success = won
      BY DEF Step, Answer
    <3>2. /\ envState' = response.state /\ history' = Append(history, c) /\ goal' = goal
          /\ done' = response.done
          /\ AddStep(IF response.done /\ response.success THEN Bonus ELSE 0, response.success)
      BY <1>2 DEF Turn
    <3> HIDE DEF response
    <3>3. (IF response.done /\ response.success THEN Bonus ELSE 0) = pay
      BY <3>1
    <3>4. AddStep(pay, won)  BY <3>1, <3>2, <3>3
    <3> QED  BY <3>1, <3>2, <3>4 DEF AddStep
  <2>3. IsState(u) /\ Tells(Append(history, c), u) /\ c \in Given
    BY AfterState, TellsAfter DEF BoughtInv, Given
  <2>4. history' \in Seq(Given)  BY <2>2, <2>3 DEF BoughtInv
  <2>5. r.reward = pay  OBVIOUS
  <2> HIDE DEF r, u
  <2>6. CASE ~(u.page = "done" /\ Success(goal, u))
    <3>1. ~(r.reward > 0)  BY <2>5, <2>6
    <3> HIDE DEF pay
    <3>2. (\E T : steps' \in Seq(T)) /\ \A i \in DOMAIN steps' : ~(steps'[i].reward > 0)
      BY <2>1, <2>2, <3>1, UnpaidStep
    <3>3. PaidForPurchase'  BY <3>2 DEF PaidForPurchase
    <3>4. ~done' => envState'.page # "done"  BY <2>2
    <3>5. IsState(envState') /\ GoalRight(goal') /\ Tells(history', envState')
      BY <2>2, <2>3 DEF BoughtInv
    <3> QED  BY <2>4, <3>2, <3>3, <3>4, <3>5 DEF BoughtInv
  <2>7. CASE u.page = "done" /\ Success(goal, u)
    <3>1. c = Click("buy now")  BY <2>1, <2>7, BuysOnly DEF BoughtInv, u
    <3>2. Deserved(goal, history')
      BY <2>2, <2>3, <2>7, <3>1, SuccessDeserved DEF BoughtInv
    <3>3. PICK T : steps \in Seq(T)  BY DEF BoughtInv
    <3>4. steps' \in Seq(T \cup {r}) /\ Len(steps') = Len(steps) + 1 /\ Len(steps) \in Nat
          /\ \A i \in DOMAIN steps : steps'[i] = steps[i]
      BY <2>2, <3>3
    <3>5. ASSUME NEW i \in DOMAIN steps', steps'[i].reward > 0 PROVE i = Len(steps')
      <4>1. i \in 1 .. Len(steps) + 1  BY <3>4
      <4>2. ASSUME i \in DOMAIN steps PROVE FALSE
        <5>1. steps'[i] = steps[i] /\ ~(steps[i].reward > 0)
          BY <2>1, <3>4, <4>2 DEF BoughtInv
        <5> QED  BY <3>5, <5>1
      <4>3. DOMAIN steps = 1 .. Len(steps)  BY <3>3
      <4> QED  BY <3>4, <4>1, <4>2, <4>3
    <3>6. PaidForPurchase'
      BY <2>2, <2>7, <3>2, <3>5 DEF PaidForPurchase
    <3>7. IsState(envState') /\ GoalRight(goal') /\ Tells(history', envState') /\ done'
      BY <2>2, <2>3, <2>7 DEF BoughtInv
    <3> QED  BY <2>4, <3>4, <3>6, <3>7 DEF BoughtInv
  <2> QED  BY <2>6, <2>7
<1>3. CASE TurnLost
  <2> DEFINE r == [seen |-> screen, reward |-> 0, success |-> FALSE]
  <2>1. ~done /\ steps' = Append(steps, r) /\ ~(r.reward > 0)
    BY <1>3 DEF TurnLost, AddStep, MayTurn
  <2> HIDE DEF r
  <2>2. (\E T : steps' \in Seq(T)) /\ \A i \in DOMAIN steps' : ~(steps'[i].reward > 0)
    BY <2>1, UnpaidStep
  <2>3. UNCHANGED <<goal, phase, envState, history, done>>  BY <1>3 DEF TurnLost
  <2>4. PaidForPurchase'  BY <2>2 DEF PaidForPurchase
  <2> QED  BY <2>2, <2>3, <2>4 DEF BoughtInv
<1>4. CASE InvalidTurn
  <2> DEFINE r == [seen |-> screen, reward |-> -Penalty, success |-> FALSE]
  <2>1. ~done /\ steps' = Append(steps, r) /\ ~(r.reward > 0)
    BY <1>4, EpisodeAssumption DEF InvalidTurn, AddStep, MayTurn
  <2> HIDE DEF r
  <2>2. (\E T : steps' \in Seq(T)) /\ \A i \in DOMAIN steps' : ~(steps'[i].reward > 0)
    BY <2>1, UnpaidStep
  <2>3. /\ UNCHANGED <<goal, phase, envState, done>>
        /\ history' = Append(history, Invalid)
    BY <1>4 DEF InvalidTurn
  <2>4. Invalid \in Given  BY DEF Given
  <2>5. history' \in Seq(Given)  BY <2>3, <2>4 DEF BoughtInv
  <2>6. Tells(history', envState')  BY <2>3, TellsInvalid DEF BoughtInv
  <2>7. PaidForPurchase'  BY <2>2 DEF PaidForPurchase
  <2> QED  BY <2>2, <2>3, <2>5, <2>6, <2>7 DEF BoughtInv
<1>5. CASE Return
  BY <1>5 DEF Return, BoughtInv, PaidForPurchase
<1>6. CASE UNCHANGED shopVars
  BY <1>6 DEF shopVars, BoughtInv, PaidForPurchase
<1> QED  BY <1>1, <1>2, <1>3, <1>4, <1>5, <1>6 DEF ShopNext

----------------------------------------------------------------------------
(* WebShop: an episode stays winnable. *)

(* A click on a product or on an option value. *)
LEMMA AfterClick ==
  ASSUME NEW s, IsState(s), NEW t, t \notin Controls
  PROVE  /\ t \in Asins => After(s, Click(t)) = Opened(s, t)
         /\ t \notin Asins =>
              After(s, Click(t)) = IF s.asin # NoAsin /\ t \in Values(Options[s.asin])
                                   THEN Chosen(s, t) ELSE s
<1>1. NewState(s, Click(t)) = Clicked(s, t)  BY DEF NewState, Click
<1>2. After(s, Click(t)) = IF Clicked(s, t) = Unavailable THEN s ELSE Clicked(s, t)
  BY <1>1 DEF After, Denied
<1>3. ASSUME t \in Asins PROVE After(s, Click(t)) = Opened(s, t)
  <2>1. s.asin # NoAsin => t \notin Values(Options[s.asin])
    BY <1>3, OptionsFacts, ProductFacts DEF IsState
  <2>2. Clicked(s, t) = Opened(s, t)  BY <1>3, <2>1 DEF Clicked, Controls, Subpages
  <2>3. Opened(s, t) # Unavailable  BY <1>3, OpenedState, HomeState
  <2> QED  BY <1>2, <2>2, <2>3
<1>4. CASE t \notin Asins /\ s.asin # NoAsin /\ t \in Values(Options[s.asin])
  <2>1. Clicked(s, t) = Chosen(s, t)  BY <1>4 DEF Clicked, Controls, Subpages
  <2>2. Chosen(s, t) # Unavailable  BY ChosenState, HomeState
  <2> QED  BY <1>2, <1>4, <2>1, <2>2
<1>5. CASE t \notin Asins /\ ~(s.asin # NoAsin /\ t \in Values(Options[s.asin]))
  <2>1. Clicked(s, t) = Unavailable  BY <1>5 DEF Clicked, Controls, Subpages
  <2> QED  BY <1>2, <1>5, <2>1
<1> QED  BY <1>3, <1>4, <1>5

(* The purchase keeps the product and its options. *)
LEMMA AfterBuying ==
  ASSUME NEW s, IsState(s)
  PROVE  /\ After(s, Click("buy now")).asin = s.asin
         /\ After(s, Click("buy now")).options = s.options
<1> DEFINE u == [s EXCEPT !.page = "done"]
<1>1. NewState(s, Click("buy now")) = u
  <2>1. NewState(s, Click("buy now")) = Clicked(s, "buy now")  BY DEF NewState, Click
  <2>2. PICK t : t = "buy now"  OBVIOUS
  <2>3. t \in Controls  BY <2>2 DEF Controls
  <2>4. t \notin Asins /\ (s.asin # NoAsin => t \notin Values(Options[s.asin]))
    BY <2>3, CatalogueAssumption, OptionsFacts, ProductFacts DEF IsState
  <2>5. Clicked(s, t) = u  BY <2>2, <2>4 DEF Clicked, Subpages
  <2> QED  BY <2>1, <2>2, <2>5
<1>2. PICK p, q, k, a, e, o : Fields(s, p, q, k, a, e, o)  BY DEF IsState, Fields
<1>3. u = [page |-> "done", query |-> q, pageNum |-> k, asin |-> a, subpage |-> e, options |-> o]
      /\ s.asin = a /\ s.options = o
  BY <1>2 DEF Fields
<1> HIDE DEF u
<1>4. u.asin = s.asin /\ u.options = s.options  BY <1>3
<1> QED  BY <1>1, <1>4 DEF After

(* The states a plan leads through: where it starts, and product pages. *)
Blank == ""
Item(s, a, o) ==
  [page |-> "item", query |-> s.query, pageNum |-> s.pageNum, asin |-> a,
   subpage |-> Blank, options |-> o]

LEMMA ShownItem ==
  ASSUME NEW s, IsState(s)
  PROVE  Shown(s) = Item(s, s.asin, s.options)
<1>1. PICK p, q, k, a, u, o : Fields(s, p, q, k, a, u, o)  BY DEF IsState, Fields
<1>2. s.query = q /\ s.pageNum = k /\ s.asin = a /\ s.options = o  BY <1>1 DEF Fields
<1> DEFINE first == [s EXCEPT !.page = "item"]
<1>3. first = [page |-> "item", query |-> q, pageNum |-> k, asin |-> a, subpage |-> u, options |-> o]
  BY <1>1 DEF Fields
<1>4. Shown(s) = [first EXCEPT !.subpage = Blank]  BY DEF Shown, Blank
<1> HIDE DEF first
<1>5. Shown(s) = [page |-> "item", query |-> q, pageNum |-> k, asin |-> a, subpage |-> Blank, options |-> o]
  BY <1>3, <1>4
<1> QED  BY <1>2, <1>5 DEF Item

LEMMA OpenedItem ==
  ASSUME NEW s, IsState(s), NEW a
  PROVE  Opened(s, a) = Item(s, a, <<>>)
<1> DEFINE i == Shown(s)
           first == [i EXCEPT !.asin = a]
<1>1. i = Item(s, s.asin, s.options)  BY ShownItem
<1>2. Opened(s, a) = [first EXCEPT !.options = <<>>]  BY DEF Opened
<1> HIDE DEF i
<1>3. first = Item(s, a, s.options)  BY <1>1 DEF Item
<1> HIDE DEF first
<1> QED  BY <1>2, <1>3 DEF Item

LEMMA ChosenItem ==
  ASSUME NEW s, IsState(s), NEW v
  PROVE  Chosen(s, v) = Item(s, s.asin, WithOption(s, v))
<1> DEFINE i == Shown(s)
<1>1. i = Item(s, s.asin, s.options)  BY ShownItem
<1>2. Chosen(s, v) = [i EXCEPT !.options = WithOption(s, v)]  BY DEF Chosen, WithOption
<1> HIDE DEF i
<1> QED  BY <1>1, <1>2 DEF Item

Partial(N, V) == UNION {[D -> V] : D \in SUBSET N}

LEMMA PartialNone ==
  ASSUME NEW N, NEW V
  PROVE  <<>> \in Partial(N, V)
<1>1. PICK D : D = {}  OBVIOUS
<1>2. <<>> \in [D -> V]  BY <1>1
<1>3. D \in SUBSET N  BY <1>1
<1> QED  BY <1>2, <1>3 DEF Partial

LEMMA PartialWith ==
  ASSUME NEW N, NEW V, NEW s, s.options \in Partial(N, V), NEW v \in V,
         OptionLookup[s.asin][v] \in N
  PROVE  WithOption(s, v) \in Partial(N, V)
<1>1. PICK D \in SUBSET N : s.options \in [D -> V]  BY DEF Partial
<1> DEFINE name == OptionLookup[s.asin][v]
<1>2. name \in N  OBVIOUS
<1>3. WithOption(s, v) = [n \in DOMAIN s.options \cup {name} |-> IF n = name THEN v ELSE s.options[n]]
  BY DEF WithOption
<1> HIDE DEF name
<1>4. D \cup {name} \in SUBSET N  BY <1>2
<1>5. WithOption(s, v) \in [D \cup {name} -> V]  BY <1>1, <1>3
<1> QED  BY <1>4, <1>5 DEF Partial

(* A plan: the product, then some of its option values. *)
PlanFor(plan, a, values) ==
  /\ Len(plan) = Len(values) + 1
  /\ plan[1] = Click(a)
  /\ \A i \in 1 .. Len(values) : plan[i + 1] = Click(values[i])

PlanAlong(f, base, plan, n) ==
  /\ f[0] = base
  /\ \A i \in 1 .. n : f[i] = After(f[i - 1], plan[i])
  /\ FoldLeft(After, base, plan) = f[n]

Planned(c) ==
  \E t : /\ c = Click(t)
         /\ t \in Asins \/ \E a \in Asins : t \in Values(Options[a])

LEMMA AsinsApart == \A t \in Asins : t \notin Controls
BY CatalogueAssumption

LEMMA PlanSteps ==
  ASSUME NEW base, IsState(base), NEW T, NEW plan \in Seq(T), NEW n, n = Len(plan),
         \A i \in 1 .. n : Planned(plan[i])
  PROVE  \E f : PlanAlong(f, base, plan, n)
<1> DEFINE Sold == UNION {Values(Options[a]) : a \in Asins}
           N == DOMAIN base.options \cup UNION {OptionNames(a) : a \in Asins}
           V == Sold \cup {base.options[m] : m \in DOMAIN base.options}
           X == {base} \cup {Item(base, a, o) : a \in Asins, o \in Partial(N, V)}
           G == [x \in X |-> [i \in 1 .. n |-> After(x, plan[i])]]
           Eq(h) == h = [s \in SUBSET (DOMAIN plan) |->
                           IF s = {} THEN base
                           ELSE LET x == Max(s) IN After(h[s \ {x}], plan[x])]
           F == CHOOSE h : Eq(h)
<1>1. n \in Nat /\ DOMAIN plan = 1 .. n  OBVIOUS
<1>2. Closed(G, X, n)
  <2>1. ASSUME NEW x \in X, NEW i \in 1 .. n PROVE After(x, plan[i]) \in X
    <3>1. PICK t : /\ plan[i] = Click(t)
                   /\ t \in Asins \/ \E a \in Asins : t \in Values(Options[a])
      <4>1. Planned(plan[i])  OBVIOUS
      <4> HIDE DEF X, Eq, F
      <4> QED  BY <4>1 DEF Planned
    <3>2. t \notin Controls /\ (t \in Asins \/ (t \notin Asins /\ t \in Sold))
      <4>1. t \in Asins => t \notin Controls  BY AsinsApart
      <4>2. ASSUME NEW a \in Asins, t \in Values(Options[a])
            PROVE  t \notin Controls /\ t \notin Asins /\ t \in Sold
        <5>1. t \notin Controls /\ t \notin Asins
          <6> HIDE DEF Sold, N, V, X, G, Eq, F
          <6> QED  BY <4>2, OptionsFacts, ProductFacts
        <5> QED  BY <4>2, <5>1
      <4> HIDE DEF Sold
      <4> QED  BY <3>1, <4>1, <4>2
    <3>3. /\ IsState(x) /\ x.query = base.query /\ x.pageNum = base.pageNum
          /\ x.options \in Partial(N, V)
      <4>1. IsChoice(base.options)  BY DEF IsState
      <4>2. base.options \in [DOMAIN base.options -> V]
        <5> DEFINE o == base.options
        <5>1. \A m \in DOMAIN o : o[m] \in V  OBVIOUS
        <5>2. o = [m \in DOMAIN o |-> o[m]]  BY <4>1 DEF IsChoice
        <5> HIDE DEF V, o
        <5>3. o \in [DOMAIN o -> V]  BY <5>1, <5>2
        <5> QED  BY <5>3 DEF o
      <4>3. DOMAIN base.options \in SUBSET N  OBVIOUS
      <4> HIDE DEF N, V
      <4>4. base.options \in Partial(N, V)  BY <4>2, <4>3 DEF Partial
      <4>5. CASE x = base  BY <4>4, <4>5
      <4>6. ASSUME NEW a \in Asins, NEW o \in Partial(N, V), x = Item(base, a, o)
            PROVE  /\ IsState(x) /\ x.query = base.query /\ x.pageNum = base.pageNum
                   /\ x.options \in Partial(N, V)
        <5>1. PICK D \in SUBSET N : o \in [D -> V]  BY <4>6 DEF Partial
        <5>2. IsChoice(o)  BY <5>1 DEF IsChoice
        <5>3. x.query = base.query /\ x.pageNum = base.pageNum /\ x.options = o
              /\ x.asin = a /\ x.page = "item"
              /\ x = [page |-> x.page, query |-> x.query, pageNum |-> x.pageNum, asin |-> x.asin,
                      subpage |-> x.subpage, options |-> x.options]
          BY <4>6 DEF Item
        <5> QED  BY <4>6, <5>2, <5>3 DEF IsState, Pages
      <4> QED  BY <4>5, <4>6
    <3>4. \A a, o : Item(x, a, o) = Item(base, a, o)  BY <3>3 DEF Item
    <3>5. \A a \in Asins, o \in Partial(N, V) : Item(x, a, o) \in X
      <4> HIDE DEF N, V
      <4> QED  BY <3>4
    <3>6. CASE t \in Asins
      <4>1. After(x, plan[i]) = Item(x, t, <<>>)
        BY <3>1, <3>2, <3>3, <3>6, AfterClick, OpenedItem
      <4>2. <<>> \in Partial(N, V)
        <5> HIDE DEF N, V
        <5> QED  BY PartialNone
      <4> HIDE DEF X, N, V
      <4> QED  BY <3>5, <3>6, <4>1, <4>2
    <3>7. CASE t \notin Asins
      <4>1. CASE x.asin # NoAsin /\ t \in Values(Options[x.asin])
        <5>1. After(x, plan[i]) = Item(x, x.asin, WithOption(x, t))
          BY <3>1, <3>2, <3>3, <3>7, <4>1, AfterClick, ChosenItem
        <5>2. x.asin \in Asins  BY <3>3, <4>1 DEF IsState
        <5>3. t \in V /\ OptionLookup[x.asin][t] \in N
          <6>1. OptionLookup[x.asin][t] \in OptionNames(x.asin)
            BY <4>1, <5>2, LookupDomain
          <6> QED  BY <4>1, <5>2, <6>1
        <5> HIDE DEF X, N, V
        <5>4. WithOption(x, t) \in Partial(N, V)  BY <3>3, <5>3, PartialWith
        <5> QED  BY <3>5, <5>1, <5>2, <5>4
      <4>2. CASE ~(x.asin # NoAsin /\ t \in Values(Options[x.asin]))
        <5>1. After(x, plan[i]) = x  BY <3>1, <3>2, <3>3, <3>7, <4>2, AfterClick
        <5> HIDE DEF X
        <5> QED  BY <5>1
      <4> HIDE DEF X
      <4> QED  BY <4>1, <4>2
    <3> HIDE DEF X
    <3> QED  BY <3>6, <3>7
  <2>2. QED
    <3> HIDE DEF X
    <3> QED BY <2>1 DEF Closed
<1>3. PICK f, h : Folded(f, h, n, X, base, G)
  <2>1. base \in X  OBVIOUS
  <2> HIDE DEF X, G
  <2>2. QED
    BY <1>1, <1>2, <2>1, FoldExists
<1>4. f \in [0 .. n -> X] /\ h \in [SUBSET (1 .. n) -> X] /\ h[1 .. n] = f[n]
      /\ OverSubsets(h, n, base, G) /\ Along(f, n, base, G)
  <2> HIDE DEF X, G
  <2> QED  BY <1>1, <1>3 DEF Folded
<1> HIDE DEF X
<1>5. ASSUME NEW s \in SUBSET (1 .. n), s # {}
      PROVE  Max(s) \in s /\ s \ {Max(s)} \in SUBSET (1 .. n) /\ Max(s) \in 1 .. n
  <2>1. s \subseteq Nat /\ \A x \in s : x <= n
    BY <1>1
  <2>2. QED
    BY <1>1, <2>1, <1>5, MaxProperties
<1>6. \A s \in SUBSET (1 .. n) : s # {} => h[s] = After(h[s \ {Max(s)}], plan[Max(s)])
  <2>1. SUFFICES ASSUME NEW s \in SUBSET (1 .. n), s # {}
                 PROVE  h[s] = After(h[s \ {Max(s)}], plan[Max(s)])
    OBVIOUS
  <2>2. h[s] = G[h[s \ {Max(s)}]][Max(s)]
    <3> HIDE DEF G
    <3> QED BY <1>4, <2>1 DEF OverSubsets
  <2>3. h[s \ {Max(s)}] \in X /\ Max(s) \in 1 .. n
    BY <1>4, <1>5, <2>1
  <2>4. QED
    BY <2>2, <2>3
<1>7. h[{}] = base
  <2> HIDE DEF G
  <2> QED  BY <1>4 DEF OverSubsets
<1>8. ASSUME NEW i \in 1 .. n PROVE f[i] = After(f[i - 1], plan[i])
  <2>1. f[i] = G[f[i - 1]][i]
    <3> HIDE DEF G
    <3> QED  BY <1>4 DEF Along
  <2>2. f[i - 1] \in X
    BY <1>1, <1>4
  <2>3. QED
    BY <2>1, <2>2 DEF G
<1>9. f[0] = base
  <2> HIDE DEF G
  <2> QED  BY <1>4 DEF Along
<1> HIDE DEF G
<1>10. Eq(h)
  <2>1. DOMAIN h = SUBSET (1 .. n) /\ h = [s \in SUBSET (1 .. n) |-> h[s]]
    BY <1>4
  <2>2. \A s \in SUBSET (1 .. n) :
          h[s] = IF s = {} THEN base
                 ELSE LET x == Max(s) IN After(h[s \ {x}], plan[x])
    BY <1>6, <1>7
  <2>3. QED
    BY <1>1, <2>1, <2>2
<1>11. Eq(F)
  <2> HIDE DEF Eq
  <2> QED BY <1>10
<1>12. F[1 .. n] = h[1 .. n]
  <2> HIDE DEF F
  <2>1. /\ F[{}] = base
        /\ \A s \in SUBSET (1 .. n) : s # {} => F[s] = After(F[s \ {Max(s)}], plan[Max(s)])
    BY <1>1, <1>11
  <2>2. AgreeUpwards(F, h, n)
    BY <1>6, <1>7, <2>1 DEF AgreeUpwards
  <2>3. \A s \in SUBSET (1 .. n) : F[s] = h[s]
    BY <1>1, <2>2, FoldUnique
  <2>4. QED
    BY <2>3
<1>13. FoldLeft(After, base, plan) = F[DOMAIN plan]
  BY DEF FoldLeft, MapThenFoldSet
<1>14. FoldLeft(After, base, plan) = f[n]
  <2> HIDE DEF F
  <2> QED BY <1>1, <1>4, <1>12, <1>13
<1>15. QED
  BY <1>14, <1>8, <1>9 DEF PlanAlong

(* The states of a plan for a product: the product, and for every option   *)
(* name a value has been clicked of, one of the values clicked.            *)
OnProduct(s, a, values, k) ==
  /\ IsState(s) /\ s.asin = a
  /\ \A i \in 1 .. k : OptionLookup[a][values[i]] \in DOMAIN s.options
  /\ \A n \in DOMAIN s.options :
       \E i \in 1 .. k : s.options[n] = values[i] /\ OptionLookup[a][values[i]] = n

LEMMA PlanStarts ==
  ASSUME NEW s, IsState(s), NEW a \in Asins, NEW values
  PROVE  OnProduct(After(s, Click(a)), a, values, 0)
<1>1. a \notin Controls  BY AsinsApart
<1>2. After(s, Click(a)) = Opened(s, a)  BY <1>1, AfterClick
<1>3. IsState(Opened(s, a)) /\ Opened(s, a).asin = a /\ Opened(s, a).options = <<>>
  BY OpenedState
<1>4. DOMAIN Opened(s, a).options = {}  BY <1>3
<1> QED  BY <1>2, <1>3, <1>4 DEF OnProduct

LEMMA PlanGoesOn ==
  ASSUME NEW a \in Asins, NEW values, NEW k \in Nat, NEW s, OnProduct(s, a, values, k),
         values[k + 1] \in Values(Options[a])
  PROVE  OnProduct(After(s, Click(values[k + 1])), a, values, k + 1)
<1> DEFINE t == values[k + 1]
           u == After(s, Click(t))
           name == OptionLookup[a][t]
<1>1. IsState(s) /\ s.asin = a /\ a # NoAsin  BY CatalogueAssumption DEF OnProduct
<1>2. t \notin Controls /\ t \notin Asins  BY OptionsFacts, ProductFacts
<1>3. u = Chosen(s, t)  BY <1>1, <1>2, AfterClick
<1>4. IsState(u) /\ u.asin = a /\ u.options = WithOption(s, t)  BY <1>1, <1>3, ChosenState
<1>5. WithOption(s, t) = [n \in DOMAIN s.options \cup {name} |-> IF n = name THEN t ELSE s.options[n]]
  BY <1>1 DEF WithOption
<1>6. t = values[k + 1] /\ name = OptionLookup[a][values[k + 1]]  OBVIOUS
<1> HIDE DEF t, u, name
<1>7. DOMAIN u.options = DOMAIN s.options \cup {name}
      /\ \A n \in DOMAIN u.options : u.options[n] = IF n = name THEN t ELSE s.options[n]
  BY <1>4, <1>5
<1>8. ASSUME NEW i \in 1 .. k + 1 PROVE OptionLookup[a][values[i]] \in DOMAIN u.options
  <2>1. CASE i \in 1 .. k  BY <1>7, <2>1 DEF OnProduct
  <2>2. CASE i = k + 1  BY <1>6, <1>7, <2>2
  <2> QED  BY <2>1, <2>2
<1>9. ASSUME NEW n \in DOMAIN u.options
      PROVE  \E i \in 1 .. k + 1 : u.options[n] = values[i] /\ OptionLookup[a][values[i]] = n
  <2>1. CASE n = name
    <3>1. u.options[n] = values[k + 1] /\ OptionLookup[a][values[k + 1]] = n /\ k + 1 \in 1 .. k + 1
      BY <1>6, <1>7, <2>1
    <3> QED  BY <3>1
  <2>2. CASE n # name
    <3>1. PICK i \in 1 .. k : s.options[n] = values[i] /\ OptionLookup[a][values[i]] = n
      BY <1>7, <2>2 DEF OnProduct
    <3>2. u.options[n] = values[i] /\ i \in 1 .. k + 1  BY <1>7, <2>2, <3>1
    <3> QED  BY <3>1, <3>2
  <2> QED  BY <2>1, <2>2
<1>10. OnProduct(u, a, values, k + 1)  BY <1>4, <1>8, <1>9 DEF OnProduct
<1> QED  BY <1>10 DEF u, t

LEMMA PlanEnds ==
  ASSUME NEW base, IsState(base), NEW a \in Asins, NEW T, NEW values \in Seq(T),
         \A i \in 1 .. Len(values) : values[i] \in Values(Options[a]),
         NEW C, NEW plan \in Seq(C), PlanFor(plan, a, values)
  PROVE  OnProduct(FoldLeft(After, base, plan), a, values, Len(values))
<1> DEFINE m == Len(values)
           n == Len(plan)
<1>1. m \in Nat /\ n = m + 1 /\ plan[1] = Click(a)
      /\ \A i \in 1 .. m : plan[i + 1] = Click(values[i])
  BY DEF PlanFor
<1>2. ASSUME NEW i \in 1 .. n PROVE Planned(plan[i])
  <2>1. CASE i = 1  BY <1>1, <2>1 DEF Planned
  <2>2. CASE i # 1
    <3>1. i - 1 \in 1 .. m /\ plan[i] = Click(values[i - 1])
      <4>1. i - 1 \in 1 .. m /\ (i - 1) + 1 = i  BY <1>1, <2>2
      <4> QED  BY <1>1, <4>1
    <3> QED  BY <3>1 DEF Planned
  <2> QED  BY <2>1, <2>2
<1>3. PICK f : PlanAlong(f, base, plan, n)
  <2>1. n = Len(plan)  OBVIOUS
  <2> HIDE DEF n
  <2> QED  BY <1>2, <2>1, PlanSteps
<1>4. /\ f[0] = base /\ \A i \in 1 .. n : f[i] = After(f[i - 1], plan[i])
      /\ FoldLeft(After, base, plan) = f[n]
  BY <1>3 DEF PlanAlong
<1> DEFINE Good == {k \in 0 .. m : OnProduct(f[k + 1], a, values, k)}
<1>5. 0 \in Good
  <2>1. f[1] = After(f[0], plan[1])  BY <1>1, <1>4
  <2>2. f[1] = After(base, Click(a))  BY <1>1, <1>4, <2>1
  <2>3. OnProduct(f[1], a, values, 0)  BY <2>2, PlanStarts
  <2> QED  BY <1>1, <2>3
<1>6. ASSUME NEW k \in 0 .. m - 1, k \in Good PROVE k + 1 \in Good
  <2>1. OnProduct(f[k + 1], a, values, k) /\ k \in Nat /\ k + 1 \in 1 .. m /\ k + 2 \in 1 .. n
        /\ (k + 1) + 1 = k + 2 /\ (k + 2) - 1 = k + 1
    BY <1>1, <1>6
  <2>2. f[k + 2] = After(f[k + 1], Click(values[k + 1]))
    BY <1>1, <1>4, <2>1
  <2>3. OnProduct(f[k + 2], a, values, k + 1)
    BY <2>1, <2>2, PlanGoesOn
  <2> QED  BY <1>1, <2>1, <2>3
<1>7. m \in Good
  <2> HIDE DEF Good
  <2>1. 0 .. m \subseteq Good  BY <1>1, <1>5, <1>6, UpTo
  <2> QED  BY <1>1, <2>1
<1> QED  BY <1>1, <1>4, <1>7

LEMMA ListsAll ==
  ASSUME NEW S, IsFiniteSet(S)
  PROVE  /\ SetToSeq(S) \in Seq(S)
         /\ \A x \in S : \E i \in 1 .. Len(SetToSeq(S)) : SetToSeq(S)[i] = x
<1> DEFINE n == Cardinality(S)
           Ordered(f) == f \in [1 .. n -> S] /\ \A a, b \in DOMAIN f : f[a] = f[b] => a = b
           q == CHOOSE f : Ordered(f)
<1>1. n \in Nat /\ IsFiniteSet(1 .. n) /\ Cardinality(1 .. n) = n
  BY FS_CardinalityType, FS_Interval
<1>2. PICK g : g \in Bijection(1 .. n, S)
  BY <1>1, FS_SameCardinalityBij DEF ExistsBijection
<1>3. Ordered(g)
  BY <1>2 DEF Bijection, Injection, IsInjective
<1>4. Ordered(q)
  <2> HIDE DEF Ordered
  <2> QED  BY <1>3
<1>5. SetToSeq(S) = q
  <2>1. SetToSeq(S) = CHOOSE f \in [1 .. n -> S] : IsInjective(f)  BY DEF SetToSeq
  <2>2. \A f : f \in [1 .. n -> S] /\ IsInjective(f) <=> Ordered(f)  BY DEF IsInjective
  <2> QED  BY <2>1, <2>2
<1> HIDE DEF q, n
<1>6. q \in Seq(S) /\ Len(q) = n  BY <1>1, <1>4
<1>7. q \in Injection(1 .. n, S)  BY <1>4 DEF Injection, IsInjective
<1>8. q \in Surjection(1 .. n, S)
  BY <1>1, <1>7, FS_Injection DEF n
<1>9. \A x \in S : \E i \in 1 .. n : q[i] = x  BY <1>8 DEF Surjection
<1> QED  BY <1>5, <1>6, <1>9

(* The product of a goal is of the type the goal asks for. *)
LEMMA OwnType ==
  ASSUME NEW g, g.asin \in Asins
  PROVE  TypeScore(g, Product(g.asin)) = 1000
<1> DEFINE wanted == Product(g.asin)
           c == Cardinality(wanted.nouns)
           common == Cardinality(wanted.nouns \cap wanted.nouns)
           title == IF wanted.nouns = {} THEN 200 ELSE ScorePart(common, c)
<1>1. IsFiniteSet(wanted.nouns)
  <2>1. PICK i \in Products : wanted = Catalogue[i]  BY ProductIs
  <2> QED  BY <2>1, GoalAssumption
<1>2. common = c /\ c \in Nat /\ (wanted.nouns # {} => c # 0)
  <2>1. wanted.nouns \cap wanted.nouns = wanted.nouns  OBVIOUS
  <2> QED  BY <1>1, <2>1, FS_CardinalityType, FS_EmptySet
<1>3. TypeScore(g, wanted) =
        CASE title = 0  -> 0
          [] title \in 1 .. 99 -> 100
          [] title >= 100 /\ \/ wanted.query = wanted.query
                             \/ Cardinality(wanted.categories \cap wanted.categories) >= 2
                             \/ title > 200 -> 1000
          [] OTHER -> 500
  BY DEF TypeScore
<1> HIDE DEF wanted, common, c
<1>4. ASSUME c # 0 PROVE ScorePart(c, c) = 1000
  <2> DEFINE x == 1000 * c
             d == x \div c
  <2>1. ScorePart(c, c) = d  BY <1>4 DEF ScorePart
  <2>2. x \in Nat /\ c \in Nat \ {0} /\ x = 1000 * c  BY <1>2, <1>4
  <2> HIDE DEF x
  <2>3. d \in Nat /\ c * d <= x /\ x < c * d + c  BY <2>2
  <2> HIDE DEF d
  <2>4. ASSUME d >= 1001 PROVE FALSE
    <3>1. c * d >= c * 1001  BY <2>2, <2>3, <2>4
    <3> QED  BY <2>2, <2>3, <3>1
  <2>5. ASSUME d <= 999 PROVE FALSE
    <3>1. c * d <= c * 999  BY <2>2, <2>3, <2>5
    <3> QED  BY <2>2, <2>3, <3>1
  <2> QED  BY <2>1, <2>3, <2>4, <2>5
<1>5. title \in {200, 1000}  BY <1>2, <1>4
<1> HIDE DEF title
<1>6. TypeScore(g, wanted) = 1000  BY <1>3, <1>5
<1> QED  BY <1>6 DEF wanted

(* The plan is one for the product of the goal and the values it asks for. *)
Asked == IF goal.full THEN ToSet(goal.options) ELSE {goal.options[n] : n \in DOMAIN goal.options}

LEMMA PlanIs ==
  ASSUME GoalRight(goal), Attainable
  PROVE  \E values : /\ values \in Seq(Asked) /\ Asked \subseteq Values(Options[goal.asin])
                     /\ \A v \in Asked : \E i \in 1 .. Len(values) : values[i] = v
                     /\ PlanFor(Plan, goal.asin, values)
                     /\ \E C : Plan \in Seq(C)
<1> DEFINE values == IF goal.full THEN goal.options
                     ELSE SetToSeq({goal.options[n] : n \in DOMAIN goal.options})
           clicks == [i \in DOMAIN values |-> Click(values[i])]
           a == goal.asin
           C == {Click(a)} \cup {Click(v) : v \in Asked}
<1>1. goal.full \in BOOLEAN  BY DEF GoalRight
<1>2. /\ values \in Seq(Asked)
      /\ Asked \subseteq Values(Options[goal.asin])
      /\ \A v \in Asked : \E i \in 1 .. Len(values) : values[i] = v
  <2>1. CASE goal.full
    <3>1. goal.options \in Seq(STRING) /\ values = goal.options /\ Asked = ToSet(goal.options)
      BY <2>1 DEF GoalRight, Asked
    <3>2. goal.options \in Seq(ToSet(goal.options))
          /\ \A v \in ToSet(goal.options) : \E i \in 1 .. Len(goal.options) : goal.options[i] = v
      BY <3>1 DEF ToSet
    <3>3. ToSet(goal.options) \subseteq Values(Options[goal.asin])
      BY <2>1 DEF Attainable
    <3> QED  BY <3>1, <3>2, <3>3
  <2>2. CASE ~goal.full
    <3> DEFINE S == {goal.options[n] : n \in DOMAIN goal.options}
    <3>1. values = SetToSeq(S) /\ Asked = S  BY <2>2 DEF Asked
    <3>2. IsFiniteSet(S)
      <4> DEFINE D == DOMAIN goal.options
                 f == [n \in D |-> goal.options[n]]
      <4>1. IsFiniteSet(D)  BY <2>2 DEF GoalRight
      <4>2. f \in Surjection(D, S)  BY DEF Surjection
      <4> HIDE DEF D, S, f
      <4> QED  BY <4>1, <4>2, FS_Surjection
    <3>3. S \subseteq Values(Options[goal.asin])  BY <2>2 DEF GoalRight
    <3> HIDE DEF S, values
    <3>4. SetToSeq(S) \in Seq(S) /\ \A x \in S : \E i \in 1 .. Len(SetToSeq(S)) : SetToSeq(S)[i] = x
      BY <3>2, ListsAll
    <3> QED  BY <3>1, <3>3, <3>4
  <2> HIDE DEF values, clicks, C, a
  <2> QED  BY <2>1, <2>2, Zenon
<1>3. Plan = <<Click(a)>> \o clicks  BY DEF Plan
<1> HIDE DEF values
<1>4. clicks \in Seq(C) /\ Len(clicks) = Len(values) /\ Len(values) \in Nat
      /\ \A i \in 1 .. Len(values) : clicks[i] = Click(values[i])
  BY <1>2
<1>5. <<Click(a)>> \in Seq(C) /\ Len(<<Click(a)>>) = 1 /\ <<Click(a)>>[1] = Click(a)
  OBVIOUS
<1> HIDE DEF clicks, C, a
<1>6. PICK first : first = <<Click(a)>>  OBVIOUS
<1>7. Plan \in Seq(C) /\ Len(Plan) = Len(values) + 1 /\ Plan[1] = Click(a)
      /\ \A i \in 1 .. Len(values) : Plan[i + 1] = clicks[i]
  BY <1>3, <1>4, <1>5, <1>6
<1>8. PlanFor(Plan, a, values)  BY <1>4, <1>7 DEF PlanFor
<1> QED  BY <1>2, <1>7, <1>8 DEF a

LEMMA BoughtInvWinnable == BoughtInv => GoalStaysWinnable
<1> SUFFICES ASSUME BoughtInv, Attainable
             PROVE  Success(goal, After(Carried, Click("buy now")))
  BY DEF GoalStaysWinnable
<1> DEFINE a == goal.asin
           s == Carried
           u == After(s, Click("buy now"))
<1>1. IsState(envState) /\ GoalRight(goal)  BY DEF BoughtInv
<1>2. PICK values : /\ values \in Seq(Asked) /\ Asked \subseteq Values(Options[a])
                    /\ \A v \in Asked : \E i \in 1 .. Len(values) : values[i] = v
                    /\ PlanFor(Plan, a, values)
                    /\ \E C : Plan \in Seq(C)
  BY <1>1, PlanIs
<1>3. a \in Asins /\ goal.full \in BOOLEAN /\ Product(a).price <= goal.limit
  BY <1>1 DEF GoalRight
<1>4. OnProduct(s, a, values, Len(values))
  <2>1. PICK C : Plan \in Seq(C)  BY <1>2
  <2>2. \A i \in 1 .. Len(values) : values[i] \in Values(Options[a])  BY <1>2
  <2> HIDE DEF a
  <2>3. OnProduct(FoldLeft(After, envState, Plan), a, values, Len(values))
    BY <1>1, <1>2, <1>3, <2>1, <2>2, PlanEnds
  <2> QED  BY <2>3 DEF Carried
<1> HIDE DEF s
<1>5. /\ IsState(s) /\ s.asin = a
      /\ \A i \in 1 .. Len(values) : OptionLookup[a][values[i]] \in DOMAIN s.options
      /\ \A n \in DOMAIN s.options :
           \E i \in 1 .. Len(values) : s.options[n] = values[i] /\ OptionLookup[a][values[i]] = n
  BY <1>4 DEF OnProduct
<1>6. u.asin = a /\ u.options = s.options  BY <1>5, AfterBuying
<1> HIDE DEF u
<1>7. \A i \in 1 .. Len(values) : values[i] \in Asked  BY <1>2
<1>8. goal.attributes \subseteq Product(a).text  BY DEF Attainable
<1>9. a # NoAsin  BY <1>3, CatalogueAssumption
<1>10. TaskScore(goal, u) = IF goal.full THEN FullScore(goal, u) ELSE SmallScore(goal, u)
  BY <1>3, <1>6, <1>9 DEF TaskScore
<1>11. CASE goal.full
  <2>1. ASSUME NEW k \in DOMAIN goal.options
        PROVE  \E n \in DOMAIN u.options : Alike(u.options[n], goal.options[k])
    <3> DEFINE v == goal.options[k]
               n == OptionLookup[a][v]
    <3>1. v \in Asked /\ Asked = ToSet(goal.options)  BY <1>11 DEF Asked, ToSet
    <3>2. PICK i \in 1 .. Len(values) : values[i] = v  BY <1>2, <3>1
    <3>3. n \in DOMAIN s.options  BY <1>5, <3>2
    <3>4. PICK j \in 1 .. Len(values) : s.options[n] = values[j] /\ OptionLookup[a][values[j]] = n
      BY <1>5, <3>3
    <3>5. values[j] \in ToSet(goal.options) /\ v \in ToSet(goal.options)  BY <1>7, <3>1
    <3>6. Alike(values[j], v)  BY <1>11, <3>4, <3>5 DEF Attainable
    <3> QED  BY <1>6, <3>3, <3>4, <3>6
  <2>2. FullMeans(goal, u)  BY <1>3, <1>6, <1>8, <2>1 DEF FullMeans
  <2>3. TypeScore(goal, Product(u.asin)) = 1000  BY <1>3, <1>6, OwnType
  <2>4. FullScore(goal, u) = 1000  BY <1>1, <1>3, <1>6, <1>11, <2>2, <2>3, FullSuccess
  <2>5. Success(goal, u)  BY <1>10, <1>11, <2>4 DEF Success
  <2> QED  BY <2>5 DEF u, s
<1>12. CASE ~goal.full
  <2>1. ASSUME NEW n \in DOMAIN goal.options
        PROVE  n \in DOMAIN u.options /\ u.options[n] = goal.options[n]
    <3> DEFINE v == goal.options[n]
    <3>1. v \in Asked /\ OptionLookup[a][v] = n
      BY <1>12 DEF Asked, Attainable
    <3>2. PICK i \in 1 .. Len(values) : values[i] = v  BY <1>2, <3>1
    <3>3. n \in DOMAIN s.options  BY <1>5, <3>1, <3>2
    <3>4. PICK j \in 1 .. Len(values) : s.options[n] = values[j] /\ OptionLookup[a][values[j]] = n
      BY <1>5, <3>3
    <3>5. PICK m \in DOMAIN goal.options : values[j] = goal.options[m]
      <4>1. values[j] \in Asked  BY <1>7
      <4> QED  BY <1>12, <4>1 DEF Asked
    <3>6. OptionLookup[a][goal.options[m]] = m  BY <1>12 DEF Attainable
    <3>7. m = n  BY <3>4, <3>5, <3>6
    <3> QED  BY <1>6, <3>3, <3>4, <3>5, <3>7
  <2>2. SmallMeans(goal, u)  BY <1>3, <1>6, <1>8, <2>1 DEF SmallMeans
  <2>3. SmallScore(goal, u) >= 999  BY <1>1, <1>3, <1>6, <1>12, <2>2, SmallSuccess
  <2>4. Success(goal, u)  BY <1>10, <1>12, <2>3 DEF Success
  <2> QED  BY <2>4 DEF u, s
<1> QED  BY <1>3, <1>11, <1>12

(* In every episode of every instance what the agent is shown belongs to   *)
(* the state its next command acts on, and no action listed there is one   *)
(* the server denies (format_observation, available_actions, step).        *)
THEOREM MenuIsHonoured == Spec => []MenuHonoured
<1>1. Init => MenuInv
  BY InitMenuInv DEF Init
<1>2. MenuInv /\ [Next]_vars => MenuInv'
  BY OneRecipe, NextMenuInv
<1>3. QED
  BY <1>1, <1>2, MenuInvHonours, PTL DEF Spec

(* In every episode of every instance a bonus is the reward of the last    *)
(* step and the clicks of the episode earned it: the purchase is of the    *)
(* product opened last with the values clicked last (the episode loop of   *)
(* webshop_agent_flow.py, step and score_purchase).                        *)
THEOREM BonusDeserved == Spec => []PaidForPurchase
<1>1. Init => BoughtInv
  BY InitBoughtInv DEF Init
<1>2. BoughtInv /\ [Next]_vars => BoughtInv'
  BY OneRecipe, NextBoughtInv
<1>3. BoughtInv => PaidForPurchase
  BY DEF BoughtInv
<1>4. QED
  BY <1>1, <1>2, <1>3, PTL DEF Spec

(* In every state of every episode of every instance the goal, if it can   *)
(* be attained at all, is attained by opening its product, clicking its    *)
(* options and buying: no click spoils an episode (step, score_purchase).  *)
THEOREM EpisodesStayWinnable == Spec => []GoalStaysWinnable
<1>1. Init => BoughtInv
  BY InitBoughtInv DEF Init
<1>2. BoughtInv /\ [Next]_vars => BoughtInv'
  BY OneRecipe, NextBoughtInv
<1>3. QED
  BY <1>1, <1>2, BoughtInvWinnable, PTL DEF Spec

=============================================================================
