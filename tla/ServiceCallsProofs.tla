------------------------- MODULE ServiceCallsProofs -------------------------
(***************************************************************************)
(* The calls that are repeated after a failure, for any number of them at  *)
(* once and any number of retries.  Scoring: a request is given up only    *)
(* with a reason.  The paper service: no slot of a semaphore is lost or    *)
(* given back twice, and no search is given up while a key may work.       *)
(***************************************************************************)
EXTENDS ServiceCalls, FiniteSetTheorems, TLAPS

-----------------------------------------------------------------------------
(* Scoring *)

(* A post that is under way or about to be repeated has an attempt left,   *)
(* and no client error behind it.                                          *)
AttemptLeft ==
  \A i \in Items :
    /\ pc[i] \in {"idle", "managing"} => attempt[i] = 0 /\ clientErrors[i] = 0
    /\ pc[i] \in {"posting", "sleeping"} => attempt[i] < MaxRetries /\ clientErrors[i] = 0

(* The two ways of scoring do not mix. *)
OwnPath == \A i \in Items : pc[i] = "managing" => ~ UsesDisrm

ScoringInv == TypeOK /\ AttemptLeft /\ OwnPath /\ GivesUpWithReason

-----------------------------------------------------------------------------
LEMMA InitScoringInv == Init => ScoringInv
BY RewardAssumption DEF Init, ScoringInv, TypeOK, AttemptLeft, OwnPath, GivesUpWithReason, Errors

LEMMA ComputeScoreScoringInv ==
  ASSUME ScoringInv, NEW i \in Items, ComputeScore(i)
  PROVE  ScoringInv'
BY RewardAssumption
DEF ComputeScore, ScoringInv, TypeOK, AttemptLeft, OwnPath, GivesUpWithReason, UsesDisrm, Errors

LEMMA RunSingleScoringInv ==
  ASSUME ScoringInv, NEW i \in Items, RunSingle(i)
  PROVE  ScoringInv'
<1>1. Keys \in SUBSET Keys
  OBVIOUS
<1>2. QED
  BY <1>1 DEF RunSingle, ScoringInv, TypeOK, AttemptLeft, OwnPath, GivesUpWithReason, UsesDisrm

LEMMA PostAnsweredScoringInv ==
  ASSUME ScoringInv, NEW i \in Items, PostAnswered(i)
  PROVE  ScoringInv'
<1>1. DisrmKeys \in SUBSET Keys
  BY DEF DisrmKeys, Keys
<1>2. QED
  BY <1>1 DEF PostAnswered, ScoringInv, TypeOK, AttemptLeft, OwnPath, GivesUpWithReason, UsesDisrm

LEMMA AnswerUnreadScoringInv ==
  ASSUME ScoringInv, NEW i \in Items, AnswerUnread(i)
  PROVE  ScoringInv'
BY DEF AnswerUnread, ScoringInv, TypeOK, AttemptLeft, OwnPath, GivesUpWithReason, UsesDisrm

(* A failed attempt uses up one of those left; the error decides together  *)
(* with the count whether the request is given up.                         *)
LEMMA PostFailedScoringInv ==
  ASSUME ScoringInv, NEW i \in Items, PostFailed(i)
  PROVE  ScoringInv'
<1> USE RewardAssumption
<1>1. PICK e \in Errors :
        /\ last' = [last EXCEPT ![i] = e]
        /\ clientErrors' = [clientErrors EXCEPT ![i] = @ + (IF e = "client_error" THEN 1 ELSE 0)]
        /\ attempt' = [attempt EXCEPT ![i] = @ + 1]
        /\ pc' = [pc EXCEPT ![i] = IF Retries(e) /\ AttemptsLeft(attempt[i] + 1)
                                     THEN "sleeping" ELSE "raised"]
  BY DEF PostFailed
<1>2. pc[i] = "posting" /\ config' = config /\ answer' = answer
  BY DEF PostFailed
<1>3. attempt[i] \in Nat /\ attempt[i] < MaxRetries /\ clientErrors[i] = 0
  BY <1>2 DEF ScoringInv, TypeOK, AttemptLeft
<1>4. TypeOK'
  BY <1>1, <1>2, <1>3 DEF ScoringInv, TypeOK
<1>5. AttemptLeft' /\ OwnPath'
  BY <1>1, <1>2, <1>3 DEF ScoringInv, TypeOK, AttemptLeft, OwnPath, UsesDisrm, Retries, AttemptsLeft
<1>6. GivesUpWithReason'
  BY <1>1, <1>2, <1>3
  DEF ScoringInv, TypeOK, GivesUpWithReason, UsesDisrm, Retries, AttemptsLeft
<1>7. QED
  BY <1>4, <1>5, <1>6 DEF ScoringInv

LEMMA WakeUpScoringInv ==
  ASSUME ScoringInv, NEW i \in Items, WakeUp(i)
  PROVE  ScoringInv'
BY DEF WakeUp, ScoringInv, TypeOK, AttemptLeft, OwnPath, GivesUpWithReason, UsesDisrm

LEMMA TakeScoreScoringInv ==
  ASSUME ScoringInv, NEW i \in Items, TakeScore(i)
  PROVE  ScoringInv'
BY DEF TakeScore, ScoringInv, TypeOK, AttemptLeft, OwnPath, GivesUpWithReason, UsesDisrm

LEMMA NextScoringInv == ScoringInv /\ [Next]_vars => ScoringInv'
<1> SUFFICES ASSUME ScoringInv, [Next]_vars PROVE ScoringInv'
  OBVIOUS
<1>1. ASSUME NEW i \in Items, WorkerStep(i) PROVE ScoringInv'
  BY <1>1, ComputeScoreScoringInv, RunSingleScoringInv, WakeUpScoringInv, TakeScoreScoringInv DEF WorkerStep
<1>2. ASSUME NEW i \in Items, RouterStep(i) PROVE ScoringInv'
  BY <1>2, PostAnsweredScoringInv, AnswerUnreadScoringInv, PostFailedScoringInv DEF RouterStep
<1>3. CASE UNCHANGED vars
  BY <1>3
  DEF vars, ScoringInv, TypeOK, AttemptLeft, OwnPath, GivesUpWithReason, UsesDisrm
<1>4. QED
  BY <1>1, <1>2, <1>3 DEF Next

-----------------------------------------------------------------------------
(* A request that could still succeed is never given up: _post_request     *)
(* raises at its first client error or after the last of MaxRetries        *)
(* attempts, and never tries a client error again.                         *)
THEOREM NeverGivesUpEarly == Spec => []GivesUpWithReason
<1>1. ScoringInv => GivesUpWithReason
  BY DEF ScoringInv
<1>2. QED
  BY <1>1, InitScoringInv, NextScoringInv, PTL DEF Spec


-----------------------------------------------------------------------------
(* Queues *)

Distinct(w) == \A i, j \in DOMAIN w : i # j => w[i] # w[j]

LEMMA NoneOf == ASSUME NEW S, NEW s \in Seq(S), Len(s) = 0 PROVE s = <<>>
OBVIOUS

LEMMA Enqueued ==
  ASSUME NEW S, NEW w \in Seq(S), Distinct(w), NEW c \in S, c \notin ToSet(w)
  PROVE  /\ Append(w, c) \in Seq(S) /\ Distinct(Append(w, c)) /\ Append(w, c) # <<>>
         /\ ToSet(Append(w, c)) = ToSet(w) \cup {c}
<1> DEFINE v == Append(w, c)
<1>1. PICK n \in Nat : n = Len(w) /\ DOMAIN w = 1 .. n
  OBVIOUS
<1>2. v \in Seq(S) /\ DOMAIN v = 1 .. n + 1 /\ v[n + 1] = c /\ (\A i \in 1 .. n : v[i] = w[i])
  BY <1>1
<1>3. Len(v) = n + 1
  BY <1>1
<1> HIDE DEF v
<1>4. ToSet(v) = ToSet(w) \cup {c}
  BY <1>1, <1>2 DEF ToSet
<1>5. Distinct(v)
  BY <1>1, <1>2 DEF Distinct, ToSet
<1>6. v # <<>>
  BY <1>3
<1>7. QED
  BY <1>2, <1>4, <1>5, <1>6 DEF v

LEMMA Dequeued ==
  ASSUME NEW S, NEW w \in Seq(S), Distinct(w), w # <<>>
  PROVE  /\ Tail(w) \in Seq(S) /\ Distinct(Tail(w)) /\ Head(w) \in ToSet(w)
         /\ ToSet(Tail(w)) = ToSet(w) \ {Head(w)}
<1> DEFINE v == Tail(w)
<1>1. PICK n \in Nat : n + 1 = Len(w) /\ DOMAIN w = 1 .. n + 1 /\ Head(w) = w[1]
  <2>1. Len(w) \in Nat /\ Len(w) # 0
    BY NoneOf
  <2>2. Len(w) - 1 \in Nat /\ (Len(w) - 1) + 1 = Len(w)
    BY <2>1
  <2>3. PICK n \in Nat : n = Len(w) - 1
    BY <2>2
  <2>4. n + 1 = Len(w) /\ DOMAIN w = 1 .. Len(w) /\ Head(w) = w[1]
    BY <2>1, <2>3
  <2>5. QED
    BY <2>4
<1>2. v \in Seq(S) /\ DOMAIN v = 1 .. n /\ (\A i \in 1 .. n : v[i] = w[i + 1])
  BY <1>1
<1> HIDE DEF v
<1>3. Distinct(v)
  <2>1. ASSUME NEW i \in 1 .. n, NEW j \in 1 .. n, i # j PROVE v[i] # v[j]
    <3>1. i + 1 \in 1 .. n + 1 /\ j + 1 \in 1 .. n + 1 /\ i + 1 # j + 1
      BY <2>1
    <3>2. w[i + 1] # w[j + 1]
      BY <1>1, <3>1 DEF Distinct
    <3>3. QED
      BY <1>2, <3>2
  <2>2. QED
    BY <1>2, <2>1 DEF Distinct
<1>4. ToSet(v) = ToSet(w) \ {w[1]}
  <2>1. ASSUME NEW x \in ToSet(v) PROVE x \in ToSet(w) /\ x # w[1]
    BY <1>1, <1>2 DEF ToSet, Distinct
  <2>2. ASSUME NEW x \in ToSet(w), x # w[1] PROVE x \in ToSet(v)
    <3>1. PICK i \in 1 .. n + 1 : x = w[i] /\ i # 1
      BY <1>1, <2>2 DEF ToSet
    <3>2. i - 1 \in 1 .. n /\ v[i - 1] = x
      BY <1>2, <3>1
    <3>3. QED
      BY <1>2, <3>2 DEF ToSet
  <2>3. QED
    BY <2>1, <2>2
<1>5. Head(w) \in ToSet(w)
  BY <1>1 DEF ToSet
<1>6. QED
  BY <1>1, <1>2, <1>3, <1>4, <1>5 DEF v

-----------------------------------------------------------------------------
(* The semaphores *)

RequestType ==
    [kind : Kinds, at : {"idle", "ready", "waiting", "sending", "sleeping", "answered", "refused"},
     tries : Nat]

HttpType ==
    /\ limit \in [Semaphores -> Nat]
    /\ slots \in [Semaphores -> Nat]
    /\ waiters \in [Semaphores -> Seq(HttpCalls)]
    /\ request \in [HttpCalls -> RequestType]

Waiting(s) == {c \in HttpCalls : request[c].at = "waiting" /\ SemaphoreOf(request[c].kind) = s}

\* SlotsKept of one semaphore
Kept(s) ==
    /\ IsFiniteSet(Sending(s))
    /\ slots[s] + Cardinality(Sending(s)) = limit[s]
    /\ waiters[s] # <<>> => slots[s] = 0
    /\ Waiting(s) = ToSet(waiters[s])
    /\ Distinct(waiters[s])

HttpInv == HttpType /\ \A s \in Semaphores : limit[s] > 0 => Kept(s)

LEMMA HttpInvSlots == HttpInv => SlotsKept
BY DEF HttpInv, Kept, SlotsKept, Waiting

LEMMA InitHttpInv == HttpInit => HttpInv
<1> SUFFICES ASSUME HttpInit PROVE HttpInv
  OBVIOUS
<1>1. NoRequest \in RequestType
  BY DEF NoRequest, RequestType, Kinds
<1>2. \A S : <<>> \in Seq(S)
  OBVIOUS
<1>3. HttpType
  BY <1>1, <1>2, HttpAssumption DEF HttpInit, HttpType
<1>4. ASSUME NEW s \in Semaphores, limit[s] > 0 PROVE Kept(s)
  <2>1. \A c \in HttpCalls : request[c].at = "idle"
    BY DEF HttpInit, NoRequest
  <2>2. Sending(s) = {} /\ Waiting(s) = {}
    BY <2>1 DEF Sending, Waiting
  <2>3. waiters[s] = <<>> /\ slots[s] = limit[s] /\ limit[s] \in Nat
    BY <1>3 DEF HttpInit, HttpType
  <2>4. ToSet(<<>>) = {} /\ Distinct(<<>>)
    BY DEF ToSet, Distinct
  <2>5. QED
    BY <2>2, <2>3, <2>4, FS_EmptySet DEF Kept
<1>5. QED
  BY <1>3, <1>4 DEF HttpInv

\* Requests that neither hold a slot nor wait for one do not matter.
Off(c) == request[c].at \notin {"waiting", "sending"}

LEMMA RequestsBegun ==
  ASSUME HttpInv, UNCHANGED <<limit, slots, waiters>>,
         request' \in [HttpCalls -> RequestType],
         \A c \in HttpCalls : request'[c] # request[c] =>
             Off(c) /\ request'[c].at \notin {"waiting", "sending"}
  PROVE  HttpInv'
<1>1. HttpType'
  BY DEF HttpInv, HttpType
<1>2. ASSUME NEW s \in Semaphores, limit[s] > 0 PROVE Kept(s)'
  <2>1. Sending(s)' = Sending(s) /\ Waiting(s)' = Waiting(s)
    BY DEF Sending, Waiting, SemaphoreOf, Off
  <2>2. Kept(s)
    BY <1>2 DEF HttpInv
  <2>3. QED
    BY <2>1, <2>2 DEF Kept
<1>3. QED
  BY <1>1, <1>2 DEF HttpInv

\* A request takes a slot or joins the queue.
LEMMA AcquireHttpInv ==
  ASSUME HttpInv, NEW c \in HttpCalls, Off(c), Acquire(c)
  PROVE  HttpInv'
<1> PICK s : s = SemaphoreOf(request[c].kind)
  OBVIOUS
<1>1. s \in Semaphores \cup {"none"} /\ (s # "none" => limit[s] > 0)
  BY DEF HttpInv, HttpType, SemaphoreOf, Semaphores
<1>2. /\ request' = [request EXCEPT ![c].at = IF s = "none" \/ slots[s] > 0 THEN "sending" ELSE "waiting"]
      /\ limit' = limit /\ HttpType
      /\ Acquire(c)
  BY DEF Acquire, HttpInv
<1>3. /\ request[c] \in RequestType
      /\ request' \in [HttpCalls -> RequestType]
      /\ request'[c].kind = request[c].kind
      /\ request'[c].at = IF s = "none" \/ slots[s] > 0 THEN "sending" ELSE "waiting"
      /\ \A d \in HttpCalls : d # c => request'[d] = request[d]
  BY <1>2 DEF HttpType, RequestType
<1>4. ASSUME NEW k PROVE SemaphoreOf(k)' = SemaphoreOf(k)
  BY <1>2 DEF SemaphoreOf
<1>5. ASSUME NEW r \in Semaphores, limit[r] > 0, r # s
      PROVE  Kept(r)' /\ slots'[r] \in Nat /\ waiters'[r] \in Seq(HttpCalls)
  <2>1. Sending(r)' = Sending(r) /\ Waiting(r)' = Waiting(r)
    BY <1>3, <1>4, <1>5 DEF Sending, Waiting, Off
  <2>2. slots'[r] = slots[r] /\ waiters'[r] = waiters[r]
    BY <1>1, <1>2, <1>5 DEF Acquire, HttpType
  <2>3. QED
    BY <1>2, <1>5, <2>1, <2>2 DEF HttpInv, Kept, HttpType
<1>6. CASE s = "none"
  <2>1. slots' = slots /\ waiters' = waiters
    BY <1>2, <1>6 DEF Acquire
  <2>2. HttpType'
    BY <1>2, <1>3, <2>1 DEF HttpType
  <2>3. QED
    BY <1>2, <1>5, <1>6, <2>2 DEF HttpInv, Semaphores
<1>7. CASE s # "none"
  <2>1. s \in Semaphores /\ limit[s] > 0 /\ Kept(s) /\ slots[s] \in Nat /\ waiters[s] \in Seq(HttpCalls)
    BY <1>1, <1>2, <1>7 DEF HttpInv, HttpType
  <2>2. CASE slots[s] > 0
    <3>1. slots' = [slots EXCEPT ![s] = @ - 1] /\ waiters' = waiters
      BY <1>2, <1>7, <2>1, <2>2 DEF Acquire
    <3>2. HttpType'
      BY <1>2, <1>3, <2>1, <2>2, <3>1 DEF HttpType
    <3>3. Sending(s)' = Sending(s) \cup {c} /\ c \notin Sending(s) /\ Waiting(s)' = Waiting(s)
      BY <1>3, <1>4, <2>2 DEF Sending, Waiting, Off
    <3>4. IsFiniteSet(Sending(s)') /\ Cardinality(Sending(s)') = Cardinality(Sending(s)) + 1
      <4>1. IsFiniteSet(Sending(s))
        BY <2>1 DEF Kept
      <4>2. /\ IsFiniteSet(Sending(s) \cup {c})
            /\ Cardinality(Sending(s) \cup {c}) = Cardinality(Sending(s)) + 1
        BY <3>3, <4>1, FS_AddElement
      <4>3. QED
        BY <3>3, <4>2
    <3>5. slots'[s] = slots[s] - 1 /\ waiters'[s] = waiters[s] /\ limit'[s] = limit[s]
      BY <1>2, <2>1, <3>1 DEF HttpType
    <3>6. Cardinality(Sending(s)) \in Nat /\ limit[s] \in Nat
      BY <1>2, <2>1, FS_CardinalityType DEF Kept, HttpType
    <3>7. slots'[s] + Cardinality(Sending(s)') = limit[s]
      BY <2>1, <3>4, <3>5, <3>6 DEF Kept
    <3>8. waiters[s] = <<>>
      BY <2>1, <2>2 DEF Kept
    <3>9. IsFiniteSet(Sending(s)') /\ Waiting(s)' = ToSet(waiters'[s]) /\ Distinct(waiters'[s])
      BY <2>1, <3>3, <3>4, <3>5 DEF Kept
    <3>10. Kept(s)'
      BY <1>2, <3>5, <3>7, <3>8, <3>9 DEF Kept
    <3>11. QED
      BY <1>2, <1>5, <3>2, <3>10 DEF HttpInv
  <2>3. CASE slots[s] = 0
    <3>1. slots' = slots /\ waiters' = [waiters EXCEPT ![s] = Append(@, c)]
      BY <1>2, <1>7, <2>3 DEF Acquire
    <3>2. Sending(s)' = Sending(s) /\ c \notin Waiting(s) /\ Waiting(s)' = Waiting(s) \cup {c}
      BY <1>3, <1>4, <1>7, <2>3 DEF Sending, Waiting, Off
    <3>3. /\ Append(waiters[s], c) \in Seq(HttpCalls) /\ Distinct(Append(waiters[s], c))
          /\ ToSet(Append(waiters[s], c)) = ToSet(waiters[s]) \cup {c}
      BY <2>1, <3>2, Enqueued DEF Kept
    <3>4. waiters'[s] = Append(waiters[s], c)
      BY <1>2, <2>1, <3>1 DEF HttpType
    <3>5. HttpType'
      BY <1>2, <1>3, <2>1, <3>1, <3>3 DEF HttpType
    <3>6. Waiting(s)' = ToSet(waiters'[s]) /\ Distinct(waiters'[s])
      BY <2>1, <3>2, <3>3, <3>4 DEF Kept
    <3>7. Kept(s)'
      BY <1>2, <2>1, <2>3, <3>1, <3>2, <3>6 DEF Kept
    <3>8. QED
      BY <1>2, <1>5, <3>5, <3>7 DEF HttpInv
  <2>4. QED
    BY <2>1, <2>2, <2>3
<1>8. QED
  BY <1>6, <1>7

\* A slot is given back, or handed to the request that has waited longest.
LEMMA ReleaseHttpInv ==
  ASSUME HttpInv, NEW c \in HttpCalls, request[c].at = "sending",
         NEW after \in RequestType, after.at \notin {"waiting", "sending"},
         ReleaseAndGoOn(c, after)
  PROVE  HttpInv'
<1> PICK s : s = SemaphoreOf(request[c].kind)
  OBVIOUS
<1>1. s \in Semaphores \cup {"none"} /\ (s # "none" => limit[s] > 0)
  BY DEF HttpInv, HttpType, SemaphoreOf, Semaphores
<1>2. limit' = limit /\ HttpType
  BY DEF ReleaseAndGoOn, HttpInv
<1>3. ASSUME NEW k PROVE SemaphoreOf(k)' = SemaphoreOf(k)
  BY <1>2 DEF SemaphoreOf
<1>4. CASE s = "none" \/ waiters[s] = <<>>
  <2>1. request' = [request EXCEPT ![c] = after] /\ waiters' = waiters
    BY <1>4 DEF ReleaseAndGoOn
  <2>2. /\ request' \in [HttpCalls -> RequestType] /\ request'[c] = after
        /\ \A d \in HttpCalls : d # c => request'[d] = request[d]
    BY <1>2, <2>1 DEF HttpType
  <2>3. ASSUME NEW r \in Semaphores, r # s
        PROVE  Sending(r)' = Sending(r) /\ Waiting(r)' = Waiting(r)
    BY <1>3, <2>2, <2>3 DEF Sending, Waiting
  <2>4. CASE s = "none"
    <3>1. slots' = slots
      BY <2>4 DEF ReleaseAndGoOn
    <3>2. HttpType'
      BY <1>2, <2>1, <2>2, <3>1 DEF HttpType
    <3>3. ASSUME NEW r \in Semaphores, limit[r] > 0 PROVE Kept(r)'
      <4>1. r # s
        BY <2>4 DEF Semaphores
      <4>2. Kept(r)
        BY <3>3 DEF HttpInv
      <4>3. QED
        BY <1>2, <2>1, <2>3, <3>1, <4>1, <4>2 DEF Kept
    <3>4. QED
      BY <1>2, <3>2, <3>3 DEF HttpInv
  <2>5. CASE s # "none"
    <3>1. slots' = [slots EXCEPT ![s] = @ + 1] /\ s \in Semaphores /\ limit[s] > 0 /\ Kept(s)
      BY <1>1, <1>4, <2>5 DEF ReleaseAndGoOn, HttpInv
    <3>2. HttpType' /\ slots'[s] = slots[s] + 1 /\ slots[s] \in Nat /\ limit[s] \in Nat
      BY <1>2, <2>1, <2>2, <3>1 DEF HttpType
    <3>3. Sending(s)' = Sending(s) \ {c} /\ c \in Sending(s) /\ Waiting(s)' = Waiting(s)
      BY <1>3, <2>2 DEF Sending, Waiting
    <3>4. IsFiniteSet(Sending(s)') /\ Cardinality(Sending(s)') = Cardinality(Sending(s)) - 1
      <4>1. IsFiniteSet(Sending(s))
        BY <3>1 DEF Kept
      <4>2. /\ IsFiniteSet(Sending(s) \ {c})
            /\ Cardinality(Sending(s) \ {c}) = Cardinality(Sending(s)) - 1
        BY <3>3, <4>1, FS_RemoveElement
      <4>3. QED
        BY <3>3, <4>2
    <3>5. Cardinality(Sending(s)) \in Nat
      BY <3>1, FS_CardinalityType DEF Kept
    <3>6. slots'[s] + Cardinality(Sending(s)') = limit[s]
      BY <3>1, <3>2, <3>4, <3>5 DEF Kept
    <3>7. waiters'[s] = <<>> /\ ToSet(waiters'[s]) = ToSet(waiters[s]) /\ Distinct(waiters'[s])
      BY <1>4, <2>1, <2>5, <3>1 DEF Kept
    <3>8. Kept(s)'
      BY <1>2, <3>1, <3>3, <3>4, <3>6, <3>7 DEF Kept
    <3>9. ASSUME NEW r \in Semaphores, limit[r] > 0, r # s PROVE Kept(r)'
      <4>1. Kept(r) /\ slots'[r] = slots[r]
        BY <1>2, <3>1, <3>9 DEF HttpInv, HttpType
      <4>2. QED
        BY <1>2, <2>1, <2>3, <3>9, <4>1 DEF Kept
    <3>10. QED
      BY <1>2, <3>2, <3>8, <3>9 DEF HttpInv
  <2>6. QED
    BY <2>4, <2>5
<1>5. CASE s # "none" /\ waiters[s] # <<>>
  <2>1. s \in Semaphores /\ limit[s] > 0 /\ Kept(s) /\ waiters[s] \in Seq(HttpCalls)
    BY <1>1, <1>2, <1>5 DEF HttpInv, HttpType
  <2>2. PICK w : w = waiters[s]
    OBVIOUS
  <2>3. /\ Tail(w) \in Seq(HttpCalls) /\ Distinct(Tail(w)) /\ Head(w) \in ToSet(w)
        /\ ToSet(Tail(w)) = ToSet(w) \ {Head(w)}
    BY <1>5, <2>1, <2>2, Dequeued DEF Kept
  <2>4. PICK h \in HttpCalls : h = Head(w) /\ h \in Waiting(s)
    BY <2>1, <2>2, <2>3 DEF Kept, Waiting
  <2>5. h # c /\ request[h].at = "waiting" /\ SemaphoreOf(request[h].kind) = s
    BY <2>4 DEF Waiting
  <2>6. /\ request' = [request EXCEPT ![c] = after, ![h].at = "sending"]
        /\ waiters' = [waiters EXCEPT ![s] = Tail(@)]
        /\ slots' = slots
    BY <1>5, <2>2, <2>4 DEF ReleaseAndGoOn
  <2>7. /\ request' \in [HttpCalls -> RequestType] /\ request'[c] = after
        /\ request'[h].at = "sending" /\ request'[h].kind = request[h].kind
        /\ \A d \in HttpCalls : d # c /\ d # h => request'[d] = request[d]
    BY <1>2, <2>5, <2>6 DEF HttpType, RequestType
  <2>8. waiters'[s] = Tail(w) /\ waiters' \in [Semaphores -> Seq(HttpCalls)]
        /\ \A r \in Semaphores : r # s => waiters'[r] = waiters[r]
    BY <1>2, <2>1, <2>2, <2>3, <2>6 DEF HttpType
  <2>9. HttpType'
    BY <1>2, <2>6, <2>7, <2>8 DEF HttpType
  <2>10. ASSUME NEW r \in Semaphores, limit[r] > 0, r # s PROVE Kept(r)'
    <3>1. Sending(r)' = Sending(r) /\ Waiting(r)' = Waiting(r)
      BY <1>3, <2>5, <2>7, <2>10 DEF Sending, Waiting
    <3>2. Kept(r)
      BY <2>10 DEF HttpInv
    <3>3. QED
      BY <1>2, <2>6, <2>8, <2>10, <3>1, <3>2 DEF Kept
  <2>11. /\ Sending(s)' = (Sending(s) \ {c}) \cup {h} /\ c \in Sending(s) /\ h \notin Sending(s) \ {c}
         /\ Waiting(s)' = Waiting(s) \ {h}
    BY <1>3, <2>5, <2>7 DEF Sending, Waiting
  <2>12. IsFiniteSet(Sending(s)') /\ Cardinality(Sending(s)') = Cardinality(Sending(s))
    <3>1. IsFiniteSet(Sending(s)) /\ Cardinality(Sending(s)) \in Nat
      BY <2>1, FS_CardinalityType DEF Kept
    <3>2. /\ IsFiniteSet(Sending(s) \ {c})
          /\ Cardinality(Sending(s) \ {c}) = Cardinality(Sending(s)) - 1
      BY <2>11, <3>1, FS_RemoveElement
    <3>3. /\ IsFiniteSet((Sending(s) \ {c}) \cup {h})
          /\ Cardinality((Sending(s) \ {c}) \cup {h}) = Cardinality(Sending(s) \ {c}) + 1
      BY <2>11, <3>2, FS_AddElement
    <3>4. QED
      BY <2>11, <3>1, <3>2, <3>3
  <2>13. Waiting(s)' = ToSet(waiters'[s]) /\ Distinct(waiters'[s])
    BY <2>1, <2>2, <2>3, <2>4, <2>8, <2>11 DEF Kept
  <2>14. slots[s] = 0
    BY <1>5, <2>1 DEF Kept
  <2>15. Kept(s)'
    BY <1>2, <2>1, <2>6, <2>12, <2>13, <2>14 DEF Kept
  <2>16. QED
    BY <1>2, <2>9, <2>10, <2>15 DEF HttpInv
<1>6. QED
  BY <1>4, <1>5

Ends == {"answered", "refused"}

LEMMA AfterAttempt ==
  ASSUME HttpInv, NEW c \in HttpCalls, NEW end \in Ends
  PROVE  /\ Over(end) \in RequestType /\ Over(end).at = end
         /\ TryAgainOr(c, end) \in RequestType
         /\ TryAgainOr(c, end).at \in {"sleeping", "answered", "refused"}
<1>1. Over(end) \in RequestType /\ Over(end).at = end
  BY DEF Over, NoRequest, RequestType, Kinds, Ends
<1>2. PICK r \in RequestType : r = request[c]
  BY DEF HttpInv, HttpType
<1> DEFINE again == [r EXCEPT !.at = "sleeping", !.tries = @ + 1]
<1>3. again \in RequestType /\ again.at = "sleeping"
  <2>1. r.tries \in Nat
    BY DEF RequestType
  <2>2. PICK n \in Nat : n = r.tries + 1
    BY <2>1
  <2>3. again = [r EXCEPT !.at = "sleeping", !.tries = n]
    BY <2>2
  <2>4. QED
    BY <2>3 DEF RequestType
<1>4. TryAgainOr(c, end) \in {again, Over(end)}
  BY <1>2 DEF TryAgainOr
<1> HIDE DEF again
<1>5. QED
  BY <1>1, <1>3, <1>4 DEF Ends

\* The requests that were never begun are not touched by the others.
SameIdle == \A d \in HttpCalls : request'[d].at = "idle" <=> request[d].at = "idle"

LEMMA AcquireIdle ==
  ASSUME HttpInv, NEW c \in HttpCalls, request[c].at # "idle", Acquire(c)
  PROVE  SameIdle
<1>1. \E at \in {"sending", "waiting"} : request' = [request EXCEPT ![c].at = at]
  BY DEF Acquire
<1>2. PICK at \in {"sending", "waiting"} : request' = [request EXCEPT ![c].at = at]
  BY <1>1
<1>3. request \in [HttpCalls -> RequestType]
  BY DEF HttpInv, HttpType
<1>4. request'[c].at = at /\ \A d \in HttpCalls : d # c => request'[d] = request[d]
  BY <1>2, <1>3 DEF RequestType
<1>5. QED
  BY <1>4 DEF SameIdle

LEMMA ReleaseIdle ==
  ASSUME HttpInv, NEW c \in HttpCalls, request[c].at = "sending",
         NEW after \in RequestType, after.at # "idle", ReleaseAndGoOn(c, after)
  PROVE  SameIdle
<1> PICK s : s = SemaphoreOf(request[c].kind)
  OBVIOUS
<1>1. request \in [HttpCalls -> RequestType] /\ waiters \in [Semaphores -> Seq(HttpCalls)]
  BY DEF HttpInv, HttpType
<1>2. CASE s = "none" \/ waiters[s] = <<>>
  <2>1. request' = [request EXCEPT ![c] = after]
    BY <1>2 DEF ReleaseAndGoOn
  <2>2. QED
    BY <1>1, <2>1 DEF SameIdle
<1>3. CASE s # "none" /\ waiters[s] # <<>>
  <2>1. s \in Semaphores /\ limit[s] > 0
    BY <1>3 DEF HttpInv, HttpType, SemaphoreOf, Semaphores
  <2>2. Kept(s) /\ waiters[s] \in Seq(HttpCalls)
    BY <1>1, <2>1 DEF HttpInv
  <2>3. Head(waiters[s]) \in Waiting(s)
    BY <1>3, <2>2, Dequeued DEF Kept
  <2>4. PICK h \in HttpCalls : h = Head(waiters[s]) /\ request[h].at = "waiting"
    BY <2>3 DEF Waiting
  <2>5. request' = [request EXCEPT ![c] = after, ![h].at = "sending"]
    BY <1>3, <2>4 DEF ReleaseAndGoOn
  <2>6. h # c
    BY <2>4
  <2>7. /\ request'[c] = after /\ request'[h].at = "sending"
        /\ \A d \in HttpCalls : d # c /\ d # h => request'[d] = request[d]
    BY <1>1, <2>5, <2>6 DEF RequestType
  <2>8. QED
    BY <2>4, <2>7 DEF SameIdle
<1>4. QED
  BY <1>2, <1>3

LEMMA HttpStepInv ==
  ASSUME HttpInv, NEW c \in HttpCalls, HttpStep(c)
  PROVE  HttpInv' /\ SameIdle
<1>1. CASE Start(c) \/ BackOffOver(c)
  <2>1. Acquire(c) /\ Off(c) /\ request[c].at # "idle"
    BY <1>1 DEF Start, BackOffOver, Off
  <2>2. QED
    BY <2>1, AcquireHttpInv, AcquireIdle
<1>2. ASSUME request[c].at = "sending", NEW after \in RequestType,
             after.at \in {"sleeping", "answered", "refused"}, ReleaseAndGoOn(c, after)
      PROVE  HttpInv' /\ SameIdle
  BY <1>2, ReleaseHttpInv, ReleaseIdle
<1>3. ASSUME NEW status \in Statuses, Answered(c, status) PROVE HttpInv' /\ SameIdle
  <2> DEFINE end == IF status = "ok" THEN "answered" ELSE "refused"
             after == IF status \in RetryStatuses(request[c].kind) THEN TryAgainOr(c, end)
                      ELSE Over(end)
  <2>1. end \in Ends
    BY DEF Ends
  <2>2. request[c].at = "sending" /\ ReleaseAndGoOn(c, after)
    BY <1>3 DEF Answered
  <2>3. after \in RequestType /\ after.at \in {"sleeping", "answered", "refused"}
    <3> HIDE DEF end
    <3> QED BY <2>1, AfterAttempt DEF Ends
  <2>4. PICK a : a = after
    OBVIOUS
  <2>5. ReleaseAndGoOn(c, a)
    <3> HIDE DEF after
    <3> QED BY <2>2, <2>4
  <2> HIDE DEF after
  <2>6. QED
    BY <1>2, <2>2, <2>3, <2>4, <2>5
<1>4. CASE RequestFailed(c)
  <2>1. "refused" \in Ends
    BY DEF Ends
  <2>2. PICK a : a = TryAgainOr(c, "refused")
    OBVIOUS
  <2>3. ReleaseAndGoOn(c, a) /\ request[c].at = "sending"
    BY <1>4, <2>2 DEF RequestFailed
  <2>4. QED
    BY <1>2, <2>1, <2>2, <2>3, AfterAttempt
<1>5. CASE RequestBroken(c)
  <2>1. "refused" \in Ends
    BY DEF Ends
  <2>2. PICK a : a = Over("refused")
    OBVIOUS
  <2>3. ReleaseAndGoOn(c, a) /\ request[c].at = "sending"
    BY <1>5, <2>2 DEF RequestBroken
  <2>4. QED
    BY <1>2, <2>1, <2>2, <2>3, AfterAttempt
<1>6. QED
  BY <1>1, <1>3, <1>4, <1>5 DEF HttpStep

-----------------------------------------------------------------------------
(* The searches *)

SearchType ==
    [at : {"idle", "asking", "fetching", "returned", "raised", "keyless"},
     initial : Seq(STRING), attempted : SUBSET STRING, key : STRING \cup {"none"},
     hits : Nat]

\* A request is begun by the search it belongs to, and by one step of it only.
Unbegun ==
    \A s \in Searches :
        /\ search[s].at = "idle" => search[s].attempted = {} /\ request[<<s, 0>>].at = "idle"
        /\ search[s].at \in {"idle", "asking"} =>
              \A h \in 1 .. MaxHits : request[<<s, h>>].at = "idle"

SearchInv ==
    /\ search \in [Searches -> SearchType]
    /\ Unbegun

LEMMA CallsOf ==
  ASSUME NEW s \in Searches
  PROVE  <<s, 0>> \in HttpCalls /\ \A h \in 1 .. MaxHits : <<s, h>> \in HttpCalls /\ h # 0
BY SerperAssumption

LEMMA NewRequestType == \A kind \in Kinds : NewRequest(kind) \in RequestType /\ NewRequest(kind).at = "ready"
BY DEF NewRequest, RequestType, Kinds

-----------------------------------------------------------------------------
(* The pool of keys *)

LEMMA LeastIndex ==
  ASSUME NEW S, S \subseteq Nat, S # {}
  PROVE  Min(S) \in S
<1>1. \E x \in S : \A y \in S : ~ (<<y, x>> \in OpToRel(<, Nat))
  BY NatLessThanWellFounded, WFMin
<1>2. PICK x \in S : \A y \in S : ~ (<<y, x>> \in OpToRel(<, Nat))
  BY <1>1
<1>3. \A y \in S : ~ (y < x)
  BY <1>2 DEF OpToRel
<1>4. \A y \in S : x <= y
  BY <1>3
<1>5. QED
  BY <1>4 DEF Min

\* Taking the first key of its kind out leaves all others.
LEMMA Removed ==
  ASSUME NEW S, NEW ks \in Seq(S), NEW e \in ToSet(ks)
  PROVE  /\ RemoveFirst(ks, e) \in Seq(S)
         /\ ToSet(RemoveFirst(ks, e)) \subseteq ToSet(ks)
         /\ ToSet(ks) \ {e} \subseteq ToSet(RemoveFirst(ks, e))
<1>1. PICK n \in Nat : n = Len(ks) /\ DOMAIN ks = 1 .. n
  OBVIOUS
<1> DEFINE I == {i \in 1 .. Len(ks) : ks[i] = e}
<1>2. I # {} /\ I \subseteq Nat
  BY <1>1 DEF ToSet
<1>3. PICK k \in 1 .. n : k = Min(I) /\ ks[k] = e
  <2>1. Min(I) \in I
    <3> HIDE DEF I
    <3> QED BY <1>2, LeastIndex
  <2>2. QED
    BY <1>1, <2>1
<1>4. RemoveFirst(ks, e) = SubSeq(ks, 1, k - 1) \o SubSeq(ks, k + 1, n)
  <2>1. \E i \in 1 .. Len(ks) : ks[i] = e
    BY <1>2
  <2>2. RemoveFirst(ks, e) = RemoveAt(ks, IF I # {} THEN Min(I) ELSE 0)
    BY <2>1 DEF RemoveFirst, SelectInSeq
  <2>3. QED
    BY <1>1, <1>2, <1>3, <2>2 DEF RemoveAt
<1> DEFINE a == SubSeq(ks, 1, k - 1)
           b == SubSeq(ks, k + 1, n)
           r == a \o b
<1>5. a \in Seq(S) /\ Len(a) = k - 1 /\ \A i \in 1 .. k - 1 : a[i] = ks[i]
  BY <1>1
<1>6. b \in Seq(S) /\ Len(b) = n - k /\ \A i \in 1 .. n - k : b[i] = ks[k + i]
  BY <1>1
<1>7. /\ r \in Seq(S) /\ Len(r) = n - 1
      /\ \A i \in 1 .. k - 1 : r[i] = ks[i]
      /\ \A i \in k .. n - 1 : r[i] = ks[i + 1]
  <2> HIDE DEF a, b
  <2>1. r \in Seq(S) /\ Len(r) = n - 1
    <3>1. r \in Seq(S) /\ Len(r) = Len(a) + Len(b)
      BY <1>5, <1>6
    <3>2. Len(a) + Len(b) = n - 1
      BY <1>5, <1>6
    <3>3. QED
      BY <3>1, <3>2
  <2>2. ASSUME NEW i \in 1 .. k - 1 PROVE r[i] = ks[i]
    BY <1>5, <1>6
  <2>3. ASSUME NEW i \in k .. n - 1 PROVE r[i] = ks[i + 1]
    <3>1. PICK j \in 1 .. n - k : i = (k - 1) + j
      <4>1. i - (k - 1) \in 1 .. n - k /\ i = (k - 1) + (i - (k - 1))
        OBVIOUS
      <4>2. QED
        BY <4>1
    <3>2. r[i] = b[j]
      BY <1>5, <1>6, <3>1
    <3>3. k + j = i + 1
      BY <3>1
    <3>4. QED
      BY <1>6, <3>2, <3>3
  <2>4. QED
    BY <2>1, <2>2, <2>3
<1> HIDE DEF r
<1>8. DOMAIN r = 1 .. n - 1
  BY <1>7
<1>9. ASSUME NEW x \in ToSet(r) PROVE x \in ToSet(ks)
  <2>1. PICK i \in 1 .. n - 1 : x = r[i]
    BY <1>8 DEF ToSet
  <2>2. (i \in 1 .. k - 1 /\ i \in 1 .. n) \/ (i \in k .. n - 1 /\ i + 1 \in 1 .. n)
    OBVIOUS
  <2>3. QED
    BY <1>1, <1>7, <2>1, <2>2 DEF ToSet
<1>10. ASSUME NEW x \in ToSet(ks), x # e PROVE x \in ToSet(r)
  <2>1. PICK i \in 1 .. n : x = ks[i] /\ i # k
    BY <1>1, <1>3, <1>10 DEF ToSet
  <2>2. CASE i < k
    <3>1. i \in 1 .. k - 1 /\ i \in 1 .. n - 1
      BY <2>2
    <3>2. QED
      BY <1>7, <1>8, <2>1, <3>1 DEF ToSet
  <2>3. CASE i > k
    <3>1. i - 1 \in k .. n - 1 /\ (i - 1) + 1 = i /\ i - 1 \in 1 .. n - 1
      BY <2>3
    <3>2. r[i - 1] = x
      BY <1>7, <2>1, <3>1
    <3>3. QED
      BY <1>8, <3>1, <3>2 DEF ToSet
  <2>4. QED
    BY <2>1, <2>2, <2>3
<1>11. QED
  BY <1>4, <1>7, <1>9, <1>10 DEF r

PoolType == [keys : Seq(STRING), index : Nat]

LEMMA KeyRemoved ==
  ASSUME NEW pool \in PoolType, NEW key
  PROVE  /\ RemoveKey(pool, key) \in PoolType
         /\ ToSet(RemoveKey(pool, key).keys) \subseteq ToSet(pool.keys)
         /\ ToSet(pool.keys) \ {key} \subseteq ToSet(RemoveKey(pool, key).keys)
<1>1. pool.keys \in Seq(STRING) /\ pool.index \in Nat
  BY DEF PoolType
<1>2. CASE key \notin ToSet(pool.keys)
  BY <1>2 DEF RemoveKey
<1>3. CASE key \in ToSet(pool.keys)
  <2> DEFINE left == RemoveFirst(pool.keys, key)
  <2>1. /\ left \in Seq(STRING) /\ ToSet(left) \subseteq ToSet(pool.keys)
        /\ ToSet(pool.keys) \ {key} \subseteq ToSet(left)
    BY <1>1, <1>3, Removed
  <2>2. RemoveKey(pool, key) =
          [keys |-> left, index |-> IF left = <<>> THEN 0 ELSE pool.index % Len(left)]
    BY <1>3 DEF RemoveKey
  <2> HIDE DEF left
  <2>3. PICK i \in Nat : i = IF left = <<>> THEN 0 ELSE pool.index % Len(left)
    <3>1. left # <<>> => Len(left) \in Nat /\ Len(left) > 0
      BY <2>1, NoneOf
    <3>2. QED
      BY <1>1, <3>1
  <2>4. RemoveKey(pool, key) = [keys |-> left, index |-> i]
    BY <2>2, <2>3
  <2>5. RemoveKey(pool, key) \in PoolType /\ RemoveKey(pool, key).keys = left
    BY <2>1, <2>4 DEF PoolType
  <2>6. QED
    BY <2>1, <2>5
<1>4. QED
  BY <1>2, <1>3

LEMMA KeyTaken ==
  ASSUME NEW pool \in PoolType, pool.keys # <<>>
  PROVE  /\ NextKey(pool) \in ToSet(pool.keys) /\ NextKey(pool) \in STRING
         /\ Rotated(pool) \in PoolType /\ Rotated(pool).keys = pool.keys
<1>1. pool.keys \in Seq(STRING) /\ pool.index \in Nat
  BY DEF PoolType
<1>2. PICK n \in Nat : n = Len(pool.keys) /\ n > 0
  BY <1>1, NoneOf
<1>3. PICK i \in 1 .. n : i = (pool.index % n) + 1
  <2>1. pool.index % n \in 0 .. n - 1
    BY <1>1, <1>2
  <2>2. QED
    BY <2>1
<1>4. NextKey(pool) = pool.keys[i] /\ i \in DOMAIN pool.keys
  BY <1>1, <1>2, <1>3 DEF NextKey
<1>5. NextKey(pool) \in ToSet(pool.keys) /\ NextKey(pool) \in STRING
  BY <1>1, <1>4 DEF ToSet
<1>6. PICK j \in Nat : j = (pool.index + 1) % n
  <2>1. (pool.index + 1) % n \in 0 .. n - 1
    BY <1>1, <1>2
  <2>2. QED
    BY <2>1
<1>7. Rotated(pool) = [pool EXCEPT !.index = j]
  BY <1>2, <1>6 DEF Rotated
<1>8. QED
  BY <1>5, <1>7 DEF PoolType

-----------------------------------------------------------------------------
(* The keys and the searches *)

\* A search that asks with a key: those it tried before have failed, and
\* whatever is left in the pool was there when it began.
Trying(s) ==
    /\ ToSet(search[s].initial) \subseteq ToSet(ApiKeys)
    /\ ToSet(keyPool.keys) \subseteq ToSet(search[s].initial)
    /\ search[s].attempted \subseteq ToSet(search[s].initial)
    /\ search[s].attempted \ {search[s].key} \subseteq spent

KeysInv ==
    source = "google" =>
        /\ ToSet(ApiKeys) \ spent \subseteq ToSet(keyPool.keys)
        /\ ToSet(keyPool.keys) \subseteq ToSet(ApiKeys)
        /\ \A s \in Searches :
              /\ search[s].at = "asking" => Trying(s)
              /\ search[s].at = "keyless" => ToSet(search[s].initial) \subseteq spent

PaperInv == HttpInv /\ SearchInv /\ keyPool \in PoolType /\ KeysInv

LEMMA PaperInvKeys == PaperInv => NoKeySkipped
BY DEF PaperInv, KeysInv, NoKeySkipped

LEMMA NoSearchType == \A how \in {"idle", "returned", "raised"} :
                         [NoSearch EXCEPT !.at = how] \in SearchType
                         /\ [NoSearch EXCEPT !.at = how].at = how
<1> SUFFICES ASSUME NEW how \in {"idle", "returned", "raised"}
             PROVE  [NoSearch EXCEPT !.at = how] \in SearchType
                    /\ [NoSearch EXCEPT !.at = how].at = how
  OBVIOUS
<1>1. PICK none \in Seq(STRING) : none = <<>>
  <2>1. <<>> \in Seq(STRING)
    OBVIOUS
  <2>2. QED
    BY <2>1, Zenon
<1>2. PICK tried \in SUBSET STRING : tried = {}
  OBVIOUS
<1>3. [NoSearch EXCEPT !.at = how] =
        [at |-> how, initial |-> none, attempted |-> tried, key |-> "none", hits |-> 0]
  <2>1. PICK old : old = NoSearch
    OBVIOUS
  <2>2. old = [at |-> "idle", initial |-> none, attempted |-> tried, key |-> "none", hits |-> 0]
    BY <1>1, <1>2, <2>1, Zenon DEF NoSearch
  <2>3. QED
    BY <2>1, <2>2
<1>4. QED
  BY <1>3 DEF SearchType

LEMMA InitPaperInv == SearchInit => PaperInv
<1> SUFFICES ASSUME SearchInit PROVE PaperInv
  OBVIOUS
<1>1. HttpInv
  BY InitHttpInv DEF SearchInit
<1>2. NoSearch \in SearchType /\ NoSearch.at = "idle"
  <2>1. [NoSearch EXCEPT !.at = "idle"] = NoSearch
    BY DEF NoSearch
  <2>2. QED
    BY <2>1, NoSearchType
<1>3. \A s \in Searches : search[s] = NoSearch /\ search[s].attempted = {}
  BY DEF SearchInit, NoSearch
<1>4. \A c \in HttpCalls : request[c].at = "idle"
  BY DEF SearchInit, HttpInit, NoRequest
<1>5. Unbegun
  BY <1>3, <1>4, CallsOf DEF Unbegun
<1>6. SearchInv
  BY <1>2, <1>5 DEF SearchInv, SearchInit
<1>7. keyPool \in PoolType /\ keyPool.keys = ApiKeys /\ spent = {}
  BY SerperAssumption DEF SearchInit, PoolType
<1>8. KeysInv
  BY <1>2, <1>3, <1>7 DEF KeysInv
<1>9. QED
  BY <1>1, <1>6, <1>7, <1>8 DEF PaperInv

\* A sequence with as many keys tried as it has entries has had all of them tried.
LEMMA AllTried ==
  ASSUME NEW ks \in Seq(STRING), NEW T \in SUBSET ToSet(ks), ~(Cardinality(T) < Len(ks))
  PROVE  T = ToSet(ks)
<1>1. PICK n \in Nat : n = Len(ks) /\ DOMAIN ks = 1 .. n
  OBVIOUS
<1> DEFINE S == ToSet(ks)
<1>2. S = {ks[i] : i \in 1 .. n}
  BY <1>1 DEF ToSet
<1>3. ks \in Surjection(1 .. n, S)
  <2>1. ks \in [1 .. n -> S]
    BY <1>1, <1>2
  <2>2. \A x \in S : \E i \in 1 .. n : ks[i] = x
    BY <1>2
  <2>3. QED
    BY <2>1, <2>2 DEF Surjection
<1> HIDE DEF S
<1>4. IsFiniteSet(1 .. n) /\ Cardinality(1 .. n) = n
  <2>1. 1 \in Int /\ n \in Int
    OBVIOUS
  <2>2. IsFiniteSet(1 .. n) /\ Cardinality(1 .. n) = IF 1 > n THEN 0 ELSE n - 1 + 1
    BY <2>1, FS_Interval
  <2>3. QED
    BY <2>2
<1>5. IsFiniteSet(S) /\ Cardinality(S) <= n
  BY <1>3, <1>4, FS_Surjection
<1>6. T \in SUBSET S
  BY DEF S
<1>7. /\ Cardinality(T) <= Cardinality(S) /\ (Cardinality(S) = Cardinality(T) => S = T)
      /\ Cardinality(S) \in Nat /\ Cardinality(T) \in Nat
  BY <1>5, <1>6, FS_Subset, FS_CardinalityType
<1>8. Cardinality(S) = Cardinality(T)
  BY <1>1, <1>5, <1>7
<1>9. QED
  BY <1>7, <1>8 DEF S

\* One search changes, the others see a smaller pool and more keys spent.
LEMMA OthersTry ==
  ASSUME PaperInv, NEW s \in Searches, NEW new \in SearchType,
         search' = [search EXCEPT ![s] = new],
         source' = source, spent \subseteq spent',
         keyPool' \in PoolType, ToSet(keyPool'.keys) \subseteq ToSet(keyPool.keys),
         source = "google" =>
            /\ ToSet(ApiKeys) \ spent' \subseteq ToSet(keyPool'.keys)
            /\ new.at = "asking" => Trying(s)'
            /\ new.at = "keyless" => ToSet(new.initial) \subseteq spent'
  PROVE  KeysInv' /\ search' \in [Searches -> SearchType]
<1>1. search' \in [Searches -> SearchType] /\ search'[s] = new
      /\ \A t \in Searches : t # s => search'[t] = search[t]
  BY DEF PaperInv, SearchInv
<1>2. ASSUME source = "google", NEW t \in Searches, t # s
      PROVE  /\ search'[t].at = "asking" => Trying(t)'
             /\ search'[t].at = "keyless" => ToSet(search'[t].initial) \subseteq spent'
  <2>1. search'[t] = search[t]
    BY <1>1, <1>2
  <2>2. /\ search[t].at = "asking" => Trying(t)
        /\ search[t].at = "keyless" => ToSet(search[t].initial) \subseteq spent
    BY <1>2 DEF PaperInv, KeysInv
  <2>3. QED
    BY <2>1, <2>2 DEF Trying
<1>3. ASSUME source = "google" PROVE ToSet(keyPool'.keys) \subseteq ToSet(ApiKeys)
  BY <1>3 DEF PaperInv, KeysInv
<1>4. QED
  BY <1>1, <1>2, <1>3 DEF KeysInv

LEMMA SearchEndsInv ==
  ASSUME PaperInv, NEW s \in Searches, NEW how \in {"returned", "raised"}, SearchEnds(s, how)
  PROVE  PaperInv'
<1> DEFINE new == [NoSearch EXCEPT !.at = how]
<1>1. new \in SearchType /\ new.at = how
  BY NoSearchType
<1>2. search' = [search EXCEPT ![s] = new] /\ UNCHANGED <<httpVars, source, keyPool, spent>>
  BY DEF SearchEnds
<1> HIDE DEF new
<1>3. KeysInv' /\ search' \in [Searches -> SearchType]
  BY <1>1, <1>2, OthersTry DEF PaperInv, KeysInv
<1>4. HttpInv'
  BY <1>2, RequestsBegun DEF PaperInv, httpVars, HttpInv, HttpType
<1>5. Unbegun'
  BY <1>1, <1>2 DEF PaperInv, SearchInv, Unbegun, httpVars
<1>6. QED
  BY <1>2, <1>3, <1>4, <1>5 DEF PaperInv, SearchInv

\* One round of the loop over the keys.
LEMMA TryKeyInv ==
  ASSUME PaperInv, source = "google", UNCHANGED <<limit, slots, waiters, source>>,
         NEW s \in Searches, NEW state \in SearchType, NEW pool \in PoolType,
         search[s].at \in {"idle", "asking"}, Off(Query(s)), spent \subseteq spent',
         ToSet(pool.keys) \subseteq ToSet(keyPool.keys),
         ToSet(ApiKeys) \ spent' \subseteq ToSet(pool.keys),
         ToSet(pool.keys) \subseteq ToSet(state.initial),
         ToSet(state.initial) \subseteq ToSet(ApiKeys),
         state.attempted \subseteq ToSet(state.initial), state.attempted \subseteq spent',
         TryKey(s, state, pool)
  PROVE  PaperInv'
<1>1. /\ request \in [HttpCalls -> RequestType]
      /\ search \in [Searches -> SearchType] /\ Unbegun
      /\ HttpInv
  BY DEF PaperInv, SearchInv, HttpInv, HttpType
<1>2. PICK c \in HttpCalls : c = Query(s) /\ c = <<s, 0>>
  BY CallsOf DEF Query
<1>3. CASE MayTry(state, pool)
  <2>1. pool.keys # <<>>
    BY <1>3 DEF MayTry
  <2>2. PICK k \in STRING : k = NextKey(pool) /\ k \in ToSet(pool.keys)
    BY <2>1, KeyTaken
  <2>3. PICK rot \in PoolType : rot = Rotated(pool) /\ rot.keys = pool.keys
    BY <2>1, KeyTaken
  <2>4. PICK tried \in SUBSET STRING : tried = state.attempted \cup {k}
    BY DEF SearchType
  <2>5. PICK new : new = [state EXCEPT !.at = "asking", !.key = k, !.attempted = tried]
    OBVIOUS
  <2>6. /\ new \in SearchType /\ new.at = "asking" /\ new.key = k /\ new.attempted = tried
        /\ new.initial = state.initial
    BY <2>5 DEF SearchType
  <2>7. PICK r : r = NewRequest("serper")
    OBVIOUS
  <2>8. r \in RequestType /\ r.at = "ready"
    BY <2>7, NewRequestType DEF Kinds
  <2>9. /\ search' = [search EXCEPT ![s] = new]
        /\ keyPool' = rot
        /\ request' = [request EXCEPT ![c] = r]
    BY <1>2, <1>3, <2>2, <2>3, <2>4, <2>5, <2>7 DEF TryKey
  <2>10. search'[s] = new /\ \A t \in Searches : t # s => search'[t] = search[t]
    BY <1>1, <2>9
  <2>11. Trying(s)'
    BY <2>2, <2>3, <2>4, <2>6, <2>9, <2>10 DEF Trying
  <2>12. KeysInv' /\ search' \in [Searches -> SearchType]
    BY <2>3, <2>6, <2>9, <2>11, OthersTry
  <2>13. /\ request' \in [HttpCalls -> RequestType]
         /\ \A d \in HttpCalls : d # c => request'[d] = request[d]
         /\ request'[c].at = "ready"
    BY <1>1, <2>8, <2>9
  <2>14. HttpInv'
    BY <1>1, <1>2, <2>13, RequestsBegun
  <2>15. Unbegun'
    <3>1. \A t \in Searches : t # s => search'[t] = search[t] /\ <<t, 0>> # c
      BY <1>2, <2>10
    <3>2. ASSUME NEW t \in Searches, NEW h \in 1 .. MaxHits
          PROVE  <<t, h>> # c /\ <<t, h>> \in HttpCalls
      <4>1. <<t, h>> \in HttpCalls /\ h # 0
        BY CallsOf
      <4>2. <<t, h>> # <<s, 0>>
        BY <4>1
      <4>3. QED
        BY <1>2, <4>1, <4>2
    <3>3. \A t \in Searches : <<t, 0>> \in HttpCalls
      BY CallsOf
    <3>4. ASSUME NEW t \in Searches, search'[t].at \in {"idle", "asking"}, NEW h \in 1 .. MaxHits
          PROVE  request'[<<t, h>>].at = "idle"
      <4>1. search[t].at \in {"idle", "asking"}
        BY <2>10, <3>4
      <4>2. request[<<t, h>>].at = "idle"
        BY <1>1, <4>1 DEF Unbegun
      <4>3. QED
        BY <2>13, <3>2, <4>2
    <3>5. ASSUME NEW t \in Searches, search'[t].at = "idle"
          PROVE  search'[t].attempted = {} /\ request'[<<t, 0>>].at = "idle"
      <4>1. t # s /\ search'[t] = search[t]
        BY <2>6, <2>10, <3>5
      <4>2. search[t].attempted = {} /\ request[<<t, 0>>].at = "idle"
        BY <1>1, <3>5, <4>1 DEF Unbegun
      <4>3. QED
        BY <2>13, <3>1, <3>3, <4>1, <4>2
    <3>6. QED
      BY <3>4, <3>5 DEF Unbegun
  <2>16. QED
    BY <2>3, <2>9, <2>12, <2>14, <2>15 DEF PaperInv, SearchInv
<1>4. CASE ~ MayTry(state, pool)
  <2>1. PICK new : new = [state EXCEPT !.at = "keyless"]
    OBVIOUS
  <2>2. new \in SearchType /\ new.at = "keyless" /\ new.initial = state.initial
    BY <2>1 DEF SearchType
  <2>3. search' = [search EXCEPT ![s] = new] /\ keyPool' = pool /\ request' = request
    BY <1>4, <2>1 DEF TryKey
  <2>4. ToSet(state.initial) \subseteq spent'
    <3>1. CASE pool.keys = <<>>
      <4>1. ToSet(pool.keys) = {}
        BY <3>1 DEF ToSet
      <4>2. QED
        BY <4>1
    <3>2. CASE ~ (Cardinality(state.attempted) < Len(state.initial))
      <4>1. state.initial \in Seq(STRING)
        BY DEF SearchType
      <4>2. state.attempted = ToSet(state.initial)
        BY <3>2, <4>1, AllTried
      <4>3. QED
        BY <4>2
    <3>3. QED
      BY <1>4, <3>1, <3>2 DEF MayTry
  <2>5. KeysInv' /\ search' \in [Searches -> SearchType]
    BY <2>2, <2>3, <2>4, OthersTry
  <2>6. search'[s] = new /\ \A t \in Searches : t # s => search'[t] = search[t]
    BY <1>1, <2>3
  <2>7. Unbegun'
    BY <1>1, <2>2, <2>3, <2>6 DEF Unbegun
  <2>8. HttpInv'
    BY <1>1, <2>3, RequestsBegun
  <2>9. QED
    BY <2>3, <2>5, <2>7, <2>8 DEF PaperInv, SearchInv
<1>5. QED
  BY <1>3, <1>4

\* The request of an idle search was never begun.
LEMMA BeginSearchInv ==
  ASSUME PaperInv, NEW s \in Searches, BeginSearch(s)
  PROVE  PaperInv'
<1>1. /\ request \in [HttpCalls -> RequestType]
      /\ search \in [Searches -> SearchType] /\ Unbegun
      /\ HttpInv /\ keyPool \in PoolType /\ KeysInv
  BY DEF PaperInv, SearchInv, HttpInv, HttpType
<1>2. /\ search[s].at = "idle" /\ search[s] \in SearchType
      /\ UNCHANGED <<limit, slots, waiters, source, spent>>
  BY <1>1 DEF BeginSearch
<1>3. PICK c \in HttpCalls : c = Query(s) /\ c = <<s, 0>>
  BY CallsOf DEF Query
<1>4. request[c].at = "idle"
  BY <1>1, <1>2, <1>3 DEF Unbegun
<1>5. CASE source = "google" /\ TryKey(s, [search[s] EXCEPT !.initial = keyPool.keys], keyPool)
  <2>1. PICK ks \in Seq(STRING) : ks = keyPool.keys
    BY <1>1 DEF PoolType
  <2>2. PICK state : state = [search[s] EXCEPT !.initial = ks]
    OBVIOUS
  <2>3. /\ state \in SearchType /\ state.initial = ks
        /\ state.attempted = search[s].attempted
    BY <1>2, <2>2 DEF SearchType
  <2>4. state.attempted = {}
    BY <1>1, <1>2, <2>3 DEF Unbegun
  <2>5. TryKey(s, state, keyPool)
    BY <1>5, <2>1, <2>2
  <2>6. ToSet(ApiKeys) \ spent \subseteq ToSet(keyPool.keys) /\ ToSet(keyPool.keys) \subseteq ToSet(ApiKeys)
    BY <1>1, <1>5 DEF KeysInv
  <2>7. PICK pool \in PoolType : pool = keyPool
    BY <1>1
  <2>8. Off(Query(s))
    BY <1>3, <1>4 DEF Off
  <2>9. QED
    BY <1>2, <1>5, <2>1, <2>3, <2>4, <2>5, <2>6, <2>7, <2>8, TryKeyInv
<1>6. CASE source = "local_db" /\ search' = [search EXCEPT ![s].at = "asking"]
           /\ request' = [request EXCEPT ![Query(s)] = NewRequest("paper")] /\ UNCHANGED keyPool
  <2>1. PICK r : r = NewRequest("paper")
    OBVIOUS
  <2>2. r \in RequestType /\ r.at = "ready"
    BY <2>1, NewRequestType DEF Kinds
  <2>3. /\ request' \in [HttpCalls -> RequestType]
        /\ \A d \in HttpCalls : d # c => request'[d] = request[d]
        /\ request'[c].at = "ready"
    BY <1>1, <1>3, <1>6, <2>1, <2>2
  <2>4. HttpInv'
    BY <1>1, <1>2, <1>4, <2>3, RequestsBegun DEF Off
  <2>5. /\ search' \in [Searches -> SearchType] /\ search'[s].at = "asking"
        /\ \A t \in Searches : t # s => search'[t] = search[t]
    BY <1>1, <1>6 DEF SearchType
  <2>6. Unbegun'
    <3>1. \A t \in Searches : t # s => <<t, 0>> # c
      BY <1>3
    <3>2. ASSUME NEW t \in Searches, NEW h \in 1 .. MaxHits
          PROVE  <<t, h>> # c /\ <<t, h>> \in HttpCalls
      <4>1. <<t, h>> \in HttpCalls /\ h # 0
        BY CallsOf
      <4>2. <<t, h>> # <<s, 0>>
        BY <4>1
      <4>3. QED
        BY <1>3, <4>1, <4>2
    <3>3. \A t \in Searches : <<t, 0>> \in HttpCalls
      BY CallsOf
    <3>4. QED
      BY <1>1, <1>2, <2>3, <2>5, <3>1, <3>2, <3>3 DEF Unbegun
  <2>7. KeysInv'
    BY <1>2, <1>6 DEF KeysInv
  <2>8. QED
    BY <1>1, <1>6, <2>4, <2>5, <2>6, <2>7 DEF PaperInv, SearchInv
<1>7. QED
  BY <1>5, <1>6 DEF BeginSearch

\* A key that failed leaves the pool and counts as spent.
LEMMA QueryRefusedInv ==
  ASSUME PaperInv, NEW s \in Searches, QueryRefused(s)
  PROVE  PaperInv'
<1>1. search[s] \in SearchType /\ keyPool \in PoolType /\ KeysInv
  BY DEF PaperInv, SearchInv
<1>2. search[s].at = "asking" /\ request[Query(s)].at = "refused"
  BY DEF QueryRefused
<1>3. CASE source = "local_db" /\ SearchEnds(s, "raised")
  BY <1>3, SearchEndsInv
<1>4. CASE /\ source = "google" /\ spent' = spent \cup {search[s].key}
           /\ TryKey(s, search[s], RemoveKey(keyPool, search[s].key))
           /\ UNCHANGED <<limit, slots, waiters, source>>
  <2>1. PICK state \in SearchType : state = search[s]
    BY <1>1
  <2>2. PICK pool \in PoolType :
          /\ pool = RemoveKey(keyPool, state.key)
          /\ ToSet(pool.keys) \subseteq ToSet(keyPool.keys)
          /\ ToSet(keyPool.keys) \ {state.key} \subseteq ToSet(pool.keys)
    BY <1>1, KeyRemoved
  <2>3. TryKey(s, state, pool) /\ spent' = spent \cup {state.key}
    BY <1>4, <2>1, <2>2
  <2>4. Trying(s)
    BY <1>1, <1>2, <1>4 DEF KeysInv
  <2>5. /\ ToSet(state.initial) \subseteq ToSet(ApiKeys)
        /\ ToSet(pool.keys) \subseteq ToSet(state.initial)
        /\ state.attempted \subseteq ToSet(state.initial)
        /\ state.attempted \subseteq spent'
    BY <2>1, <2>2, <2>3, <2>4 DEF Trying
  <2>6. ToSet(ApiKeys) \ spent' \subseteq ToSet(pool.keys)
    BY <1>1, <1>4, <2>2, <2>3 DEF KeysInv
  <2>7. Off(Query(s)) /\ spent \subseteq spent'
    BY <1>2, <2>3 DEF Off
  <2>8. QED
    BY <1>2, <1>4, <2>2, <2>3, <2>5, <2>6, <2>7, TryKeyInv
<1>5. QED
  BY <1>3, <1>4 DEF QueryRefused

\* The hits of a search are asked for at once.
LEMMA QueryAnsweredInv ==
  ASSUME PaperInv, NEW s \in Searches, QueryAnswered(s)
  PROVE  PaperInv'
<1>1. /\ request \in [HttpCalls -> RequestType]
      /\ search \in [Searches -> SearchType] /\ Unbegun
      /\ HttpInv /\ keyPool \in PoolType /\ KeysInv
  BY DEF PaperInv, SearchInv, HttpInv, HttpType
<1>2. search[s].at = "asking"
  BY DEF QueryAnswered
<1>3. CASE SearchEnds(s, "raised") \/ SearchEnds(s, "returned")
  BY <1>3, SearchEndsInv
<1>4. ASSUME UNCHANGED <<limit, slots, waiters, source, keyPool, spent>>, NEW n \in 0 .. MaxHits,
             search' = [search EXCEPT ![s] = [NoSearch EXCEPT !.at = "fetching", !.hits = n]],
             request' = [c \in HttpCalls |-> IF c \in {<<s, h>> : h \in 1 .. n}
                                             THEN NewRequest("detail") ELSE request[c]]
      PROVE  PaperInv'
  <2>1. n \in Nat /\ 1 .. n \subseteq 1 .. MaxHits
    BY SerperAssumption
  <2>2. PICK r : r = NewRequest("detail")
    OBVIOUS
  <2>3. r \in RequestType /\ r.at = "ready"
    BY <2>2, NewRequestType DEF Kinds
  <2>4. PICK H : H = {<<s, h>> : h \in 1 .. n}
    OBVIOUS
  <2>5. request' = [c \in HttpCalls |-> IF c \in H THEN r ELSE request[c]]
    BY <1>4, <2>2, <2>4
  <2>6. /\ request' \in [HttpCalls -> RequestType]
        /\ \A c \in HttpCalls : c \notin H => request'[c] = request[c]
        /\ \A c \in HttpCalls : c \in H => request'[c] = r
    BY <1>1, <2>3, <2>5
  <2>7. ASSUME NEW c \in HttpCalls, c \in H PROVE request[c].at = "idle"
    <3>1. PICK h \in 1 .. n : c = <<s, h>>
      BY <2>4, <2>7
    <3>2. QED
      BY <1>1, <1>2, <2>1, <3>1 DEF Unbegun
  <2>8. HttpInv'
    BY <1>1, <1>4, <2>3, <2>6, <2>7, RequestsBegun DEF Off
  <2>9. PICK base \in SearchType : base = [NoSearch EXCEPT !.at = "returned"]
    BY NoSearchType
  <2>10. PICK new : new = [base EXCEPT !.at = "fetching", !.hits = n]
    OBVIOUS
  <2>11. new = [NoSearch EXCEPT !.at = "fetching", !.hits = n]
    BY <2>9, <2>10 DEF NoSearch
  <2>12. new \in SearchType /\ new.at = "fetching"
    BY <2>1, <2>10 DEF SearchType
  <2>13. search' = [search EXCEPT ![s] = new]
    BY <1>4, <2>11
  <2>14. KeysInv' /\ search' \in [Searches -> SearchType]
    BY <1>1, <1>4, <2>12, <2>13, OthersTry DEF KeysInv
  <2>15. search'[s] = new /\ \A t \in Searches : t # s => search'[t] = search[t]
    BY <1>1, <2>13
  <2>16. ASSUME NEW t \in Searches, t # s, NEW h \in 0 .. MaxHits
         PROVE  request'[<<t, h>>] = request[<<t, h>>] /\ search'[t] = search[t]
    <3>1. <<t, h>> \in HttpCalls
      BY SerperAssumption
    <3>2. <<t, h>> \notin H
      BY <2>4, <2>16
    <3>3. QED
      BY <2>6, <2>15, <2>16, <3>1, <3>2
  <2>17. ASSUME NEW t \in Searches, search'[t].at \in {"idle", "asking"}
         PROVE  /\ t # s /\ search'[t] = search[t]
                /\ request'[<<t, 0>>] = request[<<t, 0>>]
                /\ \A h \in 1 .. MaxHits : request'[<<t, h>>] = request[<<t, h>>]
    <3>1. t # s
      BY <2>12, <2>15, <2>17
    <3>2. 0 \in 0 .. MaxHits /\ 1 .. MaxHits \subseteq 0 .. MaxHits
      BY SerperAssumption
    <3>3. QED
      BY <2>16, <3>1, <3>2
  <2>18. Unbegun'
    <3>1. ASSUME NEW t \in Searches, search'[t].at = "idle"
          PROVE  search'[t].attempted = {} /\ request'[<<t, 0>>].at = "idle"
      <4>1. search[t].attempted = {} /\ request[<<t, 0>>].at = "idle"
        BY <1>1, <2>17, <3>1 DEF Unbegun
      <4>2. QED
        BY <2>17, <3>1, <4>1
    <3>2. ASSUME NEW t \in Searches, search'[t].at \in {"idle", "asking"}, NEW h \in 1 .. MaxHits
          PROVE  request'[<<t, h>>].at = "idle"
      <4>1. request[<<t, h>>].at = "idle"
        BY <1>1, <2>17, <3>2 DEF Unbegun
      <4>2. QED
        BY <2>17, <3>2, <4>1
    <3>3. QED
      BY <3>1, <3>2 DEF Unbegun
  <2>19. QED
    BY <1>1, <1>4, <2>8, <2>14, <2>18 DEF PaperInv, SearchInv
<1>5. QED
  BY <1>3, <1>4 DEF QueryAnswered

LEMMA NextPaperInv == PaperInv /\ [SearchNext]_paperVars => PaperInv'
<1> SUFFICES ASSUME PaperInv, [SearchNext]_paperVars PROVE PaperInv'
  OBVIOUS
<1>1. ASSUME UNCHANGED searchVars, HttpInv', SameIdle PROVE PaperInv'
  <2>1. UNCHANGED <<source, keyPool, search, spent>>
    BY <1>1 DEF searchVars
  <2>2. Unbegun'
    <3>1. Unbegun
      BY DEF PaperInv, SearchInv
    <3>2. ASSUME NEW t \in Searches
          PROVE  /\ request[<<t, 0>>].at = "idle" => request'[<<t, 0>>].at = "idle"
                 /\ \A h \in 1 .. MaxHits :
                       request[<<t, h>>].at = "idle" => request'[<<t, h>>].at = "idle"
      BY <1>1, CallsOf DEF SameIdle
    <3>3. QED
      BY <2>1, <3>1, <3>2 DEF Unbegun
  <2>3. KeysInv'
    BY <2>1 DEF PaperInv, KeysInv, Trying
  <2>4. QED
    BY <1>1, <2>1, <2>2, <2>3 DEF PaperInv, SearchInv
<1>2. ASSUME NEW c \in HttpCalls, HttpStep(c), UNCHANGED searchVars PROVE PaperInv'
  BY <1>1, <1>2, HttpStepInv DEF PaperInv
<1>3. ASSUME NEW s \in Searches, DetailsFetched(s) PROVE PaperInv'
  <2>1. SearchEnds(s, "returned") \/ SearchEnds(s, "raised")
    BY <1>3 DEF DetailsFetched
  <2>2. QED
    BY <2>1, SearchEndsInv
<1>4. CASE UNCHANGED paperVars
  <2>1. UNCHANGED searchVars /\ UNCHANGED <<limit, slots, waiters, request>>
    BY <1>4 DEF paperVars, httpVars
  <2>2. HttpInv'
    BY <2>1, RequestsBegun DEF PaperInv, HttpInv, HttpType
  <2>3. SameIdle
    BY <2>1 DEF SameIdle
  <2>4. QED
    BY <1>1, <2>1, <2>2, <2>3
<1>5. QED
  BY <1>2, <1>3, <1>4, QueryRefusedInv, QueryAnsweredInv, BeginSearchInv DEF SearchNext, SearchWork

-----------------------------------------------------------------------------
(* The two loops side by side *)

LEMMA PaperInvAlways == CallSpec => []PaperInv
<1>1. CallInit => PaperInv
  BY InitPaperInv DEF CallInit
<1>2. PaperInv /\ [CallNext]_callVars => PaperInv'
  <2>1. CallNext \/ UNCHANGED callVars => [SearchNext]_paperVars
    BY DEF CallNext, RewardWorkerStep, RewardRouterStep, PaperStep, callVars
  <2>2. QED
    BY <2>1, NextPaperInv
<1>3. QED
  BY <1>1, <1>2, PTL DEF CallSpec

(* The same of a scoring beside which papers may be searched               *)
(* (RewardLoopWorker._post_request).                                       *)
THEOREM NorBesideSearches == CallSpec => []GivesUpWithReason
<1>1. CallInit => ScoringInv
  BY InitScoringInv DEF CallInit
<1>2. ScoringInv /\ [CallNext]_callVars => ScoringInv'
  <2>1. [CallNext]_callVars => [Next]_vars
    BY DEF CallNext, RewardWorkerStep, RewardRouterStep, PaperStep, Next, callVars
  <2>2. QED
    BY <2>1, NextScoringInv
<1>3. ScoringInv => GivesUpWithReason
  BY DEF ScoringInv
<1>4. QED
  BY <1>1, <1>2, <1>3, PTL DEF CallSpec

(* The semaphores of the paper service keep count, however many searches   *)
(* and requests run, fail, sleep and are begun again                       *)
(* (httpx_request_with_retry).                                             *)
THEOREM NoSlotLost == CallSpec => []SlotsKept
<1>1. PaperInv => SlotsKept
  BY HttpInvSlots DEF PaperInv
<1>2. QED
  BY <1>1, PaperInvAlways, PTL

(* For any list of configured keys, repeated ones included, and any number *)
(* of searches at once: none gives up while a key it began with has not    *)
(* failed, and no key leaves the pool that has not (ApiKeyPool,            *)
(* search_google_via_serper).                                              *)
THEOREM NoKeyLeftUntried == CallSpec => []NoKeySkipped
BY PaperInvAlways, PaperInvKeys, PTL
=============================================================================
