----------------------------- MODULE HttpRetry ------------------------------
(***************************************************************************)
(* Requests to the paper service and to Serper: httpx_request_with_retry,  *)
(* under the semaphores of PaperSearchClient.  A request waits for a slot, *)
(* is sent, gives the slot back, and after a failure that may pass sleeps  *)
(* before it is tried again.  The requests of all searches of an event     *)
(* loop run concurrently.  The service answers anything, or fails, or lets *)
(* the request time out.                                                   *)
(***************************************************************************)
EXTENDS Integers, SequencesExt, FiniteSets

CONSTANTS
    HttpCalls,      \* the requests that may be made
    HttpRetries,    \* max_retries
    Limits          \* numbers max_concurrency, max_detail_concurrency may have

ASSUME HttpAssumption == HttpRetries \in Nat /\ Limits \subseteq Nat

VARIABLES
    limit,     \* how many requests a semaphore lets pass; 0: there is none
    slots,     \* the value of each semaphore
    waiters,   \* requests waiting for each semaphore, first come first served
    request    \* where each request is

httpVars == <<limit, slots, waiters, request>>

Semaphores == {"general", "detail"}
Kinds == {"paper", "detail", "serper"}

NoRequest == [kind |-> "paper", at |-> "idle", tries |-> 0]

NewRequest(kind) == [kind |-> kind, at |-> "ready", tries |-> 0]

HttpInit ==
    /\ limit \in [Semaphores -> Limits]
    /\ slots = limit
    /\ waiters = [s \in Semaphores |-> <<>>]
    /\ request = [c \in HttpCalls |-> NoRequest]

\* Details have a semaphore of their own, or else share the general one;
\* Serper is asked without any.
SemaphoreOf(kind) ==
    LET named == IF kind = "detail" /\ limit["detail"] > 0 THEN "detail" ELSE "general"
    IN  IF kind = "serper" \/ limit[named] = 0 THEN "none" ELSE named

\* Classes of status codes: success, 503, the other codes Serper is asked
\* again for (429, 500, 502, 504), and codes nobody repeats.
Statuses == {"ok", "unavailable", "overloaded", "refused"}

RetryStatuses(kind) ==
    IF kind = "serper" THEN {"unavailable", "overloaded"} ELSE {"unavailable"}

----------------------------------------------------------------------------
\* await semaphore.acquire() and then client.request(...), up to its await.
Acquire(c) ==
    LET s == SemaphoreOf(request[c].kind)
    IN  /\ IF s = "none" \/ slots[s] > 0
           THEN request' = [request EXCEPT ![c].at = "sending"]
           ELSE request' = [request EXCEPT ![c].at = "waiting"]
        /\ slots' = IF s = "none" \/ slots[s] = 0 THEN slots ELSE [slots EXCEPT ![s] = @ - 1]
        /\ waiters' = IF s = "none" \/ slots[s] > 0 THEN waiters
                      ELSE [waiters EXCEPT ![s] = Append(@, c)]
        /\ UNCHANGED limit

\* Requests that were begun reach their first await before any answer does.
Start(c) == request[c].at = "ready" /\ Acquire(c)

NoneReady == \A c \in HttpCalls : request[c].at # "ready"

\* semaphore.release() of c, which goes on with `after': the slot goes to the
\* request that has waited longest.
ReleaseAndGoOn(c, after) ==
    LET s == SemaphoreOf(request[c].kind)
    IN  /\ IF s = "none" \/ waiters[s] = <<>>
           THEN request' = [request EXCEPT ![c] = after]
           ELSE request' = [request EXCEPT ![c] = after, ![Head(waiters[s])].at = "sending"]
        /\ waiters' = IF s = "none" \/ waiters[s] = <<>> THEN waiters
                      ELSE [waiters EXCEPT ![s] = Tail(@)]
        /\ slots' = IF s = "none" \/ waiters[s] # <<>> THEN slots
                    ELSE [slots EXCEPT ![s] = @ + 1]
        /\ UNCHANGED limit

Over(end) == [NoRequest EXCEPT !.at = end]

\* What follows an attempt that may be repeated, unless it was the last one.
TryAgainOr(c, end) ==
    IF request[c].tries < HttpRetries
    THEN [request[c] EXCEPT !.at = "sleeping", !.tries = @ + 1]
    ELSE Over(end)

\* The caller raises for every status that is no success.
Answered(c, status) ==
    /\ request[c].at = "sending"
    /\ LET end == IF status = "ok" THEN "answered" ELSE "refused"
       IN  ReleaseAndGoOn(c, IF status \in RetryStatuses(request[c].kind)
                             THEN TryAgainOr(c, end)
                             ELSE Over(end))

\* Defect: release is not in a finally.
RequestFailedHolding(c) ==
    /\ request[c].at = "sending"
    /\ request' = [request EXCEPT ![c] = TryAgainOr(c, "refused")]
    /\ UNCHANGED <<limit, slots, waiters>>

\* httpx.RequestError or TimeoutException.
RequestFailed(c) ==
    /\ request[c].at = "sending"
    /\ ReleaseAndGoOn(c, TryAgainOr(c, "refused"))

\* Any other exception ends the call.
RequestBroken(c) ==
    /\ request[c].at = "sending"
    /\ ReleaseAndGoOn(c, Over("refused"))

\* asyncio.sleep is over, be it the back-off or what Retry-After asked for.
BackOffOver(c) == request[c].at = "sleeping" /\ Acquire(c)

HttpStep(c) ==
    \/ Start(c)
    \/ /\ NoneReady
       /\ \/ \E status \in Statuses : Answered(c, status)
          \/ RequestFailed(c)
          \/ RequestBroken(c)
          \/ BackOffOver(c)

----------------------------------------------------------------------------
Sending(s) == {c \in HttpCalls : request[c].at = "sending" /\ SemaphoreOf(request[c].kind) = s}

(* No slot is lost and none is given back twice, whatever becomes of the   *)
(* attempts: the free slots and the requests under way add up to the limit; *)
(* a request that sleeps holds none, and nobody waits while one is free    *)
(* (httpx_request_with_retry, whose release is in a finally inside of the  *)
(* attempt).                                                               *)
SlotsKept ==
    \A s \in Semaphores : limit[s] > 0 =>
        /\ slots[s] + Cardinality(Sending(s)) = limit[s]
        /\ waiters[s] # <<>> => slots[s] = 0
        /\ {c \in HttpCalls : request[c].at = "waiting" /\ SemaphoreOf(request[c].kind) = s}
             = ToSet(waiters[s])
=============================================================================
