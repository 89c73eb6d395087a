---------------------------- MODULE SerperSearch ----------------------------
(***************************************************************************)
(* Searches of InferencePaperClient, several at a time.  The local service *)
(* is asked once.  A Google search asks Serper with a key of the shared    *)
(* ApiKeyPool, takes a key that failed out of the pool and goes on with    *)
(* the next one; then it asks the local service for the details of every   *)
(* hit at once.  Between two awaits a search is not interrupted.           *)
(***************************************************************************)
EXTENDS HttpRetry

CONSTANTS
    Searches,
    ApiKeys,    \* the configured keys, a sequence
    MaxHits     \* bound: hits with an arXiv id in one answer

ASSUME SerperAssumption ==
    /\ MaxHits \in Nat /\ ApiKeys \in Seq(STRING) \ {<<>>}
    /\ HttpCalls = Searches \X (0 .. MaxHits)

VARIABLES
    source,   \* search_source
    keyPool,  \* ApiKeyPool: keys and current_index
    search,   \* where each search is
    spent     \* history: the keys a request has failed with

searchVars == <<source, keyPool, search, spent>>
paperVars == <<httpVars, searchVars>>

\* The request of the search itself, and those for its hits.
Query(s) == <<s, 0>>
Details(s) == {<<s, h>> : h \in 1 .. search[s].hits}

NoSearch == [at |-> "idle", initial |-> <<>>, attempted |-> {}, key |-> "none", hits |-> 0]

SearchInit ==
    /\ HttpInit
    /\ source \in {"local_db", "google"}
    /\ keyPool = [keys |-> ApiKeys, index |-> 0]
    /\ search = [s \in Searches |-> NoSearch]
    /\ spent = {}

----------------------------------------------------------------------------
\* ApiKeyPool.get_next_key of a pool that is not empty
NextKey(pool) == pool.keys[(pool.index % Len(pool.keys)) + 1]

Rotated(pool) == [pool EXCEPT !.index = (@ + 1) % Len(pool.keys)]

RemoveKey(pool, key) ==
    IF key \notin ToSet(pool.keys) THEN pool
    ELSE LET left == RemoveFirst(pool.keys, key)
         IN  [keys |-> left, index |-> IF left = <<>> THEN 0 ELSE pool.index % Len(left)]

\* Defect: the loop is bounded by the keys that are left.
MayTryLeft(state, pool) == Cardinality(state.attempted) < Len(pool.keys)

MayTry(state, pool) == Cardinality(state.attempted) < Len(state.initial) /\ pool.keys # <<>>

\* One round of the loop over the keys: the request with the next key, or, when
\* no key is left to try, an exception.
TryKey(s, state, pool) ==
    IF MayTry(state, pool)
    THEN /\ search' = [search EXCEPT ![s] = [state EXCEPT !.at = "asking", !.key = NextKey(pool),
                                                          !.attempted = @ \cup {NextKey(pool)}]]
         /\ keyPool' = Rotated(pool)
         /\ request' = [request EXCEPT ![Query(s)] = NewRequest("serper")]
    ELSE /\ search' = [search EXCEPT ![s] = [state EXCEPT !.at = "keyless"]]
         /\ keyPool' = pool
         /\ UNCHANGED request

\* The snapshot of an empty pool is refused at once, as TryKey does.
BeginSearch(s) ==
    /\ search[s].at = "idle"
    /\ \/ /\ source = "google"
          /\ TryKey(s, [search[s] EXCEPT !.initial = keyPool.keys], keyPool)
       \/ /\ source = "local_db"
          /\ search' = [search EXCEPT ![s].at = "asking"]
          /\ request' = [request EXCEPT ![Query(s)] = NewRequest("paper")]
          /\ UNCHANGED keyPool
    /\ UNCHANGED <<limit, slots, waiters, source, spent>>

SearchEnds(s, how) ==
    /\ search' = [search EXCEPT ![s] = [NoSearch EXCEPT !.at = how]]
    /\ UNCHANGED <<httpVars, source, keyPool, spent>>

QueryRefused(s) ==
    /\ search[s].at = "asking" /\ request[Query(s)].at = "refused"
    /\ \/ /\ source = "google"
          /\ TryKey(s, search[s], RemoveKey(keyPool, search[s].key))
          /\ spent' = spent \cup {search[s].key}
          /\ UNCHANGED <<limit, slots, waiters, source>>
       \/ source = "local_db" /\ SearchEnds(s, "raised")

\* The answer may be no JSON.
QueryAnswered(s) ==
    /\ search[s].at = "asking" /\ request[Query(s)].at = "answered"
    /\ \/ SearchEnds(s, "raised")
       \/ source = "local_db" /\ SearchEnds(s, "returned")
       \/ /\ source = "google"
          /\ \E n \in 0 .. MaxHits :
                /\ search' = [search EXCEPT ![s] = [NoSearch EXCEPT !.at = "fetching", !.hits = n]]
                /\ request' = [c \in HttpCalls |-> IF c \in {<<s, h>> : h \in 1 .. n}
                                                   THEN NewRequest("detail") ELSE request[c]]
          /\ UNCHANGED <<limit, slots, waiters, source, keyPool, spent>>

\* gather has all details, or raises with the first that is refused while the
\* others go on.
DetailsFetched(s) ==
    /\ search[s].at = "fetching"
    /\ \/ (\A c \in Details(s) : request[c].at = "answered") /\ SearchEnds(s, "returned")
       \/ (\E c \in Details(s) : request[c].at = "refused") /\ SearchEnds(s, "raised")

SearchWork ==
    \/ \E c \in HttpCalls : HttpStep(c) /\ UNCHANGED searchVars
    \/ NoneReady /\ \E s \in Searches : QueryRefused(s) \/ QueryAnswered(s) \/ DetailsFetched(s)

SearchNext ==
    \/ SearchWork
    \/ NoneReady /\ \E s \in Searches : BeginSearch(s)

----------------------------------------------------------------------------
(* A search that could still be made with some key is not given up, though *)
(* other searches rotate the pool and take keys out of it meanwhile: when  *)
(* a Google search raises before it has hits, every key it began with has  *)
(* failed, with its own request or with another's; and no key leaves the   *)
(* pool that has not failed (ApiKeyPool, search_google_via_serper).        *)
NoKeySkipped ==
    source = "google" =>
        /\ \A s \in Searches :
              search[s].at = "keyless" => ToSet(search[s].initial) \subseteq spent
        /\ ToSet(ApiKeys) \ spent \subseteq ToSet(keyPool.keys)

SearchEnded(s) == search[s].at \in {"returned", "raised", "keyless"}
RequestEnded(c) == request[c].at \in {"answered", "refused"}
=============================================================================
