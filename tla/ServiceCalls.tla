---------------------------- MODULE ServiceCalls ----------------------------
(***************************************************************************)
(* The two loops of Agent-R1 that call a service again after a failure:    *)
(* scoring steps with a reward model (RewardLoop), and searching papers    *)
(* (SerperSearch on HttpRetry).  They share nothing; a behaviour is one of *)
(* either.  The first has no time limit of its own, the second has one for *)
(* every request.                                                          *)
(***************************************************************************)
EXTENDS RewardLoop, SerperSearch

VARIABLE service

callVars == <<service, vars, paperVars>>

CallInit ==
    /\ service \in {"reward", "papers"}
    /\ Init
    /\ SearchInit
    /\ service = "reward" => /\ source = "local_db"
                             /\ \A s \in Semaphores, n \in Limits : limit[s] <= n
    /\ service = "papers" => config.custom /\ config.rm

RewardWorkerStep == service = "reward" /\ (\E i \in Items : WorkerStep(i)) /\ UNCHANGED <<service, paperVars>>
RewardRouterStep == service = "reward" /\ (\E i \in Items : RouterStep(i)) /\ UNCHANGED <<service, paperVars>>
PaperStep == service = "papers" /\ SearchNext /\ UNCHANGED <<service, vars>>

CallNext == RewardWorkerStep \/ RewardRouterStep \/ PaperStep

\* Every step brings a call nearer to its end, so fairness to some step is
\* fairness to all: a worker and its event loop run what is ready, and a request
\* to the paper service ends by its timeout.  Nothing makes the router answer,
\* and nobody is obliged to begin a search.
PaperWork == service = "papers" /\ SearchWork /\ UNCHANGED <<service, vars>>

CallSpec ==
    /\ CallInit /\ [][CallNext]_callVars
    /\ WF_callVars(RewardWorkerStep)
    /\ WF_callVars(PaperWork)

----------------------------------------------------------------------------
(* Every search and every request comes to an end, those of a search that  *)
(* was given up among them.  A scoring does too, unless the router leaves  *)
(* a post of it without an answer, for which there is no timeout; then the *)
(* others still end.  No failure repeats for ever and no slot is waited    *)
(* for in vain.                                                            *)
CallsEnd ==
    <>[](IF service = "reward" THEN \A i \in Items : Ended(i) \/ pc[i] = "posting"
         ELSE /\ \A s \in Searches : search[s].at = "idle" \/ SearchEnded(s)
              /\ \A c \in HttpCalls : request[c].at = "idle" \/ RequestEnded(c))
=============================================================================
