----------------------------- MODULE PiSession ------------------------------
(***************************************************************************)
(* One tau2 Telecom episode: the flow (pi_tau_agent_flow.py), the session  *)
(* it opens in the Pi sidecar (pi_sidecar/src/main.mjs) and the tau2       *)
(* environment (pi_tau_env.py).  The sidecar runs the agent and asks the   *)
(* flow for everything else: a generation, then the environment's answer   *)
(* to the action in it.  Both speak over two pipes, so each sees the other *)
(* as it was some messages ago; the sidecar may die, the flow may give up. *)
(*                                                                         *)
(* A reply of the model is abstracted to what the agent makes of it: one   *)
(* tool call, text, or calls it refuses (several, mixed with text, unknown *)
(* or malformed).  The Pi agent SDK is external: it takes a turn, calls the*)
(* tool or the turn_end subscriber, and asks shouldStopAfterTurn.          *)
(***************************************************************************)
EXTENDS Naturals, Sequences, SequencesExt

CONSTANTS
    MaxTurns,    \* max_steps of the flow, max_turns of the session
    Rewards      \* what the environment may pay for an action

ASSUME TurnsAssumption == MaxTurns \in Nat \ {0}
ASSUME RewardsAssumption == 0 \in Rewards

VARIABLES
    stage,       \* where the coroutine of the flow stands
    sending,     \* the command whose send it waits in, "none" if it does not
    why,         \* what it has raised, "" for nothing
    env,         \* the environment: "none", "open" or "closed"
    earned,      \* what the environment paid: a sequence of [gen, reward]
    current,     \* the event the flow is working on
    pending,     \* the keys of pending_steps
    steps,       \* the trainable steps: a sequence of [gen, reward, ended, invalid]
    toSide,      \* commands in the sidecar's stdin
    toFlow,      \* events in the sidecar's stdout and the session's queue
    process,     \* the sidecar: "up", "dead" or "noticed"
    side         \* the session in the sidecar

flowVars == <<stage, sending, why, env, earned, current, pending, steps>>
vars == <<flowVars, toSide, toFlow, process, side>>

Start == [type |-> "start_session"]
Close == [type |-> "close_session"]
Response(id, result) == [type |-> "response", to |-> id, result |-> result]

Event(type, gen) == [type |-> type, gen |-> gen]
StepComplete(gen, result, invalid) ==
    [type |-> "step_complete", gen |-> gen, reward |-> result.reward,
     ended |-> result.ended, invalid |-> invalid]

\* The result of a request: a reply of the model, an outcome of the
\* environment, or a refusal.
Replies == [kind : {"tool", "text", "refused"}]
Outcome(reward, ended) == [kind |-> "outcome", reward |-> reward, ended |-> ended]
Rejected == [kind |-> "rejected"]

NoSession == [at |-> "absent", turn |-> 0, asked |-> 0, waits |-> FALSE,
              result |-> Rejected, byTool |-> FALSE, over |-> FALSE,
              listed |-> FALSE, closed |-> FALSE]

Init ==
    /\ stage = "reset"
    /\ sending = "none"
    /\ why = ""
    /\ env = "none"
    /\ earned = <<>>
    /\ current = Start
    /\ pending = {}
    /\ steps = <<>>
    /\ toSide = <<>>
    /\ toFlow = <<>>
    /\ process = "up"
    /\ side = NoSession

-----------------------------------------------------------------------------
(* The flow *)

\* The queue exists while the session is registered with the client.
Listening == stage \in {"waiting", "generating", "stepping", "closing"}

\* The flow runs, and stands there; it does not wait in a send.
At(place) == stage = place /\ sending = "none"

\* send raises at once when the process is known to be gone.  Otherwise the
\* command is written, lost if the process has died, and the flow waits, in
\* drain() or for the write lock behind the drain() of another flow.
Sent(command) ==
    /\ process # "noticed"
    /\ toSide' = IF process = "up" THEN Append(toSide, command) ELSE toSide
    /\ sending' = command.type
SendRaises == process = "noticed" /\ UNCHANGED <<toSide, sending>>

\* The body of the try statement is left with an exception.
Raise(reason) == stage' = "closing" /\ why' = reason

\* drain() returns when there is room in the pipe, which nothing but the
\* reading of the sidecar makes while it lives, or when the pipe is broken.
Drained ==
    /\ sending # "none"
    /\ sending' = "none"
    /\ UNCHANGED <<stage, why, env, earned, current, pending, steps, toSide, toFlow,
                   process, side>>

\* Of a broken pipe it may also raise: open_session stands before the try
\* statement, and close() in its finally clause, before env.close().
DrainRaises ==
    /\ sending # "none"
    /\ process # "up"
    /\ sending' = "none"
    /\ stage' = IF sending = "response" THEN "closing" ELSE "raised"
    /\ why' = "sidecar"
    /\ UNCHANGED <<env, earned, current, pending, steps, toSide, toFlow, process, side>>

\* env.reset, in a thread; its environment is never closed when it raises.
Reset ==
    /\ At("reset")
    /\ env' = "open"
    /\ \/ stage' = "opening" /\ UNCHANGED why
       \/ stage' = "raised" /\ why' = "environment"
    /\ UNCHANGED <<sending, earned, current, pending, steps, toSide, toFlow, process, side>>

\* open_session, before the try statement.
OpenSession ==
    /\ At("opening")
    /\ \/ Sent(Start) /\ stage' = "waiting" /\ UNCHANGED why
       \/ SendRaises /\ stage' = "raised" /\ why' = "sidecar"
    /\ UNCHANGED <<env, earned, current, pending, steps, toFlow, process, side>>

\* next_event, and what the flow does with the event before it awaits again.
NextEvent ==
    LET event == Head(toFlow) IN
    /\ At("waiting")
    /\ toFlow # <<>>
    /\ toFlow' = Tail(toFlow)
    /\ current' = event
    /\ \/ event.type = "session_started" /\ UNCHANGED <<stage, why, pending, steps>>
       \/ /\ event.type = "generation_request"
          /\ stage' = "generating"
          /\ UNCHANGED <<why, pending, steps>>
       \/ /\ event.type = "environment_request"
          /\ IF event.gen \in pending THEN stage' = "stepping" /\ UNCHANGED why
                                      ELSE Raise("unknown generation")
          /\ UNCHANGED <<pending, steps>>
       \/ /\ event.type = "step_complete"
          /\ IF event.gen \in pending
             THEN /\ pending' = pending \ {event.gen}
                  /\ steps' = Append(steps, [gen |-> event.gen, reward |-> event.reward,
                                             ended |-> event.ended, invalid |-> event.invalid])
                  /\ UNCHANGED <<stage, why>>
             ELSE Raise("unknown generation") /\ UNCHANGED <<pending, steps>>
       \/ /\ event.type = "session_complete"
          /\ stage' = "closing"
          /\ UNCHANGED <<why, pending, steps>>
       \/ /\ event.type \in {"session_error", "sidecar_error"}
          /\ Raise("sidecar")
          /\ UNCHANGED <<pending, steps>>
    /\ UNCHANGED <<sending, env, earned, toSide, process, side>>

\* Defect: the wait is given up only when the process is known to be gone.
EventTimesOutNoticed ==
    /\ At("waiting")
    /\ toFlow = <<>>
    /\ process = "noticed"
    /\ Raise("timeout")
    /\ UNCHANGED <<sending, env, earned, current, pending, steps, toSide, toFlow, process, side>>

EventTimesOut ==
    /\ At("waiting")
    /\ toFlow = <<>>
    /\ Raise("timeout")
    /\ UNCHANGED <<sending, env, earned, current, pending, steps, toSide, toFlow, process, side>>

\* A generation: the prompt is refused (the sidecar is told), the engine raises
\* (it is not), or a reply is kept as a pending step and sent.
Generate ==
    /\ At("generating")
    /\ \/ /\ Sent(Response(current.id, Rejected)) \/ SendRaises
          /\ Raise("prompt")
          /\ UNCHANGED pending
       \/ Raise("engine") /\ UNCHANGED <<sending, pending, toSide>>
       \/ /\ pending' = pending \cup {current.gen}
          /\ \/ \E reply \in Replies : Sent(Response(current.id, reply))
                /\ stage' = "waiting" /\ UNCHANGED why
             \/ SendRaises /\ Raise("sidecar")
    /\ UNCHANGED <<env, earned, current, steps, toFlow, process, side>>

\* env.step, in a thread.  terminated is sent as `done`, which also covers a
\* truncation; a failure is sent as an error and raised.
StepEnvironment ==
    /\ At("stepping")
    /\ \/ /\ Sent(Response(current.id, Rejected)) \/ SendRaises
          /\ Raise("environment")
          /\ UNCHANGED earned
       \/ \E reward \in Rewards, done \in BOOLEAN :
          /\ earned' = Append(earned, [gen |-> current.gen, reward |-> reward])
          /\ \/ /\ Sent(Response(current.id, Outcome(reward, done)))
                /\ stage' = "waiting" /\ UNCHANGED why
             \/ SendRaises /\ Raise("sidecar")
    /\ UNCHANGED <<env, current, pending, steps, toFlow, process, side>>

\* finally: session.close().  When it raises, env.close() is not reached.
CloseSession ==
    /\ At("closing")
    /\ \/ Sent(Close) /\ stage' = "closing environment" /\ UNCHANGED why
       \/ SendRaises /\ stage' = "raised" /\ why' = "sidecar"
    /\ toFlow' = <<>>
    /\ UNCHANGED <<env, earned, current, pending, steps, process, side>>

\* finally: env.close(), and the checks behind the try statement.
CloseEnvironment ==
    /\ At("closing environment")
    /\ env' = "closed"
    /\ why' = IF why # "" THEN why
              ELSE IF pending # {} THEN "unfinished generations"
              ELSE IF steps = <<>> THEN "no steps" ELSE ""
    /\ stage' = IF why' = "" THEN "returned" ELSE "raised"
    /\ UNCHANGED <<sending, earned, current, pending, steps, toSide, toFlow, process, side>>

-----------------------------------------------------------------------------
(* The sidecar *)

\* Lines of a session the client does not know are dropped.
Emit(event) == toFlow' = IF Listening THEN Append(toFlow, event) ELSE toFlow
Silent == UNCHANGED toFlow
\* The session is the one of these changes, after others that are not shown.
Become(change) == side' = change

\* requestHost: a request that waits for the response with its number.
Asking(s, at) == [s EXCEPT !.at = at, !.asked = @ + 1, !.waits = TRUE]
Request(s, type) == [type |-> type, gen |-> s.turn, id |-> s.asked + 1]

\* closeSession: the pending request is rejected, once; a session that is still
\* loading its skills is not known yet and is not closed.
Closed(s) ==
    IF ~s.listed THEN s
    ELSE [s EXCEPT !.listed = FALSE, !.closed = TRUE, !.waits = FALSE,
                   !.result = IF s.waits THEN Rejected ELSE @]

Commanded(s, command) ==
    CASE command.type = "start_session" -> [s EXCEPT !.at = "loading"]
      [] command.type = "close_session" -> Closed(s)
      [] command.type = "response" ->
            IF s.waits /\ s.asked = command.to
            THEN [s EXCEPT !.waits = FALSE, !.result = command.result] ELSE s

HandleCommand ==
    /\ process = "up"
    /\ toSide # <<>>
    /\ toSide' = Tail(toSide)
    /\ Become(Commanded(side, Head(toSide)))
    /\ UNCHANGED <<flowVars, toFlow, process>>

\* createSession, after the skills are loaded.
CreateSession ==
    /\ process = "up"
    /\ side.at = "loading"
    /\ \/ /\ Emit(Event("session_started", 0))
          /\ Become([side EXCEPT !.at = "prompting", !.listed = TRUE])
       \/ /\ Emit(Event("session_error", 0))
          /\ Become([side EXCEPT !.at = "over"])
    /\ UNCHANGED <<flowVars, toSide, process>>

\* streamFn: a turn begins with a generation, refused at once after an abort.
StreamGeneration ==
    LET s == [side EXCEPT !.turn = @ + 1] IN
    /\ process = "up"
    /\ side.at = "prompting"
    /\ IF side.closed
       THEN Become([s EXCEPT !.at = "generating", !.result = Rejected]) /\ Silent
       ELSE Become(Asking(s, "generating")) /\ Emit(Request(s, "generation_request"))
    /\ UNCHANGED <<flowVars, toSide, process>>

\* Defect: the turn limit is one too late.
LimitedLate(s, outcome) ==
    IF s.turn > MaxTurns THEN [outcome EXCEPT !.ended = TRUE] ELSE outcome

\* Defect: the outcome is replaced, not extended, at the turn limit.
LimitedAnew(s, outcome) == IF s.turn >= MaxTurns THEN Outcome(0, TRUE) ELSE outcome

\* applyTurnLimit
Limited(s, outcome) ==
    IF s.turn >= MaxTurns THEN [outcome EXCEPT !.ended = TRUE] ELSE outcome

\* A turn has its step: stepPayload is emitted and the outcome remembered.
EndTurn(s, outcome, invalid) ==
    LET limited == Limited(s, outcome) IN
    /\ Emit(StepComplete(s.turn, limited, invalid))
    /\ Become([s EXCEPT !.at = "turn over", !.over = limited.ended])

\* The reply has arrived.  A tool call goes to the environment from execute, a
\* text from the turn_end subscriber; calls that beforeToolCall or the SDK
\* refuses are an invalid step.  A failed generation ends the agent: whether
\* the SDK reports its empty message to the subscriber is left open.
TakeReply ==
    /\ process = "up"
    /\ side.at = "generating"
    /\ ~side.waits
    /\ \/ /\ side.result.kind = "tool"
          /\ Become(Asking([side EXCEPT !.byTool = TRUE], "acting"))
          /\ Emit(Request(side, "environment_request"))
       \/ /\ side.result.kind \in {"text", "rejected"}
          /\ Become(Asking([side EXCEPT !.byTool = FALSE], "acting"))
          /\ Emit(Request(side, "environment_request"))
       \/ /\ side.result.kind = "refused"
          /\ EndTurn(side, Outcome(0, FALSE), TRUE)
       \/ /\ side.result.kind = "rejected"
          /\ Become([side EXCEPT !.at = "ending"])
          /\ Silent
    /\ UNCHANGED <<flowVars, toSide, process>>

\* Defect: a tool call that was answered is also reported as an invalid step,
\* as without the look at environmentCompleted.
TakeResultTwice ==
    /\ process = "up"
    /\ side.at = "acting"
    /\ ~side.waits
    /\ side.result.kind = "outcome"
    /\ LET limited == Limited(side, side.result) IN
       /\ toFlow' = IF Listening THEN toFlow \o <<StepComplete(side.turn, limited, FALSE),
                                                  StepComplete(side.turn, limited, TRUE)>>
                    ELSE toFlow
       /\ Become([side EXCEPT !.at = "turn over", !.over = limited.ended])
    /\ UNCHANGED <<flowVars, toSide, process>>

\* The environment's answer has arrived.  An error makes a tool call an invalid
\* step; in the subscriber it ends the prompt, or is dropped by the SDK.
TakeResult ==
    /\ process = "up"
    /\ side.at = "acting"
    /\ ~side.waits
    /\ \/ side.result.kind = "outcome" /\ EndTurn(side, side.result, FALSE)
       \/ /\ side.result.kind = "rejected"
          /\ side.byTool
          /\ EndTurn(side, Outcome(0, FALSE), TRUE)
       \/ /\ side.result.kind = "rejected"
          /\ ~side.byTool
          /\ \/ Become([side EXCEPT !.at = "over"]) /\ Emit(Event("session_error", 0))
             \/ Become([side EXCEPT !.at = "ending"]) /\ Silent
    /\ UNCHANGED <<flowVars, toSide, process>>

\* shouldStopAfterTurn, and for a text whether followUp was called.
TurnEnds ==
    /\ process = "up"
    /\ side.at = "turn over"
    /\ Become([side EXCEPT !.at = IF side.closed \/ side.over \/ side.turn >= MaxTurns
                                  THEN "ending" ELSE "prompting"])
    /\ Silent
    /\ UNCHANGED <<flowVars, toSide, process>>

\* agent.prompt returns.
PromptReturns ==
    /\ process = "up"
    /\ side.at = "ending"
    /\ Emit(Event("session_complete", side.turn))
    /\ Become([side EXCEPT !.at = "over"])
    /\ UNCHANGED <<flowVars, toSide, process>>

\* The process dies with what is in its stdin; later the client hears of it
\* and tells the session.
Crash ==
    /\ process = "up"
    /\ process' = "dead"
    /\ toSide' = <<>>
    /\ UNCHANGED <<flowVars, toFlow, side>>

CrashNoticed ==
    /\ process = "dead"
    /\ process' = "noticed"
    /\ Emit(Event("sidecar_error", 0))
    /\ UNCHANGED <<flowVars, toSide, side>>

-----------------------------------------------------------------------------
FlowStep ==
    \/ Reset \/ OpenSession \/ NextEvent \/ EventTimesOut \/ Generate
    \/ StepEnvironment \/ CloseSession \/ CloseEnvironment \/ DrainRaises
SideStep ==
    \/ HandleCommand \/ CreateSession \/ StreamGeneration \/ TakeReply
    \/ TakeResult \/ TurnEnds \/ PromptReturns

Next == FlowStep \/ Drained \/ SideStep \/ Crash \/ CrashNoticed

\* The flow runs when it can: the engine and the environment answer or raise,
\* a wait for an event is bounded by event_timeout, and a drain() ends with the
\* process.  Nothing is asked of the sidecar, not even that it reads its stdin.
BrokenPipe == process # "up" /\ Drained
Spec == Init /\ [][Next]_vars /\ WF_vars(FlowStep \/ BrokenPipe)

-----------------------------------------------------------------------------
(* Properties *)

\* Flow and sidecar agree on the generation they talk about: the flow never
\* meets a request or a step of a generation it does not know, nor the end of
\* a session that has left one unfinished (the three checks of `run`).
NoStrayGeneration == why \notin {"unknown generation", "unfinished generations"}

\* The rows of an episode carry what the environment paid: at any time the steps
\* are those of generations 1, 2, ... in order, the environment was asked at most
\* once for each generation, and a row has just what it paid for its generation,
\* or is invalid and the environment paid nothing; of an episode that is
\* returned, nothing it paid is missing.
PaidFor(gen) == {paid \in ToSet(earned) : paid.gen = gen}
RowRight(row) ==
    PaidFor(row.gen) = IF row.invalid THEN {} ELSE {[gen |-> row.gen, reward |-> row.reward]}
RewardsKept ==
    /\ \A i \in DOMAIN steps : steps[i].gen = i /\ RowRight(steps[i])
    /\ \A i, j \in DOMAIN earned : i < j => earned[i].gen < earned[j].gen
    /\ stage = "returned" => \A i \in DOMAIN earned : earned[i].gen \in DOMAIN steps

\* The flow, whatever the sidecar does, keeps the promise of an episode: at most
\* max_turns rows, an end that is marked on the last row only, and no return
\* of an episode that has not ended.
Episode == INSTANCE EpisodePromise WITH
    MaxSteps <- MaxTurns,
    rows <- [i \in DOMAIN steps |-> [reward |-> steps[i].reward, ended |-> steps[i].ended]],
    outcome <- IF stage \in {"returned", "raised"} THEN stage ELSE "running"
KeepsPromise == Episode!Spec

\* The flow waits in drain() for a sidecar that lives: the wait no timeout bounds.
Blocked == sending # "none" /\ process = "up"

\* An episode ends, with rows or an exception, also when the sidecar dies, is
\* silent or loses the session; the one thing that can keep it for ever is a
\* sidecar that lives and does not read what the flows write (event_timeout is
\* about next_event alone, the drain() of send has no timeout).
FlowEnds == <>(stage \in {"returned", "raised"}) \/ <>[]Blocked
=============================================================================
