-------------------------- MODULE PiSessionProofs --------------------------
(***************************************************************************)
(* For every turn limit and whatever the environment may pay: flow and     *)
(* sidecar agree on the generation they talk about, the rows carry what    *)
(* the environment paid, and an episode keeps its promise.                 *)
(*                                                                         *)
(* The two ends see each other late, so the inductive invariant says, for  *)
(* each place the sidecar may stand at, what is still on the way and how   *)
(* far the flow is behind it.  It holds while the flow is in the body of   *)
(* its try statement; after that nothing the sidecar does matters.         *)
(***************************************************************************)
EXTENDS PiSession, TLAPS

Active == stage \in {"waiting", "generating", "stepping"}

Started == Event("session_started", 0)
SidecarError == Event("sidecar_error", 0)

OutcomeSet == {Outcome(reward, ended) : reward \in Rewards, ended \in BOOLEAN}

SideType ==
    [at : {"absent", "loading", "prompting", "generating", "acting", "turn over", "ending", "over"},
     turn : 0 .. MaxTurns, asked : Nat, waits : BOOLEAN,
     result : Replies \cup OutcomeSet \cup {Rejected},
     byTool : BOOLEAN, over : BOOLEAN, listed : BOOLEAN, closed : BOOLEAN]

EarnedType == [gen : Nat \ {0}, reward : Rewards]
StepType == [gen : Nat, reward : Rewards, ended : BOOLEAN, invalid : BOOLEAN]

TypeInv ==
    /\ stage \in {"reset", "opening", "waiting", "generating", "stepping", "closing",
                  "closing environment", "returned", "raised"}
    /\ process \in {"up", "dead", "noticed"}
    /\ steps \in Seq(StepType)
    /\ earned \in Seq(EarnedType)
    /\ Active => why = "" /\ side \in SideType /\ ~side.closed
    /\ stage = "returned" => why = ""

\* The rows end with the episode or not at all.
HasEnded == steps # <<>> /\ steps[Len(steps)].ended

Ledger ==
    /\ \A i \in DOMAIN steps : /\ steps[i].gen = i
                               /\ RowRight(steps[i])
                               /\ i < Len(steps) => ~steps[i].ended
    /\ Len(steps) <= MaxTurns
    /\ \A i, j \in DOMAIN earned : i < j => earned[i].gen < earned[j].gen

NotStarted ==
    stage \in {"reset", "opening"} =>
        /\ why = "" /\ pending = {} /\ steps = <<>> /\ earned = <<>>
        /\ toSide = <<>> /\ toFlow = <<>>
        /\ side = NoSession

\* What was paid is paid for one of the first k generations.
PaidUpTo(k) == \A i \in DOMAIN earned : earned[i].gen <= k

\* An episode that is closed without an exception is complete.
ClosedWell ==
    ~Active /\ stage \notin {"reset", "opening"} /\ why = "" =>
        pending = {} /\ HasEnded /\ PaidUpTo(Len(steps))

-----------------------------------------------------------------------------
\* What the flow has still to read, behind which may come the client's notice.
Unread(events) == toFlow = IF process = "noticed" THEN Append(events, SidecarError) ELSE events

\* What is on its way to the sidecar is lost with it.
Underway(command) == toSide = IF process = "up" THEN <<command>> ELSE <<>>

\* The flow has taken in the first k turns and reads `tail' next, or it has
\* something of them before it.
TakenIn(k, ended, tail) ==
    /\ stage = "waiting"
    /\ PaidUpTo(k)
    /\ \/ /\ Unread(tail)
          /\ pending = {} /\ Len(steps) = k /\ HasEnded = ended
       \/ /\ Unread(<<Started>> \o tail)
          /\ pending = {} /\ Len(steps) = 0 /\ k = 0 /\ ~ended
       \/ \E reward \in Rewards, invalid \in BOOLEAN :
          /\ Unread(<<StepComplete(k, Outcome(reward, ended), invalid)>> \o tail)
          /\ RowRight([gen |-> k, reward |-> reward, ended |-> ended, invalid |-> invalid])
          /\ pending = {k} /\ Len(steps) = k - 1 /\ ~HasEnded

\* The flow has generated for the turn and waits for what comes of it.
Inside(turn) == pending = {turn} /\ Len(steps) = turn - 1 /\ ~HasEnded

BeforeTurns ==
    /\ stage = "waiting" /\ steps = <<>> /\ pending = {} /\ earned = <<>>
    /\ side.turn = 0 /\ ~side.waits
    /\ \/ side.at = "absent" /\ Underway(Start) /\ Unread(<<>>)
       \/ side.at = "loading" /\ toSide = <<>> /\ Unread(<<>>)
       \/ side.at = "over" /\ toSide = <<>> /\ Unread(<<Event("session_error", 0)>>)

BetweenTurns ==
    /\ toSide = <<>>
    /\ \/ side.at = "prompting" /\ side.turn < MaxTurns /\ TakenIn(side.turn, FALSE, <<>>)
       \/ /\ side.at = "turn over" /\ side.turn > 0
          /\ side.turn = MaxTurns => side.over
          /\ TakenIn(side.turn, side.over, <<>>)
       \/ side.at = "ending" /\ side.turn > 0 /\ TakenIn(side.turn, TRUE, <<>>)
       \/ /\ side.at = "over" /\ side.turn > 0
          /\ TakenIn(side.turn, TRUE, <<Event("session_complete", side.turn)>>)

Generating ==
    LET request == [type |-> "generation_request", gen |-> side.turn, id |-> side.asked] IN
    /\ side.at = "generating" /\ side.turn > 0
    /\ PaidUpTo(side.turn - 1)
    /\ \/ side.waits /\ toSide = <<>> /\ TakenIn(side.turn - 1, FALSE, <<request>>)
       \/ /\ side.waits /\ toSide = <<>> /\ stage = "generating" /\ current = request
          /\ Unread(<<>>)
          /\ pending = {} /\ Len(steps) = side.turn - 1 /\ ~HasEnded
       \/ /\ side.waits /\ stage = "waiting" /\ Inside(side.turn) /\ Unread(<<>>)
          /\ \E reply \in Replies : Underway(Response(side.asked, reply))
       \/ /\ ~side.waits /\ stage = "waiting" /\ Inside(side.turn) /\ Unread(<<>>)
          /\ side.result \in Replies /\ toSide = <<>>

Acting ==
    LET request == [type |-> "environment_request", gen |-> side.turn, id |-> side.asked] IN
    /\ side.at = "acting" /\ side.turn > 0 /\ Inside(side.turn)
    /\ \/ /\ side.waits /\ toSide = <<>> /\ PaidUpTo(side.turn - 1)
          /\ stage = "waiting" /\ Unread(<<request>>)
       \/ /\ side.waits /\ toSide = <<>> /\ PaidUpTo(side.turn - 1)
          /\ stage = "stepping" /\ current = request /\ Unread(<<>>)
       \/ /\ PaidUpTo(side.turn) /\ stage = "waiting" /\ Unread(<<>>)
          /\ \E reward \in Rewards, done \in BOOLEAN :
             /\ PaidFor(side.turn) = {[gen |-> side.turn, reward |-> reward]}
             /\ \/ side.waits /\ Underway(Response(side.asked, Outcome(reward, done)))
                \/ ~side.waits /\ side.result = Outcome(reward, done) /\ toSide = <<>>

InStep == Active => BeforeTurns \/ BetweenTurns \/ Generating \/ Acting

IInv == TypeInv /\ Ledger /\ NotStarted /\ ClosedWell /\ NoStrayGeneration /\ InStep

\* The flow waits in a send only where one stands, never when it has ended.
SendWaits == sending # "none" => stage \in {"waiting", "closing", "closing environment"}

-----------------------------------------------------------------------------
(* Sequences of up to three events *)

LEMMA NoneOf == ASSUME NEW S, NEW s \in Seq(S), Len(s) = 0 PROVE s = <<>>
OBVIOUS

LEMMA SameSeq ==
  ASSUME NEW S, NEW s \in Seq(S), NEW e \in S, NEW r \in Seq(S), Len(r) = Len(s) + 1,
         \A i \in 1 .. Len(s) + 1 : r[i] = IF i <= Len(s) THEN s[i] ELSE e
  PROVE  r = Append(s, e)
OBVIOUS

LEMMA TwoOf == ASSUME NEW S, NEW s \in Seq(S), Len(s) = 2 PROVE s = <<s[1], s[2]>>
OBVIOUS

LEMMA ThreeOf == ASSUME NEW S, NEW s \in Seq(S), Len(s) = 3 PROVE s = <<s[1], s[2], s[3]>>
OBVIOUS

LEMMA Joined ==
  ASSUME NEW x, NEW y, NEW z
  PROVE  /\ <<x>> \o <<>> = <<x>> /\ <<x>> \o <<y>> = <<x, y>>
         /\ Append(<<>>, x) = <<x>> /\ Append(<<x>>, y) = <<x, y>>
         /\ Append(<<x, y>>, z) = <<x, y, z>>
<1> DEFINE S == {x, y, z}
<1>1. x \in S /\ y \in S /\ z \in S
  OBVIOUS
<1> HIDE DEF S
<1>2. /\ <<x>> \in Seq(S) /\ Len(<<x>>) = 1 /\ <<x>>[1] = x
      /\ <<y>> \in Seq(S) /\ Len(<<y>>) = 1 /\ <<y>>[1] = y
      /\ <<x, y>> \in Seq(S) /\ Len(<<x, y>>) = 2 /\ <<x, y>>[1] = x /\ <<x, y>>[2] = y
  BY <1>1
<1> DEFINE a == Append(<<x>>, y)
           b == <<x>> \o <<y>>
           c == Append(<<x, y>>, z)
<1>3. /\ a \in Seq(S) /\ Len(a) = 2 /\ a[1] = x /\ a[2] = y
      /\ b \in Seq(S) /\ Len(b) = 2 /\ b[1] = x /\ b[2] = y
  BY <1>1, <1>2
<1>4. c \in Seq(S) /\ Len(c) = 3 /\ c[1] = x /\ c[2] = y /\ c[3] = z
  BY <1>1, <1>2
<1>5. a = <<x, y>> /\ b = <<x, y>>
  BY <1>3, TwoOf
<1>6. c = <<x, y, z>>
  BY <1>4, ThreeOf
<1>7. <<x>> \o <<>> = <<x>> /\ Append(<<>>, x) = <<x>>
  BY <1>1
<1>8. QED
  BY <1>5, <1>6, <1>7

LEMMA Taken ==
  ASSUME NEW x, NEW y, NEW z
  PROVE  /\ <<x>> # <<>> /\ Head(<<x>>) = x /\ Tail(<<x>>) = <<>>
         /\ <<x, y>> # <<>> /\ Head(<<x, y>>) = x /\ Tail(<<x, y>>) = <<y>>
         /\ <<x, y, z>> # <<>> /\ Head(<<x, y, z>>) = x /\ Tail(<<x, y, z>>) = <<y, z>>
<1> DEFINE S == {x, y, z}
<1>1. x \in S /\ y \in S /\ z \in S
  OBVIOUS
<1> HIDE DEF S
<1>2. <<x>> # <<>> /\ Head(<<x>>) = x /\ Tail(<<x>>) = <<>>
  BY <1>1
<1>3. <<x, y>> # <<>> /\ Head(<<x, y>>) = x /\ Tail(<<x, y>>) = <<y>>
  BY <1>1
<1>4. <<x, y, z>> # <<>> /\ Head(<<x, y, z>>) = x /\ Tail(<<x, y, z>>) = <<y, z>>
  BY <1>1
<1>5. QED
  BY <1>2, <1>3, <1>4

\* The next event, when the flow has something to read.
LEMMA ReadNext ==
  ASSUME NEW x, NEW tail, tail = <<>> \/ \E y : tail = <<y>>,
         Unread(<<x>> \o tail), process' = process,
         toFlow # <<>> => toFlow' = Tail(toFlow)
  PROVE  toFlow # <<>> /\ Head(toFlow) = x /\ Unread(tail)'
<1>1. CASE tail = <<>>
  <2>1. toFlow = IF process = "noticed" THEN <<x, SidecarError>> ELSE <<x>>
    BY <1>1, Joined DEF Unread
  <2>2. toFlow' = IF process = "noticed" THEN <<SidecarError>> ELSE <<>>
    BY <2>1, Taken
  <2>3. QED
    BY <1>1, <2>1, <2>2, Taken, Joined DEF Unread
<1>2. CASE \E y : tail = <<y>>
  <2> PICK y : tail = <<y>>
    BY <1>2
  <2>0. <<x>> \o tail = <<x, y>> /\ Append(<<x, y>>, SidecarError) = <<x, y, SidecarError>>
    BY Joined, Zenon
  <2>1. toFlow = IF process = "noticed" THEN <<x, y, SidecarError>> ELSE <<x, y>>
    BY <2>0 DEF Unread
  <2>2. toFlow' = IF process = "noticed" THEN <<y, SidecarError>> ELSE <<y>>
    BY <2>1, Taken
  <2>3. Unread(tail)'
    BY <2>2, Joined DEF Unread
  <2>4. QED
    BY <2>1, <2>3, Taken
<1>3. QED
  BY <1>1, <1>2

LEMMA ReadNotice ==
  ASSUME Unread(<<>>)
  PROVE  /\ process # "noticed" => toFlow = <<>>
         /\ process = "noticed" => toFlow # <<>> /\ Head(toFlow) = SidecarError
BY Joined, Taken DEF Unread

-----------------------------------------------------------------------------
(* Frames *)

LEMMA EmptyLedger ==
  ASSUME steps = <<>>, earned = <<>>
  PROVE  Ledger
<1>1. DOMAIN steps = {} /\ DOMAIN earned = {} /\ Len(steps) = 0
  OBVIOUS
<1>2. QED
  BY <1>1, TurnsAssumption DEF Ledger

LEMMA InitIInv == Init => IInv
<1> SUFFICES ASSUME Init PROVE IInv
  OBVIOUS
<1>1. Ledger
  BY EmptyLedger DEF Init
<1>2. stage = "reset" /\ ~Active
  BY DEF Init, Active
<1>3. TypeInv
  <2>1. \A S : <<>> \in Seq(S)
    OBVIOUS
  <2>2. steps \in Seq(StepType) /\ earned \in Seq(EarnedType)
    BY <2>1 DEF Init
  <2>3. QED
    BY <1>2, <2>2 DEF Init, TypeInv
<1>4. NotStarted /\ ClosedWell /\ NoStrayGeneration /\ InStep
  BY <1>2 DEF Init, NotStarted, ClosedWell, NoStrayGeneration, InStep
<1>5. QED
  BY <1>1, <1>3, <1>4 DEF IInv

LEMMA InitSendWaits == Init => SendWaits
BY DEF Init, SendWaits

LEMMA NoSessionType == NoSession \in SideType /\ ~NoSession.closed
<1>1. 0 \in 0 .. MaxTurns /\ Rejected \in Replies \cup OutcomeSet \cup {Rejected}
  BY TurnsAssumption
<1>2. QED
  BY <1>1 DEF NoSession, SideType

\* The ledger is kept when neither rows nor rewards are added.
LEMMA SameLedger ==
  ASSUME Ledger, steps' = steps, earned' = earned
  PROVE  Ledger'
<1>1. ASSUME NEW i \in DOMAIN steps PROVE RowRight(steps[i])'
  BY DEF Ledger, RowRight, PaidFor
<1>2. DOMAIN steps' = DOMAIN steps /\ DOMAIN earned' = DOMAIN earned
  OBVIOUS
<1>3. QED
  BY <1>1, <1>2 DEF Ledger

\* A step of the sidecar concerns only what is on its way, and that only as
\* long as the flow is in the body of its try statement.
LEMMA SideFrame ==
  ASSUME IInv, UNCHANGED <<flowVars, process>>, stage \notin {"reset", "opening"},
         Active => /\ side' \in SideType /\ ~side'.closed
                   /\ (BeforeTurns \/ BetweenTurns \/ Generating \/ Acting)'
  PROVE  IInv'
<1>1. Ledger'
  BY SameLedger DEF flowVars, IInv
<1>2. TypeInv' /\ InStep'
  BY DEF flowVars, IInv, TypeInv, InStep, Active
<1>3. NotStarted' /\ ClosedWell' /\ NoStrayGeneration'
  BY DEF flowVars, IInv, NotStarted, ClosedWell, NoStrayGeneration, Active, HasEnded, PaidUpTo
<1>4. QED
  BY <1>1, <1>2, <1>3 DEF IInv

\* The flow gives up: the checks of what it has got do not matter any more.
LEMMA GiveUpFrame ==
  ASSUME IInv, UNCHANGED <<earned, steps, process>>,
         stage' \in {"closing", "closing environment", "raised"},
         why' \in {"environment", "sidecar", "timeout", "prompt", "engine"}
  PROVE  IInv'
<1>1. Ledger'
  BY SameLedger DEF IInv
<1>2. TypeInv' /\ InStep' /\ NotStarted' /\ ClosedWell' /\ NoStrayGeneration'
  BY DEF IInv, TypeInv, InStep, Active, NotStarted, ClosedWell, NoStrayGeneration
<1>3. QED
  BY <1>1, <1>2 DEF IInv

\* A step of the flow in the body of the try statement that adds no row.
LEMMA ActiveFrame ==
  ASSUME IInv, UNCHANGED <<earned, steps, process, side, why>>, Active, Active',
         (BeforeTurns \/ BetweenTurns \/ Generating \/ Acting)'
  PROVE  IInv'
<1>1. Ledger'
  BY SameLedger DEF IInv
<1>2. TypeInv' /\ InStep' /\ NotStarted' /\ ClosedWell' /\ NoStrayGeneration'
  BY DEF IInv, TypeInv, InStep, Active, NotStarted, ClosedWell, NoStrayGeneration
<1>3. QED
  BY <1>1, <1>2 DEF IInv

-----------------------------------------------------------------------------
(* The flow before and after the try statement *)

LEMMA ResetIInv == ASSUME IInv, Reset PROVE IInv'
<1> USE DEF Reset, At
<1>1. CASE stage' = "opening" /\ why' = why
  <2>1. Ledger'
    BY SameLedger DEF IInv
  <2>2. QED
    BY <1>1, <2>1 DEF IInv, TypeInv, NotStarted, ClosedWell, NoStrayGeneration, InStep, Active
<1>2. CASE stage' = "raised" /\ why' = "environment"
  BY <1>2, GiveUpFrame
<1>3. QED
  BY <1>1, <1>2

LEMMA OpenSessionIInv == ASSUME IInv, OpenSession PROVE IInv'
<1> USE DEF OpenSession, At
<1>1. /\ steps = <<>> /\ earned = <<>> /\ pending = {} /\ toFlow = <<>> /\ toSide = <<>>
      /\ side = NoSession /\ why = ""
  BY DEF IInv, NotStarted
<1>2. CASE Sent(Start) /\ stage' = "waiting" /\ why' = why
  <2>1. Ledger'
    BY <1>1, SameLedger DEF IInv
  <2>2. Append(<<>>, Start) = <<Start>>
    BY Joined
  <2>3. BeforeTurns'
    BY <1>1, <1>2, <2>2 DEF Sent, BeforeTurns, NoSession, Underway, Unread, IInv, TypeInv
  <2>4. side' \in SideType /\ ~side'.closed
    BY <1>1, NoSessionType
  <2>5. QED
    BY <1>1, <1>2, <2>1, <2>3, <2>4
    DEF IInv, TypeInv, NotStarted, ClosedWell, NoStrayGeneration, InStep, Active
<1>3. CASE stage' = "raised" /\ why' = "sidecar"
  BY <1>3, GiveUpFrame
<1>4. QED
  BY <1>2, <1>3

LEMMA CloseSessionIInv == ASSUME IInv, CloseSession PROVE IInv'
<1> USE DEF CloseSession, At
<1>1. CASE stage' = "closing environment" /\ why' = why
  <2>1. Ledger'
    BY SameLedger DEF IInv
  <2>2. QED
    BY <1>1, <2>1
    DEF IInv, TypeInv, NotStarted, ClosedWell, NoStrayGeneration, InStep, Active, HasEnded, PaidUpTo
<1>2. CASE stage' = "raised" /\ why' = "sidecar"
  BY <1>2, GiveUpFrame
<1>3. QED
  BY <1>1, <1>2

\* An episode that is complete passes the checks behind the try statement.
LEMMA CloseEnvironmentIInv ==
  ASSUME IInv, CloseEnvironment
  PROVE  IInv' /\ why' = why /\ (stage' = "returned" => why = "")
<1> USE DEF CloseEnvironment, At
<1>1. why = "" => pending = {} /\ HasEnded /\ PaidUpTo(Len(steps))
  BY DEF IInv, ClosedWell, Active
<1>2. why' = why /\ stage' \in {"returned", "raised"} /\ (stage' = "returned" => why = "")
  BY <1>1 DEF HasEnded
<1>3. Ledger'
  BY SameLedger DEF IInv
<1>4. QED
  BY <1>1, <1>2, <1>3
  DEF IInv, TypeInv, NotStarted, ClosedWell, NoStrayGeneration, InStep, Active, HasEnded, PaidUpTo

LEMMA EventTimesOutIInv == ASSUME IInv, EventTimesOut PROVE IInv'
BY GiveUpFrame DEF EventTimesOut, Raise

LEMMA DrainRaisesIInv == ASSUME IInv, DrainRaises PROVE IInv'
BY GiveUpFrame DEF DrainRaises

LEMMA SendWaitsKept == ASSUME SendWaits, [Next]_vars PROVE SendWaits'
<1>1. CASE Reset \/ OpenSession \/ NextEvent \/ EventTimesOut \/ CloseSession \/ CloseEnvironment
  BY <1>1 DEF Reset, OpenSession, NextEvent, EventTimesOut, CloseSession, CloseEnvironment,
              At, Raise, SendRaises, SendWaits
<1>2. CASE Generate
  BY <1>2 DEF Generate, At, Raise, SendRaises, SendWaits
<1>3. CASE StepEnvironment
  BY <1>3 DEF StepEnvironment, At, Raise, SendRaises, SendWaits
<1>4. CASE Drained \/ DrainRaises
  BY <1>4 DEF Drained, DrainRaises, SendWaits
<1>5. CASE SideStep \/ Crash \/ CrashNoticed
  <2>1. UNCHANGED flowVars
    BY <1>5 DEF SideStep, HandleCommand, CreateSession, StreamGeneration, TakeReply,
                TakeResult, TurnEnds, PromptReturns, Crash, CrashNoticed
  <2>2. QED
    BY <2>1 DEF flowVars, SendWaits
<1>6. CASE UNCHANGED vars
  BY <1>6 DEF vars, flowVars, SendWaits
<1>7. QED
  BY <1>1, <1>2, <1>3, <1>4, <1>5, <1>6 DEF Next, FlowStep

-----------------------------------------------------------------------------
(* The sidecar *)

\* Where the conversation stands decides where the sidecar does.
LEMMA Places ==
  ASSUME IInv, Active
  PROVE  /\ side.at \in {"absent", "loading"} => BeforeTurns
         /\ side.at \in {"prompting", "turn over", "ending"} => BetweenTurns
         /\ side.at = "generating" => Generating
         /\ side.at = "acting" => Acting
         /\ side.at = "over" => BeforeTurns \/ BetweenTurns
         /\ side \in SideType /\ why = "" /\ ~side.closed
BY DEF IInv, InStep, TypeInv, BeforeTurns, BetweenTurns, Generating, Acting

LEMMA SideFields ==
  ASSUME NEW s \in SideType
  PROVE  /\ s.turn \in Nat /\ s.turn <= MaxTurns /\ s.asked \in Nat
         /\ s.waits \in BOOLEAN /\ s.over \in BOOLEAN /\ s.byTool \in BOOLEAN
         /\ s.result \in Replies \cup OutcomeSet \cup {Rejected}
<1>1. s.turn \in 0 .. MaxTurns
  BY DEF SideType
<1>2. s.asked \in Nat
  BY DEF SideType
<1>3. s.waits \in BOOLEAN /\ s.over \in BOOLEAN /\ s.byTool \in BOOLEAN
  BY DEF SideType
<1>4. s.result \in Replies \cup OutcomeSet \cup {Rejected}
  BY DEF SideType
<1>5. s.turn \in Nat /\ s.turn <= MaxTurns
  BY <1>1, TurnsAssumption
<1>6. QED
  BY <1>2, <1>3, <1>4, <1>5

LEMMA NotStartedPlace ==
  ASSUME IInv, side.at # "absent"
  PROVE  stage \notin {"reset", "opening"}
<1>1. NoSession.at = "absent"
  BY DEF NoSession
<1>2. QED
  BY <1>1 DEF IInv, NotStarted

\* Emitted by a living sidecar, an event follows what the flow has to read.
LEMMA Emitted ==
  ASSUME process = "up", process' = process, Active, NEW event, Emit(event)
  PROVE  /\ Unread(<<>>) => Unread(<<event>>)'
         /\ \A x : Unread(<<x>> \o <<>>) => Unread(<<x>> \o <<event>>)'
<1>1. toFlow' = Append(toFlow, event)
  BY DEF Emit, Active, Listening
<1>2. QED
  BY <1>1, Joined DEF Unread

\* A next turn, or the end, is announced behind what the flow has to take in.
LEMMA Announced ==
  ASSUME process = "up", NEW event, Emit(event), UNCHANGED <<flowVars, process>>, Active,
         NEW k, NEW ended, TakenIn(k, ended, <<>>)
  PROVE  TakenIn(k, ended, <<event>>)'
<1>1. CASE Unread(<<>>) /\ pending = {} /\ Len(steps) = k /\ HasEnded = ended
  BY <1>1, Emitted DEF TakenIn, flowVars, PaidUpTo, HasEnded
<1>2. CASE Unread(<<Started>> \o <<>>) /\ pending = {} /\ Len(steps) = 0 /\ k = 0 /\ ~ended
  BY <1>2, Emitted DEF TakenIn, flowVars, PaidUpTo
<1>3. CASE \E reward \in Rewards, invalid \in BOOLEAN :
          /\ Unread(<<StepComplete(k, Outcome(reward, ended), invalid)>> \o <<>>)
          /\ RowRight([gen |-> k, reward |-> reward, ended |-> ended, invalid |-> invalid])
          /\ pending = {k} /\ Len(steps) = k - 1 /\ ~HasEnded
  <2> PICK reward \in Rewards, invalid \in BOOLEAN :
          /\ Unread(<<StepComplete(k, Outcome(reward, ended), invalid)>> \o <<>>)
          /\ RowRight([gen |-> k, reward |-> reward, ended |-> ended, invalid |-> invalid])
          /\ pending = {k} /\ Len(steps) = k - 1 /\ ~HasEnded
    BY <1>3
  <2>1. Unread(<<StepComplete(k, Outcome(reward, ended), invalid)>> \o <<event>>)'
    BY Emitted DEF flowVars
  <2>2. RowRight([gen |-> k, reward |-> reward, ended |-> ended, invalid |-> invalid])'
    BY DEF RowRight, PaidFor, flowVars
  <2>3. QED
    BY <2>1, <2>2 DEF TakenIn, flowVars, PaidUpTo, HasEnded
<1>4. QED
  BY <1>1, <1>2, <1>3 DEF TakenIn

\* What a living sidecar finds in its stdin is the one command that is underway.
LEMMA TakeCommand ==
  ASSUME NEW command, Underway(command), process = "up"
  PROVE  toSide # <<>> /\ Head(toSide) = command /\ Tail(toSide) = <<>>
BY Taken DEF Underway

LEMMA Responded ==
  ASSUME NEW s, NEW result, s.waits
  PROVE  Commanded(s, Response(s.asked, result)) = [s EXCEPT !.waits = FALSE, !.result = result]
<1> DEFINE r == Response(s.asked, result)
<1>1. r.type = "response" /\ r.to = s.asked /\ r.result = result
  BY DEF Response
<1> HIDE DEF r
<1>2. Commanded(s, r) = IF s.waits /\ s.asked = r.to
                        THEN [s EXCEPT !.waits = FALSE, !.result = r.result] ELSE s
  BY <1>1 DEF Commanded
<1>3. QED
  BY <1>1, <1>2 DEF r

LEMMA HandleCommandIInv == ASSUME IInv, HandleCommand PROVE IInv'
<1> USE DEF HandleCommand
<1>1. stage \notin {"reset", "opening"}
  BY DEF IInv, NotStarted
<1>2. UNCHANGED <<flowVars, process, toFlow>>
  OBVIOUS
<1>3. ASSUME Active
      PROVE  side' \in SideType /\ ~side'.closed /\ (BeforeTurns \/ Generating \/ Acting)'
  <2>1. CASE BeforeTurns
    <3>1. side.at = "absent" /\ Underway(Start) /\ Unread(<<>>)
      BY <2>1 DEF BeforeTurns
    <3>2. Head(toSide) = Start /\ toSide' = <<>>
      BY <3>1, TakeCommand
    <3>3. side' = [side EXCEPT !.at = "loading"]
      BY <3>2 DEF Commanded, Become, Start
    <3>4. QED
      BY <1>2, <1>3, <2>1, <3>1, <3>2, <3>3, Places
      DEF BeforeTurns, SideType, flowVars, Unread
  <2>2. CASE Generating
    <3>1. PICK reply \in Replies : Underway(Response(side.asked, reply))
      BY <2>2 DEF Generating
    <3>2. /\ side.at = "generating" /\ side.turn > 0 /\ side.waits
          /\ PaidUpTo(side.turn - 1) /\ stage = "waiting" /\ Inside(side.turn) /\ Unread(<<>>)
      BY <2>2 DEF Generating, TakenIn
    <3>3. Head(toSide) = Response(side.asked, reply) /\ toSide' = <<>>
      BY <3>1, TakeCommand
    <3>4. side' = [side EXCEPT !.waits = FALSE, !.result = reply]
      BY <3>2, <3>3, Responded DEF Become
    <3>5. side' \in SideType /\ ~side'.closed
      BY <1>3, <3>4, Places DEF SideType
    <3>6. Generating'
      BY <1>2, <1>3, <3>2, <3>3, <3>4, Places
      DEF Generating, SideType, flowVars, Unread, PaidUpTo, Inside, HasEnded
    <3>7. QED
      BY <3>5, <3>6
  <2>3. CASE Acting
    <3>1. PICK reward \in Rewards, done \in BOOLEAN :
            /\ PaidFor(side.turn) = {[gen |-> side.turn, reward |-> reward]}
            /\ Underway(Response(side.asked, Outcome(reward, done)))
      BY <2>3 DEF Acting
    <3>2. /\ side.at = "acting" /\ side.turn > 0 /\ side.waits
          /\ PaidUpTo(side.turn) /\ stage = "waiting" /\ Inside(side.turn) /\ Unread(<<>>)
      BY <2>3 DEF Acting
    <3>3. Head(toSide) = Response(side.asked, Outcome(reward, done)) /\ toSide' = <<>>
      BY <3>1, TakeCommand
    <3>4. side' = [side EXCEPT !.waits = FALSE, !.result = Outcome(reward, done)]
      BY <3>2, <3>3, Responded DEF Become
    <3>5. side' \in SideType /\ ~side'.closed
      <4>1. Outcome(reward, done) \in Replies \cup OutcomeSet \cup {Rejected}
        BY DEF OutcomeSet
      <4>2. QED
        BY <1>3, <3>4, <4>1, Places DEF SideType
    <3>6. Acting'
      <4>1. PaidFor(side.turn)' = {[gen |-> side.turn, reward |-> reward]}
        BY <3>1, <3>4, <1>2, <1>3, Places DEF PaidFor, flowVars, SideType
      <4>2. QED
        BY <1>2, <1>3, <3>2, <3>3, <3>4, <4>1, Places
        DEF Acting, SideType, flowVars, Unread, PaidUpTo, Inside, HasEnded
    <3>7. QED
      BY <3>5, <3>6
  <2>4. ~BetweenTurns
    BY DEF BetweenTurns
  <2>5. QED
    BY <1>3, <2>1, <2>2, <2>3, <2>4 DEF IInv, InStep
<1>4. QED
  BY <1>1, <1>2, <1>3, SideFrame

LEMMA CreateSessionIInv == ASSUME IInv, CreateSession PROVE IInv'
<1> USE DEF CreateSession
<1>1. stage \notin {"reset", "opening"}
  BY NotStartedPlace
<1>2. UNCHANGED <<flowVars, process, toSide>> /\ process = "up"
  OBVIOUS
<1>3. ASSUME Active
      PROVE  side' \in SideType /\ ~side'.closed /\ (BeforeTurns \/ BetweenTurns)'
  <2>1. BeforeTurns /\ side \in SideType /\ ~side.closed /\ Unread(<<>>)
    BY <1>3, Places DEF BeforeTurns
  <2>2. CASE /\ Emit(Started)
             /\ side' = [side EXCEPT !.at = "prompting", !.listed = TRUE]
    <3>1. Unread(<<Started>>)'
      BY <1>2, <1>3, <2>1, <2>2, Emitted
    <3>2. Unread(<<Started>> \o <<>>)'
      BY <3>1, Joined
    <3>3. side'.turn = 0 /\ Len(steps') = 0 /\ PaidUpTo(0)'
      <4>1. side'.turn = 0
        BY <2>1, <2>2 DEF BeforeTurns, SideType
      <4>2. steps' = <<>> /\ earned' = <<>> /\ DOMAIN earned' = {}
        BY <1>2, <2>1 DEF BeforeTurns, flowVars
      <4>3. QED
        BY <4>1, <4>2 DEF PaidUpTo
    <3>4. TakenIn(0, FALSE, <<>>)'
      BY <1>2, <2>1, <3>2, <3>3 DEF BeforeTurns, TakenIn, flowVars
    <3>5. QED
      <4>1. side'.at = "prompting" /\ side'.turn < MaxTurns /\ side' \in SideType /\ ~side'.closed
        <5>1. 0 < MaxTurns
          BY TurnsAssumption
        <5>2. side' \in SideType /\ ~side'.closed /\ side'.at = "prompting"
          BY <2>1, <2>2 DEF SideType
        <5>3. QED
          BY <3>3, <5>1, <5>2
      <4>2. QED
        BY <1>2, <2>1, <3>3, <3>4, <4>1 DEF BetweenTurns, BeforeTurns
  <2>3. CASE /\ Emit(Event("session_error", 0))
             /\ side' = [side EXCEPT !.at = "over"]
    BY <1>2, <1>3, <2>1, <2>3, Emitted DEF BeforeTurns, flowVars, SideType
  <2>4. QED
    BY <2>2, <2>3 DEF Become, Started
<1>4. QED
  BY <1>1, <1>2, <1>3, SideFrame

\* A turn begins where the last one was taken in, or is about to be.
LEMMA StreamGenerationIInv == ASSUME IInv, StreamGeneration PROVE IInv'
<1> USE DEF StreamGeneration
<1>1. stage \notin {"reset", "opening"}
  BY NotStartedPlace
<1>2. UNCHANGED <<flowVars, process, toSide>> /\ process = "up" /\ side.at = "prompting"
  OBVIOUS
<1>3. ASSUME Active
      PROVE  side' \in SideType /\ ~side'.closed /\ Generating'
  <2>1. side \in SideType /\ ~side.closed /\ toSide = <<>> /\ side.turn < MaxTurns
        /\ TakenIn(side.turn, FALSE, <<>>)
    BY <1>2, <1>3, Places DEF BetweenTurns
  <2>2. PICK k \in Nat : k = side.turn
    BY <2>1, SideFields
  <2>3. PICK id \in Nat : id = side.asked + 1
    BY <2>1, SideFields
  <2> DEFINE request == [type |-> "generation_request", gen |-> k + 1, id |-> id]
  <2>4. /\ side' = [side EXCEPT !.turn = k + 1, !.at = "generating", !.asked = id, !.waits = TRUE]
        /\ Emit(request)
    BY <2>1, <2>2, <2>3 DEF Become, Asking, Request, SideType
  <2>5. TakenIn(k, FALSE, <<request>>)'
    <3> HIDE DEF request
    <3> QED BY <1>2, <1>3, <2>1, <2>2, <2>4, Announced
  <2>6. side' \in SideType /\ ~side'.closed /\ side'.turn = k + 1 /\ side'.asked = id
        /\ side'.at = "generating" /\ side'.waits
    <3>1. k + 1 \in 0 .. MaxTurns
      BY <2>1, <2>2, TurnsAssumption
    <3>2. QED
      BY <2>1, <2>3, <2>4, <3>1 DEF SideType
  <2>7. side'.turn > 0 /\ side'.turn - 1 = k
    BY <2>6
  <2>8. QED
    BY <1>2, <2>1, <2>5, <2>6, <2>7 DEF Generating, TakenIn
<1>4. QED
  BY <1>1, <1>2, <1>3, SideFrame

LEMMA NothingPaid ==
  ASSUME IInv, NEW k \in Nat, k > 0, PaidUpTo(k - 1)
  PROVE  PaidFor(k) = {} /\ PaidUpTo(k)
<1>1. earned \in Seq(EarnedType)
  BY DEF IInv, TypeInv
<1>2. ASSUME NEW i \in DOMAIN earned PROVE earned[i].gen \in Nat
  <2>1. earned[i] \in EarnedType
    BY <1>1
  <2>2. QED
    BY <2>1 DEF EarnedType
<1>3. \A i \in DOMAIN earned : earned[i].gen <= k - 1
  BY DEF PaidUpTo
<1>4. QED
  BY <1>2, <1>3 DEF PaidFor, PaidUpTo, ToSet

\* The end of a turn puts its row before the flow.
LEMMA TurnEnded ==
  ASSUME process = "up", UNCHANGED <<flowVars, process, toSide>>, toSide = <<>>,
         side \in SideType, ~side.closed, side.turn > 0,
         stage = "waiting", Inside(side.turn), Unread(<<>>), PaidUpTo(side.turn),
         NEW reward \in Rewards, NEW done \in BOOLEAN, NEW invalid \in BOOLEAN,
         PaidFor(side.turn) = IF invalid THEN {} ELSE {[gen |-> side.turn, reward |-> reward]},
         EndTurn(side, Outcome(reward, done), invalid)
  PROVE  side' \in SideType /\ ~side'.closed /\ BetweenTurns'
<1>1. PICK k \in Nat : k = side.turn /\ k <= MaxTurns
  BY SideFields
<1>2. PICK ended \in BOOLEAN : ended = (done \/ k >= MaxTurns)
  OBVIOUS
<1>3. Limited(side, Outcome(reward, done)) = Outcome(reward, ended)
  BY <1>1, <1>2 DEF Limited, Outcome
<1>4. Outcome(reward, ended).ended = ended
  BY DEF Outcome
<1>5. /\ Emit(StepComplete(k, Outcome(reward, ended), invalid))
      /\ side' = [side EXCEPT !.at = "turn over", !.over = ended]
  BY <1>1, <1>3, <1>4 DEF EndTurn, Become
<1>6. side' \in SideType /\ ~side'.closed /\ side'.turn = k /\ side'.over = ended /\ side'.at = "turn over"
  BY <1>1, <1>5 DEF SideType
<1> DEFINE row == StepComplete(k, Outcome(reward, ended), invalid)
<1>7. Unread(<<row>> \o <<>>)'
  <2> HIDE DEF row
  <2>1. Active
    BY DEF Active
  <2>2. Unread(<<row>>)'
    BY <1>5, <2>1, Emitted DEF row
  <2>3. QED
    BY <2>2, Joined
<1>8. RowRight([gen |-> k, reward |-> reward, ended |-> ended, invalid |-> invalid])'
  BY <1>1 DEF RowRight, PaidFor, flowVars
<1>9. TakenIn(k, ended, <<>>)'
  BY <1>1, <1>7, <1>8 DEF TakenIn, flowVars, PaidUpTo, Inside, HasEnded
<1>10. side'.turn = MaxTurns => side'.over
  BY <1>1, <1>2, <1>6, TurnsAssumption
<1>11. QED
  BY <1>1, <1>6, <1>9, <1>10 DEF BetweenTurns

LEMMA TakeReplyIInv == ASSUME IInv, TakeReply PROVE IInv'
<1> USE DEF TakeReply
<1>1. stage \notin {"reset", "opening"}
  BY NotStartedPlace
<1>2. UNCHANGED <<flowVars, process, toSide>> /\ process = "up" /\ side.at = "generating" /\ ~side.waits
  OBVIOUS
<1>3. ASSUME Active
      PROVE  side' \in SideType /\ ~side'.closed /\ (BetweenTurns \/ Acting)'
  <2>1. /\ side \in SideType /\ ~side.closed /\ side.turn > 0 /\ PaidUpTo(side.turn - 1)
        /\ stage = "waiting" /\ Inside(side.turn) /\ Unread(<<>>) /\ toSide = <<>>
        /\ side.result \in Replies
    BY <1>2, <1>3, Places DEF Generating
  <2>2. PICK k \in Nat : k = side.turn
    BY <2>1, SideFields
  <2>3. PICK id \in Nat : id = side.asked + 1
    BY <2>1, SideFields
  <2> DEFINE request == [type |-> "environment_request", gen |-> k, id |-> id]
  <2>4. ASSUME NEW byTool \in BOOLEAN,
               Become(Asking([side EXCEPT !.byTool = byTool], "acting")),
               Emit(Request(side, "environment_request"))
        PROVE  side' \in SideType /\ ~side'.closed /\ Acting'
    <3>1. /\ side' = [side EXCEPT !.byTool = byTool, !.at = "acting", !.asked = id, !.waits = TRUE]
          /\ Emit(request)
      BY <2>1, <2>2, <2>3, <2>4 DEF Become, Asking, Request, SideType
    <3>2. side' \in SideType /\ ~side'.closed /\ side'.turn = k /\ side'.asked = id
          /\ side'.at = "acting" /\ side'.waits
      BY <2>1, <2>2, <2>3, <3>1 DEF SideType
    <3>3. Unread(<<request>>)'
      <4> HIDE DEF request
      <4> QED BY <1>2, <1>3, <2>1, <3>1, Emitted
    <3>4. QED
      BY <1>2, <2>1, <2>2, <3>2, <3>3 DEF Acting, flowVars, PaidUpTo, Inside, HasEnded
  <2>5. CASE EndTurn(side, Outcome(0, FALSE), TRUE)
    <3>1. PaidFor(side.turn) = {} /\ PaidUpTo(side.turn)
      BY <2>1, <2>2, NothingPaid
    <3>2. QED
      BY <1>2, <2>1, <2>5, <3>1, TurnEnded, RewardsAssumption
  <2>6. side.result.kind \in {"tool", "text", "refused"}
    BY <2>1 DEF Replies
  <2>7. QED
    BY <2>4, <2>5, <2>6
<1>4. QED
  BY <1>1, <1>2, <1>3, SideFrame

LEMMA TakeResultIInv == ASSUME IInv, TakeResult PROVE IInv'
<1> USE DEF TakeResult
<1>1. stage \notin {"reset", "opening"}
  BY NotStartedPlace
<1>2. UNCHANGED <<flowVars, process, toSide>> /\ process = "up" /\ side.at = "acting" /\ ~side.waits
  OBVIOUS
<1>3. ASSUME Active
      PROVE  side' \in SideType /\ ~side'.closed /\ BetweenTurns'
  <2>1. /\ side \in SideType /\ ~side.closed /\ side.turn > 0 /\ PaidUpTo(side.turn)
        /\ stage = "waiting" /\ Inside(side.turn) /\ Unread(<<>>) /\ toSide = <<>>
    BY <1>2, <1>3, Places DEF Acting
  <2>2. PICK reward \in Rewards, done \in BOOLEAN :
          /\ PaidFor(side.turn) = {[gen |-> side.turn, reward |-> reward]}
          /\ side.result = Outcome(reward, done)
    BY <1>2, <1>3, Places DEF Acting
  <2>3. EndTurn(side, Outcome(reward, done), FALSE)
    <3>1. Outcome(reward, done).kind = "outcome"
      BY DEF Outcome
    <3>2. QED
      BY <2>2, <3>1
  <2>4. QED
    BY <1>2, <2>1, <2>2, <2>3, TurnEnded
<1>4. QED
  BY <1>1, <1>2, <1>3, SideFrame

LEMMA AtTheLimit ==
  ASSUME NEW k \in Nat, k <= MaxTurns, NEW over \in BOOLEAN, k = MaxTurns => over
  PROVE  (k >= MaxTurns => over) /\ (k < MaxTurns \/ over)
BY TurnsAssumption

LEMMA TurnEndsIInv == ASSUME IInv, TurnEnds PROVE IInv'
<1> USE DEF TurnEnds
<1>1. stage \notin {"reset", "opening"}
  BY NotStartedPlace
<1>2. /\ UNCHANGED <<flowVars, process, toSide, toFlow>>
      /\ process = "up" /\ side.at = "turn over"
  BY DEF Silent
<1>3. ASSUME Active
      PROVE  side' \in SideType /\ ~side'.closed /\ BetweenTurns'
  <2>1. /\ side \in SideType /\ ~side.closed /\ side.turn > 0 /\ toSide = <<>>
        /\ side.turn = MaxTurns => side.over
        /\ TakenIn(side.turn, side.over, <<>>)
    BY <1>2, <1>3, Places DEF BetweenTurns
  <2>2. PICK k \in Nat, over \in BOOLEAN : k = side.turn /\ over = side.over /\ k <= MaxTurns
    BY <2>1, SideFields
  <2>3. k = MaxTurns => over
    BY <2>1, <2>2, Zenon
  <2>4. (k >= MaxTurns => over) /\ (k < MaxTurns \/ over)
    BY <2>2, <2>3, AtTheLimit, Zenon
  <2>5. side' = [side EXCEPT !.at = IF over THEN "ending" ELSE "prompting"]
    <3>1. (side.closed \/ side.over \/ side.turn >= MaxTurns) <=> over
      <4>1. side.turn >= MaxTurns => over
        BY <2>2, <2>4, Zenon
      <4>2. QED
        BY <2>1, <2>2, <4>1, Zenon
    <3>2. QED
      BY <3>1, Zenon DEF Become
  <2>6. /\ side' \in SideType /\ ~side'.closed /\ side'.turn = k
        /\ side'.at = IF over THEN "ending" ELSE "prompting"
    BY <2>1, <2>2, <2>5 DEF SideType
  <2>7. TakenIn(k, over, <<>>)'
    BY <1>2, <2>1, <2>2 DEF TakenIn, flowVars, Unread, PaidUpTo, HasEnded, RowRight, PaidFor
  <2>8. CASE over
    BY <1>2, <2>1, <2>2, <2>6, <2>7, <2>8 DEF BetweenTurns
  <2>9. CASE ~over
    <3>1. k < MaxTurns
      BY <2>4, <2>9, Zenon
    <3>2. QED
      BY <1>2, <2>1, <2>2, <2>6, <2>7, <2>9, <3>1 DEF BetweenTurns
  <2>10. QED
    BY <2>8, <2>9
<1>4. QED
  BY <1>1, <1>2, <1>3, SideFrame

LEMMA PromptReturnsIInv == ASSUME IInv, PromptReturns PROVE IInv'
<1> USE DEF PromptReturns
<1>1. stage \notin {"reset", "opening"}
  BY NotStartedPlace
<1>2. UNCHANGED <<flowVars, process, toSide>> /\ process = "up" /\ side.at = "ending"
  OBVIOUS
<1>3. ASSUME Active
      PROVE  side' \in SideType /\ ~side'.closed /\ BetweenTurns'
  <2>1. /\ side \in SideType /\ ~side.closed /\ side.turn > 0 /\ toSide = <<>>
        /\ TakenIn(side.turn, TRUE, <<>>)
    BY <1>2, <1>3, Places DEF BetweenTurns
  <2>2. PICK k \in Nat : k = side.turn
    BY <2>1, SideFields
  <2> DEFINE event == Event("session_complete", k)
  <2>3. Emit(event) /\ side' = [side EXCEPT !.at = "over"]
    BY <2>2 DEF Become
  <2>4. side' \in SideType /\ ~side'.closed /\ side'.turn = k /\ side'.at = "over"
    BY <2>1, <2>2, <2>3 DEF SideType
  <2>5. TakenIn(k, TRUE, <<event>>)'
    <3> HIDE DEF event
    <3> QED BY <1>2, <1>3, <2>1, <2>2, <2>3, Announced
  <2>6. QED
    BY <1>2, <2>1, <2>2, <2>4, <2>5 DEF BetweenTurns
<1>4. QED
  BY <1>1, <1>2, <1>3, SideFrame

-----------------------------------------------------------------------------
(* The end of the process *)

LEMMA StillTakenIn ==
  ASSUME UNCHANGED <<stage, earned, pending, steps>>, NEW k, NEW ended, NEW tail,
         \A events : Unread(events) => Unread(events)',
         TakenIn(k, ended, tail)
  PROVE  TakenIn(k, ended, tail)'
<1>1. ASSUME NEW row PROVE RowRight(row)' <=> RowRight(row)
  BY DEF RowRight, PaidFor
<1>2. PaidUpTo(k)' /\ HasEnded' = HasEnded /\ pending' = pending /\ steps' = steps /\ stage' = stage
  BY DEF TakenIn, PaidUpTo, HasEnded
<1>3. CASE Unread(tail) /\ pending = {} /\ Len(steps) = k /\ HasEnded = ended
  BY <1>2, <1>3 DEF TakenIn
<1>4. CASE Unread(<<Started>> \o tail) /\ pending = {} /\ Len(steps) = 0 /\ k = 0 /\ ~ended
  BY <1>2, <1>4 DEF TakenIn
<1>5. ASSUME NEW reward \in Rewards, NEW invalid \in BOOLEAN,
             Unread(<<StepComplete(k, Outcome(reward, ended), invalid)>> \o tail),
             RowRight([gen |-> k, reward |-> reward, ended |-> ended, invalid |-> invalid]),
             pending = {k} /\ Len(steps) = k - 1 /\ ~HasEnded
      PROVE  TakenIn(k, ended, tail)'
  BY <1>1, <1>2, <1>5 DEF TakenIn
<1>6. QED
  BY <1>3, <1>4, <1>5 DEF TakenIn

\* The sidecar dies, or is known to have died: what it has written is still
\* read, what was written to it is not.
LEMMA ProcessFrame ==
  ASSUME IInv, UNCHANGED <<flowVars, side>>, process' \in {"dead", "noticed"},
         \A events : Active /\ Unread(events) => Unread(events)',
         Active \/ stage \in {"reset", "opening"} => toSide' = <<>>,
         stage \in {"reset", "opening"} => toFlow' = toFlow
  PROVE  IInv'
<1>1. Ledger'
  BY SameLedger DEF flowVars, IInv
<1>2. TypeInv' /\ NotStarted' /\ ClosedWell' /\ NoStrayGeneration'
  BY DEF flowVars, IInv, TypeInv, NotStarted, ClosedWell, NoStrayGeneration, Active, HasEnded, PaidUpTo
<1>3. ASSUME Active PROVE (BeforeTurns \/ BetweenTurns \/ Generating \/ Acting)'
  <2>1. /\ side' = side /\ toSide' = <<>> /\ process' # "up" /\ stage' = stage
        /\ pending' = pending /\ steps' = steps /\ earned' = earned /\ current' = current
    BY <1>3 DEF flowVars
  <2>2. \A events : Unread(events) => Unread(events)'
    BY <1>3
  <2>3. ASSUME NEW command PROVE Underway(command)'
    BY <2>1 DEF Underway
  <2>4. ASSUME NEW k, NEW ended, NEW tail, TakenIn(k, ended, tail)
        PROVE  TakenIn(k, ended, tail)'
    BY <2>2, <2>4, StillTakenIn DEF flowVars
  <2>5. ASSUME NEW k, PaidUpTo(k) PROVE PaidUpTo(k)'
    BY <2>1, <2>5 DEF PaidUpTo
  <2>6. ASSUME NEW k PROVE PaidFor(k)' = PaidFor(k)
    BY <2>1 DEF PaidFor
  <2>7. ASSUME NEW k, Inside(k) PROVE Inside(k)'
    BY <2>1, <2>7 DEF Inside, HasEnded
  <2>8. HasEnded' = HasEnded
    BY <2>1 DEF HasEnded
  <2>9. CASE BeforeTurns
    BY <2>1, <2>2, <2>3, <2>9 DEF BeforeTurns
  <2>10. CASE BetweenTurns
    BY <2>1, <2>4, <2>10 DEF BetweenTurns
  <2>11. CASE Generating
    BY <2>1, <2>2, <2>3, <2>4, <2>5, <2>7, <2>8, <2>11 DEF Generating
  <2>12. CASE Acting
    BY <2>1, <2>2, <2>3, <2>5, <2>6, <2>7, <2>12 DEF Acting
  <2>13. QED
    BY <1>3, <2>9, <2>10, <2>11, <2>12 DEF IInv, InStep
<1>4. InStep'
  BY <1>3 DEF InStep, Active, flowVars
<1>5. QED
  BY <1>1, <1>2, <1>4 DEF IInv

LEMMA CrashIInv == ASSUME IInv, Crash PROVE IInv'
<1>1. \A events : Unread(events) => Unread(events)'
  BY DEF Crash, Unread
<1>2. QED
  BY <1>1, ProcessFrame DEF Crash

LEMMA CrashNoticedIInv == ASSUME IInv, CrashNoticed PROVE IInv'
<1> USE DEF CrashNoticed
<1>1. \A events : Active /\ Unread(events) => Unread(events)'
  BY DEF Unread, Emit, Active, Listening, SidecarError
<1>2. stage \in {"reset", "opening"} => toFlow' = toFlow /\ toSide' = <<>>
  BY DEF Emit, Listening, IInv, NotStarted
<1>3. ASSUME Active PROVE toSide' = <<>>
  BY <1>3 DEF IInv, InStep, BeforeTurns, BetweenTurns, Generating, Acting, Underway
<1>4. QED
  BY <1>1, <1>2, <1>3, ProcessFrame

-----------------------------------------------------------------------------
(* The flow in the body of its try statement *)

\* A generation is made for a turn the sidecar has announced.
LEMMA GenerateIInv == ASSUME IInv, Generate PROVE IInv'
<1> USE DEF Generate, At
<1>1. UNCHANGED <<earned, steps, toFlow, process, side>> /\ Active
  BY DEF Active
<1>2. CASE Raise("prompt") \/ Raise("engine")
  BY <1>2, GiveUpFrame DEF Raise
<1>3. CASE SendRaises /\ Raise("sidecar")
  BY <1>3, GiveUpFrame DEF Raise
<1>4. ASSUME NEW reply \in Replies, Sent(Response(current.id, reply)),
             stage' = "waiting", UNCHANGED why, pending' = pending \cup {current.gen}
      PROVE  IInv'
  <2>1. /\ side.at = "generating" /\ side.turn > 0 /\ side.waits /\ PaidUpTo(side.turn - 1)
        /\ toSide = <<>> /\ Unread(<<>>) /\ pending = {} /\ Len(steps) = side.turn - 1 /\ ~HasEnded
        /\ current = [type |-> "generation_request", gen |-> side.turn, id |-> side.asked]
    BY <1>1 DEF IInv, InStep, BeforeTurns, BetweenTurns, Generating, Acting, TakenIn
  <2>2. current.id = side.asked /\ current.gen = side.turn
    BY <2>1
  <2>3. Underway(Response(side.asked, reply))'
    BY <1>1, <1>4, <2>1, <2>2, Joined DEF Sent, Underway
  <2>4. Generating'
    BY <1>1, <1>4, <2>1, <2>2, <2>3 DEF Generating, Inside, Unread, PaidUpTo, HasEnded
  <2>5. QED
    BY <1>1, <1>4, <2>4, ActiveFrame DEF Active
<1>5. QED
  BY <1>2, <1>3, <1>4

\* The environment pays for the generation that follows the rows, once.
LEMMA EarnedOnce ==
  ASSUME IInv, NEW k \in Nat, k > 0, Len(steps) = k - 1, PaidUpTo(k - 1),
         NEW reward \in Rewards, steps' = steps,
         earned' = Append(earned, [gen |-> k, reward |-> reward])
  PROVE  /\ Ledger' /\ earned' \in Seq(EarnedType) /\ PaidUpTo(k)'
         /\ PaidFor(k)' = {[gen |-> k, reward |-> reward]}
<1> DEFINE new == [gen |-> k, reward |-> reward]
<1>1. new \in EarnedType /\ new.gen = k
  BY DEF EarnedType
<1>2. earned \in Seq(EarnedType) /\ steps \in Seq(StepType) /\ Ledger
  BY DEF IInv, TypeInv
<1>3. \A i \in DOMAIN earned : earned[i].gen \in Nat /\ earned[i].gen <= k - 1
  <2>1. \A i \in DOMAIN earned : earned[i] \in EarnedType
    BY <1>2
  <2>2. QED
    BY <2>1 DEF EarnedType, PaidUpTo
<1> HIDE DEF new
<1>4. PICK n \in Nat : n = Len(earned)
  BY <1>2
<1>5. DOMAIN earned = 1 .. n /\ DOMAIN earned' = 1 .. n + 1
  BY <1>1, <1>2, <1>4 DEF new
<1>6. earned' \in Seq(EarnedType) /\ earned'[n + 1] = new
  BY <1>1, <1>2, <1>4 DEF new
<1>7. \A i \in 1 .. n : earned'[i] = earned[i]
  BY <1>1, <1>2, <1>4 DEF new
<1>8. ToSet(earned') = ToSet(earned) \cup {new}
  BY <1>5, <1>6, <1>7 DEF ToSet
<1>9. PaidFor(k)' = {new}
  <2>1. \A paid \in ToSet(earned) : paid.gen # k
    BY <1>3 DEF ToSet
  <2>2. QED
    BY <1>1, <1>8, <2>1 DEF PaidFor
<1>10. PaidUpTo(k)'
  BY <1>1, <1>3, <1>5, <1>6, <1>7 DEF PaidUpTo
<1>11. ASSUME NEW i \in DOMAIN steps PROVE RowRight(steps[i])'
  <2>1. i \in Nat /\ i <= k - 1 /\ steps[i].gen = i /\ RowRight(steps[i])
    BY <1>2 DEF Ledger
  <2>2. PaidFor(i)' = PaidFor(i)
    BY <1>1, <1>8, <2>1 DEF PaidFor
  <2>3. QED
    BY <2>1, <2>2 DEF RowRight
<1>12. ASSUME NEW i \in DOMAIN earned', NEW j \in DOMAIN earned', i < j
       PROVE  earned'[i].gen < earned'[j].gen
  <2>1. i \in 1 .. n
    BY <1>5, <1>12
  <2>2. CASE j \in 1 .. n
    BY <1>2, <1>5, <1>7, <1>12, <2>1, <2>2 DEF Ledger
  <2>3. CASE j = n + 1
    BY <1>1, <1>3, <1>5, <1>6, <1>7, <2>1, <2>3
  <2>4. QED
    BY <1>5, <2>2, <2>3
<1>13. Ledger'
  BY <1>2, <1>11, <1>12 DEF Ledger
<1>14. QED
  BY <1>6, <1>9, <1>10, <1>13 DEF new

LEMMA StepEnvironmentIInv == ASSUME IInv, StepEnvironment PROVE IInv'
<1> USE DEF StepEnvironment, At
<1>1. UNCHANGED <<pending, steps, toFlow, process, side>> /\ Active
  BY DEF Active
<1>2. CASE Raise("environment") /\ UNCHANGED earned
  BY <1>2, GiveUpFrame DEF Raise
<1>3. ASSUME NEW reward \in Rewards, NEW done \in BOOLEAN,
             earned' = Append(earned, [gen |-> current.gen, reward |-> reward]),
             \/ /\ Sent(Response(current.id, Outcome(reward, done)))
                /\ stage' = "waiting" /\ UNCHANGED why
             \/ SendRaises /\ Raise("sidecar")
      PROVE  IInv'
  <2>1. /\ side.at = "acting" /\ side.turn > 0 /\ side.waits /\ PaidUpTo(side.turn - 1)
        /\ toSide = <<>> /\ Unread(<<>>) /\ Inside(side.turn)
        /\ current = [type |-> "environment_request", gen |-> side.turn, id |-> side.asked]
    BY <1>1 DEF IInv, InStep, BeforeTurns, BetweenTurns, Generating, Acting, TakenIn
  <2>2. PICK k \in Nat : k = side.turn
    BY <1>1, Places, SideFields
  <2>3. current.id = side.asked /\ current.gen = k
    BY <2>1, <2>2
  <2>4. /\ Ledger' /\ earned' \in Seq(EarnedType) /\ PaidUpTo(k)'
        /\ PaidFor(k)' = {[gen |-> k, reward |-> reward]}
    BY <1>1, <1>3, <2>1, <2>2, <2>3, EarnedOnce DEF Inside
  <2>5. CASE /\ Sent(Response(current.id, Outcome(reward, done)))
             /\ stage' = "waiting" /\ UNCHANGED why
    <3>1. Underway(Response(side.asked, Outcome(reward, done)))'
      BY <1>1, <2>1, <2>3, <2>5, Joined DEF Sent, Underway
    <3>2. Acting'
      <4>1. PaidFor(side.turn)' = {[gen |-> side.turn, reward |-> reward]}
        BY <1>1, <2>2, <2>4
      <4>2. QED
        BY <1>1, <2>1, <2>2, <2>4, <2>5, <3>1, <4>1 DEF Acting, Inside, Unread, HasEnded
    <3>3. TypeInv' /\ NotStarted' /\ ClosedWell' /\ NoStrayGeneration' /\ InStep'
      BY <1>1, <2>4, <2>5, <3>2 DEF IInv, TypeInv, NotStarted, ClosedWell, NoStrayGeneration, InStep, Active
    <3>4. QED
      BY <2>4, <3>3 DEF IInv
  <2>6. CASE Raise("sidecar")
    <3>1. TypeInv' /\ NotStarted' /\ ClosedWell' /\ NoStrayGeneration' /\ InStep'
      BY <1>1, <2>4, <2>6 DEF Raise, IInv, TypeInv, NotStarted, ClosedWell, NoStrayGeneration, InStep, Active
    <3>2. QED
      BY <2>4, <3>1 DEF IInv
  <2>7. QED
    BY <1>3, <2>5, <2>6
<1>4. QED
  BY <1>2, <1>3

\* A row for the generation that follows, right by what was paid for it.
LEMMA RowAdded ==
  ASSUME IInv, NEW k \in Nat, k <= MaxTurns, Len(steps) = k - 1, ~HasEnded, earned' = earned,
         NEW reward \in Rewards, NEW ended \in BOOLEAN, NEW invalid \in BOOLEAN,
         RowRight([gen |-> k, reward |-> reward, ended |-> ended, invalid |-> invalid]),
         steps' = Append(steps, [gen |-> k, reward |-> reward, ended |-> ended, invalid |-> invalid])
  PROVE  Ledger' /\ steps' \in Seq(StepType) /\ Len(steps') = k /\ HasEnded' = ended
<1> DEFINE row == [gen |-> k, reward |-> reward, ended |-> ended, invalid |-> invalid]
<1>1. row \in StepType /\ row.gen = k /\ row.ended = ended
  BY DEF StepType
<1>2. steps \in Seq(StepType) /\ Ledger
  BY DEF IInv, TypeInv
<1>3. steps' = Append(steps, row) /\ RowRight(row)
  OBVIOUS
<1> HIDE DEF row
<1>4. PICK n \in Nat : n = Len(steps)
  BY <1>2
<1>5. k = n + 1
  BY <1>4
<1>6. /\ steps' \in Seq(StepType) /\ Len(steps') = k /\ steps'[k] = row
      /\ DOMAIN steps = 1 .. n /\ DOMAIN steps' = 1 .. k
  BY <1>1, <1>2, <1>3, <1>4, <1>5
<1>7. \A i \in 1 .. n : steps'[i] = steps[i]
  BY <1>1, <1>2, <1>3, <1>4
<1>8. HasEnded' = ended
  BY <1>1, <1>5, <1>6 DEF HasEnded
<1>9. ASSUME NEW r PROVE RowRight(r)' <=> RowRight(r)
  BY DEF RowRight, PaidFor
<1>10. ASSUME NEW i \in 1 .. n
       PROVE  steps'[i].gen = i /\ RowRight(steps[i]) /\ ~steps'[i].ended
  <2>1. steps'[i] = steps[i] /\ steps[i].gen = i /\ RowRight(steps[i])
    BY <1>2, <1>6, <1>7 DEF Ledger
  <2>2. ASSUME i < n PROVE ~steps[i].ended
    BY <1>2, <1>4, <1>6, <2>2 DEF Ledger
  <2>3. ASSUME i = n PROVE ~steps[i].ended
    BY <1>4, <2>3 DEF HasEnded
  <2>4. i < n \/ i = n
    OBVIOUS
  <2>5. QED
    BY <2>1, <2>2, <2>3, <2>4, Zenon
<1>11. ASSUME NEW i \in DOMAIN steps'
       PROVE  /\ steps'[i].gen = i /\ (RowRight(steps[i]))' /\ (i < Len(steps') => ~steps'[i].ended)
  <2>1. CASE i \in 1 .. n
    <3>1. RowRight(steps[i])' <=> RowRight(steps[i])
      BY <1>7, <2>1 DEF RowRight, PaidFor
    <3>2. QED
      BY <1>10, <2>1, <3>1
  <2>2. CASE i = k
    <3>1. RowRight(steps[i])' <=> RowRight(row)
      BY <1>6, <2>2 DEF RowRight, PaidFor
    <3>2. QED
      BY <1>1, <1>3, <1>6, <2>2, <3>1
  <2>3. QED
    BY <1>5, <1>6, <2>1, <2>2
<1>12. Ledger'
  BY <1>2, <1>6, <1>11 DEF Ledger
<1>13. QED
  BY <1>6, <1>8, <1>12

\* A step of the flow adds at most one row, to an episode that has not ended.
AddsRow ==
    \/ steps' = steps
    \/ \E row \in StepType : steps' = Append(steps, row) /\ ~HasEnded /\ Len(steps) < MaxTurns

\* What the flow does depends on the type of the event.
LEMMA Dispatch ==
  ASSUME NextEvent
  PROVE  /\ current' = Head(toFlow)
         /\ Head(toFlow).type = "session_started" => UNCHANGED <<stage, why, pending, steps>>
         /\ Head(toFlow).type = "generation_request" =>
                stage' = "generating" /\ UNCHANGED <<why, pending, steps>>
         /\ Head(toFlow).type = "environment_request" /\ Head(toFlow).gen \in pending =>
                stage' = "stepping" /\ UNCHANGED <<why, pending, steps>>
         /\ Head(toFlow).type = "session_complete" =>
                stage' = "closing" /\ UNCHANGED <<why, pending, steps>>
         /\ Head(toFlow).type \in {"session_error", "sidecar_error"} =>
                Raise("sidecar") /\ UNCHANGED <<pending, steps>>
BY DEF NextEvent, At

\* The flow takes in what is left of a turn, or has nothing left to take in.
LEMMA TakesIn ==
  ASSUME IInv, NextEvent, NEW k \in Nat, k <= MaxTurns, NEW ended \in BOOLEAN,
         NEW tail, tail = <<>> \/ \E y : tail = <<y>>, TakenIn(k, ended, tail)
  PROVE  \/ /\ Ledger' /\ steps' \in Seq(StepType) /\ AddsRow
            /\ TakenIn(k, ended, tail)' /\ stage' = "waiting" /\ why' = why
         \/ /\ Unread(tail) /\ pending = {} /\ Len(steps) = k /\ HasEnded = ended /\ PaidUpTo(k)
<1> USE DEF NextEvent, At
<1>1. UNCHANGED <<earned, process, side, toSide>> /\ toFlow' = Tail(toFlow)
  OBVIOUS
<1>2. CASE /\ Unread(<<Started>> \o tail)
           /\ pending = {} /\ Len(steps) = 0 /\ k = 0 /\ ~ended
  <2>1. Head(toFlow) = Started /\ Unread(tail)'
    BY <1>1, <1>2, ReadNext
  <2>2. UNCHANGED <<stage, why, pending, steps>>
    <3>1. Started.type = "session_started"
      BY DEF Started, Event
    <3>2. QED
      BY <2>1, <3>1, Dispatch
  <2>3. Ledger' /\ steps' \in Seq(StepType)
    BY <1>1, <2>2, SameLedger DEF IInv, TypeInv
  <2>4. ~HasEnded
    <3>1. steps = <<>>
      <4>1. steps \in Seq(StepType) /\ Len(steps) = 0
        BY <1>2, <2>2, <2>3
      <4>2. QED
        BY <4>1, NoneOf, Zenon
    <3>2. QED
      BY <3>1 DEF HasEnded
  <2>5. TakenIn(k, ended, tail)' /\ stage' = "waiting"
    BY <1>1, <1>2, <2>1, <2>2, <2>4 DEF TakenIn, PaidUpTo, HasEnded
  <2>6. QED
    BY <2>2, <2>3, <2>5 DEF AddsRow
<1>3. ASSUME NEW reward \in Rewards, NEW invalid \in BOOLEAN,
             Unread(<<StepComplete(k, Outcome(reward, ended), invalid)>> \o tail),
             RowRight([gen |-> k, reward |-> reward, ended |-> ended, invalid |-> invalid]),
             pending = {k}, Len(steps) = k - 1, ~HasEnded
      PROVE  /\ Ledger' /\ steps' \in Seq(StepType) /\ AddsRow
             /\ TakenIn(k, ended, tail)' /\ stage' = "waiting" /\ why' = why
  <2> DEFINE event == StepComplete(k, Outcome(reward, ended), invalid)
             row == [gen |-> k, reward |-> reward, ended |-> ended, invalid |-> invalid]
  <2>1. Head(toFlow) = event /\ Unread(tail)'
    <3> HIDE DEF event
    <3> QED BY <1>1, <1>3, ReadNext DEF event
  <2>2. /\ event.type = "step_complete" /\ event.gen = k /\ event.reward = reward
        /\ event.ended = ended /\ event.invalid = invalid
    BY DEF StepComplete, Outcome
  <2>3. /\ pending' = {} /\ steps' = Append(steps, row)
        /\ stage' = "waiting" /\ why' = why
    <3> HIDE DEF event
    <3> QED BY <1>3, <2>1, <2>2
  <2>4. Ledger' /\ steps' \in Seq(StepType) /\ Len(steps') = k /\ HasEnded' = ended
    BY <1>1, <1>3, <2>3, RowAdded
  <2>5. TakenIn(k, ended, tail)'
    BY <1>1, <2>1, <2>3, <2>4 DEF TakenIn, PaidUpTo
  <2>6. AddsRow
    <3>1. row \in StepType
      BY DEF StepType
    <3>2. Len(steps) < MaxTurns
      <4> HIDE DEF NextEvent, row, event
      <4>1. Len(steps) = k - 1
        BY <1>3
      <4>2. QED
        BY <4>1, TurnsAssumption
    <3> HIDE DEF row
    <3>3. QED
      BY <1>3, <2>3, <3>1, <3>2 DEF AddsRow
  <2>7. QED
    BY <2>3, <2>4, <2>5, <2>6
<1>4. QED
  BY <1>2, <1>3 DEF TakenIn

\* What the flow may find before it beyond the turns it has taken in.
LEMMA ReadLast ==
  ASSUME NEW x, Unread(<<x>>), process' = process, toFlow' = Tail(toFlow)
  PROVE  Head(toFlow) = x /\ Unread(<<>>)'
BY ReadNext, Joined

\* The client's notice that the sidecar is gone is all there is to read.
LEMMA NoticeIInv ==
  ASSUME IInv, NextEvent, Unread(<<>>)
  PROVE  IInv' /\ AddsRow
<1>1. Head(toFlow).type = "sidecar_error"
  <2>1. SidecarError.type = "sidecar_error"
    BY DEF SidecarError, Event
  <2>2. QED
    BY <2>1, ReadNotice DEF NextEvent, At
<1>2. UNCHANGED <<earned, steps, process>> /\ stage' = "closing" /\ why' = "sidecar"
  BY <1>1, Dispatch DEF NextEvent, At, Raise
<1>3. QED
  BY <1>2, GiveUpFrame DEF AddsRow

\* The flow stays in the loop, having taken in a row at most.
LEMMA LoopFrame ==
  ASSUME IInv, UNCHANGED <<earned, process, side, why>>, Active, Active',
         Ledger', steps' \in Seq(StepType),
         (BeforeTurns \/ BetweenTurns \/ Generating \/ Acting)'
  PROVE  IInv'
BY DEF IInv, TypeInv, InStep, Active, NotStarted, ClosedWell, NoStrayGeneration

LEMMA NextEventIInv == ASSUME IInv, NextEvent PROVE IInv' /\ AddsRow
<1> USE DEF NextEvent, At
<1>1. /\ UNCHANGED <<earned, process, side, toSide>> /\ toFlow' = Tail(toFlow) /\ Active
      /\ stage = "waiting"
  BY DEF Active
<1>2. side \in SideType /\ why = ""
  BY <1>1, Places
<1>3. CASE BeforeTurns
  <2>1. CASE Unread(<<>>)
    BY <2>1, NoticeIInv
  <2>2. CASE Unread(<<Event("session_error", 0)>>)
    <3>1. Head(toFlow) = Event("session_error", 0)
      BY <1>1, <2>2, ReadLast
    <3>2. Raise("sidecar") /\ UNCHANGED steps
      <4>1. Event("session_error", 0).type = "session_error"
        BY DEF Event
      <4>2. QED
        BY <3>1, <4>1, Dispatch
    <3>3. QED
      BY <1>1, <3>2, GiveUpFrame DEF Raise, AddsRow
  <2>3. QED
    BY <1>3, <2>1, <2>2 DEF BeforeTurns
<1>4. CASE BetweenTurns
  <2>1. PICK k \in Nat, over \in BOOLEAN : k = side.turn /\ over = side.over /\ k <= MaxTurns
    BY <1>2, SideFields
  <2>2. ASSUME NEW ended \in BOOLEAN, TakenIn(k, ended, <<>>),
               side.at \in {"prompting", "turn over", "ending"},
               TakenIn(k, ended, <<>>)' => BetweenTurns'
        PROVE  IInv' /\ AddsRow
    <3>1. CASE Unread(<<>>)
      BY <3>1, NoticeIInv
    <3>2. CASE /\ Ledger' /\ steps' \in Seq(StepType) /\ AddsRow
               /\ TakenIn(k, ended, <<>>)' /\ stage' = "waiting" /\ why' = why
      BY <1>1, <2>2, <3>2, LoopFrame DEF Active
    <3>3. QED
      BY <2>1, <2>2, <3>1, <3>2, TakesIn
  <2>3. CASE side.at = "prompting"
    BY <1>1, <1>4, <2>1, <2>2, <2>3 DEF BetweenTurns
  <2>4. CASE side.at = "turn over"
    BY <1>1, <1>4, <2>1, <2>2, <2>4 DEF BetweenTurns
  <2>5. CASE side.at = "ending"
    BY <1>1, <1>4, <2>1, <2>2, <2>5 DEF BetweenTurns
  <2>6. CASE side.at = "over"
    <3> DEFINE event == Event("session_complete", k)
    <3>1. TakenIn(k, TRUE, <<event>>) /\ toSide = <<>> /\ side.turn > 0
      BY <1>4, <2>1, <2>6 DEF BetweenTurns
    <3>2. CASE /\ Ledger' /\ steps' \in Seq(StepType) /\ AddsRow
               /\ TakenIn(k, TRUE, <<event>>)' /\ stage' = "waiting" /\ why' = why
      <4>1. BetweenTurns'
        BY <1>1, <2>1, <2>6, <3>1, <3>2 DEF BetweenTurns
      <4>2. QED
        BY <1>1, <3>2, <4>1, LoopFrame DEF Active
    <3>3. CASE Unread(<<event>>) /\ pending = {} /\ Len(steps) = k /\ HasEnded = TRUE /\ PaidUpTo(k)
      <4>1. Head(toFlow) = event
        <5> HIDE DEF event
        <5> QED BY <1>1, <3>3, ReadLast
      <4>2. stage' = "closing" /\ UNCHANGED <<why, pending, steps>>
        <5>1. event.type = "session_complete"
          BY DEF Event
        <5> HIDE DEF event
        <5>2. QED
          BY <4>1, <5>1, Dispatch
      <4>3. Ledger'
        BY <1>1, <4>2, SameLedger DEF IInv
      <4>4. ClosedWell'
        BY <1>1, <3>3, <4>2 DEF ClosedWell, HasEnded, PaidUpTo
      <4>5. TypeInv' /\ NotStarted' /\ NoStrayGeneration' /\ InStep'
        BY <1>1, <4>2 DEF IInv, TypeInv, NotStarted, NoStrayGeneration, InStep, Active
      <4>6. QED
        BY <4>2, <4>3, <4>4, <4>5 DEF IInv, AddsRow
    <3>4. QED
      <4> HIDE DEF event
      <4> QED BY <2>1, <3>1, <3>2, <3>3, TakesIn
  <2>7. QED
    BY <1>4, <2>3, <2>4, <2>5, <2>6 DEF BetweenTurns
<1>5. CASE Generating
  <2>0. side.turn \in Nat /\ side.turn > 0 /\ side.turn <= MaxTurns
    BY <1>2, <1>5, SideFields DEF Generating
  <2>1. PICK k \in Nat : k = side.turn - 1 /\ k <= MaxTurns /\ side.turn = k + 1
    <3> HIDE DEF NextEvent
    <3> QED BY <2>0, TurnsAssumption
  <2>2. PICK id \in Nat : id = side.asked
    BY <1>2, SideFields
  <2>3. side.at = "generating" /\ side.turn > 0 /\ PaidUpTo(k) /\ side.turn = k + 1
    BY <1>5, <2>1 DEF Generating
  <2> DEFINE request == [type |-> "generation_request", gen |-> k + 1, id |-> id]
  <2>4. CASE Unread(<<>>)
    BY <2>4, NoticeIInv
  <2>5. CASE side.waits /\ toSide = <<>> /\ TakenIn(k, FALSE, <<request>>)
    <3>1. CASE /\ Ledger' /\ steps' \in Seq(StepType) /\ AddsRow
               /\ TakenIn(k, FALSE, <<request>>)' /\ stage' = "waiting" /\ why' = why
      <4>1. Generating'
        BY <1>1, <2>1, <2>2, <2>3, <2>5, <3>1 DEF Generating, PaidUpTo
      <4>2. QED
        BY <1>1, <3>1, <4>1, LoopFrame DEF Active
    <3>2. CASE Unread(<<request>>) /\ pending = {} /\ Len(steps) = k /\ HasEnded = FALSE
      <4>1. Head(toFlow) = request /\ Unread(<<>>)'
        <5> HIDE DEF request
        <5> QED BY <1>1, <3>2, ReadLast
      <4>2. stage' = "generating" /\ current' = request /\ UNCHANGED <<why, pending, steps>>
        <5>1. request.type = "generation_request"
          OBVIOUS
        <5> HIDE DEF request
        <5>2. QED
          BY <4>1, <5>1, Dispatch
      <4>3. Ledger' /\ steps' \in Seq(StepType)
        BY <1>1, <4>2, SameLedger DEF IInv, TypeInv
      <4>4. Generating'
        BY <1>1, <2>1, <2>2, <2>3, <2>5, <3>2, <4>1, <4>2 DEF Generating, PaidUpTo, HasEnded
      <4>5. QED
        BY <1>1, <4>2, <4>3, <4>4, LoopFrame DEF Active, AddsRow
    <3>3. QED
      <4> HIDE DEF request, NextEvent
      <4>1. TakenIn(k, FALSE, <<request>>) /\ k <= MaxTurns
        BY <2>1, <2>5
      <4>2. \/ /\ Ledger' /\ steps' \in Seq(StepType) /\ AddsRow
               /\ TakenIn(k, FALSE, <<request>>)' /\ stage' = "waiting" /\ why' = why
            \/ Unread(<<request>>) /\ pending = {} /\ Len(steps) = k /\ HasEnded = FALSE
        BY <4>1, TakesIn
      <4> QED BY <3>1, <3>2, <4>2
  <2>6. QED
    BY <1>1, <1>5, <2>1, <2>2, <2>4, <2>5 DEF Generating
<1>6. CASE Acting
  <2> DEFINE request == [type |-> "environment_request", gen |-> side.turn, id |-> side.asked]
  <2>1. CASE Unread(<<>>)
    BY <2>1, NoticeIInv
  <2>2. CASE /\ side.waits /\ toSide = <<>> /\ PaidUpTo(side.turn - 1) /\ Unread(<<request>>)
    <3>1. side.at = "acting" /\ side.turn > 0 /\ Inside(side.turn)
      BY <1>6 DEF Acting
    <3>2. Head(toFlow) = request /\ Unread(<<>>)'
      <4> HIDE DEF request
      <4> QED BY <1>1, <2>2, ReadLast
    <3>3. stage' = "stepping" /\ current' = request /\ UNCHANGED <<why, pending, steps>>
      <4>1. request.type = "environment_request" /\ request.gen \in pending
        BY <3>1 DEF Inside
      <4> HIDE DEF request
      <4>2. QED
        BY <3>2, <4>1, Dispatch
    <3>4. Ledger' /\ steps' \in Seq(StepType)
      BY <1>1, <3>3, SameLedger DEF IInv, TypeInv
    <3>5. Acting'
      BY <1>1, <2>2, <3>1, <3>2, <3>3 DEF Acting, Inside, PaidUpTo, HasEnded
    <3>6. QED
      BY <1>1, <3>3, <3>4, <3>5, LoopFrame DEF Active, AddsRow
  <2>3. QED
    BY <1>1, <1>6, <2>1, <2>2 DEF Acting
<1>7. QED
  BY <1>1, <1>3, <1>4, <1>5, <1>6 DEF IInv, InStep

-----------------------------------------------------------------------------
(* The steps of the episode *)

\* What a step of the flow or the sidecar is to somebody who sees the rows and
\* the outcome of the episode only.
Over == stage \in {"returned", "raised"}
Seen ==
    \/ AddsRow /\ ~Over /\ ~Over'
    \/ steps' = steps /\ ~Over /\ stage' = "raised"
    \/ steps' = steps /\ ~Over /\ stage' = "returned" /\ HasEnded
    \/ steps' = steps /\ stage' = stage

LEMMA NextIInv ==
  ASSUME IInv, SendWaits, [Next]_vars
  PROVE  IInv' /\ Seen
<1>1. CASE Reset
  BY <1>1, ResetIInv DEF Reset, At, Seen, Over, AddsRow
<1>2. CASE OpenSession
  BY <1>2, OpenSessionIInv DEF OpenSession, At, Seen, Over, AddsRow
<1>3. CASE NextEvent
  <2>1. IInv' /\ AddsRow
    BY <1>3, NextEventIInv
  <2>2. ~Over /\ ~Over'
    BY <1>3 DEF NextEvent, At, Raise, Over
  <2>3. QED
    BY <2>1, <2>2 DEF Seen
<1>4. CASE EventTimesOut
  BY <1>4, EventTimesOutIInv DEF EventTimesOut, At, Raise, Seen, Over, AddsRow
<1>5. CASE Generate
  BY <1>5, GenerateIInv DEF Generate, At, Raise, Seen, Over, AddsRow
<1>6. CASE StepEnvironment
  BY <1>6, StepEnvironmentIInv DEF StepEnvironment, At, Raise, Seen, Over, AddsRow
<1>7. CASE CloseSession
  BY <1>7, CloseSessionIInv DEF CloseSession, At, Seen, Over, AddsRow
<1>8. CASE CloseEnvironment
  <2>1. IInv' /\ (stage' = "returned" => HasEnded)
    BY <1>8, CloseEnvironmentIInv DEF IInv, ClosedWell, Active, CloseEnvironment, At
  <2>2. steps' = steps /\ ~Over /\ stage' \in {"returned", "raised"}
    BY <1>8 DEF CloseEnvironment, At, Over
  <2>3. QED
    BY <2>1, <2>2 DEF Seen
<1>9. CASE SideStep
  <2>1. IInv'
    BY <1>9, HandleCommandIInv, CreateSessionIInv, StreamGenerationIInv, TakeReplyIInv,
       TakeResultIInv, TurnEndsIInv, PromptReturnsIInv
    DEF SideStep
  <2>2. UNCHANGED flowVars
    BY <1>9 DEF SideStep, HandleCommand, CreateSession, StreamGeneration, TakeReply,
                TakeResult, TurnEnds, PromptReturns
  <2>3. QED
    BY <2>1, <2>2 DEF Seen, flowVars
<1>10. CASE Crash \/ CrashNoticed
  <2>1. IInv'
    BY <1>10, CrashIInv, CrashNoticedIInv
  <2>2. QED
    BY <1>10, <2>1 DEF Crash, CrashNoticed, Seen, flowVars
<1>11. CASE UNCHANGED vars \/ Drained
  <2>0. UNCHANGED <<stage, why, env, earned, current, pending, steps, toSide, toFlow, process, side>>
    BY <1>11 DEF vars, flowVars, Drained
  <2>1. Ledger'
    BY <2>0, SameLedger DEF IInv
  <2>2. TypeInv' /\ NotStarted' /\ ClosedWell' /\ NoStrayGeneration'
    BY <2>0 DEF IInv, TypeInv, NotStarted, ClosedWell, NoStrayGeneration,
                 Active, HasEnded, PaidUpTo
  <2>3. InStep'
    <3>1. \A events : Unread(events) => Unread(events)'
      BY <2>0 DEF Unread
    <3>2. ASSUME NEW k, NEW ended, NEW tail, TakenIn(k, ended, tail)
          PROVE  TakenIn(k, ended, tail)'
      BY <2>0, <3>1, <3>2, StillTakenIn
    <3>3. BeforeTurns => BeforeTurns'
      BY <2>0 DEF BeforeTurns, Underway, Unread
    <3>4. BetweenTurns => BetweenTurns'
      BY <2>0, <3>2 DEF BetweenTurns
    <3>5. Generating => Generating'
      BY <2>0, <3>1, <3>2
      DEF Generating, Underway, Inside, HasEnded, PaidUpTo
    <3>6. Acting => Acting'
      BY <2>0, <3>1 DEF Acting, Underway, Inside, HasEnded, PaidUpTo, PaidFor
    <3>7. QED
      BY <2>0, <3>3, <3>4, <3>5, <3>6 DEF IInv, InStep, Active
  <2>4. QED
    BY <2>0, <2>1, <2>2, <2>3 DEF IInv, Seen
<1>12. CASE DrainRaises
  BY <1>12, DrainRaisesIInv DEF DrainRaises, SendWaits, Seen, Over, AddsRow
<1>13. QED
  BY <1>1, <1>2, <1>3, <1>4, <1>5, <1>6, <1>7, <1>8, <1>9, <1>10, <1>11, <1>12 DEF Next, FlowStep

-----------------------------------------------------------------------------
(* Flow and sidecar, though each sees the other late and either may give   *)
(* up at any time, never lose the thread: no request, no step and no end   *)
(* of a session reaches a flow that does not expect it.                    *)
THEOREM NeverAStray == Spec => []NoStrayGeneration
<1>1. IInv => NoStrayGeneration
  BY DEF IInv
<1>2. QED
  BY <1>1, InitIInv, NextIInv, InitSendWaits, SendWaitsKept, PTL DEF Spec

(* The rows of an episode carry what the environment paid, each under its  *)
(* own generation, and of an episode that is returned nothing is missing:  *)
(* for every turn limit, all rewards, and however late a message arrives.  *)
THEOREM RewardsArrive == Spec => []RewardsKept
<1>1. IInv => RewardsKept
  <2> SUFFICES ASSUME IInv PROVE RewardsKept
    OBVIOUS
  <2>1. Ledger
    BY DEF IInv
  <2>2. ASSUME stage = "returned", NEW i \in DOMAIN earned
        PROVE  earned[i].gen \in DOMAIN steps
    <3>1. earned[i].gen <= Len(steps)
      BY <2>2 DEF IInv, TypeInv, ClosedWell, Active, PaidUpTo
    <3>2. earned \in Seq(EarnedType) /\ steps \in Seq(StepType)
      BY DEF IInv, TypeInv
    <3>3. earned[i] \in EarnedType
      BY <2>2, <3>2
    <3>4. QED
      BY <3>1, <3>2, <3>3 DEF EarnedType
  <2>3. QED
    BY <2>1, <2>2 DEF Ledger, RewardsKept
<1>2. QED
  BY <1>1, InitIInv, NextIInv, InitSendWaits, SendWaitsKept, PTL DEF Spec

-----------------------------------------------------------------------------
(* The refinement *)

RowOf(step) == [reward |-> step.reward, ended |-> step.ended]
Rows == [i \in DOMAIN steps |-> [reward |-> steps[i].reward, ended |-> steps[i].ended]]
Result == IF stage \in {"returned", "raised"} THEN stage ELSE "running"

RowSet == [reward : Rewards, ended : BOOLEAN]

LEMMA RowTyped == ASSUME NEW step \in StepType PROVE RowOf(step) \in RowSet
BY DEF RowOf, RowSet, StepType

LEMMA RowsEnd ==
  ASSUME steps \in Seq(StepType)
  PROVE  /\ Rows \in Seq(RowSet) /\ Len(Rows) = Len(steps)
         /\ Rows # <<>> /\ Rows[Len(Rows)].ended <=> HasEnded
<1>1. PICK n \in Nat : n = Len(steps) /\ DOMAIN steps = 1 .. n
  OBVIOUS
<1>2. ASSUME NEW i \in 1 .. n
      PROVE  RowOf(steps[i]) \in RowSet
  BY <1>1, RowTyped
<1>3. Rows = [i \in 1 .. n |-> RowOf(steps[i])]
  BY <1>1 DEF Rows, RowOf
<1>4. Rows \in [1 .. n -> RowSet]
  BY <1>2, <1>3
<1>5. Rows \in Seq(RowSet) /\ Len(Rows) = n
  BY <1>4
<1>6. Rows # <<>> <=> n # 0
  BY <1>5, NoneOf
<1>7. steps # <<>> <=> n # 0
  BY <1>1, NoneOf
<1>8. n # 0 => Rows[n].ended = steps[n].ended
  BY <1>1 DEF Rows
<1>9. QED
  BY <1>1, <1>5, <1>6, <1>7, <1>8 DEF HasEnded

\* A row more there is a row more here.
LEMMA RowsGrow ==
  ASSUME steps \in Seq(StepType), NEW step \in StepType, steps' = Append(steps, step)
  PROVE  Rows' = Append(Rows, RowOf(step))
<1>1. PICK n \in Nat : n = Len(steps) /\ DOMAIN steps = 1 .. n
  OBVIOUS
<1>2. Rows \in Seq(RowSet) /\ Len(Rows) = n /\ RowOf(step) \in RowSet
  BY <1>1, RowsEnd, RowTyped
<1>3. /\ steps' \in Seq(StepType) /\ DOMAIN steps' = 1 .. n + 1 /\ steps'[n + 1] = step
      /\ \A i \in 1 .. n : steps'[i] = steps[i]
  BY <1>1
<1>4. Rows' = [i \in 1 .. n + 1 |-> RowOf(steps'[i])]
  BY <1>3 DEF Rows, RowOf
<1>5. Rows = [i \in 1 .. n |-> RowOf(steps[i])]
  BY <1>1 DEF Rows, RowOf
<1>6. Rows' \in Seq(RowSet) /\ Len(Rows') = n + 1
  <2>1. ASSUME NEW i \in 1 .. n + 1 PROVE RowOf(steps'[i]) \in RowSet
    <3>1. steps'[i] \in StepType
      BY <1>3
    <3>2. QED
      BY <3>1, RowTyped
  <2>2. Rows' \in [1 .. n + 1 -> RowSet]
    BY <1>4, <2>1
  <2>3. QED
    BY <2>2
<1>7. \A i \in 1 .. n + 1 : Rows'[i] = IF i <= n THEN Rows[i] ELSE RowOf(step)
  BY <1>1, <1>3, <1>4, <1>5
<1>8. QED
  BY <1>2, <1>6, <1>7, SameSeq

LEMMA EpisodeStep ==
  ASSUME IInv, SendWaits, [Next]_vars
  PROVE  [Episode!Next]_(Episode!vars)
<1>1. Seen
  BY NextIInv
<1>2. steps \in Seq(StepType)
  BY DEF IInv, TypeInv
<1>3. ASSUME steps' = steps PROVE Rows' = Rows
  BY <1>3 DEF Rows
<1>4. CASE steps' = steps /\ (stage' = stage \/ (~Over /\ ~Over'))
  <2>1. Rows' = Rows /\ Result' = Result
    BY <1>3, <1>4 DEF Result, Over
  <2>2. QED
    BY <2>1 DEF Episode!vars, Rows, Result
<1>5. CASE steps' = steps /\ ~Over /\ stage' = "raised"
  <2>1. Rows' = Rows /\ Result = "running" /\ Result' = "raised"
    BY <1>3, <1>5 DEF Result, Over
  <2>2. QED
    BY <2>1 DEF Episode!Next, Episode!Raise, Rows, Result
<1>6. CASE steps' = steps /\ ~Over /\ stage' = "returned" /\ HasEnded
  <2>1. Rows' = Rows /\ Result = "running" /\ Result' = "returned"
    BY <1>3, <1>6 DEF Result, Over
  <2>2. Rows # <<>> /\ Rows[Len(Rows)].ended
    BY <1>2, <1>6, RowsEnd
  <2>3. QED
    BY <2>1, <2>2 DEF Episode!Next, Episode!Return, Episode!HasEnded, Rows, Result
<1>7. ASSUME NEW step \in StepType, steps' = Append(steps, step), ~HasEnded,
             Len(steps) < MaxTurns, ~Over, ~Over'
      PROVE  Episode!Next
  <2>1. Rows' = Append(Rows, RowOf(step)) /\ RowOf(step) \in RowSet
    BY <1>2, <1>7, RowsGrow, RowTyped
  <2>2. Len(Rows) < MaxTurns /\ ~(Rows # <<>> /\ Rows[Len(Rows)].ended)
    BY <1>2, <1>7, RowsEnd
  <2>3. Result = "running" /\ Result' = Result
    BY <1>7 DEF Result, Over
  <2>4. QED
    BY <2>1, <2>2, <2>3
    DEF Episode!Next, Episode!Step, Episode!HasEnded, Episode!Row, Rows, Result, RowSet
<1>8. QED
  BY <1>1, <1>4, <1>5, <1>6, <1>7 DEF Seen, AddsRow

LEMMA EpisodeInit == Init => Episode!Init
<1> SUFFICES ASSUME Init PROVE Episode!Init
  OBVIOUS
<1>1. steps = <<>> /\ stage = "reset"
  BY DEF Init
<1>2. \A S : <<>> \in Seq(S)
  OBVIOUS
<1>3. Rows \in Seq(RowSet) /\ Len(Rows) = 0
  BY <1>1, <1>2, RowsEnd
<1>4. Rows = <<>> /\ Result = "running"
  BY <1>1, <1>3, NoneOf DEF Result
<1>5. QED
  BY <1>4 DEF Episode!Init, Rows, Result

(* The flow keeps the promise of an episode, whatever the sidecar and the  *)
(* environment do: rows one at a time, never more than max_turns and none  *)
(* after the one that ends the episode; a return only of an episode that   *)
(* has ended.                                                              *)
THEOREM PromiseKept == Spec => KeepsPromise
<1>1. QED
  BY InitIInv, NextIInv, InitSendWaits, SendWaitsKept, EpisodeInit, EpisodeStep, PTL DEF Spec, KeepsPromise, Episode!Spec

=============================================================================
