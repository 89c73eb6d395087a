------------------------------- MODULE WebShop -------------------------------
(***************************************************************************)
(* One WebShop episode: the flow (recipes/webshop/webshop_agent_flow.py)   *)
(* against the environment of WebShopEngine.  The flow keeps the EnvState  *)
(* of the last response and sends it with the next command; a response may *)
(* be lost or refused, and a reply of the model may hold no usable call.   *)
(***************************************************************************)
EXTENDS WebShopEngine

CONSTANTS
    ShopSteps,    \* max_steps
    Bonus,       \* success_reward
    Penalty,     \* invalid_tool_call_penalty
    Clicks       \* what a model clicks: any text

ASSUME EpisodeAssumption == ShopSteps \in Nat /\ Bonus \in Nat \ {0} /\ Penalty \in Nat

VARIABLES
    goal,        \* the goal of the episode, from extra_info.goal_index
    phase,       \* "reset", "play" or "over"
    envState,    \* env_state
    screen,      \* current_observation: a view and how often a complaint wraps it
    menu,        \* available_actions
    history,     \* recent_history: the actions taken
    done,
    steps        \* the trainable steps

shopVars == <<goal, phase, envState, screen, menu, history, done, steps>>

Commands == {SearchFor(q) : q \in Queries} \cup {Click(c) : c \in Clicks} \cup {Garbled}
Invalid == [verb |-> "INVALID_TOOL_CALL", of |-> ""]

ShopInit ==
    /\ goal \in BuildGoals \cup HumanGoals
    /\ phase = "reset"
    /\ envState = Home
    /\ screen = [view |-> <<>>, complaints |-> 0]
    /\ menu = {}
    /\ history = <<>>
    /\ done = FALSE
    /\ steps = <<>>

Reset ==
    /\ phase = "reset"
    /\ phase' = "play"
    /\ envState' = Home
    /\ screen' = [view |-> View(goal, Home), complaints |-> 0]
    /\ menu' = AvailableActions(goal, Home)
    /\ UNCHANGED <<goal, history, done, steps>>

\* The loop condition; every turn below ends with a step that keeps what the
\* agent saw before it.
MayTurn == phase = "play" /\ Len(steps) < ShopSteps /\ ~done

AddStep(reward, success) ==
    steps' = Append(steps, [seen |-> screen, reward |-> reward, success |-> success])

\* The call is answered: everything the flow knows comes from the response.
Turn(command) ==
    /\ MayTurn
    /\ \E response \in {Step(goal, envState, command)} :
        /\ envState' = response.state
        /\ screen' = [view |-> response.view, complaints |-> 0]
        /\ menu' = response.menu
        /\ history' = Append(history, command)
        /\ done' = response.done
        /\ AddStep(IF response.done /\ response.success THEN Bonus ELSE 0, response.success)
        /\ UNCHANGED <<goal, phase>>

\* Defect: the flow takes the state of a response it then cannot read.
TurnLostHalf ==
    /\ MayTurn
    /\ AddStep(0, FALSE)
    /\ \E command \in Commands : envState' = After(envState, command)
    /\ UNCHANGED <<goal, phase, screen, menu, history, done>>

\* The request or its answer is lost, or the server refuses it: logged, and
\* the turn counts as a step without reward.
TurnLost ==
    /\ MayTurn
    /\ AddStep(0, FALSE)
    /\ UNCHANGED <<goal, phase, envState, screen, menu, history, done>>

\* No call, several, another tool, or no command in it.
InvalidTurn ==
    /\ MayTurn
    /\ screen' = [screen EXCEPT !.complaints = @ + 1]
    /\ history' = Append(history, Invalid)
    /\ AddStep(-Penalty, FALSE)
    /\ UNCHANGED <<goal, phase, envState, menu, done>>

Return ==
    /\ phase = "play" /\ ~MayTurn
    /\ phase' = "over"
    /\ UNCHANGED <<goal, envState, screen, menu, history, done, steps>>

ShopNext ==
    \/ Reset
    \/ \E command \in Commands : Turn(command)
    \/ TurnLost
    \/ InvalidTurn
    \/ Return

----------------------------------------------------------------------------
(***************************************************************************)
(* What the agent is shown belongs to the state its next command acts on,  *)
(* and every action listed for it works there: whatever was lost, refused  *)
(* or malformed since, the prompt never offers a click the server denies.  *)
(***************************************************************************)
MenuHonoured ==
    phase = "play" =>
        /\ screen.view = View(goal, envState)
        /\ \A target \in menu : ~Denied(envState, Click(target))

(***************************************************************************)
(* The bonus is paid once, for the last step, and earned by the clicks of  *)
(* the episode, read backwards: the product opened last, with no search    *)
(* after it, and for each option name the value clicked last since.  In    *)
(* small mode the product and options of the goal, in full mode any that   *)
(* are alike; the price is within the limit and the attributes are there.  *)
(***************************************************************************)
\* Where one of these commands was given last, 0 for never.
LastOf(given, commands) == Max({0} \cup {i \in DOMAIN given : given[i] \in commands})

Openings == {SearchFor(q) : q \in Queries} \cup {Click(a) : a \in Asins}

\* The option names of a product, and the clicks on a value of one of them.
OptionNames(asin) == Range(OptionLookup[asin])
Naming(asin, name) ==
    {Click(v) : v \in {w \in DOMAIN OptionLookup[asin] : OptionLookup[asin][w] = name}}

Bought(given) ==
    LET opened == LastOf(given, Openings)
        asin == given[opened].of
        Since == {n \in OptionNames(asin) : LastOf(given, Naming(asin, n)) > opened}
    IN  IF opened = 0 \/ given[opened].verb = "search" THEN [asin |-> NoAsin, clicked |-> {}]
        ELSE [asin |-> asin,
              clicked |-> {<<n, given[LastOf(given, Naming(asin, n))].of>> : n \in Since}]

Deserved(wish, given) ==
    LET bought == Bought(given)
    IN  /\ given # <<>> /\ Last(given) = Click("buy now")
        /\ bought.asin # NoAsin
        /\ wish.attributes \subseteq Product(bought.asin).text
        /\ Product(bought.asin).price <= wish.limit
        /\ IF wish.full
           THEN \A o \in ToSet(wish.options) : \E c \in bought.clicked : Alike(c[2], o)
           ELSE /\ bought.asin = wish.asin
                /\ \A n \in DOMAIN wish.options : <<n, wish.options[n]>> \in bought.clicked

PaidForPurchase ==
    \A i \in DOMAIN steps :
        steps[i].reward > 0 => i = Len(steps) /\ done /\ Deserved(goal, history)

(***************************************************************************)
(* No legal sequence of clicks spoils an episode: from every state open    *)
(* the product of the goal, click its options and buy, and the purchase    *)
(* succeeds, if the product is all the goal asks for and no option value   *)
(* of the goal is found under another name; a full-mode goal may list      *)
(* several values of one name only if they are alike, since EnvState keeps *)
(* one of them.                                                            *)
(***************************************************************************)
Attainable ==
    LET item == Product(goal.asin)
    IN  /\ goal.attributes \subseteq item.text
        /\ IF goal.full
           THEN \A v, w \in ToSet(goal.options) :
                    /\ v \in Values(Options[goal.asin])
                    /\ OptionLookup[goal.asin][v] = OptionLookup[goal.asin][w] => Alike(v, w)
           ELSE \A n \in DOMAIN goal.options : OptionLookup[goal.asin][goal.options[n]] = n

Plan ==
    LET values == IF goal.full THEN goal.options
                  ELSE SetToSeq({goal.options[n] : n \in DOMAIN goal.options})
    IN  <<Click(goal.asin)>> \o [i \in DOMAIN values |-> Click(values[i])]

Carried == FoldLeft(After, envState, Plan)

GoalStaysWinnable ==
    phase = "play" /\ ~done /\ Attainable => Success(goal, After(Carried, Click("buy now")))
=============================================================================
