------------------------------ MODULE ALFWorld ------------------------------
(***************************************************************************)
(* One episode of the ALFWorld flow (recipes/alfworld): the flow, its tool *)
(* executor, which keeps a history of its own, and the TextWorld game,     *)
(* external, which may end at any step and does end at MaxEpisodeSteps.    *)
(* An observation is the number of commands the game has taken, and how    *)
(* often the flow has wrapped it in a complaint.                           *)
(***************************************************************************)
EXTENDS Integers, Sequences, FiniteSets, SequencesExt

CONSTANTS
    AlfCommands,       \* what a model may command
    AlfRewards,        \* what the game may pay for a step
    AlfSteps,          \* max_steps of the flow
    MaxEpisodeSteps    \* max_episode_steps of the game

VARIABLES
    alfAt,          \* "reset", "play", "over" or "raised"
    observation,    \* current_observation
    admissible,     \* current_admissible_commands
    actions,        \* history_actions of the flow
    executed,       \* _history_actions of the executor
    finished,       \* done
    success,        \* final_success_flag
    denseReward,    \* dense_reward_sum
    alfRows         \* the trainable steps

alfVars == <<alfAt, observation, admissible, actions, executed, finished, success,
             denseReward, alfRows>>

InvalidCall == "<invalid_tool_call>"

\* The marker is not itself a command: one that reads the same would be told as
\* an invalid call.
ASSUME AlfAssumption ==
    InvalidCall \notin AlfCommands /\ AlfRewards \subseteq Int /\ AlfSteps \in Nat

AlfInit ==
    /\ alfAt = "reset"
    /\ observation = [of |-> 0, complaints |-> 0]
    /\ admissible = {} /\ actions = <<>> /\ executed = <<>>
    /\ finished = FALSE /\ success = FALSE /\ denseReward = 0 /\ alfRows = <<>>

\* The game's list of admissible commands, or what is no list and read as {}.
Menus == {AlfCommands, {}}

AlfReset ==
    /\ alfAt = "reset"
    /\ alfAt' = "play"
    /\ admissible' \in Menus
    /\ UNCHANGED <<observation, actions, executed, finished, success, denseReward, alfRows>>

MayPlay == alfAt = "play" /\ Len(alfRows) < AlfSteps /\ ~finished

\* A row: what the agent saw, what it is paid, and the reward_extra_info.  The
\* score of the final row is left to the reward function, which pays success.
AlfRow(envReward, valid) ==
    [seen |-> observation, final |-> FALSE, reward |-> 0, envReward |-> envReward,
     dense |-> denseReward', success |-> success', valid |-> valid]

\* Defect: the final row is built before the answer is taken over.
FinalRowEarly ==
    [seen |-> observation, final |-> TRUE, reward |-> IF success THEN 1 ELSE 0,
     envReward |-> 0, dense |-> denseReward, success |-> success, valid |-> FALSE]

FinalRow ==
    [seen |-> observation, final |-> TRUE, reward |-> IF success' THEN 1 ELSE 0,
     envReward |-> 0, dense |-> denseReward', success |-> success', valid |-> FALSE]

\* The executor notes the command, then asks the game, which answers.
Executed(command) == Append(executed, command)

\* Defect: the flow goes on with its own history, invalid calls included.
OwnHistory(command) == Append(actions, command)

CopyOfExecuted(command) == Executed(command)

EnvAnswers ==
    {a \in [reward : AlfRewards, done : BOOLEAN, won : BOOLEAN, menu : Menus] :
        /\ a.won => a.done
        /\ Len(executed) + 1 = MaxEpisodeSteps => a.done}

\* A command is sent whether admissible or not.  The flow takes over what the
\* answer says, the executor's history included.  An answer that ends the
\* episode adds a second row with the same prompt and response.
PlayCommand(command, answer) ==
    /\ MayPlay
    /\ executed' = Executed(command)
    /\ actions' = CopyOfExecuted(command)
    /\ observation' = [of |-> Len(executed'), complaints |-> 0]
    /\ admissible' = answer.menu
    /\ finished' = answer.done
    /\ success' = answer.won
    /\ denseReward' = denseReward + answer.reward
    /\ LET row == AlfRow(answer.reward, command \in admissible)
       IN  alfRows' = alfRows \o (IF answer.done THEN <<row, FinalRow>> ELSE <<row>>)
    /\ UNCHANGED alfAt

\* No call, another tool, or no command in its arguments: the game is not
\* asked, and the flow notes it in its own history only.
PlayInvalid ==
    /\ MayPlay
    /\ observation' = [observation EXCEPT !.complaints = @ + 1]
    /\ actions' = Append(actions, InvalidCall)
    /\ UNCHANGED <<alfAt, admissible, executed, finished, success, denseReward>>
    /\ alfRows' = Append(alfRows, AlfRow(0, FALSE))

\* The game raises, and nobody catches it.
PlayRaises ==
    /\ MayPlay
    /\ alfAt' = "raised"
    /\ \E command \in AlfCommands : executed' = Executed(command)
    /\ UNCHANGED <<observation, admissible, actions, finished, success, denseReward, alfRows>>

AlfReturns ==
    /\ alfAt = "play" /\ ~MayPlay
    /\ alfAt' = "over"
    /\ UNCHANGED <<observation, admissible, actions, executed, finished, success,
                   denseReward, alfRows>>

AlfNext ==
    \/ AlfReset
    \/ \E command \in AlfCommands : \E answer \in EnvAnswers : PlayCommand(command, answer)
    \/ PlayInvalid
    \/ PlayRaises
    \/ AlfReturns

----------------------------------------------------------------------------
(***************************************************************************)
(* What the agent is told of the past is true: every action in the history *)
(* of its prompt was made in the game, in that order, none is missing, and *)
(* what follows them are the invalid calls since, as many as complaints    *)
(* wrap the last observation, which is that of the last action.  What was  *)
(* invalid never counts as done.                                           *)
(***************************************************************************)
HistoryTrue ==
    alfAt \in {"play", "over"} =>
        /\ \A i \in DOMAIN executed : executed[i] # InvalidCall
        /\ actions = executed \o [k \in 1 .. observation.complaints |-> InvalidCall]
        /\ observation.of = Len(executed)
=============================================================================
