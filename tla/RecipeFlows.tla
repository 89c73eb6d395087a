---------------------------- MODULE RecipeFlows -----------------------------
(***************************************************************************)
(* An episode of one of three recipes: HotpotQA, ALFWorld or WebShop.  The *)
(* first two leave the score of a final row to the reward function and pay *)
(* 0.0 for the others; WebShop pays by itself.                             *)
(***************************************************************************)
EXTENDS HotpotQA, ALFWorld, WebShop

VARIABLE recipe

vars == <<recipe, hotpotVars, alfVars, shopVars>>

Init ==
    /\ recipe \in {"hotpotqa", "alfworld", "webshop"}
    /\ HotpotInit
    /\ AlfInit
    /\ ShopInit
    /\ recipe # "webshop" => goal = CHOOSE g \in BuildGoals : TRUE

HotpotStep == recipe = "hotpotqa" /\ HotpotNext /\ UNCHANGED <<recipe, alfVars, shopVars>>
AlfStep == recipe = "alfworld" /\ AlfNext /\ UNCHANGED <<recipe, hotpotVars, shopVars>>
ShopStep == recipe = "webshop" /\ ShopNext /\ UNCHANGED <<recipe, hotpotVars, alfVars>>

Next == HotpotStep \/ AlfStep \/ ShopStep

Spec == Init /\ [][Next]_vars

----------------------------------------------------------------------------
(***************************************************************************)
(* A score is given once and for the whole episode: only the last row of   *)
(* an episode is left to the reward function, it is there exactly when the *)
(* agent answered or the game ended, and what it tells of the game (the    *)
(* success and the sum of the rewards) is what all rows before it add up   *)
(* to.  An episode that uses up its steps is never scored.                 *)
(***************************************************************************)
ScoredAtTheEnd ==
    /\ \A i \in DOMAIN hotpotRows :
         LET row == hotpotRows[i]
         IN  /\ row.final => i = Len(hotpotRows) /\ hotpotAt = "over"
             /\ row.reward > 0 => row.final
             /\ hotpotAt = "over" /\ i = Len(hotpotRows) /\ ~row.final => i = HotpotSteps
    /\ \A i \in DOMAIN alfRows :
         LET row == alfRows[i]
             paid == Sum([k \in 1 .. i |-> alfRows[k].envReward])
         IN  /\ row.final <=> i = Len(alfRows) /\ finished
             /\ row.dense = paid
             /\ row.reward > 0 => row.final /\ success
=============================================================================
