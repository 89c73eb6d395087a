--------------------------- MODULE EpisodePromise ---------------------------
(***************************************************************************)
(* What a trainer expects of one episode of an agent flow: rows are added  *)
(* one at a time, each for one response of the model, never more than      *)
(* MaxSteps; a row that ends the episode is the last one; an episode that  *)
(* is returned has ended, and one that did not is never returned.          *)
(***************************************************************************)
EXTENDS Naturals, Sequences

CONSTANTS MaxSteps, Rewards

VARIABLES rows, outcome

vars == <<rows, outcome>>

Row == [reward : Rewards, ended : BOOLEAN]

HasEnded == rows # <<>> /\ rows[Len(rows)].ended

Init == rows = <<>> /\ outcome = "running"

Step == /\ outcome = "running"
        /\ ~HasEnded
        /\ Len(rows) < MaxSteps
        /\ \E row \in Row : rows' = Append(rows, row)
        /\ UNCHANGED outcome

Return == /\ outcome = "running"
          /\ HasEnded
          /\ outcome' = "returned"
          /\ UNCHANGED rows

Raise == /\ outcome = "running"
         /\ outcome' = "raised"
         /\ UNCHANGED rows

Next == Step \/ Return \/ Raise

Spec == Init /\ [][Next]_vars
=============================================================================
