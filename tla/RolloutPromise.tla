--------------------------- MODULE RolloutPromise ---------------------------
(***************************************************************************)
(* What the trainer may expect of one rollout: the call either raises, or  *)
(* it returns once, with one episode for each requested prompt, in the     *)
(* order of the request, however the work was split and in whatever order  *)
(* the trajectories ended.                                                 *)
(***************************************************************************)
EXTENDS Integers, Sequences

CONSTANTS
  Prompts,   (* what can be asked                    *)
  MaxSteps   (* an episode never has more steps      *)

VARIABLES
  request,  (* the prompts asked for, a sequence     *)
  status,   (* "called", "returned" or "raised"      *)
  answer    (* one episode per prompt, once returned *)

(* An episode: every step has a reward, and nothing follows the step the   *)
(* environment ended the episode with.                                     *)
IsEpisode(steps) ==
  /\ Len(steps) <= MaxSteps
  /\ \A k \in 1 .. Len(steps) :
       /\ steps[k].reward \in Int
       /\ steps[k].done => k = Len(steps)

Init ==
  /\ request \in Seq(Prompts)
  /\ status = "called"
  /\ answer = <<>>

Return ==
  /\ status = "called"
  /\ status' = "returned"
  /\ Len(answer') = Len(request)
  /\ \A i \in 1 .. Len(request) :
       /\ answer'[i].prompt = request[i]
       /\ IsEpisode(answer'[i].steps)
  /\ UNCHANGED request

Raise ==
  /\ status = "called"
  /\ status' = "raised"
  /\ UNCHANGED <<request, answer>>

Next == Return \/ Raise

Spec == Init /\ [][Next]_<<request, status, answer>>
=============================================================================
