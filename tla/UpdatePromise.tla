---------------------------- MODULE UpdatePromise ----------------------------
(***************************************************************************)
(* What an actor or critic update promises the trainer, as if it ran in    *)
(* one process: every epoch takes each mini-batch once, in some order, and *)
(* each is one optimizer step of all ranks on all entries they hold for    *)
(* it.  The call returns when all epochs are through and not before; only  *)
(* a worker that agrees on micro-batches may raise, between two steps.     *)
(***************************************************************************)
EXTENDS Integers, Sequences

CONSTANTS Ranks, PpoEpochs

VARIABLES
  held,     (* held[m][r]: the entries rank r holds for mini-batch m       *)
  agrees,   (* the worker agrees with the group on the micro-batches       *)
  epoch,    (* the epoch under way                                         *)
  pending,  (* the mini-batches it has still to take                       *)
  applied,  (* the optimizer steps so far                                  *)
  status    (* "running", "returned" or "raised"                           *)

vars == <<held, agrees, epoch, pending, applied, status>>

OnAllRanks(value) == [r \in Ranks |-> value]

Init ==
  /\ DOMAIN held # {}
  /\ epoch = 0
  /\ pending = DOMAIN held
  /\ applied = <<>>
  /\ status = "running"

Apply(m) ==
  /\ status = "running"
  /\ m \in pending
  /\ applied' = Append(applied,
       [epoch |-> OnAllRanks(epoch), id |-> OnAllRanks(m), seen |-> held[m]])
  /\ \/ /\ pending # {m}
        /\ pending' = pending \ {m}
        /\ UNCHANGED <<epoch, status>>
     \/ /\ pending = {m} /\ epoch + 1 < PpoEpochs
        /\ pending' = DOMAIN held
        /\ epoch' = epoch + 1
        /\ UNCHANGED status
     \/ /\ pending = {m} /\ epoch + 1 = PpoEpochs
        /\ pending' = {}
        /\ status' = "returned"
        /\ UNCHANGED epoch
  /\ UNCHANGED <<held, agrees>>

Refuse ==
  /\ status = "running" /\ agrees
  /\ status' = "raised"
  /\ UNCHANGED <<held, agrees, epoch, pending, applied>>

Next == Refuse \/ \E m \in pending : Apply(m)

Spec == Init /\ [][Next]_vars
=============================================================================
