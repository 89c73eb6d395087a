------------------------------- MODULE Loops --------------------------------
(***************************************************************************)
(* What the loops of the recipes compute over a list.  The filter is       *)
(* spelled out as its recursion, since a library operator that takes the   *)
(* test as a parameter would be opaque to the prover.                      *)
(***************************************************************************)
EXTENDS Integers, SequencesExt

(* What a loop adds up. *)
Sum(s) == FoldLeft(LAMBDA total, x : total + x, 0, s)

(* What a loop collects that appends the elements in S. *)
Among(s, S) ==
  LET collected[i \in 0 .. Len(s)] ==
        IF i = 0 THEN <<>>
        ELSE IF s[i] \in S THEN Append(collected[i - 1], s[i]) ELSE collected[i - 1]
  IN collected[Len(s)]
=============================================================================
