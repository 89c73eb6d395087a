----------------------------- MODULE Validation -----------------------------
(***************************************************************************)
(* RayAgentTrainer._validate on one test batch: the prompts, repeated, go  *)
(* through a rollout like those of the training (AgentRollout); its rows   *)
(* are then attributed to trajectories by counting, and dumped.            *)
(***************************************************************************)
EXTENDS AgentRollout, Loops

VARIABLE validated   \* what the validation logs and dumps

validationVars == <<vars, validated>>

NotValidated == [at |-> "none", samples |-> <<>>, entries |-> <<>>]

ValidationInit == Init /\ validated = NotValidated

----------------------------------------------------------------------------
\* Where the rows of trajectory i begin, counted from 0.
StartOf(i) == SumSeq(SubSeq(output.numSteps, 1, i - 1))

\* An index of Python: -1 is the last row.
RowAt(k) == output.rows[(k % Len(output.rows)) + 1]

\* Defect: the first row of the next trajectory.
SampleOnePast(i) ==
    LET start == StartOf(i)
        n == output.numSteps[i]
    IN  [scored |-> SubSeq(output.rows, start + 1, start + n),
         input |-> RowAt(start), output |-> RowAt(start + n)]

\* One line of the table: the rows whose scores are added up, that of the first
\* prompt and that of the last response.
Sample(i) ==
    LET start == StartOf(i)
        n == output.numSteps[i]
    IN  [scored |-> SubSeq(output.rows, start + 1, start + n),
         input |-> RowAt(start), output |-> RowAt(start + n - 1)]

\* The steps of the rollout as they are dumped, under the uids of the batch.
DumpedSteps ==
    FlattenSeq([i \in DOMAIN output.numSteps |->
        [k \in 1 .. output.numSteps[i] |->
            [uid |-> TrainerBatch[i], index |-> k - 1, row |-> output.rows[StartOf(i) + k]]]])

\* The steps of a uid in the order of their step_index; none is past MaxSteps.
StepsOf(uid) ==
    LET mine == Among(DumpedSteps, {d \in ToSet(DumpedSteps) : d.uid = uid})
    IN  FlattenSeq([n \in 1 .. MaxSteps |-> Among(mine, {d \in ToSet(mine) : d.index = n - 1})])

Entry(uid) ==
    LET steps == StepsOf(uid)
    IN  [uid |-> uid, input |-> Head(steps).row, output |-> Last(steps).row, steps |-> steps]

\* The rows whose uid did not come before.
FirstOfUid == {k \in DOMAIN DumpedSteps : \A j \in 1 .. k - 1 : DumpedSteps[j].uid # DumpedSteps[k].uid}

\* build_trajectory_dump_entries: an entry for each uid, in order of appearance
DumpEntries ==
    LET firsts == Among([k \in DOMAIN DumpedSteps |-> k], FirstOfUid)
    IN  [e \in DOMAIN firsts |-> Entry(DumpedSteps[firsts[e]].uid)]

\* The first row of a trajectory is looked up even if it has none, which
\* raises past the end of the batch.
Validate ==
    /\ manager = "returned"
    /\ validated.at = "none"
    /\ validated' =
         IF \E i \in DOMAIN output.numSteps : StartOf(i) >= Len(output.rows)
         THEN [validated EXCEPT !.at = "raised"]
         ELSE [at |-> "dumped",
               samples |-> [i \in DOMAIN output.numSteps |-> Sample(i)],
               entries |-> DumpEntries]
    /\ UNCHANGED vars

\* A rollout serves the training or a validation.
ValidationNext ==
    \/ validated.at = "none" /\ Next /\ UNCHANGED validated
    \/ Validate

ValidationSpec ==
    ValidationInit /\ [][ValidationNext]_validationVars /\ WF_validationVars(ValidationNext)

----------------------------------------------------------------------------
(* What a validation reports of a trajectory is its own: the return adds   *)
(* up exactly its steps, its prompt is the first and its response the last *)
(* of them, provided it has any; the steps are dumped exactly once and in  *)
(* order, all samples of a prompt under its one uid; and it fails only for *)
(* a last trajectory without a step (_validate,                            *)
(* build_trajectory_dump_entries).                                         *)
ReportsItsOwn ==
    LET all == 1 .. Len(GenBatch)
        length(t) == Len(flow[t].steps)
        is(row, t, k) == row.from = t /\ row.index = k - 1 /\ row.step = flow[t].steps[k]
        steps(uid) == UNION {{t} \X (1 .. length(t)) : t \in {u \in all : GenBatch[u] = uid}}
        mine(uid) == {j \in DOMAIN validated.entries : validated.entries[j].uid = uid}
    IN  /\ validated.at = "raised" => length(Len(GenBatch)) = 0
        /\ validated.at = "dumped" =>
             /\ \A t \in all :
                  LET sample == validated.samples[t]
                  IN  /\ Len(sample.scored) = length(t)
                      /\ \A k \in 1 .. length(t) : is(sample.scored[k], t, k)
                      /\ length(t) > 0 => /\ is(sample.input, t, 1)
                                          /\ is(sample.output, t, length(t))
             /\ \A uid \in ToSet(prompts) :
                  IF steps(uid) = {} THEN mine(uid) = {}
                  ELSE \E j \in mine(uid) :
                         /\ mine(uid) = {j}
                         /\ LET e == validated.entries[j] IN
                            /\ Len(e.steps) = Cardinality(steps(uid))
                            /\ \A s \in steps(uid) : \E k \in DOMAIN e.steps : is(e.steps[k].row, s[1], s[2])
                            /\ \A i, k \in DOMAIN e.steps : i < k => e.steps[i].index <= e.steps[k].index
                            /\ e.input = e.steps[1].row /\ e.output = e.steps[Len(e.steps)].row
=============================================================================
