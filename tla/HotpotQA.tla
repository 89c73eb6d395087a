------------------------------ MODULE HotpotQA -------------------------------
(***************************************************************************)
(* One episode of the HotpotQA flow (recipes/hotpotqa): searches that add  *)
(* passages to a list, a prompt rebuilt from that list in every turn and   *)
(* cut to a budget, and a last turn without a search, which is scored.     *)
(*                                                                         *)
(* A reply is the calls it makes and the answer it gives; what a search    *)
(* finds is the row of ids FAISS returns for the query, external, with ids *)
(* that may lie outside the corpus.  Lengths are in the units of the       *)
(* instance; the text of a passage has a number of characters and of       *)
(* tokens.                                                                 *)
(***************************************************************************)
EXTENDS Loops, FiniteSetsExt

CONSTANTS
    Corpus,         \* the passages of hpqa_corpus.jsonl
    Nearest,        \* Nearest[query]: the ids the index returns, best first
    Question,       \* the question, the first query
    Truths,         \* the normalised answers that are right
    Answers,        \* the normalised answers a model may give
    Length,         \* Length[text]: its characters and tokens
    HotpotSteps,    \* max_steps
    MaxCalls,       \* max_parallel_calls
    PromptLength,   \* prompt_length, in tokens
    BaseTokens,     \* tokens of a prompt without passages and history
    MinChars        \* min_chars, the floor of the passage block

ASSUME HotpotAssumption ==
    /\ Corpus \in Seq(Range(Corpus))
    /\ Nearest \in [DOMAIN Nearest -> Seq(Int)] /\ Question \in DOMAIN Nearest
    /\ \A text \in Range(Corpus) : Length[text].chars \in Nat /\ Length[text].tokens \in Nat
    /\ {HotpotSteps, MaxCalls, PromptLength, BaseTokens, MinChars} \subseteq Nat

VARIABLES
    hotpotAt,       \* "start", "ask" or "over"
    passages,       \* the passage list: [query, text]
    queries,        \* history_actions
    feedback,       \* tool_feedback_lines
    hotpotRows      \* the trainable steps

hotpotVars == <<hotpotAt, passages, queries, feedback, hotpotRows>>

HotpotInit ==
    /\ hotpotAt = "start"
    /\ passages = <<>> /\ queries = <<>> /\ feedback = <<>> /\ hotpotRows = <<>>

----------------------------------------------------------------------------
\* The search tool.

Found(query) ==
    LET ids == Among(Nearest[query], 0 .. Len(Corpus) - 1)
    IN  [k \in DOMAIN ids |-> Corpus[ids[k] + 1]]

\* Defect: a text is kept for every query that finds it.
IngestAll(pool, query) ==
    pool \o [k \in DOMAIN Found(query) |-> [query |-> query, text |-> Found(query)[k]]]

\* _ingest_results: a text is kept once, under the query that found it first.
Ingest(pool, query) ==
    FoldLeft(LAMBDA p, text : IF \E i \in DOMAIN p : p[i].text = text THEN p
                              ELSE Append(p, [query |-> query, text |-> text]),
             pool, Found(query))

\* A batch is encoded at once, so it finds all or nothing; the history has
\* its queries either way.
SearchBatch(batch, works) ==
    /\ passages' = IF works THEN FoldLeft(Ingest, passages, batch) ELSE passages
    /\ queries' = queries \o batch

----------------------------------------------------------------------------
\* The prompt.

Chars(n) == Sum([k \in 1 .. n |-> Length[passages[k].text].chars])

\* tool_feedback_lines[-3:]
Feedback == SubSeq(feedback, IF Len(feedback) > 3 THEN Len(feedback) - 2 ELSE 1, Len(feedback))

Tokens(n) ==
    BaseTokens + Len(queries) + Len(Feedback)
    + Sum([k \in 1 .. n |-> Length[passages[k].text].tokens])

\* _format_passage_list stops at the first passage that does not fit.
PassagesWithin(maxChars) ==
    Max({n \in 0 .. Len(passages) : \A k \in 1 .. n : Chars(k) <= maxChars})

FullBlock == 3 * PromptLength

\* The passage block shrinks until the prompt fits or the floor is reached;
\* a prompt that is still too long is cut.
Prompt ==
    LET fitting[m \in 0 .. FullBlock] ==
            IF Tokens(PassagesWithin(m)) <= PromptLength \/ m <= MinChars THEN m
            ELSE fitting[Max({MinChars, (72 * m) \div 100})]
        shown == PassagesWithin(fitting[FullBlock])
        tokens == Tokens(shown)
    IN  [shown |-> SubSeq(passages, 1, shown),
         tokens |-> IF tokens <= PromptLength THEN tokens ELSE PromptLength,
         cut |-> tokens > PromptLength]

\* The anchor of a step is the state with the full block, however the prompt
\* was shrunk.
Anchor ==
    [passages |-> SubSeq(passages, 1, PassagesWithin(FullBlock)), queries |-> queries,
     feedback |-> Feedback]

----------------------------------------------------------------------------
\* Exact match with any of the answers that are right.
ExactMatch(answer) == IF answer \in Truths THEN 1 ELSE 0

HotpotRow(reward, final) ==
    [prompt |-> Prompt, anchor |-> Anchor, reward |-> reward, final |-> final,
     searches |-> Len(queries')]

\* A row that a turn with calls adds; its reward is 0.0.
SearchRow == hotpotRows' = Append(hotpotRows, HotpotRow(0, FALSE))

\* force_first_search: the question itself is searched before the first turn.
Begin ==
    /\ hotpotAt = "start"
    /\ hotpotAt' = "ask"
    /\ \E works \in BOOLEAN : SearchBatch(<<Question>>, works)
    /\ UNCHANGED <<feedback, hotpotRows>>

MayAsk == hotpotAt = "ask" /\ Len(hotpotRows) < HotpotSteps

\* The reply calls tools: of the first MaxCalls calls those with a query are
\* searched; none of them has one, and the model is told.
CallTools(calls, works) ==
    LET batch == Among(SubSeq(calls, 1, IF Len(calls) < MaxCalls THEN Len(calls) ELSE MaxCalls),
                       DOMAIN Nearest)
    IN  /\ MayAsk
        /\ IF batch # <<>>
           THEN SearchBatch(batch, works) /\ UNCHANGED feedback
           ELSE feedback' = Append(feedback, "no query") /\ UNCHANGED <<passages, queries>>
        /\ SearchRow
        /\ UNCHANGED hotpotAt

\* The reply calls nothing: the last turn, left to the reward function.  A
\* call that could not be parsed leaves a line that no prompt will show.
GiveAnswer(answer, broken) ==
    /\ MayAsk
    /\ feedback' = IF broken THEN Append(feedback, "unparsable") ELSE feedback
    /\ hotpotAt' = "over"
    /\ UNCHANGED <<passages, queries>>
    /\ hotpotRows' = Append(hotpotRows, HotpotRow(ExactMatch(answer), TRUE))

HotpotReturns ==
    /\ hotpotAt = "ask" /\ ~MayAsk
    /\ hotpotAt' = "over"
    /\ UNCHANGED <<passages, queries, feedback, hotpotRows>>

Calls == UNION {[1 .. n -> DOMAIN Nearest \cup {"useless"}] : n \in 1 .. MaxCalls + 1}

HotpotNext ==
    \/ Begin
    \/ \E calls \in Calls, works \in BOOLEAN : CallTools(calls, works)
    \/ \E answer \in Answers, broken \in BOOLEAN : GiveAnswer(answer, broken)
    \/ HotpotReturns

----------------------------------------------------------------------------
(***************************************************************************)
(* The evidence in the prompt can be traced: every passage stands once,    *)
(* under a query of the history that really finds it; a prompt shows a     *)
(* beginning of the list, is never over its length, and is cut in the      *)
(* middle only with the passage block at its floor; the searches counted   *)
(* for a step are those the next prompt lists.                             *)
(***************************************************************************)
EvidenceAccounted ==
    /\ \A i \in DOMAIN passages :
         /\ Contains(queries, passages[i].query)
         /\ Contains(Found(passages[i].query), passages[i].text)
         /\ \A j \in i + 1 .. Len(passages) : passages[i].text # passages[j].text
    /\ \A i \in DOMAIN hotpotRows :
         LET row == hotpotRows[i]
         IN  /\ IsPrefix(row.prompt.shown, row.anchor.passages)
             /\ IsPrefix(row.anchor.passages, passages)
             /\ row.prompt.tokens <= PromptLength
             /\ row.prompt.cut => \A n \in 1 .. Len(row.prompt.shown) : Chars(n) <= MinChars
             /\ row.searches = IF i < Len(hotpotRows) THEN Len(hotpotRows[i + 1].anchor.queries)
                               ELSE Len(queries)
=============================================================================
