----------------------------- MODULE ToolBudget -----------------------------
(***************************************************************************)
(* How much of a document the agent tools put before the model: chunks are *)
(* selected in order within a token budget and packed into batches.  A     *)
(* document is the sequence of the token counts of its chunks.             *)
(***************************************************************************)
EXTENDS Integers, Sequences, SequencesExt, FiniteSetsExt

TokensUpTo(tokens, k) == FoldLeft(LAMBDA a, b : a + b, 0, SubSeq(tokens, 1, k))

\* _select_chunks_within_budget: how many chunks it takes.  The first is always
\* taken; a chunk that would exceed the budget, or a full budget, ends the loop.
SelectedChunks(tokens, budget) ==
    Max({n \in DOMAIN tokens :
            \A k \in 1 .. n : /\ k > 1 => TokensUpTo(tokens, k) <= budget
                              /\ k < n => TokensUpTo(tokens, k) < budget})

\* One round of the loop of batch_chunks_by_token_budget: chunk i closes the batch if it
\* does not fit into it, and is in the next one.
AddToBatch(tokens, budget, packed, i) ==
    IF packed.batch # {} /\ packed.used + tokens[i] > budget
    THEN [done |-> Append(packed.done, packed.batch), batch |-> {i}, used |-> tokens[i]]
    ELSE [packed EXCEPT !.batch = @ \cup {i}, !.used = @ + tokens[i]]

NothingPacked == [done |-> <<>>, batch |-> {}, used |-> 0]

\* batch_chunks_by_token_budget: the index ranges of the batches, in order.
PackIntoBatches(tokens, budget) ==
    LET end == FoldLeft(LAMBDA packed, i : AddToBatch(tokens, budget, packed, i), NothingPacked,
                        [i \in DOMAIN tokens |-> i])
    IN  IF end.batch = {} THEN end.done ELSE Append(end.done, end.batch)
=============================================================================
