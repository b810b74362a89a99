--------------------------- MODULE ChunkEmbedding ---------------------------
(***************************************************************************)
(* From the extracted text of a document to its embedded chunks: one step  *)
(* that chunks the text, then the embedding of the chunks batch by batch   *)
(* with the usage rows of the run, up to the commit or the end of the      *)
(* worker's session.                                                       *)
(***************************************************************************)
EXTENDS Chunker, UsageLog

CONSTANTS
    Texts,           \* the documents that are ingested
    BatchSize        \* EMBEDDING_BATCH_SIZE

ASSUME TextsAssumption == Texts \subseteq Document /\ BatchSize \in Nat \ {0}

VARIABLES
    textPc,       \* what the run does next
    text,         \* the document
    chunkList,    \* its content chunks
    embeddings,   \* per chunk so far, the content its vector was made of
    attempt,      \* provider calls made for the batch in hand
    textUsage     \* usage rows of the session: pairs of a batch and an outcome

textVars == <<textPc, text, chunkList, embeddings, attempt, textUsage>>

-----------------------------------------------------------------------------
(* The embedding of the chunks                                             *)

TextPC == {"extracted", "embedding", "embedded", "stored", "failed", "retry"}
TextEnd == {"stored", "failed", "retry"}

TextInit ==
    /\ textPc = "extracted"
    /\ text \in Texts
    /\ chunkList = <<>> /\ embeddings = <<>> /\ attempt = 0 /\ textUsage = NewAccount

ChunkText ==
    /\ textPc = "extracted"
    /\ chunkList' = chunk_extraction_result(text)
    /\ textPc' = IF chunkList' = <<>> THEN "embedded" ELSE "embedding"
    /\ UNCHANGED <<text, embeddings, attempt, textUsage>>

BatchStart == Len(embeddings)

\* Mutant of Batch (EmbeddingsMatchChunks): the texts of every batch come from the
\* head of the list.
HeadBatch == SubSeq(chunkList, 1, Min({BatchSize, Len(chunkList) - BatchStart}))

Batch == SubSeq(chunkList, BatchStart + 1, Min({BatchStart + BatchSize, Len(chunkList)}))

\* One usage row per batch, whatever its calls were.
LogBatch(status) == textUsage' \in LogEvent(textUsage, <<BatchStart, status>>)

\* The vectors of a batch are zipped with its chunks.
EmbedBatch ==
    /\ textPc = "embedding"
    /\ LogBatch("success")
    /\ embeddings' = embeddings \o [i \in DOMAIN Batch |-> Batch[i].content]
    /\ attempt' = 0
    /\ textPc' = IF Len(embeddings') = Len(chunkList) THEN "embedded" ELSE "embedding"
    /\ UNCHANGED <<text, chunkList>>

\* The first exception is answered by a second call for the same batch.
RetryBatch ==
    /\ textPc = "embedding" /\ attempt = 0
    /\ attempt' = 1
    /\ UNCHANGED <<textPc, text, chunkList, embeddings, textUsage>>

\* A second exception of a kind that is not retried, or a wrong number of vectors:
\* the failure of job and document is committed, and the rows with it.
FailBatch ==
    /\ textPc = "embedding"
    /\ \E u \in LogEvent(textUsage, <<BatchStart, "failed">>) : textUsage' = Committed(u)
    /\ textPc' = "failed"
    /\ UNCHANGED <<text, chunkList, embeddings, attempt>>

\* A second exception of a kind worth retrying: the session is closed and the task
\* is retried from the start.
RetryTask ==
    /\ textPc = "embedding" /\ attempt = 1
    /\ \E u \in LogEvent(textUsage, <<BatchStart, "failed">>) : textUsage' = Closed(u)
    /\ textPc' = "retry"
    /\ UNCHANGED <<text, chunkList, embeddings, attempt>>

\* Mutant of StoreEmbedded (BatchesAccounted): no commit before the chunk rows.
StoreWithoutCommit ==
    /\ textPc = "embedded"
    /\ textPc' = "stored"
    /\ UNCHANGED <<text, chunkList, embeddings, attempt, textUsage>>

\* The rows are committed before the chunk rows are written.
StoreEmbedded ==
    /\ textPc = "embedded"
    /\ textUsage' = Committed(textUsage)
    /\ textPc' = "stored"
    /\ UNCHANGED <<text, chunkList, embeddings, attempt>>

TextNext ==
    ChunkText \/ EmbedBatch \/ RetryBatch \/ FailBatch \/ RetryTask \/ StoreEmbedded

-----------------------------------------------------------------------------
(* Properties                                                              *)

\* The chunks lose no token of the text but those of a character that a cut of a long
\* paragraph falls into, and keep their order, and a chunk repeats the end of the one
\* before it and nothing else: what it adds lies behind all that came before.
ChunksCoverDocument ==
    textPc # "extracted" =>
        /\ TokensOfText(text) \ Severed(text) \subseteq
              UNION {ToSet(chunkList[i].content) : i \in DOMAIN chunkList}
        /\ \A i \in DOMAIN chunkList :
              LET mine == chunkList[i].content
                  own == ToSet(mine) \cap TokensOfText(text)
              IN  /\ \A j, k \in DOMAIN mine :
                        j < k /\ mine[j] \in own /\ mine[k] \in own => Before(mine[j], mine[k])
                  /\ i > 1 =>
                        LET last == chunkList[i - 1].content
                        IN  \A x \in own :
                                \/ \A y \in ToSet(last) \cap TokensOfText(text) : Before(y, x)
                                \/ \E k \in DOMAIN last : last[k] = x /\ k > Len(last) - ChunkOverlap

\* A chunk exceeds the configured size by the overlap, a stamped heading and two
\* joints at most, however long the paragraphs are.
ChunkSizeBounded ==
    \A i \in DOMAIN chunkList :
        Len(chunkList[i].content) <= ChunkSize + ChunkOverlap + HeadingTokens + 2

\* When the chunks are stored each has the vector of its own text, and its index is
\* its place.
EmbeddingsMatchChunks ==
    textPc \in {"embedded", "stored"} =>
        /\ Len(embeddings) = Len(chunkList)
        /\ \A i \in DOMAIN chunkList :
              chunkList[i].index = i - 1 /\ embeddings[i] = chunkList[i].content

\* A run that stores its chunks or fails for good keeps the usage rows of all its
\* batches; only one that is retried loses them.
BatchesAccounted == textPc \in {"stored", "failed"} => AllKept(textUsage)
=============================================================================
