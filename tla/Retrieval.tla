----------------------------- MODULE Retrieval ------------------------------
(***************************************************************************)
(* Retrieval of chunks by similarity, and the reads of documents and chunk *)
(* rows by id that the agent tools and RAG queries make, against a corpus  *)
(* that changes between two statements (KnowledgeBase).                    *)
(*                                                                         *)
(* A chunk row is <<document, generation, index>>.  Scores are abstracted  *)
(* to whether they reach RETRIEVAL_MIN_SCORE, a property of the query and  *)
(* the text (document and index), and their order to nothing: the index on *)
(* the embeddings (HNSW) is approximate and filtered by workspace after    *)
(* the fact, so the LIMIT may return any of the rows.                      *)
(***************************************************************************)
EXTENDS KnowledgeBase, FiniteSets, Sequences

CONSTANTS
    Workspaces,
    HomeOf,        \* documents.workspace_id
    ChunkTokens,   \* the tokens of each chunk of a document, in chunk_index order
    Queries,
    Qualifying,    \* <<document, index>> of the texts that score enough for a query
    TopK

ASSUME HomeAssumption == HomeOf \in [Documents -> Workspaces]
ASSUME ChunksAssumption ==
    /\ ChunkTokens \in [Documents -> Seq(Nat \ {0})]
    /\ \A d \in Documents : ChunkTokens[d] # <<>>

DocumentOf(c) == c[1]
IndexOf(c) == c[3]
DocumentsOf(S) == {DocumentOf(c) : c \in S}

AllChunks ==
    UNION {{<<d, g, i>> : g \in Generations, i \in DOMAIN ChunkTokens[d]} : d \in Documents}

ASSUME CorpusAssumption == IsFiniteSet(AllChunks)

ChunkRows(d) == {c \in AllChunks : DocumentOf(c) = d /\ c[2] = generation[d]}

\* Every query of a scoped repository carries the workspace of the caller.
InWorkspace(w, d) == HomeOf[d] = w

\* Mutant of list_chunks_for_document (CitationsAreEvidence): without the scope.
UnscopedChunks(w, d) == ChunkRows(d)

\* One statement sees the rows of one generation, or none.
list_chunks_for_document(w, d) == IF InWorkspace(w, d) THEN ChunkRows(d) ELSE {}

\* get_chunk_by_id finds a row only while its generation is in place.
ChunkStored(w, c) == c \in list_chunks_for_document(w, DocumentOf(c))

\* The status the row of the document shows to a reader of workspace w; "deleted"
\* when the scoped query returns no row.
VisibleStatus(w, d) ==
    IF InWorkspace(w, d) /\ documents[d] # "unborn" THEN documents[d] ELSE "deleted"

\* The rows the similarity search may return; filter: the documents that the
\* document, file type and source type conditions of the request let through.
search_similar_with_scores(w, filter) ==
    LET rows == UNION {list_chunks_for_document(w, d) : d \in filter}
    IN  {S \in SUBSET rows : Cardinality(S) <= TopK}

\* Whatever the index returned, only rows that reach the threshold are kept.
RetrievedChunks(q, w, filter) ==
    {{c \in S : <<DocumentOf(c), IndexOf(c)>> \in Qualifying[q]} :
        S \in search_similar_with_scores(w, filter)}
=============================================================================
