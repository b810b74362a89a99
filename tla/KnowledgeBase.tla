---------------------------- MODULE KnowledgeBase ----------------------------
(***************************************************************************)
(* The indexed documents as those who read them see them: the rows of      *)
(* documents and document_chunks, and what uploads, ingestion runs,        *)
(* reindexing and deletions may do to them between two reads.  Every       *)
(* action is one commit of the code that writes these tables.              *)
(*                                                                         *)
(* The chunk rows of a document come and go together; each insertion makes *)
(* a new generation of rows with ids of their own.  0: no rows.            *)
(***************************************************************************)
EXTENDS Integers

CONSTANTS
    Documents,
    Generations   \* names for the insertions of a document's chunk rows

ASSUME GenerationsAssumption == Generations \subseteq Nat \ {0}

VARIABLES
    documents,    \* documents.status
    generation    \* which insertion wrote the chunk rows of the document, or 0

kbVars == <<documents, generation>>

DocumentStatus == {"unborn", "uploaded", "processing", "indexed", "failed", "deleted"}

KnowledgeBaseTypeOK ==
    /\ documents \in [Documents -> DocumentStatus]
    /\ generation \in [Documents -> Generations \cup {0}]

KnowledgeBaseInit ==
    /\ documents \in [Documents -> {"unborn", "uploaded", "indexed"}]
    /\ generation \in [Documents -> Generations \cup {0}]
    /\ \A d \in Documents : documents[d] = "indexed" <=> generation[d] # 0

SetStatus(d, from, to) ==
    /\ documents[d] \in from
    /\ documents' = [documents EXCEPT ![d] = to]
    /\ UNCHANGED generation

Upload(d) == SetStatus(d, {"unborn"}, "uploaded")

\* A run of the worker task, or a reindex, takes the document up.
StartProcessing(d) == SetStatus(d, {"uploaded", "indexed", "failed"}, "processing")

\* The deletion and the insertion of replace_chunks_for_document are one commit.
ReplaceChunks(d, g) ==
    /\ documents[d] \notin {"unborn", "deleted"}
    /\ generation' = [generation EXCEPT ![d] = g]
    /\ UNCHANGED documents

MarkIndexed(d) == SetStatus(d, {"uploaded", "processing", "failed"}, "indexed")

MarkFailed(d) == SetStatus(d, {"uploaded", "processing", "indexed"}, "failed")

\* The first commit of a reindex and of a deletion: the status still says indexed.
WithdrawChunks(d) ==
    /\ documents[d] # "unborn"
    /\ generation[d] # 0
    /\ generation' = [generation EXCEPT ![d] = 0]
    /\ UNCHANGED documents

\* The foreign key of document_chunks keeps the row while it has chunks.
RemoveDocument(d) ==
    /\ generation[d] = 0
    /\ SetStatus(d, {"uploaded", "processing", "indexed", "failed"}, "deleted")

ChunksChange(d) == WithdrawChunks(d) \/ \E g \in Generations : ReplaceChunks(d, g)

StatusChanges(d) ==
    Upload(d) \/ StartProcessing(d) \/ MarkIndexed(d) \/ MarkFailed(d) \/ RemoveDocument(d)

DocumentChanges(d) == ChunksChange(d) \/ StatusChanges(d)

KnowledgeBaseNext == \E d \in Documents : DocumentChanges(d)

KnowledgeBaseSpec == KnowledgeBaseInit /\ [][KnowledgeBaseNext]_kbVars
=============================================================================
