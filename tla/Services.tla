------------------------------ MODULE Services ------------------------------
(***************************************************************************)
(* The work that is not the ingestion pipeline, one unit at a time: an     *)
(* investigation or a pair of questions against a corpus that changes, the *)
(* chunking and embedding of one text, the logins or the registrations at  *)
(* an API process, one tab of the web client.                              *)
(* They have no variable in common but the corpus, which only the pipeline *)
(* writes, so a behaviour here is a behaviour of one part.                 *)
(***************************************************************************)
EXTENDS AgentRun, RagQuery, ChunkEmbedding, LoginLimiter, WebClient

CONSTANTS
    Parts,      \* the parts a behaviour may be of
    Changing    \* the documents that change during a behaviour

AllParts == {"agent", "rag", "text", "login", "signup", "web"}

ASSUME PartsAssumption == Parts \subseteq AllParts /\ Changing \subseteq Documents

VARIABLE part

vars == <<part, kbVars, agentVars, ragVars, textVars, loginVars, webVars>>

ServicesTypeOK ==
    /\ part \in Parts
    /\ KnowledgeBaseTypeOK
    /\ AgentTypeOK
    /\ RagTypeOK
    /\ textPc \in TextPC /\ attempt \in {0, 1}
    /\ LoginTypeOK
    /\ WebTypeOK

\* Documents that do not change are indexed, and so is the corpus of a part that
\* does not read it.
Init ==
    /\ part \in Parts
    /\ KnowledgeBaseInit
    /\ \A d \in Documents :
          part \notin {"agent", "rag"} \/ d \notin Changing => documents[d] = "indexed" /\ generation[d] = 1
    /\ AgentInit /\ RagInit /\ TextInit /\ LoginInit /\ WebInit
    /\ part # "text" => text = CHOOSE t \in Texts : TRUE

\* Questions do not read the status of a document: only its chunks change.
CorpusChanges ==
    /\ \/ part = "agent" /\ \E d \in Changing : DocumentChanges(d)
       \/ part = "rag" /\ \E d \in Changing : ChunksChange(d)
    /\ UNCHANGED <<part, agentVars, ragVars, textVars, loginVars, webVars>>

AgentPart == part = "agent" /\ AgentNext /\ UNCHANGED <<part, kbVars, ragVars, textVars, loginVars, webVars>>
RagPart == part = "rag" /\ RagNext /\ UNCHANGED <<part, kbVars, agentVars, textVars, loginVars, webVars>>
TextPart == part = "text" /\ TextNext /\ UNCHANGED <<part, kbVars, agentVars, ragVars, loginVars, webVars>>
LoginPart == part = "login" /\ AttemptNext /\ UNCHANGED <<part, kbVars, agentVars, ragVars, textVars, webVars>>
SignupPart == part = "signup" /\ SignupNext /\ UNCHANGED <<part, kbVars, agentVars, ragVars, textVars, webVars>>
WebPart == part = "web" /\ WebNext /\ UNCHANGED <<part, kbVars, agentVars, ragVars, textVars, loginVars>>

Next == CorpusChanges \/ AgentPart \/ RagPart \/ TextPart \/ LoginPart \/ SignupPart \/ WebPart

\* The thread of a request goes on once it has begun: a provider call returns or
\* times out, and no other request can block it.
Spec == Init /\ [][Next]_vars /\ WF_agentVars(part = "agent" /\ AgentWork)

\* Every investigation comes to an end, whatever plans the model makes, whatever its
\* tools return and however the corpus changes under it.
InvestigationEnds == agentPc = "plan" ~> agentPc \in EndPC
=============================================================================
