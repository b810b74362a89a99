------------------------------ MODULE RagQuery ------------------------------
(***************************************************************************)
(* Questions asked of the knowledge base by concurrent requests: the       *)
(* conversation a question goes to, the two messages it leaves there, the  *)
(* retrieval and completion in between, and the usage rows of both.        *)
(*                                                                         *)
(* The handler never yields while it works, so requests that interleave    *)
(* are at different API processes; each has a session of its own.  The     *)
(* repository commits every insertion.  messages.created_at is now() of    *)
(* PostgreSQL, the start of the transaction that inserts: a commit is      *)
(* followed by a refresh, which starts the next transaction.  clock counts *)
(* the transactions started.                                               *)
(***************************************************************************)
EXTENDS Retrieval, UsageLog, FiniteSetsExt

CONSTANTS
    AskerWorkspace,
    Users,
    Asks,           \* the requests
    MaxAsks,        \* bound on the requests that are made
    AskedBy,        \* the user of each
    QueryOf,        \* the question of each
    AskFilters,     \* the sets of documents that their filters let through
    Conversations,
    NoOne,          \* owner of a conversation that is not created yet
    ContextMax,     \* CONTEXT_MAX_CHUNKS
    HistoryMax      \* messages of the history that reach the prompt

ASSUME AskAssumption ==
    /\ MaxAsks \in Nat
    /\ AskedBy \in [Asks -> Users] /\ NoOne \notin Users
    /\ QueryOf \in [Asks -> Queries]
    /\ ContextMax \in Nat \ {0} /\ HistoryMax \in Nat

VARIABLES
    ask,        \* the state of each request
    owner,      \* conversations.user_id
    messages,   \* the rows of messages
    clock       \* transactions started so far

ragVars == <<ask, owner, messages, clock>>

AskPC == {"idle", "resolve", "question", "embed", "search", "reread", "complete",
          "answer", "insufficient", "answered", "refused", "failed"}
AskEnd == {"idle", "answered", "refused", "failed"}

\* conv: the conversation, as a set of at most one.  since: when the transaction
\* of the session started.  prompt: the messages of the history that go into the
\* prompt.  context: the chunks whose text or preview goes into it.  cites: the
\* citations of the answer.
NewAsk == [pc |-> "idle", conv |-> {}, since |-> 0, prompt |-> {}, context |-> {},
           cites |-> {}, usage |-> NewAccount]

Message == [conv : Conversations, role : {"user", "assistant"}, from : Asks,
            at : Nat, cites : SUBSET AllChunks]

RagTypeOK ==
    /\ DOMAIN ask = Asks
    /\ \A r \in Asks :
          /\ ask[r].pc \in AskPC /\ ask[r].conv \subseteq Conversations
          /\ ask[r].since \in 0 .. clock /\ ask[r].prompt \subseteq messages
          /\ ask[r].usage \in Account
    /\ owner \in [Conversations -> Users \cup {NoOne}]
    /\ messages \subseteq Message
    /\ clock \in Nat

RagInit ==
    /\ ask = [r \in Asks |-> NewAsk]
    /\ owner = [c \in Conversations |-> NoOne]
    /\ messages = {}
    /\ clock = 0

-----------------------------------------------------------------------------
(* The rows, as the repository reads them.                                 *)

ConversationMessages(c) == {m \in messages : m.conv = c}

\* list_messages_for_conversation orders by created_at; the prompt takes the last.
LastMessages(S, n) == {m \in S : Cardinality({k \in S : k.at > m.at}) < n}

\* Mutant of MayUse (ConversationsArePrivate): any conversation of the workspace.
MayUseExisting(user, c) == owner[c] # NoOne

\* An unknown conversation and one of somebody else are the same 404.
MayUse(user, c) == owner[c] = user

\* What the list and the detail of conversations show a user.
ConversationsListed(user) == {c \in Conversations : owner[c] = user}
ConversationDetail(user, c) == IF MayUse(user, c) THEN ConversationMessages(c) ELSE {}

-----------------------------------------------------------------------------
(* The steps of ask                                                        *)

Move(r, pc) == ask' = [ask EXCEPT ![r].pc = pc]

\* A commit keeps the open usage rows and is followed by a new transaction.
Recommitted(a, pc) ==
    [a EXCEPT !.pc = pc, !.since = clock + 1, !.usage = Committed(@)]

\* What a request leaves behind: its conversation, and the usage rows it lost.
Over(a, pc) == [NewAsk EXCEPT !.pc = pc, !.conv = a.conv, !.usage = Closed(a.usage)]

AsksMade == {r \in Asks : ask[r].pc # "idle"}

\* Authentication starts the transaction of the request.
BeginAsk(r) ==
    /\ ask[r].pc = "idle" /\ Cardinality(AsksMade) < MaxAsks
    /\ clock' = clock + 1
    /\ ask' = [ask EXCEPT ![r].pc = "resolve", ![r].since = clock + 1]
    /\ UNCHANGED <<owner, messages>>

\* An id that no conversation has yet; which one does not matter.
NewId == CHOOSE c \in Conversations : owner[c] = NoOne

NewConversation(r) ==
    /\ ask[r].pc = "resolve"
    /\ \E c \in Conversations :
          /\ c = NewId /\ owner[c] = NoOne
          /\ owner' = [owner EXCEPT ![c] = AskedBy[r]]
          /\ ask' = [ask EXCEPT ![r] = [Recommitted(@, "question") EXCEPT !.conv = {c}]]
    /\ clock' = clock + 1
    /\ UNCHANGED messages

\* The history is read before the question is saved.
ContinueConversation(r) ==
    /\ ask[r].pc = "resolve"
    /\ \E c \in Conversations :
          /\ MayUse(AskedBy[r], c)
          /\ ask' = [ask EXCEPT ![r].pc = "question", ![r].conv = {c},
                                ![r].prompt = LastMessages(ConversationMessages(c), HistoryMax)]
    /\ UNCHANGED <<owner, messages, clock>>

ConversationNotFound(r) ==
    /\ ask[r].pc = "resolve"
    /\ \E c \in Conversations : ~MayUse(AskedBy[r], c)
    /\ ask' = [ask EXCEPT ![r] = Over(@, "refused")]
    /\ UNCHANGED <<owner, messages, clock>>

NewMessage(r, role, cites) ==
    {[conv |-> c, role |-> role, from |-> r, at |-> ask[r].since, cites |-> cites] : c \in ask[r].conv}

\* Mutant of SaveQuestion (AnswersFollowQuestions): the row is flushed, and committed
\* with the answer: one transaction.
FlushQuestion(r) ==
    /\ ask[r].pc = "question"
    /\ messages' = messages \cup NewMessage(r, "user", {})
    /\ ask' = [ask EXCEPT ![r].pc = "embed"]
    /\ UNCHANGED <<owner, clock>>

SaveQuestion(r) ==
    /\ ask[r].pc = "question"
    /\ messages' = messages \cup NewMessage(r, "user", {})
    /\ ask' = [ask EXCEPT ![r] = Recommitted(@, "embed")]
    /\ clock' = clock + 1
    /\ UNCHANGED owner

Called(r, op, pc) == \E u \in LogEvent(ask[r].usage, op) :
    ask' = [ask EXCEPT ![r].usage = u, ![r].pc = pc]

EmbedQuestion(r) ==
    /\ ask[r].pc = "embed"
    /\ Called(r, "embedding_query", "search")
    /\ UNCHANGED <<owner, messages, clock>>

\* An exception ends the request, and its session is closed: nothing is committed.
FailWith(r, usage) ==
    ask' = [ask EXCEPT ![r] = Over([@ EXCEPT !.usage = usage], "failed")]

\* The provider fails, or returns anything but one vector.
QuestionEmbeddingFails(r) ==
    /\ ask[r].pc = "embed"
    /\ \E u \in LogEvent(ask[r].usage, "embedding_query") : FailWith(r, u)
    /\ UNCHANGED <<owner, messages, clock>>

\* The best ContextMax of the matches make the context.
SearchForContext(r) ==
    /\ ask[r].pc = "search"
    /\ \E filter \in AskFilters :
          \E matches \in RetrievedChunks(QueryOf[r], AskerWorkspace, filter) :
             IF matches = {} THEN Move(r, "insufficient")
             ELSE \E context \in kSubset(Min({ContextMax, Cardinality(matches)}), matches) :
                     ask' = [ask EXCEPT ![r].pc = "reread", ![r].context = context]
    /\ UNCHANGED <<owner, messages, clock>>

\* Mutant of SelectContextChunks (AnswerCitationsWereInPrompt): a row that is gone
\* is left out.
DropGoneChunks(r, context) == {c \in context : ChunkStored(AskerWorkspace, c)}

\* A row that is gone leaves its preview in the prompt.
SelectContextChunks(r, context) == context

RereadChunks(r) ==
    /\ ask[r].pc = "reread"
    /\ ask' = [ask EXCEPT ![r].pc = "complete",
                          ![r].context = SelectContextChunks(r, @)]
    /\ UNCHANGED <<owner, messages, clock>>

\* The citations are the chunks the model names, as far as they are in the
\* context, and the whole context when it names none of them.
BuildCitations(context, named) ==
    IF named \cap context # {} THEN named \cap context ELSE context

\* The answer may name any set of chunks of the context, and chunks it never saw.
CompleteAnswer(r) ==
    /\ ask[r].pc = "complete"
    /\ \E u \in LogEvent(ask[r].usage, "chat_completion"),
          named \in SUBSET ask[r].context \cup {AllChunks \ ask[r].context} :
          ask' = [ask EXCEPT ![r].usage = u, ![r].pc = "answer",
                             ![r].cites = BuildCitations(ask[r].context, named)]
    /\ UNCHANGED <<owner, messages, clock>>

\* The provider fails, or its answer cannot be used.
CompletionFails(r) ==
    /\ ask[r].pc = "complete"
    /\ \E u \in LogEvent(ask[r].usage, "chat_completion") : FailWith(r, u)
    /\ UNCHANGED <<owner, messages, clock>>

\* Mutant of AddAnswer (QuestionsAnsweredUnlessFailed): a refresh that is retried
\* inserts again.
AddAnswerTwice(r, cites) ==
    /\ messages' = messages \cup NewMessage(r, "assistant", cites) \cup
           {[m EXCEPT !.at = clock + 1] : m \in NewMessage(r, "assistant", cites)}
    /\ ask' = [ask EXCEPT ![r] = Over(Recommitted(@, "answered"), "answered")]
    /\ clock' = clock + 1
    /\ UNCHANGED owner

AddAnswer(r, cites) ==
    /\ messages' = messages \cup NewMessage(r, "assistant", cites)
    /\ ask' = [ask EXCEPT ![r] = Over(Recommitted(@, "answered"), "answered")]
    /\ clock' = clock + 1
    /\ UNCHANGED owner

SaveAnswer(r) == ask[r].pc = "answer" /\ AddAnswer(r, ask[r].cites)

SaveInsufficientAnswer(r) == ask[r].pc = "insufficient" /\ AddAnswer(r, {})

\* The process dies or a statement fails.
AskBreaks(r) ==
    /\ ask[r].pc \notin AskEnd
    /\ FailWith(r, ask[r].usage)
    /\ UNCHANGED <<owner, messages, clock>>

RagWork(r) ==
    \/ NewConversation(r) \/ ContinueConversation(r) \/ ConversationNotFound(r)
    \/ SaveQuestion(r) \/ EmbedQuestion(r) \/ QuestionEmbeddingFails(r)
    \/ SearchForContext(r) \/ RereadChunks(r) \/ CompleteAnswer(r) \/ CompletionFails(r)
    \/ SaveAnswer(r) \/ SaveInsufficientAnswer(r)

RagNext == \E r \in Asks : BeginAsk(r) \/ RagWork(r) \/ AskBreaks(r)

\* The requests against a corpus that others change.
RagSpec ==
    /\ RagInit /\ KnowledgeBaseInit
    /\ [][\/ RagNext /\ UNCHANGED kbVars
          \/ KnowledgeBaseNext /\ UNCHANGED ragVars]_<<ragVars, kbVars>>

-----------------------------------------------------------------------------
(* Properties                                                              *)

MessagesOf(r, role) == {m \in messages : m.from = r /\ m.role = role}

\* A request that was answered left one question and one answer, in the same
\* conversation; a question without an answer is one whose request is still at work
\* or failed, and an answer never stands alone.
QuestionsAnsweredUnlessFailed ==
    \A r \in Asks :
        LET questions == MessagesOf(r, "user")
            answers == MessagesOf(r, "assistant")
        IN  /\ ask[r].pc = "answered" => Cardinality(questions) = 1 /\ Cardinality(answers) = 1
            /\ questions # {} /\ answers = {} => ask[r].pc \notin {"answered", "refused"}
            /\ \A a \in answers : \E q \in questions : q.conv = a.conv

\* In the order in which a conversation is read back every answer comes after its
\* question and no two messages tie, although created_at is the start of a
\* transaction and requests interleave.
AnswersFollowQuestions ==
    /\ \A q, a \in messages :
          q.from = a.from /\ q.role = "user" /\ a.role = "assistant" => q.at < a.at
    /\ \A m, k \in messages : m # k => m.at # k.at

\* What an answer cites was in its prompt and belongs to the workspace, even when the
\* chunk rows were replaced after the search; only an answer for want of context
\* cites nothing.
AnswerCitationsWereInPrompt ==
    /\ \A r \in Asks :
          /\ ask[r].pc = "answer" => ask[r].cites # {} /\ ask[r].cites \subseteq ask[r].context
          /\ ask[r].pc = "insufficient" => ask[r].context = {}
    /\ \A m \in messages : \A c \in m.cites : InWorkspace(AskerWorkspace, DocumentOf(c))

\* A conversation holds only what its owner asked, and only its owner sees it: in
\* lists, in the detail and in the history of a prompt.
ConversationsArePrivate ==
    /\ \A m \in messages : owner[m.conv] = AskedBy[m.from]
    /\ \A r \in Asks : \A m \in ask[r].prompt :
          /\ m.conv \in ConversationsListed(AskedBy[r])
          /\ m \in ConversationDetail(AskedBy[r], m.conv)

\* ADR-007: every AI provider call is logged, whether it succeeds or fails.
EveryCallIsLogged == \A r \in Asks : ask[r].usage.lost = {}
=============================================================================
