---------------------------- MODULE RagQueryProofs ----------------------------
(***************************************************************************)
(* Proofs about questions and conversations, for any number of users,      *)
(* requests and conversations, any corpus and whatever the models answer.  *)
(***************************************************************************)
EXTENDS RagQuery, OperatorProofs, FiniteSetTheorems

-----------------------------------------------------------------------------
(* The inductive invariant                                                 *)

AskFields == {"pc", "conv", "since", "prompt", "context", "cites", "usage"}

\* A request at work: its session has an open transaction.
WorkingPC == {"resolve", "question", "embed", "search", "reread", "complete", "answer", "insufficient"}

\* It has a conversation; it has saved its question in it.
ConversingPC == WorkingPC \ {"resolve"}
AskedPC == ConversingPC \ {"question"}

AskTyped(a) ==
    /\ DOMAIN a = AskFields
    /\ a.pc \in AskPC /\ a.conv \subseteq Conversations
    /\ a.since \in Nat /\ a.since <= clock
    /\ a.usage \in Account

\* The conversation is the user's own, and the history in the prompt is of it.
AskOwned(r, a) ==
    /\ \A c \in a.conv : owner[c] = AskedBy[r]
    /\ a.pc \in ConversingPC => \E c \in Conversations : a.conv = {c}
    /\ \A m \in a.prompt : m \in messages /\ m.conv \in a.conv
    /\ a.pc \in {"idle", "resolve"} => a.prompt = {}

ContextOK(a) ==
    /\ \A c \in a.context : c \in AllChunks /\ InWorkspace(AskerWorkspace, DocumentOf(c))
    /\ a.pc \in {"reread", "complete", "answer"} => a.context # {}
    /\ a.pc \notin {"reread", "complete", "answer"} => a.context = {}
    /\ a.cites \subseteq a.context
    /\ a.pc = "answer" => a.cites # {}

\* The open transaction has saved no message yet.
AskFresh(a) == a.pc \in WorkingPC => \A m \in messages : m.at # a.since

\* What the request has left in its conversation so far.
AskSaved(r, a) ==
    /\ a.pc \in {"idle", "resolve", "question", "refused"} => \A m \in messages : m.from # r
    /\ a.pc \in AskedPC =>
           \E q \in messages : q.from = r /\ q.role = "user" /\ q.conv \in a.conv /\ q.at < a.since
    /\ a.pc = "answered" =>
           /\ \E q \in messages : q.from = r /\ q.role = "user"
           /\ \E k \in messages : k.from = r /\ k.role = "assistant"
    /\ \A m \in messages : m.from = r /\ m.role = "assistant" => a.pc = "answered"

AskOK(r, a) == AskTyped(a) /\ AskOwned(r, a) /\ ContextOK(a) /\ AskFresh(a) /\ AskSaved(r, a)

\* A request leaves at most one question and one answer, in that order and in one
\* conversation of its user.
MessagesOK ==
    /\ messages \subseteq Message
    /\ \A m \in messages : m.at <= clock /\ owner[m.conv] = AskedBy[m.from]
    /\ \A m, k \in messages : m # k => m.at # k.at
    /\ \A m, k \in messages : m.from = k.from /\ m.role = k.role => m = k
    /\ \A q, a \in messages :
          q.from = a.from /\ q.role = "user" /\ a.role = "assistant" => q.at < a.at /\ q.conv = a.conv
    /\ \A m \in messages : \A c \in m.cites : InWorkspace(AskerWorkspace, DocumentOf(c))

\* No two open transactions started at once.
SessionsApart ==
    \A r, s \in Asks :
        r # s /\ ask[r].pc \in WorkingPC /\ ask[s].pc \in WorkingPC => ask[r].since # ask[s].since

RagInv ==
    /\ DOMAIN ask = Asks /\ clock \in Nat
    /\ owner \in [Conversations -> Users \cup {NoOne}]
    /\ \A r \in Asks : AskOK(r, ask[r])
    /\ MessagesOK /\ SessionsApart

-----------------------------------------------------------------------------
(* What one request does leaves the others in order                        *)

LEMMA OthersKeep ==
    ASSUME RagInv, NEW r \in Asks, NEW s \in Asks, s # r, ask'[s] = ask[s],
           clock' \in Nat, clock' >= clock, messages \subseteq messages',
           \A m \in messages' \ messages : m.from = r /\ m.at = ask[r].since /\ ask[r].pc \in WorkingPC,
           \A c \in Conversations : owner[c] # NoOne => owner'[c] = owner[c]
    PROVE  AskOK(s, ask[s])'
<1> DEFINE a == ask[s]
<1>1. a' = a /\ AskOK(s, a) /\ clock \in Nat /\ AskedBy[s] # NoOne
  BY AskAssumption DEF RagInv
<1> HIDE DEF a
<1>2. AskTyped(a)'
  BY <1>1 DEF AskOK, AskTyped
<1>3. AskOwned(s, a)'
  BY <1>1 DEF AskOK, AskOwned, AskTyped
<1>4. ContextOK(a)'
  BY <1>1 DEF AskOK, ContextOK
<1>5. AskFresh(a)'
  <2>1. ask[r].pc \in WorkingPC /\ a.pc \in WorkingPC => ask[r].since # a.since
    BY DEF RagInv, SessionsApart, a
  <2> QED
    BY <1>1, <2>1 DEF AskOK, AskFresh
<1>6. AskSaved(s, a)'
  BY <1>1 DEF AskOK, AskSaved
<1> QED
  BY <1>2, <1>3, <1>4, <1>5, <1>6 DEF AskOK, a

\* A step of a request that saves nothing and starts no transaction.
LEMMA AskStep ==
    ASSUME RagInv, NEW r \in Asks, DOMAIN ask' = Asks,
           \A s \in Asks : s # r => ask'[s] = ask[s],
           UNCHANGED <<owner, messages, clock>>, AskOK(r, ask'[r]),
           ask'[r].pc \in WorkingPC => ask[r].pc \in WorkingPC /\ ask'[r].since = ask[r].since
    PROVE  RagInv'
<1>1. clock' = clock /\ owner' = owner /\ messages' = messages /\ clock \in Nat
  BY DEF RagInv
<1>2. ASSUME NEW s \in Asks PROVE AskOK(s, ask[s])'
  <2>1. CASE s # r
    BY <1>1, <2>1, OthersKeep
  <2>2. CASE s = r
    BY <1>1, <2>2 DEF AskOK, AskTyped, AskOwned, ContextOK, AskFresh, AskSaved
  <2> QED
    BY <2>1, <2>2
<1>3. MessagesOK'
  BY <1>1 DEF RagInv, MessagesOK
<1>4. SessionsApart'
  BY DEF RagInv, SessionsApart
<1> QED
  BY <1>1, <1>2, <1>3, <1>4 DEF RagInv

\* A step of a request that starts a transaction, and may create a conversation.
LEMMA TransactionStep ==
    ASSUME RagInv, NEW r \in Asks, DOMAIN ask' = Asks,
           \A s \in Asks : s # r => ask'[s] = ask[s],
           messages' = messages, clock' = clock + 1,
           owner' \in [Conversations -> Users \cup {NoOne}],
           \A c \in Conversations : owner[c] # NoOne => owner'[c] = owner[c],
           AskOK(r, ask[r])', ask'[r].since = clock + 1
    PROVE  RagInv'
<1>1. clock \in Nat /\ clock' \in Nat /\ clock' >= clock
  BY DEF RagInv
<1>2. ASSUME NEW s \in Asks PROVE AskOK(s, ask[s])'
  BY <1>1, OthersKeep
<1>3. MessagesOK'
  <2>1. ASSUME NEW m \in messages
        PROVE  m.at <= clock' /\ owner'[m.conv] = AskedBy[m.from]
    <3>1. m \in Message /\ m.at <= clock /\ owner[m.conv] = AskedBy[m.from]
      BY DEF RagInv, MessagesOK
    <3>2. m.conv \in Conversations /\ m.at \in Nat /\ AskedBy[m.from] # NoOne
      BY <3>1, AskAssumption DEF Message
    <3> QED
      BY <1>1, <3>1, <3>2
  <2> QED
    BY <2>1 DEF RagInv, MessagesOK
<1>4. SessionsApart'
  <2>1. \A s \in Asks : s # r => ask[s].since <= clock /\ ask[s].since \in Nat
    BY DEF RagInv, AskOK, AskTyped
  <2>2. \A s \in Asks : s # r => ask'[s].since # ask'[r].since
    BY <1>1, <2>1
  <2> QED
    BY <2>2 DEF RagInv, SessionsApart
<1> QED
  BY <1>1, <1>2, <1>3, <1>4 DEF RagInv

\* A step that saves a message in the open transaction of the request and ends it.
LEMMA MessageStep ==
    ASSUME RagInv, NEW r \in Asks, DOMAIN ask' = Asks,
           \A s \in Asks : s # r => ask'[s] = ask[s],
           clock' = clock + 1, owner' = owner, ask[r].pc \in WorkingPC,
           NEW new \in Message, messages' = messages \cup {new},
           new.from = r, new.at = ask[r].since, owner[new.conv] = AskedBy[r],
           \A c \in new.cites : InWorkspace(AskerWorkspace, DocumentOf(c)),
           \A m \in messages : m.from = r => /\ m.role = "user" /\ new.role = "assistant"
                                             /\ m.at < new.at /\ m.conv = new.conv,
           AskOK(r, ask[r])', ask'[r].pc \in WorkingPC => ask'[r].since = clock + 1
    PROVE  RagInv'
<1>1. clock \in Nat /\ clock' \in Nat /\ clock' >= clock
  BY DEF RagInv
<1>2. ASSUME NEW s \in Asks PROVE AskOK(s, ask[s])'
  BY <1>1, OthersKeep
<1>3. AskOK(r, ask[r])
  BY DEF RagInv
<1>4. \A m \in messages : m.at # new.at
  BY <1>3 DEF AskOK, AskFresh
<1>5. new.at <= clock /\ new.at \in Nat
  BY <1>3 DEF AskOK, AskTyped
<1>6. MessagesOK'
  <2>1. messages' \subseteq Message
    BY DEF RagInv, MessagesOK
  <2>2. \A m \in messages' : m.at <= clock' /\ owner'[m.conv] = AskedBy[m.from]
    <3>1. \A m \in messages : m.at \in Nat /\ m.at <= clock
      BY DEF RagInv, MessagesOK, Message
    <3> QED
      BY <1>1, <1>5, <3>1 DEF RagInv, MessagesOK
  <2>3. \A m, k \in messages' : m # k => m.at # k.at
    BY <1>4 DEF RagInv, MessagesOK
  <2>4. \A m, k \in messages' : m.from = k.from /\ m.role = k.role => m = k
    BY DEF RagInv, MessagesOK
  <2>5. \A q, a \in messages' :
          q.from = a.from /\ q.role = "user" /\ a.role = "assistant" => q.at < a.at /\ q.conv = a.conv
    BY DEF RagInv, MessagesOK
  <2>6. \A m \in messages' : \A c \in m.cites : InWorkspace(AskerWorkspace, DocumentOf(c))
    BY DEF RagInv, MessagesOK
  <2> QED
    BY <2>1, <2>2, <2>3, <2>4, <2>5, <2>6 DEF MessagesOK
<1>7. SessionsApart'
  <2>1. \A s \in Asks : s # r => ask[s].since <= clock /\ ask[s].since \in Nat
    BY DEF RagInv, AskOK, AskTyped
  <2>2. \A s \in Asks : s # r /\ ask'[r].pc \in WorkingPC => ask'[s].since # ask'[r].since
    BY <1>1, <2>1
  <2> QED
    BY <2>2 DEF RagInv, SessionsApart
<1> QED
  BY <1>1, <1>2, <1>6, <1>7 DEF RagInv

-----------------------------------------------------------------------------
(* The records of requests                                                 *)

LEMMA NewAskFields ==
    /\ DOMAIN NewAsk = AskFields /\ NewAsk.pc = "idle" /\ NewAsk.conv = {} /\ NewAsk.since = 0
    /\ NewAsk.prompt = {} /\ NewAsk.context = {} /\ NewAsk.cites = {} /\ NewAsk.usage = NewAccount
  BY DEF NewAsk, AskFields

\* What is left of a request that is over.
LEMMA OverFields ==
    ASSUME NEW a, NEW pc
    PROVE  /\ DOMAIN Over(a, pc) = AskFields /\ Over(a, pc).pc = pc /\ Over(a, pc).conv = a.conv
           /\ Over(a, pc).since = 0 /\ Over(a, pc).prompt = {} /\ Over(a, pc).context = {}
           /\ Over(a, pc).cites = {} /\ Over(a, pc).usage = Closed(a.usage)
<1>1. DOMAIN NewAsk = AskFields
  BY DEF NewAsk, AskFields
<1>2. /\ DOMAIN Over(a, pc) = AskFields /\ Over(a, pc).pc = pc /\ Over(a, pc).conv = a.conv
      /\ Over(a, pc).usage = Closed(a.usage)
  BY <1>1 DEF Over, AskFields
<1>3. /\ Over(a, pc).since = NewAsk.since /\ Over(a, pc).prompt = NewAsk.prompt
      /\ Over(a, pc).context = NewAsk.context /\ Over(a, pc).cites = NewAsk.cites
  BY <1>1 DEF Over, AskFields
<1> QED
  BY <1>2, <1>3, NewAskFields

LEMMA RecommittedFields ==
    ASSUME NEW a, DOMAIN a = AskFields, NEW pc
    PROVE  /\ DOMAIN Recommitted(a, pc) = AskFields /\ Recommitted(a, pc).pc = pc
           /\ Recommitted(a, pc).conv = a.conv /\ Recommitted(a, pc).since = clock + 1
           /\ Recommitted(a, pc).prompt = a.prompt /\ Recommitted(a, pc).context = a.context
           /\ Recommitted(a, pc).cites = a.cites /\ Recommitted(a, pc).usage = Committed(a.usage)
  BY DEF Recommitted, AskFields

\* The facts about a request that its steps start from.
LEMMA AskFacts ==
    ASSUME RagInv, NEW r \in Asks
    PROVE  /\ AskOK(r, ask[r]) /\ DOMAIN ask[r] = AskFields /\ ask[r].usage \in Account
           /\ ask[r].conv \subseteq Conversations /\ ask[r].since \in Nat /\ ask[r].since <= clock
           /\ clock \in Nat /\ DOMAIN ask = Asks /\ AskedBy[r] \in Users /\ AskedBy[r] # NoOne
  BY AskAssumption DEF RagInv, AskOK, AskTyped

\* Any change of one record leaves the others.
LEMMA OneAsk ==
    ASSUME DOMAIN ask = Asks, NEW r \in Asks, NEW v, ask' = [ask EXCEPT ![r] = v]
    PROVE  /\ DOMAIN ask' = Asks /\ ask'[r] = v
           /\ \A s \in Asks : s # r => ask'[s] = ask[s]
  OBVIOUS

\* A request that ends without an answer, for whatever reason, is in order.
LEMMA GivesUp ==
    ASSUME RagInv, NEW r \in Asks, NEW a, a.conv = ask[r].conv, a.usage \in Account,
           NEW pc \in {"refused", "failed"}, ask[r].pc \in WorkingPC,
           pc = "refused" => ask[r].pc = "resolve",
           ask' = [ask EXCEPT ![r] = Over(a, pc)], UNCHANGED <<owner, messages, clock>>
    PROVE  RagInv'
<1> DEFINE v == Over(a, pc)
<1>1. /\ DOMAIN v = AskFields /\ v.pc = pc /\ v.conv = ask[r].conv /\ v.since = 0
      /\ v.prompt = {} /\ v.context = {} /\ v.cites = {} /\ v.usage \in Account
  BY OverFields, ClosedRows
<1>2. AskOK(r, ask[r]) /\ DOMAIN ask = Asks /\ clock \in Nat /\ ask[r].conv \subseteq Conversations
  BY AskFacts
<1>3. DOMAIN ask' = Asks /\ ask'[r] = v /\ \A s \in Asks : s # r => ask'[s] = ask[s]
  BY <1>2, OneAsk
<1> HIDE DEF v
<1>4. AskTyped(v)
  BY <1>1, <1>2 DEF AskTyped, AskPC
<1>5. AskOwned(r, v) /\ ContextOK(v) /\ AskFresh(v)
  BY <1>1, <1>2 DEF AskOK, AskOwned, ContextOK, AskFresh, WorkingPC, ConversingPC
<1>6. AskSaved(r, v)
  BY <1>1, <1>2 DEF AskOK, AskSaved, WorkingPC, ConversingPC, AskedPC
<1>7. v.pc \notin WorkingPC
  BY <1>1 DEF WorkingPC
<1> QED
  BY <1>3, <1>4, <1>5, <1>6, <1>7, AskStep DEF AskOK

LEMMA EndsKeep ==
    ASSUME RagInv, NEW r \in Asks,
           ConversationNotFound(r) \/ QuestionEmbeddingFails(r) \/ CompletionFails(r) \/ AskBreaks(r)
    PROVE  RagInv'
<1>1. DOMAIN ask[r] = AskFields /\ ask[r].usage \in Account /\ ask[r].pc \in AskPC
  BY AskFacts DEF AskOK, AskTyped
<1>2. ASSUME NEW u \in Account, FailWith(r, u), ask[r].pc \in WorkingPC,
             UNCHANGED <<owner, messages, clock>>
      PROVE  RagInv'
  <2> DEFINE a == [ask[r] EXCEPT !.usage = u]
  <2>1. a.conv = ask[r].conv /\ a.usage = u
    BY <1>1 DEF AskFields
  <2>2. ask' = [ask EXCEPT ![r] = Over(a, "failed")]
    BY <1>2 DEF FailWith
  <2> HIDE DEF a
  <2> QED
    BY <1>2, <2>1, <2>2, GivesUp
<1>3. CASE ConversationNotFound(r)
  <2>1. /\ ask[r].pc = "resolve" /\ ask' = [ask EXCEPT ![r] = Over(ask[r], "refused")]
        /\ UNCHANGED <<owner, messages, clock>>
    BY <1>3 DEF ConversationNotFound
  <2> QED
    BY <1>1, <2>1, GivesUp DEF WorkingPC
<1>4. CASE QuestionEmbeddingFails(r)
  <2>1. PICK u \in LogEvent(ask[r].usage, "embedding_query") : FailWith(r, u)
    BY <1>4 DEF QuestionEmbeddingFails
  <2>2. u \in Account /\ ask[r].pc \in WorkingPC /\ UNCHANGED <<owner, messages, clock>>
    BY <1>1, <1>4, <2>1, LoggedRows DEF QuestionEmbeddingFails, UsageOperation, WorkingPC
  <2> QED
    BY <1>2, <2>1, <2>2
<1>5. CASE CompletionFails(r)
  <2>1. PICK u \in LogEvent(ask[r].usage, "chat_completion") : FailWith(r, u)
    BY <1>5 DEF CompletionFails
  <2>2. u \in Account /\ ask[r].pc \in WorkingPC /\ UNCHANGED <<owner, messages, clock>>
    BY <1>1, <1>5, <2>1, LoggedRows DEF CompletionFails, UsageOperation, WorkingPC
  <2> QED
    BY <1>2, <2>1, <2>2
<1>6. CASE AskBreaks(r)
  <2>1. ask[r].pc \in WorkingPC /\ FailWith(r, ask[r].usage) /\ UNCHANGED <<owner, messages, clock>>
    BY <1>1, <1>6 DEF AskBreaks, AskPC, AskEnd, WorkingPC
  <2> QED
    BY <1>1, <1>2, <2>1
<1> QED
  BY <1>3, <1>4, <1>5, <1>6

-----------------------------------------------------------------------------
(* The conversation                                                        *)

LEMMA BeginKeeps ==
    ASSUME RagInv, NEW r \in Asks, BeginAsk(r)
    PROVE  RagInv'
<1>1. /\ AskOK(r, ask[r]) /\ DOMAIN ask[r] = AskFields /\ DOMAIN ask = Asks /\ clock \in Nat
      /\ ask[r].conv \subseteq Conversations /\ ask[r].usage \in Account
  BY AskFacts
<1>2. /\ ask[r].pc = "idle" /\ clock' = clock + 1 /\ owner' = owner /\ messages' = messages
      /\ ask' = [ask EXCEPT ![r].pc = "resolve", ![r].since = clock + 1]
  BY DEF BeginAsk
<1>3. /\ DOMAIN ask' = Asks /\ \A s \in Asks : s # r => ask'[s] = ask[s]
      /\ DOMAIN ask'[r] = AskFields /\ ask'[r].pc = "resolve" /\ ask'[r].since = clock + 1
      /\ ask'[r].conv = ask[r].conv /\ ask'[r].prompt = ask[r].prompt
      /\ ask'[r].context = ask[r].context /\ ask'[r].cites = ask[r].cites /\ ask'[r].usage = ask[r].usage
  BY <1>1, <1>2 DEF AskFields
<1>4. AskTyped(ask[r])'
  BY <1>1, <1>2, <1>3 DEF AskTyped, AskPC
<1>5. AskOwned(r, ask[r])' /\ ContextOK(ask[r])'
  BY <1>1, <1>2, <1>3 DEF AskOK, AskOwned, ContextOK, ConversingPC
<1>6. AskFresh(ask[r])'
  <2>1. \A m \in messages : m.at \in Nat /\ m.at <= clock
    BY DEF RagInv, MessagesOK, Message
  <2> QED
    BY <1>1, <1>2, <1>3, <2>1 DEF AskFresh
<1>7. AskSaved(r, ask[r])'
  BY <1>1, <1>2, <1>3 DEF AskOK, AskSaved, AskedPC, ConversingPC
<1> QED
  BY <1>2, <1>3, <1>4, <1>5, <1>6, <1>7, TransactionStep DEF AskOK, RagInv

LEMMA NewConversationKeeps ==
    ASSUME RagInv, NEW r \in Asks, NewConversation(r)
    PROVE  RagInv'
<1>1. /\ AskOK(r, ask[r]) /\ DOMAIN ask[r] = AskFields /\ DOMAIN ask = Asks /\ clock \in Nat
      /\ ask[r].usage \in Account /\ AskedBy[r] \in Users
  BY AskFacts
<1>2. PICK c \in Conversations :
          /\ owner[c] = NoOne /\ owner' = [owner EXCEPT ![c] = AskedBy[r]]
          /\ ask' = [ask EXCEPT ![r] = [Recommitted(ask[r], "question") EXCEPT !.conv = {c}]]
  BY DEF NewConversation
<1>3. ask[r].pc = "resolve" /\ clock' = clock + 1 /\ messages' = messages
  BY DEF NewConversation
<1> DEFINE a == Recommitted(ask[r], "question")
           v == [a EXCEPT !.conv = {c}]
<1>4. /\ DOMAIN a = AskFields /\ a.pc = "question" /\ a.since = clock + 1 /\ a.prompt = ask[r].prompt
      /\ a.context = ask[r].context /\ a.cites = ask[r].cites /\ a.usage \in Account
  BY <1>1, RecommittedFields, CommittedRows
<1> HIDE DEF a
<1>5. /\ DOMAIN v = AskFields /\ v.pc = "question" /\ v.since = clock + 1 /\ v.prompt = ask[r].prompt
      /\ v.context = ask[r].context /\ v.cites = ask[r].cites /\ v.usage \in Account /\ v.conv = {c}
  BY <1>4 DEF AskFields
<1>6. DOMAIN ask' = Asks /\ ask'[r] = v /\ \A s \in Asks : s # r => ask'[s] = ask[s]
  BY <1>1, <1>2, OneAsk DEF a
<1> HIDE DEF v
<1>7. /\ owner' \in [Conversations -> Users \cup {NoOne}] /\ owner'[c] = AskedBy[r]
      /\ \A k \in Conversations : owner[k] # NoOne => owner'[k] = owner[k]
  BY <1>1, <1>2 DEF RagInv
<1>8. AskTyped(ask[r])'
  BY <1>1, <1>3, <1>5, <1>6 DEF AskTyped, AskPC
<1>9. AskOwned(r, ask[r])'
  <2>1. ask[r].prompt = {}
    BY <1>1, <1>3 DEF AskOK, AskOwned
  <2> QED
    BY <1>5, <1>6, <1>7, <2>1 DEF AskOwned
<1>10. ContextOK(ask[r])'
  BY <1>1, <1>3, <1>5, <1>6 DEF AskOK, ContextOK
<1>11. AskFresh(ask[r])'
  <2>1. \A m \in messages : m.at \in Nat /\ m.at <= clock
    BY DEF RagInv, MessagesOK, Message
  <2> QED
    BY <1>1, <1>3, <1>5, <1>6, <2>1 DEF AskFresh
<1>12. AskSaved(r, ask[r])'
  BY <1>1, <1>3, <1>5, <1>6 DEF AskOK, AskSaved, AskedPC, ConversingPC
<1> QED
  BY <1>3, <1>5, <1>6, <1>7, <1>8, <1>9, <1>10, <1>11, <1>12, TransactionStep DEF AskOK

LEMMA ContinueKeeps ==
    ASSUME RagInv, NEW r \in Asks, ContinueConversation(r)
    PROVE  RagInv'
<1>1. /\ AskOK(r, ask[r]) /\ DOMAIN ask[r] = AskFields /\ DOMAIN ask = Asks /\ clock \in Nat
  BY AskFacts
<1>2. PICK c \in Conversations :
          /\ owner[c] = AskedBy[r]
          /\ ask' = [ask EXCEPT ![r].pc = "question", ![r].conv = {c},
                                ![r].prompt = LastMessages(ConversationMessages(c), HistoryMax)]
  BY DEF ContinueConversation, MayUse
<1>3. ask[r].pc = "resolve" /\ UNCHANGED <<owner, messages, clock>>
  BY DEF ContinueConversation
<1> DEFINE last == LastMessages(ConversationMessages(c), HistoryMax)
<1>4. \A m \in last : m \in messages /\ m.conv = c
  BY DEF LastMessages, ConversationMessages
<1> HIDE DEF last
<1>5. /\ DOMAIN ask' = Asks /\ \A s \in Asks : s # r => ask'[s] = ask[s]
      /\ DOMAIN ask'[r] = AskFields /\ ask'[r].pc = "question" /\ ask'[r].conv = {c}
      /\ ask'[r].prompt = last /\ ask'[r].since = ask[r].since
      /\ ask'[r].context = ask[r].context /\ ask'[r].cites = ask[r].cites /\ ask'[r].usage = ask[r].usage
  BY <1>1, <1>2 DEF AskFields, last
<1> DEFINE v == ask'[r]
<1> HIDE DEF v
<1>6. /\ DOMAIN v = AskFields /\ v.pc = "question" /\ v.conv = {c} /\ v.prompt = last
      /\ v.since = ask[r].since /\ v.context = ask[r].context /\ v.cites = ask[r].cites
      /\ v.usage = ask[r].usage
  BY <1>5 DEF v
<1>7. AskTyped(v)
  BY <1>1, <1>6 DEF AskOK, AskTyped, AskPC
<1>8. AskOwned(r, v)
  BY <1>2, <1>4, <1>6 DEF AskOwned
<1>9. ContextOK(v) /\ AskFresh(v)
  BY <1>1, <1>3, <1>6 DEF AskOK, ContextOK, AskFresh, WorkingPC
<1>10. AskSaved(r, v)
  BY <1>1, <1>3, <1>6 DEF AskOK, AskSaved, AskedPC, ConversingPC
<1> QED
  BY <1>3, <1>5, <1>6, <1>7, <1>8, <1>9, <1>10, AskStep DEF AskOK, WorkingPC, v

-----------------------------------------------------------------------------
(* Retrieval and completion                                                *)

\* A step between the question and the answer: only the control point, the context,
\* the citations and the usage rows change.
LEMMA AnsweringStep ==
    ASSUME RagInv, NEW r \in Asks, ask[r].pc \in AskedPC, ask'[r].pc \in AskedPC,
           ContextOK(ask'[r]), DOMAIN ask' = Asks, \A s \in Asks : s # r => ask'[s] = ask[s],
           DOMAIN ask'[r] = AskFields, ask'[r].usage \in Account, ask'[r].conv = ask[r].conv,
           ask'[r].since = ask[r].since, ask'[r].prompt = ask[r].prompt,
           UNCHANGED <<owner, messages, clock>>
    PROVE  RagInv'
<1>1. AskOK(r, ask[r])
  BY AskFacts
<1> DEFINE v == ask'[r]
<1>2. /\ DOMAIN v = AskFields /\ v.pc \in AskedPC /\ v.conv = ask[r].conv /\ v.prompt = ask[r].prompt
      /\ v.since = ask[r].since /\ v.usage \in Account /\ ContextOK(v)
  OBVIOUS
<1> HIDE DEF v
<1>3. AskTyped(v)
  BY <1>1, <1>2 DEF AskOK, AskTyped, AskPC, AskedPC, ConversingPC, WorkingPC
<1>4. AskOwned(r, v)
  BY <1>1, <1>2 DEF AskOK, AskOwned, AskedPC, ConversingPC, WorkingPC
<1>5. AskFresh(v)
  BY <1>1, <1>2 DEF AskOK, AskFresh, AskedPC, ConversingPC
<1>6. AskSaved(r, v)
  BY <1>1, <1>2 DEF AskOK, AskSaved, AskedPC, ConversingPC, WorkingPC
<1> QED
  BY <1>2, <1>3, <1>4, <1>5, <1>6, AskStep DEF AskOK, AskedPC, ConversingPC, v

LEMMA EmbedKeeps ==
    ASSUME RagInv, NEW r \in Asks, EmbedQuestion(r)
    PROVE  RagInv'
<1>1. /\ AskOK(r, ask[r]) /\ DOMAIN ask[r] = AskFields /\ DOMAIN ask = Asks /\ ask[r].usage \in Account
  BY AskFacts
<1>2. PICK u \in LogEvent(ask[r].usage, "embedding_query") :
          ask' = [ask EXCEPT ![r].usage = u, ![r].pc = "search"]
  BY DEF EmbedQuestion, Called
<1>3. ask[r].pc = "embed" /\ UNCHANGED <<owner, messages, clock>>
  BY DEF EmbedQuestion
<1>4. u \in Account
  BY <1>1, LoggedRows DEF UsageOperation
<1>5. /\ DOMAIN ask' = Asks /\ \A s \in Asks : s # r => ask'[s] = ask[s]
      /\ DOMAIN ask'[r] = AskFields /\ ask'[r].pc = "search" /\ ask'[r].conv = ask[r].conv
      /\ ask'[r].prompt = ask[r].prompt /\ ask'[r].since = ask[r].since
      /\ ask'[r].context = ask[r].context /\ ask'[r].cites = ask[r].cites /\ ask'[r].usage = u
  BY <1>1, <1>2 DEF AskFields
<1>6. ask[r].context = {} /\ ask[r].cites = {}
  BY <1>1, <1>3 DEF AskOK, ContextOK
<1>7. "embed" \in AskedPC /\ "search" \in AskedPC
  BY DEF AskedPC, ConversingPC, WorkingPC
<1>8. ContextOK(ask'[r])
  BY <1>5, <1>6 DEF ContextOK
<1> QED
  BY <1>3, <1>4, <1>5, <1>7, <1>8, AnsweringStep

\* What retrieval returns is a finite set of chunks of the workspace.
LEMMA RetrievedRows ==
    ASSUME NEW q, NEW filter, NEW matches \in RetrievedChunks(q, AskerWorkspace, filter)
    PROVE  /\ IsFiniteSet(matches)
           /\ \A c \in matches : c \in AllChunks /\ InWorkspace(AskerWorkspace, DocumentOf(c))
<1>1. PICK S \in search_similar_with_scores(AskerWorkspace, filter) :
          matches = {k \in S : <<DocumentOf(k), IndexOf(k)>> \in Qualifying[q]}
  BY DEF RetrievedChunks
<1>2. ASSUME NEW c \in matches
      PROVE  c \in AllChunks /\ InWorkspace(AskerWorkspace, DocumentOf(c))
  <2>1. c \in UNION {list_chunks_for_document(AskerWorkspace, d) : d \in filter}
    BY <1>1 DEF search_similar_with_scores
  <2>2. PICK d \in filter : c \in list_chunks_for_document(AskerWorkspace, d)
    BY <2>1
  <2>3. InWorkspace(AskerWorkspace, d) /\ c \in ChunkRows(d)
    BY <2>2 DEF list_chunks_for_document
  <2> QED
    BY <2>3 DEF ChunkRows
<1>3. IsFiniteSet(matches)
  BY <1>2, CorpusAssumption, FS_Subset
<1> QED
  BY <1>2, <1>3

\* There is a context when there is a match, since CONTEXT_MAX_CHUNKS is not zero.
LEMMA ContextNotEmpty ==
    ASSUME NEW matches, IsFiniteSet(matches), matches # {},
           NEW context \in kSubset(Min({ContextMax, Cardinality(matches)}), matches)
    PROVE  context # {} /\ context \subseteq matches
<1> DEFINE k == Cardinality(matches)
           n == Min({ContextMax, k})
<1>1. k \in Nat /\ k # 0
  BY FS_CardinalityType, FS_EmptySet
<1>2. ContextMax \in Nat /\ ContextMax # 0
  BY AskAssumption
<1> HIDE DEF k
<1>3. \E x \in {ContextMax, k} : \A y \in {ContextMax, k} : x =< y
  BY <1>1, <1>2
<1>4. n \in {ContextMax, k}
  BY <1>3 DEF Min
<1>5. n # 0
  BY <1>1, <1>2, <1>4
<1>6. context \subseteq matches /\ Cardinality(context) = n
  BY DEF kSubset, k
<1> HIDE DEF n
<1>7. context # {}
  BY <1>5, <1>6, FS_EmptySet
<1> QED
  BY <1>6, <1>7

LEMMA SearchKeeps ==
    ASSUME RagInv, NEW r \in Asks, SearchForContext(r)
    PROVE  RagInv'
<1>1. /\ AskOK(r, ask[r]) /\ DOMAIN ask[r] = AskFields /\ DOMAIN ask = Asks /\ ask[r].usage \in Account
  BY AskFacts
<1>2. ask[r].pc = "search" /\ UNCHANGED <<owner, messages, clock>>
  BY DEF SearchForContext
<1> DEFINE Found(matches) ==
              IF matches = {} THEN Move(r, "insufficient")
              ELSE \E context \in kSubset(Min({ContextMax, Cardinality(matches)}), matches) :
                      ask' = [ask EXCEPT ![r].pc = "reread", ![r].context = context]
<1>0. PICK filter \in AskFilters :
          \E matches \in RetrievedChunks(QueryOf[r], AskerWorkspace, filter) : Found(matches)
  BY DEF SearchForContext
<1>3. PICK matches \in RetrievedChunks(QueryOf[r], AskerWorkspace, filter) : Found(matches)
  BY <1>0
<1>4. ask[r].context = {} /\ ask[r].cites = {}
  BY <1>1, <1>2 DEF AskOK, ContextOK
<1>5. "search" \in AskedPC /\ "insufficient" \in AskedPC /\ "reread" \in AskedPC
  BY DEF AskedPC, ConversingPC, WorkingPC
<1>6. CASE matches = {}
  <2>1. ask' = [ask EXCEPT ![r].pc = "insufficient"]
    BY <1>3, <1>6 DEF Move
  <2>2. /\ DOMAIN ask' = Asks /\ \A s \in Asks : s # r => ask'[s] = ask[s]
        /\ DOMAIN ask'[r] = AskFields /\ ask'[r].pc = "insufficient" /\ ask'[r].conv = ask[r].conv
        /\ ask'[r].prompt = ask[r].prompt /\ ask'[r].since = ask[r].since
        /\ ask'[r].context = ask[r].context /\ ask'[r].cites = ask[r].cites /\ ask'[r].usage = ask[r].usage
    BY <1>1, <2>1 DEF AskFields
  <2>3. ContextOK(ask'[r])
    BY <1>4, <2>2 DEF ContextOK
  <2> QED
    BY <1>1, <1>2, <1>5, <2>2, <2>3, AnsweringStep
<1>7. CASE matches # {}
  <2>1. PICK context \in kSubset(Min({ContextMax, Cardinality(matches)}), matches) :
            ask' = [ask EXCEPT ![r].pc = "reread", ![r].context = context]
    BY <1>3, <1>7
  <2>2. IsFiniteSet(matches)
        /\ \A c \in matches : c \in AllChunks /\ InWorkspace(AskerWorkspace, DocumentOf(c))
    BY RetrievedRows
  <2>3. context # {} /\ context \subseteq matches
    BY <1>7, <2>2, ContextNotEmpty
  <2>4. /\ DOMAIN ask' = Asks /\ \A s \in Asks : s # r => ask'[s] = ask[s]
        /\ DOMAIN ask'[r] = AskFields /\ ask'[r].pc = "reread" /\ ask'[r].conv = ask[r].conv
        /\ ask'[r].prompt = ask[r].prompt /\ ask'[r].since = ask[r].since
        /\ ask'[r].context = context /\ ask'[r].cites = ask[r].cites /\ ask'[r].usage = ask[r].usage
    BY <1>1, <2>1 DEF AskFields
  <2>5. \A c \in context : c \in AllChunks /\ InWorkspace(AskerWorkspace, DocumentOf(c))
    BY <2>2, <2>3
  <2>6. ContextOK(ask'[r])
    BY <1>4, <2>3, <2>4, <2>5 DEF ContextOK
  <2> QED
    BY <1>1, <1>2, <1>5, <2>4, <2>6, AnsweringStep
<1> QED
  BY <1>6, <1>7

LEMMA RereadKeeps ==
    ASSUME RagInv, NEW r \in Asks, RereadChunks(r)
    PROVE  RagInv'
<1>1. /\ AskOK(r, ask[r]) /\ DOMAIN ask[r] = AskFields /\ DOMAIN ask = Asks /\ ask[r].usage \in Account
  BY AskFacts
<1>2. /\ ask[r].pc = "reread" /\ UNCHANGED <<owner, messages, clock>>
      /\ ask' = [ask EXCEPT ![r].pc = "complete", ![r].context = ask[r].context]
  BY <1>1 DEF RereadChunks, SelectContextChunks
<1>3. /\ DOMAIN ask' = Asks /\ \A s \in Asks : s # r => ask'[s] = ask[s]
      /\ DOMAIN ask'[r] = AskFields /\ ask'[r].pc = "complete" /\ ask'[r].conv = ask[r].conv
      /\ ask'[r].prompt = ask[r].prompt /\ ask'[r].since = ask[r].since
      /\ ask'[r].context = ask[r].context /\ ask'[r].cites = ask[r].cites /\ ask'[r].usage = ask[r].usage
  BY <1>1, <1>2 DEF AskFields
<1>4. /\ ask[r].context # {} /\ ask[r].cites \subseteq ask[r].context
      /\ \A c \in ask[r].context : c \in AllChunks /\ InWorkspace(AskerWorkspace, DocumentOf(c))
  BY <1>1, <1>2 DEF AskOK, ContextOK
<1>5. "reread" \in AskedPC /\ "complete" \in AskedPC
  BY DEF AskedPC, ConversingPC, WorkingPC
<1>6. ContextOK(ask'[r])
  BY <1>3, <1>4 DEF ContextOK
<1> QED
  BY <1>1, <1>2, <1>3, <1>5, <1>6, AnsweringStep

\* The citations of an answer are taken from its context, and there is always one.
LEMMA CitationsBuilt ==
    ASSUME NEW context, context # {}, NEW named
    PROVE  BuildCitations(context, named) \subseteq context /\ BuildCitations(context, named) # {}
  BY DEF BuildCitations

LEMMA CompleteKeeps ==
    ASSUME RagInv, NEW r \in Asks, CompleteAnswer(r)
    PROVE  RagInv'
<1>1. /\ AskOK(r, ask[r]) /\ DOMAIN ask[r] = AskFields /\ DOMAIN ask = Asks /\ ask[r].usage \in Account
  BY AskFacts
<1>2. ask[r].pc = "complete" /\ UNCHANGED <<owner, messages, clock>>
  BY DEF CompleteAnswer
<1>3. PICK u \in LogEvent(ask[r].usage, "chat_completion"),
           named \in SUBSET ask[r].context \cup {AllChunks \ ask[r].context} :
          ask' = [ask EXCEPT ![r].usage = u, ![r].pc = "answer",
                             ![r].cites = BuildCitations(ask[r].context, named)]
  BY DEF CompleteAnswer
<1> DEFINE cites == BuildCitations(ask[r].context, named)
<1>4. /\ ask[r].context # {}
      /\ \A c \in ask[r].context : c \in AllChunks /\ InWorkspace(AskerWorkspace, DocumentOf(c))
  BY <1>1, <1>2 DEF AskOK, ContextOK
<1>5. cites \subseteq ask[r].context /\ cites # {}
  BY <1>4, CitationsBuilt
<1>6. u \in Account
  BY <1>1, LoggedRows DEF UsageOperation
<1> HIDE DEF cites
<1>7. /\ DOMAIN ask' = Asks /\ \A s \in Asks : s # r => ask'[s] = ask[s]
      /\ DOMAIN ask'[r] = AskFields /\ ask'[r].pc = "answer" /\ ask'[r].conv = ask[r].conv
      /\ ask'[r].prompt = ask[r].prompt /\ ask'[r].since = ask[r].since
      /\ ask'[r].context = ask[r].context /\ ask'[r].cites = cites /\ ask'[r].usage = u
  BY <1>1, <1>3 DEF AskFields, cites
<1>8. "complete" \in AskedPC /\ "answer" \in AskedPC
  BY DEF AskedPC, ConversingPC, WorkingPC
<1>9. ContextOK(ask'[r])
  BY <1>4, <1>5, <1>7 DEF ContextOK
<1> QED
  BY <1>2, <1>6, <1>7, <1>8, <1>9, AnsweringStep

-----------------------------------------------------------------------------
(* The messages                                                            *)

\* The one message that a request saves in its conversation.
LEMMA SavedMessage ==
    ASSUME RagInv, NEW r \in Asks, ask[r].pc \in ConversingPC, NEW role \in {"user", "assistant"},
           NEW cites \in SUBSET AllChunks
    PROVE  \E c \in Conversations :
              LET new == [conv |-> c, role |-> role, from |-> r, at |-> ask[r].since, cites |-> cites]
              IN  /\ ask[r].conv = {c} /\ owner[c] = AskedBy[r]
                  /\ NewMessage(r, role, cites) = {new} /\ new \in Message
<1>1. AskOK(r, ask[r]) /\ ask[r].since \in Nat
  BY AskFacts
<1>2. PICK c \in Conversations : ask[r].conv = {c}
  BY <1>1 DEF AskOK, AskOwned
<1>3. owner[c] = AskedBy[r]
  BY <1>1, <1>2 DEF AskOK, AskOwned
<1> DEFINE new == [conv |-> c, role |-> role, from |-> r, at |-> ask[r].since, cites |-> cites]
<1>4. NewMessage(r, role, cites) = {new}
  BY <1>2 DEF NewMessage
<1>5. new \in Message
  BY <1>1 DEF Message
<1> QED
  BY <1>2, <1>3, <1>4, <1>5

LEMMA QuestionKeeps ==
    ASSUME RagInv, NEW r \in Asks, SaveQuestion(r)
    PROVE  RagInv'
<1>1. /\ AskOK(r, ask[r]) /\ DOMAIN ask[r] = AskFields /\ DOMAIN ask = Asks /\ clock \in Nat
      /\ ask[r].usage \in Account /\ ask[r].conv \subseteq Conversations
      /\ ask[r].since \in Nat /\ ask[r].since <= clock
  BY AskFacts
<1>2. /\ ask[r].pc = "question" /\ clock' = clock + 1 /\ owner' = owner
      /\ messages' = messages \cup NewMessage(r, "user", {})
      /\ ask' = [ask EXCEPT ![r] = Recommitted(ask[r], "embed")]
  BY DEF SaveQuestion
<1>3. PICK c \in Conversations :
          LET new == [conv |-> c, role |-> "user", from |-> r, at |-> ask[r].since, cites |-> {}]
          IN  /\ ask[r].conv = {c} /\ owner[c] = AskedBy[r]
              /\ NewMessage(r, "user", {}) = {new} /\ new \in Message
  BY <1>2, SavedMessage DEF ConversingPC, WorkingPC
<1> DEFINE new == [conv |-> c, role |-> "user", from |-> r, at |-> ask[r].since, cites |-> {}]
           v == Recommitted(ask[r], "embed")
<1>4. /\ new \in Message /\ messages' = messages \cup {new}
      /\ new.conv = c /\ new.role = "user" /\ new.from = r /\ new.at = ask[r].since /\ new.cites = {}
  BY <1>2, <1>3
<1>5. /\ DOMAIN v = AskFields /\ v.pc = "embed" /\ v.conv = ask[r].conv /\ v.since = clock + 1
      /\ v.prompt = ask[r].prompt /\ v.context = ask[r].context /\ v.cites = ask[r].cites
      /\ v.usage \in Account
  BY <1>1, RecommittedFields, CommittedRows
<1>6. DOMAIN ask' = Asks /\ ask'[r] = v /\ \A s \in Asks : s # r => ask'[s] = ask[s]
  BY <1>1, <1>2, OneAsk
<1> HIDE DEF v, new
<1>7. \A m \in messages : m.from # r /\ m.at \in Nat /\ m.at <= clock
  BY <1>1, <1>2 DEF AskOK, AskSaved, RagInv, MessagesOK, Message
<1>8. AskTyped(ask[r])'
  BY <1>1, <1>2, <1>5, <1>6 DEF AskTyped, AskPC
<1>9. AskOwned(r, ask[r])' /\ ContextOK(ask[r])'
  BY <1>1, <1>2, <1>3, <1>4, <1>5, <1>6 DEF AskOK, AskOwned, ContextOK
<1>10. AskFresh(ask[r])'
  BY <1>1, <1>2, <1>4, <1>5, <1>6, <1>7 DEF AskFresh
<1>11. AskSaved(r, ask[r])'
  <2>1. new \in messages' /\ new.conv \in ask'[r].conv /\ new.at < ask'[r].since
    BY <1>1, <1>3, <1>4, <1>5, <1>6
  <2>2. \A m \in messages' : m.from = r => m = new
    BY <1>4, <1>7
  <2> QED
    BY <1>4, <1>5, <1>6, <2>1, <2>2 DEF AskSaved
<1>12. AskOK(r, ask[r])'
  BY <1>8, <1>9, <1>10, <1>11 DEF AskOK
<1>13. ask[r].pc \in WorkingPC
  BY <1>2 DEF WorkingPC
<1> QED
  BY <1>2, <1>3, <1>4, <1>5, <1>6, <1>7, <1>12, <1>13, MessageStep

LEMMA AnswerKeeps ==
    ASSUME RagInv, NEW r \in Asks, SaveAnswer(r) \/ SaveInsufficientAnswer(r)
    PROVE  RagInv'
<1>1. /\ AskOK(r, ask[r]) /\ DOMAIN ask[r] = AskFields /\ DOMAIN ask = Asks /\ clock \in Nat
      /\ ask[r].usage \in Account /\ ask[r].conv \subseteq Conversations
      /\ ask[r].since \in Nat /\ ask[r].since <= clock
  BY AskFacts
<1>2. PICK cites \in SUBSET AllChunks :
          /\ ask[r].pc \in {"answer", "insufficient"} /\ AddAnswer(r, cites)
          /\ \A k \in cites : InWorkspace(AskerWorkspace, DocumentOf(k))
  <2>1. CASE SaveAnswer(r)
    <3>1. /\ ask[r].cites \in SUBSET AllChunks
          /\ \A k \in ask[r].cites : InWorkspace(AskerWorkspace, DocumentOf(k))
      BY <1>1 DEF AskOK, ContextOK
    <3> QED
      BY <2>1, <3>1 DEF SaveAnswer
  <2>2. CASE SaveInsufficientAnswer(r)
    BY <2>2 DEF SaveInsufficientAnswer
  <2> QED
    BY <2>1, <2>2
<1>3. /\ clock' = clock + 1 /\ owner' = owner
      /\ messages' = messages \cup NewMessage(r, "assistant", cites)
      /\ ask' = [ask EXCEPT ![r] = Over(Recommitted(ask[r], "answered"), "answered")]
  BY <1>2 DEF AddAnswer
<1>4. PICK c \in Conversations :
          LET new == [conv |-> c, role |-> "assistant", from |-> r, at |-> ask[r].since, cites |-> cites]
          IN  /\ ask[r].conv = {c} /\ owner[c] = AskedBy[r]
              /\ NewMessage(r, "assistant", cites) = {new} /\ new \in Message
  BY <1>2, SavedMessage DEF ConversingPC, WorkingPC
<1> DEFINE new == [conv |-> c, role |-> "assistant", from |-> r, at |-> ask[r].since, cites |-> cites]
           a == Recommitted(ask[r], "answered")
           v == Over(a, "answered")
<1>5. /\ new \in Message /\ messages' = messages \cup {new} /\ new.conv = c
      /\ new.role = "assistant" /\ new.from = r /\ new.at = ask[r].since /\ new.cites = cites
  BY <1>3, <1>4
<1>6. a.conv = ask[r].conv /\ a.usage \in Account
  BY <1>1, RecommittedFields, CommittedRows
<1> HIDE DEF a
<1>7. /\ DOMAIN v = AskFields /\ v.pc = "answered" /\ v.conv = ask[r].conv /\ v.since = 0
      /\ v.prompt = {} /\ v.context = {} /\ v.cites = {} /\ v.usage \in Account
  BY <1>6, OverFields, ClosedRows
<1>8. DOMAIN ask' = Asks /\ ask'[r] = v /\ \A s \in Asks : s # r => ask'[s] = ask[s]
  BY <1>1, <1>3, OneAsk DEF a
<1> HIDE DEF v, new
<1>9. PICK q \in messages : q.from = r /\ q.role = "user" /\ q.conv \in ask[r].conv /\ q.at < ask[r].since
  BY <1>1, <1>2 DEF AskOK, AskSaved, AskedPC, ConversingPC, WorkingPC
<1>10. \A m \in messages : m.from = r => m.role = "user" /\ m = q
  <2>1. \A m \in messages : m.from = r => m.role # "assistant"
    BY <1>1, <1>2 DEF AskOK, AskSaved
  <2>2. \A m \in messages : m.role \in {"user", "assistant"}
    BY DEF RagInv, MessagesOK, Message
  <2> QED
    BY <1>9, <2>1, <2>2 DEF RagInv, MessagesOK
<1>11. AskTyped(ask[r])'
  BY <1>1, <1>3, <1>7, <1>8 DEF AskTyped, AskPC
<1>12. AskOwned(r, ask[r])' /\ ContextOK(ask[r])' /\ AskFresh(ask[r])'
  BY <1>1, <1>3, <1>7, <1>8 DEF AskOK, AskOwned, ContextOK, AskFresh, ConversingPC, WorkingPC
<1>13. AskSaved(r, ask[r])'
  <2>1. q \in messages' /\ new \in messages'
    BY <1>5, <1>9
  <2> QED
    BY <1>5, <1>7, <1>8, <1>9, <2>1 DEF AskSaved, AskedPC, ConversingPC, WorkingPC
<1>14. AskOK(r, ask[r])'
  BY <1>11, <1>12, <1>13 DEF AskOK
<1>15. ask[r].pc \in WorkingPC /\ ask'[r].pc \notin WorkingPC
  BY <1>2, <1>7, <1>8 DEF WorkingPC
<1>16. \A m \in messages : m.from = r => /\ m.role = "user" /\ new.role = "assistant"
                                          /\ m.at < new.at /\ m.conv = new.conv
  BY <1>4, <1>5, <1>9, <1>10
<1> QED
  BY <1>2, <1>3, <1>4, <1>5, <1>8, <1>14, <1>15, <1>16, MessageStep

-----------------------------------------------------------------------------
(* The theorems                                                            *)

LEMMA RagInvInit == RagInit => RagInv
<1> SUFFICES ASSUME RagInit PROVE RagInv
  OBVIOUS
<1>1. DOMAIN ask = Asks /\ clock = 0 /\ messages = {} /\ \A r \in Asks : ask[r] = NewAsk
  BY DEF RagInit
<1>2. NewAccount \in Account
  BY DEF NewAccount, Account
<1>3. ASSUME NEW r \in Asks PROVE AskOK(r, ask[r])
  <2>1. AskTyped(ask[r]) /\ AskOwned(r, ask[r])
    BY <1>1, <1>2, NewAskFields DEF AskTyped, AskPC, AskOwned, ConversingPC, WorkingPC
  <2>2. ContextOK(ask[r]) /\ AskFresh(ask[r]) /\ AskSaved(r, ask[r])
    BY <1>1, NewAskFields DEF ContextOK, AskFresh, AskSaved, AskedPC, ConversingPC, WorkingPC
  <2> QED
    BY <2>1, <2>2 DEF AskOK
<1>4. MessagesOK /\ SessionsApart
  BY <1>1, NewAskFields DEF MessagesOK, SessionsApart, WorkingPC
<1> QED
  BY <1>1, <1>3, <1>4 DEF RagInv, RagInit

LEMMA RagInvNext == RagInv /\ RagNext => RagInv'
<1> SUFFICES ASSUME RagInv, NEW r \in Asks, BeginAsk(r) \/ RagWork(r) \/ AskBreaks(r)
             PROVE  RagInv'
  BY DEF RagNext
<1>1. CASE BeginAsk(r)
  BY <1>1, BeginKeeps
<1>2. CASE NewConversation(r)
  BY <1>2, NewConversationKeeps
<1>3. CASE ContinueConversation(r)
  BY <1>3, ContinueKeeps
<1>4. CASE SaveQuestion(r)
  BY <1>4, QuestionKeeps
<1>5. CASE EmbedQuestion(r)
  BY <1>5, EmbedKeeps
<1>6. CASE SearchForContext(r)
  BY <1>6, SearchKeeps
<1>7. CASE RereadChunks(r)
  BY <1>7, RereadKeeps
<1>8. CASE CompleteAnswer(r)
  BY <1>8, CompleteKeeps
<1>9. CASE SaveAnswer(r) \/ SaveInsufficientAnswer(r)
  BY <1>9, AnswerKeeps
<1>10. CASE ConversationNotFound(r) \/ QuestionEmbeddingFails(r) \/ CompletionFails(r) \/ AskBreaks(r)
  BY <1>10, EndsKeep
<1> QED
  BY <1>1, <1>2, <1>3, <1>4, <1>5, <1>6, <1>7, <1>8, <1>9, <1>10 DEF RagWork

LEMMA RagInvStill == RagInv /\ UNCHANGED ragVars => RagInv'
<1> SUFFICES ASSUME RagInv, UNCHANGED ragVars PROVE RagInv'
  OBVIOUS
<1>1. ask' = ask /\ owner' = owner /\ messages' = messages /\ clock' = clock
  BY DEF ragVars
<1>2. \A r \in Asks : AskOK(r, ask[r])'
  BY <1>1 DEF RagInv, AskOK, AskTyped, AskOwned, ContextOK, AskFresh, AskSaved
<1>3. MessagesOK' /\ SessionsApart'
  BY <1>1 DEF RagInv, MessagesOK, SessionsApart
<1> QED
  BY <1>1, <1>2, <1>3 DEF RagInv

RagStep == \/ RagNext /\ UNCHANGED kbVars
           \/ KnowledgeBaseNext /\ UNCHANGED ragVars

LEMMA RagInvHolds == RagSpec => []RagInv
<1>1. RagInv /\ [RagStep]_<<ragVars, kbVars>> => RagInv'
  BY RagInvNext, RagInvStill DEF RagStep
<1> QED
  BY <1>1, RagInvInit, PTL DEF RagSpec, RagStep

\* ask: whatever fails and however requests interleave, an answered request left one
\* question and one answer in one conversation, and no answer stands alone.
THEOREM QuestionsAlwaysAnswered == RagSpec => []QuestionsAnsweredUnlessFailed
<1>1. ASSUME RagInv, NEW r \in Asks
      PROVE  LET questions == MessagesOf(r, "user")
                 answers == MessagesOf(r, "assistant")
             IN  /\ ask[r].pc = "answered" => Cardinality(questions) = 1 /\ Cardinality(answers) = 1
                 /\ questions # {} /\ answers = {} => ask[r].pc \notin {"answered", "refused"}
                 /\ \A a \in answers : \E q \in questions : q.conv = a.conv
  <2> DEFINE questions == MessagesOf(r, "user")
             answers == MessagesOf(r, "assistant")
  <2>1. AskSaved(r, ask[r]) /\ MessagesOK
    BY <1>1 DEF RagInv, AskOK
  <2>2. ASSUME ask[r].pc = "answered"
        PROVE  (\E q \in messages : questions = {q}) /\ (\E k \in messages : answers = {k})
    <3>1. PICK q \in messages, k \in messages :
              q.from = r /\ q.role = "user" /\ k.from = r /\ k.role = "assistant"
      BY <2>1, <2>2 DEF AskSaved
    <3>2. questions = {q} /\ answers = {k}
      BY <2>1, <3>1 DEF MessagesOf, MessagesOK
    <3> QED
      BY <3>1, <3>2
  <2>3. ask[r].pc = "answered" => Cardinality(questions) = 1 /\ Cardinality(answers) = 1
    BY <2>2, FS_Singleton
  <2>4. questions # {} /\ answers = {} => ask[r].pc \notin {"answered", "refused"}
    BY <2>1 DEF MessagesOf, AskSaved
  <2>5. \A a \in answers : \E q \in questions : q.conv = a.conv
    BY <2>1 DEF MessagesOf, AskSaved, MessagesOK
  <2> QED
    BY <2>3, <2>4, <2>5
<1>2. RagInv => QuestionsAnsweredUnlessFailed
  BY <1>1 DEF QuestionsAnsweredUnlessFailed
<1> QED
  BY <1>2, RagInvHolds, PTL

\* add_message: created_at is the start of a transaction, and still no two messages
\* tie and every answer is read back after its question.
THEOREM AnswersAlwaysFollow == RagSpec => []AnswersFollowQuestions
<1>1. RagInv => AnswersFollowQuestions
  BY DEF RagInv, MessagesOK, AnswersFollowQuestions
<1> QED
  BY <1>1, RagInvHolds, PTL

\* _build_citations: what is cited was in the prompt and in the workspace, whatever
\* the model names and whatever became of the chunk rows.
THEOREM CitationsAlwaysInPrompt == RagSpec => []AnswerCitationsWereInPrompt
<1>1. ASSUME RagInv PROVE AnswerCitationsWereInPrompt
  <2>1. \A r \in Asks : ContextOK(ask[r])
    BY <1>1 DEF RagInv, AskOK
  <2>2. \A m \in messages : \A c \in m.cites : InWorkspace(AskerWorkspace, DocumentOf(c))
    BY <1>1 DEF RagInv, MessagesOK
  <2> QED
    BY <2>1, <2>2 DEF AnswerCitationsWereInPrompt, ContextOK
<1> QED
  BY <1>1, RagInvHolds, PTL

\* get_conversation and list_conversations: nobody reads, continues or is answered
\* from a conversation of somebody else.
THEOREM ConversationsAlwaysPrivate == RagSpec => []ConversationsArePrivate
<1>1. ASSUME RagInv PROVE ConversationsArePrivate
  <2>1. \A m \in messages : m \in Message /\ owner[m.conv] = AskedBy[m.from]
    BY <1>1 DEF RagInv, MessagesOK
  <2>2. ASSUME NEW r \in Asks, NEW m \in ask[r].prompt
        PROVE  /\ m.conv \in ConversationsListed(AskedBy[r])
               /\ m \in ConversationDetail(AskedBy[r], m.conv)
    <3>1. AskOwned(r, ask[r]) /\ ask[r].conv \subseteq Conversations
      BY <1>1 DEF RagInv, AskOK, AskTyped
    <3>2. m \in messages /\ m.conv \in Conversations /\ owner[m.conv] = AskedBy[r]
      BY <2>2, <3>1 DEF AskOwned
    <3> QED
      BY <3>2 DEF ConversationsListed, ConversationDetail, MayUse, ConversationMessages
  <2> QED
    BY <2>1, <2>2 DEF ConversationsArePrivate
<1> QED
  BY <1>1, RagInvHolds, PTL
=============================================================================
