------------------------------ MODULE UsageLog ------------------------------
(***************************************************************************)
(* The usage_events rows of one database session: what becomes of the row  *)
(* of a provider call between the call and the end of the request or task. *)
(*                                                                         *)
(* log_event writes its row under a savepoint of whatever transaction the  *)
(* caller has open, and never commits.  An account is the session's open   *)
(* rows and those that went down with a transaction, as sets of operations.*)
(***************************************************************************)

UsageOperation ==
    {"embedding_query", "embedding_document", "chat_completion", "agent_step"}

Account == [open : SUBSET UsageOperation, lost : SUBSET UsageOperation]

NewAccount == [open |-> {}, lost |-> {}]

\* A row that cannot be inserted rolls back to the savepoint; the failure is
\* logged and swallowed.
LogEvent(a, op) == {a, [a EXCEPT !.open = @ \cup {op}]}

\* Any commit of the session, whatever it was for, keeps the open rows.
Committed(a) == [a EXCEPT !.open = {}]

\* get_db and the task only close the session: an open transaction is rolled back.
Closed(a) == [open |-> {}, lost |-> a.lost \cup a.open]

\* Every row written so far is in the table.
AllKept(a) == a.open = {} /\ a.lost = {}
=============================================================================
