---------------------------- MODULE JobLifecycle ----------------------------
(***************************************************************************)
(* What the ingestion pipeline promises about the jobs of a document,      *)
(* without queue, workers or requests: one job at a time, in the order of  *)
(* their creation; only the job that runs publishes chunks; a job that has *)
(* settled never runs again, and none completes over the content of        *)
(* another job.                                                            *)
(***************************************************************************)
EXTENDS Integers

CONSTANTS Docs, NoDoc, MaxJobs

VARIABLES
    status,   \* of each job
    owner,    \* document of each job
    content   \* job whose chunks the document serves, or 0

lifecycleVars == <<status, owner, content>>

AllJobs == 1 .. MaxJobs
Open == {"pending", "processing"}

LifecycleInit ==
    /\ status = [j \in AllJobs |-> "unborn"]
    /\ owner = [j \in AllJobs |-> NoDoc]
    /\ content = [d \in Docs |-> 0]

\* A job is created for a document none of whose jobs is open.
Create(j, d) ==
    /\ status[j] = "unborn"
    /\ \A k \in AllJobs : k < j => status[k] # "unborn"
    /\ \A k \in AllJobs : owner[k] = d => status[k] \notin Open
    /\ status' = [status EXCEPT ![j] = "pending"]
    /\ owner' = [owner EXCEPT ![j] = d]
    /\ UNCHANGED content

Start(j) ==
    /\ status[j] = "pending"
    /\ status' = [status EXCEPT ![j] = "processing"]
    /\ UNCHANGED <<owner, content>>

\* The run of a job whose rows are being deleted may still write its chunks: they
\* then hold the document row.
Publish(j) ==
    /\ status[j] \in {"processing", "deleted"}
    /\ content' = [content EXCEPT ![owner[j]] = j]
    /\ UNCHANGED <<status, owner>>

\* Another job of the same document, its row not deleted, whose content is served.
ContentOfOther(j) ==
    {k \in AllJobs \ {j} : content[owner[j]] = k /\ status[k] # "deleted"}

Settle(j, outcome) ==
    /\ status[j] = "processing"
    /\ outcome = "completed" => ContentOfOther(j) = {}
    /\ status' = [status EXCEPT ![j] = outcome]
    /\ UNCHANGED <<owner, content>>

\* A reindex or a deletion withdraws what was served.
Withdraw(d) ==
    /\ content' = [content EXCEPT ![d] = 0]
    /\ UNCHANGED <<status, owner>>

Purge(d) ==
    /\ status' = [j \in AllJobs |-> IF owner[j] = d /\ status[j] # "unborn"
                                    THEN "deleted" ELSE status[j]]
    /\ UNCHANGED <<owner, content>>

LifecycleNext ==
    \/ \E j \in AllJobs, d \in Docs : Create(j, d)
    \/ \E j \in AllJobs : Start(j) \/ Publish(j)
    \/ \E j \in AllJobs, outcome \in {"completed", "failed"} : Settle(j, outcome)
    \/ \E d \in Docs : Withdraw(d) \/ Purge(d)

LifecycleSpec == LifecycleInit /\ [][LifecycleNext]_lifecycleVars
=============================================================================
