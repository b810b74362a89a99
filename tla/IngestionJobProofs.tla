------------------------- MODULE IngestionJobProofs -------------------------
(***************************************************************************)
(* Proofs for every value of the constants: one message for a pending job, *)
(* settled jobs that stay settled, one active job for a document with one  *)
(* API process, complete deletions, no orphan files, the corpus that the   *)
(* readers of documents and chunks are modelled against, the number of     *)
(* attempts; under assumptions on API processes and faults also the job    *)
(* lifecycle, failed documents, completed jobs and unfinished ones.        *)
(***************************************************************************)
EXTENDS IngestionProofs, FiniteSetTheorems

\* There is no job and no message at first.
LEMMA OneCopyInit == Init => OneCopyInv
<1> SUFFICES ASSUME Init PROVE OneCopyInv
  OBVIOUS
<1>1. TypeOK /\ BusyIsPlaced
  BY TypeInit, PlacedInit
<1>2. BirthOrder
  BY DocsAssumption DEF Init, BirthOrder, TakenBy, BeingSentBy, IdleWorker, IdleApi
<1>3. RunsAgree
  BY DEF Init, RunsAgree, StartedPC, IdleWorker
<1>4. PendingHasOneCopy
  BY DEF Init, PendingHasOneCopy
<1> QED
  BY <1>1, <1>2, <1>3, <1>4 DEF OneCopyInv

-----------------------------------------------------------------------------
(* Steps of a worker                                                       *)

\* What a worker does to the status of a job: nothing, or one of the three writes.
LEMMA WorkerWrites ==
    ASSUME TypeOK, BusyIsPlaced, NEW w \in Workers, RunEffect(w), NEW j \in Jobs
    PROVE  \/ jobStatus'[j] = jobStatus[j]
           \/ /\ j = JobToDo(w) /\ worker[w].pc = "markJob" /\ worker[w].status # "processing"
              /\ JobExists(j) /\ jobStatus'[j] = "processing"
           \/ /\ j = JobToDo(w) /\ worker[w].pc \in StartedPC /\ JobExists(j)
              /\ jobStatus'[j] \in {"completed", "failed"}
<1> jobStatus \in [Jobs -> JobStatus]
  BY DEF TypeOK
<1>1. worker[w].pc # "idle" => JobToDo(w) \in Jobs
  BY BusyJob
<1>2. CASE StartsJob(w)
  BY <1>1, <1>2 DEF StartsJob
<1>3. CASE SettlesJob(w)
  BY <1>1, <1>3 DEF SettlesJob, StartedPC
<1> QED
  BY <1>2, <1>3 DEF RunEffect, WritesJob

\* The messages of a job that w does not work on are left alone, unless w takes
\* one of them.
LEMMA OtherMessages ==
    ASSUME TypeOK, BusyIsPlaced, NEW w \in Workers, RunEffect(w), NEW j \in Jobs, ~TakenBy(w, j)
    PROVE  \/ queue'[j] = queue[j] /\ ~TakenBy(w, j)'
           \/ Takes(w) /\ worker'[w].job = j
<1> queue \in [Jobs -> [Retries -> Nat]]
  BY DEF TypeOK
<1>1. CASE Takes(w)
  BY <1>1 DEF Takes, TakenBy
<1>2. CASE ~Takes(w)
  BY <1>2 DEF RunEffect, Moves, Continues, Drops, GivesBack, Republishes, SameMessage, TakenBy, JobToDo
<1> QED
  BY <1>1, <1>2

\* No worker step disturbs the order in which jobs are born.
LEMMA BirthWorker ==
    ASSUME TypeOK, BusyIsPlaced, BirthOrder, NEW w \in Workers, RunEffect(w)
    PROVE  BirthOrder'
<1>1. \A j \in Jobs : jobStatus'[j] = "unborn" <=> jobStatus[j] = "unborn"
  BY WorkerWrites DEF JobExists, LiveJob, ActiveJob
<1>2. \A d \in Docs : docStatus[d] # "unborn" => docStatus'[d] # "unborn"
  BY DEF RunEffect, WritesDocs, LiveDoc
<1>3. jobDoc' = jobDoc /\ api' = api
  BY DEF RunEffect
<1>4. \A j \in Jobs : jobDoc[j] # NoDoc => jobDoc[j] \in Docs
  BY DEF TypeOK
<1>5. ASSUME NEW j \in Jobs, jobStatus[j] = "unborn"
      PROVE  (\A r \in Retries : queue'[j][r] = 0) /\ (\A x \in Workers : ~TakenBy(x, j)')
  <2>1. ~TakenBy(w, j) /\ \A r \in Retries : queue[j][r] = 0
    BY <1>5 DEF BirthOrder
  <2>2. ~(Takes(w) /\ worker'[w].job = j)
    BY <2>1 DEF Takes
  <2>3. queue'[j] = queue[j] /\ ~TakenBy(w, j)'
    BY <2>1, <2>2, OtherMessages
  <2>4. \A x \in Workers \ {w} : ~TakenBy(x, j)'
    BY <1>5 DEF BirthOrder, TakenBy, RunEffect, OthersRun, SameRun
  <2> QED
    BY <2>1, <2>3, <2>4
<1> QED
  BY <1>1, <1>2, <1>3, <1>4, <1>5 DEF BirthOrder, BeingSentBy

\* No worker step leaves a run that disagrees with the status of its job.
LEMMA RunsWorker ==
    ASSUME OneCopyInv, NEW w \in Workers, RunEffect(w)
    PROVE  RunsAgree'
<1> /\ TypeOK /\ BusyIsPlaced /\ RunsAgree /\ PendingHasOneCopy
    /\ jobStatus \in [Jobs -> JobStatus]
  BY DEF OneCopyInv, TypeOK
<1> USE DEF JobExists
<1>1. \A j \in Jobs : /\ jobStatus'[j] = "pending" => jobStatus[j] = "pending"
                      /\ jobStatus'[j] \in LiveJob <=> jobStatus[j] \in LiveJob
  BY WorkerWrites DEF JobExists, LiveJob, ActiveJob
<1>2. ASSUME NEW x \in Workers \ {w}, worker'[x].pc \in StartedPC
      PROVE  jobStatus'[worker'[x].job] # "pending"
  BY <1>1, <1>2 DEF RunEffect, OthersRun, SameRun, RunsAgree, BusyIsPlaced, StartedPC
<1>3. ASSUME NEW x \in Workers \ {w}, worker'[x].pc \in {"loadDoc", "markJob"}
      PROVE  LET j == worker'[x].job IN
             /\ worker'[x].status \in ActiveJob
             /\ jobStatus'[j] \in LiveJob => (worker'[x].status = "pending" <=> jobStatus'[j] = "pending")
  <2> DEFINE j == worker[x].job
  <2>1. /\ worker'[x].job = j /\ worker'[x].status = worker[x].status
        /\ worker[x].pc \in {"loadDoc", "markJob"}
    BY <1>3 DEF RunEffect, OthersRun, SameRun
  <2>2. j \in Jobs
    BY <2>1 DEF BusyIsPlaced
  <2>3. worker[x].status \in ActiveJob
        /\ (JobExists(j) => (worker[x].status = "pending" <=> jobStatus[j] = "pending"))
    BY <2>1 DEF RunsAgree
  <2>4. CASE jobStatus'[j] = jobStatus[j]
    BY <1>1, <2>1, <2>2, <2>3, <2>4
  <2>5. CASE jobStatus'[j] # jobStatus[j] /\ jobStatus[j] = "pending"
    <3>1. j = JobToDo(w) /\ worker[w].pc # "idle"
      BY <2>2, <2>5, WorkerWrites DEF StartedPC
    <3>2. TakenBy(w, j) /\ TakenBy(x, j)
      BY <2>1, <3>1 DEF TakenBy, JobToDo
    <3> QED
      BY <2>2, <2>5, <3>2 DEF PendingHasOneCopy, NoSecondCopy
  <2>6. CASE jobStatus'[j] # jobStatus[j] /\ jobStatus[j] # "pending"
    BY <1>1, <2>1, <2>2, <2>3, <2>6
  <2> QED
    BY <2>4, <2>5, <2>6
<1>4. worker'[w].pc \in StartedPC => jobStatus'[worker'[w].job] # "pending"
  <2> SUFFICES ASSUME worker'[w].pc \in StartedPC PROVE jobStatus'[worker'[w].job] # "pending"
    OBVIOUS
  <2>1. worker'[w].job = JobToDo(w) /\ worker[w].pc # "idle" /\ JobToDo(w) \in Jobs
    BY BusyJob DEF RunEffect, Moves, Continues, Takes, Drops, GivesBack, Republishes, SameMessage,
                   StartedPC, JobToDo
  <2>2. CASE worker[w].pc \in StartedPC
    BY <1>1, <2>1, <2>2 DEF RunsAgree, JobToDo
  <2>3. CASE worker[w].pc = "markJob" /\ worker'[w].pc = "markDoc"
    <3>1. StartsJob(w)
      BY <2>3 DEF RunEffect, WritesJob
    <3>2. /\ worker[w].status \in ActiveJob
          /\ JobExists(JobToDo(w)) =>
             (worker[w].status = "pending" <=> jobStatus[JobToDo(w)] = "pending")
      BY <2>3 DEF RunsAgree, JobToDo
    <3> QED
      BY <2>1, <3>1, <3>2 DEF StartsJob, ActiveJob
  <2> QED
    BY <2>2, <2>3 DEF RunEffect, Advances
<1>5. worker'[w].pc \in {"loadDoc", "markJob"} =>
             LET j == worker'[w].job IN
             /\ worker'[w].status \in ActiveJob
             /\ jobStatus'[j] \in LiveJob => (worker'[w].status = "pending" <=> jobStatus'[j] = "pending")
  <2> SUFFICES ASSUME worker'[w].pc \in {"loadDoc", "markJob"}
               PROVE  LET j == worker'[w].job IN
                      /\ worker'[w].status \in ActiveJob
                      /\ jobStatus'[j] \in LiveJob => (worker'[w].status = "pending" <=> jobStatus'[j] = "pending")
    OBVIOUS
  <2>1. worker'[w].job = JobToDo(w) /\ JobToDo(w) \in Jobs
    BY BusyJob DEF RunEffect, Moves, Continues, Takes, Drops, GivesBack, Republishes, SameMessage, JobToDo
  <2>2. CASE worker'[w].pc = "loadDoc"
    BY <2>1, <2>2 DEF RunEffect, Advances
  <2>3. CASE worker'[w].pc = "markJob"
    <3>1. worker[w].pc = "loadDoc" /\ worker'[w].status = worker[w].status
      BY <2>3 DEF RunEffect, Advances
    <3>2. jobStatus' = jobStatus
      BY <2>3, <3>1 DEF RunEffect, WritesJob, StartsJob, SettlesJob, StartedPC
    <3> QED
      BY <2>1, <3>1, <3>2 DEF RunsAgree, JobToDo, JobExists
  <2> QED
    BY <2>2, <2>3
<1> QED
  BY <1>2, <1>3, <1>4, <1>5 DEF RunsAgree

\* No worker step makes a second copy of the message of a pending job.
LEMMA CopiesWorker ==
    ASSUME OneCopyInv, NEW w \in Workers, RunEffect(w)
    PROVE  PendingHasOneCopy'
<1> /\ TypeOK /\ BusyIsPlaced /\ RunsAgree /\ PendingHasOneCopy
    /\ queue \in [Jobs -> [Retries -> Nat]]
  BY DEF OneCopyInv, TypeOK
<1> SUFFICES ASSUME NEW j \in Jobs, jobStatus'[j] = "pending" PROVE NoSecondCopy(j)'
  BY DEF PendingHasOneCopy
<1>1. jobStatus[j] = "pending"
  BY WorkerWrites
<1>2. NoSecondCopy(j)
  BY <1>1 DEF PendingHasOneCopy
<1>3. \A x \in Workers \ {w} : /\ TakenBy(x, j)' <=> TakenBy(x, j)
                               /\ worker'[x].retries = worker[x].retries
  BY DEF RunEffect, OthersRun, SameRun, TakenBy
<1>4. \A a \in ApiProcs : BeingSentBy(a, j)' <=> BeingSentBy(a, j)
  BY DEF RunEffect, BeingSentBy
<1>5. 0 \in Retries /\ \A r \in Retries : queue[j][r] \in Nat
  BY BoundsAssumption DEF Retries
<1>6. CASE ~TakenBy(w, j)
  <2>1. CASE queue'[j] = queue[j] /\ ~TakenBy(w, j)'
    BY <1>2, <1>3, <1>4, <1>6, <2>1 DEF NoSecondCopy, OnQueue
  <2>2. CASE Takes(w) /\ worker'[w].job = j
    <3>1. PICK r \in Retries : /\ worker'[w].retries = r /\ queue[j][r] > 0
                               /\ queue' = [queue EXCEPT ![j][r] = @ - 1]
      BY <2>2 DEF Takes
    <3>2. OnQueue(j) /\ r = 0 /\ queue[j][0] = 1 /\ \A q \in Retries : q # 0 => queue[j][q] = 0
      BY <1>2, <1>5, <3>1 DEF NoSecondCopy, OnQueue
    <3>3. \A q \in Retries : queue'[j][q] = 0
      <4>1. queue'[j] = [queue[j] EXCEPT ![0] = queue[j][0] - 1]
        BY <3>1, <3>2
      <4> QED
        BY <3>2, <4>1
    <3>4. ~OnQueue(j)'
      BY <3>3 DEF OnQueue
    <3>5. \A x \in Workers : TakenBy(x, j)' => x = w
      BY <1>2, <1>3, <3>2 DEF NoSecondCopy
    <3>6. \A a \in ApiProcs : ~BeingSentBy(a, j)'
      BY <1>2, <1>4, <3>2 DEF NoSecondCopy
    <3> QED
      BY <3>1, <3>2, <3>3, <3>4, <3>5, <3>6 DEF NoSecondCopy
  <2> QED
    BY <1>6, <2>1, <2>2, OtherMessages
<1>7. CASE TakenBy(w, j)
  <2>1. /\ worker[w].pc # "idle" /\ JobToDo(w) = j /\ worker[w].retries = 0
        /\ ~OnQueue(j) /\ \A x \in Workers : TakenBy(x, j) => x = w
        /\ \A a \in ApiProcs : ~BeingSentBy(a, j)
    BY <1>2, <1>7 DEF NoSecondCopy, TakenBy, JobToDo
  <2>2. \A r \in Retries : queue[j][r] = 0
    BY <1>5, <2>1 DEF OnQueue
  <2>3. CASE Continues(w) \/ Drops(w)
    <3>1. queue'[j] = queue[j] /\ (TakenBy(w, j)' => worker'[w].retries = 0)
      BY <2>1, <2>3 DEF Continues, Drops, SameMessage, TakenBy
    <3> QED
      BY <1>3, <1>4, <2>1, <2>2, <3>1 DEF NoSecondCopy, OnQueue
  <2>4. CASE GivesBack(w)
    <3>1. queue' = [queue EXCEPT ![j][0] = @ + 1] /\ worker'[w].pc = "idle"
      BY <2>1, <2>4 DEF GivesBack
    <3>2. \A r \in Retries : queue'[j][r] <= IF r = 0 THEN 1 ELSE 0
      BY <1>5, <2>2, <3>1
    <3>3. \A x \in Workers : ~TakenBy(x, j)'
      BY <1>3, <2>1, <3>1 DEF TakenBy
    <3> QED
      BY <1>4, <2>1, <3>2, <3>3 DEF NoSecondCopy
  <2>5. ~Takes(w)
    BY <2>1 DEF Takes
  <2>6. ~Republishes(w)
    BY <1>1, <2>1 DEF Republishes, RunsAgree, StartedPC, WorkerPC, JobToDo
  <2> QED
    BY <2>3, <2>4, <2>5, <2>6 DEF RunEffect, Moves
<1> QED
  BY <1>6, <1>7

-----------------------------------------------------------------------------
(* Steps of an API process                                                 *)

\* A request gives the next job the next id and a document that has a row.
LEMMA BirthApi ==
    ASSUME TypeOK, BusyIsPlaced, BirthOrder, NEW a \in ApiProcs, ApiEffect(a)
    PROVE  BirthOrder'
<1> /\ queue \in [Jobs -> [Retries -> Nat]]
    /\ jobStatus \in [Jobs -> JobStatus]
    /\ jobDoc \in [Jobs -> Docs \cup {NoDoc}]
    /\ NoDoc \notin Docs
  BY DocsAssumption DEF TypeOK
<1>1. \A x \in Workers, j \in Jobs : TakenBy(x, j)' <=> TakenBy(x, j)
  BY DEF ApiEffect, AllRunsSame, SameRun, TakenBy
<1>2. \A b \in ApiProcs \ {a}, j \in Jobs : BeingSentBy(b, j)' <=> BeingSentBy(b, j)
  BY DEF ApiEffect, OthersServe, BeingSentBy
<1>3. \A d \in Docs : docStatus[d] # "unborn" => docStatus'[d] # "unborn"
  BY DEF ApiEffect, RowsStayBorn
<1>4. CASE KeepsJobs(a)
  <2>1. \A j \in Jobs : ~BeingSentBy(a, j)'
    BY <1>4 DEF KeepsJobs, BeingSentBy
  <2> QED
    BY <1>1, <1>2, <1>3, <1>4, <2>1 DEF KeepsJobs, BirthOrder
<1>5. CASE CreatesJob(a)
  <2> DEFINE i == api'[a].job
  <2>1. /\ i \in Jobs /\ jobStatus[i] = "unborn" /\ \A k \in Jobs : k < i => jobStatus[k] # "unborn"
        /\ jobStatus' = [jobStatus EXCEPT ![i] = "pending"]
        /\ jobDoc' = [jobDoc EXCEPT ![i] = api[a].doc]
        /\ queue' = queue
        /\ DocExists(api[a].doc) /\ api[a].pc = "createJob"
    BY <1>5 DEF CreatesJob
  <2>2. \A j \in Jobs : BeingSentBy(a, j)' => j = i
    BY DEF BeingSentBy
  <2>3. api[a].doc \in Docs /\ docStatus[api[a].doc] # "unborn"
    BY <2>1 DEF BusyIsPlaced, DocExists, LiveDoc
  <2>4. \A j, k \in Jobs : k < j /\ jobStatus'[j] # "unborn" => jobStatus'[k] # "unborn"
    <3>1. \A k \in Jobs : jobStatus[k] # "unborn" => jobStatus'[k] # "unborn"
      BY <2>1
    <3>2. \A j \in Jobs : j # i => jobStatus'[j] = jobStatus[j]
      BY <2>1
    <3> QED
      BY <2>1, <3>1, <3>2 DEF BirthOrder
  <2>5. \A j \in Jobs : /\ jobStatus'[j] # "unborn" => jobDoc'[j] \in Docs
                        /\ jobDoc'[j] # NoDoc =>
                              jobStatus'[j] # "unborn" /\ docStatus'[jobDoc'[j]] # "unborn"
    BY <1>3, <2>1, <2>3 DEF BirthOrder
  <2> QED
    BY <1>1, <1>2, <2>1, <2>2, <2>4, <2>5 DEF BirthOrder
<1>6. CASE SendsJob(a)
  <2> DEFINE i == api[a].job
  <2>1. /\ i \in Jobs /\ BeingSentBy(a, i) /\ UNCHANGED <<jobStatus, jobDoc>>
        /\ \A j \in Jobs : j # i => queue'[j] = queue[j]
        /\ \A j \in Jobs : ~BeingSentBy(a, j)'
    BY <1>6 DEF SendsJob, BusyIsPlaced, BeingSentBy
  <2>2. jobStatus[i] # "unborn"
    BY <2>1 DEF BirthOrder
  <2>3. ASSUME NEW j \in Jobs, jobStatus'[j] = "unborn"
        PROVE  /\ \A r \in Retries : queue'[j][r] = 0
               /\ \A w \in Workers : ~TakenBy(w, j)'
               /\ \A b \in ApiProcs : ~BeingSentBy(b, j)'
    BY <1>1, <1>2, <2>1, <2>2, <2>3 DEF BirthOrder
  <2>4. \A j \in Jobs : jobDoc'[j] # NoDoc =>
           jobStatus'[j] # "unborn" /\ docStatus'[jobDoc'[j]] # "unborn"
    BY <1>3, <2>1 DEF BirthOrder
  <2>5. /\ \A j, k \in Jobs : k < j /\ jobStatus'[j] # "unborn" => jobStatus'[k] # "unborn"
        /\ \A j \in Jobs : jobStatus'[j] # "unborn" => jobDoc'[j] \in Docs
    BY <2>1 DEF BirthOrder
  <2> QED
    BY <2>3, <2>4, <2>5 DEF BirthOrder
<1>7. CASE PurgesJobs(a)
  <2>1. /\ \A j \in Jobs : jobStatus'[j] = "unborn" <=> jobStatus[j] = "unborn"
        /\ \A j \in Jobs : ~BeingSentBy(a, j)'
        /\ UNCHANGED <<jobDoc, queue>>
    BY <1>7 DEF PurgesJobs, JobsOf, JobExists, LiveJob, ActiveJob, BeingSentBy
  <2> QED
    BY <1>1, <1>2, <1>3, <2>1 DEF BirthOrder
<1> QED
  BY <1>4, <1>5, <1>6, <1>7 DEF ApiEffect

\* No request makes the job of a run pending again.
LEMMA RunsApi ==
    ASSUME OneCopyInv, NEW a \in ApiProcs, ApiEffect(a)
    PROVE  RunsAgree'
<1> /\ BusyIsPlaced /\ BirthOrder /\ RunsAgree
    /\ jobStatus \in [Jobs -> JobStatus]
  BY DEF OneCopyInv, TypeOK
<1>1. \A j \in Jobs : jobStatus[j] # "unborn" =>
         jobStatus'[j] = jobStatus[j] \/ jobStatus'[j] = "deleted"
  BY DEF ApiEffect, KeepsJobs, CreatesJob, SendsJob, PurgesJobs
<1>2. \A w \in Workers : worker[w].pc # "idle" =>
         worker[w].job \in Jobs /\ jobStatus[worker[w].job] # "unborn"
  BY DEF BusyIsPlaced, BirthOrder, TakenBy
<1>3. \A w \in Workers : SameRun(w)
  BY DEF ApiEffect, AllRunsSame
<1>4. "deleted" \notin LiveJob /\ "idle" \notin StartedPC
  BY DEF LiveJob, ActiveJob, StartedPC
<1> QED
  BY <1>1, <1>2, <1>3, <1>4 DEF RunsAgree, SameRun, JobExists

\* A request sends the message of the job it has created once.
LEMMA CopiesApi ==
    ASSUME OneCopyInv, NEW a \in ApiProcs, ApiEffect(a)
    PROVE  PendingHasOneCopy'
<1> /\ BusyIsPlaced /\ BirthOrder /\ PendingHasOneCopy
    /\ jobStatus \in [Jobs -> JobStatus]
    /\ queue \in [Jobs -> [Retries -> Nat]]
  BY DEF OneCopyInv, TypeOK
<1> SUFFICES ASSUME NEW j \in Jobs, jobStatus'[j] = "pending" PROVE NoSecondCopy(j)'
  BY DEF PendingHasOneCopy
<1>1. \A x \in Workers : /\ TakenBy(x, j)' <=> TakenBy(x, j)
                         /\ worker'[x].retries = worker[x].retries
  BY DEF ApiEffect, AllRunsSame, SameRun, TakenBy
<1>2. \A b \in ApiProcs \ {a} : BeingSentBy(b, j)' <=> BeingSentBy(b, j)
  BY DEF ApiEffect, OthersServe, BeingSentBy
<1>3. CASE KeepsJobs(a) \/ PurgesJobs(a)
  <2>1. /\ jobStatus[j] = "pending" /\ queue' = queue /\ ~BeingSentBy(a, j)'
    BY <1>3 DEF KeepsJobs, PurgesJobs, BeingSentBy
  <2> QED
    BY <1>1, <1>2, <2>1 DEF PendingHasOneCopy, NoSecondCopy, OnQueue
<1>4. CASE CreatesJob(a) /\ j = api'[a].job
  <2>1. jobStatus[j] = "unborn" /\ queue' = queue
    BY <1>4 DEF CreatesJob
  <2>2. /\ \A r \in Retries : queue[j][r] = 0
        /\ \A w \in Workers : ~TakenBy(w, j)
        /\ \A b \in ApiProcs : ~BeingSentBy(b, j)
    BY <2>1 DEF BirthOrder
  <2>3. ~OnQueue(j)'
    BY <2>1, <2>2 DEF OnQueue
  <2> QED
    BY <1>1, <1>2, <2>1, <2>2, <2>3 DEF NoSecondCopy
<1>5. CASE CreatesJob(a) /\ j # api'[a].job
  <2>1. jobStatus[j] = "pending" /\ queue' = queue /\ ~BeingSentBy(a, j)'
    BY <1>5 DEF CreatesJob, BeingSentBy
  <2> QED
    BY <1>1, <1>2, <2>1 DEF PendingHasOneCopy, NoSecondCopy, OnQueue
<1>6. CASE SendsJob(a)
  <2>1. /\ jobStatus[j] = "pending" /\ ~BeingSentBy(a, j)'
        /\ api[a].job \in Jobs /\ BeingSentBy(a, api[a].job)
        /\ queue' = [queue EXCEPT ![api[a].job][0] = @ + 1]
    BY <1>6 DEF SendsJob, BeingSentBy, BusyIsPlaced
  <2>2. NoSecondCopy(j)
    BY <2>1 DEF PendingHasOneCopy
  <2>3. CASE j # api[a].job
    <3>1. queue'[j] = queue[j]
      BY <2>1, <2>3
    <3> QED
      BY <1>1, <1>2, <2>1, <2>2, <3>1 DEF NoSecondCopy, OnQueue
  <2>4. CASE j = api[a].job
    <3>1. /\ ~OnQueue(j) /\ \A w \in Workers : ~TakenBy(w, j)
          /\ \A b \in ApiProcs : BeingSentBy(b, j) => b = a
      BY <2>1, <2>2, <2>4 DEF NoSecondCopy
    <3>2. 0 \in Retries /\ \A r \in Retries : queue[j][r] = 0
      BY <3>1, BoundsAssumption DEF OnQueue, Retries
    <3>3. \A r \in Retries : queue'[j][r] <= IF r = 0 THEN 1 ELSE 0
      BY <2>1, <2>4, <3>2
    <3>4. \A b \in ApiProcs : ~BeingSentBy(b, j)'
      BY <1>2, <2>1, <3>1
    <3> QED
      BY <1>1, <3>1, <3>3, <3>4 DEF NoSecondCopy
  <2> QED
    BY <2>3, <2>4
<1> QED
  BY <1>3, <1>4, <1>5, <1>6 DEF ApiEffect

-----------------------------------------------------------------------------

\* OneCopyInv is inductive.
LEMMA OneCopyStep == OneCopyInv /\ [Next]_vars => OneCopyInv'
<1> SUFFICES ASSUME OneCopyInv, [Next]_vars PROVE OneCopyInv'
  OBVIOUS
<1>1. TypeOK /\ BusyIsPlaced /\ BirthOrder
  BY DEF OneCopyInv
<1>2. (TypeOK /\ BusyIsPlaced)'
  BY <1>1, TypeStep, PlacedStep
<1>3. ASSUME NEW w \in Workers, RunEffect(w) PROVE OneCopyInv'
  BY <1>1, <1>2, <1>3, BirthWorker, RunsWorker, CopiesWorker DEF OneCopyInv
<1>4. ASSUME NEW a \in ApiProcs, ApiEffect(a) PROVE OneCopyInv'
  BY <1>1, <1>2, <1>4, BirthApi, RunsApi, CopiesApi DEF OneCopyInv
<1>5. CASE UNCHANGED vars
  <2>1. BirthOrder' /\ RunsAgree' /\ PendingHasOneCopy'
    BY <1>5 DEF OneCopyInv, BirthOrder, RunsAgree, PendingHasOneCopy, NoSecondCopy, OnQueue, TakenBy,
                BeingSentBy, JobExists, vars, dbVars
  <2> QED
    BY <1>2, <2>1 DEF OneCopyInv
<1> QED
  BY <1>1, <1>3, <1>4, <1>5, StepEffect

\* OneCopyInv, the invariant behind the two theorems that follow, holds: jobs are
\* born in order, a started run has a job that is not pending, and the message of
\* a pending job exists once.
THEOREM OneCopyHolds == Spec => []OneCopyInv
BY OneCopyInit, OneCopyStep, PTL DEF Spec

\* Requests, retries, node losses and redeliveries never put a second copy of the
\* message of a pending job into the world.
THEOREM PendingJobsHaveOneCopy == Spec => []PendingHasOneCopy
<1>1. OneCopyInv => PendingHasOneCopy
  BY DEF OneCopyInv
<1> QED
  BY <1>1, OneCopyHolds, PTL

\* What a step may not do to a job that has completed or failed.
LEMMA SettledStep ==
    ASSUME OneCopyInv, Next, NEW j \in Jobs, jobStatus[j] \in {"completed", "failed"}
    PROVE  jobStatus'[j] \notin ActiveJob
<1> /\ TypeOK /\ BusyIsPlaced /\ RunsAgree
    /\ jobStatus \in [Jobs -> JobStatus]
  BY DEF OneCopyInv, TypeOK
<1>1. ASSUME NEW w \in Workers, RunEffect(w) PROVE jobStatus'[j] \notin ActiveJob
  <2>1. worker[w].pc = "markJob" /\ j = JobToDo(w) => worker[w].status = "processing"
    BY DEF RunsAgree, JobToDo, JobExists, LiveJob, ActiveJob
  <2> QED
    BY <1>1, <2>1, WorkerWrites DEF ActiveJob
<1>2. ASSUME NEW a \in ApiProcs, ApiEffect(a) PROVE jobStatus'[j] \notin ActiveJob
  BY <1>2 DEF ApiEffect, KeepsJobs, CreatesJob, SendsJob, PurgesJobs, ActiveJob
<1> QED
  BY <1>1, <1>2, StepEffect

\* A redelivered or retried message never revives a job that has completed or
\* failed.
THEOREM SettledJobsStaySettled == Spec => SettledStaysSettled
<1>1. OneCopyInv /\ [Next]_vars =>
        [\A j \in Jobs : jobStatus[j] \in {"completed", "failed"} => jobStatus'[j] \notin ActiveJob]_vars
  BY SettledStep
<1> QED
  BY <1>1, OneCopyHolds, PTL DEF Spec, SettledStaysSettled

-----------------------------------------------------------------------------
(* One API process                                                         *)

\* There is no job and no request at first.
LEMMA OneJobInit == Init => ActiveIsLatest /\ CreatorFindsNoneActive
BY DEF Init, ActiveIsLatest, CreatorFindsNoneActive, ActiveJob, IdleApi, CreatingPC, UploadPC, ReindexPC

\* No worker step makes a settled job active, nor an old one.
LEMMA OneJobWorker ==
    ASSUME OneJobInv, NEW w \in Workers, RunEffect(w)
    PROVE  (ActiveIsLatest /\ CreatorFindsNoneActive)'
<1> TypeOK /\ BusyIsPlaced /\ RunsAgree
  BY DEF OneJobInv, OneCopyInv
<1>1. \A j \in Jobs : /\ jobStatus'[j] \in ActiveJob => jobStatus[j] \in ActiveJob
                      /\ JobExists(j)' => JobExists(j)
  <2> SUFFICES ASSUME NEW j \in Jobs
               PROVE  /\ jobStatus'[j] \in ActiveJob => jobStatus[j] \in ActiveJob
                      /\ JobExists(j)' => JobExists(j)
    OBVIOUS
  <2>1. worker[w].pc = "markJob" /\ j = JobToDo(w) /\ JobExists(j) /\ worker[w].status # "processing"
           => jobStatus[j] = "pending"
    BY DEF RunsAgree, JobToDo, ActiveJob
  <2> QED
    BY <2>1, WorkerWrites DEF JobExists, LiveJob, ActiveJob
<1>2. jobDoc' = jobDoc /\ api' = api
  BY DEF RunEffect
<1> QED
  BY <1>1, <1>2 DEF OneJobInv, ActiveIsLatest, CreatorFindsNoneActive

\* A request creates a job only while no other job of its document is active.
LEMMA OneJobApi ==
    ASSUME OneJobInv, NEW a, ApiProcs = {a}, ApiEffect(a)
    PROVE  (ActiveIsLatest /\ CreatorFindsNoneActive)'
<1> /\ TypeOK /\ BusyIsPlaced /\ BirthOrder /\ ActiveIsLatest /\ CreatorFindsNoneActive
    /\ jobStatus \in [Jobs -> JobStatus]
    /\ jobDoc \in [Jobs -> Docs \cup {NoDoc}]
    /\ "unborn" \notin LiveJob /\ "deleted" \notin LiveJob /\ ActiveJob \subseteq LiveJob
    /\ "pending" \in ActiveJob
  BY DEF OneJobInv, OneCopyInv, TypeOK, LiveJob, ActiveJob
<1> "enqueue" \notin CreatingPC /\ "idle" \notin CreatingPC /\ "createJob" \in CreatingPC
  BY DEF CreatingPC, UploadPC, ReindexPC
<1>1. CASE CreatesJob(a)
  <2> DEFINE i == api'[a].job
             d == api[a].doc
  <2>1. /\ i \in Jobs /\ jobStatus[i] = "unborn"
        /\ jobStatus' = [jobStatus EXCEPT ![i] = "pending"]
        /\ jobDoc' = [jobDoc EXCEPT ![i] = d]
        /\ api[a].pc = "createJob" /\ api'[a].pc = "enqueue"
    BY <1>1 DEF CreatesJob
  <2>2. \A k \in Jobs : jobStatus[k] # "unborn" => k <= i
    BY <2>1 DEF BirthOrder, Jobs
  <2>3. \A k \in Jobs : jobDoc[k] = d => jobStatus[k] \notin ActiveJob
    BY <2>1 DEF CreatorFindsNoneActive
  <2>4. \A k \in Jobs \ {i} : jobStatus'[k] = jobStatus[k] /\ jobDoc'[k] = jobDoc[k]
    BY <2>1
  <2>5. jobDoc'[i] = d /\ i <= i
    BY <2>1 DEF Jobs
  <2>6. ActiveIsLatest'
    <3> SUFFICES ASSUME NEW j \in Jobs, NEW k \in Jobs, jobStatus'[j] \in ActiveJob,
                        jobStatus'[k] \in LiveJob, jobDoc'[k] = jobDoc'[j]
                 PROVE  k <= j
      BY DEF ActiveIsLatest, JobExists
    <3>1. CASE j = i
      BY <2>2, <2>4, <2>5, <3>1
    <3>2. CASE j # i /\ k # i
      BY <2>4, <3>2 DEF ActiveIsLatest, JobExists
    <3>3. CASE j # i /\ k = i
      BY <2>3, <2>4, <2>5, <3>3
    <3> QED
      BY <3>1, <3>2, <3>3
  <2>7. CreatorFindsNoneActive'
    BY <2>1 DEF CreatorFindsNoneActive
  <2> QED
    BY <2>6, <2>7
<1>2. CASE jobDoc' = jobDoc /\ (jobStatus' = jobStatus \/ PurgesJobs(a))
  <2>1. \A j \in Jobs : /\ jobStatus'[j] \in ActiveJob => jobStatus[j] \in ActiveJob
                        /\ JobExists(j)' => JobExists(j)
    BY <1>2 DEF PurgesJobs, JobExists
  <2>2. ActiveIsLatest'
    BY <1>2, <2>1 DEF ActiveIsLatest
  <2>3. ASSUME NEW j \in Jobs, api'[a].pc \in CreatingPC, jobDoc[j] = api'[a].doc
        PROVE  jobStatus[j] \notin ActiveJob
    <3>1. CASE api[a].pc # "idle"
      BY <2>3, <3>1 DEF ApiEffect, Serves, CreatorFindsNoneActive
    <3>2. CASE api[a].pc = "idle"
      <4>1. /\ api'[a].doc \in Docs
            /\ docStatus[api'[a].doc] = "unborn" \/ NoIngestionInProgress(api'[a].doc)
        BY <2>3, <3>2 DEF ApiEffect, Serves
      <4>2. CASE docStatus[api'[a].doc] = "unborn"
        BY <2>3, <4>1, <4>2, DocsAssumption DEF BirthOrder
      <4>3. CASE NoIngestionInProgress(api'[a].doc)
        <5> SUFFICES ASSUME jobStatus[j] \in ActiveJob PROVE FALSE
          OBVIOUS
        <5>1. IsLatest(j, api'[a].doc)
          BY <2>3 DEF IsLatest, JobsOf, JobExists, ActiveIsLatest
        <5> QED
          BY <4>3, <5>1 DEF NoIngestionInProgress
      <4> QED
        BY <4>1, <4>2, <4>3
    <3> QED
      BY <3>1, <3>2
  <2>4. CreatorFindsNoneActive'
    BY <1>2, <2>1, <2>3 DEF CreatorFindsNoneActive
  <2> QED
    BY <2>2, <2>4
<1> QED
  BY <1>1, <1>2 DEF ApiEffect, KeepsJobs, SendsJob, PurgesJobs

\* With one API process OneJobInv is inductive.
LEMMA OneJobStep ==
    ASSUME NEW a, ApiProcs = {a}
    PROVE  OneJobInv /\ [Next]_vars => OneJobInv'
<1> SUFFICES ASSUME OneJobInv, [Next]_vars PROVE OneJobInv'
  OBVIOUS
<1>1. OneCopyInv'
  BY OneCopyStep DEF OneJobInv
<1>2. CASE Next
  <2>1. TypeOK /\ BusyIsPlaced
    BY DEF OneJobInv, OneCopyInv
  <2> QED
    BY <1>1, <1>2, <2>1, StepEffect, OneJobWorker, OneJobApi DEF OneJobInv
<1>3. CASE UNCHANGED vars
  BY <1>1, <1>3 DEF OneJobInv, ActiveIsLatest, CreatorFindsNoneActive, JobExists, vars, dbVars
<1> QED
  BY <1>2, <1>3

\* With one API process the 409 check of reindex is enough: a document never has
\* two unfinished jobs, whatever runs, faults and deletions do meanwhile.
THEOREM OneActiveJob ==
    ASSUME NEW a, ApiProcs = {a}
    PROVE  Spec => []AtMostOneActiveJob
<1>1. Init => OneJobInv
  BY OneCopyInit, OneJobInit DEF OneJobInv
<1>2. OneJobInv /\ [Next]_vars => OneJobInv'
  BY OneJobStep
<1>3. OneJobInv => AtMostOneActiveJob
  <2> SUFFICES ASSUME OneJobInv, NEW j \in Jobs, NEW k \in Jobs,
                      jobStatus[j] \in ActiveJob, jobStatus[k] \in ActiveJob, jobDoc[j] = jobDoc[k]
               PROVE  j = k
    BY DEF AtMostOneActiveJob
  <2>1. j <= k /\ k <= j
    BY DEF OneJobInv, ActiveIsLatest, JobExists, LiveJob
  <2> QED
    BY <2>1 DEF Jobs
<1> QED
  BY <1>1, <1>2, <1>3, PTL DEF Spec

-----------------------------------------------------------------------------
(* Documents, their chunk rows and their files                             *)

\* What a worker writes to documents and chunk rows: the status of a document that
\* exists, or its chunks, never both.
LEMMA WorkerRows ==
    ASSUME OneCopyInv, NEW w \in Workers, WorkerStep(w) \/ WorkerFault(w)
    PROVE  \/ UNCHANGED <<docStatus, chunks>>
           \/ \E d \in Docs, s \in {"processing", "indexed", "failed"} :
                 DocExists(d) /\ docStatus' = [docStatus EXCEPT ![d] = s] /\ chunks' = chunks
           \/ \E d \in Docs, j \in Jobs :
                 DocExists(d) /\ chunks' = [chunks EXCEPT ![d] = j] /\ docStatus' = docStatus
<1> DEFINE j == JobToDo(w)
           d == DocToDo(w)
<1>1. worker[w].pc # "idle" => j \in Jobs /\ d \in Docs
  BY DEF OneCopyInv, BusyIsPlaced, BirthOrder, TakenBy, JobToDo, DocToDo
<1>2. CASE \/ Receive(w) \/ LoadJob(w) \/ LoadDocument(w) \/ MarkJobProcessing(w) \/ ReadAndEmbed(w)
           \/ ReplaceChunksDelete(w) \/ ChunkStorageFails(w) \/ RefreshChunks(w) \/ CompleteJob(w)
           \/ RequestRetryOrFail(w) \/ Acknowledge(w) \/ WorkerFault(w)
  BY <1>2 DEF Receive, LoadJob, LoadDocument, MarkJobProcessing, ReadAndEmbed, ReplaceChunksDelete,
     ChunkStorageFails, RefreshChunks, CompleteJob, RequestRetryOrFail, Acknowledge, WorkerFault,
     TaskAborted, RepublishFails, NodeLost, dbVars
<1>3. CASE MarkDocProcessing(w)
  BY <1>1, <1>3 DEF MarkDocProcessing
<1>4. CASE ReplaceChunksInsert(w)
  BY <1>1, <1>4 DEF ReplaceChunksInsert, InsertAccepted
<1>5. CASE IndexDocument(w)
  BY <1>1, <1>5 DEF IndexDocument
<1>6. CASE FailIngestion(w) \/ FailIngestionByIds(w)
  BY <1>1, <1>6 DEF FailIngestion, FailIngestionByIds, FailRows
<1> QED
  BY <1>2, <1>3, <1>4, <1>5, <1>6 DEF WorkerStep

\* What a request writes to them: it creates its document, resets it, withdraws its
\* chunks, or deletes it when neither chunks nor jobs hold it.
CreatesDocument(a) ==
    /\ api[a].pc = "createDoc" /\ docStatus' = [docStatus EXCEPT ![api[a].doc] = "uploaded"]
    /\ UNCHANGED <<chunks, audit>> /\ api'[a].pc = "auditUpload"
ResetsDocument(a) ==
    /\ DocExists(api[a].doc) /\ docStatus' = [docStatus EXCEPT ![api[a].doc] = "processing"]
    /\ UNCHANGED <<chunks, audit>> /\ api'[a].pc = "auditReindex" /\ api[a].pc = "resetDoc"
WithdrawsChunks(a) ==
    /\ api[a].pc \in {"reChunks", "delChunks"} /\ chunks' = [chunks EXCEPT ![api[a].doc] = 0]
    /\ UNCHANGED <<docStatus, audit>> /\ api'[a].pc \in {"resetDoc", "delJobs"}
DeletesDocument(a) ==
    /\ api[a].pc = "delDoc" /\ chunks[api[a].doc] = 0 /\ JobsOf(api[a].doc) = {}
    /\ docStatus' = [docStatus EXCEPT ![api[a].doc] = "deleted"]
    /\ UNCHANGED <<chunks, audit, jobStatus, jobDoc>> /\ api'[a].pc = "delFile"
KeepsDocuments(a) ==
    /\ UNCHANGED <<docStatus, chunks>> /\ audit \subseteq audit'
    /\ api'[a].pc = "delDoc" => <<"deleted", api[a].doc>> \in audit'
    /\ api'[a].pc \in ReindexPC \cup DeletePC => api[a].pc \in ReindexPC \cup DeletePC

LEMMA ApiRows ==
    ASSUME TypeOK, BusyIsPlaced, NEW a \in ApiProcs, ApiStep(a)
    PROVE  /\ OthersServe(a) /\ (api'[a].pc = "idle" \/ api'[a].doc = api[a].doc)
           /\ \/ CreatesDocument(a) \/ ResetsDocument(a) \/ WithdrawsChunks(a) \/ DeletesDocument(a)
              \/ KeepsDocuments(a)
<1>1. ApiType
  BY DEF TypeOK, ApiType
<1>2. OthersServe(a) /\ (api'[a].pc = "idle" \/ api'[a].doc = api[a].doc)
  <2>1. api[a].pc # "idle"
    BY DEF ApiStep, CreateDocument, AuditUpload, CreateJob, Enqueue, ReindexDeleteChunks,
       ReindexResetDocument, AuditReindex, DeleteDocumentChunks, DeleteJobs, AuditDelete,
       DeleteDocument, DeleteFile
  <2> QED
    BY <2>1, ApiStepEffect DEF ApiEffect, Serves
<1>3. ApiDone(a) => api'[a].pc = "idle"
  BY <1>1, ApiDoneEffect
<1>4. \A label : ApiGoTo(a, label) => api'[a].pc = label
  BY <1>1, ApiGoToEffect
<1>5. CASE CreateDocument(a)
  BY <1>2, <1>4, <1>5 DEF CreateDocument, CreatesDocument
<1>6. CASE ReindexResetDocument(a)
  BY <1>2, <1>3, <1>4, <1>6 DEF ReindexResetDocument, ResetsDocument, KeepsDocuments, ReindexPC, DeletePC
<1>7. CASE ReindexDeleteChunks(a) \/ DeleteDocumentChunks(a)
  BY <1>2, <1>4, <1>7 DEF ReindexDeleteChunks, DeleteDocumentChunks, DeleteChunks, WithdrawsChunks
<1>8. CASE DeleteDocument(a)
  BY <1>2, <1>3, <1>4, <1>8 DEF DeleteDocument, DeletesDocument, KeepsDocuments, ReindexPC, DeletePC
<1>9. CASE AuditUpload(a) \/ AuditReindex(a) \/ AuditDelete(a)
  BY <1>2, <1>3, <1>4, <1>9 DEF AuditUpload, AuditReindex, AuditDelete, RecordAudit, RefreshFails,
     KeepsDocuments, ReindexPC, DeletePC, dbVars
<1>10. CASE CreateJob(a)
  <2>1. api'[a].pc \in {"idle", "enqueue"}
    <3>1. CASE DocExists(api[a].doc)
      <4>1. PICK j \in Jobs : api' = [api EXCEPT ![a] = [@ EXCEPT !.pc = "enqueue", !.job = j]]
        BY <1>10, <3>1 DEF CreateJob
      <4> QED
        BY <1>1, <4>1 DEF ApiType, ApiRecord
    <3>2. CASE ~DocExists(api[a].doc)
      BY <1>3, <1>10, <3>2 DEF CreateJob
    <3> QED
      BY <3>1, <3>2
  <2> QED
    BY <1>2, <1>10, <2>1 DEF CreateJob, KeepsDocuments, ReindexPC, DeletePC
<1>11. CASE Enqueue(a) \/ DeleteFile(a)
  BY <1>2, <1>3, <1>11 DEF Enqueue, DeleteFile, KeepsDocuments, ReindexPC, DeletePC, dbVars
<1>12. CASE DeleteJobs(a)
  BY <1>2, <1>4, <1>12 DEF DeleteJobs, KeepsDocuments, DeletePC
<1> QED
  BY <1>5, <1>6, <1>7, <1>8, <1>9, <1>10, <1>11, <1>12 DEF ApiStep

\* A request that begins writes no table; a fault ends one.
LEMMA BeginRows ==
    ASSUME TypeOK, NEW a \in ApiProcs, ApiRequest(a)
    PROVE  /\ OthersServe(a) /\ UNCHANGED <<docStatus, chunks, audit>> /\ api[a].pc = "idle"
           /\ \/ api'[a].pc = "createDoc" /\ files' = files \cup {api'[a].doc}
              \/ api'[a].pc \in {"reChunks", "delChunks"} /\ DocExists(api'[a].doc) /\ files' = files
<1>1. ApiType
  BY DEF TypeOK, ApiType
<1>2. PICK d \in Docs : SaveFile(a, d) \/ RequestReindex(a, d) \/ RequestDelete(a, d)
  BY DEF ApiRequest
<1> QED
  BY <1>1, <1>2, BeginEffect DEF SaveFile, RequestReindex, RequestDelete, dbVars

LEMMA FaultRows ==
    ASSUME TypeOK, NEW a \in ApiProcs, ApiFault(a)
    PROVE  OthersServe(a) /\ api'[a].pc = "idle" /\ UNCHANGED <<docStatus, chunks, audit, files>>
<1>1. ApiType
  BY DEF TypeOK, ApiType
<1> QED
  BY <1>1, ApiDoneEffect DEF ApiFault, ApiAborted, EnqueueFails, dbVars

-----------------------------------------------------------------------------
(* Deletions                                                               *)

\* No step makes a job of a document that has been deleted.
LEMMA NoJobReturns ==
    ASSUME OneCopyInv, Next, NEW d \in Docs, docStatus[d] = "deleted"
    PROVE  JobsOf(d)' \subseteq JobsOf(d)
<1>1. /\ TypeOK /\ BusyIsPlaced /\ ~DocExists(d)
      /\ jobStatus \in [Jobs -> JobStatus] /\ jobDoc \in [Jobs -> Docs \cup {NoDoc}]
  BY DEF OneCopyInv, TypeOK, DocExists, LiveDoc
<1>2. ASSUME NEW w \in Workers, RunEffect(w) PROVE JobsOf(d)' \subseteq JobsOf(d)
  BY <1>1, <1>2 DEF RunEffect, WritesJob, StartsJob, SettlesJob, JobsOf, JobExists
<1>3. ASSUME NEW a \in ApiProcs, ApiEffect(a) PROVE JobsOf(d)' \subseteq JobsOf(d)
  <2>1. CASE CreatesJob(a)
    <3>1. \A j \in Jobs : j # api'[a].job => jobStatus'[j] = jobStatus[j] /\ jobDoc'[j] = jobDoc[j]
      BY <1>1, <2>1 DEF CreatesJob
    <3>2. jobDoc'[api'[a].job] # d
      BY <1>1, <2>1 DEF CreatesJob
    <3> QED
      BY <3>1, <3>2 DEF JobsOf, JobExists
  <2>2. CASE KeepsJobs(a) \/ SendsJob(a)
    BY <2>2 DEF KeepsJobs, SendsJob, JobsOf, JobExists
  <2>3. CASE PurgesJobs(a)
    BY <2>3 DEF PurgesJobs, JobsOf, JobExists, LiveJob, ActiveJob
  <2> QED
    BY <1>3, <2>1, <2>2, <2>3 DEF ApiEffect
<1> QED
  BY <1>1, <1>2, <1>3, StepEffect

\* A document that is deleted by this step had neither chunks nor jobs.
LEMMA DeletionStep == OneCopyInv /\ DeletionInv /\ [Next]_vars => DeletionInv'
<1> SUFFICES ASSUME OneCopyInv, DeletionInv, [Next]_vars PROVE DeletionInv'
  OBVIOUS
<1>1. /\ TypeOK /\ BusyIsPlaced /\ docStatus \in [Docs -> DocStatus] /\ chunks \in [Docs -> Jobs \cup {0}]
  BY DEF OneCopyInv, TypeOK
<1> DEFINE Kept == \A d \in Docs : docStatus'[d] = "deleted" =>
               \/ docStatus[d] = "deleted" /\ chunks'[d] = 0
               \/ chunks'[d] = 0 /\ JobsOf(d)' = {} /\ <<"deleted", d>> \in audit
           Audited == /\ audit \subseteq audit'
                      /\ \A a \in ApiProcs : api'[a].pc = "delDoc" => <<"deleted", api'[a].doc>> \in audit'
<1>2. ASSUME Next, Kept, Audited PROVE DeletionInv'
  <2>1. ASSUME NEW d \in Docs, docStatus'[d] = "deleted"
        PROVE  chunks'[d] = 0 /\ JobsOf(d)' = {} /\ <<"deleted", d>> \in audit'
    <3>1. CASE docStatus[d] = "deleted" /\ chunks'[d] = 0
      BY <1>2, <2>1, <3>1, NoJobReturns DEF DeletionInv, DeletionIsComplete
    <3> QED
      BY <1>2, <2>1, <3>1
  <2> QED
    BY <1>2, <2>1 DEF DeletionInv, DeletionIsComplete
<1>3. ASSUME NEW w \in Workers, WorkerStep(w) \/ WorkerFault(w) PROVE DeletionInv'
  <2>1. api' = api /\ audit' = audit
    BY <1>1, <1>3, WorkerStepEffect, WorkerFaultEffect DEF RunEffect
  <2>2. \A d \in Docs : docStatus'[d] = "deleted" => docStatus[d] = "deleted" /\ chunks'[d] = 0
    BY <1>1, <1>3, WorkerRows DEF DeletionInv, DeletionIsComplete, DocExists, LiveDoc
  <2> QED
    BY <1>2, <1>3, <2>1, <2>2 DEF Next, DeletionInv
<1>4. ASSUME NEW a \in ApiProcs, ApiRequest(a) \/ ApiFault(a) PROVE DeletionInv'
  <2>1. /\ OthersServe(a) /\ api'[a].pc # "delDoc" /\ UNCHANGED <<docStatus, chunks, audit>>
    BY <1>1, <1>4, BeginRows, FaultRows
  <2>2. Kept /\ Audited
    BY <2>1 DEF DeletionInv, DeletionIsComplete, OthersServe
  <2> QED
    BY <1>2, <1>4, <2>2 DEF Next
<1>5. ASSUME NEW a \in ApiProcs, ApiStep(a) PROVE DeletionInv'
  <2> DEFINE d == api[a].doc
  <2>1. /\ OthersServe(a) /\ (api'[a].pc = "idle" \/ api'[a].doc = d)
        /\ \/ CreatesDocument(a) \/ ResetsDocument(a) \/ WithdrawsChunks(a) \/ DeletesDocument(a)
           \/ KeepsDocuments(a)
    BY <1>1, <1>5, ApiRows
  <2>2. CASE CreatesDocument(a) \/ ResetsDocument(a) \/ WithdrawsChunks(a)
    <3>1. Audited
      BY <2>1, <2>2 DEF CreatesDocument, ResetsDocument, WithdrawsChunks, OthersServe, DeletionInv
    <3>2. Kept
      BY <1>1, <2>2 DEF CreatesDocument, ResetsDocument, WithdrawsChunks, DeletionInv, DeletionIsComplete
    <3> QED
      BY <1>2, <1>5, <3>1, <3>2 DEF Next
  <2>3. CASE DeletesDocument(a)
    <3>1. /\ api[a].pc = "delDoc" /\ chunks[d] = 0 /\ JobsOf(d) = {} /\ api'[a].pc = "delFile"
          /\ docStatus' = [docStatus EXCEPT ![d] = "deleted"]
          /\ UNCHANGED <<chunks, audit, jobStatus, jobDoc>>
      BY <2>3 DEF DeletesDocument
    <3>2. Audited
      BY <2>1, <3>1 DEF OthersServe, DeletionInv
    <3>3. \A e \in Docs : JobsOf(e)' = JobsOf(e)
      BY <3>1 DEF JobsOf, JobExists
    <3>4. <<"deleted", d>> \in audit
      BY <3>1 DEF DeletionInv
    <3>5. Kept
      BY <1>1, <3>1, <3>3, <3>4 DEF DeletionInv, DeletionIsComplete
    <3> QED
      BY <1>2, <1>5, <3>2, <3>5 DEF Next
  <2>4. CASE KeepsDocuments(a)
    <3>1. Audited
      BY <2>1, <2>4 DEF KeepsDocuments, OthersServe, DeletionInv
    <3>2. Kept
      BY <2>4 DEF KeepsDocuments, DeletionInv, DeletionIsComplete
    <3> QED
      BY <1>2, <1>5, <3>1, <3>2 DEF Next
  <2> QED
    BY <2>1, <2>2, <2>3, <2>4
<1>6. CASE UNCHANGED vars
  BY <1>6 DEF vars, dbVars, DeletionInv, DeletionIsComplete, JobsOf, JobExists
<1> QED
  BY <1>3, <1>4, <1>5, <1>6 DEF Next

\* DocumentService.delete: a document that is gone has left no chunk rows and no jobs,
\* and its deletion is on record, though chunks, jobs, audit and document go in four
\* commits between which workers and other requests write.
THEOREM DeletionsAreComplete == Spec => []DeletionIsComplete
<1>1. Init => DeletionInv
  BY DEF Init, DeletionInv, DeletionIsComplete, IdleApi
<1>2. DeletionInv => DeletionIsComplete
  BY DEF DeletionInv
<1> QED
  BY <1>1, <1>2, DeletionStep, OneCopyHolds, PTL DEF Spec

-----------------------------------------------------------------------------
(* Files without a document                                                *)

\* A file loses its document only to a request that is going to remove it.
LEMMA OrphanStep ==
    ASSUME "api" \notin Faults
    PROVE  TypeOK /\ BusyIsPlaced /\ OrphanInv /\ [Next]_vars => OrphanInv'
<1> SUFFICES ASSUME TypeOK, BusyIsPlaced, OrphanInv, [Next]_vars PROVE OrphanInv'
  OBVIOUS
<1> DEFINE Keeper(a) == api[a].pc \in {"createDoc", "delFile"}
<1>1. ApiType /\ docStatus \in [Docs -> DocStatus] /\ files \subseteq Docs
  BY DEF TypeOK, ApiType
<1>2. ASSUME NEW w \in Workers, WorkerStep(w) \/ WorkerFault(w) PROVE OrphanInv'
  <2>1. api' = api /\ files' = files /\ \A d \in Docs : DocExists(d) => DocExists(d)'
    BY <1>2, WorkerStepEffect, WorkerFaultEffect DEF RunEffect, WritesDocs, DocExists
  <2> QED
    BY <1>1, <2>1 DEF OrphanInv
<1>3. ASSUME NEW a \in ApiProcs, OthersServe(a), NEW d \in files, d \in files',
             DocExists(d) => DocExists(d)', ~Keeper(a) \/ api[a].doc # d
      PROVE  DocExists(d)' \/ \E b \in ApiProcs : api'[b].pc \in {"createDoc", "delFile"} /\ api'[b].doc = d
  <2>1. CASE DocExists(d)
    BY <1>3, <2>1
  <2>2. CASE ~DocExists(d)
    <3>1. PICK b \in ApiProcs : Keeper(b) /\ api[b].doc = d
      BY <2>2 DEF OrphanInv
    <3>2. b # a /\ api'[b] = api[b]
      BY <1>3, <3>1 DEF OthersServe
    <3> QED
      BY <3>1, <3>2
  <2> QED
    BY <2>1, <2>2
<1>4. ASSUME NEW a \in ApiProcs, ApiRequest(a) PROVE OrphanInv'
  <2>1. /\ OthersServe(a) /\ docStatus' = docStatus /\ ~Keeper(a)
        /\ \/ api'[a].pc = "createDoc" /\ files' = files \cup {api'[a].doc}
           \/ files' = files
    BY <1>4, BeginRows
  <2>2. \A d \in files : DocExists(d) => DocExists(d)'
    BY <2>1 DEF DocExists
  <2> QED
    BY <1>3, <2>1, <2>2 DEF OrphanInv
<1>5. ASSUME NEW a \in ApiProcs, ApiFault(a) PROVE OrphanInv'
  <2>1. ~Keeper(a)
    BY <1>5 DEF ApiFault, ApiAborted, EnqueueFails, Fault
  <2>2. OthersServe(a) /\ UNCHANGED <<docStatus, files>>
    BY <1>5, FaultRows
  <2>3. \A d \in files : DocExists(d) => DocExists(d)'
    BY <2>2 DEF DocExists
  <2> QED
    BY <1>3, <2>1, <2>2, <2>3 DEF OrphanInv
<1>6. ASSUME NEW a \in ApiProcs, ApiStep(a) PROVE OrphanInv'
  <2> DEFINE e == api[a].doc
  <2>1. /\ OthersServe(a) /\ (api'[a].pc = "idle" \/ api'[a].doc = e)
        /\ \/ CreatesDocument(a) \/ ResetsDocument(a) \/ WithdrawsChunks(a) \/ DeletesDocument(a)
           \/ KeepsDocuments(a)
    BY <1>6, ApiRows
  <2>2. CASE CreatesDocument(a)
    <3>1. files' = files /\ docStatus' = [docStatus EXCEPT ![e] = "uploaded"]
      BY <1>6, <2>2 DEF CreatesDocument, ApiStep, CreateDocument, AuditUpload, CreateJob, Enqueue,
         ReindexDeleteChunks, ReindexResetDocument, AuditReindex, DeleteDocumentChunks, DeleteJobs,
         AuditDelete, DeleteDocument, DeleteFile
    <3>2. \A d \in files : (DocExists(d) => DocExists(d)') /\ (d = e => DocExists(d)')
      BY <1>1, <3>1 DEF DocExists, LiveDoc
    <3> QED
      BY <1>3, <2>1, <3>1, <3>2 DEF OrphanInv
  <2>3. CASE DeleteFile(a)
    <3>1. files' = files \ {e} /\ docStatus' = docStatus
      BY <2>3 DEF DeleteFile, dbVars
    <3>2. \A d \in files : DocExists(d) => DocExists(d)'
      BY <3>1 DEF DocExists
    <3> QED
      BY <1>3, <2>1, <3>1, <3>2 DEF OrphanInv
  <2>4. CASE ~DeleteFile(a) /\ ~CreatesDocument(a)
    <3>1. files' = files /\ ~Keeper(a)
      <4>1. CASE CreateDocument(a)
        BY <1>1, <2>4, <4>1, ApiGoToEffect DEF CreateDocument, CreatesDocument
      <4>2. CASE ~CreateDocument(a)
        BY <1>6, <2>4, <4>2 DEF ApiStep, AuditUpload, CreateJob, Enqueue, ReindexDeleteChunks,
           ReindexResetDocument, AuditReindex, DeleteDocumentChunks, DeleteJobs, AuditDelete,
           DeleteDocument, DeleteChunks, RecordAudit, RefreshFails, dbVars
      <4> QED
        BY <4>1, <4>2
    <3>2. CASE DeletesDocument(a)
      <4>1. docStatus' = [docStatus EXCEPT ![e] = "deleted"] /\ api'[a].pc = "delFile" /\ api'[a].doc = e
        BY <2>1, <3>2 DEF DeletesDocument
      <4>2. \A d \in files : d # e => (DocExists(d) => DocExists(d)')
        BY <4>1 DEF DocExists
      <4> QED
        BY <1>3, <2>1, <3>1, <4>1, <4>2 DEF OrphanInv
    <3>3. CASE ~DeletesDocument(a)
      <4>1. \A d \in files : DocExists(d) => DocExists(d)'
        BY <1>1, <2>1, <2>4, <3>3 DEF ResetsDocument, WithdrawsChunks, KeepsDocuments, DocExists, LiveDoc
      <4> QED
        BY <1>3, <2>1, <3>1, <4>1 DEF OrphanInv
    <3> QED
      BY <3>2, <3>3
  <2> QED
    BY <2>2, <2>3, <2>4
<1>7. CASE UNCHANGED vars
  BY <1>7 DEF vars, dbVars, OrphanInv, DocExists
<1> QED
  BY <1>2, <1>4, <1>5, <1>6, <1>7 DEF Next

\* upload and delete: where no request is cut short, a stored file belongs to a document
\* row or to a request at work on it, whatever other requests, runs and faults do.
THEOREM NoFileIsOrphaned ==
    ASSUME "api" \notin Faults
    PROVE  Spec => []NoOrphanFile
<1>1. Init => OrphanInv
  BY DEF Init, OrphanInv
<1>2. TypeOK /\ BusyIsPlaced /\ OrphanInv /\ [Next]_vars => OrphanInv'
  BY OrphanStep
<1>3. OrphanInv => NoOrphanFile
  BY DEF OrphanInv, NoOrphanFile, ApiOn
<1> QED
  BY <1>1, <1>2, <1>3, TypeCorrect, PTL DEF Spec

-----------------------------------------------------------------------------
(* The corpus                                                              *)

\* A step of a worker is a change of the corpus or none.
LEMMA WorkerCorpus ==
    ASSUME OneCopyInv, CorpusInv, NEW w \in Workers, WorkerStep(w) \/ WorkerFault(w)
    PROVE  CorpusInv' /\ (Corpus!KnowledgeBaseNext \/ UNCHANGED <<docStatus, chunks>>)
<1>1. /\ TypeOK /\ BusyIsPlaced /\ docStatus \in [Docs -> DocStatus] /\ chunks \in [Docs -> Jobs \cup {0}]
  BY DEF OneCopyInv, TypeOK
<1>2. api' = api /\ \A d \in Docs : docStatus'[d] = docStatus[d] \/ (DocExists(d) /\ docStatus'[d] \in LiveDoc)
  BY <1>1, WorkerStepEffect, WorkerFaultEffect DEF RunEffect, WritesDocs, DocExists
<1>3. \A a \in ApiProcs : api[a].pc \in ReindexPC \cup DeletePC => api[a].doc \in Docs
  BY <1>1 DEF BusyIsPlaced, ReindexPC, DeletePC
<1>4. \A a \in ApiProcs : api'[a].pc \in ReindexPC \cup DeletePC => docStatus'[api'[a].doc] # "unborn"
  BY <1>2, <1>3 DEF CorpusInv, LiveDoc
<1>5. CASE UNCHANGED <<docStatus, chunks>>
  BY <1>4, <1>5 DEF CorpusInv
<1>6. ASSUME NEW d \in Docs, NEW s \in {"processing", "indexed", "failed"}, DocExists(d),
             docStatus' = [docStatus EXCEPT ![d] = s], chunks' = chunks
      PROVE  CorpusInv' /\ (Corpus!KnowledgeBaseNext \/ UNCHANGED <<docStatus, chunks>>)
  <2>1. \A e \in Docs : docStatus'[e] = "unborn" => chunks'[e] = 0
    BY <1>1, <1>6 DEF CorpusInv
  <2>2. CASE docStatus[d] = s
    BY <1>1, <1>4, <1>6, <2>1, <2>2 DEF CorpusInv
  <2>3. CASE docStatus[d] # s
    <3>1. docStatus[d] \in {"uploaded", "processing", "indexed", "failed"} \ {s}
      BY <1>6, <2>3 DEF DocExists, LiveDoc
    <3>2. Corpus!StatusChanges(d)
      BY <1>6, <3>1 DEF Corpus!StatusChanges, Corpus!StartProcessing, Corpus!MarkIndexed,
         Corpus!MarkFailed, Corpus!SetStatus
    <3> QED
      BY <1>4, <2>1, <3>2 DEF CorpusInv, Corpus!KnowledgeBaseNext, Corpus!DocumentChanges
  <2> QED
    BY <2>2, <2>3
<1>7. ASSUME NEW d \in Docs, NEW j \in Jobs, DocExists(d),
             chunks' = [chunks EXCEPT ![d] = j], docStatus' = docStatus
      PROVE  CorpusInv' /\ Corpus!KnowledgeBaseNext
  <2>1. docStatus[d] \notin {"unborn", "deleted"}
    BY <1>7 DEF DocExists, LiveDoc
  <2>2. \A e \in Docs : docStatus'[e] = "unborn" => chunks'[e] = 0
    BY <1>1, <1>7, <2>1 DEF CorpusInv
  <2>3. Corpus!ReplaceChunks(d, j)
    BY <1>7, <2>1 DEF Corpus!ReplaceChunks
  <2> QED
    BY <1>4, <2>2, <2>3 DEF CorpusInv, Corpus!KnowledgeBaseNext, Corpus!DocumentChanges, Corpus!ChunksChange
<1> QED
  BY <1>5, <1>6, <1>7, WorkerRows

\* So is a step of a request: FileInv says that it creates its document but once.
LEMMA ApiCorpus ==
    ASSUME OneCopyInv, FileInv, CorpusInv, NEW a \in ApiProcs, ApiStep(a)
    PROVE  CorpusInv' /\ (Corpus!KnowledgeBaseNext \/ UNCHANGED <<docStatus, chunks>>)
<1>1. /\ TypeOK /\ BusyIsPlaced /\ docStatus \in [Docs -> DocStatus] /\ chunks \in [Docs -> Jobs \cup {0}]
  BY DEF OneCopyInv, TypeOK
<1>2. PICK d : d = api[a].doc
  OBVIOUS
<1>3. /\ OthersServe(a) /\ (api'[a].pc = "idle" \/ api'[a].doc = d)
      /\ \/ CreatesDocument(a) \/ ResetsDocument(a) \/ WithdrawsChunks(a) \/ DeletesDocument(a)
         \/ KeepsDocuments(a)
  BY <1>1, <1>2, ApiRows
<1>4. api[a].pc # "idle" => d \in Docs
  BY <1>1, <1>2 DEF BusyIsPlaced
<1>5. \A b \in ApiProcs : api[b].pc \in ReindexPC \cup DeletePC => api[b].doc \in Docs
  BY <1>1 DEF BusyIsPlaced, ReindexPC, DeletePC
<1>6. ASSUME \A e \in Docs : docStatus'[e] = "unborn" => docStatus[e] = "unborn" /\ chunks'[e] = 0,
             api'[a].pc \in ReindexPC \cup DeletePC => d \in Docs /\ docStatus'[d] # "unborn"
      PROVE  CorpusInv'
  <2>1. ASSUME NEW b \in ApiProcs, api'[b].pc \in ReindexPC \cup DeletePC PROVE docStatus'[api'[b].doc] # "unborn"
    <3>1. CASE b = a
      BY <1>3, <1>6, <2>1, <3>1 DEF ReindexPC, DeletePC
    <3>2. CASE b # a
      BY <1>3, <1>5, <1>6, <2>1, <3>2 DEF OthersServe, CorpusInv
    <3> QED
      BY <3>1, <3>2
  <2> QED
    BY <1>6, <2>1 DEF CorpusInv
<1>7. CASE CreatesDocument(a)
  <2>1. d \in Docs /\ docStatus[d] = "unborn" /\ docStatus' = [docStatus EXCEPT ![d] = "uploaded"]
        /\ chunks' = chunks /\ api'[a].pc = "auditUpload"
    BY <1>2, <1>4, <1>7 DEF CreatesDocument, FileInv
  <2>2. Corpus!Upload(d)
    BY <2>1 DEF Corpus!Upload, Corpus!SetStatus
  <2>3. CorpusInv'
    BY <1>1, <1>6, <2>1 DEF CorpusInv, ReindexPC, DeletePC
  <2> QED
    BY <2>1, <2>2, <2>3 DEF Corpus!KnowledgeBaseNext, Corpus!DocumentChanges, Corpus!StatusChanges
<1>8. CASE ResetsDocument(a)
  <2>1. d \in Docs /\ docStatus[d] \in LiveDoc /\ docStatus' = [docStatus EXCEPT ![d] = "processing"]
        /\ chunks' = chunks
    BY <1>2, <1>4, <1>8 DEF ResetsDocument, DocExists
  <2>2. CorpusInv'
    BY <1>1, <1>6, <2>1 DEF CorpusInv
  <2>3. CASE docStatus[d] = "processing"
    BY <1>1, <2>1, <2>2, <2>3
  <2>4. CASE docStatus[d] # "processing"
    <3>1. Corpus!StartProcessing(d)
      BY <2>1, <2>4 DEF Corpus!StartProcessing, Corpus!SetStatus, LiveDoc
    <3> QED
      BY <2>1, <2>2, <3>1 DEF Corpus!KnowledgeBaseNext, Corpus!DocumentChanges, Corpus!StatusChanges
  <2> QED
    BY <2>3, <2>4
<1>9. CASE WithdrawsChunks(a)
  <2>1. d \in Docs /\ docStatus[d] # "unborn" /\ chunks' = [chunks EXCEPT ![d] = 0] /\ docStatus' = docStatus
    BY <1>2, <1>4, <1>9 DEF WithdrawsChunks, CorpusInv, ReindexPC, DeletePC
  <2>2. CorpusInv'
    BY <1>1, <1>6, <2>1 DEF CorpusInv
  <2>3. CASE chunks[d] = 0
    BY <1>1, <2>1, <2>2, <2>3
  <2>4. CASE chunks[d] # 0
    <3>1. Corpus!WithdrawChunks(d)
      BY <2>1, <2>4 DEF Corpus!WithdrawChunks
    <3> QED
      BY <2>1, <2>2, <3>1 DEF Corpus!KnowledgeBaseNext, Corpus!DocumentChanges, Corpus!ChunksChange
  <2> QED
    BY <2>3, <2>4
<1>10. CASE DeletesDocument(a)
  <2>1. d \in Docs /\ docStatus[d] # "unborn" /\ chunks[d] = 0 /\ chunks' = chunks
        /\ docStatus' = [docStatus EXCEPT ![d] = "deleted"]
    BY <1>2, <1>4, <1>10 DEF DeletesDocument, CorpusInv, DeletePC
  <2>2. CorpusInv'
    BY <1>1, <1>6, <2>1 DEF CorpusInv
  <2>3. CASE docStatus[d] = "deleted"
    BY <1>1, <2>1, <2>2, <2>3
  <2>4. CASE docStatus[d] # "deleted"
    <3>1. docStatus[d] \in {"uploaded", "processing", "indexed", "failed"}
      BY <1>1, <2>1, <2>4 DEF DocStatus, LiveDoc
    <3>2. Corpus!RemoveDocument(d)
      BY <2>1, <3>1 DEF Corpus!RemoveDocument, Corpus!SetStatus
    <3> QED
      BY <2>1, <2>2, <3>2 DEF Corpus!KnowledgeBaseNext, Corpus!DocumentChanges, Corpus!StatusChanges
  <2> QED
    BY <2>3, <2>4
<1>11. CASE KeepsDocuments(a)
  <2>1. UNCHANGED <<docStatus, chunks>>
        /\ (api'[a].pc \in ReindexPC \cup DeletePC => api[a].pc \in ReindexPC \cup DeletePC)
    BY <1>11 DEF KeepsDocuments
  <2>2. CorpusInv'
    BY <1>2, <1>5, <1>6, <2>1 DEF CorpusInv
  <2> QED
    BY <2>1, <2>2
<1> QED
  BY <1>3, <1>7, <1>8, <1>9, <1>10, <1>11

LEMMA CorpusStep ==
    OneCopyInv /\ FileInv /\ CorpusInv /\ [Next]_vars =>
        CorpusInv' /\ [Corpus!KnowledgeBaseNext]_<<docStatus, chunks>>
<1> SUFFICES ASSUME OneCopyInv, FileInv, CorpusInv, [Next]_vars
             PROVE  CorpusInv' /\ (Corpus!KnowledgeBaseNext \/ UNCHANGED <<docStatus, chunks>>)
  OBVIOUS
<1>1. TypeOK /\ BusyIsPlaced
  BY DEF OneCopyInv
<1>2. ASSUME NEW a \in ApiProcs, ApiRequest(a) \/ ApiFault(a)
      PROVE  CorpusInv' /\ UNCHANGED <<docStatus, chunks>>
  <2>1. /\ OthersServe(a) /\ UNCHANGED <<docStatus, chunks>>
        /\ api'[a].pc \in {"idle", "createDoc"} \/ DocExists(api'[a].doc)
    BY <1>1, <1>2, BeginRows, FaultRows
  <2> QED
    BY <2>1 DEF CorpusInv, OthersServe, DocExists, LiveDoc, ReindexPC, DeletePC
<1>3. CASE UNCHANGED vars
  BY <1>3 DEF vars, dbVars, CorpusInv
<1> QED
  BY <1>2, <1>3, WorkerCorpus, ApiCorpus DEF Next

\* What questions and investigations read is what the pipeline writes: every behaviour
\* of uploads, runs, reindexes, deletions and faults is one of the corpus they are
\* modelled against.
THEOREM CorpusImplemented == Spec => ImplementsCorpus
<1>1. Init => CorpusInv /\ FileInv /\ Corpus!KnowledgeBaseInit
  <2> SUFFICES ASSUME Init PROVE CorpusInv /\ Corpus!KnowledgeBaseInit
    BY FileInit
  <2> QED
    BY DEF Init, CorpusInv, IdleApi, ReindexPC, DeletePC, Corpus!KnowledgeBaseInit
<1>2. Spec => []FileInv
  <2>1. TypeOK /\ BusyIsPlaced /\ FileInv /\ [Next]_vars => FileInv'
    BY FileStep
  <2> QED
    BY <1>1, <2>1, TypeCorrect, PTL DEF Spec
<1> QED
  BY <1>1, <1>2, CorpusStep, OneCopyHolds, PTL
  DEF Spec, ImplementsCorpus, Corpus!KnowledgeBaseSpec, Corpus!kbVars

-----------------------------------------------------------------------------
(* The job lifecycle: one API process, and no lost node                    *)

\* What a worker writes to a job or to chunk rows, and where its run stands then.
PublishesChunks(w) ==
    /\ worker[w].pc = "replInsert" /\ worker'[w].pc = "refresh"
    /\ chunks' = [chunks EXCEPT ![DocToDo(w)] = JobToDo(w)] /\ jobStatus' = jobStatus
WritesOutcome(w) ==
    /\ JobExists(JobToDo(w)) /\ chunks' = chunks /\ worker'[w].pc \in {"index", "ack"}
    /\ \/ worker[w].pc = "complete" /\ jobStatus' = [jobStatus EXCEPT ![JobToDo(w)] = "completed"]
       \/ worker[w].pc \in {"fail", "failByIds"} /\ jobStatus' = [jobStatus EXCEPT ![JobToDo(w)] = "failed"]
Progresses(w) ==
    \/ UNCHANGED <<jobStatus, chunks>> /\ worker'[w].pc # "markDoc"
    \/ StartsJob(w) /\ worker'[w].status = worker[w].status /\ chunks' = chunks
    \/ PublishesChunks(w)
    \/ WritesOutcome(w)

\* Where its run may come from.
ComesFrom(w) ==
    /\ "node" \notin Faults /\ worker'[w].pc = "idle" => queue' = queue
    /\ worker'[w].pc \notin {"idle", "ack"} => worker[w].pc # "ack"
    /\ worker'[w].pc \in UnsettledPC =>
          worker[w].pc = "markJob" \/ worker[w].pc \in UnsettledPC
    /\ worker'[w].pc \in UnsettledPC => worker'[w].status \in {worker[w].status, jobStatus[JobToDo(w)]}
    /\ worker'[w].pc \in {"refresh", "complete"} => PublishesChunks(w) \/ worker[w].pc = "refresh"
    /\ worker'[w].pc = "index" => WritesOutcome(w)
    /\ worker'[w].pc = "idle" => queue' = queue \/ NodeLost(w)

\* What later proofs use of a worker step.
LEMMA RunProgress ==
    ASSUME TypeOK, BusyIsPlaced,
           NEW w \in Workers, WorkerStep(w) \/ WorkerFault(w)
    PROVE  Progresses(w) /\ ComesFrom(w)
<1> WorkerType /\ worker[w] \in WorkerRecord /\ jobStatus \in [Jobs -> JobStatus]
  BY DEF TypeOK, WorkerType
<1>0. UnsettledPC = {"markDoc", "work", "replDelete", "replInsert", "refresh", "complete",
                     "fail", "retry", "failByIds"}
  BY DEF UnsettledPC, StartedPC, WorkerPC
<1>a. ASSUME Finish(w), worker[w].pc # "idle", UNCHANGED <<jobStatus, chunks>>
      PROVE  Progresses(w) /\ ComesFrom(w)
  BY <1>0, <1>a, FinishEffect DEF Progresses, ComesFrom
<1>b. ASSUME NEW label \in UnsettledPC \ {"markDoc", "refresh"}, GoTo(w, label), worker[w].pc \in UnsettledPC,
             label = "complete" => worker[w].pc = "refresh", UNCHANGED <<jobStatus, chunks>>
      PROVE  Progresses(w) /\ ComesFrom(w)
  BY <1>0, <1>b, GoToEffect DEF Progresses, ComesFrom
<1>1. CASE Receive(w)
  BY <1>0, <1>1 DEF Receive, Progresses, ComesFrom, WorkerType, IdleWorker, dbVars
<1>2. CASE LoadJob(w)
  <2>1. CASE jobStatus[JobToDo(w)] \in ActiveJob
    <3>1. /\ worker'[w].pc = "loadDoc" /\ worker[w].pc = "loadJob"
          /\ UNCHANGED <<jobStatus, chunks, queue>>
      <4>1. /\ worker' = [worker EXCEPT ![w] = [@ EXCEPT !.pc = "loadDoc", !.status = jobStatus[JobToDo(w)],
                                                          !.attempt = attempts[JobToDo(w)]]]
            /\ worker[w].pc = "loadJob" /\ UNCHANGED <<jobStatus, chunks, queue>>
        BY <1>2, <2>1 DEF LoadJob, dbVars
      <4> QED
        BY <4>1 DEF WorkerType, WorkerRecord
    <3> QED
      BY <1>0, <3>1 DEF Progresses, ComesFrom
  <2>2. CASE jobStatus[JobToDo(w)] \notin ActiveJob
    BY <1>2, <1>a, <2>2 DEF LoadJob, dbVars
  <2> QED
    BY <2>1, <2>2
<1>3. CASE LoadDocument(w)
  <2>1. CASE GoTo(w, "markJob")
    BY <1>0, <1>3, <2>1, GoToEffect DEF LoadDocument, Progresses, ComesFrom, dbVars
  <2>2. CASE Finish(w)
    BY <1>3, <1>a, <2>2 DEF LoadDocument, dbVars
  <2> QED
    BY <1>3, <2>1, <2>2 DEF LoadDocument, GoToOrFinish
<1>4. CASE MarkJobProcessing(w)
  <2>1. CASE JobExists(JobToDo(w))
    BY <1>0, <1>4, <2>1, GoToEffect DEF MarkJobProcessing, StartsJob, Progresses, ComesFrom
  <2>2. CASE ~JobExists(JobToDo(w))
    BY <1>4, <1>a, <2>2 DEF MarkJobProcessing
  <2> QED
    BY <2>1, <2>2
<1>5. CASE MarkDocProcessing(w)
  <2>1. CASE Finish(w)
    BY <1>5, <1>a, <2>1 DEF MarkDocProcessing
  <2>2. CASE worker' = [worker EXCEPT ![w] = [@ EXCEPT !.pc = "work", !.status = jobStatus[JobToDo(w)]]]
    BY <1>0, <1>5, <2>2 DEF MarkDocProcessing, Progresses, ComesFrom, WorkerType, WorkerRecord
  <2> QED
    BY <1>5, <2>1, <2>2 DEF MarkDocProcessing
<1>6. CASE ReadAndEmbed(w)
  <2>1. CASE Finish(w)
    BY <1>6, <1>a, <2>1 DEF ReadAndEmbed, dbVars
  <2>2. CASE \E next \in {"replDelete", "fail", "retry"} : GoTo(w, next)
    BY <1>0, <1>6, <1>b, <2>2 DEF ReadAndEmbed, dbVars
  <2> QED
    BY <1>6, <2>1, <2>2 DEF ReadAndEmbed
<1>7. CASE ReplaceChunksDelete(w)
  BY <1>0, <1>7 DEF ReplaceChunksDelete, Progresses, ComesFrom, WorkerType, WorkerRecord, dbVars
<1>8. CASE ReplaceChunksInsert(w)
  BY <1>0, <1>8 DEF ReplaceChunksInsert, PublishesChunks, Progresses, ComesFrom, WorkerType, WorkerRecord
<1>9. CASE ChunkStorageFails(w)
  <2>1. CASE Finish(w)
    BY <1>9, <1>a, <2>1 DEF ChunkStorageFails, dbVars
  <2>2. CASE GoTo(w, "retry")
    BY <1>0, <1>9, <1>b, <2>2 DEF ChunkStorageFails, dbVars
  <2> QED
    BY <1>9, <2>1, <2>2 DEF ChunkStorageFails
<1>10. CASE RefreshChunks(w)
  <2>1. CASE Finish(w)
    BY <1>10, <1>a, <2>1 DEF RefreshChunks, dbVars
  <2>2. CASE GoTo(w, "complete")
    BY <1>0, <1>10, <1>b, <2>2 DEF RefreshChunks, dbVars
  <2>3. CASE worker' = [worker EXCEPT ![w] = [@ EXCEPT !.pc = "fail", !.status = jobStatus[JobToDo(w)]]]
    BY <1>0, <1>10, <2>3 DEF RefreshChunks, Progresses, ComesFrom, WorkerType, WorkerRecord, dbVars
  <2> QED
    BY <1>10, <2>1, <2>2, <2>3 DEF RefreshChunks
<1>11. CASE CompleteJob(w)
  <2>1. CASE JobExists(JobToDo(w))
    BY <1>0, <1>11, <2>1, GoToEffect DEF CompleteJob, WritesOutcome, Progresses, ComesFrom
  <2>2. CASE ~JobExists(JobToDo(w))
    BY <1>11, <1>a, <2>2 DEF CompleteJob
  <2> QED
    BY <2>1, <2>2
<1>12. CASE IndexDocument(w)
  BY <1>12, <1>a DEF IndexDocument
<1>13. CASE FailIngestion(w) \/ FailIngestionByIds(w)
  <2>1. /\ Finish(w) /\ worker[w].pc \in {"fail", "failByIds"} /\ chunks' = chunks
        /\ \/ jobStatus' = jobStatus
           \/ JobExists(JobToDo(w)) /\ jobStatus' = [jobStatus EXCEPT ![JobToDo(w)] = "failed"]
    BY <1>13 DEF FailIngestion, FailIngestionByIds, FailRows
  <2>2. CASE jobStatus' = jobStatus
    BY <1>a, <2>1, <2>2
  <2>3. CASE JobExists(JobToDo(w)) /\ jobStatus' = [jobStatus EXCEPT ![JobToDo(w)] = "failed"]
    BY <1>0, <2>1, <2>3, FinishEffect DEF WritesOutcome, Progresses, ComesFrom
  <2> QED
    BY <2>1, <2>2, <2>3
<1>14. CASE RequestRetryOrFail(w)
  <2>1. CASE Finish(w)
    BY <1>14, <1>a, <2>1 DEF RequestRetryOrFail, dbVars
  <2>2. CASE GoTo(w, "failByIds")
    BY <1>0, <1>14, <1>b, <2>2 DEF RequestRetryOrFail, dbVars
  <2> QED
    BY <1>14, <2>1, <2>2 DEF RequestRetryOrFail
<1>15. CASE Acknowledge(w)
  BY <1>0, <1>15 DEF Acknowledge, Progresses, ComesFrom, WorkerType, IdleWorker, dbVars
<1>16. CASE TaskAborted(w) \/ RepublishFails(w)
  BY <1>16, <1>a DEF TaskAborted, RepublishFails, dbVars
<1>17. CASE NodeLost(w)
  BY <1>0, <1>17 DEF NodeLost, Fault, Progresses, ComesFrom, WorkerType, IdleWorker, dbVars
<1> QED
  BY <1>1, <1>2, <1>3, <1>4, <1>5, <1>6, <1>7, <1>8, <1>9, <1>10, <1>11, <1>12, <1>13, <1>14,
     <1>15, <1>16, <1>17 DEF WorkerStep, WorkerFault

\* A job that gains no message, run or sender keeps the one it has.
LEMMA OneRunKept ==
    ASSUME NEW j \in Jobs, OneRunOf(j), queue'[j] = queue[j],
           \A x \in Workers : RunningBy(x, j)' => RunningBy(x, j),
           \A a \in ApiProcs : BeingSentBy(a, j)' => BeingSentBy(a, j)
    PROVE  OneRunOf(j)'
BY DEF OneRunOf, OnQueue

\* A worker takes the message of a job, or gives it one after its run: never both.
LEMMA OneRunWorker ==
    ASSUME TypeOK, BusyIsPlaced, OneRun, "node" \notin Faults,
           NEW w \in Workers, RunEffect(w), ComesFrom(w)
    PROVE  OneRun'
<1> SUFFICES ASSUME NEW j \in Jobs PROVE OneRunOf(j)'
  BY DEF OneRun
<1>1. /\ queue \in [Jobs -> [Retries -> Nat]] /\ OneRunOf(j)
      /\ \A r \in Retries : queue[j][r] \in Nat
  BY DEF TypeOK, OneRun
<1>2. /\ \A x \in Workers \ {w} : RunningBy(x, j)' <=> RunningBy(x, j)
      /\ \A a \in ApiProcs : BeingSentBy(a, j)' <=> BeingSentBy(a, j)
  BY DEF RunEffect, OthersRun, SameRun, RunningBy, BeingSentBy
<1>3. worker[w].pc # "idle" => JobToDo(w) \in Jobs /\ worker[w].retries \in Retries
  BY BusyJob DEF TypeOK, WorkerRecord
<1>4. CASE Continues(w) \/ Drops(w)
  <2>1. queue'[j] = queue[j] /\ (RunningBy(w, j)' => RunningBy(w, j))
    BY <1>4 DEF Continues, Drops, SameMessage, ComesFrom, RunningBy
  <2> QED
    BY <1>1, <1>2, <2>1, OneRunKept
<1>5. CASE Takes(w)
  <2>1. CASE worker'[w].job # j
    <3>1. queue'[j] = queue[j] /\ ~RunningBy(w, j)'
      BY <1>1, <1>5, <2>1 DEF Takes, RunningBy
    <3> QED
      BY <1>1, <1>2, <3>1, OneRunKept
  <2>2. CASE worker'[w].job = j
    <3>1. PICK r \in Retries : queue[j][r] > 0 /\ queue' = [queue EXCEPT ![j][r] = @ - 1]
      BY <1>5, <2>2 DEF Takes
    <3>2. /\ queue[j][r] = 1 /\ \A s \in Retries \ {r} : queue[j][s] = 0
          /\ \A x \in Workers : ~RunningBy(x, j)
          /\ \A a \in ApiProcs : ~BeingSentBy(a, j)
      BY <1>1, <3>1 DEF OneRunOf, OnQueue
    <3>3. \A s \in Retries : queue'[j][s] = 0
      <4>1. queue'[j] = [queue[j] EXCEPT ![r] = queue[j][r] - 1] /\ queue[j] \in [Retries -> Nat]
        BY <1>1, <3>1
      <4> QED
        BY <3>2, <4>1
    <3>4. \A x \in Workers : RunningBy(x, j)' => x = w
      BY <1>2, <3>2
    <3> QED
      BY <1>2, <3>2, <3>3, <3>4 DEF OneRunOf, OnQueue
  <2> QED
    BY <2>1, <2>2
<1>6. CASE Republishes(w)
  <2>1. CASE JobToDo(w) # j
    <3>1. queue'[j] = queue[j] /\ ~RunningBy(w, j)'
      BY <1>1, <1>3, <1>6, <2>1 DEF Republishes, RunningBy
    <3> QED
      BY <1>1, <1>2, <3>1, OneRunKept
  <2>2. CASE JobToDo(w) = j
    <3>1. PICK r \in Retries : queue' = [queue EXCEPT ![j][r] = @ + 1]
      BY <1>6, <2>2 DEF Republishes
    <3>2. RunningBy(w, j) /\ ~RunningBy(w, j)'
      BY <1>6, <2>2 DEF Republishes, RunningBy, JobToDo
    <3>3. /\ \A s \in Retries : queue[j][s] = 0
          /\ \A x \in Workers : ~RunningBy(x, j)'
          /\ \A a \in ApiProcs : ~BeingSentBy(a, j)'
      BY <1>1, <1>2, <3>2 DEF OneRunOf, OnQueue
    <3>4. \A s \in Retries : queue'[j][s] = IF s = r THEN 1 ELSE 0
      <4>1. queue'[j] = [queue[j] EXCEPT ![r] = queue[j][r] + 1] /\ queue[j] \in [Retries -> Nat]
        BY <1>1, <3>1
      <4> QED
        BY <3>3, <4>1
    <3> QED
      BY <3>3, <3>4 DEF OneRunOf, OnQueue
  <2> QED
    BY <2>1, <2>2
<1>7. ~GivesBack(w)
  <2> SUFFICES ASSUME GivesBack(w) PROVE FALSE
    OBVIOUS
  <2>1. PICK i \in Jobs, r \in Retries : queue' = [queue EXCEPT ![i][r] = @ + 1] /\ queue' = queue
    BY <1>3 DEF GivesBack, ComesFrom
  <2>2. queue[i] = [queue[i] EXCEPT ![r] = queue[i][r] + 1] /\ queue[i] \in [Retries -> Nat]
    BY <1>1, <2>1
  <2>3. queue[i][r] = queue[i][r] + 1 /\ queue[i][r] \in Nat
    BY <2>2
  <2> QED
    BY <2>3
<1> QED
  BY <1>4, <1>5, <1>6, <1>7 DEF RunEffect, Moves

\* A request is the only one to send the message of the job it has created.
LEMMA OneRunApi ==
    ASSUME OneCopyInv, OneRun, NEW a \in ApiProcs, ApiEffect(a)
    PROVE  OneRun'
<1> SUFFICES ASSUME NEW j \in Jobs PROVE OneRunOf(j)'
  BY DEF OneRun
<1>1. /\ queue \in [Jobs -> [Retries -> Nat]] /\ OneRunOf(j) /\ BirthOrder /\ BusyIsPlaced
      /\ \A r \in Retries : queue[j][r] \in Nat
  BY DEF OneCopyInv, TypeOK, OneRun
<1>2. /\ \A x \in Workers : RunningBy(x, j)' <=> RunningBy(x, j)
      /\ \A b \in ApiProcs \ {a} : BeingSentBy(b, j)' <=> BeingSentBy(b, j)
  BY DEF ApiEffect, AllRunsSame, SameRun, OthersServe, RunningBy, BeingSentBy
<1>3. CASE KeepsJobs(a) \/ PurgesJobs(a) \/ (CreatesJob(a) /\ j # api'[a].job)
  <2>1. queue'[j] = queue[j] /\ ~BeingSentBy(a, j)'
    BY <1>3 DEF KeepsJobs, PurgesJobs, CreatesJob, BeingSentBy
  <2> QED
    BY <1>1, <1>2, <2>1, OneRunKept
<1>4. CASE CreatesJob(a) /\ j = api'[a].job
  <2>1. jobStatus[j] = "unborn" /\ queue' = queue
    BY <1>4 DEF CreatesJob
  <2>2. /\ \A r \in Retries : queue'[j][r] = 0
        /\ \A x \in Workers : ~RunningBy(x, j)'
        /\ \A b \in ApiProcs : BeingSentBy(b, j)' => b = a
    BY <1>1, <1>2, <2>1 DEF BirthOrder, TakenBy, RunningBy
  <2> QED
    BY <2>2 DEF OneRunOf, OnQueue
<1>5. CASE SendsJob(a)
  <2>1. /\ api[a].job \in Jobs /\ BeingSentBy(a, api[a].job) /\ ~BeingSentBy(a, j)' /\ 0 \in Retries
        /\ queue' = [queue EXCEPT ![api[a].job][0] = @ + 1]
    BY <1>1, <1>5, BoundsAssumption DEF SendsJob, BeingSentBy, BusyIsPlaced, Retries
  <2>2. CASE j # api[a].job
    <3>1. queue'[j] = queue[j]
      BY <2>1, <2>2
    <3> QED
      BY <1>1, <1>2, <2>1, <3>1, OneRunKept
  <2>3. CASE j = api[a].job
    <3>1. /\ \A r \in Retries : queue[j][r] = 0
          /\ \A x \in Workers : ~RunningBy(x, j)'
          /\ \A b \in ApiProcs : ~BeingSentBy(b, j)'
      BY <1>1, <1>2, <2>1, <2>3 DEF OneRunOf, OnQueue
    <3>2. \A r \in Retries : queue'[j][r] = IF r = 0 THEN 1 ELSE 0
      <4>1. queue'[j] = [queue[j] EXCEPT ![0] = queue[j][0] + 1] /\ queue[j] \in [Retries -> Nat]
        BY <1>1, <2>1, <2>3
      <4> QED
        BY <2>1, <3>1, <4>1
    <3> QED
      BY <3>1, <3>2 DEF OneRunOf, OnQueue
  <2> QED
    BY <2>2, <2>3
<1> QED
  BY <1>3, <1>4, <1>5 DEF ApiEffect

\* A run finds its job as it left it: no other run writes it.
LEMMA OwnJobsWorker ==
    ASSUME OneCopyInv, OneRun, RunsOwnJobs, NEW w \in Workers, RunEffect(w), Progresses(w), ComesFrom(w)
    PROVE  RunsOwnJobs'
<1> /\ TypeOK /\ BusyIsPlaced /\ RunsAgree /\ jobStatus \in [Jobs -> JobStatus]
  BY DEF OneCopyInv, TypeOK
<1>0. UnsettledPC = {"markDoc", "work", "replDelete", "replInsert", "refresh", "complete",
                     "fail", "retry", "failByIds"}
  BY DEF UnsettledPC, StartedPC, WorkerPC
<1>1. ASSUME NEW x \in Workers \ {w}, worker'[x].pc \in {"loadDoc", "markJob"} \cup UnsettledPC
      PROVE  SameRun(x) /\ jobStatus'[worker[x].job] = jobStatus[worker[x].job]
  <2>1. SameRun(x) /\ RunningBy(x, worker[x].job) /\ worker[x].job \in Jobs
    BY <1>0, <1>1 DEF RunEffect, OthersRun, SameRun, RunningBy, BusyIsPlaced
  <2>2. CASE jobStatus'[worker[x].job] # jobStatus[worker[x].job]
    <3>1. RunningBy(w, worker[x].job)
      BY <2>1, <2>2, WorkerWrites DEF RunningBy, JobToDo, StartedPC
    <3> QED
      BY <2>1, <3>1 DEF OneRun, OneRunOf
  <2> QED
    BY <2>1, <2>2
<1>2. ASSUME worker'[w].pc \in {"loadDoc", "markJob"} \cup UnsettledPC
      PROVE  /\ worker'[w].job = JobToDo(w) /\ JobToDo(w) \in Jobs /\ worker[w].pc # "idle"
             /\ ~WritesOutcome(w)
  <2>1. worker'[w].job = JobToDo(w) /\ worker[w].pc # "idle" /\ ~WritesOutcome(w)
    BY <1>0, <1>2 DEF RunEffect, Moves, Continues, Takes, Drops, GivesBack, Republishes, SameMessage,
       JobToDo, WritesOutcome
  <2> QED
    BY <2>1, BusyJob
<1>3. worker'[w].pc \in {"loadDoc", "markJob"} => jobStatus'[worker'[w].job] \in ActiveJob \cup {"deleted"}
  <2>1. CASE worker'[w].pc = "loadDoc"
    BY <1>2, <2>1 DEF RunEffect, Advances
  <2>2. CASE worker'[w].pc = "markJob"
    <3>1. worker[w].pc = "loadDoc" /\ jobStatus' = jobStatus
      BY <1>2, <2>2 DEF RunEffect, Advances, Progresses, StartsJob, PublishesChunks
    <3> QED
      BY <1>2, <2>2, <3>1 DEF RunsOwnJobs, JobToDo
  <2> QED
    BY <2>1, <2>2
<1>4. ASSUME worker'[w].pc \in UnsettledPC
      PROVE  jobStatus'[worker'[w].job] \in {"processing", "deleted"} /\ worker'[w].status # "failed"
  <2>1. CASE StartsJob(w) /\ worker'[w].status = worker[w].status
    <3>1. /\ worker[w].status \in ActiveJob
          /\ worker[w].status = "pending" <=> jobStatus[JobToDo(w)] = "pending"
          /\ jobStatus[JobToDo(w)] \in ActiveJob \cup {"deleted"} /\ JobExists(JobToDo(w))
      BY <2>1 DEF StartsJob, RunsAgree, RunsOwnJobs, JobToDo
    <3> QED
      BY <1>2, <1>4, <2>1, <3>1 DEF StartsJob, ActiveJob, JobExists, LiveJob
  <2>2. CASE jobStatus' = jobStatus /\ worker[w].pc \in UnsettledPC
    BY <1>2, <1>4, <2>2 DEF RunsOwnJobs, ComesFrom, JobToDo
  <2>3. worker[w].pc = "markJob" => StartsJob(w) /\ worker'[w].status = worker[w].status
    <3>1. worker'[w].pc \in StartedPC /\ "markJob" \notin StartedPC
      BY <1>4 DEF UnsettledPC, StartedPC
    <3>2. worker[w].pc = "markJob" => worker'[w].pc = "markDoc"
      BY <3>1 DEF RunEffect, Advances
    <3>3. ~WritesOutcome(w)
      BY <1>2, <1>4
    <3> QED
      BY <3>2, <3>3 DEF Progresses, PublishesChunks
  <2>4. jobStatus' = jobStatus \/ (StartsJob(w) /\ worker'[w].status = worker[w].status)
    BY <1>2, <1>4 DEF Progresses, PublishesChunks
  <2> QED
    BY <1>4, <2>1, <2>2, <2>3, <2>4 DEF ComesFrom
<1>5. ASSUME NEW x \in Workers \ {w}
      PROVE  /\ worker'[x].pc \in {"loadDoc", "markJob"} =>
                   jobStatus'[worker'[x].job] \in ActiveJob \cup {"deleted"}
             /\ worker'[x].pc \in UnsettledPC =>
                   jobStatus'[worker'[x].job] \in {"processing", "deleted"} /\ worker'[x].status # "failed"
  BY <1>1 DEF SameRun, RunsOwnJobs
<1> QED
  BY <1>3, <1>4, <1>5 DEF RunsOwnJobs

\* What a request does to jobs that have been created: nothing, or it deletes them.
LEMMA BornJobs ==
    ASSUME NEW a \in ApiProcs, ApiEffect(a), NEW j \in Jobs, jobStatus[j] # "unborn",
           jobStatus \in [Jobs -> JobStatus], jobDoc \in [Jobs -> Docs \cup {NoDoc}]
    PROVE  jobStatus'[j] \in {jobStatus[j], "deleted"} /\ jobDoc'[j] = jobDoc[j]
BY DEF ApiEffect, KeepsJobs, CreatesJob, SendsJob, PurgesJobs

\* A request may delete the job of a run, no more.
LEMMA OwnJobsApi ==
    ASSUME OneCopyInv, RunsOwnJobs, NEW a \in ApiProcs, ApiEffect(a)
    PROVE  RunsOwnJobs'
<1> /\ BusyIsPlaced /\ BirthOrder /\ jobStatus \in [Jobs -> JobStatus]
    /\ jobDoc \in [Jobs -> Docs \cup {NoDoc}]
  BY DEF OneCopyInv, TypeOK
<1>1. \A w \in Workers : worker[w].pc # "idle" =>
         worker[w].job \in Jobs /\ jobStatus[worker[w].job] # "unborn"
  BY DEF BusyIsPlaced, BirthOrder, TakenBy
<1>2. \A w \in Workers : worker[w].pc # "idle" =>
         jobStatus'[worker[w].job] \in {jobStatus[worker[w].job], "deleted"}
  BY <1>1, BornJobs
<1>3. \A w \in Workers : SameRun(w)
  BY DEF ApiEffect, AllRunsSame
<1> QED
  BY <1>2, <1>3 DEF RunsOwnJobs, SameRun, UnsettledPC, StartedPC

KeepsContent(x) == jobStatus[worker[x].job] = "deleted" \/ ServedOrGone(worker[x].job)

\* Two runs of one document do not both hold a job that is not deleted, so that a
\* run never replaces the chunks another has stored for its job.
LEMMA ServeWorker ==
    ASSUME OneJobInv, OneRun, RunsOwnJobs, RunsServe,
           NEW w \in Workers, RunEffect(w), Progresses(w), ComesFrom(w)
    PROVE  RunsServe'
<1> /\ TypeOK /\ BusyIsPlaced /\ BirthOrder /\ ActiveIsLatest /\ jobStatus \in [Jobs -> JobStatus]
    /\ chunks \in [Docs -> Jobs \cup {0}]
  BY DEF OneJobInv, OneCopyInv, TypeOK
<1>0. /\ {"replInsert", "refresh", "complete"} \subseteq UnsettledPC
      /\ "idle" \notin UnsettledPC /\ "ack" \notin UnsettledPC
  BY DEF UnsettledPC, StartedPC, WorkerPC
<1>1. \A x \in Workers : worker[x].pc # "idle" =>
         /\ worker[x].job \in Jobs /\ jobDoc[worker[x].job] \in Docs
         /\ jobStatus[worker[x].job] # "unborn"
  BY DEF BusyIsPlaced, BirthOrder, TakenBy
<1>2. jobDoc' = jobDoc
  BY DEF RunEffect
<1>3. \A k \in Jobs : jobStatus[k] = "deleted" => jobStatus'[k] = "deleted"
  BY WorkerWrites DEF JobExists, LiveJob, ActiveJob
<1>4. SUFFICES ASSUME NEW x \in Workers, worker'[x].pc \in {"refresh", "complete"}
               PROVE  KeepsContent(x)'
  BY DEF RunsServe, KeepsContent
<1>5. ASSUME worker[x].pc \in {"refresh", "complete"}, worker'[x].job = worker[x].job, chunks' = chunks
      PROVE  KeepsContent(x)'
  BY <1>1, <1>2, <1>3, <1>5 DEF RunsServe, KeepsContent, ServedOrGone
<1>6. CASE x = w
  <2>1. worker'[w].job = JobToDo(w) /\ worker[w].pc # "idle"
    BY <1>4, <1>6 DEF RunEffect, Moves, Continues, Takes, Drops, GivesBack, Republishes, SameMessage, JobToDo
  <2>2. CASE PublishesChunks(w)
    <3>1. chunks'[jobDoc'[worker'[w].job]] = worker'[w].job
      BY <1>1, <1>2, <2>1, <2>2 DEF PublishesChunks, JobToDo, DocToDo
    <3> QED
      BY <1>6, <3>1 DEF KeepsContent, ServedOrGone
  <2>3. CASE worker[w].pc = "refresh"
    <3>1. chunks' = chunks
      BY <2>3 DEF Progresses, PublishesChunks, WritesOutcome
    <3> QED
      BY <1>5, <1>6, <2>1, <2>3, <3>1 DEF JobToDo
  <2> QED
    BY <1>4, <1>6, <2>2, <2>3 DEF ComesFrom
<1>7. CASE x # w
  <2>1. worker'[x].job = worker[x].job /\ worker[x].pc \in {"refresh", "complete"}
    BY <1>4, <1>7 DEF RunEffect, OthersRun, SameRun
  <2>2. CASE chunks' = chunks
    BY <1>5, <2>1, <2>2
  <2>3. CASE PublishesChunks(w)
    <3> DEFINE j == worker[x].job
               k == worker[w].job
    <3>1. /\ j \in Jobs /\ k \in Jobs /\ jobDoc[j] \in Docs /\ jobDoc[k] \in Docs
          /\ chunks' = [chunks EXCEPT ![jobDoc[k]] = k] /\ jobStatus' = jobStatus
          /\ worker[w].pc = "replInsert"
      BY <1>1, <2>1, <2>3 DEF PublishesChunks, JobToDo, DocToDo
    <3>2. jobStatus[j] \in {"processing", "deleted"} /\ jobStatus[k] \in {"processing", "deleted"}
      BY <1>0, <2>1, <3>1 DEF RunsOwnJobs
    <3>3. j # k
      BY <1>7, <2>1, <3>1 DEF OneRun, OneRunOf, RunningBy
    <3>4. jobDoc[j] = jobDoc[k] => jobStatus[j] = "deleted" \/ jobStatus[k] = "deleted"
      <4> SUFFICES ASSUME jobDoc[j] = jobDoc[k], jobStatus[j] = "processing", jobStatus[k] = "processing"
                   PROVE  FALSE
        BY <3>2
      <4>1. j <= k /\ k <= j
        BY <3>1 DEF ActiveIsLatest, JobExists, ActiveJob, LiveJob
      <4> QED
        BY <3>1, <3>3, <4>1 DEF Jobs
    <3>5. CASE jobDoc[j] = jobDoc[k]
      <4>1. chunks'[jobDoc'[j]] = k
        BY <1>2, <3>1, <3>5
      <4> QED
        BY <2>1, <3>1, <3>4, <3>5, <4>1 DEF KeepsContent, ServedOrGone
    <3>6. CASE jobDoc[j] # jobDoc[k]
      <4>1. chunks'[jobDoc'[j]] = chunks[jobDoc[j]]
        BY <1>2, <3>1, <3>6
      <4> QED
        BY <1>2, <2>1, <3>1, <4>1 DEF RunsServe, KeepsContent, ServedOrGone
    <3> QED
      BY <3>5, <3>6
  <2> QED
    BY <2>2, <2>3 DEF Progresses, WritesOutcome
<1> QED
  BY <1>6, <1>7

\* A request withdraws chunks, or deletes the jobs that might have published them.
LEMMA ServeApi ==
    ASSUME OneCopyInv, RunsServe, NEW a \in ApiProcs, ApiEffect(a),
           \A d \in Docs : chunks'[d] \in {chunks[d], 0}
    PROVE  RunsServe'
<1> /\ BusyIsPlaced /\ BirthOrder /\ jobStatus \in [Jobs -> JobStatus]
    /\ jobDoc \in [Jobs -> Docs \cup {NoDoc}]
  BY DEF OneCopyInv, TypeOK
<1>1. \A x \in Workers : worker[x].pc # "idle" =>
         /\ worker[x].job \in Jobs /\ jobDoc[worker[x].job] \in Docs
         /\ jobStatus[worker[x].job] # "unborn"
  BY DEF BusyIsPlaced, BirthOrder, TakenBy
<1>2. \A k \in Jobs : jobStatus[k] = "deleted" => jobStatus'[k] = "deleted"
  BY BornJobs
<1>3. SUFFICES ASSUME NEW x \in Workers, worker'[x].pc \in {"refresh", "complete"}
               PROVE  KeepsContent(x)'
  BY DEF RunsServe, KeepsContent
<1>4. worker'[x].job = worker[x].job /\ worker[x].pc \in {"refresh", "complete"}
  BY <1>3 DEF ApiEffect, AllRunsSame, SameRun
<1>5. jobDoc'[worker[x].job] = jobDoc[worker[x].job]
  BY <1>1, <1>4, BornJobs
<1>6. chunks'[jobDoc[worker[x].job]] \in {chunks[jobDoc[worker[x].job]], 0} /\ 0 \notin Jobs
  BY <1>1, <1>4 DEF Jobs
<1> QED
  BY <1>1, <1>2, <1>4, <1>5, <1>6 DEF RunsServe, KeepsContent, ServedOrGone

\* A step of a worker is a step of the lifecycle of its job, or none.
LEMMA WorkerLifecycle ==
    ASSUME LifecycleInv, NEW w \in Workers, RunEffect(w), Progresses(w)
    PROVE  Lifecycle!LifecycleNext \/ UNCHANGED <<jobStatus, jobDoc, chunks>>
<1> /\ TypeOK /\ BusyIsPlaced /\ RunsAgree /\ jobStatus \in [Jobs -> JobStatus]
    /\ Jobs = Lifecycle!AllJobs
  BY DEF LifecycleInv, OneJobInv, OneCopyInv, TypeOK, Jobs, Lifecycle!AllJobs
<1> DEFINE j == JobToDo(w)
<1>1. jobDoc' = jobDoc /\ (worker[w].pc # "idle" => j \in Jobs)
  BY BusyJob DEF RunEffect
<1>2. CASE UNCHANGED <<jobStatus, chunks>>
  BY <1>1, <1>2
<1>3. CASE StartsJob(w) /\ chunks' = chunks
  <2>1. /\ j \in Jobs
        /\ \/ jobStatus' = jobStatus
           \/ jobStatus[j] = "pending" /\ jobStatus' = [jobStatus EXCEPT ![j] = "processing"]
    <3>1. /\ worker[w].status \in ActiveJob
          /\ worker[w].status = "pending" <=> jobStatus[j] = "pending"
      BY <1>3 DEF StartsJob, RunsAgree, JobToDo
    <3> QED
      BY <1>1, <1>3, <3>1 DEF StartsJob, ActiveJob
  <2>2. CASE jobStatus[j] = "pending" /\ jobStatus' = [jobStatus EXCEPT ![j] = "processing"]
    <3>1. Lifecycle!Start(j)
      BY <1>1, <1>3, <2>2 DEF Lifecycle!Start
    <3> QED
      BY <2>1, <3>1 DEF Lifecycle!LifecycleNext
  <2> QED
    BY <1>1, <1>3, <2>1, <2>2
<1>4. CASE PublishesChunks(w)
  <2>1. j \in Jobs /\ jobStatus[j] \in {"processing", "deleted"}
    BY <1>1, <1>4 DEF PublishesChunks, LifecycleInv, RunsOwnJobs, UnsettledPC, StartedPC, WorkerPC, JobToDo
  <2>2. Lifecycle!Publish(j)
    BY <1>1, <1>4, <2>1 DEF PublishesChunks, Lifecycle!Publish, JobToDo, DocToDo
  <2> QED
    BY <2>1, <2>2 DEF Lifecycle!LifecycleNext
<1>5. CASE WritesOutcome(w)
  <2>1. j \in Jobs /\ jobStatus[j] = "processing" /\ chunks' = chunks
    BY <1>1, <1>5 DEF WritesOutcome, LifecycleInv, RunsOwnJobs, UnsettledPC, StartedPC, WorkerPC, JobToDo,
       JobExists, LiveJob, ActiveJob
  <2>2. PICK outcome \in {"completed", "failed"} :
           /\ jobStatus' = [jobStatus EXCEPT ![j] = outcome]
           /\ outcome = "completed" => worker[w].pc = "complete"
    BY <1>5 DEF WritesOutcome
  <2>3. outcome = "completed" => Lifecycle!ContentOfOther(j) = {}
    BY <2>1, <2>2 DEF LifecycleInv, RunsServe, ServedOrGone, JobToDo, Lifecycle!ContentOfOther
  <2>4. Lifecycle!Settle(j, outcome)
    BY <1>1, <2>1, <2>2, <2>3 DEF Lifecycle!Settle
  <2> QED
    BY <2>1, <2>4 DEF Lifecycle!LifecycleNext
<1> QED
  BY <1>2, <1>3, <1>4, <1>5 DEF Progresses

\* A step of a request creates a job, withdraws chunks or purges the jobs of a
\* document, one at a time.
LEMMA ApiLifecycle ==
    ASSUME OneJobInv, NEW a \in ApiProcs, ApiRequest(a) \/ ApiStep(a) \/ ApiFault(a), ApiEffect(a)
    PROVE  /\ \A d \in Docs : chunks'[d] \in {chunks[d], 0}
           /\ Lifecycle!LifecycleNext \/ UNCHANGED <<jobStatus, jobDoc, chunks>>
<1> /\ TypeOK /\ BusyIsPlaced /\ BirthOrder /\ CreatorFindsNoneActive
    /\ jobStatus \in [Jobs -> JobStatus] /\ chunks \in [Docs -> Jobs \cup {0}]
    /\ Jobs = Lifecycle!AllJobs
  BY DEF OneJobInv, OneCopyInv, TypeOK, Jobs, Lifecycle!AllJobs
<1> DEFINE d == api[a].doc
<1>1. api[a].pc # "idle" => d \in Docs
  BY DEF BusyIsPlaced
<1>2. CASE ReindexDeleteChunks(a) \/ DeleteDocumentChunks(a)
  <2>1. d \in Docs /\ chunks' = [chunks EXCEPT ![d] = 0] /\ UNCHANGED <<jobStatus, jobDoc>>
    BY <1>1, <1>2 DEF ReindexDeleteChunks, DeleteDocumentChunks, DeleteChunks
  <2>2. Lifecycle!Withdraw(d)
    BY <2>1 DEF Lifecycle!Withdraw
  <2> QED
    BY <2>1, <2>2 DEF Lifecycle!LifecycleNext
<1>3. CASE DeleteJobs(a)
  <2>1. d \in Docs /\ UNCHANGED <<jobDoc, chunks>>
        /\ jobStatus' = [j \in Jobs |-> IF j \in JobsOf(d) THEN "deleted" ELSE jobStatus[j]]
    BY <1>1, <1>3 DEF DeleteJobs
  <2>2. \A j \in Jobs : jobStatus[j] \in LiveJob \/ jobStatus[j] \in {"unborn", "deleted"}
    BY DEF JobStatus
  <2>3. jobStatus' = [j \in Jobs |-> IF jobDoc[j] = d /\ jobStatus[j] # "unborn"
                                     THEN "deleted" ELSE jobStatus[j]]
    BY <2>1, <2>2 DEF JobsOf, JobExists, LiveJob, ActiveJob
  <2>4. Lifecycle!Purge(d)
    BY <2>1, <2>3 DEF Lifecycle!Purge
  <2> QED
    BY <2>1, <2>4 DEF Lifecycle!LifecycleNext
<1>4. CASE CreateJob(a)
  <2>1. chunks' = chunks
    BY <1>4 DEF CreateJob
  <2>2. CASE UNCHANGED <<jobStatus, jobDoc>>
    BY <2>1, <2>2
  <2>3. CASE ~UNCHANGED <<jobStatus, jobDoc>>
    <3>1. PICK j \in Jobs : /\ jobStatus[j] = "unborn"
                            /\ \A k \in Jobs : k < j => jobStatus[k] # "unborn"
                            /\ jobStatus' = [jobStatus EXCEPT ![j] = "pending"]
                            /\ jobDoc' = [jobDoc EXCEPT ![j] = d]
      BY <1>4, <2>3 DEF CreateJob
    <3>2. \A k \in Jobs : jobDoc[k] = d => jobStatus[k] \notin ActiveJob
      BY <1>4 DEF CreateJob, CreatorFindsNoneActive, CreatingPC
    <3>3. Lifecycle!Create(j, d)
      BY <2>1, <3>1, <3>2 DEF Lifecycle!Create, Lifecycle!Open, ActiveJob
    <3>4. d \in Docs
      BY <1>1, <1>4 DEF CreateJob
    <3> QED
      BY <2>1, <3>1, <3>3, <3>4 DEF Lifecycle!LifecycleNext
  <2> QED
    BY <2>2, <2>3
<1>5. CASE ApiRequest(a) \/ ApiFault(a)
  BY <1>5 DEF ApiRequest, SaveFile, RequestReindex, RequestDelete, ApiFault, ApiAborted, EnqueueFails, dbVars
<1>6. CASE CreateDocument(a) \/ AuditUpload(a) \/ Enqueue(a) \/ ReindexResetDocument(a) \/ AuditReindex(a)
           \/ AuditDelete(a) \/ DeleteDocument(a) \/ DeleteFile(a)
  BY <1>6 DEF CreateDocument, AuditUpload, Enqueue, ReindexResetDocument, AuditReindex, AuditDelete,
     DeleteDocument, DeleteFile, RecordAudit, RefreshFails, dbVars
<1> QED
  BY <1>2, <1>3, <1>4, <1>5, <1>6 DEF ApiStep

\* There is no job, run or content at first.
LEMMA LifecycleInit == Init => LifecycleInv /\ Lifecycle!LifecycleInit
<1> SUFFICES ASSUME Init PROVE LifecycleInv /\ Lifecycle!LifecycleInit
  OBVIOUS
<1>1. OneJobInv
  BY OneCopyInit, OneJobInit DEF OneJobInv
<1>2. OneRun
  BY DEF Init, OneRun, OneRunOf, OnQueue, RunningBy, BeingSentBy, IdleWorker, IdleApi
<1>3. RunsOwnJobs /\ RunsServe
  BY DEF Init, RunsOwnJobs, RunsServe, IdleWorker, UnsettledPC, StartedPC
<1>4. Lifecycle!LifecycleInit
  BY DEF Init, Lifecycle!LifecycleInit, Lifecycle!AllJobs, Jobs
<1> QED
  BY <1>1, <1>2, <1>3, <1>4 DEF LifecycleInv

\* LifecycleInv is kept, and the step is one of the lifecycle.
LEMMA LifecycleStep ==
    ASSUME NEW a, ApiProcs = {a}, "node" \notin Faults
    PROVE  LifecycleInv /\ [Next]_vars =>
               LifecycleInv' /\ [Lifecycle!LifecycleNext]_<<jobStatus, jobDoc, chunks>>
<1> SUFFICES ASSUME LifecycleInv, [Next]_vars
             PROVE  LifecycleInv' /\ (Lifecycle!LifecycleNext \/ UNCHANGED <<jobStatus, jobDoc, chunks>>)
  OBVIOUS
<1>1. TypeOK /\ BusyIsPlaced /\ OneCopyInv /\ OneJobInv
  BY DEF LifecycleInv, OneJobInv, OneCopyInv
<1>2. OneJobInv'
  BY <1>1, OneJobStep
<1>3. ASSUME NEW w \in Workers, WorkerStep(w) \/ WorkerFault(w)
      PROVE  LifecycleInv' /\ (Lifecycle!LifecycleNext \/ UNCHANGED <<jobStatus, jobDoc, chunks>>)
  <2>1. RunEffect(w) /\ Progresses(w) /\ ComesFrom(w)
    BY <1>1, <1>3, WorkerStepEffect, WorkerFaultEffect, RunProgress
  <2>2. OneRun' /\ RunsOwnJobs' /\ RunsServe'
    BY <1>1, <2>1, OneRunWorker, OwnJobsWorker, ServeWorker DEF LifecycleInv
  <2> QED
    BY <1>2, <2>1, <2>2, WorkerLifecycle DEF LifecycleInv
<1>4. ASSUME NEW b \in ApiProcs, ApiRequest(b) \/ ApiStep(b) \/ ApiFault(b)
      PROVE  LifecycleInv' /\ (Lifecycle!LifecycleNext \/ UNCHANGED <<jobStatus, jobDoc, chunks>>)
  <2>1. ApiEffect(b)
    BY <1>1, <1>4, ApiRequestEffect, ApiStepEffect, ApiFaultEffect
  <2>2. /\ \A d \in Docs : chunks'[d] \in {chunks[d], 0}
        /\ Lifecycle!LifecycleNext \/ UNCHANGED <<jobStatus, jobDoc, chunks>>
    BY <1>1, <1>4, <2>1, ApiLifecycle
  <2>3. OneRun' /\ RunsOwnJobs' /\ RunsServe'
    BY <1>1, <2>1, <2>2, OneRunApi, OwnJobsApi, ServeApi DEF LifecycleInv
  <2> QED
    BY <1>2, <2>2, <2>3 DEF LifecycleInv
<1>5. CASE UNCHANGED vars
  <2>1. OneRun' /\ RunsOwnJobs' /\ RunsServe'
    BY <1>5 DEF LifecycleInv, OneRun, OneRunOf, OnQueue, RunningBy, BeingSentBy, RunsOwnJobs, RunsServe,
       ServedOrGone, vars, dbVars
  <2> QED
    BY <1>2, <1>5, <2>1 DEF LifecycleInv, vars, dbVars
<1> QED
  BY <1>3, <1>4, <1>5 DEF Next

\* With one API process and no lost worker node, the pipeline keeps the promise of the
\* job lifecycle, whatever else fails: one open job for a document, chunks published by
\* the run of an open job or of a deleted one, and no job that completes over the
\* content of another.
THEOREM LifecycleImplemented ==
    ASSUME NEW a, ApiProcs = {a}, "node" \notin Faults
    PROVE  Spec => ImplementsLifecycle
BY LifecycleInit, LifecycleStep, PTL
DEF Spec, ImplementsLifecycle, Lifecycle!LifecycleSpec, Lifecycle!lifecycleVars

\* A worker fails a document only together with its job.
FailsTogether(w) ==
    /\ worker[w].pc \in {"fail", "failByIds"} /\ JobExists(JobToDo(w)) /\ DocToDo(w) \in Docs
    /\ docStatus' = [docStatus EXCEPT ![DocToDo(w)] = "failed"]
    /\ jobStatus' = [jobStatus EXCEPT ![JobToDo(w)] = "failed"]
FailsNoDocument == \A d \in Docs : docStatus'[d] = "failed" => docStatus[d] = "failed"

\* Every worker step fails both, or no document.
LEMMA WorkerFails ==
    ASSUME LifecycleInv, NEW w \in Workers, WorkerStep(w) \/ WorkerFault(w)
    PROVE  FailsTogether(w) \/ FailsNoDocument
<1> /\ TypeOK /\ BusyIsPlaced /\ BirthOrder /\ docStatus \in [Docs -> DocStatus]
  BY DEF LifecycleInv, OneJobInv, OneCopyInv, TypeOK
<1>1. CASE \/ Receive(w) \/ LoadJob(w) \/ LoadDocument(w) \/ MarkJobProcessing(w) \/ ReadAndEmbed(w)
           \/ ReplaceChunksDelete(w) \/ ReplaceChunksInsert(w) \/ ChunkStorageFails(w) \/ RefreshChunks(w)
           \/ CompleteJob(w) \/ RequestRetryOrFail(w) \/ Acknowledge(w) \/ WorkerFault(w)
  BY <1>1 DEF Receive, LoadJob, LoadDocument, MarkJobProcessing, ReadAndEmbed, ReplaceChunksDelete,
     ReplaceChunksInsert, ChunkStorageFails, RefreshChunks, CompleteJob, RequestRetryOrFail, Acknowledge,
     WorkerFault, TaskAborted, RepublishFails, NodeLost, dbVars, FailsNoDocument
<1>2. CASE MarkDocProcessing(w) \/ IndexDocument(w)
  BY <1>2 DEF MarkDocProcessing, IndexDocument, FailsNoDocument
<1>3. CASE FailIngestion(w) \/ FailIngestionByIds(w)
  <2>1. worker[w].pc \in {"fail", "failByIds"}
    BY <1>3 DEF FailIngestion, FailIngestionByIds
  <2>2. DocToDo(w) \in Docs
    BY <2>1 DEF BusyIsPlaced, BirthOrder, TakenBy, DocToDo
  <2>3. jobStatus[JobToDo(w)] # "failed" /\ worker[w].status # "failed"
    BY <2>1 DEF LifecycleInv, RunsOwnJobs, UnsettledPC, StartedPC, WorkerPC, JobToDo
  <2>4. UNCHANGED docStatus \/ FailsTogether(w)
    BY <1>3, <2>1, <2>2, <2>3 DEF FailIngestion, FailIngestionByIds, FailRows, FailsTogether
  <2> QED
    BY <2>4 DEF FailsNoDocument
<1> QED
  BY <1>1, <1>2, <1>3 DEF WorkerStep

\* The job that fails with its document is the latest; no other run unfails it.
LEMMA FailedWorker ==
    ASSUME LifecycleInv, FailedInv, NEW w \in Workers, WorkerStep(w) \/ WorkerFault(w),
           RunEffect(w), Progresses(w)
    PROVE  FailedInv'
<1> /\ TypeOK /\ BusyIsPlaced /\ BirthOrder /\ RunsOwnJobs /\ ActiveIsLatest /\ CreatorFindsNoneActive
    /\ docStatus \in [Docs -> DocStatus] /\ jobStatus \in [Jobs -> JobStatus]
    /\ jobDoc \in [Jobs -> Docs \cup {NoDoc}]
  BY DEF LifecycleInv, OneJobInv, OneCopyInv, TypeOK
<1>1. jobDoc' = jobDoc /\ api' = api
  BY DEF RunEffect
<1>2. \A k \in Jobs : JobExists(k)' <=> JobExists(k)
  BY WorkerWrites DEF JobExists, LiveJob, ActiveJob
<1>3. \A k \in Jobs, d \in Docs : IsLatest(k, d)' <=> IsLatest(k, d)
  BY <1>1, <1>2 DEF IsLatest, JobsOf
<1>4. \A a \in ApiProcs : api[a].pc \in {"auditUpload", "auditReindex", "createJob"} =>
         api[a].doc \in Docs /\ api[a].pc \in CreatingPC
  BY DEF BusyIsPlaced, CreatingPC, UploadPC, ReindexPC
<1>5. CASE FailsNoDocument
  <2>1. ASSUME NEW k \in Jobs, jobStatus[k] = "failed" PROVE jobStatus'[k] = "failed"
    <3>1. worker[w].pc \in {"markJob", "complete", "fail", "failByIds"} => JobToDo(w) # k
      BY <2>1 DEF RunsOwnJobs, UnsettledPC, StartedPC, WorkerPC, ActiveJob, JobToDo
    <3> QED
      BY <2>1, <3>1 DEF Progresses, StartsJob, PublishesChunks, WritesOutcome
  <2> QED
    BY <1>1, <1>3, <1>4, <1>5, <2>1 DEF FailedInv, FailedDocHasFailedJob, FailsNoDocument
<1>6. CASE FailsTogether(w)
  <2> DEFINE j == JobToDo(w)
             d == DocToDo(w)
  <2>1. /\ j \in Jobs /\ d \in Docs /\ jobDoc[j] = d /\ JobExists(j)
        /\ docStatus' = [docStatus EXCEPT ![d] = "failed"]
        /\ jobStatus' = [jobStatus EXCEPT ![j] = "failed"]
    BY <1>6, BusyJob DEF FailsTogether, JobToDo, DocToDo
  <2>2. jobStatus[j] \in ActiveJob
    BY <1>6, <2>1 DEF FailsTogether, RunsOwnJobs, UnsettledPC, StartedPC, WorkerPC, ActiveJob, JobToDo,
       JobExists, LiveJob
  <2>3. \A k \in Jobs : IsLatest(k, d) => k = j
    <3>1. j \in JobsOf(d) /\ \A k \in JobsOf(d) : k <= j
      BY <2>1, <2>2 DEF JobsOf, ActiveIsLatest
    <3> QED
      BY <3>1 DEF IsLatest, JobsOf, Jobs
  <2>4. ASSUME NEW e \in Docs, NEW k \in Jobs, docStatus'[e] = "failed", IsLatest(k, e)
        PROVE  jobStatus'[k] = "failed"
    BY <2>1, <2>3, <2>4 DEF FailedInv, FailedDocHasFailedJob
  <2>5. ASSUME NEW a \in ApiProcs, api[a].pc \in {"auditUpload", "auditReindex", "createJob"}
        PROVE  docStatus'[api[a].doc] # "failed"
    <3>1. api[a].doc # d
      BY <1>4, <2>1, <2>2, <2>5 DEF CreatorFindsNoneActive
    <3> QED
      BY <1>4, <2>1, <2>5, <3>1 DEF FailedInv
  <2> QED
    BY <1>1, <1>3, <2>4, <2>5 DEF FailedInv, FailedDocHasFailedJob
<1> QED
  BY <1>5, <1>6, WorkerFails

\* A request that goes on to create a job has created or reset its document.
LEMMA ApiFails ==
    ASSUME LifecycleInv, FailedInv, NEW a \in ApiProcs, ApiRequest(a) \/ ApiStep(a) \/ ApiFault(a)
    PROVE  /\ FailsNoDocument
           /\ api'[a].pc \in {"auditUpload", "auditReindex", "createJob"} => docStatus'[api'[a].doc] # "failed"
<1> /\ TypeOK /\ BusyIsPlaced /\ docStatus \in [Docs -> DocStatus]
  BY DEF LifecycleInv, OneJobInv, OneCopyInv, TypeOK
<1> DEFINE Creating == {"auditUpload", "auditReindex", "createJob"}
<1>0. ApiType
  BY DEF TypeOK, ApiType
<1>1. CASE ApiRequest(a)
  BY <1>1, BeginRows DEF FailsNoDocument
<1>2. CASE ApiFault(a)
  BY <1>2, FaultRows DEF FailsNoDocument
<1>3. CASE CreateDocument(a) \/ ReindexResetDocument(a)
  <2>1. api[a].doc \in Docs
    BY <1>3 DEF CreateDocument, ReindexResetDocument, BusyIsPlaced
  <2>2. /\ api'[a].pc \in Creating => api'[a].doc = api[a].doc
        /\ \/ docStatus' = docStatus /\ api'[a].pc \notin Creating
           \/ docStatus' = [docStatus EXCEPT ![api[a].doc] = "uploaded"]
           \/ docStatus' = [docStatus EXCEPT ![api[a].doc] = "processing"]
    BY <1>0, <1>3, ApiGoToEffect, ApiDoneEffect DEF CreateDocument, ReindexResetDocument
  <2> QED
    BY <2>1, <2>2 DEF FailsNoDocument
<1>4. CASE AuditUpload(a) \/ AuditReindex(a)
  <2>1. /\ docStatus' = docStatus /\ api[a].pc \in Creating
        /\ api'[a].pc \in Creating => api'[a].doc = api[a].doc
    BY <1>0, <1>4, ApiGoToEffect, ApiDoneEffect DEF AuditUpload, AuditReindex, RecordAudit, RefreshFails, dbVars
  <2> QED
    BY <2>1 DEF FailedInv, FailsNoDocument
<1>5. CASE DeleteDocument(a)
  BY <1>0, <1>5, ApiGoToEffect, ApiDoneEffect DEF DeleteDocument, FailsNoDocument
<1>6. CASE CreateJob(a)
  <2>1. api'[a].pc \notin Creating
    <3>1. CASE DocExists(api[a].doc)
      <4>1. PICK j \in Jobs : api' = [api EXCEPT ![a] = [@ EXCEPT !.pc = "enqueue", !.job = j]]
        BY <1>6, <3>1 DEF CreateJob
      <4> QED
        BY <1>0, <4>1 DEF ApiType, ApiRecord
    <3>2. CASE ~DocExists(api[a].doc)
      BY <1>0, <1>6, <3>2, ApiDoneEffect DEF CreateJob
    <3> QED
      BY <3>1, <3>2
  <2> QED
    BY <1>6, <2>1 DEF CreateJob, FailsNoDocument
<1>7. CASE ReindexDeleteChunks(a) \/ DeleteDocumentChunks(a)
  BY <1>0, <1>7, ApiGoToEffect DEF ReindexDeleteChunks, DeleteDocumentChunks, DeleteChunks, FailsNoDocument
<1>8. CASE DeleteJobs(a) \/ AuditDelete(a) \/ Enqueue(a) \/ DeleteFile(a)
  BY <1>0, <1>8, ApiGoToEffect, ApiDoneEffect
  DEF DeleteJobs, AuditDelete, RecordAudit, Enqueue, DeleteFile, dbVars, FailsNoDocument
<1> QED
  BY <1>1, <1>2, <1>3, <1>4, <1>5, <1>6, <1>7, <1>8 DEF ApiStep

\* A document gets its next job once it is no longer shown as failed.
LEMMA FailedApi ==
    ASSUME LifecycleInv, FailedInv, NEW a, ApiProcs = {a}, ApiRequest(a) \/ ApiStep(a) \/ ApiFault(a),
           ApiEffect(a)
    PROVE  FailedInv'
<1> /\ TypeOK /\ BusyIsPlaced /\ BirthOrder /\ a \in ApiProcs
    /\ jobStatus \in [Jobs -> JobStatus] /\ jobDoc \in [Jobs -> Docs \cup {NoDoc}]
  BY DEF LifecycleInv, OneJobInv, OneCopyInv, TypeOK
<1>1. /\ FailsNoDocument
      /\ api'[a].pc \in {"auditUpload", "auditReindex", "createJob"} => docStatus'[api'[a].doc] # "failed"
  BY ApiFails
<1>2. SUFFICES ASSUME NEW d \in Docs, NEW j \in Jobs, docStatus'[d] = "failed", IsLatest(j, d)'
               PROVE  jobStatus'[j] = "failed"
  BY <1>1 DEF FailedInv, FailedDocHasFailedJob
<1>3. docStatus[d] = "failed"
  BY <1>1, <1>2 DEF FailsNoDocument
<1>4. CASE KeepsJobs(a) \/ SendsJob(a)
  <2>1. UNCHANGED <<jobStatus, jobDoc>>
    BY <1>4 DEF KeepsJobs, SendsJob
  <2> QED
    BY <1>2, <1>3, <2>1 DEF IsLatest, JobsOf, JobExists, FailedInv, FailedDocHasFailedJob
<1>5. CASE CreatesJob(a)
  <2>1. api[a].doc # d
    BY <1>3, <1>5 DEF CreatesJob, FailedInv
  <2>2. PICK i \in Jobs : /\ jobStatus[i] = "unborn"
                          /\ jobStatus' = [jobStatus EXCEPT ![i] = "pending"]
                          /\ jobDoc' = [jobDoc EXCEPT ![i] = api[a].doc]
    BY <1>5 DEF CreatesJob
  <2>3. JobsOf(d)' = JobsOf(d)
    <3>1. \A k \in Jobs : k \in JobsOf(d)' <=> k \in JobsOf(d)
      <4> SUFFICES ASSUME NEW k \in Jobs PROVE k \in JobsOf(d)' <=> k \in JobsOf(d)
        OBVIOUS
      <4>1. CASE k = i
        BY <2>1, <2>2, <4>1 DEF JobsOf, JobExists, LiveJob, ActiveJob
      <4>2. CASE k # i
        BY <2>2, <4>2 DEF JobsOf, JobExists
      <4> QED
        BY <4>1, <4>2
    <3> QED
      BY <3>1 DEF JobsOf
  <2>4. IsLatest(j, d) /\ j # i
    BY <1>2, <2>1, <2>2, <2>3 DEF IsLatest, JobsOf
  <2> QED
    BY <1>3, <2>2, <2>4 DEF FailedInv, FailedDocHasFailedJob
<1>6. CASE PurgesJobs(a)
  <2>1. /\ jobDoc' = jobDoc
        /\ jobStatus' = [k \in Jobs |-> IF k \in JobsOf(api[a].doc) THEN "deleted" ELSE jobStatus[k]]
    BY <1>6 DEF PurgesJobs
  <2>2. \A k \in Jobs : JobExists(k)' => JobExists(k) /\ k \notin JobsOf(api[a].doc) /\ jobStatus'[k] = jobStatus[k]
    BY <2>1 DEF JobExists, LiveJob, ActiveJob
  <2>3. d # api[a].doc
    BY <1>2, <2>1, <2>2 DEF IsLatest, JobsOf
  <2>4. \A k \in JobsOf(d) : JobExists(k)'
    BY <2>1, <2>3 DEF JobsOf, JobExists
  <2>5. IsLatest(j, d)
    BY <1>2, <2>1, <2>2, <2>4 DEF IsLatest, JobsOf
  <2> QED
    BY <1>2, <1>3, <2>2, <2>5 DEF FailedInv, FailedDocHasFailedJob, IsLatest, JobsOf
<1> QED
  BY <1>4, <1>5, <1>6 DEF ApiEffect

\* With one API process and no lost worker node, a document shown as failed has a
\* failed latest job: neither an older run nor a broken request leaves the failure of
\* one job on a document that has moved on.
THEOREM FailuresAgree ==
    ASSUME NEW a, ApiProcs = {a}, "node" \notin Faults
    PROVE  Spec => []FailedDocHasFailedJob
<1>1. Init => LifecycleInv /\ FailedInv
  BY LifecycleInit DEF Init, FailedInv, FailedDocHasFailedJob, IdleApi
<1>2. LifecycleInv /\ FailedInv /\ [Next]_vars => FailedInv'
  <2> SUFFICES ASSUME LifecycleInv, FailedInv, [Next]_vars PROVE FailedInv'
    OBVIOUS
  <2>1. TypeOK /\ BusyIsPlaced
    BY DEF LifecycleInv, OneJobInv, OneCopyInv
  <2>2. ASSUME NEW w \in Workers, WorkerStep(w) \/ WorkerFault(w) PROVE FailedInv'
    BY <2>1, <2>2, WorkerStepEffect, WorkerFaultEffect, RunProgress, FailedWorker
  <2>3. ASSUME NEW b \in ApiProcs, ApiRequest(b) \/ ApiStep(b) \/ ApiFault(b) PROVE FailedInv'
    <3>1. ApiEffect(b) /\ b = a
      BY <2>1, <2>3, ApiRequestEffect, ApiStepEffect, ApiFaultEffect
    <3> QED
      BY <2>3, <3>1, FailedApi
  <2>4. CASE UNCHANGED vars
    BY <2>4 DEF FailedInv, FailedDocHasFailedJob, IsLatest, JobsOf, JobExists, vars, dbVars
  <2> QED
    BY <2>2, <2>3, <2>4 DEF Next
<1>3. LifecycleInv /\ [Next]_vars => LifecycleInv'
  BY LifecycleStep
<1>4. FailedInv => FailedDocHasFailedJob
  BY DEF FailedInv
<1> QED
  BY <1>1, <1>2, <1>3, <1>4, PTL DEF Spec

-----------------------------------------------------------------------------
(* Completed jobs are served: one API process, and no broken request       *)

LEMMA ServedInit == Init => ServedInv
<1> SUFFICES ASSUME Init PROVE ServedInv
  OBVIOUS
<1>1. \A j \in Jobs : jobStatus[j] = "unborn"
  BY DEF Init
<1>2. \A w \in Workers : worker[w].pc = "idle"
  BY DEF Init, IdleWorker
<1>3. \A a \in ApiProcs : api[a].pc = "idle" /\ api[a].doc = NoDoc
  BY DEF Init, IdleApi
<1> QED
  BY <1>1, <1>2, <1>3 DEF ServedInv, CompletedJobIsServed, RunsHaveChunks, RequestsSettle, Serving,
     CreatingPC, UploadPC, ReindexPC

\* A worker leaves the other runs alone, but for telling those on the same document that
\* its chunk rows are in their way.
LEMMA OtherRuns ==
    ASSUME TypeOK, NEW w \in Workers, WorkerStep(w) \/ WorkerFault(w), NEW x \in Workers \ {w}
    PROVE  \/ worker'[x] = worker[x]
           \/ /\ worker'[x] = [worker[x] EXCEPT !.clear = FALSE]
              /\ ReplaceChunksInsert(w) /\ DocToDo(x) = DocToDo(w)
<1> WorkerType
  BY DEF TypeOK, WorkerType
<1>1. \A label : GoTo(w, label) \/ Finish(w) => worker'[x] = worker[x]
  BY DEF GoTo, Finish, WorkerType
<1>2. CASE ReplaceChunksInsert(w)
  BY <1>2 DEF ReplaceChunksInsert, ReplacingChunks
<1>3. CASE Receive(w) \/ Acknowledge(w) \/ NodeLost(w) \/ ReplaceChunksDelete(w)
  BY <1>3 DEF Receive, Acknowledge, NodeLost, ReplaceChunksDelete, WorkerType
<1>4. CASE LoadJob(w) \/ MarkDocProcessing(w) \/ RefreshChunks(w)
  BY <1>1, <1>4 DEF LoadJob, MarkDocProcessing, RefreshChunks, WorkerType
<1>5. CASE LoadDocument(w) \/ MarkJobProcessing(w) \/ ReadAndEmbed(w) \/ ChunkStorageFails(w) \/ CompleteJob(w)
  BY <1>1, <1>5 DEF LoadDocument, GoToOrFinish, MarkJobProcessing, ReadAndEmbed, ChunkStorageFails, CompleteJob
<1>6. CASE \/ IndexDocument(w) \/ FailIngestion(w) \/ FailIngestionByIds(w) \/ RequestRetryOrFail(w)
           \/ TaskAborted(w) \/ RepublishFails(w)
  BY <1>1, <1>6 DEF IndexDocument, FailIngestion, FailIngestionByIds, FailRows, RequestRetryOrFail,
     TaskAborted, RepublishFails
<1> QED
  BY <1>2, <1>3, <1>4, <1>5, <1>6 DEF WorkerStep, WorkerFault

\* A run about to complete its job was so before, or stores its chunks just now.
LEMMA ServingWorker ==
    ASSUME TypeOK, BusyIsPlaced, NEW w \in Workers, WorkerStep(w) \/ WorkerFault(w), RunEffect(w), NEW x \in Workers,
           Serving(x)'
    PROVE  \/ Serving(x) /\ worker'[x].job = worker[x].job
           \/ x = w /\ PublishesChunks(w)
<1> WorkerType /\ worker[w] \in WorkerRecord /\ worker[x] \in WorkerRecord
  BY DEF TypeOK, WorkerType
<1>1. CASE x # w
  <2>1. SameRun(x)
    BY <1>1 DEF RunEffect, OthersRun
  <2>2. worker'[x] = worker[x] \/ worker'[x].clear = FALSE
    BY <1>1, OtherRuns DEF WorkerRecord
  <2> QED
    BY <2>1, <2>2 DEF Serving, SameRun
<1>2. CASE x = w
  <2>1. worker'[w].pc \in {"refresh", "complete"} /\ ComesFrom(w)
    BY <1>2, RunProgress DEF Serving
  <2>2. worker[w].pc = "refresh" \/ PublishesChunks(w)
    BY <2>1 DEF ComesFrom
  <2>3. ASSUME worker[w].pc = "refresh" PROVE Serving(w) /\ worker'[w].job = worker[w].job
    <3>1. RefreshChunks(w) \/ TaskAborted(w) \/ NodeLost(w)
      <4>1. ~(Receive(w) \/ LoadJob(w) \/ LoadDocument(w) \/ MarkJobProcessing(w) \/ MarkDocProcessing(w))
        BY <2>3 DEF Receive, LoadJob, LoadDocument, MarkJobProcessing, MarkDocProcessing
      <4>2. ~(ReadAndEmbed(w) \/ ReplaceChunksDelete(w) \/ ReplaceChunksInsert(w) \/ ChunkStorageFails(w))
        BY <2>3 DEF ReadAndEmbed, ReplaceChunksDelete, ReplaceChunksInsert, ChunkStorageFails
      <4>3. ~(CompleteJob(w) \/ IndexDocument(w) \/ FailIngestion(w) \/ FailIngestionByIds(w))
        BY <2>3 DEF CompleteJob, IndexDocument, FailIngestion, FailIngestionByIds
      <4>4. ~(RequestRetryOrFail(w) \/ Acknowledge(w) \/ RepublishFails(w))
        BY <2>3 DEF RequestRetryOrFail, Acknowledge, RepublishFails
      <4> QED
        BY <4>1, <4>2, <4>3, <4>4 DEF WorkerStep, WorkerFault
    <3>2. ~Finish(w) /\ ~NodeLost(w)
      <4>1. Finish(w) => worker'[w].pc = "ack"
        BY FinishEffect
      <4>2. NodeLost(w) => worker'[w].pc = "idle"
        BY DEF NodeLost, IdleWorker, WorkerType
      <4> QED
        BY <2>1, <4>1, <4>2
    <3>3. RefreshChunks(w)
      BY <3>1, <3>2 DEF TaskAborted
    <3>4. \/ worker[w].clear /\ GoTo(w, "complete")
          \/ worker' = [worker EXCEPT ![w] = [@ EXCEPT !.pc = "fail", !.status = jobStatus[JobToDo(w)]]]
      BY <3>2, <3>3 DEF RefreshChunks
    <3>5. worker[w].clear /\ GoTo(w, "complete")
      <4>1. ASSUME worker' = [worker EXCEPT ![w] = [@ EXCEPT !.pc = "fail", !.status = jobStatus[JobToDo(w)]]]
            PROVE  worker'[w].pc = "fail"
        BY <4>1 DEF WorkerType, WorkerRecord
      <4> QED
        BY <2>1, <3>4, <4>1
    <3> QED
      BY <2>3, <3>5, GoToEffect DEF Serving, SameMessage
  <2> QED
    BY <1>2, <2>2, <2>3
<1> QED
  BY <1>1, <1>2

\* A worker completes a job only with its chunks stored, and withdraws none.
LEMMA ServedWorker ==
    ASSUME OneCopyInv, ServedInv, NEW w \in Workers, WorkerStep(w) \/ WorkerFault(w), RunEffect(w)
    PROVE  ServedInv'
<1> /\ TypeOK /\ BusyIsPlaced /\ BirthOrder /\ PendingHasOneCopy
    /\ docStatus \in [Docs -> DocStatus] /\ jobStatus \in [Jobs -> JobStatus]
    /\ jobDoc \in [Jobs -> Docs \cup {NoDoc}] /\ chunks \in [Docs -> Jobs \cup {0}]
  BY DEF OneCopyInv, TypeOK
<1>1. jobDoc' = jobDoc /\ api' = api
  BY DEF RunEffect
<1>2. \A k \in Jobs : JobExists(k)' <=> JobExists(k)
  BY WorkerWrites DEF JobExists, LiveJob, ActiveJob
<1>3. /\ \A d \in Docs : JobsOf(d)' = JobsOf(d)
      /\ \A k \in Jobs, d \in Docs : IsLatest(k, d)' <=> IsLatest(k, d)
  BY <1>1, <1>2 DEF IsLatest, JobsOf
<1>4. \A d \in Docs : ApiOn(d)' <=> ApiOn(d)
  BY <1>1 DEF ApiOn
<1>5. Progresses(w)
  BY RunProgress
<1>6. \A d \in Docs : chunks[d] # 0 => chunks'[d] # 0
  BY WorkerRows DEF Jobs
<1>7. worker[w].pc # "idle" => JobToDo(w) \in Jobs /\ DocToDo(w) \in Docs
  BY DEF BusyIsPlaced, BirthOrder, TakenBy, JobToDo, DocToDo
<1>8. CompletedJobIsServed'
  <2> SUFFICES ASSUME NEW d \in Docs, NEW j \in Jobs, IsLatest(j, d), jobStatus'[j] = "completed", ~ApiOn(d)
               PROVE  chunks'[d] # 0
    BY <1>3, <1>4 DEF CompletedJobIsServed
  <2>1. CASE jobStatus[j] = "completed"
    BY <1>6, <2>1 DEF ServedInv, CompletedJobIsServed
  <2>2. CASE jobStatus[j] # "completed"
    <3>1. worker[w].pc = "complete" /\ JobToDo(w) = j
      BY <1>5, <1>7, <2>2 DEF Progresses, StartsJob, PublishesChunks, WritesOutcome
    <3> QED
      BY <1>6, <3>1 DEF ServedInv, RunsHaveChunks, Serving, JobToDo
  <2> QED
    BY <2>1, <2>2
<1>9. RunsHaveChunks'
  <2> SUFFICES ASSUME NEW x \in Workers, NEW d \in Docs, NEW k \in Jobs,
                      Serving(x)', worker'[x].job = k, IsLatest(k, d), ~ApiOn(d)
               PROVE  chunks'[d] # 0
    BY <1>3, <1>4 DEF RunsHaveChunks, IsLatest, JobsOf
  <2>2. CASE Serving(x) /\ worker'[x].job = worker[x].job
    BY <1>6, <2>2 DEF ServedInv, RunsHaveChunks
  <2>3. CASE x = w /\ PublishesChunks(w)
    <3>1. JobToDo(w) \in Jobs /\ DocToDo(w) \in Docs /\ worker'[w].job = JobToDo(w)
      BY <1>7, <2>3 DEF PublishesChunks, RunEffect, Moves, Continues, Takes, Drops, GivesBack, Republishes,
         SameMessage, JobToDo
    <3>2. DocToDo(w) = d /\ JobToDo(w) # 0
      BY <2>3, <3>1 DEF IsLatest, JobsOf, DocToDo, JobToDo, Jobs
    <3> QED
      BY <2>3, <3>1, <3>2 DEF PublishesChunks
  <2> QED
    BY <2>2, <2>3, ServingWorker
<1>10. RequestsSettle'
  <2> SUFFICES ASSUME NEW a \in ApiProcs, NEW d, d = api[a].doc, NEW k, k = api[a].job
               PROVE  /\ api[a].pc = "idle" => d = NoDoc
                      /\ api[a].pc \in CreatingPC \ {"createDoc"} => DocExists(d)'
                      /\ api[a].pc \in {"auditDelete", "delDoc", "delFile"} => JobsOf(d)' = {}
                      /\ api[a].pc = "enqueue" => IsLatest(k, d)' /\ jobStatus'[k] = "pending"
    BY <1>1 DEF RequestsSettle, DocExists, JobsOf, JobExists, IsLatest
  <2>1. /\ api[a].pc # "idle" => d \in Docs
        /\ api[a].pc = "enqueue" => k \in Jobs
    BY DEF BusyIsPlaced
  <2>2. \A e \in Docs : DocExists(e) => DocExists(e)'
    BY DEF RunEffect, WritesDocs, DocExists
  <2>3. ASSUME api[a].pc = "enqueue" PROVE IsLatest(k, d)' /\ jobStatus'[k] = "pending"
    <3>1. k \in Jobs /\ jobStatus[k] = "pending" /\ IsLatest(k, d)
      BY <2>1, <2>3 DEF ServedInv, RequestsSettle
    <3>2. ~TakenBy(w, k)
      BY <2>3, <3>1 DEF PendingHasOneCopy, NoSecondCopy, BeingSentBy
    <3>3. worker[w].pc # "idle" => JobToDo(w) # k
      BY <3>2 DEF TakenBy, JobToDo
    <3>4. jobStatus'[k] = jobStatus[k]
      BY <3>1, <3>3, WorkerWrites DEF StartedPC
    <3> QED
      BY <1>3, <2>1, <2>3, <3>1, <3>4
  <2>4. "idle" \notin CreatingPC
    BY DEF CreatingPC, UploadPC, ReindexPC
  <2> QED
    BY <1>3, <2>1, <2>2, <2>3, <2>4 DEF ServedInv, RequestsSettle
<1> QED
  BY <1>8, <1>9, <1>10 DEF ServedInv

\* A request that ends has sent its message, or has left no job of its document.
LEMMA RequestEnds ==
    ASSUME TypeOK, BusyIsPlaced, RequestsSettle, "api" \notin Faults,
           NEW a \in ApiProcs, ApiStep(a) \/ ApiFault(a), api'[a].pc = "idle"
    PROVE  /\ UNCHANGED <<jobStatus, jobDoc>> /\ api'[a].doc = NoDoc
           /\ api[a].pc = "enqueue" \/ JobsOf(api[a].doc) = {}
<1>0. ApiType
  BY DEF TypeOK, ApiType
<1>1. \A label : ApiGoTo(a, label) => label = "idle"
  BY <1>0, ApiGoToEffect
<1>2. ApiDone(a) => api'[a].doc = NoDoc
  BY <1>0 DEF ApiDone, IdleApi, ApiType
<1>3. api[a].pc \in {"auditUpload", "resetDoc", "auditReindex", "createJob"} => DocExists(api[a].doc)
  BY DEF RequestsSettle, CreatingPC, UploadPC, ReindexPC
<1>4. ~(CreateDocument(a) \/ ReindexDeleteChunks(a) \/ DeleteDocumentChunks(a) \/ DeleteJobs(a))
  BY <1>1 DEF CreateDocument, ReindexDeleteChunks, DeleteDocumentChunks, DeleteChunks, DeleteJobs
<1>5. ~(AuditUpload(a) \/ AuditReindex(a) \/ ReindexResetDocument(a))
  BY <1>1, <1>3 DEF AuditUpload, AuditReindex, RecordAudit, RefreshFails, ReindexResetDocument
<1>6. ~CreateJob(a)
  <2> SUFFICES ASSUME CreateJob(a) PROVE FALSE
    OBVIOUS
  <2>1. PICK j \in Jobs : api' = [api EXCEPT ![a] = [@ EXCEPT !.pc = "enqueue", !.job = j]]
    BY <1>3 DEF CreateJob
  <2> QED
    BY <1>0, <2>1 DEF ApiType, ApiRecord
<1>7. CASE Enqueue(a) \/ EnqueueFails(a)
  BY <1>2, <1>7 DEF Enqueue, EnqueueFails, dbVars
<1>8. CASE AuditDelete(a)
  BY <1>1, <1>2, <1>8 DEF AuditDelete, RecordAudit, dbVars, RequestsSettle
<1>9. CASE DeleteDocument(a)
  BY <1>1, <1>2, <1>9 DEF DeleteDocument, RequestsSettle
<1>10. CASE DeleteFile(a)
  BY <1>2, <1>10 DEF DeleteFile, dbVars, RequestsSettle
<1>11. ~ApiAborted(a)
  BY DEF ApiAborted, Fault
<1> QED
  BY <1>4, <1>5, <1>6, <1>7, <1>8, <1>9, <1>10, <1>11 DEF ApiStep, ApiFault

\* The job a request creates is the latest of its document; the jobs it deletes are all.
LEMMA SettleApi ==
    ASSUME OneCopyInv, RequestsSettle, "api" \notin Faults, NEW a, ApiProcs = {a},
           ApiRequest(a) \/ ApiStep(a) \/ ApiFault(a)
    PROVE  RequestsSettle'
<1> /\ TypeOK /\ BusyIsPlaced /\ BirthOrder /\ a \in ApiProcs /\ ApiType
    /\ docStatus \in [Docs -> DocStatus] /\ jobStatus \in [Jobs -> JobStatus]
    /\ jobDoc \in [Jobs -> Docs \cup {NoDoc}]
  BY DEF OneCopyInv, TypeOK, ApiType
<1>0. CreatingPC \ {"createDoc"} = {"auditUpload", "reChunks", "resetDoc", "auditReindex", "createJob"}
  BY DEF CreatingPC, UploadPC, ReindexPC
<1>1. CASE ApiRequest(a)
  BY <1>0, <1>1, BeginRows DEF RequestsSettle, DocExists
<1>2. CASE api'[a].pc = "idle" /\ (ApiStep(a) \/ ApiFault(a))
  BY <1>0, <1>2, RequestEnds DEF RequestsSettle
<1>3. CASE ApiStep(a) /\ api'[a].pc # "idle"
  <2>1. ~ApiDone(a) /\ api'[a].doc = api[a].doc
    BY <1>3, ApiDoneEffect, ApiRows
  <2>2. PICK d : d = api[a].doc
    OBVIOUS
  <2>3. api[a].pc # "idle" => d \in Docs
    BY <2>2 DEF BusyIsPlaced
  <2>4. \A label : ApiGoTo(a, label) => api'[a].pc = label
    BY ApiGoToEffect
  <2>5. CASE CreateDocument(a) \/ ReindexResetDocument(a)
    <3>1. DocExists(d)' /\ api'[a].pc \in {"auditUpload", "auditReindex"}
      BY <2>1, <2>2, <2>3, <2>4, <2>5 DEF CreateDocument, ReindexResetDocument, DocExists, LiveDoc
    <3> QED
      BY <2>1, <2>2, <3>1 DEF RequestsSettle, DocExists
  <2>6. CASE AuditUpload(a) \/ AuditReindex(a)
    <3>1. docStatus' = docStatus /\ api'[a].pc = "createJob" /\ DocExists(d)
      BY <1>0, <2>1, <2>2, <2>4, <2>6 DEF AuditUpload, AuditReindex, RecordAudit, RefreshFails, RequestsSettle
    <3> QED
      BY <2>1, <2>2, <3>1 DEF RequestsSettle, DocExists
  <2>7. CASE ReindexDeleteChunks(a) \/ DeleteDocumentChunks(a)
    <3>1. docStatus' = docStatus /\ (api'[a].pc = "delJobs" \/ (api'[a].pc = "resetDoc" /\ DocExists(d)))
      BY <1>0, <2>2, <2>4, <2>7 DEF ReindexDeleteChunks, DeleteDocumentChunks, DeleteChunks, RequestsSettle
    <3> QED
      BY <1>0, <2>1, <2>2, <3>1 DEF RequestsSettle, DocExists
  <2>8. CASE CreateJob(a)
    <3>1. DocExists(d) /\ d \in Docs
      BY <2>1, <2>2, <2>3, <2>8 DEF CreateJob
    <3>2. PICK j \in Jobs :
             /\ jobStatus[j] = "unborn" /\ \A k \in Jobs : k < j => jobStatus[k] # "unborn"
             /\ jobStatus' = [jobStatus EXCEPT ![j] = "pending"] /\ jobDoc' = [jobDoc EXCEPT ![j] = d]
             /\ api' = [api EXCEPT ![a] = [@ EXCEPT !.pc = "enqueue", !.job = j]]
      BY <2>2, <2>8, <3>1 DEF CreateJob
    <3>3. api'[a].pc = "enqueue" /\ api'[a].job = j
      BY <3>2 DEF ApiType, ApiRecord
    <3>4. \A k \in Jobs : JobExists(k)' => k <= j
      BY <3>2 DEF BirthOrder, JobExists, LiveJob, ActiveJob, Jobs
    <3>5. IsLatest(j, d)' /\ jobStatus'[j] = "pending"
      BY <3>2, <3>4 DEF IsLatest, JobsOf, JobExists, LiveJob, ActiveJob
    <3> QED
      BY <1>0, <2>1, <2>2, <3>3, <3>5 DEF RequestsSettle, IsLatest, JobsOf, JobExists
  <2>9. CASE DeleteJobs(a) \/ AuditDelete(a) \/ DeleteDocument(a)
    <3>1. JobsOf(d)' = {}
      <4>1. CASE DeleteJobs(a)
        BY <2>2, <4>1 DEF DeleteJobs, JobsOf, JobExists, LiveJob, ActiveJob
      <4>2. CASE AuditDelete(a) \/ DeleteDocument(a)
        BY <2>1, <2>2, <4>2 DEF AuditDelete, RecordAudit, DeleteDocument, RequestsSettle, JobsOf, JobExists, dbVars
      <4> QED
        BY <2>9, <4>1, <4>2
    <3>2. api'[a].pc \in {"auditDelete", "delDoc", "delFile"}
      BY <2>1, <2>4, <2>9 DEF DeleteJobs, AuditDelete, RecordAudit, DeleteDocument
    <3> QED
      BY <1>0, <2>1, <2>2, <3>1, <3>2 DEF RequestsSettle, JobsOf, JobExists
  <2>10. ~(Enqueue(a) \/ DeleteFile(a))
    BY <2>1 DEF Enqueue, DeleteFile
  <2> QED
    BY <1>3, <2>5, <2>6, <2>7, <2>8, <2>9, <2>10 DEF ApiStep
<1> QED
  BY <1>1, <1>2, <1>3, FaultRows

\* A request touches the chunk rows and the jobs of its own document only.
LEMMA OtherDocuments ==
    ASSUME OneCopyInv, NEW a \in ApiProcs, ApiRequest(a) \/ ApiStep(a) \/ ApiFault(a), ApiEffect(a),
           NEW d \in Docs, d # api[a].doc
    PROVE  /\ chunks'[d] = chunks[d] /\ JobsOf(d)' = JobsOf(d)
           /\ \A k \in JobsOf(d) : jobStatus'[k] = jobStatus[k]
<1> /\ TypeOK /\ BusyIsPlaced /\ BirthOrder
    /\ jobStatus \in [Jobs -> JobStatus] /\ jobDoc \in [Jobs -> Docs \cup {NoDoc}]
    /\ chunks \in [Docs -> Jobs \cup {0}]
  BY DEF OneCopyInv, TypeOK
<1>1. chunks'[d] = chunks[d]
  BY BeginRows, FaultRows, ApiRows
  DEF CreatesDocument, ResetsDocument, WithdrawsChunks, DeletesDocument, KeepsDocuments
<1>2. CASE KeepsJobs(a) \/ SendsJob(a)
  BY <1>1, <1>2 DEF KeepsJobs, SendsJob, JobsOf, JobExists
<1>3. CASE CreatesJob(a)
  <2>1. PICK i \in Jobs : /\ jobStatus[i] = "unborn"
                          /\ jobStatus' = [jobStatus EXCEPT ![i] = "pending"]
                          /\ jobDoc' = [jobDoc EXCEPT ![i] = api[a].doc]
    BY <1>3 DEF CreatesJob
  <2>2. \A k \in Jobs : k # i => jobStatus'[k] = jobStatus[k] /\ jobDoc'[k] = jobDoc[k]
    BY <2>1
  <2>3. i \notin JobsOf(d) /\ jobDoc'[i] # d
    BY <2>1 DEF JobsOf, JobExists, LiveJob, ActiveJob
  <2>4. \A k \in Jobs : k \in JobsOf(d)' <=> k \in JobsOf(d)
    BY <2>2, <2>3 DEF JobsOf, JobExists
  <2> QED
    BY <1>1, <2>2, <2>3, <2>4 DEF JobsOf
<1>4. CASE PurgesJobs(a)
  <2>1. /\ jobDoc' = jobDoc
        /\ jobStatus' = [k \in Jobs |-> IF k \in JobsOf(api[a].doc) THEN "deleted" ELSE jobStatus[k]]
    BY <1>4 DEF PurgesJobs
  <2>2. \A k \in Jobs : jobDoc[k] = d => jobStatus'[k] = jobStatus[k]
    BY <2>1 DEF JobsOf
  <2> QED
    BY <1>1, <2>1, <2>2 DEF JobsOf, JobExists
<1> QED
  BY <1>2, <1>3, <1>4 DEF ApiEffect

\* A request that withdraws chunks tells the runs that replace them so: the rows are no
\* longer in the way of an INSERT, or those inserted are gone.
LEMMA RunsMeetRequest ==
    ASSUME TypeOK, NEW a \in ApiProcs, ApiRequest(a) \/ ApiStep(a) \/ ApiFault(a), NEW x \in Workers
    PROVE  \/ worker'[x] = worker[x]
           \/ worker'[x] = [worker[x] EXCEPT !.clear = (worker[x].pc = "replInsert")]
<1>1. CASE ReindexDeleteChunks(a) \/ DeleteDocumentChunks(a)
  BY <1>1 DEF ReindexDeleteChunks, DeleteDocumentChunks, DeleteChunks
<1>2. CASE ApiRequest(a) \/ ApiFault(a)
  BY <1>2 DEF ApiRequest, SaveFile, RequestReindex, RequestDelete, ApiFault, ApiAborted, EnqueueFails
<1> QED
  BY <1>1, <1>2 DEF ApiStep, CreateDocument, AuditUpload, RecordAudit, RefreshFails, CreateJob, Enqueue,
     ReindexResetDocument, AuditReindex, DeleteJobs, AuditDelete, DeleteDocument, DeleteFile

\* A request never tells a run that its chunks are still there.
LEMMA ServingApi ==
    ASSUME TypeOK, NEW a \in ApiProcs, ApiRequest(a) \/ ApiStep(a) \/ ApiFault(a), ApiEffect(a),
           NEW x \in Workers, Serving(x)'
    PROVE  Serving(x) /\ worker'[x].job = worker[x].job
<1>1. SameRun(x) /\ worker[x] \in WorkerRecord
  BY DEF ApiEffect, AllRunsSame, TypeOK
<1>2. worker'[x].clear => worker[x].clear \/ worker[x].pc = "replInsert"
  BY <1>1, RunsMeetRequest DEF WorkerRecord
<1> QED
  BY <1>1, <1>2 DEF Serving, SameRun

\* The only documents whose requests have ended have no job, or one just created.
LEMMA ServedApi ==
    ASSUME OneCopyInv, ServedInv, "api" \notin Faults, NEW a, ApiProcs = {a},
           ApiRequest(a) \/ ApiStep(a) \/ ApiFault(a), ApiEffect(a)
    PROVE  ServedInv'
<1> /\ TypeOK /\ BusyIsPlaced /\ PendingHasOneCopy /\ RequestsSettle /\ a \in ApiProcs
  BY DEF OneCopyInv, ServedInv
<1>1. ASSUME NEW d \in Docs, NEW k \in Jobs, IsLatest(k, d)', api'[a].doc # d, api[a].doc = d
      PROVE  jobStatus'[k] = "pending" /\ \A x \in Workers : ~TakenBy(x, k)
  <2>1. api[a].pc # "idle"
    BY <1>1, DocsAssumption DEF RequestsSettle
  <2>2. (ApiStep(a) \/ ApiFault(a)) /\ api'[a].pc = "idle"
    BY <1>1, <2>1, BeginRows, ApiRows, FaultRows
  <2>3. UNCHANGED <<jobStatus, jobDoc>> /\ (api[a].pc = "enqueue" \/ JobsOf(d) = {})
    BY <1>1, <2>2, RequestEnds
  <2>4. IsLatest(k, d)
    BY <1>1, <2>3 DEF IsLatest, JobsOf, JobExists
  <2>5. api[a].pc = "enqueue"
    BY <2>3, <2>4 DEF IsLatest
  <2>6. PICK j \in Jobs : j = api[a].job /\ IsLatest(j, d) /\ jobStatus[j] = "pending"
    BY <1>1, <2>5 DEF RequestsSettle, BusyIsPlaced
  <2>7. k = j
    BY <2>4, <2>6 DEF IsLatest, Jobs
  <2> QED
    BY <2>3, <2>5, <2>6, <2>7 DEF PendingHasOneCopy, NoSecondCopy, BeingSentBy
<1>2. ASSUME NEW d \in Docs, NEW k \in Jobs, IsLatest(k, d)', api[a].doc # d
      PROVE  /\ IsLatest(k, d) /\ ~ApiOn(d) /\ jobStatus'[k] = jobStatus[k]
             /\ chunks'[d] = chunks[d]
  BY <1>2, OtherDocuments DEF IsLatest, ApiOn
<1>3. CompletedJobIsServed'
  <2> SUFFICES ASSUME NEW d \in Docs, NEW k \in Jobs, IsLatest(k, d)', jobStatus'[k] = "completed", api'[a].doc # d
               PROVE  chunks'[d] # 0
    BY DEF CompletedJobIsServed, ApiOn
  <2> QED
    BY <1>1, <1>2 DEF ServedInv, CompletedJobIsServed
<1>4. RunsHaveChunks'
  <2> SUFFICES ASSUME NEW x \in Workers, NEW d \in Docs, NEW k \in Jobs, Serving(x)', worker'[x].job = k,
                      IsLatest(k, d)', api'[a].doc # d
               PROVE  chunks'[d] # 0
    BY DEF RunsHaveChunks, ApiOn, IsLatest, JobsOf, JobExists
  <2>1. Serving(x) /\ worker[x].job = k
    BY ServingApi
  <2>2. TakenBy(x, k)
    BY <2>1 DEF Serving, TakenBy
  <2> QED
    BY <1>1, <1>2, <2>1, <2>2 DEF ServedInv, RunsHaveChunks
<1> QED
  BY <1>3, <1>4, SettleApi DEF ServedInv

\* With one API process that is not cut short in a request, a document whose latest job
\* has completed has chunks for retrieval, whatever workers, nodes, broker and storage do.
THEOREM CompletedJobsAreServed ==
    ASSUME NEW a, ApiProcs = {a}, "api" \notin Faults
    PROVE  Spec => []CompletedJobIsServed
<1>1. OneCopyInv /\ ServedInv /\ [Next]_vars => ServedInv'
  <2> SUFFICES ASSUME OneCopyInv, ServedInv, [Next]_vars PROVE ServedInv'
    OBVIOUS
  <2>1. TypeOK /\ BusyIsPlaced
    BY DEF OneCopyInv
  <2>2. ASSUME NEW w \in Workers, WorkerStep(w) \/ WorkerFault(w) PROVE ServedInv'
    BY <2>1, <2>2, WorkerStepEffect, WorkerFaultEffect, ServedWorker
  <2>3. ASSUME NEW b \in ApiProcs, ApiRequest(b) \/ ApiStep(b) \/ ApiFault(b) PROVE ServedInv'
    <3>1. ApiEffect(b) /\ b = a
      BY <2>1, <2>3, ApiRequestEffect, ApiStepEffect, ApiFaultEffect
    <3> QED
      BY <2>3, <3>1, ServedApi
  <2>4. CASE UNCHANGED vars
    BY <2>4 DEF ServedInv, CompletedJobIsServed, RunsHaveChunks, RequestsSettle, Serving, ApiOn, DocExists,
       IsLatest, JobsOf, JobExists, vars, dbVars
  <2> QED
    BY <2>2, <2>3, <2>4 DEF Next
<1> QED
  BY <1>1, ServedInit, OneCopyHolds, PTL DEF Spec, ServedInv

-----------------------------------------------------------------------------
(* Attempts are bounded: no lost node                                      *)

\* The attempt a run has written: one more than it loaded.
CountsAttempt(w) ==
    /\ worker[w].pc = "markJob" /\ worker'[w].pc = "markDoc"
    /\ attempts' = [attempts EXCEPT ![JobToDo(w)] = worker[w].attempt + 1]

\* What a worker does to attempts, and to the attempt a run has loaded.
LEMMA AttemptsWritten ==
    ASSUME TypeOK, BusyIsPlaced, NEW w \in Workers, WorkerStep(w) \/ WorkerFault(w)
    PROVE  /\ \A x \in Workers \ {w} : worker'[x].attempt = worker[x].attempt
           /\ worker'[w].pc = "loadJob" => worker[w].pc = "idle"
           /\ worker'[w].pc = "loadDoc" =>
                 worker[w].pc = "loadJob" /\ worker'[w].attempt = attempts[JobToDo(w)]
           /\ worker'[w].pc = "markJob" => worker[w].pc = "loadDoc" /\ worker'[w].attempt = worker[w].attempt
           /\ \/ CountsAttempt(w)
              \/ attempts' = attempts /\ (worker'[w].pc \in UnsettledPC => worker[w].pc \in UnsettledPC)
<1> WorkerType /\ worker[w] \in WorkerRecord
  BY DEF TypeOK, WorkerType
<1>0. UnsettledPC = {"markDoc", "work", "replDelete", "replInsert", "refresh", "complete",
                     "fail", "retry", "failByIds"}
  BY DEF UnsettledPC, StartedPC, WorkerPC
<1>a. ASSUME Finish(w), attempts' = attempts
      PROVE  /\ worker'[w].pc = "ack" /\ attempts' = attempts
             /\ \A x \in Workers \ {w} : worker'[x].attempt = worker[x].attempt
  BY <1>a, FinishEffect DEF Finish, WorkerType
<1>b. ASSUME NEW label, GoTo(w, label)
      PROVE  /\ worker'[w].pc = label /\ worker'[w].attempt = worker[w].attempt
             /\ \A x \in Workers \ {w} : worker'[x].attempt = worker[x].attempt
  BY <1>b DEF GoTo, WorkerType, WorkerRecord
<1>1. CASE Receive(w) \/ Acknowledge(w) \/ NodeLost(w)
  <2>1. /\ attempts' = attempts
        /\ \E r \in WorkerRecord : worker' = [worker EXCEPT ![w] = r]
        /\ worker'[w].pc = "idle" \/ (worker'[w].pc = "loadJob" /\ worker[w].pc = "idle")
    <3>1. CASE Receive(w)
      <4>1. PICK j \in Jobs, r \in Retries :
               worker' = [worker EXCEPT ![w] = [IdleWorker EXCEPT !.pc = "loadJob", !.job = j, !.retries = r]]
        BY <3>1 DEF Receive
      <4>2. /\ [IdleWorker EXCEPT !.pc = "loadJob", !.job = j, !.retries = r] \in WorkerRecord
            /\ [IdleWorker EXCEPT !.pc = "loadJob", !.job = j, !.retries = r].pc = "loadJob"
        BY IdleTypes DEF IdleWorker, WorkerRecord, WorkerPC
      <4> QED
        BY <3>1, <4>1, <4>2 DEF Receive, WorkerType, dbVars
    <3>2. CASE Acknowledge(w) \/ NodeLost(w)
      <4>1. worker' = [worker EXCEPT ![w] = IdleWorker] /\ attempts' = attempts
        BY <3>2 DEF Acknowledge, NodeLost, dbVars
      <4>2. IdleWorker.pc = "idle"
        BY DEF IdleWorker
      <4> QED
        BY <4>1, <4>2, IdleTypes DEF WorkerType
    <3> QED
      BY <1>1, <3>1, <3>2
  <2> QED
    BY <1>0, <2>1 DEF WorkerType
<1>2. CASE LoadJob(w)
  <2>1. ASSUME worker' = [worker EXCEPT ![w] = [@ EXCEPT !.pc = "loadDoc", !.status = jobStatus[JobToDo(w)],
                                                         !.attempt = attempts[JobToDo(w)]]]
        PROVE  /\ worker'[w].pc = "loadDoc" /\ worker'[w].attempt = attempts[JobToDo(w)]
               /\ \A x \in Workers \ {w} : worker'[x].attempt = worker[x].attempt
    BY <2>1 DEF WorkerType, WorkerRecord
  <2> QED
    BY <1>0, <1>2, <1>a, <2>1 DEF LoadJob, dbVars
<1>3. CASE LoadDocument(w)
  BY <1>0, <1>3, <1>a, <1>b DEF LoadDocument, GoToOrFinish, dbVars
<1>4. CASE MarkJobProcessing(w)
  BY <1>0, <1>4, <1>a, <1>b DEF MarkJobProcessing, CountsAttempt
<1>5. CASE MarkDocProcessing(w)
  <2>1. ASSUME worker' = [worker EXCEPT ![w] = [@ EXCEPT !.pc = "work", !.status = jobStatus[JobToDo(w)]]]
        PROVE  /\ worker'[w].pc = "work"
               /\ \A x \in Workers \ {w} : worker'[x].attempt = worker[x].attempt
    BY <2>1 DEF WorkerType, WorkerRecord
  <2>2. Finish(w) \/ worker' = [worker EXCEPT ![w] = [@ EXCEPT !.pc = "work", !.status = jobStatus[JobToDo(w)]]]
    BY <1>5 DEF MarkDocProcessing
  <2>3. attempts' = attempts /\ worker[w].pc = "markDoc"
    BY <1>5 DEF MarkDocProcessing
  <2> QED
    BY <1>0, <1>a, <2>1, <2>2, <2>3
<1>6. CASE ReadAndEmbed(w) \/ ChunkStorageFails(w) \/ RequestRetryOrFail(w) \/ CompleteJob(w)
  BY <1>0, <1>6, <1>a, <1>b DEF ReadAndEmbed, ChunkStorageFails, RequestRetryOrFail, CompleteJob, dbVars
<1>7. CASE ReplaceChunksDelete(w) \/ ReplaceChunksInsert(w)
  <2>1. /\ attempts' = attempts /\ worker[w].pc \in UnsettledPC
        /\ worker'[w].pc \in {"replInsert", "refresh"}
    <3>1. CASE ReplaceChunksDelete(w)
      BY <1>0, <3>1 DEF ReplaceChunksDelete, WorkerType, WorkerRecord, dbVars
    <3>2. CASE ReplaceChunksInsert(w)
      <4>1. worker'[w] = [worker[w] EXCEPT !.pc = "refresh"] /\ attempts' = attempts /\ worker[w].pc = "replInsert"
        BY <3>2 DEF ReplaceChunksInsert
      <4> QED
        BY <1>0, <4>1 DEF WorkerRecord
    <3> QED
      BY <1>7, <3>1, <3>2
  <2>2. ASSUME NEW x \in Workers \ {w} PROVE worker'[x].attempt = worker[x].attempt
    <3>1. worker'[x] = worker[x] \/ worker'[x] = [worker[x] EXCEPT !.clear = FALSE]
      BY <1>7 DEF ReplaceChunksDelete, ReplaceChunksInsert, WorkerType
    <3> QED
      BY <3>1 DEF WorkerType, WorkerRecord
  <2> QED
    BY <2>1, <2>2
<1>8. CASE RefreshChunks(w)
  <2>1. ASSUME worker' = [worker EXCEPT ![w] = [@ EXCEPT !.pc = "fail", !.status = jobStatus[JobToDo(w)]]]
        PROVE  /\ worker'[w].pc = "fail"
               /\ \A x \in Workers \ {w} : worker'[x].attempt = worker[x].attempt
    BY <2>1 DEF WorkerType, WorkerRecord
  <2>2. \/ Finish(w) \/ GoTo(w, "complete")
        \/ worker' = [worker EXCEPT ![w] = [@ EXCEPT !.pc = "fail", !.status = jobStatus[JobToDo(w)]]]
    BY <1>8 DEF RefreshChunks
  <2>3. attempts' = attempts /\ worker[w].pc = "refresh"
    BY <1>8 DEF RefreshChunks, dbVars
  <2> QED
    BY <1>0, <1>a, <1>b, <2>1, <2>2, <2>3
<1>9. CASE \/ IndexDocument(w) \/ FailIngestion(w) \/ FailIngestionByIds(w)
           \/ TaskAborted(w) \/ RepublishFails(w)
  <2>1. Finish(w) /\ attempts' = attempts
    BY <1>9 DEF IndexDocument, FailIngestion, FailIngestionByIds, FailRows, TaskAborted, RepublishFails, dbVars
  <2> QED
    BY <1>0, <1>a, <2>1
<1> QED
  BY <1>1, <1>2, <1>3, <1>4, <1>5, <1>6, <1>7, <1>8, <1>9 DEF WorkerStep, WorkerFault

\* One attempt more than a retry is within the bound.
LEMMA AttemptFits ==
    ASSUME NEW n \in Nat, NEW r \in Retries, n <= r
    PROVE  n + 1 \in Nat /\ n + 1 <= MaxRetries + 1
BY BoundsAssumption DEF Retries

\* A run counts its attempt against the retry of its message, and sends the next one.
LEMMA AttemptsWorker ==
    ASSUME OneCopyInv, OneRun, AttemptsInv, "node" \notin Faults,
           NEW w \in Workers, WorkerStep(w) \/ WorkerFault(w), RunEffect(w)
    PROVE  AttemptsInv'
<1> /\ TypeOK /\ BusyIsPlaced /\ BirthOrder /\ Retries = 0 .. MaxRetries
    /\ attempts \in [Jobs -> Nat] /\ queue \in [Jobs -> [Retries -> Nat]]
    /\ \A x \in Workers : worker[x].retries \in Retries /\ worker[x].attempt \in Nat
  BY DEF OneCopyInv, TypeOK, WorkerRecord, Retries
<1>0. UnsettledPC = {"markDoc", "work", "replDelete", "replInsert", "refresh", "complete",
                     "fail", "retry", "failByIds"}
  BY DEF UnsettledPC, StartedPC, WorkerPC
<1>1. ComesFrom(w)
  BY RunProgress
<1>2. worker[w].pc # "idle" => JobToDo(w) \in Jobs /\ jobStatus[JobToDo(w)] # "unborn"
  BY DEF BusyIsPlaced, BirthOrder, TakenBy, JobToDo
<1>3. /\ \A x \in Workers \ {w} : SameRun(x) /\ worker'[x].attempt = worker[x].attempt
      /\ \A b \in ApiProcs, j \in Jobs : BeingSentBy(b, j)' <=> BeingSentBy(b, j)
      /\ \A j \in Jobs : jobStatus'[j] = "unborn" => jobStatus[j] = "unborn"
  BY AttemptsWritten, WorkerWrites DEF RunEffect, OthersRun, BeingSentBy
<1>4. CASE CountsAttempt(w)
  <2>1. PICK j \in Jobs, r \in Retries :
           /\ j = worker[w].job /\ r = worker[w].retries /\ jobStatus[j] # "unborn"
           /\ worker[w].pc = "markJob" /\ worker'[w].pc = "markDoc"
           /\ attempts' = [attempts EXCEPT ![j] = worker[w].attempt + 1]
    BY <1>2, <1>4 DEF CountsAttempt, JobToDo
  <2>2. worker[w].attempt <= r /\ attempts'[j] <= r + 1 /\ \A k \in Jobs \ {j} : attempts'[k] = attempts[k]
    BY <2>1 DEF AttemptsInv
  <2>3. queue' = queue /\ worker'[w].job = j /\ worker'[w].retries = r
    BY <2>1 DEF RunEffect, Moves, Continues, Takes, Drops, GivesBack, Republishes, SameMessage
  <2>4. /\ \A s \in Retries : ~(queue[j][s] > 0)
        /\ \A x \in Workers \ {w} : ~RunningBy(x, j)
        /\ \A b \in ApiProcs : ~BeingSentBy(b, j)
    BY <2>1 DEF OneRun, OneRunOf, OnQueue, RunningBy
  <2>5. ASSUME NEW k \in Jobs
        PROVE  /\ attempts'[k] <= MaxRetries + 1
               /\ jobStatus'[k] = "unborn" => attempts'[k] = 0
               /\ \A b \in ApiProcs : BeingSentBy(b, k)' => attempts'[k] = 0
               /\ \A s \in Retries : queue'[k][s] > 0 => attempts'[k] <= s
    <3>1. CASE k = j
      <4>1. attempts'[j] \in Nat /\ attempts'[j] <= MaxRetries + 1
        <5>1. PICK n \in Nat : n = worker[w].attempt
          OBVIOUS
        <5>2. attempts'[j] = n + 1 /\ n <= r
          BY <2>1, <2>2, <5>1
        <5>3. n + 1 \in Nat /\ n + 1 <= MaxRetries + 1
          BY <5>2, AttemptFits
        <5> QED
          BY <5>2, <5>3
      <4>2. jobStatus'[j] # "unborn" /\ \A b \in ApiProcs : ~BeingSentBy(b, j)'
        BY <1>3, <2>1, <2>4
      <4> QED
        BY <2>3, <2>4, <3>1, <4>1, <4>2
    <3>2. CASE k # j
      BY <1>3, <2>2, <2>3, <3>2 DEF AttemptsInv
    <3> QED
      BY <3>1, <3>2
  <2>6. ASSUME NEW x \in Workers \ {w}, worker'[x].pc \in UnstartedPC \cup UnsettledPC
        PROVE  attempts'[worker'[x].job] = attempts[worker[x].job]
    <3>1. worker'[x].pc = worker[x].pc /\ worker'[x].job = worker[x].job /\ worker[x].pc \notin {"idle", "ack"}
      BY <1>0, <1>3, <2>6 DEF SameRun, UnstartedPC
    <3> QED
      BY <2>2, <2>4, <3>1 DEF RunningBy, BusyIsPlaced
  <2>7. \A x \in Workers :
           /\ worker'[x].pc \in UnstartedPC => attempts'[worker'[x].job] <= worker'[x].retries
           /\ worker'[x].pc \in {"loadDoc", "markJob"} => worker'[x].attempt <= worker'[x].retries
           /\ worker'[x].pc \in UnsettledPC => attempts'[worker'[x].job] <= worker'[x].retries + 1
    BY <1>3, <2>1, <2>2, <2>3, <2>6 DEF AttemptsInv, SameRun, UnstartedPC
  <2> QED
    BY <2>5, <2>7 DEF AttemptsInv
<1>5. CASE attempts' = attempts /\ (worker'[w].pc \in UnsettledPC => worker[w].pc \in UnsettledPC)
  <2>1. ASSUME NEW j \in Jobs, NEW s \in Retries, queue'[j][s] > 0
        PROVE  queue[j][s] > 0 \/ (worker[w].pc = "retry" /\ worker[w].job = j /\ s = worker[w].retries + 1)
    <3>1. CASE queue' = queue
      BY <2>1, <3>1
    <3>2. CASE Takes(w)
      <4>1. PICK i \in Jobs, t \in Retries : queue' = [queue EXCEPT ![i][t] = @ - 1]
        BY <3>2 DEF Takes
      <4>2. queue'[j][s] = queue[j][s] \/ queue'[j][s] = queue[j][s] - 1
        <5>1. CASE j = i
          BY <4>1, <5>1
        <5>2. CASE j # i
          BY <4>1, <5>2
        <5> QED
          BY <5>1, <5>2
      <4>3. queue[j][s] \in Nat
        OBVIOUS
      <4> QED
        BY <2>1, <4>2, <4>3
    <3>3. CASE Republishes(w)
      <4>1. queue' = [queue EXCEPT ![JobToDo(w)][worker[w].retries + 1] = @ + 1] /\ worker[w].pc = "retry"
        BY <3>3 DEF Republishes
      <4>2. queue'[j][s] = queue[j][s] \/ (j = JobToDo(w) /\ s = worker[w].retries + 1)
        BY <1>2, <4>1
      <4> QED
        BY <2>1, <4>1, <4>2 DEF JobToDo
    <3> QED
      BY <1>1, <3>1, <3>2, <3>3 DEF RunEffect, Moves, Continues, Drops, GivesBack, ComesFrom
  <2>2. ASSUME NEW j \in Jobs
        PROVE  /\ attempts'[j] <= MaxRetries + 1
               /\ jobStatus'[j] = "unborn" => attempts'[j] = 0
               /\ \A b \in ApiProcs : BeingSentBy(b, j)' => attempts'[j] = 0
               /\ \A s \in Retries : queue'[j][s] > 0 => attempts'[j] <= s
    BY <1>0, <1>3, <1>5, <2>1 DEF AttemptsInv
  <2>3. /\ worker'[w].pc \in UnstartedPC => attempts[worker'[w].job] <= worker'[w].retries
        /\ worker'[w].pc \in {"loadDoc", "markJob"} => worker'[w].attempt <= worker'[w].retries
        /\ worker'[w].pc \in UnsettledPC => attempts[worker'[w].job] <= worker'[w].retries + 1
    <3>1. CASE Takes(w)
      BY <1>0, <3>1 DEF Takes, AttemptsInv, UnstartedPC
    <3>2. CASE Continues(w)
      <4>1. /\ worker'[w].job = worker[w].job /\ worker'[w].retries = worker[w].retries
            /\ worker[w].pc # "idle"
        BY <3>2 DEF Continues, SameMessage
      <4>2. worker'[w].pc # "loadJob"
        BY <4>1, AttemptsWritten DEF RunEffect
      <4> QED
        BY <1>5, <4>1, <4>2, AttemptsWritten DEF AttemptsInv, UnstartedPC, JobToDo
    <3>3. CASE Drops(w) \/ GivesBack(w) \/ Republishes(w)
      BY <1>0, <3>3 DEF Drops, GivesBack, Republishes, UnstartedPC
    <3> QED
      BY <3>1, <3>2, <3>3 DEF RunEffect, Moves
  <2>4. \A x \in Workers \ {w} :
           /\ worker'[x].pc \in UnstartedPC => attempts[worker'[x].job] <= worker'[x].retries
           /\ worker'[x].pc \in {"loadDoc", "markJob"} => worker'[x].attempt <= worker'[x].retries
           /\ worker'[x].pc \in UnsettledPC => attempts[worker'[x].job] <= worker'[x].retries + 1
    BY <1>3 DEF AttemptsInv, SameRun
  <2> QED
    BY <1>5, <2>2, <2>3, <2>4 DEF AttemptsInv
<1> QED
  BY <1>4, <1>5, AttemptsWritten

\* No request counts an attempt.
LEMMA AttemptsKept ==
    ASSUME TypeOK, NEW a \in ApiProcs, ApiRequest(a) \/ ApiStep(a) \/ ApiFault(a)
    PROVE  attempts' = attempts /\ \A x \in Workers : worker'[x].attempt = worker[x].attempt
<1>1. CASE ReindexDeleteChunks(a) \/ DeleteDocumentChunks(a)
  <2>1. attempts' = attempts
    BY <1>1 DEF ReindexDeleteChunks, DeleteDocumentChunks, DeleteChunks
  <2>2. ASSUME NEW x \in Workers PROVE worker'[x].attempt = worker[x].attempt
    <3>1. \/ worker'[x] = worker[x]
          \/ worker'[x] = [worker[x] EXCEPT !.clear = (worker[x].pc = "replInsert")]
      BY <1>1 DEF ReindexDeleteChunks, DeleteDocumentChunks, DeleteChunks
    <3>2. worker[x] \in WorkerRecord
      BY DEF TypeOK
    <3> QED
      BY <3>1, <3>2 DEF WorkerRecord
  <2> QED
    BY <2>1, <2>2
<1>2. CASE ApiRequest(a) \/ ApiFault(a)
  BY <1>2 DEF ApiRequest, SaveFile, RequestReindex, RequestDelete, ApiFault, ApiAborted, EnqueueFails, dbVars
<1> QED
  BY <1>1, <1>2 DEF ApiStep, CreateDocument, AuditUpload, RecordAudit, RefreshFails, CreateJob, Enqueue,
     ReindexResetDocument, AuditReindex, DeleteJobs, AuditDelete, DeleteDocument, DeleteFile, dbVars

\* A request sends the message of a job that has not been attempted.
LEMMA AttemptsApi ==
    ASSUME OneCopyInv, AttemptsInv, NEW a \in ApiProcs, ApiRequest(a) \/ ApiStep(a) \/ ApiFault(a), ApiEffect(a)
    PROVE  AttemptsInv'
<1> /\ TypeOK /\ BusyIsPlaced /\ Retries = 0 .. MaxRetries
    /\ jobStatus \in [Jobs -> JobStatus]
    /\ attempts \in [Jobs -> Nat] /\ queue \in [Jobs -> [Retries -> Nat]]
  BY DEF OneCopyInv, TypeOK, Retries
<1>1. attempts' = attempts /\ \A x \in Workers : worker'[x].attempt = worker[x].attempt
  BY AttemptsKept
<1>2. \A x \in Workers : SameRun(x)
  BY DEF ApiEffect, AllRunsSame
<1>3. ASSUME NEW j \in Jobs
      PROVE  /\ jobStatus'[j] = "unborn" => jobStatus[j] = "unborn"
             /\ \A b \in ApiProcs : BeingSentBy(b, j)' => BeingSentBy(b, j) \/ jobStatus[j] = "unborn"
             /\ \A s \in Retries : queue'[j][s] > 0 => queue[j][s] > 0 \/ BeingSentBy(a, j)
  <2>1. \A b \in ApiProcs \ {a} : api'[b] = api[b]
    BY DEF ApiEffect, OthersServe
  <2>2. CASE KeepsJobs(a) \/ PurgesJobs(a)
    BY <2>1, <2>2 DEF KeepsJobs, PurgesJobs, BeingSentBy
  <2>3. CASE CreatesJob(a)
    BY <2>1, <2>3 DEF CreatesJob, BeingSentBy
  <2>4. CASE SendsJob(a)
    <3>1. api[a].job \in Jobs /\ 0 \in Retries
      BY <2>4, BoundsAssumption DEF SendsJob, BusyIsPlaced
    <3>2. j # api[a].job => queue'[j] = queue[j]
      BY <2>4, <3>1 DEF SendsJob
    <3> QED
      BY <2>1, <2>4, <3>2 DEF SendsJob, BeingSentBy
  <2> QED
    BY <2>2, <2>3, <2>4 DEF ApiEffect
<1>4. ASSUME NEW j \in Jobs
      PROVE  /\ attempts'[j] <= MaxRetries + 1
             /\ jobStatus'[j] = "unborn" => attempts'[j] = 0
             /\ \A b \in ApiProcs : BeingSentBy(b, j)' => attempts'[j] = 0
             /\ \A s \in Retries : queue'[j][s] > 0 => attempts'[j] <= s
  BY <1>1, <1>3 DEF AttemptsInv
<1>5. \A x \in Workers :
         /\ worker'[x].pc \in UnstartedPC => attempts'[worker'[x].job] <= worker'[x].retries
         /\ worker'[x].pc \in {"loadDoc", "markJob"} => worker'[x].attempt <= worker'[x].retries
         /\ worker'[x].pc \in UnsettledPC => attempts'[worker'[x].job] <= worker'[x].retries + 1
  BY <1>1, <1>2 DEF AttemptsInv, SameRun
<1> QED
  BY <1>4, <1>5 DEF AttemptsInv

\* Where no worker node is lost a job is attempted once and once per retry, the bound of
\* AttemptsBounded before any fault: aborted tasks, broker, storage and requests add none.
THEOREM AttemptsAlwaysBounded ==
    ASSUME "node" \notin Faults
    PROVE  Spec => [](AttemptsBounded /\ \A j \in Jobs : attempts[j] <= MaxRetries + 1)
<1>1. Init => OneRun /\ AttemptsInv
  <2> SUFFICES ASSUME Init PROVE OneRun /\ AttemptsInv
    OBVIOUS
  <2>1. /\ \A w \in Workers : worker[w].pc = "idle"
        /\ \A a \in ApiProcs : api[a].pc = "idle"
        /\ \A j \in Jobs : attempts[j] = 0 /\ \A r \in Retries : queue[j][r] = 0
    BY DEF Init, IdleWorker, IdleApi
  <2>2. OneRun
    BY <2>1 DEF OneRun, OneRunOf, OnQueue, RunningBy, BeingSentBy
  <2>3. AttemptsInv
    BY <2>1, BoundsAssumption DEF AttemptsInv, BeingSentBy, UnstartedPC, UnsettledPC, StartedPC
  <2> QED
    BY <2>2, <2>3
<1>2. OneCopyInv /\ OneRun /\ AttemptsInv /\ [Next]_vars => OneRun' /\ AttemptsInv'
  <2> SUFFICES ASSUME OneCopyInv, OneRun, AttemptsInv, [Next]_vars PROVE OneRun' /\ AttemptsInv'
    OBVIOUS
  <2>1. TypeOK /\ BusyIsPlaced
    BY DEF OneCopyInv
  <2>2. ASSUME NEW w \in Workers, WorkerStep(w) \/ WorkerFault(w) PROVE OneRun' /\ AttemptsInv'
    <3>1. RunEffect(w) /\ ComesFrom(w)
      BY <2>1, <2>2, WorkerStepEffect, WorkerFaultEffect, RunProgress
    <3> QED
      BY <2>1, <2>2, <3>1, OneRunWorker, AttemptsWorker
  <2>3. ASSUME NEW b \in ApiProcs, ApiRequest(b) \/ ApiStep(b) \/ ApiFault(b) PROVE OneRun' /\ AttemptsInv'
    <3>1. ApiEffect(b)
      BY <2>1, <2>3, ApiRequestEffect, ApiStepEffect, ApiFaultEffect
    <3> QED
      BY <2>3, <3>1, OneRunApi, AttemptsApi
  <2>4. CASE UNCHANGED vars
    BY <2>4 DEF OneRun, OneRunOf, OnQueue, RunningBy, BeingSentBy, AttemptsInv, vars, dbVars
  <2> QED
    BY <2>2, <2>3, <2>4 DEF Next
<1>3. OneCopyInv /\ AttemptsInv => AttemptsBounded /\ \A j \in Jobs : attempts[j] <= MaxRetries + 1
  <2> SUFFICES ASSUME OneCopyInv, AttemptsInv, NEW j \in Jobs
               PROVE  attempts[j] <= (MaxRetries + 1) * (1 + faults) /\ attempts[j] <= MaxRetries + 1
    BY DEF AttemptsBounded
  <2>1. attempts[j] \in Nat /\ attempts[j] <= MaxRetries + 1 /\ faults \in Nat /\ MaxRetries \in Nat
    BY BoundsAssumption DEF OneCopyInv, TypeOK, AttemptsInv
  <2>2. \A m, f \in Nat : m <= m * (1 + f)
    OBVIOUS
  <2> QED
    BY <2>1, <2>2
<1> QED
  BY <1>1, <1>2, <1>3, OneCopyHolds, PTL DEF Spec

-----------------------------------------------------------------------------
(* Active jobs are carried: one API process, and nothing lost but nodes    *)

\* No worker step makes a job active.
LEMMA NoJobRevives ==
    ASSUME OneCopyInv, NEW w \in Workers, RunEffect(w), NEW j \in Jobs, jobStatus'[j] \in ActiveJob
    PROVE  jobStatus[j] \in ActiveJob
<1> TypeOK /\ BusyIsPlaced /\ RunsAgree
  BY DEF OneCopyInv
<1>1. worker[w].pc = "markJob" /\ j = JobToDo(w) /\ JobExists(j) /\ worker[w].status # "processing"
         => jobStatus[j] = "pending"
  BY DEF RunsAgree, JobToDo, ActiveJob
<1> QED
  BY <1>1, WorkerWrites DEF ActiveJob

\* A run that has read a settled job, or has completed it, has nothing left to settle.
LEMMA SettledWorker ==
    ASSUME OneCopyInv, SettledIsSettled, NEW w \in Workers, WorkerStep(w) \/ WorkerFault(w), RunEffect(w)
    PROVE  SettledIsSettled'
<1> /\ TypeOK /\ BusyIsPlaced /\ RunsAgree /\ jobStatus \in [Jobs -> JobStatus]
  BY DEF OneCopyInv, TypeOK
<1> SUFFICES ASSUME NEW x \in Workers,
                    \/ worker'[x].pc = "index"
                    \/ worker'[x].pc \in StartedPC /\ worker'[x].status \in {"completed", "failed"}
             PROVE  jobStatus'[worker'[x].job] \notin ActiveJob
  BY DEF SettledIsSettled
<1>1. CASE x # w
  <2>1. worker[x].job \in Jobs /\ worker'[x].job = worker[x].job /\ jobStatus[worker[x].job] \notin ActiveJob
    BY <1>1 DEF RunEffect, OthersRun, SameRun, SettledIsSettled, BusyIsPlaced, StartedPC
  <2> QED
    BY <2>1, NoJobRevives
<1>2. CASE x = w
  <2> DEFINE j == JobToDo(w)
  <2>1. j \in Jobs /\ worker'[w].job = j
    BY <1>2, BusyJob DEF RunEffect, Moves, Continues, Takes, Drops, GivesBack, Republishes, SameMessage, JobToDo,
       StartedPC
  <2>2. ComesFrom(w)
    BY RunProgress
  <2>3. CASE worker'[w].pc = "index"
    BY <1>2, <2>1, <2>2, <2>3 DEF ComesFrom, WritesOutcome, ActiveJob
  <2>4. CASE worker'[w].pc \in UnsettledPC /\ worker'[w].status \in {"completed", "failed"}
    <3>1. CASE jobStatus[j] \in {"completed", "failed"}
      BY <2>1, <3>1, NoJobRevives, <1>2 DEF ActiveJob
    <3>2. CASE worker[w].status \in {"completed", "failed"} /\ worker[w].pc \in UnsettledPC
      <4>1. jobStatus[j] \notin ActiveJob
        BY <3>2 DEF SettledIsSettled, UnsettledPC, JobToDo
      <4> QED
        BY <1>2, <2>1, <4>1, NoJobRevives
    <3>3. CASE worker[w].status \in {"completed", "failed"} /\ worker[w].pc = "markJob"
      BY <3>3 DEF RunsAgree, ActiveJob
    <3> QED
      BY <2>2, <2>4, <3>1, <3>2, <3>3 DEF ComesFrom
  <2> QED
    BY <1>2, <2>3, <2>4 DEF UnsettledPC
<1> QED
  BY <1>1, <1>2

\* The run of an active job finds its document, goes on, or leaves a message behind; it ends
\* without one only when its retries are exhausted.
LEMMA RunCarriesOn ==
    ASSUME OneCopyInv, DeletionInv, SettledIsSettled, Faults \subseteq {"node"},
           NEW w \in Workers, WorkerStep(w) \/ WorkerFault(w), RunEffect(w),
           NEW j \in Jobs, RunningBy(w, j), ~Refused(w), jobStatus'[j] \in ActiveJob
    PROVE  OnQueue(j)' \/ (RunningBy(w, j) /\ ~Refused(w))' \/ Exhausted(j)'
<1> /\ TypeOK /\ BusyIsPlaced /\ RunsAgree /\ BirthOrder /\ WorkerType /\ worker[w] \in WorkerRecord
    /\ jobStatus \in [Jobs -> JobStatus] /\ queue \in [Jobs -> [Retries -> Nat]]
    /\ docStatus \in [Docs -> DocStatus]
  BY DEF OneCopyInv, TypeOK, WorkerType
<1>1. jobStatus[j] \in ActiveJob /\ JobExists(j) /\ j = JobToDo(w) /\ worker[w].pc \notin {"idle", "ack"}
  BY NoJobRevives DEF RunningBy, JobToDo, JobExists, LiveJob
<1>2. jobDoc[j] = DocToDo(w) /\ DocToDo(w) \in Docs /\ DocExists(DocToDo(w))
  <2>1. jobDoc[j] \in Docs /\ docStatus[jobDoc[j]] # "unborn"
    BY <1>1, DocsAssumption DEF BirthOrder, ActiveJob
  <2>2. docStatus[jobDoc[j]] # "deleted"
    BY <1>1, <2>1 DEF DeletionInv, DeletionIsComplete, JobsOf
  <2> QED
    BY <1>1, <2>1, <2>2 DEF DocExists, DocStatus, DocToDo, JobToDo
<1>3. \A label \in WorkerPC \ {"idle", "ack", "replInsert"} : GoTo(w, label) => (RunningBy(w, j) /\ ~Refused(w))'
  BY <1>1, GoToEffect DEF RunningBy, Refused, SameMessage, JobToDo
<1>4. \A label \in {"markJob", "markDoc", "replDelete", "fail", "retry", "refresh", "complete", "index", "failByIds"} :
         label \in WorkerPC \ {"idle", "ack", "replInsert"}
  BY DEF WorkerPC
<1>5. ~(Receive(w) \/ Acknowledge(w) \/ TaskAborted(w) \/ RepublishFails(w))
  BY <1>1 DEF Receive, Acknowledge, TaskAborted, RepublishFails, Fault
<1>6. CASE LoadJob(w) \/ MarkDocProcessing(w)
  <2>1. \E label \in {"loadDoc", "work"}, s \in JobStatus, n \in Nat :
           worker' = [worker EXCEPT ![w] = [@ EXCEPT !.pc = label, !.status = s, !.attempt = n]]
    <3>1. CASE LoadJob(w)
      <4>1. attempts[j] \in Nat /\ jobStatus[j] \in JobStatus
        BY <1>1 DEF TypeOK
      <4> QED
        BY <1>1, <3>1, <4>1 DEF LoadJob, JobToDo
    <3>2. CASE MarkDocProcessing(w)
      <4>1. worker' = [worker EXCEPT ![w] = [@ EXCEPT !.pc = "work", !.status = jobStatus[j]]]
        BY <1>1, <1>2, <3>2 DEF MarkDocProcessing
      <4>2. [worker[w] EXCEPT !.pc = "work", !.status = jobStatus[j]]
              = [worker[w] EXCEPT !.pc = "work", !.status = jobStatus[j], !.attempt = worker[w].attempt]
        BY DEF WorkerRecord
      <4>3. worker[w].attempt \in Nat /\ jobStatus[j] \in JobStatus
        BY DEF WorkerRecord
      <4> QED
        BY <4>1, <4>2, <4>3
    <3> QED
      BY <1>6, <3>1, <3>2
  <2>2. worker'[w].pc \in {"loadDoc", "work"} /\ worker'[w].job = j
    BY <1>1, <2>1 DEF WorkerType, WorkerRecord, JobToDo
  <2> QED
    BY <2>2 DEF RunningBy, Refused
<1>7. CASE LoadDocument(w) \/ MarkJobProcessing(w) \/ ReadAndEmbed(w) \/ CompleteJob(w)
  BY <1>1, <1>2, <1>3, <1>4, <1>7 DEF LoadDocument, GoToOrFinish, MarkJobProcessing, ReadAndEmbed, CompleteJob
<1>8. CASE ReplaceChunksDelete(w) \/ ReplaceChunksInsert(w) \/ RefreshChunks(w)
  <2>1. CASE ReplaceChunksDelete(w)
    <3>1. worker'[w] = [worker[w] EXCEPT !.pc = "replInsert", !.clear = TRUE]
      BY <2>1 DEF ReplaceChunksDelete, WorkerType
    <3>2. worker'[w].job = j /\ worker'[w].pc = "replInsert" /\ worker'[w].clear
      BY <1>1, <3>1 DEF WorkerRecord, JobToDo
    <3> QED
      BY <3>2 DEF RunningBy, Refused
  <2>2. CASE ReplaceChunksInsert(w)
    <3>1. worker'[w] = [worker[w] EXCEPT !.pc = "refresh"]
      BY <2>2 DEF ReplaceChunksInsert
    <3>2. worker'[w].job = j /\ worker'[w].pc = "refresh"
      BY <1>1, <3>1 DEF WorkerRecord, JobToDo
    <3> QED
      BY <3>2 DEF RunningBy, Refused
  <2>3. CASE RefreshChunks(w)
    <3>1. CASE GoTo(w, "complete")
      BY <1>3, <1>4, <3>1
    <3>2. CASE worker' = [worker EXCEPT ![w] = [@ EXCEPT !.pc = "fail", !.status = jobStatus[JobToDo(w)]]]
      <4>1. worker'[w].job = j /\ worker'[w].pc = "fail"
        BY <1>1, <3>2 DEF WorkerType, WorkerRecord, JobToDo
      <4> QED
        BY <4>1 DEF RunningBy, Refused
    <3> QED
      BY <1>1, <2>3, <3>1, <3>2 DEF RefreshChunks
  <2> QED
    BY <1>8, <2>1, <2>2, <2>3
<1>9. ~ChunkStorageFails(w)
  BY <1>2 DEF ChunkStorageFails, InsertAccepted, Refused, Fault
<1>10. ~IndexDocument(w)
  BY <1>1 DEF IndexDocument, SettledIsSettled, JobToDo
<1>11. ~(FailIngestion(w) \/ FailIngestionByIds(w))
  <2>1. ASSUME NEW loaded, loaded # "failed", FailRows(w, loaded) PROVE FALSE
    <3>1. jobStatus' = [jobStatus EXCEPT ![j] = "failed"]
      BY <1>1, <1>2, <2>1 DEF FailRows
    <3> QED
      BY <3>1 DEF ActiveJob
  <2>2. worker[w].pc = "fail" => worker[w].status # "failed"
    BY <1>1 DEF SettledIsSettled, StartedPC, WorkerPC, JobToDo
  <2>3. jobStatus[j] \notin {"completed", "failed"}
    BY <1>1 DEF ActiveJob
  <2> QED
    BY <1>1, <2>1, <2>2, <2>3 DEF FailIngestion, FailIngestionByIds
<1>12. CASE RequestRetryOrFail(w)
  <2>1. CASE worker[w].retries < MaxRetries
    <3> DEFINE r == worker[w].retries
    <3>0. r \in Retries
      BY DEF WorkerRecord
    <3>1. r + 1 \in Retries /\ queue[j][r + 1] \in Nat
      <4>1. r + 1 \in Retries
        BY <2>1, <3>0, BoundsAssumption DEF Retries
      <4> QED
        BY <4>1
    <3>2. queue' = [queue EXCEPT ![j][r + 1] = @ + 1]
      BY <1>1, <1>12, <2>1 DEF RequestRetryOrFail
    <3>3. queue'[j][r + 1] > 0
      BY <3>1, <3>2
    <3> QED
      BY <3>1, <3>3 DEF OnQueue
  <2>2. CASE ~(worker[w].retries < MaxRetries)
    <3>1. \/ exhausted' = exhausted \cup {j}
          \/ GoTo(w, "failByIds")
      BY <1>1, <1>12, <2>2 DEF RequestRetryOrFail
    <3> QED
      BY <1>3, <1>4, <3>1 DEF Exhausted
  <2> QED
    BY <2>1, <2>2
<1>13. CASE NodeLost(w)
  <2> DEFINE r == worker[w].retries
  <2>1. r \in Retries /\ queue[j][r] \in Nat /\ queue' = [queue EXCEPT ![j][r] = @ + 1]
    BY <1>1, <1>13 DEF NodeLost, WorkerRecord
  <2>2. queue'[j][r] > 0
    BY <2>1
  <2> QED
    BY <2>1, <2>2 DEF OnQueue
<1> QED
  BY <1>5, <1>6, <1>7, <1>8, <1>9, <1>10, <1>11, <1>12, <1>13 DEF WorkerStep, WorkerFault

\* A worker leaves a copy of the message of every active job, or the chunks of another job.
LEMMA CarriedWorker ==
    ASSUME OneCopyInv, DeletionInv, CarriedInv, Faults \subseteq {"node"},
           NEW w \in Workers, WorkerStep(w) \/ WorkerFault(w), RunEffect(w)
    PROVE  CarriedInv'
<1> /\ TypeOK /\ BusyIsPlaced /\ BirthOrder /\ ActiveIsCarriedOn /\ SettledIsSettled
    /\ jobStatus \in [Jobs -> JobStatus] /\ queue \in [Jobs -> [Retries -> Nat]]
    /\ chunks \in [Docs -> Jobs \cup {0}] /\ exhausted \subseteq Jobs
  BY DEF OneCopyInv, TypeOK, CarriedInv
<1> SUFFICES ASSUME NEW j \in Jobs, jobStatus'[j] \in ActiveJob
             PROVE  CarriedOn(j)' \/ Exhausted(j)' \/ StaleContent(j)' \/ ApiOn(jobDoc[j])'
  BY SettledWorker DEF CarriedInv, ActiveIsCarriedOn, RunEffect
<1>1. CarriedOn(j) \/ Exhausted(j) \/ StaleContent(j) \/ ApiOn(jobDoc[j])
  BY NoJobRevives DEF ActiveIsCarriedOn
<1>2. jobDoc' = jobDoc /\ api' = api
  BY DEF RunEffect
<1>3. Progresses(w)
  BY RunProgress
\* Chunk rows of another job are in place, or w runs j.
<1>4. ASSUME PublishesChunks(w), DocToDo(w) = jobDoc[j]
      PROVE  CarriedOn(j)' \/ StaleContent(j)'
  <2>1. /\ JobToDo(w) \in Jobs /\ DocToDo(w) \in Docs /\ worker'[w].job = JobToDo(w)
        /\ worker'[w].pc = "refresh" /\ chunks'[jobDoc[j]] = JobToDo(w)
    BY <1>4 DEF PublishesChunks, BusyIsPlaced, BirthOrder, TakenBy, JobToDo, DocToDo, RunEffect, Moves,
       Continues, Takes, Drops, GivesBack, Republishes, SameMessage
  <2>2. CASE JobToDo(w) = j
    BY <2>1, <2>2 DEF CarriedOn, RunningBy, Refused
  <2>3. CASE JobToDo(w) # j
    BY <1>2, <2>1, <2>3 DEF StaleContent, Jobs
  <2> QED
    BY <2>2, <2>3
<1>5. CASE OnQueue(j)
  <2>1. PICK r \in Retries : queue[j][r] > 0
    BY <1>5 DEF OnQueue
  <2>2. CASE Takes(w) /\ worker'[w].job = j
    BY <2>2 DEF Takes, CarriedOn, RunningBy, Refused
  <2>3. CASE ~(Takes(w) /\ worker'[w].job = j)
    <3>1. queue'[j][r] = queue[j][r] \/ queue'[j][r] = queue[j][r] + 1
      <4>1. CASE Continues(w) \/ Drops(w) \/ Takes(w)
        BY <2>3, <4>1 DEF Continues, Drops, Takes
      <4>2. CASE GivesBack(w) \/ Republishes(w)
        <5>1. PICK i, q : queue' = [queue EXCEPT ![i][q] = @ + 1]
          BY <4>2 DEF GivesBack, Republishes
        <5> QED
          BY <5>1
      <4> QED
        BY <4>1, <4>2 DEF RunEffect, Moves
    <3>2. queue[j][r] \in Nat
      OBVIOUS
    <3>3. queue'[j][r] > 0
      BY <2>1, <3>1, <3>2
    <3> QED
      BY <3>3 DEF OnQueue, CarriedOn
  <2> QED
    BY <2>2, <2>3
<1>6. ASSUME NEW x \in Workers, RunningBy(x, j), ~Refused(x)
      PROVE  CarriedOn(j)' \/ Exhausted(j)' \/ StaleContent(j)'
  <2>1. CASE x = w
    BY <1>6, <2>1, RunCarriesOn DEF CarriedOn
  <2>2. CASE x # w
    <3>1. CASE worker'[x] = worker[x]
      BY <1>6, <3>1 DEF CarriedOn, RunningBy, Refused
    <3>2. CASE ReplaceChunksInsert(w) /\ DocToDo(x) = DocToDo(w)
      <4>1. worker[w].pc = "replInsert"
        BY <3>2 DEF ReplaceChunksInsert
      <4>2. worker'[w].pc = "refresh"
        BY <3>2, <4>1 DEF ReplaceChunksInsert, TypeOK, WorkerRecord
      <4>3. chunks' = [chunks EXCEPT ![DocToDo(w)] = JobToDo(w)] /\ jobStatus' = jobStatus
        BY <3>2 DEF ReplaceChunksInsert
      <4>4. PublishesChunks(w) /\ DocToDo(w) = jobDoc[j]
        BY <1>6, <3>2, <4>1, <4>2, <4>3 DEF PublishesChunks, RunningBy, DocToDo
      <4> QED
        BY <1>4, <4>4
    <3> QED
      BY <2>2, <3>1, <3>2, OtherRuns
  <2> QED
    BY <2>1, <2>2
<1>7. CASE \E b \in ApiProcs : BeingSentBy(b, j)
  BY <1>2, <1>7 DEF BeingSentBy, CarriedOn
<1>8. CASE Exhausted(j)
  <2>1. exhausted \subseteq exhausted'
    BY DEF WorkerStep, WorkerFault, Receive, LoadJob, LoadDocument, MarkJobProcessing, MarkDocProcessing, ReadAndEmbed,
       ReplaceChunksDelete, ReplaceChunksInsert, ChunkStorageFails, RefreshChunks, CompleteJob, IndexDocument,
       FailIngestion, RequestRetryOrFail, FailIngestionByIds, Acknowledge, TaskAborted, RepublishFails, NodeLost, Fault
  <2> QED
    BY <1>8, <2>1 DEF Exhausted
<1>9. CASE StaleContent(j)
  <2>1. CASE chunks' = chunks
    BY <1>2, <1>9, <2>1 DEF StaleContent
  <2>2. CASE PublishesChunks(w) /\ DocToDo(w) # jobDoc[j]
    BY <1>2, <1>9, <2>2 DEF StaleContent, PublishesChunks
  <2> QED
    BY <1>3, <1>4, <2>1, <2>2 DEF Progresses, WritesOutcome
<1>10. CASE ApiOn(jobDoc[j])
  BY <1>2, <1>10 DEF ApiOn
<1> QED
  BY <1>1, <1>5, <1>6, <1>7, <1>8, <1>9, <1>10 DEF CarriedOn

\* A request leaves a copy of the message of every active job until the request ends,
\* and it ends by sending the job it has created, or with no job left.
LEMMA CarriedApi ==
    ASSUME OneCopyInv, ActiveIsLatest, RequestsSettle, CarriedInv, Faults \subseteq {"node"},
           NEW a, ApiProcs = {a}, ApiRequest(a) \/ ApiStep(a) \/ ApiFault(a), ApiEffect(a)
    PROVE  CarriedInv'
<1> /\ TypeOK /\ BusyIsPlaced /\ BirthOrder /\ ActiveIsCarriedOn /\ SettledIsSettled /\ a \in ApiProcs
    /\ jobStatus \in [Jobs -> JobStatus] /\ queue \in [Jobs -> [Retries -> Nat]]
    /\ jobDoc \in [Jobs -> Docs \cup {NoDoc}] /\ "api" \notin Faults /\ "broker" \notin Faults
  BY DEF OneCopyInv, TypeOK, CarriedInv
<1>0. ~ApiFault(a)
  BY DEF ApiFault, ApiAborted, EnqueueFails, Fault
\* A job becomes active only when a request creates it.
<1>1. ASSUME NEW j \in Jobs, jobStatus'[j] \in ActiveJob
      PROVE  \/ CreatesJob(a) /\ j = api'[a].job
             \/ jobStatus[j] \in ActiveJob /\ jobDoc'[j] = jobDoc[j]
  BY <1>1 DEF ApiEffect, KeepsJobs, CreatesJob, SendsJob, PurgesJobs, ActiveJob
<1>2. SettledIsSettled'
  <2> SUFFICES ASSUME NEW x \in Workers,
                      \/ worker'[x].pc = "index"
                      \/ worker'[x].pc \in StartedPC /\ worker'[x].status \in {"completed", "failed"}
               PROVE  jobStatus'[worker'[x].job] \notin ActiveJob
    BY DEF SettledIsSettled
  <2>1. PICK j \in Jobs : j = worker[x].job /\ j = worker'[x].job /\ TakenBy(x, j) /\ jobStatus[j] \notin ActiveJob
    BY DEF ApiEffect, AllRunsSame, SameRun, SettledIsSettled, BusyIsPlaced, StartedPC, TakenBy
  <2>2. ~(CreatesJob(a) /\ j = api'[a].job)
    BY <2>1 DEF CreatesJob, BirthOrder
  <2> QED
    BY <1>1, <2>1, <2>2
<1> SUFFICES ASSUME NEW j \in Jobs, jobStatus'[j] \in ActiveJob
             PROVE  CarriedOn(j)' \/ Exhausted(j)' \/ StaleContent(j)' \/ ApiOn(jobDoc[j])'
  BY <1>2 DEF CarriedInv, ActiveIsCarriedOn
<1>3. CASE CreatesJob(a) /\ j = api'[a].job
  BY <1>3 DEF CreatesJob, BeingSentBy, CarriedOn
<1> SUFFICES ASSUME jobStatus[j] \in ActiveJob, jobDoc'[j] = jobDoc[j]
             PROVE  CarriedOn(j)' \/ Exhausted(j)' \/ StaleContent(j)' \/ ApiOn(jobDoc[j])'
  BY <1>1, <1>3
<1>4. PICK d \in Docs : d = jobDoc[j] /\ JobExists(j)
  BY DEF BirthOrder, ActiveJob, JobExists, LiveJob
<1>5. CarriedOn(j) \/ Exhausted(j) \/ StaleContent(j) \/ ApiOn(d)
  BY <1>4 DEF ActiveIsCarriedOn
<1>6. ApiOn(d)' => ApiOn(jobDoc[j])'
  BY <1>4 DEF ApiOn
<1>7. CASE OnQueue(j)
  <2>1. PICK r \in Retries : queue[j][r] > 0
    BY <1>7 DEF OnQueue
  <2>2. queue[j][r] \in Nat
    OBVIOUS
  <2>3. queue'[j][r] = queue[j][r] \/ queue'[j][r] = queue[j][r] + 1
    BY <2>2 DEF ApiEffect, KeepsJobs, CreatesJob, SendsJob, PurgesJobs
  <2>4. queue'[j][r] > 0
    BY <2>1, <2>2, <2>3
  <2> QED
    BY <2>4 DEF OnQueue, CarriedOn
<1>8. ASSUME NEW x \in Workers, RunningBy(x, j), ~Refused(x) PROVE CarriedOn(j)'
  <2>1. SameRun(x) /\ worker[x] \in WorkerRecord
    BY DEF ApiEffect, AllRunsSame, TypeOK
  <2>2. worker[x].pc = "replInsert" /\ worker[x].clear => worker'[x].clear
    BY <2>1, RunsMeetRequest DEF WorkerRecord
  <2> QED
    BY <1>8, <2>1, <2>2 DEF CarriedOn, RunningBy, Refused, SameRun
<1>9. CASE BeingSentBy(a, j)
  <2>1. Enqueue(a)
    <3>1. api[a].pc = "enqueue"
      BY <1>9 DEF BeingSentBy
    <3>2. ~ApiRequest(a)
      BY <3>1, BeginRows
    <3> QED
      BY <1>0, <3>1, <3>2 DEF ApiStep, CreateDocument, AuditUpload, CreateJob, ReindexDeleteChunks,
         ReindexResetDocument, AuditReindex, DeleteDocumentChunks, DeleteJobs, AuditDelete, DeleteDocument, DeleteFile
  <2>2. queue' = [queue EXCEPT ![j][0] = @ + 1] /\ 0 \in Retries
    BY <1>9, <2>1, BoundsAssumption DEF Enqueue, BeingSentBy, Retries
  <2>3. queue[j][0] \in Nat
    BY <2>2
  <2>4. queue'[j][0] > 0
    BY <2>2, <2>3
  <2> QED
    BY <2>2, <2>4 DEF OnQueue, CarriedOn
<1>10. CASE Exhausted(j)
  <2>1. exhausted' = exhausted
    BY <1>0 DEF ApiRequest, SaveFile, RequestReindex, RequestDelete, ApiStep, CreateDocument, AuditUpload, RecordAudit,
       RefreshFails, CreateJob, Enqueue, ReindexDeleteChunks, DeleteDocumentChunks, DeleteChunks,
       ReindexResetDocument, AuditReindex, DeleteJobs, AuditDelete, DeleteDocument, DeleteFile
  <2> QED
    BY <1>10, <2>1 DEF Exhausted
\* A request that works on the document of j and ends sends the message of j.
<1>11. CASE api[a].doc = d /\ api'[a].doc # d
  <2>1. api[a].pc # "idle"
    BY <1>11, DocsAssumption DEF RequestsSettle
  <2>2. ApiStep(a) /\ api'[a].pc = "idle"
    BY <1>0, <1>11, <2>1, BeginRows, ApiRows
  <2>3. api[a].pc = "enqueue" \/ JobsOf(d) = {}
    BY <1>11, <2>2, RequestEnds
  <2>4. j \in JobsOf(d)
    BY <1>4 DEF JobsOf
  <2>5. PICK k \in Jobs : k = api[a].job /\ IsLatest(k, d)
    BY <1>11, <2>3, <2>4 DEF RequestsSettle, BusyIsPlaced
  <2>6. j <= k /\ k <= j
    BY <1>4, <2>4, <2>5 DEF IsLatest, JobsOf, ActiveIsLatest
  <2>7. BeingSentBy(a, j)
    BY <2>3, <2>4, <2>5, <2>6 DEF BeingSentBy, Jobs
  <2> QED
    BY <1>9, <2>7
<1>12. CASE ApiOn(d)
  <2>1. api[a].doc = d
    BY <1>12 DEF ApiOn
  <2> QED
    BY <1>6, <1>11, <2>1 DEF ApiOn
<1>13. CASE StaleContent(j) /\ ~ApiOn(d)
  <2>1. chunks'[d] = chunks[d]
    BY <1>13, OtherDocuments DEF ApiOn
  <2> QED
    BY <1>4, <1>13, <2>1 DEF StaleContent
<1> QED
  BY <1>5, <1>7, <1>8, <1>9, <1>10, <1>12, <1>13 DEF CarriedOn

\* With one API process, and whole worker nodes the only thing lost, no unfinished job is
\* forgotten: a message will bring a worker to it, or its retries are exhausted, or the
\* chunks of a stale run keep its own out, or a request is at work on its document.
THEOREM ActiveJobsAreCarried ==
    ASSUME NEW a, ApiProcs = {a}, Faults \subseteq {"node"}
    PROVE  Spec => []ActiveJobIsCarried
<1> DEFINE Inv == OneJobInv /\ DeletionInv /\ ServedInv /\ CarriedInv
<1> "api" \notin Faults
  OBVIOUS
<1>1. Init => Inv
  <2> SUFFICES ASSUME Init PROVE Inv
    OBVIOUS
  <2>1. OneJobInv /\ ServedInv
    BY OneCopyInit, OneJobInit, ServedInit DEF OneJobInv
  <2>2. DeletionInv
    BY DEF Init, DeletionInv, DeletionIsComplete, IdleApi
  <2>3. CarriedInv
    BY DEF Init, CarriedInv, ActiveIsCarriedOn, SettledIsSettled, ActiveJob, IdleWorker, StartedPC
  <2> QED
    BY <2>1, <2>2, <2>3
<1>2. Inv /\ [Next]_vars => Inv'
  <2> SUFFICES ASSUME Inv, [Next]_vars PROVE Inv'
    OBVIOUS
  <2>1. OneCopyInv /\ TypeOK /\ BusyIsPlaced /\ ActiveIsLatest /\ RequestsSettle
    BY DEF OneJobInv, OneCopyInv, ServedInv
  <2>2. OneJobInv' /\ DeletionInv'
    BY <2>1, OneJobStep, DeletionStep
  <2>3. ASSUME NEW w \in Workers, WorkerStep(w) \/ WorkerFault(w) PROVE ServedInv' /\ CarriedInv'
    <3>1. RunEffect(w)
      BY <2>1, <2>3, WorkerStepEffect, WorkerFaultEffect
    <3> QED
      BY <2>1, <2>3, <3>1, ServedWorker, CarriedWorker
  <2>4. ASSUME NEW b \in ApiProcs, ApiRequest(b) \/ ApiStep(b) \/ ApiFault(b) PROVE ServedInv' /\ CarriedInv'
    <3>1. ApiEffect(b) /\ b = a
      BY <2>1, <2>4, ApiRequestEffect, ApiStepEffect, ApiFaultEffect
    <3> QED
      BY <2>1, <2>4, <3>1, ServedApi, CarriedApi
  <2>5. CASE UNCHANGED vars
    <3>1. ServedInv'
      BY <2>5 DEF ServedInv, CompletedJobIsServed, RunsHaveChunks, RequestsSettle, Serving, ApiOn, DocExists,
         IsLatest, JobsOf, JobExists, vars, dbVars
    <3>2. CarriedInv'
      BY <2>5 DEF CarriedInv, ActiveIsCarriedOn, SettledIsSettled, CarriedOn, OnQueue, RunningBy, Refused, BeingSentBy,
         Exhausted, StaleContent, ApiOn, vars, dbVars
    <3> QED
      BY <2>2, <3>1, <3>2
  <2> QED
    BY <2>2, <2>3, <2>4, <2>5 DEF Next
<1>3. Inv => ActiveJobIsCarried
  BY DEF CarriedInv, ActiveIsCarriedOn, ActiveJobIsCarried, CarriedOn, Carried, RunningBy, TakenBy
<1> QED
  BY <1>1, <1>2, <1>3, PTL DEF Spec

-----------------------------------------------------------------------------
(* Attempts are bounded whatever is lost                                   *)

\* The attempts a job has left.  A copy of its message with retry r, written <<r, number>>,
\* allows one for every retry from r on; so does a run, which no longer counts its own once
\* it has written it.
MessageStake(j, c) == IF c[2] < queue[j][c[1]] THEN c[1] ELSE MaxRetries + 1
RunStake(j, w) ==
    IF ~RunningBy(w, j) THEN MaxRetries + 1
    ELSE IF worker[w].pc \in UnstartedPC THEN worker[w].retries ELSE worker[w].retries + 1
MessageAttempts(j) == {m \in (Retries \X Nat) \X Retries : MessageStake(j, m[1]) <= m[2]}
RunAttempts(j) == {m \in Workers \X Retries : RunStake(j, m[1]) <= m[2]}
AttemptsLeft(j) == Cardinality(MessageAttempts(j)) + Cardinality(RunAttempts(j))
Countable(j) == IsFiniteSet(MessageAttempts(j)) /\ IsFiniteSet(RunAttempts(j))
Stakes == 0 .. MaxRetries + 1

\* The attempts S of the holders C become T: holder c changes its stake from m to n.
Restaked(C, S, T, c, m, n) ==
    /\ S \subseteq C \X Retries /\ T \subseteq C \X Retries /\ c \in C /\ m \in Stakes /\ n \in Stakes
    /\ \A k \in Retries : (<<c, k>> \in S <=> m <= k) /\ (<<c, k>> \in T <=> n <= k)
    /\ \A h \in C \ {c}, k \in Retries : <<h, k>> \in T <=> <<h, k>> \in S

\* Their number changes by as much.
LEMMA Restake ==
    ASSUME NEW C, NEW S, NEW T, NEW c, NEW m, NEW n, Restaked(C, S, T, c, m, n), IsFiniteSet(S)
    PROVE  IsFiniteSet(T) /\ Cardinality(T) = Cardinality(S) + m - n
<1> DEFINE Own(s) == {c} \X (s .. MaxRetries)
           Rest == S \ Own(m)
<1>1. MaxRetries \in Nat /\ m \in Stakes /\ n \in Stakes /\ m \in Int /\ n \in Int /\ c \in C
  BY BoundsAssumption DEF Stakes, Restaked
<1>2. ASSUME NEW s \in Stakes PROVE IsFiniteSet(Own(s)) /\ Cardinality(Own(s)) = MaxRetries + 1 - s
  <2>1. IsFiniteSet({c}) /\ Cardinality({c}) = 1
    BY FS_Singleton
  <2>2. s \in Int /\ IsFiniteSet(s .. MaxRetries) /\ Cardinality(s .. MaxRetries) = MaxRetries + 1 - s
    BY <1>1, FS_Interval DEF Stakes
  <2>3. PICK A : A = s .. MaxRetries
    OBVIOUS
  <2>4. IsFiniteSet({c} \X A) /\ Cardinality({c} \X A) = Cardinality({c}) * Cardinality(A)
    BY <2>1, <2>2, <2>3, FS_Product
  <2> QED
    BY <1>1, <2>1, <2>2, <2>3, <2>4
<1>3. /\ \A h \in C, k \in Retries : <<h, k>> \in Own(m) <=> h = c /\ m <= k
      /\ \A h \in C, k \in Retries : <<h, k>> \in Own(n) <=> h = c /\ n <= k
      /\ Own(m) \subseteq C \X Retries /\ Own(n) \subseteq C \X Retries
  BY <1>1 DEF Retries, Stakes
<1> HIDE DEF Own
<1>4. \A h \in C, k \in Retries : /\ <<h, k>> \in Own(m) => <<h, k>> \in S
                                  /\ <<h, k>> \in Rest <=> h # c /\ <<h, k>> \in S
                                  /\ <<h, k>> \in T <=> <<h, k>> \in Rest \/ <<h, k>> \in Own(n)
                                  /\ ~(<<h, k>> \in Rest /\ <<h, k>> \in Own(n))
  BY <1>1, <1>3 DEF Restaked
<1>5. /\ S \subseteq C \X Retries /\ T \subseteq C \X Retries /\ Rest \subseteq C \X Retries
  BY DEF Restaked
<1>6. Own(m) = S \cap Own(m) /\ T = Rest \cup Own(n) /\ Rest \cap Own(n) = {}
  BY <1>3, <1>4, <1>5
<1>7. IsFiniteSet(Rest) /\ Cardinality(Rest) = Cardinality(S) - (MaxRetries + 1 - m)
  <2>1. IsFiniteSet(Rest) /\ Cardinality(Rest) = Cardinality(S) - Cardinality(S \cap Own(m))
    BY FS_Difference
  <2> QED
    BY <1>1, <1>2, <1>6, <2>1
<1> HIDE DEF Rest
<1>8. IsFiniteSet(Own(n)) /\ Cardinality(Own(n)) = MaxRetries + 1 - n
  BY <1>1, <1>2
<1>9. PICK R, O : R = Rest /\ O = Own(n)
  OBVIOUS
<1>10. IsFiniteSet(R \cup O) /\ Cardinality(R \cup O) = Cardinality(R) + Cardinality(O) - Cardinality(R \cap O)
  BY <1>7, <1>8, <1>9, FS_Union
<1>11. Cardinality({}) = 0 /\ Cardinality(S) \in Nat
  BY FS_EmptySet, FS_CardinalityType
<1> QED
  BY <1>1, <1>6, <1>7, <1>8, <1>9, <1>10, <1>11

\* A run that moves on changes the attempts left to its job by the change of its stake.
LEMMA RunsLeft ==
    ASSUME TypeOK, TypeOK', NEW j \in Jobs, NEW w \in Workers, OthersRun(w), Countable(j)
    PROVE  /\ RunStake(j, w) \in Stakes /\ RunStake(j, w)' \in Stakes
           /\ IsFiniteSet(RunAttempts(j)')
           /\ Cardinality(RunAttempts(j)') = Cardinality(RunAttempts(j)) + RunStake(j, w) - RunStake(j, w)'
<1>1. worker[w].retries \in Retries /\ worker'[w].retries \in Retries
  BY DEF TypeOK, WorkerRecord
<1>2. RunStake(j, w) \in Stakes /\ RunStake(j, w)' \in Stakes
  BY <1>1, BoundsAssumption DEF RunStake, Stakes, Retries
<1>3. \A x \in Workers \ {w} : RunStake(j, x)' = RunStake(j, x)
  BY DEF OthersRun, SameRun, RunStake, RunningBy
<1>4. /\ RunAttempts(j) \subseteq Workers \X Retries /\ RunAttempts(j)' \subseteq Workers \X Retries
      /\ \A x \in Workers, k \in Retries : <<x, k>> \in RunAttempts(j) <=> RunStake(j, x) <= k
      /\ \A x \in Workers, k \in Retries : <<x, k>> \in RunAttempts(j)' <=> RunStake(j, x)' <= k
  BY DEF RunAttempts
<1>5. \A x \in Workers \ {w}, k \in Retries : <<x, k>> \in RunAttempts(j)' <=> <<x, k>> \in RunAttempts(j)
  BY <1>3, <1>4
<1>6. \A k \in Retries : /\ <<w, k>> \in RunAttempts(j) <=> RunStake(j, w) <= k
                         /\ <<w, k>> \in RunAttempts(j)' <=> RunStake(j, w)' <= k
  BY <1>4
<1>7. Restaked(Workers, RunAttempts(j), RunAttempts(j)', w, RunStake(j, w), RunStake(j, w)')
  BY <1>2, <1>4, <1>5, <1>6 DEF Restaked
<1> QED
  BY <1>2, <1>7, Restake DEF Countable

\* A message published or taken changes them by all that its retry allows.
LEMMA MessagesLeft ==
    ASSUME TypeOK, NEW j \in Jobs, Countable(j), NEW r \in Retries
    PROVE  /\ queue'[j] = queue[j] => MessageAttempts(j)' = MessageAttempts(j)
           /\ queue'[j] = [queue[j] EXCEPT ![r] = @ + 1] =>
                 /\ IsFiniteSet(MessageAttempts(j)')
                 /\ Cardinality(MessageAttempts(j)') = Cardinality(MessageAttempts(j)) + (MaxRetries + 1) - r
           /\ queue[j][r] > 0 /\ queue'[j] = [queue[j] EXCEPT ![r] = @ - 1] =>
                 /\ IsFiniteSet(MessageAttempts(j)')
                 /\ Cardinality(MessageAttempts(j)') = Cardinality(MessageAttempts(j)) + r - (MaxRetries + 1)
<1>1. /\ queue[j] \in [Retries -> Nat] /\ MaxRetries \in Nat /\ r \in Stakes /\ MaxRetries + 1 \in Stakes
      /\ r \in Nat /\ IsFiniteSet(MessageAttempts(j))
  BY BoundsAssumption DEF TypeOK, Stakes, Retries, Countable
<1> DEFINE C == Retries \X Nat
<1>2. /\ MessageAttempts(j) \subseteq C \X Retries /\ MessageAttempts(j)' \subseteq C \X Retries
      /\ \A c \in C, k \in Retries : <<c, k>> \in MessageAttempts(j) <=> MessageStake(j, c) <= k
      /\ \A c \in C, k \in Retries : <<c, k>> \in MessageAttempts(j)' <=> MessageStake(j, c)' <= k
  BY DEF MessageAttempts
<1>3. ASSUME NEW c \in C, NEW m \in Stakes, NEW n \in Stakes, MessageStake(j, c) = m, MessageStake(j, c)' = n,
             \A e \in C \ {c} : MessageStake(j, e)' = MessageStake(j, e)
      PROVE  /\ IsFiniteSet(MessageAttempts(j)')
             /\ Cardinality(MessageAttempts(j)') = Cardinality(MessageAttempts(j)) + m - n
  <2>1. \A e \in C \ {c}, k \in Retries : <<e, k>> \in MessageAttempts(j)' <=> <<e, k>> \in MessageAttempts(j)
    BY <1>2, <1>3
  <2>2. \A k \in Retries : /\ <<c, k>> \in MessageAttempts(j) <=> m <= k
                           /\ <<c, k>> \in MessageAttempts(j)' <=> n <= k
    BY <1>2, <1>3
  <2>3. Restaked(C, MessageAttempts(j), MessageAttempts(j)', c, m, n)
    BY <1>2, <2>1, <2>2 DEF Restaked
  <2> QED
    BY <1>1, <2>3, Restake
<1>4. ASSUME queue'[j] = [queue[j] EXCEPT ![r] = @ + 1]
      PROVE  /\ IsFiniteSet(MessageAttempts(j)')
             /\ Cardinality(MessageAttempts(j)') = Cardinality(MessageAttempts(j)) + (MaxRetries + 1) - r
  <2>1. PICK i \in Nat : i = queue[j][r]
    BY <1>1
  <2>2. queue'[j][r] = i + 1 /\ \A q \in Retries \ {r} : queue'[j][q] = queue[j][q]
    BY <1>1, <1>4, <2>1
  <2>3. <<r, i>> \in C /\ MessageStake(j, <<r, i>>) = MaxRetries + 1 /\ MessageStake(j, <<r, i>>)' = r
    BY <2>1, <2>2 DEF MessageStake
  <2>4. \A e \in C \ {<<r, i>>} : MessageStake(j, e)' = MessageStake(j, e)
    <3> SUFFICES ASSUME NEW q \in Retries, NEW k \in Nat, q # r \/ k # i
                 PROVE  MessageStake(j, <<q, k>>)' = MessageStake(j, <<q, k>>)
      OBVIOUS
    <3> QED
      BY <2>1, <2>2 DEF MessageStake
  <2> HIDE DEF C
  <2> QED
    BY <1>1, <1>3, <2>3, <2>4
<1>5. ASSUME queue[j][r] > 0, queue'[j] = [queue[j] EXCEPT ![r] = @ - 1]
      PROVE  /\ IsFiniteSet(MessageAttempts(j)')
             /\ Cardinality(MessageAttempts(j)') = Cardinality(MessageAttempts(j)) + r - (MaxRetries + 1)
  <2>1. PICK i \in Nat : i + 1 = queue[j][r]
    <3>1. queue[j][r] \in Nat /\ queue[j][r] - 1 \in Nat
      BY <1>1, <1>5
    <3> QED
      BY <3>1
  <2>2. queue'[j][r] = i /\ \A q \in Retries \ {r} : queue'[j][q] = queue[j][q]
    BY <1>1, <1>5, <2>1
  <2>3. <<r, i>> \in C /\ MessageStake(j, <<r, i>>) = r /\ MessageStake(j, <<r, i>>)' = MaxRetries + 1
    BY <2>1, <2>2 DEF MessageStake
  <2>4. \A e \in C \ {<<r, i>>} : MessageStake(j, e)' = MessageStake(j, e)
    <3> SUFFICES ASSUME NEW q \in Retries, NEW k \in Nat, q # r \/ k # i
                 PROVE  MessageStake(j, <<q, k>>)' = MessageStake(j, <<q, k>>)
      OBVIOUS
    <3> QED
      BY <2>1, <2>2 DEF MessageStake
  <2> HIDE DEF C
  <2> QED
    BY <1>1, <1>3, <2>3, <2>4
<1>6. queue'[j] = queue[j] => MessageAttempts(j)' = MessageAttempts(j)
  BY DEF MessageAttempts, MessageStake
<1> QED
  BY <1>4, <1>5, <1>6

\* A worker step leaves no more attempts than before, one less when it counts one; only a
\* lost node, which returns the message of a run that may have published the next, adds some.
LeavesAttempts(w, j) ==
    IF CountsAttempt(w) /\ JobToDo(w) = j THEN AttemptsLeft(j)' + 1 = AttemptsLeft(j)
    ELSE IF NodeLost(w) THEN AttemptsLeft(j)' <= AttemptsLeft(j) + MaxRetries + 1
    ELSE AttemptsLeft(j)' <= AttemptsLeft(j)

LEMMA AttemptsLeftWorker ==
    ASSUME TypeOK, TypeOK', BusyIsPlaced, NEW w \in Workers, WorkerStep(w) \/ WorkerFault(w), RunEffect(w),
           NEW j \in Jobs, Countable(j)
    PROVE  Countable(j)' /\ LeavesAttempts(w, j)
<1> DEFINE M == Cardinality(MessageAttempts(j))
           R == Cardinality(RunAttempts(j))
           s == RunStake(j, w)
<1>1. /\ s \in Stakes /\ s' \in Stakes /\ IsFiniteSet(RunAttempts(j)') /\ R' = R + s - s'
  BY RunsLeft DEF RunEffect
<1>2. M \in Nat /\ R \in Nat /\ MaxRetries \in Nat /\ s \in 0 .. MaxRetries + 1 /\ s' \in 0 .. MaxRetries + 1
  BY <1>1, FS_CardinalityType, BoundsAssumption DEF Countable, Stakes
<1>3. queue'[j] = queue[j] => IsFiniteSet(MessageAttempts(j)') /\ M' = M
  <2>1. 0 \in Retries
    BY BoundsAssumption DEF Retries
  <2> QED
    BY <2>1, MessagesLeft DEF Countable
<1>4. AttemptsLeft(j) = M + R /\ AttemptsLeft(j)' = M' + R'
  BY DEF AttemptsLeft
<1>5. s = IF ~RunningBy(w, j) THEN MaxRetries + 1
          ELSE IF worker[w].pc \in UnstartedPC THEN worker[w].retries ELSE worker[w].retries + 1
  BY DEF RunStake
<1>6. s' = IF ~RunningBy(w, j)' THEN MaxRetries + 1
           ELSE IF worker'[w].pc \in UnstartedPC THEN worker'[w].retries ELSE worker'[w].retries + 1
  BY DEF RunStake
<1>7. /\ worker[w].retries \in Retries /\ worker'[w].retries \in Retries /\ queue \in [Jobs -> [Retries -> Nat]]
      /\ \A r \in Retries : r \in 0 .. MaxRetries
      /\ worker[w].pc # "idle" => JobToDo(w) \in Jobs
  BY BusyJob DEF TypeOK, WorkerRecord, Retries
<1>8. RunningBy(w, j) <=> worker[w].pc \notin {"idle", "ack"} /\ JobToDo(w) = j
  BY DEF RunningBy, JobToDo
<1>9. ComesFrom(w)
  BY RunProgress
<1> HIDE DEF M, R, s
<1>10. CASE Takes(w)
  <2>1. PICK i \in Jobs, r \in Retries :
           /\ i = worker'[w].job /\ r = worker'[w].retries /\ worker[w].pc = "idle" /\ worker'[w].pc = "loadJob"
           /\ queue[i][r] > 0 /\ queue' = [queue EXCEPT ![i][r] = @ - 1]
    BY <1>10 DEF Takes
  <2>2. ~CountsAttempt(w) /\ ~NodeLost(w) /\ s = MaxRetries + 1
    BY <1>5, <1>8, <2>1 DEF CountsAttempt, NodeLost
  <2>3. CASE i = j
    <3>1. RunningBy(w, j)' /\ s' = r
      BY <1>6, <2>1, <2>3 DEF RunningBy, UnstartedPC
    <3>2. queue'[j] = [queue[j] EXCEPT ![r] = @ - 1] /\ queue[j][r] > 0
      BY <1>7, <2>1, <2>3
    <3>3. IsFiniteSet(MessageAttempts(j)') /\ M' = M + r - (MaxRetries + 1)
      BY <3>2, MessagesLeft DEF M
    <3>4. M' + R' <= M + R
      BY <1>1, <1>2, <1>7, <2>2, <3>1, <3>3
    <3> QED
      BY <1>1, <1>4, <2>2, <3>3, <3>4 DEF Countable, LeavesAttempts
  <2>4. CASE i # j
    <3>1. ~RunningBy(w, j)' /\ s' = MaxRetries + 1 /\ queue'[j] = queue[j]
      BY <1>6, <2>1, <2>4 DEF RunningBy
    <3>2. M' + R' <= M + R
      BY <1>1, <1>2, <1>3, <2>2, <3>1
    <3> QED
      BY <1>1, <1>3, <1>4, <2>2, <3>1, <3>2 DEF Countable, LeavesAttempts
  <2> QED
    BY <2>3, <2>4
<1>11. CASE Continues(w)
  <2>1. /\ worker[w].pc # "idle" /\ worker'[w].pc # "idle" /\ worker'[w].job = worker[w].job
        /\ worker'[w].retries = worker[w].retries /\ queue' = queue
    BY <1>11 DEF Continues, SameMessage
  <2>2. ~NodeLost(w)
    <3>1. NodeLost(w) => worker'[w].pc = "idle"
      BY DEF NodeLost, TypeOK, IdleWorker
    <3> QED
      BY <2>1, <3>1
  <2>3. IsFiniteSet(MessageAttempts(j)') /\ M' = M
    BY <1>3, <2>1
  <2>4. CASE CountsAttempt(w) /\ JobToDo(w) = j
    <3>1. s = worker[w].retries /\ s' = worker[w].retries + 1
      BY <1>5, <1>6, <2>1, <2>4 DEF CountsAttempt, RunningBy, UnstartedPC, JobToDo
    <3>2. M' + R' + 1 = M + R
      BY <1>1, <1>2, <1>7, <2>3, <3>1
    <3> QED
      BY <1>1, <1>4, <2>3, <2>4, <3>2 DEF Countable, LeavesAttempts
  <2>5. CASE ~(CountsAttempt(w) /\ JobToDo(w) = j)
    <3>1. s <= s'
      <4>1. CASE ~RunningBy(w, j)'
        BY <1>2, <1>6, <4>1
      <4>2. CASE RunningBy(w, j)'
        <5>1. RunningBy(w, j)
          BY <1>9, <2>1, <4>2 DEF RunningBy, ComesFrom
        <5>2. worker'[w].pc \in UnstartedPC => worker[w].pc \in UnstartedPC
          BY <2>1, AttemptsWritten DEF UnstartedPC
        <5> QED
          BY <1>5, <1>6, <1>7, <2>1, <4>2, <5>1, <5>2
      <4> QED
        BY <4>1, <4>2
    <3>2. M' + R' <= M + R
      <4>1. PICK p \in Int, q \in Int : p = s /\ q = s'
        BY <1>2
      <4>2. PICK x \in Int, y \in Int : x = M /\ y = R
        BY <1>2
      <4>3. M' = x /\ R' = y + p - q /\ p <= q
        BY <1>1, <2>3, <3>1, <4>1, <4>2
      <4>4. x + (y + p - q) <= x + y
        BY <4>3
      <4> QED
        BY <4>2, <4>3, <4>4
    <3> QED
      BY <1>1, <1>4, <2>2, <2>3, <2>5, <3>2 DEF Countable, LeavesAttempts
  <2> QED
    BY <2>4, <2>5
<1>12. CASE worker[w].pc # "idle" /\ worker'[w].pc = "idle"
  <2>1. ~CountsAttempt(w) /\ s' = MaxRetries + 1
    BY <1>6, <1>12 DEF CountsAttempt, RunningBy
  <2>2. CASE queue'[j] = queue[j]
    <3>1. M' + R' <= M + R
      BY <1>1, <1>2, <1>3, <2>1, <2>2
    <3> QED
      BY <1>1, <1>2, <1>3, <1>4, <2>1, <2>2, <3>1 DEF Countable, LeavesAttempts
  <2>3. CASE queue'[j] # queue[j]
    <3>1. NodeLost(w) /\ queue' = [queue EXCEPT ![JobToDo(w)][worker[w].retries] = @ + 1]
      BY <1>9, <1>12, <2>3 DEF ComesFrom, NodeLost
    <3>2. PICK r \in Retries : r = worker[w].retries
      BY <1>7
    <3>3. JobToDo(w) = j /\ queue'[j] = [queue[j] EXCEPT ![r] = @ + 1]
      BY <1>7, <1>12, <2>3, <3>1, <3>2
    <3>4. IsFiniteSet(MessageAttempts(j)') /\ M' = M + (MaxRetries + 1) - r
      BY <3>3, MessagesLeft DEF M
    <3>5. M' + R' <= M + R + MaxRetries + 1
      BY <1>1, <1>2, <1>7, <2>1, <3>4
    <3> QED
      BY <1>1, <1>4, <2>1, <3>1, <3>4, <3>5 DEF Countable, LeavesAttempts
  <2> QED
    BY <2>2, <2>3
<1>13. CASE Republishes(w)
  <2>1. PICK r \in Retries :
           /\ r = worker[w].retries + 1 /\ worker[w].pc = "retry" /\ worker'[w].pc = "ack"
           /\ queue' = [queue EXCEPT ![JobToDo(w)][r] = @ + 1]
    BY <1>13 DEF Republishes
  <2>2. ~CountsAttempt(w) /\ ~NodeLost(w) /\ s' = MaxRetries + 1
    <3>1. NodeLost(w) => worker'[w].pc = "idle"
      BY DEF NodeLost, TypeOK, IdleWorker
    <3> QED
      BY <1>6, <2>1, <3>1 DEF CountsAttempt, RunningBy
  <2>3. CASE JobToDo(w) = j
    <3>1. s = r
      BY <1>5, <1>8, <2>1, <2>3 DEF UnstartedPC
    <3>2. queue'[j] = [queue[j] EXCEPT ![r] = @ + 1]
      BY <1>7, <2>1, <2>3
    <3>3. IsFiniteSet(MessageAttempts(j)') /\ M' = M + (MaxRetries + 1) - r
      BY <3>2, MessagesLeft DEF M
    <3>4. M' + R' <= M + R
      BY <1>1, <1>2, <1>7, <2>2, <3>1, <3>3
    <3> QED
      BY <1>1, <1>4, <2>2, <3>3, <3>4 DEF Countable, LeavesAttempts
  <2>4. CASE JobToDo(w) # j
    <3>1. queue'[j] = queue[j]
      BY <2>1, <2>4
    <3>2. M' + R' <= M + R
      BY <1>1, <1>2, <1>3, <2>2, <3>1
    <3> QED
      BY <1>1, <1>3, <1>4, <2>2, <3>1, <3>2 DEF Countable, LeavesAttempts
  <2> QED
    BY <2>3, <2>4
<1> QED
  BY <1>10, <1>11, <1>12, <1>13 DEF RunEffect, Moves, Drops, GivesBack

\* With the attempts already counted, or loaded to be counted, they are within the bound;
\* a job whose message is about to be sent has no other copy and no attempt behind it.
Allowed == (MaxRetries + 1) * (1 + faults)
AttemptsAllowed ==
    /\ \A j \in Jobs : Countable(j) /\ attempts[j] + AttemptsLeft(j) <= Allowed
    /\ \A w \in Workers, j \in Jobs :
          worker[w].pc \in {"loadDoc", "markJob"} /\ worker[w].job = j =>
              worker[w].attempt + AttemptsLeft(j) <= Allowed
Unsent(j) == attempts[j] = 0 /\ ~OnQueue(j) /\ \A w \in Workers : ~TakenBy(w, j)
UnsentJobs ==
    /\ \A j \in Jobs : jobStatus[j] = "unborn" => attempts[j] = 0
    /\ \A a \in ApiProcs, j \in Jobs : BeingSentBy(a, j) =>
          Unsent(j) /\ \A b \in ApiProcs : BeingSentBy(b, j) => b = a

LEMMA LeftType ==
    ASSUME NEW j, Countable(j)
    PROVE  AttemptsLeft(j) \in Nat
BY FS_CardinalityType DEF AttemptsLeft, Countable

\* A job without message or run has no attempt left.
LEMMA NothingLeft ==
    ASSUME TypeOK, NEW j \in Jobs, ~OnQueue(j), \A w \in Workers : ~TakenBy(w, j)
    PROVE  Countable(j) /\ AttemptsLeft(j) = 0
<1>1. MaxRetries \in Nat /\ \A r \in Retries : r \in 0 .. MaxRetries /\ queue[j][r] = 0
  BY BoundsAssumption DEF TypeOK, OnQueue, Retries
<1>2. \A c \in Retries \X Nat : MessageStake(j, c) = MaxRetries + 1
  BY <1>1 DEF MessageStake
<1>3. MessageAttempts(j) = {}
  BY <1>1, <1>2 DEF MessageAttempts
<1>4. \A w \in Workers : RunStake(j, w) = MaxRetries + 1
  BY DEF RunStake, RunningBy, TakenBy
<1>5. RunAttempts(j) = {}
  BY <1>1, <1>4 DEF RunAttempts
<1> QED
  BY <1>3, <1>5, FS_EmptySet DEF Countable, AttemptsLeft

\* The bound grows with every fault, and never otherwise.
LEMMA AllowedStep ==
    ASSUME TypeOK, Next
    PROVE  /\ Allowed \in Nat /\ Allowed' \in Nat /\ Allowed <= Allowed'
           /\ \A w \in Workers : NodeLost(w) => Allowed' = Allowed + MaxRetries + 1
<1>1. faults \in Nat /\ MaxRetries \in Nat
  BY BoundsAssumption DEF TypeOK
<1>2. faults' = faults \/ faults' = faults + 1
  <2>1. ASSUME NEW w \in Workers, WorkerStep(w) \/ WorkerFault(w) PROVE faults' = faults \/ faults' = faults + 1
    BY <2>1 DEF WorkerStep, WorkerFault, Receive, LoadJob, LoadDocument, MarkJobProcessing, MarkDocProcessing,
       ReadAndEmbed, ReplaceChunksDelete, ReplaceChunksInsert, ChunkStorageFails, RefreshChunks, CompleteJob,
       IndexDocument, FailIngestion, RequestRetryOrFail, FailIngestionByIds, Acknowledge, TaskAborted,
       RepublishFails, NodeLost, Fault
  <2>2. ASSUME NEW a \in ApiProcs, ApiRequest(a) \/ ApiStep(a) \/ ApiFault(a)
        PROVE  faults' = faults \/ faults' = faults + 1
    BY <2>2 DEF ApiRequest, SaveFile, RequestReindex, RequestDelete, ApiStep, CreateDocument, AuditUpload, RecordAudit,
       RefreshFails, CreateJob, Enqueue, ReindexDeleteChunks, DeleteDocumentChunks, DeleteChunks,
       ReindexResetDocument, AuditReindex, DeleteJobs, AuditDelete, DeleteDocument, DeleteFile,
       ApiFault, ApiAborted, EnqueueFails, Fault
  <2> QED
    BY <2>1, <2>2 DEF Next
<1>3. \A w \in Workers : NodeLost(w) => faults' = faults + 1
  BY DEF NodeLost, Fault
<1>4. \A m, f \in Nat : (m + 1) * (1 + f) \in Nat /\ (m + 1) * (1 + (f + 1)) = (m + 1) * (1 + f) + m + 1
  OBVIOUS
<1>5. Allowed \in Nat /\ (faults' = faults + 1 => Allowed' = Allowed + MaxRetries + 1)
  BY <1>1, <1>4 DEF Allowed
<1>6. faults' = faults => Allowed' = Allowed
  BY DEF Allowed
<1> QED
  BY <1>1, <1>2, <1>3, <1>5, <1>6

\* A run counts against the attempts left one of its own.
LEMMA AllowedWorker ==
    ASSUME TypeOK, TypeOK', BusyIsPlaced, AttemptsAllowed, Next,
           NEW w \in Workers, WorkerStep(w) \/ WorkerFault(w), RunEffect(w)
    PROVE  AttemptsAllowed'
<1>1. /\ Allowed \in Nat /\ Allowed' \in Nat /\ Allowed <= Allowed' /\ MaxRetries \in Nat
      /\ NodeLost(w) => Allowed' = Allowed + MaxRetries + 1
  BY AllowedStep, BoundsAssumption
<1>2. /\ attempts \in [Jobs -> Nat]
      /\ \A x \in Workers : worker[x].attempt \in Nat
      /\ worker[w].pc # "idle" => JobToDo(w) \in Jobs
  BY BusyJob DEF TypeOK, WorkerRecord
\* What fitted before fits still.
<1>3. ASSUME NEW j \in Jobs
      PROVE  /\ Countable(j)' /\ AttemptsLeft(j) \in Nat /\ AttemptsLeft(j)' \in Nat
             /\ \A n \in Nat : n + AttemptsLeft(j) <= Allowed => n + AttemptsLeft(j)' <= Allowed'
             /\ CountsAttempt(w) /\ JobToDo(w) = j => AttemptsLeft(j)' + 1 = AttemptsLeft(j)
  <2>1. Countable(j) /\ Countable(j)' /\ LeavesAttempts(w, j)
    BY AttemptsLeftWorker DEF AttemptsAllowed
  <2>2. PICK x \in Nat, y \in Nat : x = AttemptsLeft(j) /\ y = AttemptsLeft(j)'
    <3>1. AttemptsLeft(j) \in Nat
      BY <2>1, LeftType
    <3>2. AttemptsLeft(j)' \in Nat
      BY <2>1, FS_CardinalityType DEF AttemptsLeft, Countable
    <3> QED
      BY <3>1, <3>2
  <2>3. y <= x \/ (NodeLost(w) /\ y <= x + MaxRetries + 1)
    BY <1>1, <2>1, <2>2 DEF LeavesAttempts
  <2>4. PICK p \in Nat, q \in Nat : p = Allowed /\ q = Allowed'
    BY <1>1
  <2>5. p <= q /\ (NodeLost(w) => q = p + MaxRetries + 1)
    BY <1>1, <2>4
  <2>6. \A n \in Nat : n + x <= p => n + y <= q
    BY <1>1, <2>3, <2>5
  <2> QED
    BY <2>1, <2>2, <2>4, <2>6 DEF LeavesAttempts
<1>4. ASSUME NEW j \in Jobs PROVE Countable(j)' /\ attempts'[j] + AttemptsLeft(j)' <= Allowed'
  <2>1. CASE CountsAttempt(w) /\ JobToDo(w) = j
    <3>1. /\ attempts'[j] = worker[w].attempt + 1 /\ worker[w].attempt + AttemptsLeft(j) <= Allowed
          /\ worker[w].attempt \in Nat
      BY <1>2, <2>1 DEF CountsAttempt, AttemptsAllowed, JobToDo
    <3>2. PICK x \in Nat, y \in Nat, n \in Nat :
             x = AttemptsLeft(j) /\ y = AttemptsLeft(j)' /\ n = worker[w].attempt
      BY <1>2, <1>3
    <3>3. y + 1 = x /\ n + x <= Allowed /\ attempts'[j] = n + 1
      BY <1>3, <2>1, <3>1, <3>2
    <3>4. (n + 1) + y <= Allowed'
      BY <1>1, <3>3
    <3> QED
      BY <1>3, <3>2, <3>3, <3>4
  <2>2. CASE ~(CountsAttempt(w) /\ JobToDo(w) = j)
    <3>1. attempts'[j] = attempts[j] /\ attempts[j] \in Nat
      BY <1>2, <2>2, AttemptsWritten DEF CountsAttempt
    <3> QED
      BY <1>3, <3>1 DEF AttemptsAllowed
  <2> QED
    BY <2>1, <2>2
<1>5. ASSUME NEW x \in Workers, NEW j \in Jobs, worker'[x].pc \in {"loadDoc", "markJob"}, worker'[x].job = j
      PROVE  worker'[x].attempt + AttemptsLeft(j)' <= Allowed'
  <2>1. j = worker[x].job /\ worker[x].pc # "idle"
    <3>1. CASE x = w
      BY <1>5, <3>1 DEF RunEffect, Moves, Continues, Takes, Drops, GivesBack, Republishes, SameMessage, JobToDo
    <3>2. CASE x # w
      BY <1>5, <3>2 DEF RunEffect, OthersRun, SameRun
    <3> QED
      BY <3>1, <3>2
  <2>2. \E n \in Nat : worker'[x].attempt = n /\ n + AttemptsLeft(j) <= Allowed
    <3>1. CASE x # w
      BY <1>2, <1>5, <2>1, <3>1, AttemptsWritten DEF RunEffect, OthersRun, SameRun, AttemptsAllowed
    <3>2. CASE x = w /\ worker'[x].pc = "loadDoc"
      BY <1>2, <2>1, <3>2, AttemptsWritten DEF AttemptsAllowed, JobToDo
    <3>3. CASE x = w /\ worker'[x].pc = "markJob"
      BY <1>2, <2>1, <3>3, AttemptsWritten DEF AttemptsAllowed
    <3> QED
      BY <1>5, <3>1, <3>2, <3>3
  <2> QED
    BY <1>3, <2>2
<1> QED
  BY <1>4, <1>5 DEF AttemptsAllowed

\* A worker leaves a job that is not sent yet alone.
LEMMA UnsentWorker ==
    ASSUME TypeOK, BusyIsPlaced, BirthOrder, UnsentJobs,
           NEW w \in Workers, WorkerStep(w) \/ WorkerFault(w), RunEffect(w)
    PROVE  UnsentJobs'
<1>1. ASSUME NEW j \in Jobs, ~OnQueue(j), \A x \in Workers : ~TakenBy(x, j)
      PROVE  attempts'[j] = attempts[j] /\ ~OnQueue(j)' /\ \A x \in Workers : ~TakenBy(x, j)'
  <2>1. ~(Takes(w) /\ worker'[w].job = j)
    BY <1>1 DEF Takes, OnQueue
  <2>2. queue'[j] = queue[j] /\ ~TakenBy(w, j)'
    BY <1>1, <2>1, OtherMessages
  <2>3. \A x \in Workers \ {w} : ~TakenBy(x, j)'
    BY <1>1 DEF TakenBy, RunEffect, OthersRun, SameRun
  <2>4. attempts'[j] = attempts[j]
    <3>1. CASE CountsAttempt(w)
      <4>1. JobToDo(w) # j
        BY <1>1, <3>1 DEF CountsAttempt, TakenBy, JobToDo
      <4> QED
        BY <3>1, <4>1 DEF CountsAttempt, TypeOK
    <3> QED
      BY <3>1, AttemptsWritten
  <2> QED
    BY <1>1, <2>2, <2>3, <2>4 DEF OnQueue
<1>2. \A j \in Jobs : jobStatus'[j] = "unborn" => jobStatus[j] = "unborn"
  BY WorkerWrites
<1>3. \A j \in Jobs : jobStatus[j] = "unborn" => ~OnQueue(j) /\ \A x \in Workers : ~TakenBy(x, j)
  <2>1. \A j \in Jobs : jobStatus[j] = "unborn" => \A r \in Retries : queue[j][r] = 0
    BY DEF BirthOrder
  <2> QED
    BY <2>1 DEF BirthOrder, OnQueue
<1>4. api' = api
  BY DEF RunEffect
<1> QED
  BY <1>1, <1>2, <1>3, <1>4 DEF UnsentJobs, Unsent, BeingSentBy

\* A request sends the only copy of a job that has not been attempted.
LEMMA AllowedApi ==
    ASSUME TypeOK, BusyIsPlaced, AttemptsAllowed, UnsentJobs, Next,
           NEW a \in ApiProcs, ApiRequest(a) \/ ApiStep(a) \/ ApiFault(a), ApiEffect(a)
    PROVE  AttemptsAllowed'
<1>1. attempts' = attempts /\ \A x \in Workers : worker'[x].attempt = worker[x].attempt
  BY AttemptsKept
<1>2. \A x \in Workers : SameRun(x)
  BY DEF ApiEffect, AllRunsSame
<1>3. /\ Allowed \in Nat /\ Allowed' \in Nat /\ Allowed <= Allowed' /\ MaxRetries \in Nat
      /\ MaxRetries + 1 <= Allowed
  <2>1. faults \in Nat /\ MaxRetries \in Nat
    BY BoundsAssumption DEF TypeOK
  <2>2. \A m, f \in Nat : m + 1 <= (m + 1) * (1 + f)
    OBVIOUS
  <2> QED
    BY <2>1, <2>2, AllowedStep DEF Allowed
<1>4. ASSUME NEW j \in Jobs
      PROVE  /\ Countable(j)' /\ attempts[j] + AttemptsLeft(j)' <= Allowed'
             /\ \A x \in Workers : worker[x].pc \in {"loadDoc", "markJob"} /\ worker[x].job = j =>
                   worker[x].attempt + AttemptsLeft(j)' <= Allowed'
  <2>1. RunAttempts(j)' = RunAttempts(j)
    BY <1>2 DEF SameRun, RunAttempts, RunStake, RunningBy
  <2>2. Countable(j) /\ attempts[j] \in Nat /\ \A x \in Workers : worker[x].attempt \in Nat
    BY DEF AttemptsAllowed, TypeOK, WorkerRecord
  <2>3. CASE queue'[j] = queue[j]
    <3>1. MessageAttempts(j)' = MessageAttempts(j)
      BY <2>3 DEF MessageAttempts, MessageStake
    <3>2. Countable(j)' /\ AttemptsLeft(j)' = AttemptsLeft(j)
      BY <2>1, <2>2, <3>1 DEF Countable, AttemptsLeft
    <3>3. PICK n \in Nat : n = AttemptsLeft(j)
      BY <2>2, LeftType
    <3> QED
      BY <1>3, <2>2, <3>2, <3>3 DEF AttemptsAllowed
  <2>4. CASE SendsJob(a) /\ api[a].job = j
    <3>1. Unsent(j)
      BY <2>4 DEF SendsJob, UnsentJobs, BeingSentBy
    <3>2. AttemptsLeft(j) = 0
      BY <3>1, NothingLeft DEF Unsent
    <3>3. queue'[j] = [queue[j] EXCEPT ![0] = @ + 1] /\ 0 \in Retries
      BY <2>4, BoundsAssumption DEF SendsJob, TypeOK, Retries
    <3>4. /\ IsFiniteSet(MessageAttempts(j)')
          /\ Cardinality(MessageAttempts(j)') = Cardinality(MessageAttempts(j)) + (MaxRetries + 1) - 0
      BY <2>2, <3>3, MessagesLeft
    <3>5. Countable(j)'
      BY <2>1, <2>2, <3>4 DEF Countable
    <3>6. AttemptsLeft(j)' = MaxRetries + 1
      <4>1. PICK m \in Nat, r \in Nat : m = Cardinality(MessageAttempts(j)) /\ r = Cardinality(RunAttempts(j))
        BY <2>2, FS_CardinalityType DEF Countable
      <4>2. m + r = 0
        BY <3>2, <4>1 DEF AttemptsLeft
      <4>3. Cardinality(MessageAttempts(j)') = MaxRetries + 1 /\ Cardinality(RunAttempts(j)') = 0
        BY <1>3, <2>1, <3>4, <4>1, <4>2
      <4> QED
        BY <1>3, <4>3 DEF AttemptsLeft
    <3>7. \A x \in Workers : ~(worker[x].pc \in {"loadDoc", "markJob"} /\ worker[x].job = j)
      BY <3>1 DEF Unsent, TakenBy
    <3> QED
      BY <1>3, <3>1, <3>5, <3>6, <3>7 DEF Unsent
  <2>5. queue'[j] = queue[j] \/ (SendsJob(a) /\ api[a].job = j)
    <3>1. SendsJob(a) => api[a].job \in Jobs
      BY DEF SendsJob, BusyIsPlaced
    <3> QED
      BY <3>1 DEF ApiEffect, KeepsJobs, CreatesJob, SendsJob, PurgesJobs, TypeOK
  <2> QED
    BY <2>3, <2>4, <2>5
<1>5. \A x \in Workers : worker'[x].pc = worker[x].pc /\ worker'[x].job = worker[x].job
  BY <1>2 DEF SameRun
<1>6. \A j \in Jobs : Countable(j)' /\ attempts'[j] + AttemptsLeft(j)' <= Allowed'
  BY <1>1, <1>4
<1>7. \A x \in Workers, j \in Jobs : worker'[x].pc \in {"loadDoc", "markJob"} /\ worker'[x].job = j =>
         worker'[x].attempt + AttemptsLeft(j)' <= Allowed'
  BY <1>1, <1>4, <1>5
<1> QED
  BY <1>6, <1>7 DEF AttemptsAllowed

\* The job a request creates is sent by that request alone.
LEMMA UnsentApi ==
    ASSUME TypeOK, BusyIsPlaced, BirthOrder, UnsentJobs,
           NEW a \in ApiProcs, ApiRequest(a) \/ ApiStep(a) \/ ApiFault(a), ApiEffect(a)
    PROVE  UnsentJobs'
<1>1. attempts' = attempts
  BY AttemptsKept
<1>2. \A x \in Workers : SameRun(x)
  BY DEF ApiEffect, AllRunsSame
<1>3. \A b \in ApiProcs \ {a} : api'[b] = api[b]
  BY DEF ApiEffect, OthersServe
<1>4. ASSUME NEW j \in Jobs, jobStatus[j] = "unborn"
      PROVE  Unsent(j) /\ \A b \in ApiProcs : ~BeingSentBy(b, j)
  <2>1. \A r \in Retries : queue[j][r] = 0
    BY <1>4 DEF BirthOrder
  <2> QED
    BY <1>4, <2>1 DEF BirthOrder, UnsentJobs, Unsent, OnQueue
<1>5. ASSUME NEW j \in Jobs, Unsent(j), ~(SendsJob(a) /\ api[a].job = j)
      PROVE  Unsent(j)'
  <2>1. SendsJob(a) => api[a].job \in Jobs
    BY DEF SendsJob, BusyIsPlaced
  <2>2. queue'[j] = queue[j]
    BY <1>5, <2>1 DEF ApiEffect, KeepsJobs, CreatesJob, SendsJob, PurgesJobs, TypeOK
  <2> QED
    BY <1>1, <1>2, <1>5, <2>2 DEF Unsent, OnQueue, TakenBy, SameRun
<1>6. \A j \in Jobs : jobStatus'[j] = "unborn" => jobStatus[j] = "unborn"
  BY DEF ApiEffect, KeepsJobs, CreatesJob, SendsJob, PurgesJobs, TypeOK
<1>7. ASSUME NEW b \in ApiProcs, NEW j \in Jobs, BeingSentBy(b, j)'
      PROVE  Unsent(j)' /\ \A c \in ApiProcs : BeingSentBy(c, j)' => c = b
  <2>1. CASE CreatesJob(a) /\ api'[a].job = j
    <3>1. jobStatus[j] = "unborn" /\ ~SendsJob(a)
      BY <2>1 DEF CreatesJob, SendsJob
    <3>2. \A c \in ApiProcs \ {a} : ~BeingSentBy(c, j)'
      BY <1>3, <1>4, <3>1 DEF BeingSentBy
    <3> QED
      BY <1>4, <1>5, <1>7, <3>1, <3>2
  <2>2. CASE ~(CreatesJob(a) /\ api'[a].job = j)
    <3>1. ~BeingSentBy(a, j)'
      BY <2>2 DEF ApiEffect, KeepsJobs, CreatesJob, SendsJob, PurgesJobs, BeingSentBy
    <3>2. \A c \in ApiProcs : BeingSentBy(c, j)' => c # a /\ BeingSentBy(c, j)
      BY <1>3, <3>1 DEF BeingSentBy
    <3>3. ~(SendsJob(a) /\ api[a].job = j)
      BY <1>7, <3>2 DEF SendsJob, UnsentJobs, BeingSentBy
    <3> QED
      BY <1>5, <1>7, <3>2, <3>3 DEF UnsentJobs
  <2> QED
    BY <2>1, <2>2
<1>8. \A j \in Jobs : jobStatus'[j] = "unborn" => attempts'[j] = 0
  BY <1>1, <1>6 DEF UnsentJobs
<1>9. \A b \in ApiProcs, j \in Jobs : BeingSentBy(b, j)' =>
         Unsent(j)' /\ \A c \in ApiProcs : BeingSentBy(c, j)' => c = b
  BY <1>7
<1> QED
  BY <1>8, <1>9 DEF UnsentJobs

\* A job is attempted once and once per retry, and as often again for every fault, whatever
\* is lost: two runs that load the same count write the same one, and none of them, retried
\* or given back, counts more attempts than its message still allowed.
THEOREM AttemptsBoundedUnderFaults == Spec => []AttemptsBounded
<1> DEFINE Inv == AttemptsAllowed /\ UnsentJobs
<1>1. Init => Inv
  <2> SUFFICES ASSUME Init PROVE AttemptsAllowed /\ UnsentJobs
    OBVIOUS
  <2>1. /\ \A w \in Workers : worker[w].pc = "idle"
        /\ \A a \in ApiProcs : api[a].pc = "idle"
        /\ \A j \in Jobs : attempts[j] = 0 /\ \A r \in Retries : queue[j][r] = 0
    BY DEF Init, IdleWorker, IdleApi
  <2>2. TypeOK /\ Allowed \in Nat
    <3>1. TypeOK
      BY TypeInit
    <3>2. faults \in Nat /\ MaxRetries \in Nat
      BY <3>1, BoundsAssumption DEF TypeOK
    <3> QED
      BY <3>1, <3>2 DEF Allowed
  <2>3. \A j \in Jobs : ~OnQueue(j) /\ \A w \in Workers : ~TakenBy(w, j)
    BY <2>1 DEF OnQueue, TakenBy
  <2>4. \A j \in Jobs : Countable(j) /\ AttemptsLeft(j) = 0
    BY <2>2, <2>3, NothingLeft
  <2>5. AttemptsAllowed
    BY <2>1, <2>2, <2>4 DEF AttemptsAllowed
  <2> QED
    BY <2>1, <2>5 DEF UnsentJobs, BeingSentBy
<1>2. OneCopyInv /\ OneCopyInv' /\ Inv /\ [Next]_vars => Inv'
  <2> SUFFICES ASSUME OneCopyInv, OneCopyInv', AttemptsAllowed, UnsentJobs, [Next]_vars
               PROVE  AttemptsAllowed' /\ UnsentJobs'
    OBVIOUS
  <2>1. TypeOK /\ TypeOK' /\ BusyIsPlaced /\ BirthOrder
    BY DEF OneCopyInv
  <2>2. CASE UNCHANGED vars
    <3>1. UnsentJobs'
      BY <2>2 DEF UnsentJobs, Unsent, BeingSentBy, OnQueue, TakenBy, vars, dbVars
    <3>2. AttemptsAllowed'
      BY <2>2 DEF AttemptsAllowed, Allowed, Countable, AttemptsLeft, MessageAttempts, RunAttempts,
         MessageStake, RunStake, RunningBy, vars, dbVars
    <3> QED
      BY <3>1, <3>2
  <2>3. ASSUME Next, NEW w \in Workers, WorkerStep(w) \/ WorkerFault(w) PROVE AttemptsAllowed' /\ UnsentJobs'
    <3>1. RunEffect(w)
      BY <2>1, <2>3, WorkerStepEffect, WorkerFaultEffect
    <3> QED
      BY <2>1, <2>3, <3>1, AllowedWorker, UnsentWorker
  <2>4. ASSUME Next, NEW a \in ApiProcs, ApiRequest(a) \/ ApiStep(a) \/ ApiFault(a)
        PROVE  AttemptsAllowed' /\ UnsentJobs'
    <3>1. ApiEffect(a)
      BY <2>1, <2>4, ApiRequestEffect, ApiStepEffect, ApiFaultEffect
    <3> QED
      BY <2>1, <2>4, <3>1, AllowedApi, UnsentApi
  <2> QED
    BY <2>2, <2>3, <2>4 DEF Next
<1>3. OneCopyInv /\ Inv => AttemptsBounded
  <2> SUFFICES ASSUME OneCopyInv, AttemptsAllowed, NEW j \in Jobs PROVE attempts[j] <= Allowed
    BY DEF AttemptsBounded, Allowed
  <2>1. /\ attempts[j] \in Nat /\ faults \in Nat /\ MaxRetries \in Nat
        /\ attempts[j] + AttemptsLeft(j) <= Allowed
    BY BoundsAssumption DEF OneCopyInv, TypeOK, AttemptsAllowed
  <2>2. PICK n \in Nat : n = AttemptsLeft(j)
    BY LeftType DEF AttemptsAllowed
  <2>3. Allowed \in Nat
    BY <2>1 DEF Allowed
  <2> QED
    BY <2>1, <2>2, <2>3
<1> QED
  BY <1>1, <1>2, <1>3, OneCopyHolds, PTL DEF Spec
=============================================================================
