----------------------------- MODULE SQLiteQueue -----------------------------
(***************************************************************************)
(* SQLiteQueueBackend (job_queue.py) shared by worker processes that run   *)
(* JobQueue._worker_loop one job at a time, and by the API, which submits  *)
(* and cancels jobs.                                                       *)
(*                                                                         *)
(* A step is what one process does to the database in one transaction.     *)
(* Python's sqlite3 opens it at the first UPDATE or INSERT of a method, so *)
(* a SELECT before that is a step of its own, and what it read may be out  *)
(* of date when the transaction begins.                                    *)
(***************************************************************************)
EXTENDS Naturals, FiniteSets

CONSTANTS Worker,      \* the worker processes
          NoWorker,
          NumJobs,     \* jobs are numbered in the order dequeue prefers them
          MaxSize,     \* max_size of the queue
          MaxRetries,  \* max_retries of every job
          MaxCrashes   \* bound: how often worker processes die

Job == 1 .. NumJobs

ASSUME QueueAssumption ==
  /\ IsFiniteSet(Worker) /\ Worker # {} /\ NoWorker \notin Worker
  /\ NumJobs \in Nat /\ MaxSize \in Nat /\ MaxRetries \in Nat /\ MaxCrashes \in Nat

VARIABLES status,     \* the status column; "new" and "counted": not in the table yet
          retries,    \* the retry_count column
          owner,      \* the worker_id column
          overdue,    \* is started_at further back than claim_timeout?
          ttlOver,    \* has expires_at passed, as the processes read the clock?
          pc,         \* where each worker is in its loop
          job,        \* the job it is running, 0 for none
          dead,       \* the jobs whose lease it has read to be over
          budget,     \* the jobs it has read to have retries left
          claims,     \* history: how often each job was handed to a worker
          crashes     \* how many worker processes have died

rowVars    == <<status, retries, owner, overdue, ttlOver>>
workerVars == <<pc, job, dead, budget>>
vars       == <<rowVars, workerVars, claims, crashes>>

Terminal  == {"completed", "dead_letter", "cancelled"}
JobStatus == {"new", "counted", "queued", "processing"} \cup Terminal

Active(st) == {j \in Job : st[j] \in {"queued", "processing"}}

-----------------------------------------------------------------------------
(* enqueue: the SELECT COUNT, then the INSERT.                             *)
CountJobs(j) ==
  /\ status[j] = "new"
  /\ Cardinality(Active(status)) < MaxSize
  /\ status' = [status EXCEPT ![j] = "counted"]
  /\ UNCHANGED <<retries, owner, overdue, ttlOver, workerVars, claims, crashes>>

Insert(j) ==
  /\ status[j] = "counted"
  /\ status' = [status EXCEPT ![j] = "queued"]
  /\ UNCHANGED <<retries, owner, overdue, ttlOver, workerVars, claims, crashes>>

(* cancel: of a queued or processing job; a worker that runs it is not     *)
(* told.                                                                   *)
CancelJob(j) ==
  /\ status[j] \in {"queued", "processing"}
  /\ status' = [status EXCEPT ![j] = "cancelled"]
  /\ UNCHANGED <<retries, owner, overdue, ttlOver, workerVars, claims, crashes>>

-----------------------------------------------------------------------------
(* Defects of ReadDead: one that never looks for a dead worker's job, and  *)
(* one that counts the coming attempt as a retry already made.             *)
ReadDeadNever(w) ==
  /\ pc[w] = "idle"
  /\ pc' = [pc EXCEPT ![w] = "claiming"]
  /\ UNCHANGED <<rowVars, job, dead, budget, claims, crashes>>

ReadDeadEarly(w) ==
  /\ pc[w] = "idle"
  /\ LET lapsed == {j \in Job : status[j] = "processing" /\ overdue[j]}
     IN  /\ dead' = [dead EXCEPT ![w] = lapsed]
         /\ budget' = [budget EXCEPT ![w] = {j \in lapsed : retries[j] + 1 < MaxRetries}]
  /\ pc' = [pc EXCEPT ![w] = "claiming"]
  /\ UNCHANGED <<rowVars, job, claims, crashes>>

(* dequeue before its transaction: SELECT the jobs whose lease is over.    *)
ReadDead(w) ==
  /\ pc[w] = "idle"
  /\ LET lapsed == {j \in Job : status[j] = "processing" /\ overdue[j]}
     IN  /\ dead' = [dead EXCEPT ![w] = lapsed]
         /\ budget' = [budget EXCEPT ![w] = {j \in lapsed : retries[j] < MaxRetries}]
  /\ pc' = [pc EXCEPT ![w] = "claiming"]
  /\ UNCHANGED <<rowVars, job, claims, crashes>>

(* The UPDATEs of dequeue before a job is chosen: the dead jobs are put    *)
(* back or given up, by id only, then the TTL of queued jobs is applied.   *)
Reclaimed(w) ==
  [j \in Job |-> IF j \in budget[w] THEN "queued"
                 ELSE IF j \in dead[w] THEN "dead_letter" ELSE status[j]]

Swept(w) ==
  [j \in Job |-> IF Reclaimed(w)[j] = "queued" /\ ttlOver[j] THEN "dead_letter"
                 ELSE Reclaimed(w)[j]]

Ready(w) == {j \in Job : Swept(w)[j] = "queued"}

(* Defect of PutBack: a reclaimed job is run again for free.               *)
PutBackFree(w) == retries' = retries

PutBack(w) ==
  retries' = [j \in Job |-> IF j \in budget[w] THEN retries[j] + 1 ELSE retries[j]]

Forget(w) ==
  /\ dead' = [dead EXCEPT ![w] = {}]
  /\ budget' = [budget EXCEPT ![w] = {}]

ClaimNothing(w) ==
  /\ pc[w] = "claiming"
  /\ Ready(w) = {}
  /\ status' = Swept(w)
  /\ PutBack(w)
  /\ owner' = [j \in Job |-> IF j \in budget[w] THEN NoWorker ELSE owner[j]]
  /\ overdue' = [j \in Job |-> overdue[j] /\ j \notin budget[w]]
  /\ pc' = [pc EXCEPT ![w] = "idle"]
  /\ Forget(w)
  /\ UNCHANGED <<ttlOver, job, claims, crashes>>

Claim(w) ==
  /\ pc[w] = "claiming"
  /\ \E j \in Ready(w) :
       /\ \A k \in Ready(w) : j <= k
       /\ status' = [Swept(w) EXCEPT ![j] = "processing"]
       /\ owner' = [k \in Job |-> IF k = j THEN w
                                  ELSE IF k \in budget[w] THEN NoWorker ELSE owner[k]]
       /\ overdue' = [k \in Job |-> overdue[k] /\ k \notin budget[w] \cup {j}]
       /\ job' = [job EXCEPT ![w] = j]
       /\ claims' = [claims EXCEPT ![j] = @ + 1]
  /\ PutBack(w)
  /\ pc' = [pc EXCEPT ![w] = "running"]
  /\ Forget(w)
  /\ UNCHANGED <<ttlOver, crashes>>

-----------------------------------------------------------------------------
(* The handler returned: complete, by id only.                             *)
Complete(w) ==
  /\ pc[w] = "running"
  /\ status' = [status EXCEPT ![job[w]] = "completed"]
  /\ pc' = [pc EXCEPT ![w] = "idle"]
  /\ job' = [job EXCEPT ![w] = 0]
  /\ UNCHANGED <<retries, owner, overdue, ttlOver, dead, budget, claims, crashes>>

(* Defect of ReadRetries: fail retries whatever the count.                 *)
ReadRetriesBlind(w) ==
  /\ pc[w] = "running"
  /\ budget' = [budget EXCEPT ![w] = {job[w]}]
  /\ pc' = [pc EXCEPT ![w] = "failing"]
  /\ UNCHANGED <<rowVars, job, dead, claims, crashes>>

(* The handler, or complete, raised: fail(retry=True), its SELECT first.   *)
ReadRetries(w) ==
  /\ pc[w] = "running"
  /\ budget' = [budget EXCEPT ![w] = {j \in {job[w]} : retries[j] < MaxRetries}]
  /\ pc' = [pc EXCEPT ![w] = "failing"]
  /\ UNCHANGED <<rowVars, job, dead, claims, crashes>>

Retry(w) ==
  LET j == job[w] IN
  /\ pc[w] = "failing"
  /\ j \in budget[w]
  /\ status' = [status EXCEPT ![j] = "queued"]
  /\ retries' = [retries EXCEPT ![j] = @ + 1]
  /\ owner' = [owner EXCEPT ![j] = NoWorker]
  /\ overdue' = [overdue EXCEPT ![j] = FALSE]
  /\ pc' = [pc EXCEPT ![w] = "idle"]
  /\ job' = [job EXCEPT ![w] = 0]
  /\ Forget(w)
  /\ UNCHANGED <<ttlOver, claims, crashes>>

GiveUp(w) ==
  /\ pc[w] = "failing"
  /\ job[w] \notin budget[w]
  /\ status' = [status EXCEPT ![job[w]] = "dead_letter"]
  /\ pc' = [pc EXCEPT ![w] = "idle"]
  /\ job' = [job EXCEPT ![w] = 0]
  /\ UNCHANGED <<retries, owner, overdue, ttlOver, dead, budget, claims, crashes>>

(* A worker process dies, or its loop is cancelled by stop_worker, and is  *)
(* started again; the rows are as it left them.                            *)
Crash(w) ==
  /\ pc[w] # "idle"
  /\ crashes < MaxCrashes
  /\ crashes' = crashes + 1
  /\ pc' = [pc EXCEPT ![w] = "idle"]
  /\ job' = [job EXCEPT ![w] = 0]
  /\ Forget(w)
  /\ UNCHANGED <<rowVars, claims>>

(* Time passes: a claim gets older than claim_timeout, a job older than    *)
(* its TTL.                                                                *)
LeaseEnds(j) ==
  /\ status[j] = "processing" /\ ~overdue[j]
  /\ overdue' = [overdue EXCEPT ![j] = TRUE]
  /\ UNCHANGED <<status, retries, owner, ttlOver, workerVars, claims, crashes>>

TtlEnds(j) ==
  /\ status[j] # "new" /\ ~ttlOver[j]
  /\ ttlOver' = [ttlOver EXCEPT ![j] = TRUE]
  /\ UNCHANGED <<status, retries, owner, overdue, workerVars, claims, crashes>>

-----------------------------------------------------------------------------
Init ==
  /\ status = [j \in Job |-> "new"]
  /\ retries = [j \in Job |-> 0]
  /\ owner = [j \in Job |-> NoWorker]
  /\ overdue = [j \in Job |-> FALSE]
  /\ ttlOver = [j \in Job |-> FALSE]
  /\ pc = [w \in Worker |-> "idle"]
  /\ job = [w \in Worker |-> 0]
  /\ dead = [w \in Worker |-> {}]
  /\ budget = [w \in Worker |-> {}]
  /\ claims = [j \in Job |-> 0]
  /\ crashes = 0

WorkerStep(w) ==
  \/ ReadDead(w)
  \/ ClaimNothing(w)
  \/ Claim(w)
  \/ Complete(w)
  \/ ReadRetries(w)
  \/ Retry(w)
  \/ GiveUp(w)

Next ==
  \/ \E w \in Worker : WorkerStep(w) \/ Crash(w)
  \/ \E j \in Job : \/ CountJobs(j)
                    \/ Insert(j)
                    \/ CancelJob(j)
                    \/ LeaseEnds(j)
                    \/ TtlEnds(j)

Spec == Init /\ [][Next]_vars

-----------------------------------------------------------------------------
TypeOK ==
  /\ status \in [Job -> JobStatus]
  /\ retries \in [Job -> Nat]
  /\ owner \in [Job -> Worker \cup {NoWorker}]
  /\ overdue \in [Job -> BOOLEAN]
  /\ ttlOver \in [Job -> BOOLEAN]
  /\ pc \in [Worker -> {"idle", "claiming", "running", "failing"}]
  /\ job \in [Worker -> Job \cup {0}]
  /\ dead \in [Worker -> SUBSET Job]
  /\ budget \in [Worker -> SUBSET Job]
  /\ claims \in [Job -> Nat]
  /\ crashes \in 0 .. MaxCrashes

(* Every run of a job after its first has been paid for with a retry, even *)
(* when processes act on what they read before another one moved the job.  *)
AttemptsAccounted == \A j \in Job : claims[j] <= retries[j] + 1

(* Two processes that both read a job to have one retry left can both use  *)
(* it, but a job never gets more than one retry too many per further       *)
(* process.                                                                *)
RetriesBounded ==
  \A j \in Job : retries[j] <= MaxRetries + Cardinality(Worker) - 1

(* A job is only given up when its retries are spent or its TTL is over.   *)
GivenUpForCause ==
  \A j \in Job : status[j] = "dead_letter" => retries[j] >= MaxRetries \/ ttlOver[j]

(* "Survives process restarts with zero job loss": a job that was accepted *)
(* comes to an end, whichever workers die.                                 *)
NoJobLost == \A j \in Job : (status[j] = "queued") ~> (status[j] \in Terminal)

(* "Multi-process safe": a worker keeps the job it has claimed until its   *)
(* lease is over.                                                          *)
LeaseRespected ==
  [][\A j \in Job : status[j] = "processing" /\ ~overdue[j] /\ status'[j] = "processing"
       => owner'[j] = owner[j]]_vars
=============================================================================
